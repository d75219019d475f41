-------------------------- MODULE BurstLinkProofs --------------------------
(***************************************************************************)
(* The adaptor and the burst memory, for every burst length, beat width,   *)
(* delay and page size, and for every behaviour of the requester.          *)
(***************************************************************************)
EXTENDS BurstLink, TLAPS

-----------------------------------------------------------------------------
(* Beats.                                                                   *)

LEMMA NatDiv ==
  ASSUME NEW m \in Nat, NEW n \in Nat \ {0}
  PROVE  m \div n \in Nat
<1>1. m \div n \in Int /\ m % n \in 0 .. n - 1 /\ m = n * (m \div n) + (m % n)
  OBVIOUS
<1> QED BY <1>1

(* A word is in exactly one beat, at one place of it.                       *)
LEMMA WordOfBeat ==
  ASSUME NEW w \in Words
  PROVE  /\ w \div WordsPerBeat \in Counts
         /\ w % WordsPerBeat \in 0 .. WordsPerBeat - 1
         /\ w = WordsPerBeat * (w \div WordsPerBeat) + (w % WordsPerBeat)
<1> DEFINE p == WordsPerBeat
           q == w \div p
           r == w % p
<1>1. p \in Nat /\ p > 0 /\ w \in Nat /\ MaxCount \in Nat /\ w < (MaxCount + 1) * p
  BY BurstAssumption
<1>2. q \in Int /\ r \in 0 .. p - 1 /\ w = p * q + r
  BY <1>1
<1>3. q >= 0
  BY <1>1, <1>2
<1>4. q <= MaxCount
  BY <1>1, <1>2, <1>3
<1> QED BY <1>1, <1>2, <1>3, <1>4 DEF Counts

(* Every place of every beat is a word of the line.                         *)
LEMMA BeatWords ==
  ASSUME NEW c \in Counts, NEW k \in 0 .. WordsPerBeat - 1
  PROVE  WordsPerBeat * c + k \in Words
<1>1. WordsPerBeat \in Nat /\ MaxCount \in Nat /\ c \in Nat /\ c <= MaxCount
  BY BurstAssumption DEF Counts
<1>2. (MaxCount - c) * WordsPerBeat >= 0
  BY <1>1
<1> QED BY <1>1, <1>2, BurstAssumption

LEMMA BeatType ==
  ASSUME NEW line \in Line, NEW c \in Counts
  PROVE  BeatOf(line, c) \in Beat
BY BeatWords DEF BeatOf, Beat, Line

LEMMA WithBeatType ==
  ASSUME NEW line \in Line, NEW c, NEW b \in Beat
  PROVE  WithBeat(line, c, b) \in Line
BY WordOfBeat DEF WithBeat, Beat, Line

(* A beat read from one line and written into another brings over the words *)
(* of that beat and no others.                                              *)
LEMMA BeatMoves ==
  ASSUME NEW line \in Line, NEW other \in Line, NEW c \in Counts, NEW w \in Words
  PROVE  WithBeat(line, c, BeatOf(other, c))[w]
           = IF w \div WordsPerBeat = c THEN other[w] ELSE line[w]
<1>1. CASE w \div WordsPerBeat = c
  <2>1. BeatOf(other, c)[w % WordsPerBeat] = other[w]
    BY <1>1, WordOfBeat DEF BeatOf
  <2> QED BY <1>1, <2>1 DEF WithBeat
<1>2. CASE w \div WordsPerBeat # c
  BY <1>2 DEF WithBeat
<1> QED BY <1>1, <1>2

(* The memory cuts lines into the same beats.                               *)
LEMMA SameBeats ==
  /\ \A line, c : Memory!BeatOf(line, c) = BeatOf(line, c)
  /\ \A line, c, b : Memory!WithBeat(line, c, b) = WithBeat(line, c, b)
BY DEF Memory!BeatOf, BeatOf, Memory!WithBeat, WithBeat

LEMMA SameTypes ==
  /\ Memory!Line = Line /\ Memory!LineAddr = LineAddr /\ Memory!Word = Word
  /\ Memory!Beat = Beat /\ Memory!Counts = Counts
BY DEF Memory!Line, Memory!LineAddr, Memory!Word, Memory!Beat, Memory!Counts,
       Line, LineAddr, Word, Beat, Counts

-----------------------------------------------------------------------------
(* Steps of the pair.                                                       *)

LEMMA InitIInv == Init => IInv
<1> SUFFICES ASSUME Init PROVE IInv
  OBVIOUS
<1> USE DEF Init, AdaptorReset, Memory!MemoryInit
<1>1. Memory!ZeroWord \in Word
  BY TypesAssumption DEF Memory!ZeroWord, Word
<1>2. TypeOK
  <2>1. rdata \in Beat
    BY <1>1 DEF Beat
  <2>2. addr \in LineAddr /\ beat \in Counts /\ delay \in Nat /\ pageno = -1
    BY TypesAssumption, BurstAssumption DEF LineAddr, Counts
  <2>3. Memory!MemoryTypeOK
    BY <2>1, <2>2, SameTypes, LinkAssumption DEF Memory!MemoryTypeOK
  <2> QED BY <2>3 DEF TypeOK, AdaptorTypeOK
<1>3. MemoryProtocol /\ InStep
  BY DEF MemoryProtocol, InStep
<1>4. BeatsMoved /\ LineMoved
  BY DEF BeatsMoved, LineMoved, resp_o
<1> QED BY <1>2, <1>3, <1>4 DEF IInv

(* What the memory does while it has nothing to do ...                      *)
LEMMA MemoryIdle ==
  ASSUME IInv, Memory!MemoryClock(pins), macro \in {"IDLE", "DONE"}
  PROVE  UNCHANGED memoryVars
<1>1. task = "none" /\ read_o = FALSE /\ write_o = FALSE
  BY DEF IInv, InStep, read_o, write_o
<1>2. pins.read = FALSE /\ pins.write = FALSE
  BY <1>1 DEF pins
<1>3. error = FALSE
  BY DEF IInv, TypeOK, Memory!MemoryTypeOK, MemoryProtocol
<1>4. Memory!NoTask(pins)
  BY <1>1, <1>2 DEF Memory!MemoryClock, Memory!StartTask, Memory!Delay, Memory!FirstBeat,
       Memory!EndBeat, Memory!Abort
<1>5. error' = error
  BY <1>2, <1>3, <1>4, Zenon DEF Memory!NoTask
<1> QED BY <1>4, <1>5 DEF Memory!NoTask, memoryVars

(* ... and while the adaptor asks for something: no assertion of the memory *)
(* can fail, because the adaptor drives what the task began with.           *)
LEMMA MemoryBusy ==
  ASSUME IInv, Memory!MemoryClock(pins), read_o \/ write_o
  PROVE  /\ error' = error
         /\ \/ task = "none" /\ Memory!StartTask(pins)
            \/ /\ task = IF read_o THEN "memread" ELSE "memwrite"
               /\ Memory!Steady(pins)
               /\ \/ Memory!Delay(pins)
                  \/ Memory!FirstBeat(pins)
                  \/ Memory!EndBeat(pins)
<1>1. pins.read = read_o /\ pins.write = write_o /\ pins.addr = addressbuf
  BY DEF pins
<1>2. \/ read_o = TRUE /\ write_o = FALSE
      \/ read_o = FALSE /\ write_o = TRUE
  BY DEF read_o, write_o
<1>3. CASE task = "none"
  <2>1. ~Memory!NoTask(pins)
    BY <1>1, <1>2 DEF Memory!NoTask
  <2>2. Memory!StartTask(pins)
    BY <1>3, <2>1 DEF Memory!MemoryClock, Memory!Delay, Memory!FirstBeat,
         Memory!EndBeat, Memory!Abort
  <2> QED BY <1>3, <2>2 DEF Memory!StartTask
<1>4. CASE task # "none"
  <2>1. task = (IF read_o THEN "memread" ELSE "memwrite") /\ addr = addressbuf
    BY <1>4 DEF IInv, InStep
  <2>2. Memory!Steady(pins)
    BY <1>1, <1>2, <2>1 DEF Memory!Steady
  <2>3. Memory!Delay(pins) \/ Memory!FirstBeat(pins) \/ Memory!EndBeat(pins)
    BY <1>4, <2>2 DEF Memory!MemoryClock, Memory!NoTask, Memory!StartTask, Memory!Abort
  <2> QED
    BY <2>1, <2>2, <2>3
       DEF Memory!Delay, Memory!FirstBeat, Memory!EndBeat, Memory!Checked
<1> QED BY <1>3, <1>4

-----------------------------------------------------------------------------
(* Types.                                                                   *)

LEMMA AdaptorTypes ==
  ASSUME TypeOK, NEW c \in LineRequest, AdaptorClock(c, resp, rdata)
  PROVE  AdaptorTypeOK'
<1> USE DEF AdaptorTypeOK
<1>1. AdaptorTypeOK /\ rdata \in Beat
  BY SameTypes DEF TypeOK, Memory!MemoryTypeOK
<1>2. 0 \in Counts /\ 1 \in Counts /\ Increment \in Counts
  <2>1. MaxCount \in Nat /\ MaxCount >= 1 /\ count \in Nat
    BY <1>1, BurstAssumption, LinkAssumption DEF Counts
  <2> QED BY <2>1 DEF Counts, Increment
<1>3. c.addr \in LineAddr /\ c.line \in Line
  BY DEF LineRequest
<1>4. WithBeat(linebuf, 0, rdata) \in Line /\ WithBeat(linebuf, count, rdata) \in Line
  BY <1>1, WithBeatType
<1> QED
  BY <1>1, <1>2, <1>3, <1>4
     DEF AdaptorClock, NoOp, StartRead, StartWrite, Wait, FirstReadBeat,
         FirstWriteBeat, NextReadBeat, NextWriteBeat, Finish, adaptorVars

(* Of the memory only what the adaptor can make it do.                      *)
LEMMA MemoryTyped ==
  ASSUME IInv, Memory!MemoryClock(pins)
  PROVE  Memory!MemoryTypeOK'
<1>1. /\ mem \in [LineAddr -> Line] /\ addr \in LineAddr /\ delay \in Nat
      /\ beat \in Counts /\ rdata \in Beat /\ error \in BOOLEAN /\ resp \in BOOLEAN
      /\ pageno \in Nat \union {-1} /\ task \in {"none", "memread", "memwrite"}
      /\ AdaptorTypeOK
  BY SameTypes DEF IInv, TypeOK, Memory!MemoryTypeOK
<1>2. /\ pins.addr \in LineAddr
      /\ pins.wdata \in Beat
  BY <1>1, BeatType DEF pins, burst_o, AdaptorTypeOK
<1>3. CASE UNCHANGED memoryVars
  BY <1>1, <1>3, SameTypes DEF memoryVars, Memory!MemoryTypeOK
<1>4. CASE error' = error /\ Memory!StartTask(pins)
  <2>1. Memory!PageOf(pins.addr) \in Nat
    <3>1. pins.addr[1] \in Nat
      BY <1>2, LinkAssumption DEF LineAddr
    <3> QED BY <3>1, NatDiv, LinkAssumption DEF Memory!PageOf
  <2> QED
    BY <1>1, <1>2, <1>4, <2>1, SameTypes, LinkAssumption, BurstAssumption
       DEF Memory!StartTask, Memory!MemoryTypeOK, Counts
<1>5. CASE Memory!Delay(pins)
  <2>1. delay' \in Nat
    BY <1>1, <1>5 DEF Memory!Delay
  <2>2. task' \in {"none", "memread", "memwrite"} /\ error' \in BOOLEAN
    BY <1>1, <1>5 DEF Memory!Delay, Memory!Checked
  <2> QED BY <1>1, <1>5, <2>1, <2>2, SameTypes DEF Memory!Delay, Memory!MemoryTypeOK
<1>6. CASE Memory!FirstBeat(pins)
  <2>1. Memory!BeatOf(mem[addr], 0) \in Beat
    BY <1>1, BeatType, SameBeats, BurstAssumption DEF Counts
  <2> QED
    BY <1>1, <1>6, <2>1, SameTypes
       DEF Memory!FirstBeat, Memory!Checked, Memory!MemoryTypeOK
<1>7. CASE Memory!EndBeat(pins)
  <2>1. Memory!WithBeat(mem[addr], beat, pins.wdata) \in Line
    BY <1>1, <1>2, WithBeatType, SameBeats
  <2>2. mem' \in [LineAddr -> Line]
    BY <1>1, <1>7, <2>1 DEF Memory!EndBeat
  <2>3. beat < MaxCount => beat + 1 \in Counts /\ Memory!BeatOf(mem[addr], beat + 1) \in Beat
    BY <1>1, BeatType, SameBeats, BurstAssumption DEF Counts
  <2> QED
    BY <1>1, <1>7, <2>2, <2>3, SameTypes
       DEF Memory!EndBeat, Memory!Checked, Memory!MemoryTypeOK
<1>8. macro \in {"IDLE", "DONE"} \/ read_o \/ write_o
  BY <1>1 DEF AdaptorTypeOK, read_o, write_o
<1> QED BY <1>3, <1>4, <1>5, <1>6, <1>7, <1>8, MemoryIdle, MemoryBusy

-----------------------------------------------------------------------------
(* The two stay in step and the beats arrive.                               *)

Progress == InStep /\ BeatsMoved /\ LineMoved

LEMMA StepIdle ==
  ASSUME IInv, NEW c \in LineRequests, Edge(c), macro \in {"IDLE", "DONE"}
  PROVE  Progress'
<1>1. UNCHANGED memoryVars /\ task = "none" /\ ~resp
  BY MemoryIdle DEF Edge, IInv, InStep
<1>2. NoOp(c) \/ StartRead(c) \/ StartWrite(c) \/ Finish
  BY DEF Edge, AdaptorClock, Wait, FirstReadBeat, FirstWriteBeat, NextReadBeat,
         NextWriteBeat
<1>3. /\ macro' \in {"IDLE", "WAITR", "WAITW"}
      /\ macro' = "WAITW" => count' = 0
  BY <1>2 DEF NoOp, StartRead, StartWrite, Finish, adaptorVars
<1>4. InStep' /\ LineMoved'
  BY <1>1, <1>3 DEF InStep, LineMoved, resp_o, memoryVars
<1>5. BeatsMoved'
  BY <1>1, <1>3 DEF BeatsMoved, memoryVars
<1> QED BY <1>4, <1>5 DEF Progress

(* While the adaptor waits the task is started, counts its delay and drives *)
(* the first beat.                                                          *)
LEMMA StepWait ==
  ASSUME IInv, NEW c \in LineRequests, Edge(c), Wait(resp)
  PROVE  Progress'
<1>1. /\ macro \in {"WAITR", "WAITW"} /\ ~resp /\ (read_o \/ write_o)
      /\ UNCHANGED adaptorVars
  BY DEF Wait, read_o, write_o
<1>2. /\ delay \in Nat
      /\ \/ task = "none"
         \/ addr = addressbuf /\ beat = 0 /\ delay > 0
  BY <1>1 DEF IInv, InStep, TypeOK, Memory!MemoryTypeOK
<1>3. \/ task = "none" /\ Memory!StartTask(pins)
      \/ /\ task = IF read_o THEN "memread" ELSE "memwrite"
         /\ addr = addressbuf
         /\ Memory!Steady(pins)
         /\ Memory!Delay(pins) \/ Memory!FirstBeat(pins)
  <2>1. Memory!MemoryClock(pins)
    BY DEF Edge
  <2>2. \/ task = "none" /\ Memory!StartTask(pins)
        \/ /\ task = IF read_o THEN "memread" ELSE "memwrite"
           /\ Memory!Steady(pins)
           /\ Memory!Delay(pins) \/ Memory!FirstBeat(pins) \/ Memory!EndBeat(pins)
    BY <1>1, <2>1, MemoryBusy
  <2>3. task # "none" => ~Memory!EndBeat(pins)
    BY <1>2 DEF Memory!EndBeat
  <2> QED BY <1>2, <2>2, <2>3
<1>4. read_o' = read_o /\ write_o' = write_o /\ macro' = macro /\ addressbuf' = addressbuf
  BY <1>1 DEF adaptorVars, read_o, write_o
<1>5. CASE task = "none" /\ Memory!StartTask(pins)
  <2>1. task' = (IF read_o THEN "memread" ELSE "memwrite") /\ addr' = addressbuf
    BY <1>5 DEF Memory!StartTask, pins
  <2>2. beat' = 0 /\ delay' > 0 /\ ~resp'
    BY <1>1, <1>5, LinkAssumption DEF Memory!StartTask
  <2>3. InStep'
    BY <1>1, <1>4, <2>1, <2>2 DEF InStep
  <2> QED
    BY <1>1, <1>4, <2>2, <2>3
       DEF Progress, BeatsMoved, LineMoved, resp_o, IInv, adaptorVars
<1>6. CASE /\ task = (IF read_o THEN "memread" ELSE "memwrite")
           /\ addr = addressbuf
           /\ Memory!Steady(pins)
           /\ Memory!Delay(pins)
  <2>1. delay' > 0 /\ UNCHANGED <<task, addr, beat, resp>>
    BY <1>2, <1>6 DEF Memory!Delay, Memory!Checked
  <2>2. InStep'
    BY <1>1, <1>2, <1>4, <1>6, <2>1 DEF InStep
  <2> QED
    BY <1>1, <1>4, <2>1, <2>2
       DEF Progress, BeatsMoved, LineMoved, resp_o, IInv, adaptorVars
<1>7. CASE /\ task = (IF read_o THEN "memread" ELSE "memwrite")
           /\ addr = addressbuf
           /\ Memory!Steady(pins)
           /\ Memory!FirstBeat(pins)
  <2>1. delay' = 0 /\ resp' = TRUE /\ beat = 0 /\ UNCHANGED <<task, addr, beat, mem>>
    BY <1>2, <1>7 DEF Memory!FirstBeat, Memory!Checked
  <2>2. InStep'
    BY <1>1, <1>4, <1>7, <2>1 DEF InStep
  <2>3. read_o => rdata' = BeatOf(mem[addr], 0)
    BY <1>7, SameBeats DEF Memory!FirstBeat
  <2> QED
    BY <1>1, <1>4, <2>1, <2>2, <2>3
       DEF Progress, BeatsMoved, LineMoved, resp_o, IInv, adaptorVars
<1> QED BY <1>3, <1>5, <1>6, <1>7

(* Every other edge is one of the burst: the memory ends the beat the       *)
(* adaptor counts.                                                          *)
LEMMA BeatEdge ==
  ASSUME IInv, NEW c \in LineRequests, Edge(c), read_o \/ write_o, resp
  PROVE  /\ Memory!EndBeat(pins) /\ Memory!Steady(pins)
         /\ task = IF read_o THEN "memread" ELSE "memwrite"
         /\ addr = addressbuf
         /\ beat \in Counts
         /\ macro \in {"WAITR", "WAITW"} => beat = 0
         /\ macro \in {"R", "W"} => beat = count /\ count > 0
<1>1. /\ task = IF read_o THEN "memread" ELSE "memwrite"
      /\ addr = addressbuf
      /\ delay = 0
      /\ macro \in {"WAITR", "WAITW"} => beat = 0
      /\ macro \in {"R", "W"} => beat = count /\ count > 0
  BY DEF IInv, InStep, read_o, write_o
<1>2. beat \in Counts
  BY SameTypes DEF IInv, TypeOK, Memory!MemoryTypeOK
<1>3. Memory!MemoryClock(pins)
  BY DEF Edge
<1>4. /\ Memory!Steady(pins)
      /\ Memory!Delay(pins) \/ Memory!FirstBeat(pins) \/ Memory!EndBeat(pins)
  BY <1>1, <1>3, MemoryBusy
<1>5. Memory!EndBeat(pins)
  BY <1>1, <1>4 DEF Memory!Delay, Memory!FirstBeat
<1> QED BY <1>1, <1>2, <1>4, <1>5

(* A read beat: the adaptor stores the beat n that is on the wires.         *)
LEMMA ReadBeat ==
  ASSUME IInv, NEW c \in LineRequests, Edge(c), read_o, resp,
         linebuf' = WithBeat(linebuf, beat, rdata),
         addressbuf' = addressbuf,
         Moved(beat)
  PROVE  /\ mem' = mem
         /\ \A w \in Words : w \div WordsPerBeat < beat + 1 =>
                              linebuf'[w] = mem[addressbuf][w]
         /\ beat < MaxCount => rdata' = BeatOf(mem[addr], beat + 1)
<1>1. /\ Memory!EndBeat(pins) /\ task = "memread" /\ addr = addressbuf /\ beat \in Counts
  BY BeatEdge
<1>2. mem' = mem /\ (beat < MaxCount => rdata' = BeatOf(mem[addr], beat + 1))
  <2>1. mem' = mem
    BY <1>1 DEF Memory!EndBeat
  <2>2. ASSUME beat < MaxCount PROVE rdata' = Memory!BeatOf(mem[addr], beat + 1)
    <3>1. beat # MaxCount
      BY <1>1, <2>2, BurstAssumption DEF Counts
    <3> QED BY <1>1, <3>1 DEF Memory!EndBeat
  <2> QED BY <2>1, <2>2, SameBeats
<1>3. linebuf \in Line /\ mem[addressbuf] \in Line
  BY SameTypes DEF IInv, TypeOK, AdaptorTypeOK, Memory!MemoryTypeOK
<1>4. linebuf' = WithBeat(linebuf, beat, BeatOf(mem[addressbuf], beat))
  BY <1>1 DEF IInv, BeatsMoved
<1>5. ASSUME NEW w \in Words, w \div WordsPerBeat < beat + 1
      PROVE  linebuf'[w] = mem[addressbuf][w]
  <2>1. linebuf'[w] = IF w \div WordsPerBeat = beat
                      THEN mem[addressbuf][w] ELSE linebuf[w]
    BY <1>1, <1>3, <1>4, BeatMoves
  <2>2. w \div WordsPerBeat = beat \/ w \div WordsPerBeat < beat
    BY <1>1, <1>5, WordOfBeat, BurstAssumption DEF Counts
  <2> QED BY <2>1, <2>2 DEF Moved
<1> QED BY <1>2, <1>5

(* A write beat: the memory stores the beat the adaptor drives.             *)
LEMMA WriteBeat ==
  ASSUME IInv, NEW c \in LineRequests, Edge(c), write_o, resp,
         UNCHANGED <<linebuf, addressbuf>>,
         count = beat,
         Moved(beat)
  PROVE  \A w \in Words : w \div WordsPerBeat < beat + 1 =>
                            linebuf[w] = mem'[addressbuf][w]
<1>1. /\ Memory!EndBeat(pins) /\ task = "memwrite" /\ addr = addressbuf /\ beat \in Counts
  BY BeatEdge DEF read_o, write_o
<1>2. linebuf \in Line /\ mem[addressbuf] \in Line /\ addressbuf \in DOMAIN mem
  BY SameTypes DEF IInv, TypeOK, AdaptorTypeOK, Memory!MemoryTypeOK
<1>3. mem'[addressbuf] = WithBeat(mem[addressbuf], beat, BeatOf(linebuf, beat))
  BY <1>1, <1>2, SameBeats DEF Memory!EndBeat, pins, burst_o
<1>4. ASSUME NEW w \in Words, w \div WordsPerBeat < beat + 1
      PROVE  linebuf[w] = mem'[addressbuf][w]
  <2>1. mem'[addressbuf][w] = IF w \div WordsPerBeat = beat
                              THEN linebuf[w] ELSE mem[addressbuf][w]
    BY <1>1, <1>2, <1>3, BeatMoves
  <2>2. w \div WordsPerBeat = beat \/ w \div WordsPerBeat < beat
    BY <1>1, <1>4, WordOfBeat, BurstAssumption DEF Counts
  <2> QED BY <2>1, <2>2 DEF Moved
<1> QED BY <1>4

(* Both beats of an edge together: the burst goes on, or it ends with the   *)
(* whole line moved.                                                        *)
LEMMA StepBeat ==
  ASSUME IInv, NEW c \in LineRequests, Edge(c), read_o \/ write_o, resp
  PROVE  Progress'
<1>1. /\ Memory!EndBeat(pins) /\ Memory!Steady(pins)
      /\ addr = addressbuf /\ beat \in Counts
      /\ task = IF read_o THEN "memread" ELSE "memwrite"
      /\ macro \in {"WAITR", "WAITW"} => beat = 0
      /\ macro \in {"R", "W"} => beat = count /\ count > 0
  BY BeatEdge
<1>2. MaxCount \in Nat /\ MaxCount >= 1 /\ beat \in Nat /\ beat <= MaxCount
  BY <1>1, BurstAssumption, LinkAssumption DEF Counts
<1>3. Moved(beat)
  <2>1. CASE beat = 0
    <3>1. ASSUME NEW w \in Words PROVE ~(w \div WordsPerBeat < 0)
      <4>1. w \div WordsPerBeat \in Counts
        BY WordOfBeat
      <4> QED BY <4>1, BurstAssumption DEF Counts
    <3> QED BY <2>1, <3>1 DEF Moved
  <2>2. CASE beat # 0
    BY <1>1, <2>2 DEF IInv, BeatsMoved, read_o, write_o
  <2> QED BY <2>1, <2>2
<1>4. macro = "WAITW" => count = 0
  BY DEF IInv, BeatsMoved
<1>5. /\ addressbuf' = addressbuf
      /\ read_o => linebuf' = WithBeat(linebuf, beat, rdata)
      /\ write_o => linebuf' = linebuf /\ count = beat
      /\ beat < MaxCount => /\ count' = beat + 1
                            /\ macro' = IF read_o THEN "R" ELSE "W"
      /\ beat = MaxCount => macro' = "DONE"
  <2>1. FirstReadBeat(resp, rdata) \/ FirstWriteBeat(resp)
          \/ NextReadBeat(rdata) \/ NextWriteBeat
    BY DEF Edge, AdaptorClock, NoOp, StartRead, StartWrite, Wait, Finish, read_o, write_o
  <2>2. count \in Nat /\ (count < MaxCount => Increment = count + 1)
    <3>1. count \in Nat
      BY BurstAssumption DEF IInv, TypeOK, AdaptorTypeOK, Counts
    <3> QED BY <1>2, <3>1 DEF Increment
  <2> QED
    BY <1>1, <1>2, <1>4, <2>1, <2>2
       DEF FirstReadBeat, FirstWriteBeat, NextReadBeat, NextWriteBeat, read_o, write_o
<1>6. /\ addr' = addressbuf' /\ delay' = 0
      /\ beat < MaxCount => beat' = beat + 1 /\ resp' /\ task' = task
      /\ beat = MaxCount => task' = "none" /\ ~resp'
  BY <1>1, <1>2, <1>5 DEF Memory!EndBeat, Memory!Checked
<1>7. /\ \A w \in Words : w \div WordsPerBeat < beat + 1 =>
                          linebuf'[w] = mem'[addressbuf'][w]
      /\ read_o /\ beat < MaxCount => rdata' = BeatOf(mem'[addr'], beat')
  <2>1. CASE read_o
    BY <1>1, <1>3, <1>5, <1>6, <2>1, ReadBeat
  <2>2. CASE write_o /\ ~read_o
    BY <1>1, <1>3, <1>5, <1>6, <2>2, WriteBeat
  <2> QED BY <2>1, <2>2
<1>8. CASE beat < MaxCount
  <2>1. macro' \in {"R", "W"} /\ (macro' = "R" <=> read_o) /\ read_o' = read_o
    BY <1>5, <1>8 DEF read_o
  <2>2. InStep'
    BY <1>1, <1>2, <1>5, <1>6, <1>8, <2>1 DEF InStep
  <2>3. Moved(count)' /\ (read_o' => rdata' = BeatOf(mem'[addr'], beat'))
    BY <1>5, <1>7, <1>8, <2>1 DEF Moved
  <2> QED
    BY <2>1, <2>2, <2>3 DEF Progress, BeatsMoved, LineMoved, resp_o
<1>9. CASE beat = MaxCount
  <2>1. macro' = "DONE"
    BY <1>5, <1>9
  <2>2. InStep' /\ BeatsMoved'
    BY <1>6, <1>9, <2>1 DEF InStep, BeatsMoved, read_o
  <2>3. linebuf' = mem'[addressbuf']
    <3>1. AdaptorTypeOK' /\ Memory!MemoryTypeOK'
      BY AdaptorTypes, MemoryTyped, LinkAssumption DEF Edge, IInv
    <3>2. linebuf' \in Line /\ mem'[addressbuf'] \in Line
      BY <3>1, SameTypes DEF AdaptorTypeOK, Memory!MemoryTypeOK
    <3>3. \A w \in Words : linebuf'[w] = mem'[addressbuf'][w]
      BY <1>2, <1>7, <1>9, WordOfBeat DEF Counts
    <3> QED BY <3>2, <3>3 DEF Line
  <2> QED BY <2>2, <2>3 DEF Progress, LineMoved
<1> QED BY <1>2, <1>8, <1>9

-----------------------------------------------------------------------------
(* The invariant and what follows from it.                                  *)

LEMMA StepIInv ==
  ASSUME IInv, NEW c \in LineRequests, Edge(c)
  PROVE  IInv'
<1>1. Memory!MemoryClock(pins)
  BY DEF Edge
<1>2. TypeOK'
  BY <1>1, AdaptorTypes, MemoryTyped, LinkAssumption DEF Edge, IInv, TypeOK
<1>3. macro \in {"IDLE", "DONE"} \/ read_o \/ write_o
  BY DEF IInv, TypeOK, AdaptorTypeOK, read_o, write_o
<1>4. MemoryProtocol'
  <2>1. error' = error
    BY <1>1, <1>3, MemoryIdle, MemoryBusy DEF memoryVars
  <2> QED BY <2>1 DEF MemoryProtocol, IInv
<1>5. Progress'
  <2>1. CASE macro \in {"IDLE", "DONE"}
    BY <2>1, StepIdle
  <2>2. CASE (read_o \/ write_o) /\ resp
    BY <2>2, StepBeat
  <2>3. CASE (read_o \/ write_o) /\ ~resp
    <3>1. macro \in {"WAITR", "WAITW"}
      BY <2>3 DEF IInv, InStep, read_o, write_o
    <3>2. Wait(resp)
      BY <2>3, <3>1 DEF Edge, AdaptorClock, NoOp, StartRead, StartWrite, FirstReadBeat,
           FirstWriteBeat, NextReadBeat, NextWriteBeat, Finish
    <3> QED BY <3>2, StepWait
  <2> QED BY <1>3, <2>1, <2>2, <2>3
<1> QED BY <1>2, <1>4, <1>5 DEF IInv, Progress

LEMMA Stutter == IInv /\ UNCHANGED vars => IInv'
BY DEF vars, adaptorVars, memoryVars, IInv, TypeOK, AdaptorTypeOK, Memory!MemoryTypeOK,
       MemoryProtocol, InStep, BeatsMoved, Moved, LineMoved, read_o, resp_o

(* The inductive invariant of the pair.                                     *)
THEOREM Invariance == Spec => []IInv
<1>1. IInv /\ [Next]_vars => IInv'
  BY StepIInv, Stutter DEF Next
<1> QED BY InitIInv, <1>1, PTL DEF Spec

(* Every register keeps a value of its type: the counter stays below the    *)
(* burst length, whatever the length.                                       *)
THEOREM TypeCorrect == Spec => []TypeOK
BY Invariance, PTL DEF IInv

(* No assertion of param_memory.sv fails, whatever the arbiter does, for    *)
(* every delay and every burst length of at least two beats.                *)
THEOREM ProtocolKept == Spec => []MemoryProtocol
BY Invariance, PTL DEF IInv

(* The adaptor counts the beats of the memory without looking at resp_i.    *)
THEOREM BeatsTogether == Spec => []BeatsInStep
<1>1. IInv => BeatsInStep
  BY DEF IInv, InStep, BeatsInStep, TypeOK, AdaptorTypeOK, read_o
<1> QED BY <1>1, Invariance, PTL

(* resp_o means that the line in the adaptor and the line in memory are the *)
(* same.                                                                    *)
THEOREM LineDelivered == Spec => []LineMoved
BY Invariance, PTL DEF IInv

(* What an edge does to the memory: nothing, or it takes the beat the       *)
(* adaptor drives.                                                          *)
LEMMA MemoryMoves ==
  ASSUME IInv, NEW c \in LineRequests, Edge(c)
  PROVE  \/ mem' = mem
         \/ /\ write_o /\ resp
            /\ mem' = [mem EXCEPT ![addressbuf] =
                 [w \in Words |-> IF w \div WordsPerBeat = count
                                  THEN linebuf[w] ELSE @[w]]]
<1>1. Memory!MemoryClock(pins)
  BY DEF Edge
<1>2. macro \in {"IDLE", "DONE"} \/ read_o \/ write_o
  BY DEF IInv, TypeOK, AdaptorTypeOK, read_o, write_o
<1>3. mem' = mem \/ (Memory!EndBeat(pins) /\ (read_o \/ write_o))
  BY <1>1, <1>2, MemoryIdle, MemoryBusy
     DEF memoryVars, Memory!StartTask, Memory!Delay, Memory!FirstBeat
<1>4. CASE Memory!EndBeat(pins) /\ (read_o \/ write_o)
  <2>1. resp /\ task = (IF read_o THEN "memread" ELSE "memwrite") /\ addr = addressbuf
    BY <1>4 DEF IInv, InStep, Memory!EndBeat
  <2>2. CASE read_o
    BY <1>4, <2>1, <2>2 DEF Memory!EndBeat
  <2>3. CASE ~read_o
    <3>1. write_o /\ beat = count /\ count \in Counts
      BY <1>4, <2>1, <2>3 DEF IInv, InStep, BeatsMoved, TypeOK, AdaptorTypeOK, read_o, write_o
    <3>2. mem' = [mem EXCEPT ![addressbuf] = WithBeat(mem[addressbuf], count, BeatOf(linebuf, count))]
      BY <1>4, <2>1, <2>3, <3>1, SameBeats DEF Memory!EndBeat, pins, burst_o
    <3>3. linebuf \in Line /\ mem[addressbuf] \in Line
      BY SameTypes DEF IInv, TypeOK, AdaptorTypeOK, Memory!MemoryTypeOK
    <3>4. WithBeat(mem[addressbuf], count, BeatOf(linebuf, count))
            = [w \in Words |-> IF w \div WordsPerBeat = count
                               THEN linebuf[w] ELSE mem[addressbuf][w]]
      BY <3>1, <3>3, BeatMoves DEF WithBeat
    <3> QED BY <2>1, <3>1, <3>2, <3>4
  <2> QED BY <2>2, <2>3
<1> QED BY <1>3, <1>4

(* No line changes but the one a write addresses, and only in its burst.    *)
THEOREM WritesOnlyAddressed == Spec => OnlyAddressed
<1> DEFINE A == \A a \in LineAddr : mem'[a] # mem[a] => write_o /\ resp /\ a = addressbuf
<1>1. ASSUME IInv, NEW c \in LineRequests, Edge(c) PROVE A
  <2>1. mem \in [LineAddr -> Line]
    BY <1>1, SameTypes DEF IInv, TypeOK, Memory!MemoryTypeOK
  <2> QED BY <1>1, <2>1, MemoryMoves
<1>2. IInv /\ [Next]_vars => [A]_vars
  BY <1>1 DEF Next
<1> QED BY <1>2, Invariance, PTL DEF Spec, OnlyAddressed

-----------------------------------------------------------------------------
(* The pair is an atomic memory of lines.                                   *)

(* While the beats of a write go over, the line of the adaptor stands for   *)
(* the one they replace.                                                    *)
LEMMA WriteHidden ==
  ASSUME IInv, NEW c \in LineRequests, Edge(c), write_o
  PROVE  /\ [mem' EXCEPT ![addressbuf] = linebuf] = [mem EXCEPT ![addressbuf] = linebuf]
         /\ mem'[addressbuf] = linebuf => mem' = [mem EXCEPT ![addressbuf] = linebuf]
<1>1. mem \in [LineAddr -> Line]
  BY SameTypes DEF IInv, TypeOK, Memory!MemoryTypeOK
<1>2. mem' \in [LineAddr -> Line]
  BY StepIInv, SameTypes DEF IInv, TypeOK, Memory!MemoryTypeOK
<1>3. \A a \in LineAddr : a # addressbuf => mem'[a] = mem[a]
  BY <1>1, MemoryMoves
<1> QED BY <1>1, <1>2, <1>3

(* An edge that takes a request ...                                         *)
LEMMA TakingEdge ==
  ASSUME IInv, NEW c \in LineRequests, Edge(c), macro = "IDLE"
  PROVE  LineTaken(c) \/ UNCHANGED lineView
<1>1. mem' = mem
  BY MemoryIdle DEF Edge, memoryVars
<1>2. NoOp(c) \/ StartRead(c) \/ StartWrite(c)
  BY DEF Edge, AdaptorClock, Wait, FirstReadBeat, FirstWriteBeat, NextReadBeat,
         NextWriteBeat, Finish
<1> USE DEF lines, phase, answer, read_o, write_o, resp_o
<1>3. CASE NoOp(c)
  BY <1>1, <1>3 DEF NoOp, adaptorVars, lineView
<1>4. CASE StartRead(c)
  BY <1>1, <1>4 DEF StartRead, LineTaken
<1>5. CASE StartWrite(c)
  BY <1>1, <1>5 DEF StartWrite, LineTaken
<1> QED BY <1>2, <1>3, <1>4, <1>5

(* ... one that moves a beat of a read ...                                  *)
LEMMA ReadingEdge ==
  ASSUME IInv, NEW c \in LineRequests, Edge(c), read_o
  PROVE  LineAnswered \/ UNCHANGED lineView
<1>1. macro \in {"WAITR", "R"} /\ ~write_o
  BY DEF read_o, write_o
<1>2. mem' = mem
  BY <1>1, MemoryMoves
<1>3. addressbuf' = addressbuf /\ macro' \in {"WAITR", "R", "DONE"}
  BY <1>1 DEF Edge, AdaptorClock, NoOp, StartRead, StartWrite, Wait, FirstReadBeat,
       FirstWriteBeat, NextReadBeat, NextWriteBeat, Finish, adaptorVars
<1>4. LineMoved'
  BY StepIInv DEF IInv
<1> QED
  BY <1>1, <1>2, <1>3, <1>4
     DEF lineView, lines, phase, answer, LineAnswered, LineMoved, write_o, resp_o

(* ... one that moves a beat of a write.                                    *)
LEMMA WritingEdge ==
  ASSUME IInv, NEW c \in LineRequests, Edge(c), write_o
  PROVE  LineAnswered \/ UNCHANGED lineView
<1>1. macro \in {"WAITW", "W"}
  BY DEF write_o
<1>2. UNCHANGED <<linebuf, addressbuf>> /\ macro' \in {"WAITW", "W", "DONE"}
  BY <1>1 DEF Edge, AdaptorClock, NoOp, StartRead, StartWrite, Wait, FirstReadBeat,
       FirstWriteBeat, NextReadBeat, NextWriteBeat, Finish, adaptorVars
<1>3. LineMoved'
  BY StepIInv DEF IInv
<1>4. lines = [mem EXCEPT ![addressbuf] = linebuf] /\ phase = "taken" /\ answer = {}
  BY <1>1 DEF lines, phase, answer, write_o, resp_o
<1>5. CASE macro' = "DONE"
  <2>1. mem'[addressbuf] = linebuf
    BY <1>2, <1>3, <1>5 DEF LineMoved, resp_o
  <2>2. lines' = lines
    BY <1>4, <1>5, <2>1, WriteHidden DEF lines, write_o
  <2>3. lines[addressbuf] = linebuf
    BY <1>5, <2>1, <2>2 DEF lines, write_o
  <2> QED
    BY <1>2, <1>4, <1>5, <2>2, <2>3 DEF LineAnswered, phase, answer, resp_o
<1>6. CASE macro' # "DONE"
  <2>1. write_o' /\ phase' = "taken" /\ answer' = {}
    BY <1>2, <1>6 DEF write_o, phase, answer, resp_o
  <2>2. lines' = [mem' EXCEPT ![addressbuf] = linebuf]
    BY <1>2, <2>1 DEF lines
  <2> QED BY <1>2, <1>4, <2>1, <2>2, WriteHidden DEF lineView
<1> QED BY <1>5, <1>6

LEMMA ReleasingEdge ==
  ASSUME IInv, NEW c \in LineRequests, Edge(c), macro = "DONE"
  PROVE  LineReleased
<1>1. mem' = mem
  BY MemoryIdle DEF Edge, memoryVars
<1>2. Finish
  BY DEF Edge, AdaptorClock, NoOp, StartRead, StartWrite, Wait, FirstReadBeat,
         FirstWriteBeat, NextReadBeat, NextWriteBeat
<1> QED
  BY <1>1, <1>2 DEF Finish, LineReleased, lines, phase, answer, write_o, resp_o

(* For every burst length, width, delay and page size, and whatever the     *)
(* requester does in the middle of a burst, adaptor and memory are one      *)
(* atomic memory of lines (cacheline_adaptor.sv over param_memory.sv).      *)
THEOREM AtomicLineMemory == Spec => AtomicLines
<1>1. Init => LinesInit
  BY DEF Init, AdaptorReset, Memory!MemoryInit, LinesInit, lines, phase, answer,
         write_o, resp_o
<1>2. IInv /\ [Next]_vars => [LineStep]_lineView
  <2>1. ASSUME IInv, NEW c \in LineRequests, Edge(c)
        PROVE  LineStep \/ UNCHANGED lineView
    <3>1. macro \in {"IDLE", "DONE"} \/ read_o \/ write_o
      BY <2>1 DEF IInv, TypeOK, AdaptorTypeOK, read_o, write_o
    <3> QED
      BY <2>1, <3>1, TakingEdge, ReadingEdge, WritingEdge, ReleasingEdge DEF LineStep
  <2>2. UNCHANGED vars => UNCHANGED lineView
    BY DEF vars, adaptorVars, memoryVars, lineView, lines, phase, answer, write_o, resp_o
  <2> QED BY <2>1, <2>2 DEF Next
<1> QED BY <1>1, <1>2, Invariance, PTL DEF Spec, AtomicLines
=============================================================================
