-------------------------- MODULE MemSystemProofs --------------------------
(***************************************************************************)
(* The memory hierarchy of mp4.sv put together: the arbiter never mixes up *)
(* the two caches, the memory never sees a changed request, and the data   *)
(* port keeps the promise of CacheSystem, for all numbers of sets, line    *)
(* and burst sizes, delays, programs and memory images.                    *)
(*                                                                         *)
(* The proofs of the parts are used as they stand: Link is the adaptor     *)
(* with the memory (BurstLinkProofs), Port the data cache with everything  *)
(* behind it (CacheSystemProofs).                                          *)
(***************************************************************************)
EXTENDS MemSystem, TLAPS

LineRequest == [read : BOOLEAN, write : BOOLEAN, addr : LineAddr, line : Line]

Link == INSTANCE BurstLinkProofs WITH LineRequests <- LineRequest
Port == INSTANCE CacheSystemProofs
          WITH state <- d_state, data <- d_data, tag <- d_tag,
               valid <- d_valid, dirty <- d_dirty,
               req <- d_req, Requests <- DataRequests

-----------------------------------------------------------------------------
(* The inductive invariant.                                                 *)

(* The cache that has been granted the memory is still asking for it, and   *)
(* nobody is served without a grant.                                        *)
GrantHeld ==
  /\ grant = "idle" => macro = "IDLE"
  /\ grant = "instr" => ICache!pmem_read
  /\ grant = "data" => DCache!pmem_read \/ DCache!pmem_write(d_req)

(* What the adaptor has buffered is still what the granted cache drives.    *)
(* (The line only matters for a write; a fill overwrites it.)               *)
BufferedRequest ==
  /\ grant = "instr" /\ macro # "IDLE" =>
       /\ macro \notin {"WAITW", "W"}
       /\ addressbuf = AddrOf(i_req)
  /\ grant = "data" /\ macro # "IDLE" =>
       /\ macro \in {"WAITW", "W"} => DCache!pmem_write(d_req)
       /\ macro \in {"WAITR", "R"} => DCache!pmem_read
       /\ addressbuf = DCache!pmem_address(d_req)
       /\ DCache!pmem_write(d_req) => linebuf = d_data[d_req.index]

(* Nothing ever dirties a line of the instruction cache, which has no way   *)
(* to write one back.                                                       *)
InstrSide ==
  /\ i_req \in Fetches /\ id_pc \in Fetches /\ ir \in Word
  /\ ICache!CacheTypeOK
  /\ \A s \in Sets : ~i_dirty[s]

IInv ==
  /\ grant \in {"idle", "data", "instr"}
  /\ GrantHeld
  /\ BufferedRequest
  /\ InstrSide
  /\ Link!IInv
  /\ Port!IInv

(* What FetchesImage adds, for a program that does not store into its code: *)
(* no copy of a line of code, in the memory or in a cache, ever differs     *)
(* from the image.                                                          *)
CodeKept ==
  /\ Requested(d_req) => d_req \in DataRequests
  /\ \A f \in Fetches :
       /\ mem[AddrOf(f)] = Image[AddrOf(f)]
       /\ d_dirty[f.index] => d_tag[f.index] # f.tag
       /\ ICache!hit(f) /\ ~(ICache!pmem_read /\ i_req.index = f.index) =>
            i_data[f.index] = Image[AddrOf(f)]

-----------------------------------------------------------------------------
(* The parts in the words of their own proofs.  An instance repeats the     *)
(* definitions it extends; the copies are the same.                         *)

LEMMA SameData ==
  /\ Link!Line = Line /\ Link!LineAddr = LineAddr /\ Link!Word = Word
  /\ Link!LineRequest = LineRequest
  /\ Port!Line = Line /\ Port!LineAddr = LineAddr /\ Port!Word = Word
  /\ Port!Request = Request /\ Port!ZeroLine = ZeroLine /\ Port!ZeroWord = ZeroWord
  /\ ICache!Line = Line /\ ICache!Word = Word
  /\ \A r : /\ Port!Requested(r) = Requested(r) /\ Port!AddrOf(r) = AddrOf(r)
            /\ Port!NoRequest(r) = NoRequest(r)
            /\ DCache!AddrOf(r) = AddrOf(r) /\ ICache!AddrOf(r) = AddrOf(r)
            /\ DCache!Requested(r) = Requested(r) /\ ICache!Requested(r) = Requested(r)
  /\ \A R, r : Port!Bubbles(R, r) = Bubbles(R, r)
BY DEF Link!Line, Link!LineAddr, Link!Word, Link!LineRequest, Line, LineAddr, Word,
       LineRequest, Port!Line, Port!LineAddr, Port!Word, Port!Request, Request,
       Port!ZeroLine, Port!ZeroWord, ZeroLine, ZeroWord, ICache!Line, ICache!Word,
       Port!Requested, Requested, Port!AddrOf, AddrOf, Port!NoRequest, NoRequest,
       Port!Bubbles, Bubbles, DCache!AddrOf, ICache!AddrOf, DCache!Requested,
       ICache!Requested

(* What the instances assume of their constants.                            *)
LEMMA LinkConstants ==
  /\ Image \in [Link!LineAddr -> Link!Line]
  /\ LineRequest \subseteq Link!LineRequest
  /\ MaxCount \in Nat /\ MaxCount >= 1
BY SameData, PortAssumption, BurstMemoryAssumption

LEMMA PortConstants ==
  /\ DataRequests \subseteq Port!Request
  /\ \A r \in DataRequests : Port!Requested(r)
  /\ Image \in [Port!LineAddr -> Port!Line]
  /\ NoLoad \notin Port!Word
BY SameData, PortAssumption

(* The lemmas of the parts that are used below.                             *)
LEMMA LinkStep ==
  ASSUME Link!IInv, NEW c \in LineRequest, Link!Edge(c)
  PROVE  Link!IInv'
BY LinkConstants, BurstMemoryAssumption, TypesAssumption, Link!StepIInv DEF Link!StepIInv

LEMMA LinkStutter == Link!IInv /\ UNCHANGED Link!vars => Link!IInv'
BY LinkConstants, BurstMemoryAssumption, TypesAssumption, Link!Stutter DEF Link!Stutter

LEMMA LinkInit == Link!Init => Link!IInv
BY LinkConstants, BurstMemoryAssumption, TypesAssumption, Link!InitIInv DEF Link!InitIInv

LEMMA LinkMoves ==
  ASSUME Link!IInv, NEW c \in LineRequest, Link!Edge(c)
  PROVE  \/ mem' = mem
         \/ /\ macro \in {"WAITW", "W"}
            /\ mem' = [mem EXCEPT ![addressbuf] =
                 [w \in Words |-> IF w \div WordsPerBeat = count
                                  THEN linebuf[w] ELSE @[w]]]
BY LinkConstants, BurstMemoryAssumption, TypesAssumption, Link!MemoryMoves
   DEF Link!MemoryMoves, Link!write_o

LEMMA PortStep == Port!IInv /\ Port!Next => Port!IInv'
BY PortConstants, TypesAssumption, Port!InvStep DEF Port!InvStep

LEMMA PortInit == Port!Init => Port!IInv
BY PortConstants, TypesAssumption, Port!InvInit DEF Port!InvInit

(* The data cache and its port.                                             *)
LEMMA SameDataCache ==
  /\ Port!cacheVars = DCache!cacheVars
  /\ Port!pmem_read = DCache!pmem_read
  /\ Port!CacheReset = DCache!CacheReset
  /\ \A r : /\ Port!hit(r) = DCache!hit(r)
            /\ Port!mem_resp(r) = DCache!mem_resp(r)
            /\ Port!pmem_write(r) = DCache!pmem_write(r)
            /\ Port!pmem_address(r) = DCache!pmem_address(r)
            /\ Port!pmem_wdata(r) = DCache!pmem_wdata(r)
            /\ Port!mem_rdata_cpu(r) = DCache!mem_rdata_cpu(r)
BY DEF Port!cacheVars, DCache!cacheVars, Port!pmem_read, DCache!pmem_read,
       Port!CacheReset, DCache!CacheReset, Port!ZeroLine, Port!ZeroWord,
       DCache!ZeroLine, DCache!ZeroWord, Port!hit, DCache!hit,
       Port!mem_resp, DCache!mem_resp, Port!Requested, DCache!Requested,
       Port!pmem_write, DCache!pmem_write, Port!dirty_out, DCache!dirty_out,
       Port!dirty_load, DCache!dirty_load, Port!dirty_in, DCache!dirty_in,
       Port!pmem_address, DCache!pmem_address, Port!AddrOf, DCache!AddrOf,
       Port!pmem_wdata, DCache!pmem_wdata, Port!line_out, DCache!line_out,
       Port!Stored, DCache!Stored, Port!Masked, DCache!Masked,
       Port!mem_wdata_line, DCache!mem_wdata_line,
       Port!mem_byte_enable_line, DCache!mem_byte_enable_line,
       Port!mem_rdata_cpu, DCache!mem_rdata_cpu, Port!mem_rdata, DCache!mem_rdata

LEMMA SameDataClock ==
  ASSUME NEW r, NEW presp, NEW line, DCache!CacheClock(r, presp, line)
  PROVE  Port!CacheClock(r, presp, line)
BY SameDataCache
   DEF Port!cacheVars, DCache!cacheVars, Port!CacheClock, DCache!CacheClock, Port!NoAccess, DCache!NoAccess,
       Port!ReadHit, DCache!ReadHit, Port!WriteHit, DCache!WriteHit,
       Port!MissClean, DCache!MissClean, Port!WriteBack, DCache!WriteBack,
       Port!FillWait, DCache!FillWait, Port!FillDone, DCache!FillDone,
       Port!Requested, DCache!Requested, Port!dirty_out, DCache!dirty_out,
       Port!dirty_load, DCache!dirty_load, Port!dirty_in, DCache!dirty_in,
       Port!Stored, DCache!Stored, Port!Masked, DCache!Masked,
       Port!mem_wdata_line, DCache!mem_wdata_line,
       Port!mem_byte_enable_line, DCache!mem_byte_enable_line

(* The adaptor and the memory.                                              *)
LEMMA SameLink ==
  ASSUME Next
  PROVE  Link!Edge(arbiter_request)
<1>1. Link!AdaptorClock(arbiter_request, resp, rdata)
  BY DEF Next, Adaptor!AdaptorClock, Adaptor!NoOp, Adaptor!StartRead, Adaptor!StartWrite,
     Adaptor!Wait, Adaptor!FirstReadBeat, Adaptor!FirstWriteBeat, Adaptor!NextReadBeat,
     Adaptor!NextWriteBeat, Adaptor!Finish, Adaptor!adaptorVars, Adaptor!Increment,
     Adaptor!WithBeat, Link!AdaptorClock, Link!NoOp, Link!StartRead, Link!StartWrite,
     Link!Wait, Link!FirstReadBeat, Link!FirstWriteBeat, Link!NextReadBeat,
     Link!NextWriteBeat, Link!Finish, Link!adaptorVars, Link!Increment, Link!WithBeat
<1>2. Link!pins = pins
  BY DEF Link!pins, pins, Link!read_o, Adaptor!read_o, Link!write_o, Adaptor!write_o,
     Link!burst_o, Adaptor!burst_o, Link!BeatOf, Adaptor!BeatOf
<1>3. Link!Memory!MemoryClock(pins)
  BY DEF Next, Memory!MemoryClock, Memory!NoTask, Memory!StartTask, Memory!Delay,
     Memory!FirstBeat, Memory!EndBeat, Memory!Abort, Memory!Checked, Memory!Steady,
     Memory!PageOf, Memory!BeatOf, Memory!WithBeat, Link!Memory!MemoryClock,
     Link!Memory!NoTask, Link!Memory!StartTask, Link!Memory!Delay,
     Link!Memory!FirstBeat, Link!Memory!EndBeat, Link!Memory!Abort,
     Link!Memory!Checked, Link!Memory!Steady, Link!Memory!PageOf,
     Link!Memory!BeatOf, Link!Memory!WithBeat
<1> QED BY <1>1, <1>2, <1>3 DEF Link!Edge

-----------------------------------------------------------------------------
(* Types and wires.                                                         *)

LEMMA StateTypes ==
  ASSUME IInv
  PROVE  /\ macro \in {"IDLE", "WAITR", "WAITW", "R", "W", "DONE"}
         /\ linebuf \in Line /\ addressbuf \in LineAddr
         /\ mem \in [LineAddr -> Line]
         /\ d_state \in {"check_hit", "read_mem"}
         /\ d_data \in [Sets -> Line] /\ d_tag \in [Sets -> Tags]
         /\ d_valid \in [Sets -> BOOLEAN] /\ d_dirty \in [Sets -> BOOLEAN]
         /\ d_req \in Request
         /\ i_state \in {"check_hit", "read_mem"}
         /\ i_data \in [Sets -> Line] /\ i_tag \in [Sets -> Tags]
         /\ i_valid \in [Sets -> BOOLEAN] /\ i_dirty \in [Sets -> BOOLEAN]
BY SameData
   DEF IInv, InstrSide, ICache!CacheTypeOK, Link!IInv, Link!TypeOK, Link!AdaptorTypeOK,
       Port!IInv, Port!TypeOK, Port!CacheTypeOK

LEMMA RequestParts ==
  ASSUME NEW r \in Request
  PROVE  /\ r.tag \in Tags /\ r.index \in Sets /\ r.word \in Words
         /\ AddrOf(r) \in LineAddr /\ AddrOf(r) = <<r.tag, r.index>>
         /\ r.op \in {"none", "read", "write"}
BY DEF Request, AddrOf, LineAddr

LEMMA FetchType ==
  ASSUME NEW r \in Fetches
  PROVE  r \in Request /\ r.op = "read" /\ Requested(r)
BY PortAssumption DEF Requested

LEMMA NoRequestIsNone ==
  ASSUME NEW r \in Request
  PROVE  ~Requested(NoRequest(r))
BY DEF Request, NoRequest, Requested

LEMMA NoLineIsLine == Arb!NoLine \in Line /\ ZeroWord \in Word /\ ZeroLine \in Line
BY TypesAssumption DEF Arb!NoLine, Arb!ZeroLine, Arb!ZeroWord, ZeroLine, ZeroWord, Line, Word

(* The wires of the data cache, state by state.                             *)
LEMMA DataWires ==
  ASSUME IInv
  PROVE  /\ DCache!pmem_read <=> d_state = "read_mem"
         /\ DCache!pmem_read => /\ ~DCache!pmem_write(d_req)
                                /\ DCache!pmem_address(d_req) = AddrOf(d_req)
                                /\ Requested(d_req) /\ ~DCache!mem_resp(d_req)
         /\ DCache!pmem_write(d_req) =>
              /\ d_state = "check_hit" /\ Requested(d_req) /\ ~DCache!hit(d_req)
              /\ ~DCache!mem_resp(d_req)
              /\ DCache!pmem_address(d_req) = <<d_tag[d_req.index], d_req.index>>
              /\ DCache!pmem_wdata(d_req) = d_data[d_req.index]
         /\ DCache!pmem_address(d_req) \in LineAddr
         /\ DCache!pmem_wdata(d_req) \in Line
<1>1. /\ d_req.index \in Sets
      /\ d_tag[d_req.index] \in Tags /\ AddrOf(d_req) \in LineAddr
      /\ d_data[d_req.index] \in Line
  BY StateTypes, RequestParts
<1>2. DCache!Stored(d_data[d_req.index], d_req) \in Line
  BY <1>1, StateTypes
     DEF DCache!Stored, DCache!Masked, DCache!mem_wdata_line, Line, Word, Request
<1>3. DCache!pmem_read => Requested(d_req)
  BY SameData, SameDataCache DEF IInv, Port!IInv, Port!FillForAMiss
<1> QED
  BY <1>1, <1>2, <1>3, SameData
     DEF DCache!pmem_read, DCache!pmem_write, DCache!pmem_address, DCache!pmem_wdata,
         DCache!line_out, DCache!mem_resp, DCache!dirty_out, DCache!dirty_load,
         DCache!dirty_in, LineAddr

(* Those of the instruction cache, which only ever reads.                   *)
LEMMA InstrWires ==
  ASSUME IInv
  PROVE  /\ i_req \in Request /\ i_req.op = "read"
         /\ ICache!pmem_read <=> i_state = "read_mem"
         /\ ICache!pmem_read => ~ICache!mem_resp(i_req)
         /\ ~ICache!pmem_write(i_req)
         /\ ICache!pmem_address(i_req) = AddrOf(i_req)
         /\ ICache!mem_resp(i_req) =>
              ICache!mem_rdata_cpu(i_req) = i_data[i_req.index][i_req.word]
BY FetchType, RequestParts, StateTypes, SameData
   DEF IInv, InstrSide, ICache!pmem_read, ICache!mem_resp, ICache!pmem_write,
       ICache!pmem_address, ICache!dirty_out, ICache!dirty_load, ICache!dirty_in,
       ICache!mem_rdata_cpu, ICache!line_out, ICache!mem_rdata

(* What the arbiter asks the adaptor for, grant by grant.                   *)
LEMMA ArbiterWires ==
  ASSUME IInv
  PROVE  /\ arbiter_request \in LineRequest
         /\ grant = "idle" => ~arbiter_request.read /\ ~arbiter_request.write
         /\ grant = "instr" => /\ arbiter_request.read /\ ~arbiter_request.write
                               /\ arbiter_request.addr = AddrOf(i_req)
         /\ grant = "data" =>
              /\ arbiter_request.read = DCache!pmem_read
              /\ arbiter_request.write = DCache!pmem_write(d_req)
              /\ arbiter_request.addr = DCache!pmem_address(d_req)
              /\ DCache!pmem_write(d_req) => arbiter_request.line = d_data[d_req.index]
<1>1. AddrOf(i_req) \in LineAddr /\ Arb!NoAddr \in LineAddr
  BY InstrWires, RequestParts, TypesAssumption DEF Arb!NoAddr, LineAddr
<1>2. /\ arbiter_request.read = Arb!pmem_read(data_side, instr_side)
      /\ arbiter_request.write = Arb!pmem_write(data_side)
      /\ arbiter_request.addr = Arb!pmem_address(data_side, instr_side)
      /\ arbiter_request.line = Arb!pmem_wburst(data_side)
  BY DEF arbiter_request
<1>3. /\ data_side.read = DCache!pmem_read
      /\ data_side.write = DCache!pmem_write(d_req)
      /\ data_side.addr = DCache!pmem_address(d_req)
      /\ data_side.line = DCache!pmem_wdata(d_req)
      /\ instr_side.read = ICache!pmem_read
      /\ instr_side.addr = AddrOf(i_req)
  BY InstrWires DEF data_side, instr_side
<1>4. grant \in {"idle", "data", "instr"} /\ (grant = "instr" => ICache!pmem_read)
  BY DEF IInv, GrantHeld
<1>5. /\ Arb!pmem_address(data_side, instr_side) =
           IF grant = "data" THEN DCache!pmem_address(d_req)
           ELSE IF grant = "instr" THEN AddrOf(i_req) ELSE Arb!NoAddr
      /\ Arb!pmem_read(data_side, instr_side) \in BOOLEAN
      /\ Arb!pmem_write(data_side) \in BOOLEAN
      /\ Arb!pmem_wburst(data_side) \in Line
  BY <1>3, <1>4, DataWires, NoLineIsLine
     DEF Arb!pmem_address, Arb!pmem_read, Arb!pmem_write, Arb!pmem_wburst
<1>6. arbiter_request \in LineRequest
  BY <1>1, <1>5, DataWires DEF arbiter_request, LineRequest
<1> QED
  BY <1>2, <1>3, <1>4, <1>5, <1>6, DataWires
     DEF Arb!pmem_read, Arb!pmem_write, Arb!pmem_wburst, DCache!pmem_read,
         DCache!pmem_write

-----------------------------------------------------------------------------
(* One edge, part by part.                                                  *)

(* A cache that waits for the memory stalls both ports.                     *)
LEMMA PortsHeld ==
  ASSUME IInv, Next,
         DCache!pmem_read \/ DCache!pmem_write(d_req) \/ ICache!pmem_read
  PROVE  UNCHANGED portVars
<1>1. stall
  BY DataWires, InstrWires DEF stall, instr_mem_resp, data_mem_resp
<1> QED BY <1>1 DEF Next, PipelineClock, Stall, LoadHazard, Advance

LEMMA GrantSteps ==
  ASSUME IInv, Next
  PROVE  /\ grant' \in {"idle", "data", "instr"}
         /\ grant = "idle" =>
              /\ grant' = "data" => DCache!pmem_read \/ DCache!pmem_write(d_req)
              /\ grant' = "instr" => ICache!pmem_read
         /\ grant # "idle" => grant' = IF macro = "DONE" THEN "idle" ELSE grant
BY DEF IInv, Next, Arb!ArbiterClock, Arb!GrantData, Arb!GrantInstr, Arb!StayIdle,
   Arb!Hold, Arb!Release, data_side, instr_side, adaptor_answer, Adaptor!resp_o

LEMMA AdaptorSteps ==
  ASSUME IInv, Next
  PROVE  /\ macro = "IDLE" =>
              IF arbiter_request.read
              THEN macro' = "WAITR" /\ addressbuf' = arbiter_request.addr
              ELSE IF arbiter_request.write
              THEN /\ macro' = "WAITW" /\ addressbuf' = arbiter_request.addr
                   /\ linebuf' = arbiter_request.line
              ELSE macro' = "IDLE"
         /\ macro \in {"WAITR", "R"} =>
              macro' \in {"WAITR", "R", "DONE"} /\ addressbuf' = addressbuf
         /\ macro \in {"WAITW", "W"} =>
              /\ macro' \in {"WAITW", "W", "DONE"}
              /\ addressbuf' = addressbuf /\ linebuf' = linebuf
         /\ macro = "DONE" => macro' = "IDLE"
BY StateTypes
   DEF Next, Adaptor!AdaptorClock, Adaptor!NoOp, Adaptor!StartRead, Adaptor!StartWrite,
       Adaptor!Wait, Adaptor!FirstReadBeat, Adaptor!FirstWriteBeat,
       Adaptor!NextReadBeat, Adaptor!NextWriteBeat, Adaptor!Finish, Adaptor!adaptorVars

(* The data cache on a miss: it goes on asking for the same until it is     *)
(* answered.                                                                *)
LEMMA DataWaits ==
  ASSUME IInv, Next, ~(grant = "data" /\ macro = "DONE")
  PROVE  /\ DCache!pmem_read =>
              /\ DCache!pmem_read' /\ ~(DCache!pmem_write(d_req)')
              /\ d_req' = d_req
              /\ DCache!pmem_address(d_req)' = AddrOf(d_req)
         /\ DCache!pmem_write(d_req) =>
              /\ DCache!pmem_write(d_req)' /\ ~DCache!pmem_read'
              /\ d_req' = d_req
              /\ DCache!pmem_address(d_req)' = DCache!pmem_address(d_req)
              /\ d_data'[d_req.index] = d_data[d_req.index]
<1>1. ~Arb!data_mem_resp(adaptor_answer)
  BY DEF Arb!data_mem_resp, adaptor_answer, Adaptor!resp_o
<1>2. DCache!CacheClock(d_req, Arb!data_mem_resp(adaptor_answer),
                        Arb!data_mem_burst(data_side, adaptor_answer))
  BY DEF Next
<1>3. CASE DCache!pmem_read
  <2>1. d_req' = d_req
    BY <1>3, PortsHeld DEF portVars
  <2>2. d_state' = "read_mem"
    BY <1>1, <1>2, <1>3, DataWires
       DEF DCache!CacheClock, DCache!NoAccess, DCache!ReadHit, DCache!WriteHit,
           DCache!MissClean, DCache!WriteBack, DCache!FillWait, DCache!FillDone,
           DCache!mem_resp, DCache!pmem_write
  <2> QED
    BY <1>3, <2>1, <2>2, DataWires, SameData
       DEF DCache!pmem_read, DCache!pmem_write, DCache!pmem_address, DCache!dirty_out,
           DCache!dirty_load, DCache!dirty_in
<1>4. CASE DCache!pmem_write(d_req)
  <2>1. d_req' = d_req
    BY <1>4, PortsHeld DEF portVars
  <2>2. UNCHANGED <<d_state, d_data, d_tag, d_valid, d_dirty>>
    BY <1>1, <1>2, <1>4, DataWires
       DEF DCache!CacheClock, DCache!NoAccess, DCache!ReadHit, DCache!WriteHit,
           DCache!MissClean, DCache!WriteBack, DCache!FillWait, DCache!FillDone,
           DCache!mem_resp, DCache!pmem_write, DCache!cacheVars
  <2>3. ~DCache!pmem_read'
    BY <1>4, <2>2, DataWires DEF DCache!pmem_read
  <2>4. DCache!pmem_write(d_req)' /\ DCache!pmem_address(d_req)' = DCache!pmem_address(d_req)
    BY <1>4, <2>1, <2>2
       DEF DCache!pmem_write, DCache!pmem_address, DCache!dirty_out, DCache!dirty_load,
           DCache!dirty_in, DCache!hit, DCache!mem_resp, DCache!Requested, DCache!AddrOf
  <2> QED BY <1>4, <2>1, <2>2, <2>3, <2>4, DataWires
<1> QED BY <1>3, <1>4, DataWires

(* The instruction cache has only four of the seven steps.                  *)
LEMMA InstrSteps ==
  ASSUME IInv, Next
  PROVE  \/ /\ ICache!mem_resp(i_req)
            /\ UNCHANGED icacheVars
         \/ /\ i_state = "check_hit" /\ ~ICache!hit(i_req) /\ i_state' = "read_mem"
            /\ UNCHANGED <<i_data, i_tag, i_valid, i_dirty>>
         \/ /\ i_state = "read_mem" /\ ~(grant = "instr" /\ macro = "DONE")
            /\ \E garbage \in Line : i_data' = [i_data EXCEPT ![i_req.index] = garbage]
            /\ i_dirty' = [i_dirty EXCEPT ![i_req.index] = FALSE]
            /\ UNCHANGED <<i_state, i_tag, i_valid>>
         \/ /\ i_state = "read_mem" /\ grant = "instr" /\ macro = "DONE"
            /\ i_data' = [i_data EXCEPT ![i_req.index] = linebuf]
            /\ i_dirty' = [i_dirty EXCEPT ![i_req.index] = FALSE]
            /\ i_tag' = [i_tag EXCEPT ![i_req.index] = i_req.tag]
            /\ i_valid' = [i_valid EXCEPT ![i_req.index] = TRUE]
            /\ i_state' = "check_hit"
<1>1. Arb!instr_mem_resp(adaptor_answer) <=> grant = "instr" /\ macro = "DONE"
  BY DEF Arb!instr_mem_resp, adaptor_answer, Adaptor!resp_o
<1>2. /\ Arb!instr_mem_burst(adaptor_answer) \in Line
      /\ grant = "instr" => Arb!instr_mem_burst(adaptor_answer) = linebuf
  BY NoLineIsLine, StateTypes DEF Arb!instr_mem_burst, adaptor_answer
<1>3. ICache!CacheClock(i_req, Arb!instr_mem_resp(adaptor_answer),
                        Arb!instr_mem_burst(adaptor_answer))
  BY DEF Next
<1> QED
  BY <1>1, <1>2, <1>3, InstrWires, FetchType, SameData
     DEF ICache!CacheClock, ICache!NoAccess, ICache!ReadHit, ICache!WriteHit,
         ICache!MissClean, ICache!WriteBack, ICache!FillWait, ICache!FillDone,
         ICache!mem_resp, ICache!cacheVars, icacheVars, IInv, InstrSide, Requested

-----------------------------------------------------------------------------
(* Every step keeps the invariant.                                          *)

LEMMA StepInstrSide ==
  ASSUME IInv, Next
  PROVE  InstrSide'
<1>1. i_req' \in Fetches /\ id_pc' \in Fetches /\ ir' \in Word
  <2>1. CASE UNCHANGED <<i_req, ir, id_pc>>
    BY <2>1 DEF IInv, InstrSide
  <2>2. CASE Advance
    <3>1. ICache!mem_resp(i_req)
      BY <2>2 DEF Advance, stall, instr_mem_resp
    <3>2. ICache!mem_rdata_cpu(i_req) \in Word
      BY <3>1, InstrWires, StateTypes, RequestParts DEF Line
    <3> QED BY <2>2, <3>2 DEF Advance, IInv, InstrSide
  <2> QED BY <2>1, <2>2 DEF Next, PipelineClock, Stall, LoadHazard, portVars
<1>2. i_req.index \in Sets /\ i_req.tag \in Tags
  BY InstrWires, RequestParts
<1>3. ICache!CacheTypeOK' /\ \A s \in Sets : ~i_dirty'[s]
  BY <1>2, InstrSteps, StateTypes, SameData DEF IInv, InstrSide, ICache!CacheTypeOK, icacheVars
<1> QED BY <1>1, <1>3 DEF InstrSide

LEMMA StepGrant ==
  ASSUME IInv, Next
  PROVE  GrantHeld' /\ BufferedRequest'
<1> USE DEF GrantHeld, BufferedRequest
<1>1. CASE grant = "idle"
  <2>1. macro = "IDLE" /\ macro' = "IDLE"
    BY <1>1, AdaptorSteps, ArbiterWires DEF IInv
  <2>2. grant' = "data" => DCache!pmem_read' \/ DCache!pmem_write(d_req)'
    BY <1>1, GrantSteps, DataWaits
  <2>3. grant' = "instr" => ICache!pmem_read'
    BY <1>1, GrantSteps, InstrSteps, InstrWires DEF ICache!pmem_read
  <2> QED BY <2>1, <2>2, <2>3
<1>2. CASE grant # "idle" /\ macro = "DONE"
  BY <1>2, GrantSteps, AdaptorSteps
<1>3. CASE grant = "instr" /\ macro # "DONE"
  <2>1. ICache!pmem_read /\ ICache!pmem_read' /\ i_req' = i_req
    BY <1>3, InstrSteps, InstrWires, PortsHeld DEF IInv, ICache!pmem_read, portVars
  <2>2. grant' = "instr"
    BY <1>3, GrantSteps
  <2>3. macro' \notin {"WAITW", "W"}
    BY <1>3, AdaptorSteps, ArbiterWires, StateTypes DEF IInv
  <2>4. addressbuf' = AddrOf(i_req)
    BY <1>3, AdaptorSteps, ArbiterWires, StateTypes DEF IInv
  <2> QED BY <2>1, <2>2, <2>3, <2>4 DEF AddrOf
<1>4. CASE grant = "data" /\ macro # "DONE"
  <2>1. grant' = "data"
    BY <1>4, GrantSteps
  <2>2. CASE DCache!pmem_read
    <3>1. macro' \notin {"WAITW", "W"} /\ addressbuf' = AddrOf(d_req)
      BY <1>4, <2>2, DataWires, AdaptorSteps, ArbiterWires, StateTypes DEF IInv
    <3> QED BY <1>4, <2>1, <2>2, <3>1, DataWaits
  <2>3. CASE DCache!pmem_write(d_req)
    <3>1. /\ macro' \notin {"WAITR", "R"}
          /\ addressbuf' = DCache!pmem_address(d_req)
          /\ linebuf' = d_data[d_req.index]
      BY <1>4, <2>3, DataWires, AdaptorSteps, ArbiterWires, StateTypes DEF IInv
    <3> QED BY <1>4, <2>1, <2>3, <3>1, DataWaits
  <2> QED BY <1>4, <2>2, <2>3 DEF IInv
<1> QED BY <1>1, <1>2, <1>3, <1>4 DEF IInv

(* Behind the data port the memory does what CacheSystem lets it do: it     *)
(* takes words of the victim's line while that is written back, and nothing *)
(* else ...                                                                 *)
LEMMA DataTaken ==
  ASSUME IInv, Next
  PROVE  \/ mem' = mem
         \/ /\ DCache!pmem_write(d_req)
            /\ ~(grant = "data" /\ macro = "DONE")
            /\ \E words \in SUBSET Words : Port!MemoryTakes(words)
<1>1. \/ mem' = mem
      \/ /\ macro \in {"WAITW", "W"}
         /\ mem' = [mem EXCEPT ![addressbuf] =
              [w \in Words |-> IF w \div WordsPerBeat = count
                               THEN linebuf[w] ELSE @[w]]]
  BY SameLink, LinkMoves, ArbiterWires DEF IInv
<1>2. CASE /\ macro \in {"WAITW", "W"}
           /\ mem' = [mem EXCEPT ![addressbuf] =
                [w \in Words |-> IF w \div WordsPerBeat = count
                                 THEN linebuf[w] ELSE @[w]]]
  <2>1. /\ grant = "data" /\ DCache!pmem_write(d_req)
        /\ addressbuf = DCache!pmem_address(d_req)
        /\ linebuf = DCache!pmem_wdata(d_req)
    BY <1>2, DataWires DEF IInv, GrantHeld, BufferedRequest
  <2> DEFINE words == {w \in Words : w \div WordsPerBeat = count}
  <2>2. Port!MemoryTakes(words)
    BY <1>2, <2>1, SameDataCache DEF Port!MemoryTakes
  <2> QED BY <1>2, <2>1, <2>2
<1> QED BY <1>1, <1>2

(* ... and when the data cache is answered, its line has been moved.        *)
LEMMA DataAnswered ==
  ASSUME IInv, grant = "data", macro = "DONE"
  PROVE  /\ linebuf = mem[DCache!pmem_address(d_req)]
         /\ DCache!pmem_write(d_req) =>
              linebuf = DCache!pmem_wdata(d_req)
BY DataWires
   DEF IInv, BufferedRequest, Link!IInv, Link!LineMoved, Link!resp_o

LEMMA PortAdvances ==
  ASSUME IInv, Next
  PROVE  Port!Advance(~ICache!mem_resp(i_req))
<1>1. /\ Port!portVars = <<d_req, wb_load, wb_mem_rdata>>
      /\ Port!stall(~ICache!mem_resp(i_req)) = stall
  BY SameData, SameDataCache
     DEF Port!portVars, Port!stall, stall, instr_mem_resp, data_mem_resp
<1>2. CASE Stall
  BY <1>1, <1>2 DEF Port!Advance, Stall, portVars, Port!portVars
<1>3. CASE LoadHazard
  BY <1>1, <1>3, SameData, SameDataCache DEF Port!Advance, LoadHazard, Writeback
<1>4. CASE Advance
  <2>1. NoRequest(d_req) \in Bubbles(DataRequests, d_req)
    BY DEF Bubbles
  <2> QED BY <1>1, <1>4, <2>1, SameData, SameDataCache DEF Port!Advance, Advance, Writeback
<1> QED BY <1>2, <1>3, <1>4 DEF Next, PipelineClock

(* An edge of the whole system is a step of CacheSystem at the data port.   *)
LEMMA PortNext ==
  ASSUME IInv, Next
  PROVE  Port!Next
<1> DEFINE other == ~ICache!mem_resp(i_req)
           presp == Arb!data_mem_resp(adaptor_answer)
           pline == Arb!data_mem_burst(data_side, adaptor_answer)
<1>1. Port!Advance(other) /\ other \in BOOLEAN
  BY PortAdvances
<1>2. presp <=> grant = "data" /\ macro = "DONE"
  BY DEF Arb!data_mem_resp, adaptor_answer, Adaptor!resp_o
<1>3. /\ pline \in Line
      /\ grant = "data" /\ DCache!pmem_read => pline = linebuf
  BY NoLineIsLine, StateTypes DEF Arb!data_mem_burst, adaptor_answer, data_side
<1>4. DCache!CacheClock(d_req, presp, pline)
  BY DEF Next
<1> HIDE DEF other, presp, pline
<1>5. CASE ~DCache!pmem_read /\ ~DCache!pmem_write(d_req)
  <2>1. DCache!CacheClock(d_req, FALSE, Port!ZeroLine)
    BY <1>4, <1>5
       DEF DCache!CacheClock, DCache!NoAccess, DCache!ReadHit, DCache!WriteHit,
           DCache!MissClean, DCache!WriteBack, DCache!FillWait, DCache!FillDone,
           DCache!pmem_read
  <2>2. mem' = mem
    BY <1>5, DataTaken
  <2>3. Port!Local(other)
    BY <1>1, <1>5, <2>1, <2>2, SameDataClock, SameDataCache DEF Port!Local
  <2> QED BY <1>1, <2>3 DEF Port!Next
<1>6. CASE DCache!pmem_write(d_req) /\ ~presp
  <2>1. DCache!CacheClock(d_req, FALSE, Port!ZeroLine)
    BY <1>4, <1>6, DataWires
       DEF DCache!CacheClock, DCache!NoAccess, DCache!ReadHit, DCache!WriteHit,
           DCache!MissClean, DCache!WriteBack, DCache!FillWait, DCache!FillDone
  <2>2. \E words \in SUBSET Words : Port!MemoryTakes(words)
    <3>1. CASE mem' = mem
      <4>1. mem = [mem EXCEPT ![DCache!pmem_address(d_req)] = [w \in Words |-> @[w]]]
        BY DataWires, StateTypes DEF Line
      <4>2. Port!MemoryTakes({})
        BY <3>1, <4>1, SameDataCache DEF Port!MemoryTakes
      <4> QED BY <4>2
    <3> QED BY <3>1, DataTaken
  <2>3. Port!WriteWait(other)
    BY <1>1, <1>6, <2>1, <2>2, SameDataClock, SameDataCache DEF Port!WriteWait
  <2> QED BY <1>1, <2>3 DEF Port!Next
<1>7. CASE DCache!pmem_write(d_req) /\ presp
  <2>1. DCache!CacheClock(d_req, TRUE, Port!ZeroLine)
    BY <1>4, <1>7, DataWires
       DEF DCache!CacheClock, DCache!NoAccess, DCache!ReadHit, DCache!WriteHit,
           DCache!MissClean, DCache!WriteBack, DCache!FillWait, DCache!FillDone
  <2>2. mem' = mem /\ mem[DCache!pmem_address(d_req)] = DCache!pmem_wdata(d_req)
    BY <1>2, <1>7, DataTaken, DataAnswered
  <2>3. mem = [mem EXCEPT ![DCache!pmem_address(d_req)] =
                 [w \in Words |-> DCache!pmem_wdata(d_req)[w]]]
    BY <2>2, DataWires, StateTypes DEF Line
  <2>4. Port!MemoryTakes(Words)
    BY <2>2, <2>3, SameDataCache DEF Port!MemoryTakes
  <2>5. Port!WriteDone(other)
    BY <1>1, <1>7, <2>1, <2>4, SameDataClock, SameDataCache DEF Port!WriteDone
  <2> QED BY <1>1, <2>5 DEF Port!Next
<1>8. CASE DCache!pmem_read
  <2>1. mem' = mem
    BY <1>8, DataTaken, DataWires
  <2>2. CASE presp
    <3>1. pline = mem[DCache!pmem_address(d_req)]
      BY <1>2, <1>3, <1>8, <2>2, DataAnswered
    <3>2. DCache!CacheClock(d_req, TRUE, mem[DCache!pmem_address(d_req)])
      BY <1>4, <2>2, <3>1
         DEF DCache!CacheClock, DCache!WriteBack, DCache!FillWait, DCache!FillDone
    <3>3. Port!ReadDone(other)
      BY <1>1, <1>8, <2>1, <3>2, SameDataClock, SameDataCache DEF Port!ReadDone
    <3> QED BY <1>1, <3>3 DEF Port!Next
  <2>3. CASE ~presp
    <3>1. DCache!CacheClock(d_req, FALSE, pline)
      BY <1>4, <2>3
         DEF DCache!CacheClock, DCache!WriteBack, DCache!FillWait, DCache!FillDone
    <3>2. Port!ReadWait(other)
      BY <1>1, <1>3, <1>8, <2>1, <3>1, SameDataClock, SameDataCache, SameData DEF Port!ReadWait
    <3> QED BY <1>1, <3>2 DEF Port!Next
  <2> QED BY <2>2, <2>3
<1> QED BY <1>5, <1>6, <1>7, <1>8

LEMMA StepIInv ==
  ASSUME IInv, Next
  PROVE  IInv'
<1>1. Link!IInv'
  BY SameLink, LinkStep, ArbiterWires DEF IInv
<1>2. Port!IInv'
  BY PortNext, PortStep DEF IInv
<1> QED BY <1>1, <1>2, GrantSteps, StepGrant, StepInstrSide DEF IInv

(* A stuttering step changes nothing the invariant talks about.             *)
LEMMA StutterIInv == IInv /\ UNCHANGED vars => IInv'
<1> SUFFICES ASSUME IInv, UNCHANGED vars PROVE IInv'
  OBVIOUS
<1> USE DEF vars, portVars, icacheVars, dcacheVars, adaptorVars, memoryVars
<1>1. Link!IInv'
  BY LinkStutter DEF IInv, Link!vars, Link!adaptorVars, Link!memoryVars
<1>2. Port!IInv'
  BY DEF IInv, Port!IInv, Port!TypeOK, Port!CacheTypeOK, Port!CleanLinesInMemory,
     Port!DirtyLinesValid, Port!FillForAMiss, Port!Filling, Port!pmem_read, Port!hit
<1>3. GrantHeld' /\ BufferedRequest'
  BY DEF IInv, GrantHeld, BufferedRequest, ICache!pmem_read, DCache!pmem_read,
     DCache!pmem_write, DCache!pmem_address, DCache!dirty_out, DCache!dirty_load,
     DCache!dirty_in, DCache!mem_resp, DCache!hit, DCache!Requested, DCache!AddrOf, AddrOf
<1>4. InstrSide' /\ grant' \in {"idle", "data", "instr"}
  BY DEF IInv, InstrSide, ICache!CacheTypeOK
<1> QED BY <1>1, <1>2, <1>3, <1>4 DEF IInv

LEMMA InitIInv == Init => IInv
<1> SUFFICES ASSUME Init PROVE IInv
  OBVIOUS
<1>1. Link!Init
  BY DEF Init, Link!Init, Adaptor!AdaptorReset, Link!AdaptorReset, Memory!MemoryInit,
     Link!Memory!MemoryInit, Memory!ZeroWord, Link!Memory!ZeroWord, Adaptor!Counts,
     Link!Counts, Adaptor!Line, Link!Line, Adaptor!Word, Link!Word, Adaptor!LineAddr,
     Link!LineAddr
<1>2. Port!Init
  BY SameData, SameDataCache DEF Init, Port!Init, Memory!MemoryInit
<1>3. InstrSide
  <2>1. ICache!ZeroLine \in Line
    BY NoLineIsLine DEF ICache!ZeroLine, ICache!ZeroWord, ZeroLine, ZeroWord
  <2> QED
    BY <2>1, NoLineIsLine, PortAssumption, TypesAssumption, SameData
       DEF Init, ICache!CacheReset, InstrSide, ICache!CacheTypeOK
<1>4. GrantHeld /\ BufferedRequest /\ grant = "idle"
  BY DEF Init, Arb!ArbiterReset, Adaptor!AdaptorReset, GrantHeld, BufferedRequest
<1> QED BY <1>1, <1>2, <1>3, <1>4, LinkInit, PortInit DEF IInv

(* The inductive invariant of the hierarchy.                                *)
THEOREM Invariance == Spec => []IInv
<1>1. IInv /\ [Next]_vars => IInv'
  BY StepIInv, StutterIInv
<1> QED BY InitIInv, <1>1, PTL DEF Spec

-----------------------------------------------------------------------------
(* What follows from it.                                                    *)

(* No assertion of param_memory.sv fails in the whole hierarchy, and every  *)
(* register keeps a value of its type.                                      *)
THEOREM ProtocolKept == Spec => []MemoryProtocol
<1>1. ASSUME IInv PROVE MemoryProtocol
  <2>1. ~error /\ Link!AdaptorTypeOK /\ Link!Memory!MemoryTypeOK
    BY <1>1 DEF IInv, Link!IInv, Link!TypeOK, Link!MemoryProtocol
  <2>2. Adaptor!AdaptorTypeOK
    BY <2>1 DEF Link!AdaptorTypeOK, Adaptor!AdaptorTypeOK, Link!Counts, Adaptor!Counts,
       Link!Line, Adaptor!Line, Link!Word, Adaptor!Word, Link!LineAddr, Adaptor!LineAddr
  <2>3. Memory!MemoryTypeOK
    BY <2>1 DEF Link!Memory!MemoryTypeOK, Memory!MemoryTypeOK, Link!Memory!Counts,
       Memory!Counts, Link!Memory!Line, Memory!Line, Link!Memory!Word, Memory!Word,
       Link!Memory!LineAddr, Memory!LineAddr, Link!Memory!Beat, Memory!Beat
  <2>4. DCache!CacheTypeOK /\ d_req \in Request /\ wb_load \in BOOLEAN /\ wb_mem_rdata \in Word
    BY <1>1, SameData
       DEF IInv, Port!IInv, Port!TypeOK, Port!CacheTypeOK, DCache!CacheTypeOK,
           DCache!Line, DCache!Word, Port!Line, Port!Word
  <2> QED
    BY <1>1, <2>1, <2>2, <2>3, <2>4
       DEF MemoryProtocol, TypeOK, IInv, InstrSide, Arb!ArbiterTypeOK
<1> QED BY <1>1, Invariance, PTL

(* The answer of the adaptor reaches the cache that asked, with the line it *)
(* asked for, or after the line it gave away has reached the memory.        *)
THEOREM FillsAnswered == Spec => []AnsweredFills
<1>1. ASSUME IInv PROVE AnsweredFills
  <2>1. Adaptor!resp_o => linebuf = mem[addressbuf]
    BY <1>1 DEF IInv, Link!IInv, Link!LineMoved, Link!resp_o, Adaptor!resp_o
  <2>2. Arb!instr_mem_resp(adaptor_answer) =>
          ICache!pmem_read /\ linebuf = mem[AddrOf(i_req)]
    BY <1>1, <2>1 DEF IInv, GrantHeld, BufferedRequest, Arb!instr_mem_resp,
       adaptor_answer, Adaptor!resp_o
  <2>3. Arb!data_mem_resp(adaptor_answer) => grant = "data" /\ macro = "DONE"
    BY DEF Arb!data_mem_resp, adaptor_answer, Adaptor!resp_o
  <2>4. /\ data_side.addr = DCache!pmem_address(d_req)
        /\ data_side.line = DCache!pmem_wdata(d_req)
    BY DEF data_side
  <2> QED
    BY <1>1, <2>2, <2>3, <2>4, DataAnswered, DataWires DEF AnsweredFills, IInv, GrantHeld
<1> QED BY <1>1, Invariance, PTL

(* Seen from the data port, the arbiter, the adaptor, the burst memory and  *)
(* the other cache together are the line memory of CacheSystem.             *)
LEMMA PortRefinement ==
  /\ Init => Port!Init
  /\ IInv /\ [Next]_vars => [Port!Next]_(Port!vars)
<1>1. Init => Port!Init
  BY SameData, SameDataCache DEF Init, Port!Init, Memory!MemoryInit
<1>2. UNCHANGED vars => UNCHANGED Port!vars
  BY DEF vars, portVars, dcacheVars, memoryVars, Port!vars, Port!cacheVars, Port!portVars
<1> QED BY <1>1, <1>2, PortNext

(* Port and the DataPort of MemSystem are the same instance of CacheSystem. *)
LEMMA SamePort ==
  /\ Port!Init => DataPort!Init
  /\ [Port!Next]_(Port!vars) => [DataPort!Next]_(DataPort!vars)
<1> USE DEF Port!vars, DataPort!vars, Port!cacheVars, DataPort!cacheVars,
            Port!portVars, DataPort!portVars
<1>1. Port!Init => DataPort!Init
  BY DEF Port!Init, DataPort!Init, Port!CacheReset, DataPort!CacheReset, Port!ZeroLine,
     DataPort!ZeroLine, Port!ZeroWord, DataPort!ZeroWord, Port!NoRequest, DataPort!NoRequest
<1>2. /\ Port!pmem_read = DataPort!pmem_read
      /\ Port!ZeroLine = DataPort!ZeroLine
      /\ \A R, r : Port!Bubbles(R, r) = DataPort!Bubbles(R, r)
      /\ \A r : /\ Port!hit(r) = DataPort!hit(r)
                /\ Port!mem_resp(r) = DataPort!mem_resp(r)
                /\ Port!pmem_write(r) = DataPort!pmem_write(r)
                /\ Port!pmem_address(r) = DataPort!pmem_address(r)
                /\ Port!pmem_wdata(r) = DataPort!pmem_wdata(r)
                /\ Port!mem_rdata_cpu(r) = DataPort!mem_rdata_cpu(r)
  BY DEF Port!pmem_read, DataPort!pmem_read, Port!ZeroLine, DataPort!ZeroLine,
     Port!ZeroWord, DataPort!ZeroWord, Port!Bubbles, DataPort!Bubbles, Port!NoRequest,
     DataPort!NoRequest, Port!hit, DataPort!hit, Port!mem_resp, DataPort!mem_resp,
     Port!Requested, DataPort!Requested, Port!pmem_write, DataPort!pmem_write,
     Port!dirty_out, DataPort!dirty_out, Port!dirty_load, DataPort!dirty_load,
     Port!dirty_in, DataPort!dirty_in, Port!pmem_address, DataPort!pmem_address,
     Port!AddrOf, DataPort!AddrOf, Port!pmem_wdata, DataPort!pmem_wdata,
     Port!line_out, DataPort!line_out, Port!Stored, DataPort!Stored,
     Port!Masked, DataPort!Masked, Port!mem_wdata_line, DataPort!mem_wdata_line,
     Port!mem_byte_enable_line, DataPort!mem_byte_enable_line,
     Port!mem_rdata_cpu, DataPort!mem_rdata_cpu, Port!mem_rdata, DataPort!mem_rdata
<1>3. ASSUME NEW r, NEW presp, NEW line, Port!CacheClock(r, presp, line)
      PROVE  DataPort!CacheClock(r, presp, line)
  BY <1>2, <1>3
     DEF Port!CacheClock, DataPort!CacheClock, Port!NoAccess, DataPort!NoAccess,
         Port!ReadHit, DataPort!ReadHit, Port!WriteHit, DataPort!WriteHit,
         Port!MissClean, DataPort!MissClean, Port!WriteBack, DataPort!WriteBack,
         Port!FillWait, DataPort!FillWait, Port!FillDone, DataPort!FillDone,
         Port!Requested, DataPort!Requested, Port!dirty_out, DataPort!dirty_out,
         Port!dirty_load, DataPort!dirty_load, Port!dirty_in, DataPort!dirty_in,
         Port!Stored, DataPort!Stored, Port!Masked, DataPort!Masked,
         Port!mem_wdata_line, DataPort!mem_wdata_line,
         Port!mem_byte_enable_line, DataPort!mem_byte_enable_line
<1>4. ASSUME NEW other, Port!Advance(other)
      PROVE  DataPort!Advance(other)
  BY <1>2, <1>4
     DEF Port!Advance, DataPort!Advance, Port!stall, DataPort!stall, Port!Requested,
         DataPort!Requested
<1>5. ASSUME NEW words, Port!MemoryTakes(words)
      PROVE  DataPort!MemoryTakes(words)
  BY <1>2, <1>5 DEF Port!MemoryTakes, DataPort!MemoryTakes
<1>6. Port!Line = DataPort!Line
  BY DEF Port!Line, DataPort!Line, Port!Word, DataPort!Word
<1>7. Port!Next => DataPort!Next
  <2> SUFFICES ASSUME NEW other \in BOOLEAN,
                      \/ Port!Local(other) \/ Port!WriteWait(other) \/ Port!WriteDone(other)
                      \/ Port!ReadWait(other) \/ Port!ReadDone(other)
               PROVE  DataPort!Next
    BY DEF Port!Next
  <2>1. CASE Port!Local(other)
    BY <1>2, <1>3, <1>4, <2>1 DEF Port!Local, DataPort!Local, DataPort!Next
  <2>2. CASE Port!WriteWait(other)
    BY <1>2, <1>3, <1>4, <1>5, <2>2 DEF Port!WriteWait, DataPort!WriteWait, DataPort!Next
  <2>3. CASE Port!WriteDone(other)
    BY <1>2, <1>3, <1>4, <1>5, <2>3 DEF Port!WriteDone, DataPort!WriteDone, DataPort!Next
  <2>4. CASE Port!ReadWait(other)
    BY <1>2, <1>3, <1>4, <1>6, <2>4 DEF Port!ReadWait, DataPort!ReadWait, DataPort!Next
  <2>5. CASE Port!ReadDone(other)
    BY <1>2, <1>3, <1>4, <2>5 DEF Port!ReadDone, DataPort!ReadDone, DataPort!Next
  <2> QED BY <2>1, <2>2, <2>3, <2>4, <2>5
<1> QED BY <1>1, <1>7

(* The whole hierarchy implements CacheSystem at the data port.             *)
THEOREM DataPortKept == Spec => ImplementsCacheSystem
<1>1. Init => DataPort!Init
  BY PortRefinement, SamePort
<1>2. IInv /\ [Next]_vars => [DataPort!Next]_(DataPort!vars)
  BY PortRefinement, SamePort
<1> QED BY <1>1, <1>2, Invariance, PTL DEF Spec, ImplementsCacheSystem, DataPort!Spec

(* Hence the data port of the whole processor sees one flat memory: the     *)
(* check of shadow_memory.sv, through both caches, arbiter and bursts.      *)
THEOREM FlatDataMemory == Spec => Port!ImplementsShadow
<1>1. Spec => Port!Spec
  BY PortRefinement, Invariance, PTL DEF Spec, Port!Spec
<1>2. Port!Spec => Port!ImplementsShadow
  BY PortConstants, TypesAssumption, Port!FlatMemory DEF Port!FlatMemory
<1> QED BY <1>1, <1>2

-----------------------------------------------------------------------------
(* Fetches, for a program that does not store into its code.                *)

(* What a step does to the tags and dirty bits of the data cache: a line    *)
(* becomes dirty by a store only.                                           *)
LEMMA DirtySteps ==
  ASSUME IInv, Next
  PROVE  \/ UNCHANGED <<d_dirty, d_tag>>
         \/ /\ Requested(d_req) /\ d_req.op = "write"
            /\ d_tag[d_req.index] = d_req.tag
            /\ d_dirty' = [d_dirty EXCEPT ![d_req.index] = TRUE]
            /\ d_tag' = d_tag
         \/ /\ d_dirty' = [d_dirty EXCEPT ![d_req.index] = FALSE]
            /\ \A s \in Sets : s # d_req.index => d_tag'[s] = d_tag[s]
<1>1. \E presp, pline : DCache!CacheClock(d_req, presp, pline)
  BY DEF Next
<1> QED
  BY <1>1, StateTypes, SameData
     DEF DCache!CacheClock, DCache!NoAccess, DCache!ReadHit, DCache!WriteHit,
         DCache!MissClean, DCache!WriteBack, DCache!FillWait, DCache!FillDone,
         DCache!cacheVars, DCache!mem_resp, DCache!hit

LEMMA StepCode ==
  ASSUME NoCodeStores, IInv, CodeKept, Next
  PROVE  CodeKept'
<1>1. (Requested(d_req) => d_req \in DataRequests)'
  BY StateTypes, NoRequestIsNone, PortAssumption
     DEF CodeKept, Next, PipelineClock, Stall, LoadHazard, Advance, portVars, Bubbles
<1> SUFFICES ASSUME NEW f \in Fetches
             PROVE  /\ mem'[AddrOf(f)] = Image[AddrOf(f)]
                    /\ d_dirty'[f.index] => d_tag'[f.index] # f.tag
                    /\ ICache!hit(f)' /\ ~(ICache!pmem_read' /\ i_req'.index = f.index) =>
                         i_data'[f.index] = Image[AddrOf(f)]
  BY <1>1 DEF CodeKept
<1>2. f \in Request /\ f.index \in Sets /\ AddrOf(f) = <<f.tag, f.index>>
  BY FetchType, RequestParts
<1>3. mem'[AddrOf(f)] = Image[AddrOf(f)]
  <2>1. CASE mem' = mem
    BY <2>1 DEF CodeKept
  <2>2. CASE DCache!pmem_write(d_req) /\ \E words \in SUBSET Words : Port!MemoryTakes(words)
    <3>1. d_dirty[d_req.index]
      BY <2>2, DataWires DEF DCache!pmem_write, DCache!dirty_out, DCache!dirty_load
    <3>2. AddrOf(f) # DCache!pmem_address(d_req)
      BY <1>2, <2>2, <3>1, DataWires DEF CodeKept
    <3>3. mem'[AddrOf(f)] = mem[AddrOf(f)]
      BY <1>2, <2>2, <3>2, StateTypes, SameDataCache, RequestParts DEF Port!MemoryTakes
    <3> QED BY <3>3 DEF CodeKept
  <2> QED BY <2>1, <2>2, DataTaken
<1>4. d_dirty'[f.index] => d_tag'[f.index] # f.tag
  <2>1. CASE /\ Requested(d_req) /\ d_req.op = "write"
             /\ d_tag[d_req.index] = d_req.tag
             /\ d_dirty' = [d_dirty EXCEPT ![d_req.index] = TRUE]
             /\ d_tag' = d_tag
    <3>1. AddrOf(d_req) # AddrOf(f)
      BY <2>1 DEF NoCodeStores, CodeKept
    <3> QED BY <1>2, <2>1, <3>1, StateTypes, RequestParts DEF CodeKept
  <2>2. CASE /\ d_dirty' = [d_dirty EXCEPT ![d_req.index] = FALSE]
             /\ \A s \in Sets : s # d_req.index => d_tag'[s] = d_tag[s]
    BY <1>2, <2>2, StateTypes DEF CodeKept
  <2>3. CASE UNCHANGED <<d_dirty, d_tag>>
    BY <2>3 DEF CodeKept
  <2> QED BY <2>1, <2>2, <2>3, DirtySteps
<1>5. ASSUME ICache!hit(f)', ~(ICache!pmem_read' /\ i_req'.index = f.index)
      PROVE  i_data'[f.index] = Image[AddrOf(f)]
  <2>1. i_req.index \in Sets /\ i_req.tag \in Tags /\ i_req \in Fetches
    BY InstrWires, RequestParts DEF IInv, InstrSide
  <2> USE DEF ICache!hit, ICache!pmem_read
  <2>2. CASE UNCHANGED <<i_data, i_tag, i_valid>> /\ i_state = "check_hit"
    BY <1>5, <2>2 DEF CodeKept
  <2>3. CASE /\ i_state = "read_mem"
             /\ \E garbage \in Line : i_data' = [i_data EXCEPT ![i_req.index] = garbage]
             /\ UNCHANGED <<i_state, i_tag, i_valid>>
    <3>1. i_req' = i_req
      BY <2>3, PortsHeld DEF portVars
    <3>2. f.index # i_req.index
      BY <1>5, <2>3, <3>1
    <3> QED BY <1>2, <1>5, <2>3, <3>2, StateTypes DEF CodeKept
  <2>4. CASE /\ grant = "instr" /\ macro = "DONE"
             /\ i_data' = [i_data EXCEPT ![i_req.index] = linebuf]
             /\ i_tag' = [i_tag EXCEPT ![i_req.index] = i_req.tag]
             /\ i_valid' = [i_valid EXCEPT ![i_req.index] = TRUE]
    <3>1. linebuf = mem[AddrOf(i_req)]
      BY <2>4 DEF IInv, BufferedRequest, Link!IInv, Link!LineMoved, Link!resp_o
    <3>2. CASE f.index = i_req.index
      <4>1. AddrOf(f) = AddrOf(i_req)
        BY <1>5, <2>1, <2>4, <3>2, StateTypes DEF AddrOf
      <4> QED BY <2>1, <2>4, <3>1, <3>2, <4>1, StateTypes DEF CodeKept
    <3>3. CASE f.index # i_req.index
      BY <1>2, <1>5, <2>1, <2>4, <3>3, StateTypes DEF CodeKept
    <3> QED BY <3>2, <3>3
  <2>5. ICache!mem_resp(i_req) => i_state = "check_hit"
    BY DEF ICache!mem_resp
  <2> QED BY <2>2, <2>3, <2>4, <2>5, InstrSteps DEF icacheVars
<1> QED BY <1>3, <1>4, <1>5

LEMMA StutterCode == CodeKept /\ UNCHANGED vars => CodeKept'
BY DEF CodeKept, vars, portVars, icacheVars, dcacheVars, memoryVars, ICache!hit,
   ICache!pmem_read

LEMMA InitCode ==
  ASSUME Init
  PROVE  CodeKept
<1>1. ~Requested(d_req) /\ mem = Image
  BY NoRequestIsNone, PortAssumption DEF Init, Memory!MemoryInit
<1>2. ASSUME NEW f \in Fetches PROVE ~d_dirty[f.index] /\ ~ICache!hit(f)
  BY FetchType, RequestParts
     DEF Init, ICache!CacheReset, DCache!CacheReset, ICache!hit
<1> QED BY <1>1, <1>2 DEF CodeKept

(* Every instruction word that enters ID is the one of the program image at *)
(* its address, as long as the program does not store into its code.        *)
THEOREM FetchesFromImage ==
  ASSUME NoCodeStores
  PROVE  Spec => FetchesImage
<1> DEFINE A == Advance => ir' = mem_rdata(Image[AddrOf(id_pc')], id_pc'.word)
<1>1. Init => IInv /\ CodeKept
  BY InitIInv, InitCode
<1>2. (IInv /\ CodeKept) /\ [Next]_vars => (IInv /\ CodeKept)'
  BY StepIInv, StutterIInv, StepCode, StutterCode
<1>3. IInv /\ CodeKept /\ [Next]_vars => [A]_vars
  <2> SUFFICES ASSUME IInv, CodeKept, Advance
               PROVE  ir' = mem_rdata(Image[AddrOf(id_pc')], id_pc'.word)
    OBVIOUS
  <2>1. ICache!mem_resp(i_req) /\ id_pc' = i_req /\ ir' = ICache!mem_rdata_cpu(i_req)
    BY DEF Advance, stall, instr_mem_resp
  <2>2. i_data[i_req.index] = Image[AddrOf(i_req)]
    BY <2>1 DEF CodeKept, IInv, InstrSide, ICache!mem_resp, ICache!pmem_read
  <2> QED BY <2>1, <2>2, InstrWires DEF mem_rdata
<1> QED BY <1>1, <1>2, <1>3, PTL DEF Spec, FetchesImage
=============================================================================
