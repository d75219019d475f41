----------------------------- MODULE BurstLink -----------------------------
(***************************************************************************)
(* The cacheline adaptor of Final/hdl connected to the burst memory of     *)
(* Final/hvl, with nothing assumed about the side of the arbiter: at every *)
(* edge it may ask for anything, change its mind or ask for a read and a   *)
(* write at once.                                                          *)
(***************************************************************************)
EXTENDS CachelineAdaptor

CONSTANTS
  DELAY_MEM, DELAY_PAGE_HIT, TagsPerPage, Image,  \* ParamMemory
  LineRequests   \* what the arbiter may drive in a cycle

VARIABLES mem, task, addr, delay, beat, pageno, resp, rdata, error

memoryVars == <<mem, task, addr, delay, beat, pageno, resp, rdata, error>>
vars == <<adaptorVars, memoryVars>>

Memory == INSTANCE ParamMemory WITH i <- beat

LineRequest == [read : BOOLEAN, write : BOOLEAN, addr : LineAddr, line : Line]

ASSUME LinkAssumption ==
  /\ LineRequests \subseteq LineRequest
  /\ DELAY_MEM \in Nat \ {0}
  /\ DELAY_PAGE_HIT \in Nat \ {0}
  /\ TagsPerPage \in Nat \ {0}
  /\ Tags \subseteq Nat
  /\ Image \in [LineAddr -> Line]
  /\ MaxCount >= 1

(* The wires between the adaptor and the memory.                            *)
pins == [read |-> read_o, write |-> write_o, addr |-> addressbuf, wdata |-> burst_o]

Init == AdaptorReset /\ Memory!MemoryInit

Edge(c) == AdaptorClock(c, resp, rdata) /\ Memory!MemoryClock(pins)

Next == \E c \in LineRequests : Edge(c)

Spec == Init /\ [][Next]_vars

(* The clock does not stop.                                                 *)
FairSpec == Spec /\ WF_vars(Next)

-----------------------------------------------------------------------------
(* Properties.                                                              *)

TypeOK == AdaptorTypeOK /\ Memory!MemoryTypeOK

(* The memory's assertions (param_memory.sv:66-85, 126-144 and 34) hold     *)
(* whatever the requester does: the adaptor buffers the address and the     *)
(* operation, and lets go of the memory exactly when the burst ends.        *)
MemoryProtocol == ~error

(* Each of the two keeps its own count of the beats, the adaptor without    *)
(* looking at resp_i after the first: they never drift apart.               *)
BeatsInStep ==
  CASE macro \in {"R", "W"} -> task # "none" /\ delay = 0 /\ resp /\ beat = count
    [] macro \in {"WAITR", "WAITW"} -> resp => beat = 0
    [] OTHER -> task = "none" /\ ~resp

(* When the adaptor answers, the whole line has been moved.                 *)
LineMoved == resp_o => linebuf = mem[addressbuf]

(* A write changes no line but the one it addresses, and only between its   *)
(* first beat and its last.                                                 *)
OnlyAddressed ==
  [][\A a \in LineAddr : mem'[a] # mem[a] => write_o /\ resp /\ a = addressbuf]_vars

(* The induction of the proofs.  Where the memory's task stands, seen from  *)
(* the adaptor's state: not started, in its delay, or in its burst ...      *)
InStep ==
  \/ /\ macro \in {"IDLE", "WAITR", "WAITW", "DONE"}
     /\ task = "none"
     /\ ~resp
  \/ /\ task = IF read_o THEN "memread" ELSE "memwrite"
     /\ addr = addressbuf
     /\ \/ macro \in {"WAITR", "WAITW"} /\ beat = 0 /\ delay > 0 /\ ~resp
        \/ macro \in {"WAITR", "WAITW"} /\ beat = 0 /\ delay = 0 /\ resp
        \/ macro \in {"R", "W"} /\ delay = 0 /\ resp /\ beat = count /\ count > 0

(* ... and what has been moved: the beats before count.                     *)
Moved(n) ==
  \A w \in Words : w \div WordsPerBeat < n => linebuf[w] = mem[addressbuf][w]

BeatsMoved ==
  /\ macro = "WAITW" => count = 0
  /\ macro \in {"R", "W"} => Moved(count)
  /\ read_o /\ resp => rdata = BeatOf(mem[addr], beat)

IInv == TypeOK /\ MemoryProtocol /\ InStep /\ BeatsMoved /\ LineMoved

(* A started burst ends.                                                    *)
BurstEnds == macro # "IDLE" ~> resp_o

(* What the pair promises its requester: an atomic memory of lines.  A      *)
(* write counts from the edge that takes it, although its beats reach the   *)
(* memory one by one later: the line in the adaptor stands for its own.     *)
lines == IF write_o THEN [mem EXCEPT ![addressbuf] = linebuf] ELSE mem

phase ==
  CASE macro = "IDLE" -> "free"
    [] macro = "DONE" -> "answered"
    [] OTHER -> "taken"

answer == IF resp_o THEN {linebuf} ELSE {}

lineView == <<lines, phase, addressbuf, answer>>

LinesInit == lines = Image /\ phase = "free" /\ answer = {}

(* The request as it is at this edge, a read before a write.                *)
LineTaken(c) ==
  /\ phase = "free"
  /\ c.read \/ c.write
  /\ phase' = "taken"
  /\ addressbuf' = c.addr
  /\ lines' = IF c.read THEN lines ELSE [lines EXCEPT ![c.addr] = c.line]
  /\ answer' = {}

LineAnswered ==
  /\ phase = "taken"
  /\ phase' = "answered"
  /\ answer' = {lines[addressbuf]}
  /\ UNCHANGED <<lines, addressbuf>>

LineReleased ==
  /\ phase = "answered"
  /\ phase' = "free"
  /\ answer' = {}
  /\ UNCHANGED <<lines, addressbuf>>

LineStep ==
  \/ \E c \in LineRequests : LineTaken(c)
  \/ LineAnswered
  \/ LineReleased

(* Every access is done whole, at one point between its edge and its        *)
(* answer, with the address, the operation and the line of that edge: a     *)
(* request that changes or goes away in the middle of the burst, a counter  *)
(* or a buffer left over from the last one, or a beat too many or too few   *)
(* is seen in no line and in no answer (cacheline_adaptor.sv:44-96).       *)
AtomicLines == LinesInit /\ [][LineStep]_lineView
=============================================================================
