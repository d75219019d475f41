---------------------------- MODULE CacheSystem ----------------------------
(***************************************************************************)
(* One cache of Final/hdl between a CPU port and a line memory.            *)
(*                                                                         *)
(* The CPU side is the memory stage of datapath.sv: the request registers  *)
(* and the writeback register are loaded only when the pipeline does not   *)
(* stall.  The memory side is as weak as the arbiter and the adaptor leave *)
(* it: it answers a request whenever it likes, drives any line on          *)
(* pmem_rdata before it answers, and takes the words of a write one by one *)
(* at any time between the request and the answer.                         *)
(***************************************************************************)
EXTENDS Cache

CONSTANTS
  Requests,  \* what the pipeline may ask for
  Image,     \* initial contents of the memory
  NoLoad     \* the writeback stage holds no load

ASSUME SystemAssumption ==
  /\ Requests \subseteq Request
  /\ \A r \in Requests : Requested(r)
  /\ Image \in [LineAddr -> Line]
  /\ NoLoad \notin Word

VARIABLES
  req,           \* data_read, data_write, DMAR, byte enables, store data
  wb_load,       \* the instruction in WB is a load
  wb_mem_rdata,  \* MEM_WB_mem_rdata
  mem            \* the memory behind the cache

portVars == <<req, wb_load, wb_mem_rdata>>
vars == <<cacheVars, portVars, mem>>

TypeOK ==
  /\ CacheTypeOK
  /\ req \in Request
  /\ wb_load \in BOOLEAN
  /\ wb_mem_rdata \in Word
  /\ mem \in [LineAddr -> Line]

Init ==
  /\ CacheReset
  /\ req \in {NoRequest(r) : r \in Requests}
  /\ wb_load = FALSE
  /\ wb_mem_rdata = ZeroWord
  /\ mem = Image

-----------------------------------------------------------------------------
(* Mutant: a store does not stall.                                          *)
stall_LoadsOnly(otherStall) == otherStall \/ (req.op = "read" /\ ~mem_resp(req))

(* This port keeps the pipeline stalled; otherStall is the other port's     *)
(* reason to.                                                               *)
stall(otherStall) == otherStall \/ (Requested(req) /\ ~mem_resp(req))

(* EX/MEM and MEM/WB registers.                                             *)
Advance(otherStall) ==
  \/ /\ stall(otherStall)
     /\ UNCHANGED portVars
  \/ /\ ~stall(otherStall)
     /\ req' \in Requests \union Bubbles(Requests, req)
     /\ wb_load' = (req.op = "read")
     /\ wb_mem_rdata' = mem_rdata_cpu(req)

(* The memory takes some words of the line that is being written; all of    *)
(* them once it answers.                                                    *)
MemoryTakes(words) ==
  mem' = [mem EXCEPT ![pmem_address(req)] =
            [w \in Words |-> IF w \in words THEN pmem_wdata(req)[w] ELSE @[w]]]

(* One rising clock edge of the cache, the port and the memory.  In a cycle *)
(* without a memory request the cache is in check_hit and its memory inputs *)
(* do not matter.                                                           *)
Local(otherStall) ==
  /\ ~pmem_read
  /\ ~pmem_write(req)
  /\ CacheClock(req, FALSE, ZeroLine)
  /\ Advance(otherStall)
  /\ UNCHANGED mem

WriteWait(otherStall) ==
  /\ pmem_write(req)
  /\ \E words \in SUBSET Words : MemoryTakes(words)
  /\ CacheClock(req, FALSE, ZeroLine)
  /\ Advance(otherStall)

WriteDone(otherStall) ==
  /\ pmem_write(req)
  /\ MemoryTakes(Words)
  /\ CacheClock(req, TRUE, ZeroLine)
  /\ Advance(otherStall)

ReadWait(otherStall) ==
  /\ pmem_read
  /\ \E garbage \in Line : CacheClock(req, FALSE, garbage)
  /\ Advance(otherStall)
  /\ UNCHANGED mem

ReadDone(otherStall) ==
  /\ pmem_read
  /\ CacheClock(req, TRUE, mem[pmem_address(req)])
  /\ Advance(otherStall)
  /\ UNCHANGED mem

Next ==
  \E otherStall \in BOOLEAN :
    \/ Local(otherStall)
    \/ WriteWait(otherStall)
    \/ WriteDone(otherStall)
    \/ ReadWait(otherStall)
    \/ ReadDone(otherStall)

Spec == Init /\ [][Next]_vars

(* The clock runs, and the memory answers every request it is held.         *)
Fairness ==
  /\ WF_vars(\E otherStall \in BOOLEAN : Local(otherStall))
  /\ WF_vars(\E otherStall \in BOOLEAN : WriteDone(otherStall))
  /\ WF_vars(\E otherStall \in BOOLEAN : ReadDone(otherStall))

FairSpec == Spec /\ Fairness

-----------------------------------------------------------------------------
(* Properties.                                                              *)

(* The cached copy of a line is the one the processor sees, unless the line *)
(* is being replaced: from the cycle in which read_mem is entered its data  *)
(* are garbage under a tag that still matches.                              *)
Filling(s) == state = "read_mem" /\ s = req.index
Cached(a) == valid[a[2]] /\ tag[a[2]] = a[1] /\ ~Filling(a[2])
view == [a \in LineAddr |-> IF Cached(a) THEN data[a[2]] ELSE mem[a]]

(* A clean line equals its copy in memory, so that the cache may drop it    *)
(* without a write-back (next_state_logic, check_hit, dirty_out = 0).       *)
CleanLinesInMemory ==
  \A s \in Sets : valid[s] /\ ~dirty[s] /\ ~Filling(s) => data[s] = mem[<<tag[s], s>>]

(* Only a valid line is dirty: the controller looks at dirty_out alone when *)
(* it decides to write back, and would otherwise write a line of the reset  *)
(* state over tag 0 of the set.                                             *)
DirtyLinesValid == \A s \in Sets : dirty[s] => valid[s]

(* read_mem never looks at hit or at the request again, so it relies on a   *)
(* request that stays on the port and still misses.                         *)
FillForAMiss == pmem_read => Requested(req) /\ ~hit(req)

(* The induction of the proofs: the three together, with the types.         *)
IInv == TypeOK /\ CleanLinesInMemory /\ DirtyLinesValid /\ FillForAMiss

(* Seen from the data port, the cache and the memory behind it are one flat *)
(* memory: the check of hvl/shadow_memory.sv.                               *)
Shadow == INSTANCE ShadowMemory
            WITH smem <- view,
                 req <- req,
                 loaded <- IF wb_load THEN wb_mem_rdata ELSE NoLoad
ImplementsShadow == Shadow!Spec

(* Every access is answered: a miss is over after at most one write-back    *)
(* and one fill.                                                            *)
RequestsAnswered == Requested(req) ~> mem_resp(req)
=============================================================================
