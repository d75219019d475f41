------------------------------- MODULE Cache -------------------------------
(***************************************************************************)
(* The direct-mapped, write-back, write-allocate cache of Final/hdl        *)
(* (cache.sv, cache_control.sv, cache_datapath.sv, array.sv,               *)
(* data_array.sv).  mp4.sv instantiates it twice, as the instruction and   *)
(* as the data cache.                                                      *)
(*                                                                         *)
(* The variables are the registers.  A combinational output is an operator *)
(* of the registers and of the inputs of the cycle: r is the CPU request,  *)
(* pmem_resp and pmem_rdata come from the arbiter.  An action is what one  *)
(* rising clock edge does; the actions are disjoint, so Clock is the       *)
(* deterministic function of state and inputs that the hardware is.        *)
(***************************************************************************)
EXTENDS MemoryTypes

VARIABLES
  state,   \* "check_hit" or "read_mem"
  data,    \* line of every set
  tag,     \* tag of every set
  valid,
  dirty

cacheVars == <<state, data, tag, valid, dirty>>

CacheTypeOK ==
  /\ state \in {"check_hit", "read_mem"}
  /\ data \in [Sets -> Line]
  /\ tag \in [Sets -> Tags]
  /\ valid \in [Sets -> BOOLEAN]
  /\ dirty \in [Sets -> BOOLEAN]

(* What rst leaves behind.                                                  *)
CacheReset ==
  /\ state = "check_hit"
  /\ data = [s \in Sets |-> ZeroLine]
  /\ tag = [s \in Sets |-> 0]
  /\ valid = [s \in Sets |-> FALSE]
  /\ dirty = [s \in Sets |-> FALSE]

-----------------------------------------------------------------------------
(* Combinational outputs.                                                   *)

(* Mutant: a tag match alone is a hit.                                      *)
hit_TagOnly(r) == tag[r.index] = r.tag
hit(r) == valid[r.index] /\ tag[r.index] = r.tag

mem_resp(r) == state = "check_hit" /\ Requested(r) /\ hit(r)

(* array.sv forwards the value being written in the same cycle: in read_mem *)
(* dirty is written with 0 every cycle, so dirty_out is already low in the  *)
(* first of them, while the register may still hold the victim's bit.       *)
dirty_load(r) == state = "read_mem" \/ (mem_resp(r) /\ r.op = "write")
dirty_in == state = "check_hit"
(* Mutant: an array without the forwarding path.                            *)
dirty_out_NoForward(r) == dirty[r.index]
dirty_out(r) == IF dirty_load(r) THEN dirty_in ELSE dirty[r.index]

pmem_write(r) == state = "check_hit" /\ Requested(r) /\ ~hit(r) /\ dirty_out(r)
pmem_read == state = "read_mem"

(* The victim's line address while it is written back, else the requested   *)
(* one.  (The offset bits are dropped: the memory masks them off.)          *)
pmem_address(r) ==
  IF dirty_out(r) THEN <<tag[r.index], r.index>> ELSE AddrOf(r)

(* data_array.sv forwards as well: during a write hit the line read already *)
(* holds the store.  (In read_mem nobody looks at it.)                      *)
line_out(r) ==
  IF mem_resp(r) /\ r.op = "write" THEN Stored(data[r.index], r) ELSE data[r.index]

pmem_wdata(r) == line_out(r)

mem_rdata_cpu(r) == mem_rdata(line_out(r), r.word)

-----------------------------------------------------------------------------
(* One clock edge.                                                          *)

NoAccess(r) ==
  /\ state = "check_hit"
  /\ ~Requested(r)
  /\ UNCHANGED cacheVars

ReadHit(r) ==
  /\ mem_resp(r)
  /\ r.op = "read"
  /\ UNCHANGED cacheVars

(* Mutant: the byte enables are not connected.                              *)
WriteHit_WholeWord(r) ==
  /\ mem_resp(r)
  /\ r.op = "write"
  /\ data' = [data EXCEPT ![r.index][r.word] = r.wdata]
  /\ dirty' = [dirty EXCEPT ![r.index] = TRUE]
  /\ UNCHANGED <<state, tag, valid>>

WriteHit(r) ==
  /\ mem_resp(r)
  /\ r.op = "write"
  /\ data' = [data EXCEPT ![r.index] = Stored(@, r)]
  /\ dirty' = [dirty EXCEPT ![r.index] = TRUE]
  /\ UNCHANGED <<state, tag, valid>>

(* A miss on a clean line asks the memory in the next cycle.                *)
MissClean(r) ==
  /\ state = "check_hit"
  /\ Requested(r)
  /\ ~hit(r)
  /\ ~dirty_out(r)
  /\ state' = "read_mem"
  /\ UNCHANGED <<data, tag, valid, dirty>>

(* Mutant: an answered write-back does not go on to the fill.               *)
WriteBack_NoFill(r, pmem_resp) == pmem_write(r) /\ UNCHANGED cacheVars

(* A miss on a dirty line writes it back first.                             *)
WriteBack(r, pmem_resp) ==
  /\ pmem_write(r)
  /\ state' = IF pmem_resp THEN "read_mem" ELSE "check_hit"
  /\ UNCHANGED <<data, tag, valid, dirty>>

(* read_mem: the data array takes whatever is on pmem_rdata in every cycle  *)
(* of the wait, while tag and valid still name the victim.                  *)
FillWait(r, pmem_resp, pmem_rdata) ==
  /\ state = "read_mem"
  /\ ~pmem_resp
  /\ data' = [data EXCEPT ![r.index] = pmem_rdata]
  /\ dirty' = [dirty EXCEPT ![r.index] = FALSE]
  /\ UNCHANGED <<state, tag, valid>>

(* Mutant: valid_load is forgotten.                                         *)
FillDone_NotValid(r, pmem_resp, pmem_rdata) ==
  /\ state = "read_mem"
  /\ pmem_resp
  /\ data' = [data EXCEPT ![r.index] = pmem_rdata]
  /\ dirty' = [dirty EXCEPT ![r.index] = FALSE]
  /\ tag' = [tag EXCEPT ![r.index] = r.tag]
  /\ state' = "check_hit"
  /\ UNCHANGED valid

FillDone(r, pmem_resp, pmem_rdata) ==
  /\ state = "read_mem"
  /\ pmem_resp
  /\ data' = [data EXCEPT ![r.index] = pmem_rdata]
  /\ dirty' = [dirty EXCEPT ![r.index] = FALSE]
  /\ tag' = [tag EXCEPT ![r.index] = r.tag]
  /\ valid' = [valid EXCEPT ![r.index] = TRUE]
  /\ state' = "check_hit"

CacheClock(r, pmem_resp, pmem_rdata) ==
  \/ NoAccess(r)
  \/ ReadHit(r)
  \/ WriteHit(r)
  \/ MissClean(r)
  \/ WriteBack(r, pmem_resp)
  \/ FillWait(r, pmem_resp, pmem_rdata)
  \/ FillDone(r, pmem_resp, pmem_rdata)
=============================================================================
