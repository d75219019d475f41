------------------------------ MODULE Arbiter ------------------------------
(***************************************************************************)
(* Final/hdl/arbiter.sv: gives the one memory port to the instruction or   *)
(* to the data cache, the data cache first, for one transaction at a time. *)
(*                                                                         *)
(* d and i are what the caches drive: d = [read, write, addr, line], i =   *)
(* [read, addr].  m = [resp, line] is what the cacheline adaptor answers.  *)
(***************************************************************************)
EXTENDS MemoryTypes

VARIABLE state   \* "idle", "data" or "instr"

ArbiterTypeOK == state \in {"idle", "data", "instr"}

ArbiterReset == state = "idle"

(* set_defaults drives zeros wherever no case drives something else.        *)
NoLine == ZeroLine
NoAddr == <<0, 0>>

(* To the adaptor.  A read wins over a write on the data side.              *)
pmem_read(d, i) ==
  \/ state = "data" /\ d.read
  \/ state = "instr" /\ i.read

pmem_write(d) == state = "data" /\ ~d.read /\ d.write

pmem_wburst(d) == IF pmem_write(d) THEN d.line ELSE NoLine

pmem_address(d, i) ==
  CASE state = "data"  -> d.addr
    [] state = "instr" -> i.addr
    [] state = "idle"  -> NoAddr

(* To the caches.                                                           *)
data_mem_resp(m) == state = "data" /\ m.resp
data_mem_burst(d, m) == IF state = "data" /\ d.read THEN m.line ELSE NoLine
(* Mutant: the answer goes to both caches.                                  *)
instr_mem_resp_Ungated(m) == m.resp
instr_mem_resp(m) == state = "instr" /\ m.resp
instr_mem_burst(m) == IF state = "instr" THEN m.line ELSE NoLine

-----------------------------------------------------------------------------

GrantData(d) ==
  /\ state = "idle"
  /\ d.read \/ d.write
  /\ state' = "data"

GrantInstr(d, i) ==
  /\ state = "idle"
  /\ ~(d.read \/ d.write)
  /\ i.read
  /\ state' = "instr"

StayIdle(d, i) ==
  /\ state = "idle"
  /\ ~(d.read \/ d.write)
  /\ ~i.read
  /\ UNCHANGED state

Hold(m) ==
  /\ state \in {"data", "instr"}
  /\ ~m.resp
  /\ UNCHANGED state

Release(m) ==
  /\ state \in {"data", "instr"}
  /\ m.resp
  /\ state' = "idle"

ArbiterClock(d, i, m) ==
  GrantData(d) \/ GrantInstr(d, i) \/ StayIdle(d, i) \/ Hold(m) \/ Release(m)
=============================================================================
