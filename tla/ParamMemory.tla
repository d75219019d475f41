---------------------------- MODULE ParamMemory ----------------------------
(***************************************************************************)
(* Final/hvl/param_memory.sv: the burst memory the processor is run with,  *)
(* together with the assertions it makes about its user.                   *)
(*                                                                         *)
(* A task samples its inputs at a clock edge and drives resp and rdata at  *)
(* the same edge, so both are registers here.  b = [read, write, addr,     *)
(* wdata] is what the adaptor drives.                                      *)
(***************************************************************************)
EXTENDS Bursts

CONSTANTS
  DELAY_MEM,       \* cycles before the first beat
  DELAY_PAGE_HIT,  \* the same when the last access was to the same page
  TagsPerPage,     \* PAGE_SIZE, in tags: pages are made of whole tags
  Image            \* the file reset() loads

ASSUME MemoryAssumption ==
  /\ DELAY_MEM \in Nat \ {0}
  /\ DELAY_PAGE_HIT \in Nat \ {0}
  /\ TagsPerPage \in Nat \ {0}
  /\ Tags \subseteq Nat
  /\ Image \in [LineAddr -> Line]

VARIABLES
  mem,          \* _mem
  task,         \* "none", "memread" or "memwrite"
  addr,         \* the task's argument
  delay,        \* edges left of "repeat (delay)"
  i,            \* beat being driven, once delay = 0
  pageno,       \* page of the last access, -1 after reset
  resp, rdata,
  error         \* an assertion of the task failed

memoryVars == <<mem, task, addr, delay, i, pageno, resp, rdata, error>>

MemoryTypeOK ==
  /\ mem \in [LineAddr -> Line]
  /\ task \in {"none", "memread", "memwrite"}
  /\ addr \in LineAddr
  /\ delay \in Nat
  /\ i \in Counts
  /\ pageno \in Nat \union {-1}
  /\ resp \in BOOLEAN
  /\ rdata \in Beat
  /\ error \in BOOLEAN

MemoryInit ==
  /\ mem = Image
  /\ task = "none"
  /\ addr = <<0, 0>>
  /\ delay = 0
  /\ i = 0
  /\ pageno = -1
  /\ resp = FALSE
  /\ rdata = [k \in 0 .. WordsPerBeat - 1 |-> ZeroWord]
  /\ error = FALSE

PageOf(a) == a[1] \div TagsPerPage

-----------------------------------------------------------------------------

(* What the assertions of error_check demand of every edge of a task.       *)
Steady(b) ==
  /\ b.read = (task = "memread")
  /\ b.write = (task = "memwrite")
  /\ b.addr = addr

(* error_check and the transfer are two processes that wake at the same     *)
(* edge, in either order.  When the inputs are not steady the transfer may  *)
(* still take its step first; the check then reports and ends the task.     *)
Checked(b) ==
  IF Steady(b) THEN UNCHANGED <<task, error>>
  ELSE task' = "none" /\ error' = TRUE

(* No request, or the illegal one ("simultaneous read/write").              *)
NoTask(b) ==
  /\ task = "none"
  /\ b.read = b.write
  /\ error' = (error \/ b.read)
  /\ UNCHANGED <<mem, task, addr, delay, i, pageno, resp, rdata>>

StartTask(b) ==
  /\ task = "none"
  /\ b.read # b.write
  /\ task' = IF b.read THEN "memread" ELSE "memwrite"
  /\ addr' = b.addr
  /\ delay' = IF PageOf(b.addr) = pageno THEN DELAY_PAGE_HIT ELSE DELAY_MEM
  /\ pageno' = PageOf(b.addr)
  /\ i' = 0
  /\ UNCHANGED <<mem, resp, rdata, error>>

Delay(b) ==
  /\ task # "none"
  /\ delay > 1
  /\ delay' = delay - 1
  /\ Checked(b)
  /\ UNCHANGED <<mem, addr, i, pageno, resp, rdata>>

(* The edge that ends the delay raises resp, for a read with the first beat.*)
FirstBeat(b) ==
  /\ task # "none"
  /\ delay = 1
  /\ delay' = 0
  /\ resp' = TRUE
  /\ rdata' = IF task = "memread" THEN BeatOf(mem[addr], 0) ELSE rdata
  /\ Checked(b)
  /\ UNCHANGED <<mem, addr, i, pageno>>

(* Mutants: a read writes back what is on wdata; resp stays high.           *)
EndBeat_ReadWrites(b) ==
  /\ task # "none"
  /\ delay = 0
  /\ mem' = [mem EXCEPT ![addr] = WithBeat(@, i, b.wdata)]
  /\ \/ /\ i < MaxCount
        /\ i' = i + 1
        /\ rdata' = IF task = "memread" THEN BeatOf(mem[addr], i + 1) ELSE rdata
        /\ Checked(b)
        /\ UNCHANGED resp
     \/ /\ i = MaxCount
        /\ task' = "none"
        /\ resp' = FALSE
        /\ UNCHANGED <<i, rdata, error>>
  /\ UNCHANGED <<addr, delay, pageno>>

EndBeat_RespStuck(b) ==
  /\ task # "none"
  /\ delay = 0
  /\ mem' = IF task = "memwrite"
            THEN [mem EXCEPT ![addr] = WithBeat(@, i, b.wdata)] ELSE mem
  /\ \/ /\ i < MaxCount
        /\ i' = i + 1
        /\ rdata' = IF task = "memread" THEN BeatOf(mem[addr], i + 1) ELSE rdata
        /\ Checked(b)
        /\ UNCHANGED resp
     \/ /\ i = MaxCount
        /\ task' = "none"
        /\ UNCHANGED <<i, rdata, resp, error>>
  /\ UNCHANGED <<addr, delay, pageno>>

(* Every later edge ends a beat: a write takes wdata, a read drives the     *)
(* next beat, and the last edge lowers resp.                                *)
EndBeat(b) ==
  /\ task # "none"
  /\ delay = 0
  /\ mem' = IF task = "memwrite"
            THEN [mem EXCEPT ![addr] = WithBeat(@, i, b.wdata)] ELSE mem
  /\ \/ /\ i < MaxCount
        /\ i' = i + 1
        /\ rdata' = IF task = "memread" THEN BeatOf(mem[addr], i + 1) ELSE rdata
        /\ Checked(b)
        /\ UNCHANGED resp
     \/ /\ i = MaxCount
        /\ task' = "none"
        /\ resp' = FALSE
        /\ UNCHANGED <<i, rdata, error>>
  /\ UNCHANGED <<addr, delay, pageno>>

(* The check first: a failed assertion ends the task where it is.           *)
Abort(b) ==
  /\ task # "none"
  /\ ~Steady(b)
  /\ error' = TRUE
  /\ task' = "none"
  /\ UNCHANGED <<mem, addr, delay, i, pageno, resp, rdata>>

MemoryClock(b) ==
  NoTask(b) \/ StartTask(b) \/ Delay(b) \/ FirstBeat(b) \/ EndBeat(b) \/ Abort(b)

(* Any user at all: every edge may sample any inputs.                       *)
Inputs == [read : BOOLEAN, write : BOOLEAN, addr : LineAddr, wdata : Beat]

MemoryNext == \E b \in Inputs : MemoryClock(b)

MemorySpec == MemoryInit /\ [][MemoryNext]_memoryVars

-----------------------------------------------------------------------------
(* Properties.                                                              *)

(* To a user that keeps to the protocol, resp is high exactly during the    *)
(* beats of a task: BURST_LEN cycles in a row, never before the delay is    *)
(* over and never between two tasks.                                        *)
AnswerShape == ~error => (resp <=> task # "none" /\ delay = 0)

(* and while it is, a read sees the beats of the addressed line in order,   *)
(* although the memory may have been written many times since the reset.    *)
DrivenBeat == ~error /\ resp /\ task = "memread" => rdata = BeatOf(mem[addr], i)

MemoryAnswers == MemoryTypeOK /\ AnswerShape /\ DrivenBeat
=============================================================================
