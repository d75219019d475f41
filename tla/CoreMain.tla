------------------------------ MODULE CoreMain ------------------------------
(***************************************************************************)
(* main of core_main.c over the port of linux/core_portme.c, and over that *)
(* of riscv-baremetal/core_portme.c, which runs on the processor: the      *)
(* seeds and the memory blocks, the number of iterations, the contexts     *)
(* that run the benchmark in parallel (threads, or processes that hand     *)
(* their CRCs over in shared memory or in a datagram), and the verdict.    *)
(* The CRCs of a context are abstracted to where they come from.           *)
(***************************************************************************)
EXTENDS CoreReport, CoreMatrix

CONSTANTS
  Argvs,         \* the command lines of each build, without the program's name;
                 \* of a baremetal one, <<ITERATIONS>> as given to the compiler
  Methods,       \* the builds: "single", "pthread", "fork", "socket" tell how
                 \* contexts run, BareMetal which run the processor makes
  MULTITHREAD,
  TOTAL_DATA_SIZE,
  Ticks,         \* how long an iteration may take, by method
  TICKS_PER_SEC

BareMetal == {"VALIDATION_RUN", "PERFORMANCE_RUN", "PROFILE_RUN"}
Single == {"single"} \union BareMetal

ASSUME MainAssumption ==
  /\ Methods \subseteq Single \union {"pthread", "fork", "socket"}
  /\ MULTITHREAD \in Nat \ {0} /\ TICKS_PER_SEC \in Nat \ {0}
  /\ TOTAL_DATA_SIZE \in Nat \ {0} /\ \A b \in Methods : Ticks[b] \subseteq Nat \ {0}

(* An argument is a string.                                                 *)
ASSUME ArgumentAssumption == \A b \in Methods : Argvs[b] \subseteq Seq(Seq(STRING))

VARIABLES
  method, ticks, leftover,      \* the build, the machine, what shared memory held
  pc, argv, contexts, run, i,   \* main: statement, arguments, results[0], loop
  child, wait, value, channel,  \* of each context
  verdict

mainVars == <<method, ticks, leftover, pc, argv, contexts, run, i,
              child, wait, value, channel, verdict>>
build == <<method, ticks, leftover>>

Contexts == 0 .. MULTITHREAD - 1
NoRun == [seed1 |-> 0, seed2 |-> 0, seed3 |-> 0, execs |-> {}, size |-> 0, iterations |-> 0]

-----------------------------------------------------------------------------
(* The arguments.                                                           *)

(* M<n> as the first argument is for the port: n contexts (a negative n is  *)
(* a large unsigned one), and the others move down.                         *)
portable_init ==
  /\ pc = "portable_init"
  /\ IF method \notin Single /\ argv # <<>> /\ Head(argv[1]) = "M"
     THEN /\ contexts' = LET n == parseval(Tail(argv[1]))
                         IN  IF n \in 0 .. MULTITHREAD THEN n ELSE MULTITHREAD
          /\ argv' = Tail(argv)
     ELSE UNCHANGED <<contexts, argv>>
  /\ pc' = "seeds"
  /\ UNCHANGED <<build, run, i, child, wait, value, channel, verdict>>

(* The processor has no command line: the seeds are volatile variables.     *)
seed_volatile ==
  CASE method = "VALIDATION_RUN"  -> <<13333, 13333, 102, get_seed_args(1, argv), 0>>
    [] method = "PERFORMANCE_RUN" -> <<0, 0, 102, get_seed_args(1, argv), 0>>
    [] method = "PROFILE_RUN"     -> <<8, 8, 8, get_seed_args(1, argv), 0>>

get_seed_32(k) ==
  IF method \notin BareMetal THEN get_seed_args(k, argv)
  ELSE IF k \in DOMAIN seed_volatile THEN seed_volatile[k]
  ELSE 0

(* What a build has for the blocks, if the command line does not say more.  *)
DataSize == IF method = "PROFILE_RUN" THEN 1200 ELSE TOTAL_DATA_SIZE

Seeds ==
  /\ pc = "seeds"
  /\ LET s == seeds(get_seed_32(1) % 65536, get_seed_32(2) % 65536, get_seed_32(3) % 65536)
         todo == execs(get_seed_32(5))
         override == get_seed_32(7) IN
     run' = [seed1 |-> s.seed1, seed2 |-> s.seed2, seed3 |-> s.seed3, execs |-> todo,
             iterations |-> get_seed_32(4),
             size |-> share(IF override # 0 THEN override ELSE DataSize, Cardinality(todo))]
  /\ pc' = IF get_seed_32(4) = 0 THEN "calibrate" ELSE "start"
  /\ UNCHANGED <<build, argv, contexts, i, child, wait, value, channel, verdict>>

(* Where the j-th algorithm of those to execute has its block, and where    *)
(* the arrays in it end.  A matrix starts at a multiple of 4, and so do the *)
(* results behind its two operands.                                         *)
align_mem(x) == 4 * ((x + 3) \div 4)

BlockOf(a) ==
  LET j == Cardinality({b \in run.execs : \E x, y \in DOMAIN Algorithms :
                          Algorithms[x] = b /\ Algorithms[y] = a /\ x <= y})
      at == memblock(run.size * Cardinality(run.execs), Cardinality(run.execs), j)
      n == Dimension(run.size)
  IN  CASE a = "list"   -> [from |-> at, to |-> at + 20 * ((run.size \div 20) - 2)]
        [] a = "matrix" -> [from |-> at, to |-> align_mem(align_mem(at) + 4 * n * n) + 4 * n * n]
        [] a = "state"  -> [from |-> at, to |-> at + run.size]

-----------------------------------------------------------------------------
(* The number of iterations: ten times as many until they take a second.    *)

(* The processor counts cycles in 32 bits and takes 10^9 of them for a      *)
(* second.  In units of 2^9 cycles: 2^23 values, 5^9 to a second.           *)
EE_TICKS_PER_SEC == IF method \in BareMetal THEN 1953125 ELSE TICKS_PER_SEC
Duration(n) == n * ticks
get_time(n) == IF method \in BareMetal THEN Duration(n) % 8388608 ELSE Duration(n)

time_in_secs(t) == t \div EE_TICKS_PER_SEC
Secs(n) == time_in_secs(get_time(n))

(* Mutant: no round more than the quotient.                                 *)
Enough_Short(n) == n * (10 \div Secs(n))
Enough(n) == n * (1 + 10 \div Secs(n))

Calibrate ==
  /\ pc = "calibrate"
  /\ LET n == (IF run.iterations = 0 THEN 1 ELSE run.iterations) * 10 IN
     IF Secs(n) < 1
     THEN run' = [run EXCEPT !.iterations = n] /\ UNCHANGED pc
     ELSE run' = [run EXCEPT !.iterations = Enough(n)] /\ pc' = "start"
  /\ value' = [value EXCEPT ![0] = "calibration"]
  /\ UNCHANGED <<build, argv, contexts, i, child, wait, channel, verdict>>

-----------------------------------------------------------------------------
(* core_start_parallel.  A process that cannot be created has the pid -1.   *)

Start ==
  /\ pc = "start"
  /\ i < contexts
  /\ \/ child' = [child EXCEPT ![i] = "running"]
     \/ method \in {"fork", "socket"} /\ child' = [child EXCEPT ![i] = "failed"]
  /\ pc' = IF method = "socket" THEN "bind" ELSE "start"
  /\ i' = IF method = "socket" THEN i ELSE i + 1
  /\ UNCHANGED <<build, argv, contexts, run, wait, value, channel, verdict>>

(* The parent opens the socket after the fork.                              *)
Bind ==
  /\ pc = "bind"
  /\ channel' = [channel EXCEPT ![i] = IF @ = "closed" THEN "empty" ELSE @]
  /\ pc' = "start"
  /\ i' = i + 1
  /\ UNCHANGED <<build, argv, contexts, run, child, wait, value, verdict>>

AllStarted ==
  /\ pc = "start"
  /\ i >= contexts
  /\ pc' = "stop"
  /\ i' = 0
  /\ UNCHANGED <<build, argv, contexts, run, child, wait, value, channel, verdict>>

(* A context: iterate, hand the CRCs over, exit.  A thread writes them in   *)
(* the results.  The datagram for a port nobody has bound is dropped, and   *)
(* the shared memory may fail to attach.                                    *)
Finish(c) ==
  /\ child[c] = "running"
  /\ child' = [child EXCEPT ![c] = "exited"]
  /\ CASE method \in Single \union {"pthread"} ->
            value' = [value EXCEPT ![c] = "own"] /\ UNCHANGED channel
       [] method = "fork" ->
            channel' \in {channel, [channel EXCEPT ![c] = "own"]} /\ UNCHANGED value
       [] method = "socket" ->
            /\ channel' = IF channel[c] = "closed" THEN [channel EXCEPT ![c] = "dropped"]
                          ELSE [channel EXCEPT ![c] = "own"]
            /\ UNCHANGED value
  /\ UNCHANGED <<build, pc, argv, contexts, run, i, wait, verdict>>

(* A signal stops a process, once; another lets it go on, or never comes.   *)
Suspend(c) ==
  /\ method \in {"fork", "socket"}
  /\ child[c] = "running"
  /\ wait[c] = "no"
  /\ child' = [child EXCEPT ![c] = "suspended"]
  /\ wait' = [wait EXCEPT ![c] = "report"]
  /\ UNCHANGED <<build, pc, argv, contexts, run, i, value, channel, verdict>>

Resume(c) ==
  /\ child[c] = "suspended"
  /\ child' = [child EXCEPT ![c] = "running"]
  /\ wait' = [wait EXCEPT ![c] = "resumed"]
  /\ UNCHANGED <<build, pc, argv, contexts, run, i, value, channel, verdict>>

-----------------------------------------------------------------------------
(* core_stop_parallel.                                                      *)

(* waitpid(pid, WUNTRACED) returns for a child that has exited and is then  *)
(* gone, or that was stopped since it was last reported; with pid -1 for    *)
(* any child.  It fails when there is no such child.                        *)
Children == {c \in Contexts : child[c] \in {"running", "suspended", "exited"} /\ wait[c] # "gone"}
(* Mutants of the next: without WUNTRACED; not waiting for the exit.        *)
Reportable_Exited(c) == c \in Children /\ child[c] = "exited"
Reportable_Any(c) == c \in Children
Reportable(c) == c \in Children /\ (child[c] = "exited" \/ wait[c] = "report")
Waited(c) == [wait EXCEPT ![c] = IF child[c] = "exited" THEN "gone" ELSE "no"]

(* The wait for context i; ok tells whether it returned port.pid.           *)
WaitPid(ok) ==
  IF child[i] = "failed"
  THEN IF Children = {} THEN ok /\ UNCHANGED wait
       ELSE ~ok /\ \E c \in Children : Reportable(c) /\ wait' = Waited(c)
  ELSE IF i \notin Children THEN ~ok /\ UNCHANGED wait
       ELSE ok /\ Reportable(i) /\ wait' = Waited(i)

Stop ==
  /\ pc = "stop"
  /\ i < contexts
  /\ CASE method \in Single \union {"pthread"} ->
            child[i] = "exited" /\ UNCHANGED <<wait, value, channel>>
       [] method = "fork" ->
            /\ \E ok \in BOOLEAN : WaitPid(ok) /\ value' = [value EXCEPT ![i] = IF ok THEN channel[i] ELSE @]
            /\ UNCHANGED channel
       [] method = "socket" ->
            /\ channel[i] = "own"
            /\ value' = [value EXCEPT ![i] = "own"]
            /\ channel' = [channel EXCEPT ![i] = "empty"]
            /\ \E ok \in BOOLEAN : WaitPid(ok)
  /\ i' = i + 1
  /\ UNCHANGED <<build, pc, argv, contexts, run, child, verdict>>

(* The report.  CRCs of this run's seeds are right wherever they were       *)
(* computed.  A context that was not waited for may make the run short.     *)
Right(c) == value[c] \in {"own", "calibration"} \/ (value[c] = "left" /\ leftover = "same_seeds")

Known == known_id(seedcrc(run, run.size))

(* Mutant: all there could be.                                              *)
Used_All == Contexts
Used == 0 .. contexts - 1

Report ==
  /\ pc = "stop"
  /\ i >= contexts
  /\ LET errs == Cardinality({c \in Used : ~Right(c)})
         full == Secs(run.iterations) IN
     \E secs \in IF Used = {} THEN {0}
                 ELSE IF \A c \in Used : child[c] = "exited" THEN {full} ELSE {0, full} :
       verdict' = Verdict(total_errors(Known, errs, secs))
  /\ pc' = "done"
  /\ UNCHANGED <<build, argv, contexts, run, i, child, wait, value, channel>>

-----------------------------------------------------------------------------
MainInit ==
  /\ method \in Methods
  /\ ticks \in Ticks[method]
  /\ leftover \in IF method = "fork" THEN {"none", "same_seeds", "other_seeds"} ELSE {"none"}
  /\ pc = "portable_init"
  /\ argv \in Argvs[method]
  /\ contexts = IF method \in Single THEN 1 ELSE MULTITHREAD
  /\ run = NoRun
  /\ i = 0
  /\ child = [c \in Contexts |-> "none"]
  /\ wait = [c \in Contexts |-> "no"]
  /\ value = [c \in Contexts |-> "unset"]
  /\ channel = [c \in Contexts |-> IF method = "fork" THEN "left" ELSE "closed"]
  /\ verdict = "none"

MainNext ==
  \/ portable_init \/ Seeds \/ Calibrate
  \/ Start \/ Bind \/ AllStarted \/ Stop \/ Report
  \/ \E c \in Contexts : Finish(c) \/ Suspend(c) \/ Resume(c)

MainSpec == MainInit /\ [][MainNext]_mainVars

(* The processor is shared out; whether a signal comes is not up to it.     *)
MainFairSpec ==
  /\ MainSpec
  /\ WF_mainVars(portable_init \/ Seeds \/ Calibrate \/ Start \/ Bind \/ AllStarted \/ Stop \/ Report)
  /\ \A c \in Contexts : WF_mainVars(Finish(c))

-----------------------------------------------------------------------------
(* Properties.                                                              *)

MainTypeOK ==
  /\ pc \in {"portable_init", "seeds", "calibrate", "start", "bind", "stop", "done"}
  /\ contexts \in 0 .. MULTITHREAD
  /\ i \in 0 .. MULTITHREAD
  /\ run.iterations \in Int
  /\ child \in [Contexts -> {"none", "running", "failed", "suspended", "exited"}]
  /\ wait \in [Contexts -> {"no", "report", "resumed", "gone"}]
  /\ value \in [Contexts -> {"unset", "calibration", "left", "own"}]
  /\ channel \in [Contexts -> {"left", "closed", "empty", "dropped", "own"}]

(* A share of s bytes has room for its matrices wherever it starts: it      *)
(* starts at a multiple of 4, or 3 bytes are left to skip to one.           *)
RoomToAlign(s) == s > 0 /\ (s % 4 = 0 \/ 8 * Dimension(s) * Dimension(s) + 3 <= s)

(* The blocks of the algorithms do not overlap, whichever are executed:     *)
(* what one writes in its arrays stays in its share of the memory, padding  *)
(* included, in every share that has room to align (core_main.c:171-190).   *)
BlocksDisjoint ==
  /\ MainTypeOK
  /\ pc \notin {"portable_init", "seeds"} /\ (run.execs # {} => RoomToAlign(run.size)) =>
       \A a, b \in run.execs : LET x == BlockOf(a) y == BlockOf(b) IN
         /\ x.to <= run.size * Cardinality(run.execs)
         /\ a # b => x.to <= y.from \/ y.to <= x.from

(* "iterations will be automatically determined such that the benchmark     *)
(* will run between 10 to 100 secs", unless ten iterations take longer.  On *)
(* the processor, whose clock may have gone round, only 10 secs are sure.   *)
CalibratedRun ==
  [][pc = "calibrate" /\ pc' = "start" =>
       LET secs == time_in_secs(Duration(run'.iterations)) IN
       /\ secs >= 10
       /\ secs <= 100 \/ run'.iterations = 10 \/ method \in BareMetal]_mainVars

Undisturbed ==
  \A c \in Contexts : c < contexts =>
    child[c] = "exited" /\ wait[c] \in {"no", "gone"} /\ channel[c] # "left"

(* The results main has gathered are of contexts that have finished, and a  *)
(* context it has waited for has its own, however the waits and the exits   *)
(* interleave, but for five: the fork failed; the process is suspended, or  *)
(* was when the wait returned; it could not attach the shared memory; or    *)
(* its exit was collected by the wait for another, whose fork had failed    *)
(* (linux/core_portme.c:270-334).                                           *)
CrcsTaken ==
  \A c \in Contexts :
    /\ value[c] = "own" => child[c] = "exited"
    /\ pc \in {"stop", "done"} /\ c < i =>
         \/ value[c] = "own"
         \/ child[c] \in {"failed", "suspended"}
         \/ wait[c] = "resumed"
         \/ child[c] = "exited" /\ channel[c] = "left"
         \/ wait[c] = "gone" /\ \E d \in Contexts : d < i /\ child[d] = "failed"

(* A run that says its operation is validated has, for each context, CRCs   *)
(* computed in this run: a context that failed, was suspended, or whose     *)
(* exit was collected by the wait for another is noticed, unless the shared *)
(* memory, which is never removed, still holds those of the same seeds.     *)
ValidatedMeansComputed ==
  verdict = "validated" /\ Known # Unknown /\ leftover # "same_seeds" =>
    \A c \in Contexts : c < contexts => value[c] \in {"own", "calibration"}

(* Conversely, contexts that all ran validate a long enough run of known    *)
(* seeds; but never on the processor, whose clock goes round in less than   *)
(* ten seconds: there the longest run counts as too short.                  *)
CompleteRunValidates ==
  pc = "done" /\ Undisturbed /\ contexts > 0 /\ Known # Unknown
    /\ time_in_secs(Duration(run.iterations)) >= 10 =>
    verdict = IF method \in BareMetal THEN "errors" ELSE "validated"

(* "Report results, testing the validity of the output if the seeds are     *)
(* known": only then is it said to be valid.                                *)
ValidatedMeansKnown == verdict = "validated" => Known # Unknown

(* main ends, unless it waits for a datagram that nobody will send or       *)
(* receive (a fork that failed, a process suspended for ever, or one that   *)
(* sent before the parent had bound the socket), or for a process suspended *)
(* for ever whose stop was reported to the wait in place of a failed fork.  *)
Stranded ==
  \E c \in Contexts :
    \/ method = "socket" /\ (child[c] \in {"failed", "suspended"} \/ channel[c] = "dropped")
    \/ method = "fork" /\ child[c] = "suspended" /\ \E d \in Contexts : child[d] = "failed"

MainEnds == <>(pc = "done") \/ <>[]Stranded
=============================================================================
