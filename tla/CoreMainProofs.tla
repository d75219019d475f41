--------------------------- MODULE CoreMainProofs ---------------------------
(***************************************************************************)
(* main of CoreMark, for any number of contexts, every build, any command  *)
(* line and clock, and every order in which the contexts start, fail, are  *)
(* suspended and end: what it means to be told that the run was validated. *)
(***************************************************************************)
EXTENDS CoreMain, FiniteSetTheorems, SequenceTheorems, WellFoundedInduction, TLAPS

(* The verdict is the last thing main does.                                 *)
Ended == verdict # "none" => pc = "done"

(* There are no more contexts in use than there is room for.                *)
InRoom == contexts \in 0 .. MULTITHREAD

(* Every context has a result, and the build is one that is modelled.       *)
Results == method \in Methods /\ value = [c \in Contexts |-> value[c]]

(* What a verdict of success says of the results, wherever they came from.  *)
CheckedRight ==
  verdict = "validated" /\ Known # Unknown =>
    \A c \in Contexts : c < contexts => Right(c)

MainIInv == Ended /\ InRoom /\ Results /\ CheckedRight

-----------------------------------------------------------------------------

LEMMA MainInitIInv == MainInit => MainIInv
<1> SUFFICES ASSUME MainInit PROVE MainIInv
  OBVIOUS
<1>1. contexts \in {1, MULTITHREAD}
  BY DEF MainInit
<1>2. InRoom
  BY <1>1, MainAssumption DEF InRoom
<1>3. Results
  BY DEF MainInit, Results
<1> QED BY <1>2, <1>3 DEF MainInit, MainIInv, Ended, CheckedRight

(* For known seeds the errors are only ever added up: a sum of 0 has none.  *)
LEMMA SuccessIsZero ==
  ASSUME NEW errors \in Int, errors > 0
  PROVE  Verdict(errors) = "errors"
<1>1. ~(errors = 0) /\ ~(errors < 0)
  OBVIOUS
<1> QED BY <1>1, Zenon DEF Verdict

LEMMA ErrorsAddUp ==
  ASSUME NEW id, id # Unknown, NEW n \in Nat, NEW secs
  PROVE  total_errors(id, n, secs) \in {n, n + 1}
<1>1. total_errors(id, n, secs) = n + 0 \/ total_errors(id, n, secs) = n + 1
  BY Zenon DEF total_errors
<1> QED BY <1>1

LEMMA ZeroErrors ==
  ASSUME NEW id, id # Unknown, NEW n \in Nat, NEW secs,
         Verdict(total_errors(id, n, secs)) = "validated"
  PROVE  n = 0
<1> DEFINE total == total_errors(id, n, secs)
<1>1. total \in {n, n + 1}
  BY ErrorsAddUp
<1>2. Verdict(total) = "validated"
  OBVIOUS
<1> HIDE DEF total
<1>3. total \in Int
  BY <1>1
<1>4. ~(total > 0)
  BY <1>2, <1>3, SuccessIsZero, Zenon
<1> QED BY <1>1, <1>4

(* The wrong contexts can be counted.                                       *)
LEMMA WrongCounted ==
  ASSUME InRoom, NEW wrong \in SUBSET Used
  PROVE  Cardinality(wrong) \in Nat /\ (Cardinality(wrong) = 0 => wrong = {})
<1>1. 0 \in Int /\ contexts - 1 \in Int
  BY MainAssumption DEF InRoom
<1>2. IsFiniteSet(Used)
  BY <1>1, FS_Interval DEF Used
<1>3. IsFiniteSet(wrong)
  BY <1>2, FS_Subset
<1> QED BY <1>3, FS_CardinalityType, FS_EmptySet

(* A verdict of success means that no context in use has a wrong CRC.       *)
LEMMA NoErrors ==
  ASSUME InRoom, NEW secs, Known # Unknown,
         Verdict(total_errors(Known, Cardinality({c \in Used : ~Right(c)}), secs))
           = "validated"
  PROVE  \A c \in Contexts : c < contexts => Right(c)
<1> DEFINE wrong == {c \in Used : ~Right(c)}
<1>1. wrong \in SUBSET Used
  OBVIOUS
<1>2. Verdict(total_errors(Known, Cardinality(wrong), secs)) = "validated"
  OBVIOUS
<1> HIDE DEF wrong
<1>3. Cardinality(wrong) \in Nat
  BY <1>1, WrongCounted, Zenon
<1>4. Cardinality(wrong) = 0
  BY <1>2, <1>3, ZeroErrors, Zenon
<1>5. wrong = {}
  BY <1>1, <1>4, WrongCounted, Zenon
<1>6. \A c \in Contexts : c < contexts => c \in Used
  BY MainAssumption DEF Used, Contexts, InRoom
<1> QED BY <1>5, <1>6, Zenon DEF wrong

(* What Right and Known look at stays as it is once the verdict is there.   *)
LEMMA KnownStays ==
  ASSUME UNCHANGED run
  PROVE  Known' = Known
BY DEF Known

(* The statements of main before the report have no verdict to spoil.       *)
LEMMA BeforeTheReport ==
  ASSUME MainIInv, pc # "done", verdict' = verdict, contexts' \in 0 .. MULTITHREAD, Results'
  PROVE  MainIInv'
<1>1. verdict = "none"
  BY DEF MainIInv, Ended
<1> QED BY <1>1 DEF MainIInv, Ended, InRoom, CheckedRight

LEMMA ResultWritten ==
  ASSUME Results, method' = method, NEW c, NEW x, value' = [value EXCEPT ![c] = x]
  PROVE  Results'
BY DEF Results

(* Waiting for a context writes its result or none.                         *)
LEMMA StopWrites ==
  ASSUME Results, Stop
  PROVE  Results'
<1>1. method \in Single \union {"pthread", "fork", "socket"} /\ method' = method
  BY MainAssumption DEF Results, Stop, build
<1>2. CASE method \in Single \union {"pthread"}
  <2>1. value' = value
    BY <1>2 DEF Stop, Single, BareMetal
  <2> QED BY <1>1, <2>1 DEF Results
<1>3. CASE method = "fork"
  <2>1. PICK x : value' = [value EXCEPT ![i] = x]
    BY <1>3 DEF Stop, Single, BareMetal
  <2> QED BY <1>1, <2>1, ResultWritten
<1>4. CASE method = "socket"
  <2>1. value' = [value EXCEPT ![i] = "own"]
    BY <1>4 DEF Stop, Single, BareMetal
  <2> QED BY <1>1, <2>1, ResultWritten
<1> QED BY <1>1, <1>2, <1>3, <1>4

(* A context that ends, is suspended or goes on changes no result but its   *)
(* own, and that for the better.                                            *)
LEMMA ContextWrites ==
  ASSUME Results, NEW c, Finish(c) \/ Suspend(c) \/ Resume(c)
  PROVE  value' = value \/ value' = [value EXCEPT ![c] = "own"]
<1>1. CASE Suspend(c) \/ Resume(c)
  BY <1>1 DEF Suspend, Resume
<1>2. CASE Finish(c)
  <2>1. method \in Single \union {"pthread", "fork", "socket"}
    BY MainAssumption DEF Results
  <2>2. CASE method \in Single \union {"pthread"}
    BY <1>2, <2>2 DEF Finish, Single, BareMetal
  <2>3. CASE method = "fork"
    BY <1>2, <2>3 DEF Finish, Single, BareMetal
  <2>4. CASE method = "socket"
    BY <1>2, <2>4 DEF Finish, Single, BareMetal
  <2> QED BY <2>1, <2>2, <2>3, <2>4
<1> QED BY <1>1, <1>2

LEMMA ContextStep ==
  ASSUME MainIInv, NEW c \in Contexts, Finish(c) \/ Suspend(c) \/ Resume(c)
  PROVE  MainIInv'
<1>1. UNCHANGED <<run, contexts, verdict, pc, leftover, method>>
  BY DEF Finish, Suspend, Resume, build
<1>2. value' = value \/ value' = [value EXCEPT ![c] = "own"]
  BY ContextWrites DEF MainIInv
<1>3. Known' = Known
  BY <1>1, KnownStays
<1>4. Results'
  BY <1>1, <1>2, ResultWritten DEF MainIInv, Results
<1>5. \A d \in Contexts : value'[d] \in {value[d], "own"}
  BY <1>2 DEF MainIInv, Results
<1>6. ASSUME NEW d \in Contexts, Right(d) PROVE Right(d)'
  BY <1>1, <1>5, <1>6 DEF Right
<1>7. CheckedRight'
  BY <1>1, <1>3, <1>6 DEF MainIInv, CheckedRight
<1> QED BY <1>1, <1>4, <1>7 DEF MainIInv, Ended, InRoom

LEMMA MainNextIInv ==
  ASSUME MainIInv, [MainNext]_mainVars
  PROVE  MainIInv'
<1>1. ASSUME portable_init PROVE MainIInv'
  <2>1. contexts' \in 0 .. MULTITHREAD
    BY <1>1, MainAssumption DEF portable_init, MainIInv, InRoom
  <2>2. pc # "done" /\ verdict' = verdict /\ Results'
    BY <1>1 DEF portable_init, MainIInv, Results, build
  <2> QED BY <2>1, <2>2, BeforeTheReport
<1>2. ASSUME Seeds \/ Start \/ Bind \/ AllStarted PROVE MainIInv'
  <2>1. UNCHANGED <<verdict, contexts, value, method>>
    BY <1>2 DEF Seeds, Start, Bind, AllStarted, build
  <2>2. pc # "done"
    BY <1>2 DEF Seeds, Start, Bind, AllStarted
  <2>3. contexts' \in 0 .. MULTITHREAD /\ Results'
    BY <2>1 DEF MainIInv, InRoom, Results
  <2> QED BY <2>1, <2>2, <2>3, BeforeTheReport
<1>3. ASSUME Calibrate PROVE MainIInv'
  <2>1. /\ pc # "done"
        /\ UNCHANGED <<verdict, contexts, method>>
        /\ value' = [value EXCEPT ![0] = "calibration"]
    BY <1>3 DEF Calibrate, build
  <2>2. contexts' \in 0 .. MULTITHREAD /\ Results'
    BY <2>1, ResultWritten DEF MainIInv, InRoom
  <2> QED BY <2>1, <2>2, BeforeTheReport
<1>4. ASSUME Stop PROVE MainIInv'
  <2>1. pc # "done" /\ verdict' = verdict /\ contexts' = contexts
    BY <1>4 DEF Stop
  <2>2. contexts' \in 0 .. MULTITHREAD /\ Results'
    BY <1>4, <2>1, StopWrites DEF MainIInv, InRoom
  <2> QED BY <2>1, <2>2, BeforeTheReport
<1>5. ASSUME Report PROVE MainIInv'
  <2>1. /\ pc' = "done"
        /\ UNCHANGED <<run, contexts, value, leftover, method>>
    BY <1>5 DEF Report, build
  <2>2. Known' = Known /\ \A c : Right(c)' = Right(c)
    BY <2>1, KnownStays DEF Right
  <2>3. PICK secs : verdict' = Verdict(total_errors(Known, Cardinality({c \in Used : ~Right(c)}), secs))
    BY <1>5 DEF Report
  <2>4. CheckedRight'
    BY <2>1, <2>2, <2>3, NoErrors DEF CheckedRight, MainIInv
  <2> QED BY <2>1, <2>4 DEF MainIInv, Ended, InRoom, Results
<1>6. ASSUME NEW c \in Contexts, Finish(c) \/ Suspend(c) \/ Resume(c) PROVE MainIInv'
  BY <1>6, ContextStep
<1>7. CASE UNCHANGED mainVars
  BY <1>7, KnownStays DEF mainVars, build, MainIInv, Ended, InRoom, Results, CheckedRight, Right
<1> QED BY <1>1, <1>2, <1>3, <1>4, <1>5, <1>6, <1>7 DEF MainNext

(* A run of known seeds that is reported as validated has, for each of its  *)
(* contexts, CRCs that were computed in this run, whatever failed in        *)
(* between; only CRCs of the same seeds left in shared memory can stand in. *)
THEOREM MainValidated == MainSpec => []ValidatedMeansComputed
<1>1. MainIInv => ValidatedMeansComputed
  BY DEF MainIInv, CheckedRight, ValidatedMeansComputed, Right
<1> QED BY <1>1, MainInitIInv, MainNextIInv, PTL DEF MainSpec

-----------------------------------------------------------------------------
(* The number of iterations.                                                *)

(* While it is looked for, the last number that was tried was too small.    *)
Calibrating ==
  /\ method \in Methods /\ ticks \in Ticks[method]
  /\ pc = "calibrate" =>
       /\ "iterations" \in DOMAIN run
       /\ run.iterations \in Nat
       /\ run.iterations # 0 => Secs(run.iterations) < 1

LEMMA CalibratingInit == MainInit => Calibrating
BY DEF MainInit, Calibrating

LEMMA Clock ==
  ASSUME Calibrating
  PROVE  ticks \in Nat \ {0} /\ EE_TICKS_PER_SEC \in Nat \ {0}
BY MainAssumption DEF Calibrating, EE_TICKS_PER_SEC

LEMMA CalibrateStep ==
  ASSUME Calibrating, Calibrate
  PROVE  Calibrating'
<1> DEFINE n == (IF run.iterations = 0 THEN 1 ELSE run.iterations) * 10
<1>1. n \in Nat /\ "iterations" \in DOMAIN run
  BY DEF Calibrating, Calibrate
<1>2. method' = method /\ ticks' = ticks
  BY DEF Calibrate, build
<1>3. CASE Secs(n) < 1
  <2>1. run' = [run EXCEPT !.iterations = n]
    BY <1>3 DEF Calibrate
  <2>2. run'.iterations = n /\ "iterations" \in DOMAIN run'
    BY <1>1, <2>1
  <2>3. Secs(run.iterations)' = Secs(run'.iterations)
    BY <1>2, SMT DEF Secs, time_in_secs, get_time, Duration, EE_TICKS_PER_SEC
  <2>4. Secs(run.iterations)' < 1
    BY <1>3, <2>2, <2>3
  <2> QED BY <1>1, <1>2, <2>2, <2>4 DEF Calibrating
<1>4. CASE ~(Secs(n) < 1)
  <2>1. pc' = "start"
    BY <1>4 DEF Calibrate
  <2> QED BY <1>2, <2>1 DEF Calibrating
<1> QED BY <1>3, <1>4

LEMMA CalibratingNext ==
  ASSUME Calibrating, [MainNext]_mainVars
  PROVE  Calibrating'
<1>1. CASE Seeds
  <2>1. method' = method /\ ticks' = ticks
    BY <1>1 DEF Seeds, build
  <2>2. pc' = "calibrate" => "iterations" \in DOMAIN run' /\ run'.iterations = 0
    BY <1>1 DEF Seeds
  <2> QED BY <2>1, <2>2 DEF Calibrating
<1>2. CASE portable_init \/ Start \/ Bind \/ AllStarted \/ Stop \/ Report
  <2>1. method' = method /\ ticks' = ticks
    BY <1>2 DEF portable_init, Start, Bind, AllStarted, Stop, Report, build
  <2>2. pc' # "calibrate"
    BY <1>2 DEF portable_init, Start, Bind, AllStarted, Stop, Report
  <2> QED BY <2>1, <2>2 DEF Calibrating
<1>3. ASSUME NEW c \in Contexts, Finish(c) \/ Suspend(c) \/ Resume(c) PROVE Calibrating'
  <2>1. UNCHANGED <<method, ticks, pc, run>>
    BY <1>3 DEF Finish, Suspend, Resume, build
  <2> QED BY <2>1, SMT DEF Calibrating, Secs, time_in_secs, get_time, Duration, EE_TICKS_PER_SEC
<1>4. CASE UNCHANGED mainVars
  BY <1>4, SMT DEF mainVars, build, Calibrating, Secs, time_in_secs, get_time, Duration, EE_TICKS_PER_SEC
<1> QED BY <1>1, <1>2, <1>3, <1>4, CalibrateStep DEF MainNext

(* A number of iterations that takes s seconds, 1 + 10 / s times.           *)
LEMMA TenSeconds ==
  ASSUME NEW e \in Nat \ {0}, NEW d \in Nat, NEW s \in Nat \ {0}, NEW m \in Nat,
         m = 1 + 10 \div s, d >= s * e
  PROVE  d * m >= 10 * e
<1>1. CASE s > 10
  <2>1. m = 1
    BY <1>1
  <2>2. s * e >= 10 * e
    BY <1>1
  <2> QED BY <2>1, <2>2
<1>2. CASE s <= 10
  <2>1. s \in {1, 2, 3, 4, 5, 6, 7, 8, 9, 10}
    BY <1>2
  <2>2. m \in Nat /\ m * s >= 10
    BY <2>1
  <2>3. d * m >= (s * e) * m
    BY <2>2
  <2>4. (s * e) * m = (m * s) * e
    BY <2>2
  <2>5. (m * s) * e >= 10 * e
    BY <2>2
  <2>6. d * m \in Int /\ (s * e) * m \in Int /\ (m * s) * e \in Int /\ 10 * e \in Int
    BY <2>2
  <2> QED BY <2>3, <2>4, <2>5, <2>6
<1> QED BY <1>1, <1>2

LEMMA NotAHundred ==
  ASSUME NEW e \in Nat \ {0}, NEW d \in Nat, NEW s \in Nat \ {0}, NEW m \in Nat,
         m = 1 + 10 \div s, d < (s + 1) * e, s <= 10
  PROVE  d * m < 23 * e
<1>1. s \in {1, 2, 3, 4, 5, 6, 7, 8, 9, 10}
  OBVIOUS
<1>2. m \in Nat /\ m > 0 /\ (s + 1) * m <= 22
  BY <1>1
<1>3. d * m <= ((s + 1) * e) * m
  BY <1>2
<1>4. ((s + 1) * e) * m = ((s + 1) * m) * e
  BY <1>2
<1>5. ((s + 1) * m) * e <= 22 * e
  BY <1>2
<1>6. d * m \in Int /\ ((s + 1) * e) * m \in Int /\ ((s + 1) * m) * e \in Int /\ 22 * e \in Int
  BY <1>2
<1>7. d * m <= 22 * e
  BY <1>3, <1>4, <1>5, <1>6
<1> QED BY <1>6, <1>7

LEMMA Quotient ==
  ASSUME NEW e \in Nat \ {0}, NEW t \in Nat
  PROVE  /\ t \div e \in Nat
         /\ t >= (t \div e) * e /\ t < ((t \div e) + 1) * e
         /\ \A k \in Nat : t >= k * e => t \div e >= k
         /\ \A k \in Nat : t < k * e => t \div e < k
<1>1. t \div e \in Nat /\ t >= (t \div e) * e /\ t < ((t \div e) + 1) * e
  OBVIOUS
<1> DEFINE d == t \div e
<1>2. d \in Nat /\ t >= d * e /\ t < (d + 1) * e
  BY <1>1
<1> HIDE DEF d
<1>3. ASSUME NEW k \in Nat, t >= k * e PROVE d >= k
  <2> SUFFICES ASSUME d + 1 <= k PROVE FALSE
    BY <1>2
  <2>1. (d + 1) * e <= k * e
    BY <1>2
  <2>2. (d + 1) * e \in Int /\ k * e \in Int
    BY <1>2
  <2> QED BY <1>2, <1>3, <2>1, <2>2
<1>4. ASSUME NEW k \in Nat, t < k * e PROVE d < k
  <2> SUFFICES ASSUME k <= d PROVE FALSE
    BY <1>2
  <2>1. k * e <= d * e
    BY <1>2
  <2>2. d * e \in Int /\ k * e \in Int
    BY <1>2
  <2> QED BY <1>2, <1>4, <2>1, <2>2
<1> QED BY <1>2, <1>3, <1>4 DEF d

(* The step that ends the search: what it settles for lasts ten seconds,    *)
(* and no more than twenty-two unless ten iterations alone do.              *)
LEMMA Settles ==
  ASSUME Calibrating, Calibrate, pc' = "start"
  PROVE  LET secs == time_in_secs(Duration(run'.iterations)) IN
         /\ secs >= 10
         /\ secs <= 100 \/ run'.iterations = 10 \/ method \in BareMetal
<1> DEFINE n == (IF run.iterations = 0 THEN 1 ELSE run.iterations) * 10
           e == EE_TICKS_PER_SEC
           s == Secs(n)
           m == 1 + 10 \div s
           d == Duration(n)
           t == get_time(n)
<1>1. n \in Nat \ {0} /\ "iterations" \in DOMAIN run /\ e \in Nat \ {0} /\ ticks \in Nat \ {0}
  BY Clock DEF Calibrating, Calibrate
<1>2. ~(s < 1) /\ run' = [run EXCEPT !.iterations = Enough(n)]
  BY DEF Calibrate
<1>3. run'.iterations = n * m
  BY <1>1, <1>2 DEF Enough
<1>4. d \in Nat /\ d = n * ticks
  BY <1>1 DEF Duration
<1>5. t \in Nat /\ t <= d /\ (method \notin BareMetal => t = d)
  <2> HIDE DEF d
  <2>1. t = IF method \in BareMetal THEN d % 8388608 ELSE d
    BY SMT DEF get_time, d
  <2> HIDE DEF t
  <2> QED BY <1>4, <2>1, SMT
<1>6. s = t \div e
  BY DEF Secs, time_in_secs
<1>7. s \in Nat \ {0} /\ t >= s * e /\ t < (s + 1) * e
  <2> HIDE DEF t, e, s
  <2> QED BY <1>1, <1>2, <1>5, <1>6, Quotient
<1>8. m \in Nat /\ m = 1 + 10 \div s
  <2> HIDE DEF s
  <2> QED BY <1>7
<1>9. Duration(run'.iterations) = d * m
  <2> HIDE DEF m
  <2>1. (n * m) * ticks = (n * ticks) * m
    BY <1>1, <1>8
  <2> QED BY <1>3, <1>4, <2>1 DEF Duration
<1> DEFINE whole == d * m
           secs == whole \div e
<1>10. time_in_secs(Duration(run'.iterations)) = secs
  BY <1>9 DEF time_in_secs
<1> HIDE DEF d, m, s, t, e
<1>11. whole \in Nat /\ d >= s * e
  BY <1>1, <1>4, <1>5, <1>7, <1>8
<1>12. whole >= 10 * e
  BY <1>1, <1>4, <1>7, <1>8, <1>11, TenSeconds
<1> HIDE DEF whole
<1>13. secs \in Nat /\ secs >= 10
  BY <1>1, <1>11, <1>12, Quotient
<1>14. ASSUME method \notin BareMetal, run'.iterations # 10 PROVE secs <= 100
  <2>1. s <= 10
    <3> SUFFICES ASSUME s > 10 PROVE n = 10
      <4>1. s > 10 => m = 1
        BY <1>7, <1>8
      <4> QED BY <1>1, <1>3, <1>7, <1>14, <4>1 DEF m
    <3>1. CASE run.iterations = 0
      BY <3>1
    <3>2. CASE run.iterations # 0
      <4> DEFINE k == run.iterations
      <4>1. k \in Nat /\ k # 0 /\ Secs(k) < 1 /\ n = k * 10
        BY <3>2 DEF Calibrating, Calibrate
      <4>2. Secs(k) = (k * ticks) \div e
        BY <1>14, SMT DEF Secs, time_in_secs, get_time, Duration, e
      <4> HIDE DEF k, n
      <4> DEFINE q == k * ticks
      <4>3. q \in Nat /\ d = q * 10
        BY <1>1, <1>4, <4>1
      <4>4. q \div e < 1
        BY <4>1, <4>2
      <4> HIDE DEF q
      <4>5. q < 1 * e
        BY <1>1, <4>3, <4>4, Quotient
      <4>6. t < 10 * e
        BY <1>1, <1>5, <1>14, <4>3, <4>5
      <4>7. s < 10
        BY <1>1, <1>5, <1>6, <4>6, Quotient
      <4> QED BY <1>7, <4>7
    <3> QED BY <3>1, <3>2
  <2>2. d < (s + 1) * e
    BY <1>5, <1>7, <1>14
  <2>3. whole < 23 * e
    BY <1>1, <1>4, <1>7, <1>8, <2>1, <2>2, NotAHundred DEF whole
  <2>4. secs < 23
    BY <1>1, <1>11, <2>3, Quotient
  <2> QED BY <1>13, <2>4
<1> QED BY <1>10, <1>13, <1>14

(* Whatever the clock and however long an iteration takes, the search ends  *)
(* with iterations for ten seconds at least, and a hundred at most, unless  *)
(* ten iterations already take longer or the clock has gone round           *)
(* (core_main.c:212-226).                                                   *)
THEOREM Calibrated == MainSpec => CalibratedRun
<1>1. Calibrating /\ [MainNext]_mainVars
        => (pc = "calibrate" /\ pc' = "start" =>
              LET secs == time_in_secs(Duration(run'.iterations)) IN
              /\ secs >= 10
              /\ secs <= 100 \/ run'.iterations = 10 \/ method \in BareMetal)
  <2> SUFFICES ASSUME Calibrating, [MainNext]_mainVars, pc = "calibrate", pc' = "start"
               PROVE  Calibrate
    BY Settles, Zenon
  <2>1. ASSUME NEW c \in Contexts, Finish(c) \/ Suspend(c) \/ Resume(c) PROVE FALSE
    BY <2>1 DEF Finish, Suspend, Resume
  <2> QED BY <2>1 DEF MainNext, mainVars, portable_init, Seeds, Start, Bind, AllStarted, Stop, Report
<1> QED BY CalibratingInit, CalibratingNext, <1>1, PTL DEF MainSpec, CalibratedRun

-----------------------------------------------------------------------------
(* The run that is validated.                                               *)

Handed == {"unset", "calibration", "left", "closed", "empty", "dropped", "own"}

RunTyped ==
  /\ InRoom /\ i \in Nat /\ method \in Methods
  /\ pc \in {"portable_init", "seeds", "calibrate"} => i = 0
  /\ child \in [Contexts -> {"none", "running", "failed", "suspended", "exited"}]
  /\ wait \in [Contexts -> {"no", "report", "resumed", "gone"}]
  /\ value \in [Contexts -> Handed] /\ channel \in [Contexts -> Handed]

(* The number of iterations is one, once it is settled.                     *)
IterationsRead ==
  /\ pc = "portable_init" => argv \in Argvs[method]
  /\ pc = "seeds" => Len(argv) \in Nat /\ \A k \in 1 .. Len(argv) : parseval(argv[k]) \in Int
  /\ pc \in {"start", "bind", "stop", "done"} => run.iterations \in Int

(* The contexts are started one after another, each once.                   *)
Begun(c) ==
  \/ pc = "start" /\ c < i
  \/ pc = "bind" /\ c <= i
  \/ pc \in {"stop", "done"} /\ c < contexts

StartedOnce ==
  \A c \in Contexts :
    /\ child[c] # "none" => c < contexts /\ Begun(c)
    /\ Begun(c) => child[c] # "none"
    /\ wait[c] # "no" => child[c] # "none"
    /\ wait[c] = "report" => child[c] = "suspended"

(* What main has for a context it has waited for.  A process whose stop was *)
(* taken for its exit is still there, or went on after it.                  *)
WaitedFor(c) == (pc = "stop" /\ c < i) \/ (pc = "done" /\ c < contexts)

NoneFailed == \A c \in Contexts : child[c] # "failed"

ByThread == method \in Single \union {"pthread"} =>
  \A c \in Contexts :
    /\ child[c] = "exited" => value[c] = "own"
    /\ WaitedFor(c) => child[c] = "exited"

BySocket == method = "socket" =>
  \A c \in Contexts :
    /\ channel[c] = "own" => child[c] = "exited"
    /\ WaitedFor(c) => child[c] = "exited" /\ value[c] = "own"

ByFork == method = "fork" =>
  \A c \in Contexts :
    /\ channel[c] \in {"left", "own"}
    /\ NoneFailed =>
         IF WaitedFor(c)
         THEN \/ child[c] = "exited" /\ wait[c] = "gone" /\ value[c] = channel[c]
              \/ child[c] = "suspended"
              \/ child[c] \in {"running", "exited"} /\ wait[c] = "resumed"
         ELSE wait[c] # "gone"

RunIInv ==
  /\ Calibrating /\ RunTyped /\ IterationsRead /\ StartedOnce
  /\ ByThread /\ BySocket /\ ByFork
  /\ CompleteRunValidates

-----------------------------------------------------------------------------

LEMMA ContextsFacts ==
  /\ \A c \in Contexts : c \in Nat /\ c < MULTITHREAD
  /\ \A c \in Nat : c < MULTITHREAD => c \in Contexts
BY MainAssumption DEF Contexts

LEMMA RunInit == MainInit => RunIInv
<1> SUFFICES ASSUME MainInit PROVE RunIInv
  OBVIOUS
<1>1. contexts \in {1, MULTITHREAD} /\ method \in Methods
  BY DEF MainInit
<1>2. RunTyped
  BY <1>1, MainAssumption DEF MainInit, RunTyped, InRoom, Handed
<1>3. IterationsRead
  BY DEF MainInit, IterationsRead
<1>4. StartedOnce /\ ByThread /\ BySocket /\ CompleteRunValidates
  BY DEF MainInit, StartedOnce, Begun, ByThread, BySocket, WaitedFor, CompleteRunValidates
<1>5. ByFork
  BY DEF MainInit, ByFork, WaitedFor
<1> QED BY <1>2, <1>3, <1>4, <1>5, CalibratingInit DEF RunIInv

(* Before the contexts are started nothing is known of them.                *)
LEMMA NothingYet ==
  ASSUME RunIInv, UNCHANGED <<method, i, child, wait, channel>>,
         pc \in {"portable_init", "seeds", "calibrate"},
         pc' \in {"seeds", "calibrate", "start"},
         contexts' \in 0 .. MULTITHREAD, value' \in [Contexts -> Handed]
  PROVE  /\ RunTyped' /\ StartedOnce'
         /\ ByThread' /\ BySocket' /\ ByFork' /\ CompleteRunValidates'
<1>1. \A c \in Contexts : child[c] = "none" /\ wait[c] = "no"
  BY DEF RunIInv, StartedOnce, Begun
<1>2. \A c \in Contexts : ~Begun(c)' /\ ~WaitedFor(c)'
  BY ContextsFacts DEF Begun, WaitedFor, Contexts, RunIInv, RunTyped
<1>3. RunTyped'
  BY DEF RunIInv, RunTyped, InRoom
<1>4. StartedOnce'
  BY <1>1, <1>2 DEF StartedOnce
<1>5. ByThread'
  BY <1>1, <1>2 DEF ByThread
<1>6. BySocket'
  BY <1>2 DEF RunIInv, BySocket
<1>7. ByFork'
  BY <1>1, <1>2 DEF RunIInv, ByFork
<1> QED BY <1>3, <1>4, <1>5, <1>6, <1>7 DEF CompleteRunValidates

-----------------------------------------------------------------------------
(* A loop keeps the type of its value, since a set that has 0 and the       *)
(* successor of each of its elements has all numbers.                       *)

LEMMA Least ==
  ASSUME NEW S \in SUBSET Nat, S # {}
  PROVE  \E x \in S : \A y \in S : x <= y
<1> DEFINE R == {ss \in Nat \X Nat : ss[1] < ss[2]}
<1>1. IsWellFoundedOn(R, Nat)
  BY NatLessThanWellFounded, Zenon DEF OpToRel
<1>2. PICK x \in S : \A y \in S : ~ (<<y, x>> \in R)
  <2> HIDE DEF R
  <2> QED BY <1>1, WFMin
<1>3. \A y \in S : ~ (y < x)
  BY <1>2
<1> QED BY <1>3

LEMMA Induction ==
  ASSUME NEW n \in Nat, NEW S, 0 \in S,
         \A k \in 1 .. n : k - 1 \in S => k \in S
  PROVE  \A k \in 0 .. n : k \in S
<1> DEFINE Missed == {k \in 0 .. n : k \notin S}
<1> SUFFICES ASSUME Missed # {} PROVE FALSE
  OBVIOUS
<1>1. PICK x \in Missed : \A y \in Missed : x <= y
  <2>1. Missed \in SUBSET Nat
    OBVIOUS
  <2> HIDE DEF Missed
  <2> QED BY <2>1, Least
<1>2. x \in 1 .. n /\ x \notin S /\ x - 1 \in 0 .. n
  OBVIOUS
<1>3. x - 1 \in Missed
  BY <1>2
<1>4. x <= x - 1
  BY <1>1, <1>3
<1> QED BY <1>2, <1>4

-----------------------------------------------------------------------------
(* Loops.  A loop ends with the last of the values that it goes through;    *)
(* it goes through some if its step is defined on them.                     *)

Passes(n, step, x, g) ==
  /\ DOMAIN g = 0 .. n
  /\ g[0] = x
  /\ \A k \in 1 .. n : g[k] = step[k][g[k - 1]]

LEMMA LoopIs ==
  ASSUME NEW n \in Nat, NEW step, NEW x, NEW T, NEW g \in [0 .. n -> T], Passes(n, step, x, g)
  PROVE  Loop(n, step, x) = g[n]
<1> DEFINE Body(f) == [k \in 0 .. n |-> IF k = 0 THEN x ELSE step[k][f[k - 1]]]
           after == CHOOSE f : f = Body(f)
<1>1. g = Body(g)
  BY DEF Passes
<1>2. after = Body(after)
  BY <1>1, Zenon
<1>3. n \in {j \in 0 .. n : after[j] = g[j]}
  <2> DEFINE S == {j \in 0 .. n : after[j] = g[j]}
  <2> HIDE DEF after
  <2>1. 0 \in S
    BY <1>2 DEF Passes
  <2>2. ASSUME NEW k \in 1 .. n, k - 1 \in S PROVE k \in S
    <3>1. after[k] = step[k][after[k - 1]]
      BY <1>2
    <3> QED BY <2>2, <3>1 DEF Passes
  <2> HIDE DEF S
  <2>3. n \in 0 .. n
    OBVIOUS
  <2>4. n \in S
    BY <2>1, <2>2, <2>3, Induction, Zenon
  <2> QED BY <2>4 DEF S
<1>4. after[n] = g[n]
  BY <1>3, Zenon
<1> QED BY <1>4, Zenon DEF Loop

LEMMA LoopRuns ==
  ASSUME NEW n \in Nat, NEW T, NEW x \in T, NEW step,
         \A k \in 1 .. n, y \in T : step[k][y] \in T
  PROVE  \E g \in [0 .. n -> T] : Passes(n, step, x, g)
<1> DEFINE S == {k \in 0 .. n : \E g \in [0 .. k -> T] : Passes(k, step, x, g)}
<1>1. 0 \in S
  <2>1. [k \in 0 .. 0 |-> x] \in [0 .. 0 -> T] /\ Passes(0, step, x, [k \in 0 .. 0 |-> x])
    BY DEF Passes
  <2> QED BY <2>1
<1>2. ASSUME NEW k \in 1 .. n, k - 1 \in S PROVE k \in S
  <2>1. PICK g \in [0 .. k - 1 -> T] : Passes(k - 1, step, x, g)
    BY <1>2
  <2> DEFINE h == [j \in 0 .. k |-> IF j = k THEN step[k][g[k - 1]] ELSE g[j]]
  <2>2. step[k][g[k - 1]] \in T
    OBVIOUS
  <2>3. h \in [0 .. k -> T]
    BY <2>2
  <2>4. Passes(k, step, x, h)
    BY <2>1 DEF Passes
  <2> QED BY <2>3, <2>4
<1> HIDE DEF S
<1>3. n \in S
  <2>1. n \in 0 .. n
    OBVIOUS
  <2> QED BY <1>1, <1>2, <2>1, Induction, Zenon
<1> QED BY <1>3 DEF S

LEMMA LoopType ==
  ASSUME NEW n \in Nat, NEW T, NEW x \in T, NEW step,
         \A k \in 1 .. n : step[k] \in [T -> T]
  PROVE  Loop(n, step, x) \in T
<1> \A k \in 1 .. n, y \in T : step[k][y] \in T
  OBVIOUS
<1>1. PICK g \in [0 .. n -> T] : Passes(n, step, x, g)
  BY LoopRuns
<1>2. Loop(n, step, x) = g[n]
  BY <1>1, LoopIs
<1> QED BY <1>2

-----------------------------------------------------------------------------
(* parseval reads a number in every string.                                 *)

LEMMA DigitNumber ==
  ASSUME NEW D, NEW digits \in Seq(D), NEW c \in ToSet(digits)
  PROVE  DigitValue(c, digits) \in Nat
<1>1. \E k \in DOMAIN digits : digits[k] = c
  BY DEF ToSet
<1>2. DOMAIN digits \subseteq Nat \ {0}
  OBVIOUS
<1> DEFINE k == CHOOSE j \in DOMAIN digits : digits[j] = c
<1>3. k \in DOMAIN digits
  BY <1>1, Zenon
<1> HIDE DEF k
<1>4. k - 1 \in Nat
  BY <1>2, <1>3
<1> QED BY <1>4 DEF DigitValue, k

LEMMA DigitsNumber ==
  ASSUME NEW s \in Seq(STRING), NEW first \in Nat, NEW D, NEW digits \in Seq(D)
  PROVE  Digits(s, first, digits).value \in Int
<1> DEFINE T == [value : Nat, place : Nat]
           Read == [k \in 1 .. Len(s) |-> [r \in T |->
             LET c == CharAt(s, r.place)
             IN  IF c \in ToSet(digits)
                 THEN [value |-> r.value * Len(digits) + DigitValue(c, digits), place |-> r.place + 1]
                 ELSE r]]
           end == Loop(Len(s), Read, [value |-> 0, place |-> first])
<1>1. Digits(s, first, digits) = [value |-> end.value, next |-> CharAt(s, end.place)]
  BY Zenon DEF Digits
<1>2. Len(s) \in Nat /\ Len(digits) \in Nat
  OBVIOUS
<1>3. ASSUME NEW k \in 1 .. Len(s) PROVE Read[k] \in [T -> T]
  <2>1. ASSUME NEW r \in T, NEW c \in ToSet(digits)
        PROVE  [value |-> r.value * Len(digits) + DigitValue(c, digits), place |-> r.place + 1] \in T
    <3>1. DigitValue(c, digits) \in Nat
      BY DigitNumber
    <3>2. r.value * Len(digits) \in Nat
      BY <1>2
    <3> QED BY <3>1, <3>2
  <2> QED BY <2>1, Zenon
<1>4. [value |-> 0, place |-> first] \in T
  OBVIOUS
<1> HIDE DEF Read, T
<1>5. end \in T
  BY <1>2, <1>3, <1>4, LoopType, Zenon
<1> HIDE DEF end
<1>6. end.value \in Nat
  BY <1>5 DEF T
<1> QED BY <1>1, <1>6

LEMMA ParsevalNumber ==
  ASSUME NEW s \in Seq(STRING)
  PROVE  parseval(s) \in Int
<1> DEFINE D == {"0", "1", "2", "3", "4", "5", "6", "7", "8", "9", "a", "b", "c", "d", "e", "f"}
<1>1. Decimal \in Seq(D) /\ HexDigits \in Seq(D)
  <2>1. Decimal \in Seq(D)
    BY DEF Decimal
  <2>2. <<"a", "b", "c", "d", "e", "f">> \in Seq(D)
    OBVIOUS
  <2> HIDE DEF D
  <2>3. \A x, y \in Seq(D) : x \o y \in Seq(D)
    OBVIOUS
  <2> QED BY <2>1, <2>2, <2>3, Zenon DEF HexDigits
<1> HIDE DEF D
<1>2. \A first \in {1, 2, 3, 4} :
        Digits(s, first, Decimal).value \in Int /\ Digits(s, first, HexDigits).value \in Int
  BY <1>1, DigitsNumber
<1>3. \A c : Qualifier(c) \in Int
  BY DEF Qualifier
<1> DEFINE neg == CharAt(s, 1) = "-"
           k == IF neg THEN 2 ELSE 1
           hex == CharAt(s, k) = "0" /\ CharAt(s, k + 1) = "x"
           d == IF hex THEN Digits(s, k + 2, HexDigits) ELSE Digits(s, k, Decimal)
<1>4. d.value \in Int
  <2>1. k \in {1, 2} /\ k + 2 \in {3, 4}
    OBVIOUS
  <2> HIDE DEF k
  <2> QED BY <1>2, <2>1
<1>5. parseval(s) = (IF neg THEN -1 ELSE 1) * d.value * Qualifier(d.next)
  BY Zenon DEF parseval
<1> HIDE DEF d, neg
<1>6. (IF neg THEN -1 ELSE 1) \in Int /\ Qualifier(d.next) \in Int
  BY <1>3
<1> QED BY <1>4, <1>5, <1>6

(* The arguments are read.                                                  *)
LEMMA ArgumentsKept ==
  ASSUME RunIInv, portable_init
  PROVE  Len(argv') \in Nat /\ \A k \in 1 .. Len(argv') : parseval(argv'[k]) \in Int
<1> DEFINE T == Seq(STRING)
<1>1. argv \in Seq(T)
  BY ArgumentAssumption DEF RunIInv, RunTyped, IterationsRead, portable_init
<1>2. \A t \in T : parseval(t) \in Int
  BY ParsevalNumber
<1>3. argv' \in Seq(T)
  <2> HIDE DEF T
  <2>1. argv' = argv \/ (argv # <<>> /\ argv' = Tail(argv))
    BY DEF portable_init
  <2>2. argv # <<>> => Tail(argv) \in Seq(T)
    BY <1>1, HeadTailProperties
  <2> QED BY <1>1, <2>1, <2>2
<1> HIDE DEF T
<1>4. Len(argv') \in Nat /\ \A k \in 1 .. Len(argv') : argv'[k] \in T
  BY <1>3, LenProperties, ElementOfSeq
<1> QED BY <1>2, <1>4

LEMMA PortableStep ==
  ASSUME RunIInv, portable_init
  PROVE  RunIInv'
<1>1. /\ pc = "portable_init" /\ pc' = "seeds"
      /\ UNCHANGED <<method, i, child, wait, value, channel>>
  BY DEF portable_init, build
<1>2. contexts' \in 0 .. MULTITHREAD
  BY MainAssumption DEF portable_init, RunIInv, RunTyped, InRoom
<1>3. value' \in [Contexts -> Handed]
  BY <1>1 DEF RunIInv, RunTyped
<1>4. IterationsRead'
  BY <1>1, ArgumentsKept DEF IterationsRead
<1>5. Calibrating'
  BY CalibratingNext DEF RunIInv, MainNext
<1> QED BY <1>1, <1>2, <1>3, <1>4, <1>5, NothingYet DEF RunIInv

(* get_seed_32(4).                                                          *)
LEMMA FourthSeed ==
  ASSUME RunIInv, pc = "seeds"
  PROVE  get_seed_32(4) \in Int
<1>1. \A k \in {1, 4} : get_seed_args(k, argv) \in Int
  BY DEF get_seed_args, RunIInv, IterationsRead
<1>2. CASE method \notin BareMetal
  <2>1. get_seed_32(4) = get_seed_args(4, argv)
    BY <1>2 DEF get_seed_32
  <2> QED BY <1>1, <2>1
<1>3. CASE method \in BareMetal
  <2>1. DOMAIN seed_volatile = 1 .. 5 /\ seed_volatile[4] = get_seed_args(1, argv)
    BY <1>3 DEF seed_volatile, BareMetal
  <2>2. get_seed_32(4) = seed_volatile[4]
    <3>1. 4 \in DOMAIN seed_volatile
      BY <2>1
    <3> HIDE DEF seed_volatile
    <3> QED BY <1>3, <3>1 DEF get_seed_32
  <2> QED BY <1>1, <2>1, <2>2
<1> QED BY <1>2, <1>3

LEMMA SeedsStep ==
  ASSUME RunIInv, Seeds
  PROVE  RunIInv'
<1>1. /\ pc = "seeds" /\ pc' \in {"calibrate", "start"}
      /\ UNCHANGED <<method, i, child, wait, value, channel, contexts>>
      /\ run'.iterations = get_seed_32(4)
  BY DEF Seeds, build
<1>2. value' \in [Contexts -> Handed] /\ contexts' \in 0 .. MULTITHREAD
  BY <1>1 DEF RunIInv, RunTyped, InRoom
<1>3. IterationsRead'
  BY <1>1, FourthSeed DEF IterationsRead
<1>4. Calibrating'
  BY CalibratingNext DEF RunIInv, MainNext
<1> QED BY <1>1, <1>2, <1>3, <1>4, NothingYet DEF RunIInv

LEMMA CalibrateRunStep ==
  ASSUME RunIInv, Calibrate
  PROVE  RunIInv'
<1>1. /\ pc = "calibrate" /\ pc' \in {"calibrate", "start"}
      /\ UNCHANGED <<method, i, child, wait, channel, contexts>>
      /\ value' = [value EXCEPT ![0] = "calibration"]
  BY DEF Calibrate, build
<1>2. value' \in [Contexts -> Handed] /\ contexts' \in 0 .. MULTITHREAD
  BY <1>1 DEF RunIInv, RunTyped, InRoom, Handed
<1>3. pc' = "start" => run'.iterations \in Int
  <2> SUFFICES ASSUME pc' = "start" PROVE run'.iterations \in Int
    OBVIOUS
  <2> DEFINE n == (IF run.iterations = 0 THEN 1 ELSE run.iterations) * 10
             s == Secs(n)
  <2>1. n \in Nat \ {0} /\ "iterations" \in DOMAIN run /\ ticks \in Nat \ {0} /\ EE_TICKS_PER_SEC \in Nat \ {0}
    BY <1>1, Clock DEF RunIInv, Calibrating
  <2>2. ~(s < 1) /\ run' = [run EXCEPT !.iterations = Enough(n)]
    BY <1>1 DEF Calibrate
  <2>3. s \in Int
    BY <2>1, SMT DEF Secs, time_in_secs, get_time, Duration
  <2>4. run'.iterations = n * (1 + 10 \div s)
    BY <2>1, <2>2 DEF Enough
  <2> HIDE DEF s, n
  <2>5. 10 \div s \in Int
    BY <2>2, <2>3
  <2> QED BY <2>1, <2>4, <2>5
<1>4. IterationsRead'
  BY <1>1, <1>3 DEF IterationsRead
<1>5. Calibrating'
  BY CalibratingNext DEF RunIInv, MainNext
<1> QED BY <1>1, <1>2, <1>4, <1>5, NothingYet DEF RunIInv

(* What is known of the iterations and of the clock in the parallel part.   *)
LEMMA IterationsStay ==
  ASSUME RunIInv, [MainNext]_mainVars, UNCHANGED run,
         pc \in {"start", "bind", "stop", "done"}, pc' \in {"start", "bind", "stop", "done"}
  PROVE  Calibrating' /\ IterationsRead'
<1>1. Calibrating'
  BY CalibratingNext DEF RunIInv
<1>2. IterationsRead'
  BY DEF RunIInv, IterationsRead
<1> QED BY <1>1, <1>2

LEMMA StartContextStep ==
  ASSUME RunIInv, Start
  PROVE  RunIInv'
<1>1. /\ pc = "start" /\ pc' \in {"start", "bind"} /\ i < contexts
      /\ UNCHANGED <<method, wait, value, channel, contexts, run, verdict>>
      /\ pc' = (IF method = "socket" THEN "bind" ELSE "start")
      /\ i' = (IF method = "socket" THEN i ELSE i + 1)
  BY DEF Start, build
<1>2. PICK x \in {"running", "failed"} : child' = [child EXCEPT ![i] = x]
  BY DEF Start
<1>3. i \in Contexts /\ i \in Nat /\ contexts \in 0 .. MULTITHREAD
  BY <1>1, ContextsFacts, MainAssumption DEF RunIInv, RunTyped, InRoom
<1>4. RunTyped'
  BY <1>1, <1>2, <1>3 DEF RunIInv, RunTyped, InRoom
<1>5. child[i] = "none"
  BY <1>1, <1>3 DEF RunIInv, StartedOnce, Begun
<1>6. \A c \in Contexts : child'[c] = IF c = i THEN x ELSE child[c]
  BY <1>2 DEF RunIInv, RunTyped
<1>7. \A c \in Contexts : (Begun(c)' <=> Begun(c) \/ c = i) /\ ~WaitedFor(c) /\ ~WaitedFor(c)'
  BY <1>1, <1>3, ContextsFacts DEF Begun, WaitedFor
<1>8. StartedOnce'
  BY <1>1, <1>3, <1>5, <1>6, <1>7 DEF RunIInv, StartedOnce
<1>9. ByThread' /\ BySocket'
  BY <1>1, <1>5, <1>6, <1>7 DEF RunIInv, ByThread, BySocket
<1>10. NoneFailed' => NoneFailed
  BY <1>3, <1>5, <1>6 DEF NoneFailed
<1>11. ByFork'
  BY <1>1, <1>7, <1>10 DEF RunIInv, ByFork
<1>12. Calibrating' /\ IterationsRead'
  BY <1>1, IterationsStay DEF MainNext
<1> QED BY <1>1, <1>4, <1>8, <1>9, <1>11, <1>12 DEF RunIInv, CompleteRunValidates

LEMMA BindStep ==
  ASSUME RunIInv, Bind
  PROVE  RunIInv'
<1>1. /\ pc = "bind" /\ pc' = "start" /\ i' = i + 1
      /\ UNCHANGED <<method, child, wait, value, contexts, run, verdict>>
      /\ channel' = [channel EXCEPT ![i] = IF @ = "closed" THEN "empty" ELSE @]
  BY DEF Bind, build
<1>2. i \in Nat
  BY DEF RunIInv, RunTyped
<1>3. /\ channel' \in [Contexts -> Handed]
      /\ \A c \in Contexts : channel'[c] = channel[c] \/ (channel[c] = "closed" /\ channel'[c] = "empty")
  BY <1>1 DEF RunIInv, RunTyped, Handed
<1>4. RunTyped'
  BY <1>1, <1>2, <1>3 DEF RunIInv, RunTyped, InRoom
<1>5. \A c \in Contexts : (Begun(c)' <=> Begun(c)) /\ ~WaitedFor(c) /\ ~WaitedFor(c)'
  BY <1>1, <1>2, ContextsFacts DEF Begun, WaitedFor
<1>6. StartedOnce'
  BY <1>1, <1>5 DEF RunIInv, StartedOnce
<1>7. ByThread' /\ BySocket'
  BY <1>1, <1>3, <1>5 DEF RunIInv, ByThread, BySocket
<1>8. ByFork'
  BY <1>1, <1>3, <1>5 DEF RunIInv, ByFork, NoneFailed
<1>9. Calibrating' /\ IterationsRead'
  BY <1>1, IterationsStay DEF MainNext
<1> QED BY <1>1, <1>4, <1>6, <1>7, <1>8, <1>9 DEF RunIInv, CompleteRunValidates

LEMMA AllStartedStep ==
  ASSUME RunIInv, AllStarted
  PROVE  RunIInv'
<1>1. /\ pc = "start" /\ pc' = "stop" /\ i' = 0 /\ i >= contexts
      /\ UNCHANGED <<method, child, wait, value, channel, contexts, run, verdict>>
  BY DEF AllStarted, build
<1>2. i \in Nat /\ contexts \in Nat
  BY MainAssumption DEF RunIInv, RunTyped, InRoom
<1>3. RunTyped'
  BY <1>1 DEF RunIInv, RunTyped, InRoom
<1>4. \A c \in Contexts : ~WaitedFor(c) /\ ~WaitedFor(c)'
  BY <1>1, ContextsFacts DEF WaitedFor
<1>5. \A c \in Contexts : Begun(c)' <=> c < contexts
  BY <1>1 DEF Begun
<1>6. \A c \in Contexts : c < contexts => Begun(c)
  BY <1>1, <1>2, ContextsFacts DEF Begun
<1>7. StartedOnce'
  BY <1>1, <1>5, <1>6 DEF RunIInv, StartedOnce
<1>8. ByThread' /\ BySocket'
  BY <1>1, <1>4 DEF RunIInv, ByThread, BySocket
<1>9. ByFork'
  BY <1>1, <1>4 DEF RunIInv, ByFork, NoneFailed
<1>10. Calibrating' /\ IterationsRead'
  BY <1>1, IterationsStay DEF MainNext
<1> QED BY <1>1, <1>3, <1>7, <1>8, <1>9, <1>10 DEF RunIInv, CompleteRunValidates

-----------------------------------------------------------------------------
(* The contexts.                                                            *)

Moved(c) ==
  /\ UNCHANGED <<method, ticks, leftover, pc, contexts, run, i, verdict>>
  /\ \A d \in Contexts \ {c} :
       /\ child'[d] = child[d] /\ wait'[d] = wait[d]
       /\ value'[d] = value[d] /\ channel'[d] = channel[d]
  /\ child' \in [Contexts -> {"none", "running", "failed", "suspended", "exited"}]
  /\ wait' \in [Contexts -> {"no", "report", "resumed", "gone"}]
  /\ value' \in [Contexts -> Handed] /\ channel' \in [Contexts -> Handed]

Exits(c) ==
  /\ child[c] = "running" /\ child'[c] = "exited" /\ wait'[c] = wait[c]
  /\ method \in Single \union {"pthread"} => value'[c] = "own"
  /\ method = "fork" => channel'[c] \in {channel[c], "own"} /\ value'[c] = value[c]

Stops(c) ==
  /\ child[c] = "running" /\ wait[c] = "no" /\ child'[c] = "suspended" /\ wait'[c] = "report"
  /\ method \in {"fork", "socket"} /\ value'[c] = value[c] /\ channel'[c] = channel[c]

GoesOn(c) ==
  /\ child[c] = "suspended" /\ child'[c] = "running" /\ wait'[c] = "resumed"
  /\ value'[c] = value[c] /\ channel'[c] = channel[c]

LEMMA ContextMoves ==
  ASSUME RunIInv, NEW c \in Contexts, Finish(c) \/ Suspend(c) \/ Resume(c)
  PROVE  Moved(c) /\ (Exits(c) \/ Stops(c) \/ GoesOn(c))
<1>1. /\ child \in [Contexts -> {"none", "running", "failed", "suspended", "exited"}]
      /\ wait \in [Contexts -> {"no", "report", "resumed", "gone"}]
      /\ value \in [Contexts -> Handed] /\ channel \in [Contexts -> Handed]
  BY DEF RunIInv, RunTyped
<1>2. CASE Suspend(c)
  BY <1>1, <1>2 DEF Suspend, Moved, Stops, build
<1>3. CASE Resume(c)
  BY <1>1, <1>3 DEF Resume, Moved, GoesOn, build
<1>4. CASE Finish(c)
  <2>1. /\ child[c] = "running" /\ child' = [child EXCEPT ![c] = "exited"]
        /\ UNCHANGED <<method, ticks, leftover, pc, contexts, run, i, wait, verdict>>
    BY <1>4 DEF Finish, build
  <2>2. method \in Single \union {"pthread", "fork", "socket"}
    BY MainAssumption DEF RunIInv, RunTyped
  <2>3. /\ method \in Single \union {"pthread"} =>
             value' = [value EXCEPT ![c] = "own"] /\ channel' = channel
        /\ method = "fork" =>
             channel' \in {channel, [channel EXCEPT ![c] = "own"]} /\ value' = value
        /\ method = "socket" =>
             value' = value /\ \E x \in {"dropped", "own"} : channel' = [channel EXCEPT ![c] = x]
    <3>1. CASE method \in Single \union {"pthread"}
      BY <1>4, <3>1 DEF Finish, Single, BareMetal
    <3>2. CASE method = "fork"
      BY <1>4, <3>2 DEF Finish, Single, BareMetal
    <3>3. CASE method = "socket"
      BY <1>4, <3>3 DEF Finish, Single, BareMetal
    <3> QED BY <2>2, <3>1, <3>2, <3>3
  <2>4. /\ value' \in [Contexts -> Handed] /\ channel' \in [Contexts -> Handed]
        /\ \A d \in Contexts \ {c} : value'[d] = value[d] /\ channel'[d] = channel[d]
    <3>1. CASE method \in Single \union {"pthread"}
      BY <1>1, <2>3, <3>1 DEF Handed
    <3>2. CASE method = "fork"
      BY <1>1, <2>3, <3>2 DEF Handed
    <3>3. CASE method = "socket"
      BY <1>1, <2>3, <3>3 DEF Handed
    <3> QED BY <2>2, <3>1, <3>2, <3>3
  <2>5. Moved(c)
    BY <1>1, <2>1, <2>4 DEF Moved
  <2>6. Exits(c)
    BY <1>1, <2>1, <2>3 DEF Exits
  <2> QED BY <2>5, <2>6
<1> QED BY <1>2, <1>3, <1>4

(* A datagram is sent by the last thing a process does.                     *)
LEMMA ContextRunStep ==
  ASSUME RunIInv, NEW c \in Contexts, Finish(c) \/ Suspend(c) \/ Resume(c)
  PROVE  RunIInv'
<1>1. Moved(c) /\ (Exits(c) \/ Stops(c) \/ GoesOn(c))
  BY ContextMoves
<1>2. /\ RunTyped /\ StartedOnce /\ ByThread /\ BySocket /\ ByFork /\ CompleteRunValidates
  BY DEF RunIInv
<1>3. RunTyped'
  BY <1>1, <1>2 DEF Moved, RunTyped, InRoom
<1>4. \A d \in Contexts : (Begun(d)' <=> Begun(d)) /\ (WaitedFor(d)' <=> WaitedFor(d))
  BY <1>1 DEF Moved, Begun, WaitedFor
<1>5. /\ child[c] \in {"running", "suspended"} /\ Begun(c) /\ c < contexts
      /\ child'[c] \notin {"none", "failed"}
      /\ wait'[c] = "report" => child'[c] = "suspended"
  BY <1>1, <1>2 DEF Exits, Stops, GoesOn, StartedOnce
<1>6. StartedOnce'
  <2> SUFFICES ASSUME NEW d \in Contexts
               PROVE  /\ child'[d] # "none" => d < contexts' /\ Begun(d)'
                      /\ Begun(d)' => child'[d] # "none"
                      /\ wait'[d] # "no" => child'[d] # "none"
                      /\ wait'[d] = "report" => child'[d] = "suspended"
    BY DEF StartedOnce
  <2>1. CASE d = c
    BY <1>1, <1>4, <1>5, <2>1 DEF Moved
  <2>2. CASE d # c
    BY <1>1, <1>2, <1>4, <2>2 DEF Moved, StartedOnce
  <2> QED BY <2>1, <2>2
<1>7. pc \in {"start", "bind", "stop", "done"} /\ pc' = pc /\ run' = run
  BY <1>1, <1>5 DEF Begun, Moved
<1>8. Calibrating' /\ IterationsRead'
  BY <1>7, IterationsStay DEF MainNext
<1>9. ByThread'
  <2> SUFFICES ASSUME method \in Single \union {"pthread"}, NEW d \in Contexts
               PROVE  /\ child'[d] = "exited" => value'[d] = "own"
                      /\ WaitedFor(d) => child'[d] = "exited"
    BY <1>1, <1>4 DEF ByThread, Moved
  <2>1. CASE d = c
    BY <1>1, <1>2, <1>5, <2>1 DEF Exits, Stops, GoesOn, ByThread
  <2>2. CASE d # c
    BY <1>1, <1>2, <2>2 DEF Moved, ByThread
  <2> QED BY <2>1, <2>2
<1>10. BySocket'
  <2> SUFFICES ASSUME method = "socket", NEW d \in Contexts
               PROVE  /\ channel'[d] = "own" => child'[d] = "exited"
                      /\ WaitedFor(d) => child'[d] = "exited" /\ value'[d] = "own"
    BY <1>1, <1>4 DEF BySocket, Moved
  <2>1. CASE d = c
    BY <1>1, <1>2, <1>5, <2>1 DEF Exits, Stops, GoesOn, BySocket
  <2>2. CASE d # c
    BY <1>1, <1>2, <2>2 DEF Moved, BySocket
  <2> QED BY <2>1, <2>2
<1>11. NoneFailed' => NoneFailed
  BY <1>1, <1>5 DEF NoneFailed, Moved
<1>12. ByFork'
  <2> SUFFICES ASSUME method = "fork", NEW d \in Contexts
               PROVE  /\ channel'[d] \in {"left", "own"}
                      /\ NoneFailed =>
                           IF WaitedFor(d)
                           THEN \/ child'[d] = "exited" /\ wait'[d] = "gone" /\ value'[d] = channel'[d]
                                \/ child'[d] = "suspended"
                                \/ child'[d] \in {"running", "exited"} /\ wait'[d] = "resumed"
                           ELSE wait'[d] # "gone"
    BY <1>1, <1>4, <1>11 DEF ByFork, Moved
  <2>1. CASE d = c
    BY <1>1, <1>2, <2>1 DEF Exits, Stops, GoesOn, ByFork
  <2>2. CASE d # c
    BY <1>1, <1>2, <2>2 DEF Moved, ByFork
  <2> QED BY <2>1, <2>2
(* After the verdict a context that still moves was not waited for.         *)
<1>13. CompleteRunValidates'
  <2> SUFFICES ASSUME pc = "done", Undisturbed' PROVE FALSE
    BY <1>1 DEF CompleteRunValidates, Moved
  <2>1. WaitedFor(c)
    BY <1>5 DEF WaitedFor
  <2>2. child'[c] = "exited" /\ wait'[c] \in {"no", "gone"} /\ contexts' = contexts
    BY <1>1, <1>5 DEF Undisturbed, Moved
  <2>3. child[c] = "running" /\ wait[c] \in {"no", "gone"}
    BY <1>1, <2>2 DEF Exits, Stops, GoesOn
  <2>4. method = "fork"
    <3>1. method \in Single \union {"pthread", "fork", "socket"}
      BY <1>2, MainAssumption DEF RunTyped
    <3> QED BY <1>2, <2>1, <2>3, <3>1 DEF ByThread, BySocket
  <2>5. ~NoneFailed
    BY <1>2, <2>1, <2>3, <2>4 DEF ByFork
  <2>6. PICK d \in Contexts : child[d] = "failed"
    BY <2>5 DEF NoneFailed
  <2>7. d < contexts /\ child'[d] = "failed"
    BY <1>1, <1>2, <1>5, <2>3, <2>6 DEF StartedOnce, Moved
  <2> QED BY <2>2, <2>7 DEF Undisturbed
<1> QED BY <1>3, <1>6, <1>8, <1>9, <1>10, <1>12, <1>13 DEF RunIInv

-----------------------------------------------------------------------------
(* Main waits for the contexts, one after another.                          *)

(* What a wait does to the contexts.                                        *)
LEMMA Waits ==
  ASSUME RunTyped, NEW ok, WaitPid(ok)
  PROVE  \/ wait' = wait
         \/ \E c \in Contexts : child[c] = "exited" /\ wait' = [wait EXCEPT ![c] = "gone"]
         \/ \E c \in Contexts : child[c] # "exited" /\ wait[c] = "report" /\ wait' = [wait EXCEPT ![c] = "no"]
BY DEF WaitPid, Waited, Reportable, Children

(* With no failed fork, the wait is for the context itself.                 *)
LEMMA WaitsForIt ==
  ASSUME RunTyped, i \in Contexts, NEW ok, WaitPid(ok),
         child[i] \in {"running", "suspended", "exited"}, wait[i] # "gone"
  PROVE  /\ ok
         /\ \/ child[i] = "exited" /\ wait' = [wait EXCEPT ![i] = "gone"]
            \/ child[i] # "exited" /\ wait[i] = "report" /\ wait' = [wait EXCEPT ![i] = "no"]
<1>1. child[i] # "failed" /\ i \in Children
  BY DEF Children
<1>2. ok /\ Reportable(i) /\ wait' = Waited(i)
  BY <1>1 DEF WaitPid
<1> QED BY <1>1, <1>2 DEF Reportable, Waited

LEMMA StopStep ==
  ASSUME RunIInv, Stop
  PROVE  RunIInv'
<1>1. /\ pc = "stop" /\ pc' = "stop" /\ i' = i + 1 /\ i < contexts
      /\ UNCHANGED <<method, ticks, leftover, child, contexts, run, verdict>>
  BY DEF Stop, build
<1>2. RunTyped /\ StartedOnce /\ ByThread /\ BySocket /\ ByFork
  BY DEF RunIInv
<1>3. i \in Contexts /\ i \in Nat
  BY <1>1, <1>2, ContextsFacts, MainAssumption DEF RunTyped, InRoom
<1>4. method \in Single \union {"pthread", "fork", "socket"}
  BY <1>2, MainAssumption DEF RunTyped
<1>5. /\ \A c \in Contexts : Begun(c)' <=> Begun(c)
      /\ \A c \in Contexts : WaitedFor(c)' <=> WaitedFor(c) \/ c = i
      /\ ~WaitedFor(i) /\ Begun(i) /\ child[i] # "none"
  BY <1>1, <1>2, <1>3, ContextsFacts DEF Begun, WaitedFor, StartedOnce
<1>6. wait' = wait \/ \E ok \in BOOLEAN : WaitPid(ok)
  <2>1. CASE method \in Single \union {"pthread"}
    BY <2>1 DEF Stop, Single, BareMetal
  <2>2. CASE method = "fork"
    BY <2>2 DEF Stop, Single, BareMetal
  <2>3. CASE method = "socket"
    BY <2>3 DEF Stop, Single, BareMetal
  <2> QED BY <1>4, <2>1, <2>2, <2>3
<1>7. /\ wait' \in [Contexts -> {"no", "report", "resumed", "gone"}]
      /\ \A c \in Contexts : wait'[c] # "no" => wait[c] # "no" \/ child[c] = "exited"
      /\ \A c \in Contexts : wait'[c] = "report" => wait[c] = "report"
  BY <1>2, <1>6, Waits DEF RunTyped
<1>8. StartedOnce'
  BY <1>1, <1>2, <1>5, <1>7 DEF StartedOnce
<1>9. Calibrating' /\ IterationsRead'
  BY <1>1, IterationsStay DEF MainNext
<1>10. CASE method \in Single \union {"pthread"}
  <2>1. child[i] = "exited" /\ UNCHANGED <<value, channel>>
    BY <1>10 DEF Stop, Single, BareMetal
  <2>2. RunTyped'
    BY <1>1, <1>2, <1>3, <1>7, <2>1 DEF RunTyped, InRoom
  <2>3. ByThread'
    BY <1>1, <1>2, <1>5, <2>1 DEF ByThread
  <2>4. BySocket' /\ ByFork'
    BY <1>1, <1>10 DEF BySocket, ByFork, Single, BareMetal
  <2> QED BY <1>1, <1>8, <1>9, <2>2, <2>3, <2>4 DEF RunIInv, CompleteRunValidates
<1>11. CASE method = "socket"
  <2>1. /\ channel[i] = "own" /\ value' = [value EXCEPT ![i] = "own"]
        /\ channel' = [channel EXCEPT ![i] = "empty"]
    BY <1>11 DEF Stop, Single, BareMetal
  <2>2. RunTyped'
    BY <1>1, <1>2, <1>3, <1>7, <2>1 DEF RunTyped, InRoom, Handed
  <2>3. child[i] = "exited"
    BY <1>2, <1>3, <1>11, <2>1 DEF BySocket
  <2>4. BySocket'
    BY <1>1, <1>2, <1>3, <1>5, <1>11, <2>1, <2>3 DEF BySocket, RunTyped
  <2>5. ByThread' /\ ByFork'
    BY <1>1, <1>11 DEF ByThread, ByFork, Single, BareMetal
  <2> QED BY <1>1, <1>8, <1>9, <2>2, <2>4, <2>5 DEF RunIInv, CompleteRunValidates
<1>12. CASE method = "fork"
  <2>1. PICK ok \in BOOLEAN :
          WaitPid(ok) /\ value' = [value EXCEPT ![i] = IF ok THEN channel[i] ELSE @]
    BY <1>12 DEF Stop, Single, BareMetal
  <2>2. channel' = channel
    BY <1>12 DEF Stop, Single, BareMetal
  <2>3. RunTyped'
    BY <1>1, <1>2, <1>3, <1>7, <2>1, <2>2 DEF RunTyped, InRoom
  <2>4. ByThread' /\ BySocket'
    BY <1>1, <1>12 DEF ByThread, BySocket, Single, BareMetal
  <2>5. ASSUME NoneFailed, NEW c \in Contexts
        PROVE  IF WaitedFor(c) \/ c = i
               THEN \/ child[c] = "exited" /\ wait'[c] = "gone" /\ value'[c] = channel[c]
                    \/ child[c] = "suspended"
                    \/ child[c] \in {"running", "exited"} /\ wait'[c] = "resumed"
               ELSE wait'[c] # "gone"
    <3>1. child[i] \in {"running", "suspended", "exited"} /\ wait[i] # "gone"
      BY <1>2, <1>3, <1>5, <1>12, <2>5 DEF NoneFailed, RunTyped, ByFork
    <3>2. /\ ok
          /\ \/ child[i] = "exited" /\ wait' = [wait EXCEPT ![i] = "gone"]
             \/ child[i] # "exited" /\ wait[i] = "report" /\ wait' = [wait EXCEPT ![i] = "no"]
      BY <1>2, <1>3, <2>1, <3>1, WaitsForIt
    <3>3. value' = [value EXCEPT ![i] = channel[i]]
      BY <2>1, <3>2
    <3>4. CASE c = i
      <4>1. wait[i] = "report" => child[i] = "suspended"
        BY <1>2, <1>3 DEF StartedOnce
      <4> QED BY <1>2, <1>3, <3>2, <3>3, <3>4, <4>1 DEF RunTyped
    <3>5. CASE c # i
      <4>1. wait'[c] = wait[c] /\ value'[c] = value[c]
        BY <1>2, <3>2, <3>3, <3>5 DEF RunTyped
      <4> QED BY <1>2, <1>12, <2>5, <3>5, <4>1 DEF ByFork
    <3> QED BY <3>4, <3>5
  <2>6. ByFork'
    BY <1>1, <1>2, <1>5, <2>2, <2>5 DEF ByFork, NoneFailed
  <2> QED BY <1>1, <1>8, <1>9, <2>3, <2>4, <2>6 DEF RunIInv, CompleteRunValidates
<1> QED BY <1>4, <1>10, <1>11, <1>12

-----------------------------------------------------------------------------
(* The verdict.                                                             *)

LEMMA LongEnough ==
  ASSUME NEW id, id # Unknown, NEW secs \in Int, secs >= 10
  PROVE  Verdict(total_errors(id, 0, secs)) = "validated"
<1>1. ~(secs < 10)
  OBVIOUS
<1>2. total_errors(id, 0, secs) = 0 + 0
  BY <1>1, Zenon DEF total_errors
<1>3. total_errors(id, 0, secs) = 0
  BY <1>2
<1>4. Verdict(0) = "validated"
  <2>1. 0 = 0 /\ ~(0 > 0) /\ ~(0 < 0)
    OBVIOUS
  <2> QED BY <2>1, Zenon DEF Verdict
<1> QED BY <1>3, <1>4

LEMMA TooShort ==
  ASSUME NEW id, id # Unknown, NEW secs \in Int, secs < 10
  PROVE  Verdict(total_errors(id, 0, secs)) = "errors"
<1>1. total_errors(id, 0, secs) = 0 + 1
  BY Zenon DEF total_errors
<1>2. total_errors(id, 0, secs) = 1
  BY <1>1
<1> QED BY <1>2, SuccessIsZero

(* The clock of the processor goes round in less than five seconds.         *)
LEMMA ClockGoesRound ==
  ASSUME Calibrating, NEW n \in Int
  PROVE  /\ time_in_secs(Duration(n)) \in Int
         /\ method \notin BareMetal => Secs(n) = time_in_secs(Duration(n))
         /\ method \in BareMetal => Secs(n) \in Int /\ Secs(n) < 10
<1>1. ticks \in Nat \ {0} /\ EE_TICKS_PER_SEC \in Nat \ {0}
  BY Clock
<1> DEFINE d == n * ticks
<1>2. d \in Int
  BY <1>1
<1>3. Duration(n) = d
  BY DEF Duration
<1> HIDE DEF d
<1>4. time_in_secs(Duration(n)) \in Int
  BY <1>1, <1>2, <1>3 DEF time_in_secs
<1>5. method \notin BareMetal => Secs(n) = time_in_secs(Duration(n))
  BY SMT DEF Secs, get_time
<1>6. ASSUME method \in BareMetal PROVE Secs(n) \in Int /\ Secs(n) < 10
  <2>1. Secs(n) = (d % 8388608) \div 1953125
    BY <1>3, <1>6, SMT DEF Secs, get_time, time_in_secs, EE_TICKS_PER_SEC
  <2> QED BY <1>2, <2>1, SMT
<1> QED BY <1>4, <1>5, <1>6

LEMMA ReportStep ==
  ASSUME RunIInv, Report
  PROVE  RunIInv'
<1>1. /\ pc = "stop" /\ pc' = "done" /\ i >= contexts
      /\ UNCHANGED <<method, ticks, leftover, contexts, run, i, child, wait, value, channel>>
  BY DEF Report, build
<1>2. RunTyped /\ StartedOnce /\ ByThread /\ BySocket /\ ByFork /\ Calibrating /\ IterationsRead
  BY DEF RunIInv
<1>3. /\ \A c \in Contexts : Begun(c)' <=> Begun(c)
      /\ \A c \in Contexts : c < contexts => WaitedFor(c) /\ WaitedFor(c)'
      /\ \A c \in Contexts : ~(c < contexts) => ~WaitedFor(c)' /\ child[c] = "none" /\ wait[c] = "no"
  BY <1>1, <1>2, ContextsFacts, MainAssumption DEF Begun, WaitedFor, StartedOnce, RunTyped, InRoom
<1>4. RunTyped'
  BY <1>1, <1>2 DEF RunTyped, InRoom
<1>5. StartedOnce'
  BY <1>1, <1>2, <1>3 DEF StartedOnce
<1>6. ByThread' /\ BySocket'
  BY <1>1, <1>2, <1>3 DEF ByThread, BySocket
<1>7. ByFork'
  BY <1>1, <1>2, <1>3 DEF ByFork, NoneFailed
<1>8. Calibrating' /\ IterationsRead'
  BY <1>1, <1>2, IterationsStay DEF MainNext
<1>9. CompleteRunValidates'
  <2> SUFFICES ASSUME Undisturbed, contexts > 0, Known # Unknown,
                      time_in_secs(Duration(run.iterations)) >= 10
               PROVE  verdict' = IF method \in BareMetal THEN "errors" ELSE "validated"
    BY <1>1, KnownStays
       DEF CompleteRunValidates, Undisturbed, time_in_secs, Duration, EE_TICKS_PER_SEC
  <2>1. contexts \in Nat /\ Used \subseteq Contexts /\ 0 \in Used
        /\ \A c \in Used : c < contexts
    BY <1>2, MainAssumption DEF RunTyped, InRoom, Used, Contexts
  <2>2. \A c \in Used : child[c] = "exited" /\ wait[c] \in {"no", "gone"} /\ channel[c] # "left"
    BY <2>1 DEF Undisturbed
  <2>3. \A c \in Used : Right(c)
    <3> SUFFICES ASSUME NEW c \in Used PROVE value[c] = "own"
      BY DEF Right
    <3>1. WaitedFor(c) /\ c \in Contexts /\ child[c] = "exited"
      BY <1>3, <2>1, <2>2
    <3>2. CASE method = "fork"
      <4>1. NoneFailed
        <5> SUFFICES ASSUME NEW d \in Contexts, child[d] = "failed" PROVE FALSE
          BY DEF NoneFailed
        <5>1. d < contexts
          BY <1>2 DEF StartedOnce
        <5> QED BY <5>1 DEF Undisturbed
      <4> QED BY <1>2, <2>2, <3>1, <3>2, <4>1 DEF ByFork
    <3>3. CASE method # "fork"
      <4>1. method \in Single \union {"pthread", "fork", "socket"}
        BY <1>2, MainAssumption DEF RunTyped
      <4> QED BY <1>2, <3>1, <3>3, <4>1 DEF ByThread, BySocket
    <3> QED BY <3>2, <3>3
  <2>4. {c \in Used : ~Right(c)} = {} /\ Cardinality({}) = 0
    BY <2>3, FS_EmptySet
  <2>5. Used # {} /\ \A c \in Used : child[c] = "exited"
    BY <2>1, <2>2
  <2>6. verdict' = Verdict(total_errors(Known, 0, Secs(run.iterations)))
    <3>1. PICK secs \in {Secs(run.iterations)} :
            verdict' = Verdict(total_errors(Known, Cardinality({c \in Used : ~Right(c)}), secs))
      BY <2>5 DEF Report
    <3> QED BY <2>4, <3>1
  <2>7. run.iterations \in Int
    BY <1>1, <1>2 DEF IterationsRead
  <2>8. CASE method \in BareMetal
    <3>1. Secs(run.iterations) \in Int /\ Secs(run.iterations) < 10
      BY <1>2, <2>7, <2>8, ClockGoesRound
    <3> QED BY <2>6, <2>8, <3>1, TooShort
  <2>9. CASE method \notin BareMetal
    <3>1. Secs(run.iterations) \in Int /\ Secs(run.iterations) >= 10
      BY <1>2, <2>7, <2>9, ClockGoesRound
    <3> QED BY <2>6, <2>9, <3>1, LongEnough
  <2> QED BY <2>8, <2>9
<1> QED BY <1>4, <1>5, <1>6, <1>7, <1>8, <1>9 DEF RunIInv

LEMMA RunNext ==
  ASSUME RunIInv, [MainNext]_mainVars
  PROVE  RunIInv'
<1>1. CASE UNCHANGED mainVars
  <2>1. UNCHANGED <<method, ticks, leftover, pc, argv, contexts, run, i, child, wait, value, channel, verdict>>
    BY <1>1 DEF mainVars, build
  <2>2. Calibrating'
    BY CalibratingNext DEF RunIInv
  <2>3. RunTyped' /\ IterationsRead' /\ StartedOnce'
    BY <2>1 DEF RunIInv, RunTyped, InRoom, IterationsRead, StartedOnce, Begun
  <2>4. ByThread' /\ BySocket' /\ ByFork'
    BY <2>1 DEF RunIInv, ByThread, BySocket, ByFork, WaitedFor, NoneFailed
  <2>5. CompleteRunValidates'
    BY <2>1, KnownStays
       DEF RunIInv, CompleteRunValidates, Undisturbed, time_in_secs, Duration, EE_TICKS_PER_SEC
  <2> QED BY <2>2, <2>3, <2>4, <2>5 DEF RunIInv
<1> QED
  BY <1>1, PortableStep, SeedsStep, CalibrateRunStep, StartContextStep, BindStep, AllStartedStep,
     StopStep, ReportStep, ContextRunStep DEF MainNext

(* A run of known seeds whose contexts all ran to their end, and that       *)
(* lasted ten seconds, is reported as validated: for every build but those  *)
(* for the processor, which report an error (core_main.c:331-388).          *)
THEOREM CompleteValidated == MainSpec => []CompleteRunValidates
<1>1. RunIInv => CompleteRunValidates
  BY DEF RunIInv
<1> QED BY RunInit, RunNext, <1>1, PTL DEF MainSpec

-----------------------------------------------------------------------------
(* What main has gathered.                                                  *)

Passed(c) == pc \in {"stop", "done"} /\ c < i

(* The wait for a fork that failed takes the exit of any other context,     *)
(* before that one's turn or, if it went on after a reported stop, after.   *)
Collected(c) == wait[c] = "gone" /\ \E d \in Contexts : d < i /\ child[d] = "failed"

OwnIsFinished ==
  \A c \in Contexts :
    /\ value[c] = "own" => child[c] = "exited"
    /\ wait[c] = "gone" => child[c] = "exited"
    /\ method = "fork" /\ channel[c] = "own" => child[c] = "exited"

TakenOrLost(c) ==
  \/ value[c] = "own"
  \/ child[c] \in {"failed", "suspended"}
  \/ wait[c] = "resumed"
  \/ child[c] = "exited" /\ channel[c] = "left"
  \/ Collected(c)

TakenByFork == method = "fork" =>
  \A c \in Contexts :
    IF Passed(c) THEN TakenOrLost(c)
    ELSE wait[c] = "gone" => pc \in {"stop", "done"} /\ Collected(c)

TakenIInv ==
  /\ pc \in {"stop", "done"} => i <= contexts
  /\ OwnIsFinished /\ TakenByFork

LEMMA TakenInit == MainInit => TakenIInv
BY DEF MainInit, TakenIInv, OwnIsFinished, TakenByFork, Passed

(* Until the contexts are waited for, nothing is gone and nothing taken.    *)
LEMMA TakenEarly ==
  ASSUME RunIInv, TakenIInv, pc \notin {"stop", "done"}, pc' \notin {"stop", "done"},
         UNCHANGED <<method, wait>>,
         \A c \in Contexts :
           /\ value'[c] \in {value[c], "calibration"}
           /\ child'[c] = child[c] \/ child[c] = "none"
           /\ channel'[c] \in {channel[c], "empty"}
  PROVE  TakenIInv'
<1>1. \A c \in Contexts : ~Passed(c) /\ ~Passed(c)'
  BY DEF Passed
<1>2. OwnIsFinished'
  BY DEF TakenIInv, OwnIsFinished
<1>3. TakenByFork'
  BY <1>1 DEF TakenIInv, TakenByFork
<1> QED BY <1>2, <1>3 DEF TakenIInv

LEMMA TakenContext ==
  ASSUME RunIInv, TakenIInv, NEW c \in Contexts, Finish(c) \/ Suspend(c) \/ Resume(c)
  PROVE  TakenIInv'
<1>1. Moved(c) /\ (Exits(c) \/ Stops(c) \/ GoesOn(c))
  BY ContextMoves
<1>2. child[c] \in {"running", "suspended"}
  BY <1>1 DEF Exits, Stops, GoesOn
<1>3. value[c] # "own" /\ wait[c] # "gone" /\ (method = "fork" => channel[c] # "own")
  BY <1>2 DEF TakenIInv, OwnIsFinished
<1>4. OwnIsFinished'
  <2> SUFFICES ASSUME NEW d \in Contexts
               PROVE  /\ value'[d] = "own" => child'[d] = "exited"
                      /\ wait'[d] = "gone" => child'[d] = "exited"
                      /\ method = "fork" /\ channel'[d] = "own" => child'[d] = "exited"
    BY <1>1 DEF OwnIsFinished, Moved
  <2>1. CASE d = c
    BY <1>1, <1>3, <2>1 DEF Exits, Stops, GoesOn
  <2>2. CASE d # c
    BY <1>1, <2>2 DEF Moved, TakenIInv, OwnIsFinished
  <2> QED BY <2>1, <2>2
<1>5. \A d \in Contexts : Passed(d)' <=> Passed(d)
  BY <1>1 DEF Moved, Passed
<1>6. \A d \in Contexts : child[d] = "failed" => child'[d] = "failed"
  BY <1>1, <1>2 DEF Moved
<1>7. TakenByFork'
  <2> SUFFICES ASSUME method = "fork", NEW d \in Contexts
               PROVE  IF Passed(d) THEN TakenOrLost(d)'
                      ELSE wait'[d] = "gone" => pc' \in {"stop", "done"} /\ Collected(d)'
    BY <1>1, <1>5 DEF TakenByFork, Moved
  <2>1. CASE d = c
    <3>1. wait'[c] # "gone"
      BY <1>1, <1>3 DEF Exits, Stops, GoesOn
    <3>2. Passed(c) => child[c] = "suspended" \/ wait[c] = "resumed"
      BY <1>2, <1>3, <2>1 DEF TakenIInv, TakenByFork, TakenOrLost, Collected
    <3>3. child[c] = "suspended" => wait'[c] = "resumed"
      BY <1>1 DEF Exits, Stops, GoesOn
    <3>4. wait[c] = "resumed" => wait'[c] = "resumed"
      BY <1>1 DEF Exits, Stops, GoesOn
    <3> QED BY <2>1, <3>1, <3>2, <3>3, <3>4 DEF TakenOrLost
  <2>2. CASE d # c
    <3>1. /\ child'[d] = child[d] /\ wait'[d] = wait[d] /\ value'[d] = value[d]
          /\ channel'[d] = channel[d] /\ i' = i /\ pc' = pc
      BY <1>1, <2>2 DEF Moved
    <3>2. Collected(d) => Collected(d)'
      BY <1>6, <3>1 DEF Collected
    <3> QED BY <3>1, <3>2 DEF TakenIInv, TakenByFork, TakenOrLost
  <2> QED BY <2>1, <2>2
<1> QED BY <1>1, <1>4, <1>7 DEF TakenIInv, Moved

(* A wait takes the exit of the context it is for, and its CRCs with it     *)
(* unless they are not there; or it is for one whose fork failed.           *)
LEMMA WaitTakes ==
  ASSUME RunIInv, TakenIInv, method = "fork", pc = "stop",
         NEW k \in Contexts, k = i, k < contexts, NEW ok \in BOOLEAN,
         WaitPid(ok), value' = [value EXCEPT ![k] = IF ok THEN channel[k] ELSE @],
         i' = i + 1, UNCHANGED <<child, channel>>
  PROVE  /\ TakenOrLost(k)'
         /\ \A c \in Contexts : wait'[c] = "gone" => c = k \/ wait[c] = "gone" \/ Collected(c)'
<1>1. /\ wait \in [Contexts -> {"no", "report", "resumed", "gone"}]
      /\ value \in [Contexts -> Handed] /\ k \in Nat
      /\ child[k] \in {"none", "running", "failed", "suspended", "exited"}
      /\ channel[k] \in {"left", "own"}
  BY DEF RunIInv, RunTyped, ByFork
<1>2. child[k] # "none"
  BY DEF RunIInv, StartedOnce, Begun
<1>3. k < i' /\ \A d \in Contexts : d < i => d < i'
  BY <1>1, ContextsFacts
<1>4. CASE child[k] = "failed"
  <2>1. \A c \in Contexts : wait'[c] = "gone" => Collected(c)'
    BY <1>3, <1>4 DEF Collected
  <2> QED BY <1>4, <2>1 DEF TakenOrLost
<1>5. CASE child[k] # "failed" /\ wait[k] = "gone"
  <2>1. wait' = wait
    BY <1>5 DEF WaitPid, Children
  <2>2. ~Passed(k)
    BY <1>1 DEF Passed
  <2>3. Collected(k)
    BY <1>5, <2>2 DEF TakenIInv, TakenByFork
  <2>4. Collected(k)'
    BY <1>3, <2>1, <2>3 DEF Collected
  <2> QED BY <2>1, <2>4 DEF TakenOrLost
<1>6. CASE child[k] # "failed" /\ wait[k] # "gone"
  <2>1. /\ ok
        /\ \/ child[k] = "exited" /\ wait' = [wait EXCEPT ![k] = "gone"]
           \/ child[k] # "exited" /\ wait[k] = "report" /\ wait' = [wait EXCEPT ![k] = "no"]
    <3>1. child[k] \in {"running", "suspended", "exited"} /\ RunTyped
      BY <1>1, <1>2, <1>6 DEF RunIInv
    <3> QED BY <1>6, <3>1, WaitsForIt
  <2>2. \A c \in Contexts : c # k => wait'[c] = wait[c]
    BY <1>1, <2>1
  <2>3. value'[k] = channel[k]
    BY <1>1, <2>1
  <2>4. child[k] = "exited" \/ child[k] = "suspended"
    BY <2>1 DEF RunIInv, StartedOnce
  <2>5. TakenOrLost(k)'
    BY <1>1, <2>3, <2>4 DEF TakenOrLost
  <2> QED BY <2>2, <2>5
<1> QED BY <1>4, <1>5, <1>6

LEMMA TakenStop ==
  ASSUME RunIInv, TakenIInv, Stop
  PROVE  TakenIInv'
<1>1. /\ pc = "stop" /\ pc' = "stop" /\ i' = i + 1 /\ i < contexts
      /\ UNCHANGED <<method, child, contexts>>
  BY DEF Stop, build
<1>2. RunTyped /\ i \in Contexts /\ i \in Nat /\ contexts \in Nat
  BY <1>1, ContextsFacts, MainAssumption DEF RunIInv, RunTyped, InRoom
<1>3. method \in Single \union {"pthread", "fork", "socket"}
  BY <1>2, MainAssumption DEF RunTyped
<1>4. i' <= contexts'
  BY <1>1, <1>2
<1>5. CASE method \in Single \union {"pthread"}
  <2>1. UNCHANGED <<wait, value, channel>>
    BY <1>5 DEF Stop, Single, BareMetal
  <2>2. OwnIsFinished'
    BY <1>1, <2>1 DEF TakenIInv, OwnIsFinished
  <2>3. TakenByFork'
    BY <1>1, <1>5 DEF TakenByFork, Single, BareMetal
  <2> QED BY <1>4, <2>2, <2>3 DEF TakenIInv
<1>6. CASE method = "socket"
  <2>1. channel[i] = "own" /\ value' = [value EXCEPT ![i] = "own"]
    BY <1>6 DEF Stop, Single, BareMetal
  <2>2. PICK ok \in BOOLEAN : WaitPid(ok)
    BY <1>6 DEF Stop, Single, BareMetal
  <2>3. child[i] = "exited"
    BY <1>2, <1>6, <2>1 DEF RunIInv, BySocket
  <2>4. \A c \in Contexts : wait'[c] = "gone" => wait[c] = "gone" \/ child[c] = "exited"
    BY <1>2, <2>2, Waits DEF RunTyped
  <2>5. OwnIsFinished'
    BY <1>1, <1>2, <1>6, <2>1, <2>3, <2>4 DEF TakenIInv, OwnIsFinished, RunTyped
  <2>6. TakenByFork'
    BY <1>1, <1>6 DEF TakenByFork
  <2> QED BY <1>4, <2>5, <2>6 DEF TakenIInv
<1>7. CASE method = "fork"
  <2>1. channel' = channel
    BY <1>7 DEF Stop, Single, BareMetal
  <2>2. PICK ok \in BOOLEAN :
          WaitPid(ok) /\ value' = [value EXCEPT ![i] = IF ok THEN channel[i] ELSE @]
    BY <1>7 DEF Stop, Single, BareMetal
  <2>3. PICK k \in Contexts : k = i
    BY <1>2
  <2>4. \A c \in Contexts : c # k => value'[c] = value[c]
    BY <1>2, <2>2, <2>3 DEF RunTyped
  <2>5. /\ TakenOrLost(k)'
        /\ \A c \in Contexts : wait'[c] = "gone" => c = k \/ wait[c] = "gone" \/ Collected(c)'
    BY <1>1, <1>7, <2>1, <2>2, <2>3, WaitTakes
  <2>6. \A c \in Contexts : wait'[c] = "gone" => wait[c] = "gone" \/ child[c] = "exited"
    BY <1>2, <2>2, Waits DEF RunTyped
  <2>7. /\ \A c \in Contexts : wait'[c] = wait[c]
             \/ (child[c] = "exited" /\ wait'[c] = "gone")
             \/ (wait[c] = "report" /\ child[c] = "suspended")
    BY <1>2, <2>2, Waits DEF RunTyped, RunIInv, StartedOnce
  <2>8. OwnIsFinished'
    <3>1. value'[k] \in {value[k], channel[k]}
      BY <1>2, <2>2, <2>3 DEF RunTyped
    <3> QED BY <1>1, <1>7, <2>1, <2>4, <2>6, <3>1 DEF TakenIInv, OwnIsFinished
  <2>9. \A c \in Contexts : Passed(c)' <=> Passed(c) \/ c = k
    BY <1>1, <1>2, <2>3, ContextsFacts DEF Passed
  <2>10. \A d \in Contexts : d < i => d < i'
    BY <1>1, <1>2, ContextsFacts
  <2>11. \A c \in Contexts : Collected(c) /\ wait'[c] = "gone" => Collected(c)'
    BY <1>1, <2>10 DEF Collected
  <2>12. \A c \in Contexts : wait[c] = "gone" => wait'[c] = "gone"
    BY <2>7
  <2>13. ASSUME NEW c \in Contexts, c # k, Passed(c) PROVE TakenOrLost(c)'
    <3>1. wait'[c] = "gone" /\ wait[c] # "gone" => Collected(c)'
      BY <2>5, <2>13
    <3>2. TakenOrLost(c)
      BY <1>7, <2>13 DEF TakenIInv, TakenByFork
    <3> QED
      BY <1>1, <2>1, <2>4, <2>7, <2>11, <2>12, <2>13, <3>1, <3>2 DEF TakenOrLost, Collected
  <2>14. ASSUME NEW c \in Contexts, c # k, ~Passed(c), wait'[c] = "gone" PROVE Collected(c)'
    <3>1. wait[c] = "gone" => Collected(c)
      BY <1>7, <2>14 DEF TakenIInv, TakenByFork
    <3> QED BY <2>5, <2>11, <2>14, <3>1
  <2>15. TakenByFork'
    BY <1>1, <2>5, <2>9, <2>13, <2>14 DEF TakenByFork
  <2> QED BY <1>4, <2>8, <2>15 DEF TakenIInv
<1> QED BY <1>3, <1>5, <1>6, <1>7

LEMMA TakenNext ==
  ASSUME RunIInv, RunIInv', TakenIInv, [MainNext]_mainVars
  PROVE  TakenIInv'
<1>1. CASE portable_init \/ Seeds \/ Start
  <2>1. pc \notin {"stop", "done"} /\ pc' \notin {"stop", "done"} /\ UNCHANGED <<method, wait, value, channel>>
    BY <1>1 DEF portable_init, Seeds, Start, build
  <2>2. ASSUME NEW c \in Contexts PROVE child'[c] = child[c] \/ child[c] = "none"
    <3>1. CASE portable_init \/ Seeds
      BY <3>1 DEF portable_init, Seeds
    <3>2. CASE Start
      <4>1. c = i => ~Begun(c)
        BY <3>2 DEF Start, Begun, RunIInv, RunTyped
      <4>2. c = i => child[c] = "none"
        BY <4>1 DEF RunIInv, StartedOnce
      <4>3. c # i => child'[c] = child[c]
        BY <3>2 DEF Start, RunIInv, RunTyped
      <4> QED BY <4>2, <4>3
    <3> QED BY <1>1, <3>1, <3>2
  <2> QED BY <2>1, <2>2, TakenEarly
<1>2. CASE Calibrate
  <2>1. /\ pc \notin {"stop", "done"} /\ pc' \notin {"stop", "done"} /\ UNCHANGED <<method, wait, child, channel>>
        /\ value' = [value EXCEPT ![0] = "calibration"]
    BY <1>2 DEF Calibrate, build
  <2>2. \A c \in Contexts : value'[c] \in {value[c], "calibration"}
    BY <2>1 DEF RunIInv, RunTyped
  <2> QED BY <2>1, <2>2, TakenEarly
<1>3. CASE Bind
  <2>1. /\ pc \notin {"stop", "done"} /\ pc' \notin {"stop", "done"} /\ UNCHANGED <<method, wait, child, value>>
        /\ channel' = [channel EXCEPT ![i] = IF @ = "closed" THEN "empty" ELSE @]
    BY <1>3 DEF Bind, build
  <2>2. \A c \in Contexts : channel'[c] \in {channel[c], "empty"}
    BY <2>1 DEF RunIInv, RunTyped
  <2> QED BY <2>1, <2>2, TakenEarly
<1>4. CASE AllStarted
  <2>1. pc = "start" /\ i' = 0 /\ UNCHANGED <<method, contexts, wait, child, value, channel>>
    BY <1>4 DEF AllStarted, build
  <2>2. i' <= contexts'
    BY <2>1, MainAssumption DEF RunIInv, RunTyped, InRoom
  <2>3. OwnIsFinished'
    BY <2>1 DEF TakenIInv, OwnIsFinished
  <2>4. \A c \in Contexts : wait[c] # "gone" \/ method # "fork"
    BY <2>1 DEF TakenIInv, TakenByFork, Passed
  <2>5. \A c \in Contexts : ~Passed(c)'
    BY <2>1, ContextsFacts DEF Passed
  <2>6. TakenByFork'
    BY <2>1, <2>4, <2>5 DEF TakenByFork
  <2> QED BY <2>2, <2>3, <2>6 DEF TakenIInv
<1>5. CASE Report
  <2>1. /\ pc = "stop" /\ pc' = "done"
        /\ UNCHANGED <<method, i, contexts, wait, child, value, channel>>
    BY <1>5 DEF Report, build
  <2> QED
    BY <2>1 DEF TakenIInv, OwnIsFinished, TakenByFork, TakenOrLost, Collected, Passed
<1>6. CASE UNCHANGED mainVars
  BY <1>6 DEF mainVars, build, TakenIInv, OwnIsFinished, TakenByFork, TakenOrLost, Collected, Passed
<1> QED
  BY <1>1, <1>2, <1>3, <1>4, <1>5, <1>6, TakenStop, TakenContext DEF MainNext

(* What main has waited for it has, in every order of starts, failures,     *)
(* stops, exits and waits, but for the five ways in which CRCs are lost     *)
(* (linux/core_portme.c:235-334).                                           *)
THEOREM CrcsGathered == MainSpec => []CrcsTaken
<1>1. RunIInv /\ TakenIInv => CrcsTaken
  <2> SUFFICES ASSUME RunIInv, TakenIInv, NEW c \in Contexts, Passed(c)
               PROVE  TakenOrLost(c)
    BY DEF TakenIInv, OwnIsFinished, CrcsTaken, Passed, TakenOrLost, Collected
  <2>1. WaitedFor(c)
    BY ContextsFacts, MainAssumption DEF Passed, WaitedFor, TakenIInv, RunIInv, RunTyped, InRoom
  <2>2. method \in Single \union {"pthread", "fork", "socket"}
    BY MainAssumption DEF RunIInv, RunTyped
  <2>3. CASE method = "fork"
    BY <2>3 DEF TakenIInv, TakenByFork
  <2>4. CASE method # "fork"
    BY <2>1, <2>2, <2>4 DEF RunIInv, ByThread, BySocket, TakenOrLost
  <2> QED BY <2>3, <2>4
<1> QED BY RunInit, RunNext, TakenInit, TakenNext, <1>1, PTL DEF MainSpec

-----------------------------------------------------------------------------
(* The memory blocks.                                                       *)

(* A bounded set of numbers has a last one.                                 *)
LEMMA LastOfThose ==
  ASSUME NEW S \in Nat, NEW T \in SUBSET (0 .. S), 0 \in T
  PROVE  \E n \in T : \A x \in T : x <= n
<1> DEFINE Distances == {y \in 0 .. S : S - y \in T}
<1>1. PICK y \in Distances : \A z \in Distances : y <= z
  <2>1. Distances \in SUBSET Nat /\ S \in Distances
    OBVIOUS
  <2> HIDE DEF Distances
  <2> QED BY <2>1, Least
<1>2. ASSUME NEW x \in T PROVE x <= S - y
  <2>1. S - x \in Distances
    OBVIOUS
  <2>2. y <= S - x
    BY <1>1, <2>1, Zenon
  <2>3. y \in Int /\ x \in Int
    OBVIOUS
  <2> QED BY <2>2, <2>3
<1>3. S - y \in T
  OBVIOUS
<1> QED BY <1>2, <1>3, Zenon

(* The dimension that core_init_matrix finds by trial.                      *)
LEMMA MatricesFit ==
  ASSUME NEW S \in Nat \ {0}
  PROVE  Dimension(S) \in Nat /\ 8 * (Dimension(S) * Dimension(S)) < S
<1> DEFINE T == {x \in 0 .. S : x * x * 8 < S}
<1>1. 0 \in T
  OBVIOUS
<1>2. PICK n \in T : \A x \in T : x <= n
  <2>1. T \in SUBSET (0 .. S)
    OBVIOUS
  <2> HIDE DEF T
  <2> QED BY <1>1, <2>1, LastOfThose
<1>3. n \in 0 .. S /\ n * n * 8 < S /\ (n + 1) * (n + 1) * 8 >= S
  <2>1. n \in 0 .. S /\ n * n * 8 < S
    BY <1>2
  <2>2. n + 1 \in 0 .. S
    <3>1. n * n >= n
      BY <2>1
    <3> QED BY <2>1, <3>1
  <2>3. n + 1 \notin T
    BY <1>2, <2>1
  <2> QED BY <2>1, <2>2, <2>3
<1>4. Dimension(S) \in 0 .. S /\ Dimension(S) * Dimension(S) * 8 < S
  BY <1>3 DEF Dimension
<1> QED BY <1>4

(* An aligned address moves by what is already a multiple of 4.             *)
LEMMA Aligned ==
  ASSUME NEW x \in Nat
  PROVE  /\ align_mem(x) \in Nat /\ x <= align_mem(x) /\ align_mem(x) <= x + 3
         /\ x % 4 = 0 => align_mem(x) = x
         /\ \A q \in Nat : align_mem(align_mem(x) + 4 * q) = align_mem(x) + 4 * q
<1>1. align_mem(x) \in Nat /\ x <= align_mem(x) /\ align_mem(x) <= x + 3
  BY DEF align_mem
<1>2. x % 4 = 0 => align_mem(x) = x
  BY DEF align_mem
<1>3. ASSUME NEW q \in Nat PROVE align_mem(align_mem(x) + 4 * q) = align_mem(x) + 4 * q
  <2>1. PICK m \in Nat : align_mem(x) = 4 * m
    <3>1. (x + 3) \div 4 \in Nat
      OBVIOUS
    <3> QED BY <3>1 DEF align_mem
  <2>2. (4 * m + 4 * q + 3) \div 4 = m + q
    OBVIOUS
  <2> QED BY <2>1, <2>2 DEF align_mem
<1> QED BY <1>1, <1>2, <1>3

(* A block stays in its share.                                              *)
Position(a) ==
  Cardinality({b \in run.execs : \E x, y \in DOMAIN Algorithms :
                 Algorithms[x] = b /\ Algorithms[y] = a /\ x <= y})

Executed == {"list", "matrix", "state"}

LEMMA InItsShare ==
  ASSUME run.execs \in SUBSET Executed, NEW a \in run.execs,
         run.size \in Nat, RoomToAlign(run.size),
         Position(a) \in 1 .. 3, Cardinality(run.execs) \in 1 .. 3
  PROVE  /\ BlockOf(a).from = (Position(a) - 1) * run.size
         /\ BlockOf(a).to \in Int
         /\ BlockOf(a).to <= Position(a) * run.size
<1> DEFINE S == run.size
           c == Cardinality(run.execs)
           j == Position(a)
           at == (j - 1) * S
           n == Dimension(S)
<1>1. S \in Nat \ {0} /\ a \in Executed
  BY DEF RoomToAlign
<1>2. share(S * c, c) = S
  <2> HIDE DEF S
  <2>1. CASE c = 1
    BY <1>1, <2>1 DEF share
  <2>2. CASE c = 2
    BY <1>1, <2>2 DEF share
  <2>3. CASE c = 3
    BY <1>1, <2>3 DEF share
  <2> QED BY <2>1, <2>2, <2>3
<1>3. memblock(S * c, c, j) = at
  BY <1>2 DEF memblock
<1>4. /\ a = "list" => BlockOf(a) = [from |-> at, to |-> at + 20 * ((S \div 20) - 2)]
      /\ a = "matrix" => BlockOf(a) = [from |-> at, to |-> align_mem(align_mem(at) + 4 * n * n) + 4 * n * n]
      /\ a = "state" => BlockOf(a) = [from |-> at, to |-> at + S]
  <2>1. BlockOf(a) = CASE a = "list"   -> [from |-> at, to |-> at + 20 * ((S \div 20) - 2)]
                       [] a = "matrix" -> [from |-> at, to |-> align_mem(align_mem(at) + 4 * n * n) + 4 * n * n]
                       [] a = "state"  -> [from |-> at, to |-> at + S]
    BY <1>3 DEF BlockOf, Position
  <2> HIDE DEF at, S, n
  <2> QED BY <2>1
<1>5. at \in Nat /\ at + S = j * S
  <2> HIDE DEF S, j
  <2> QED BY <1>1 DEF j
<1> HIDE DEF at, S, j, n
<1>6. CASE a = "list"
  <2>1. BlockOf(a).from = at /\ BlockOf(a).to = at + 20 * ((S \div 20) - 2)
    BY <1>4, <1>6
  <2>2. 20 * ((S \div 20) - 2) \in Int /\ 20 * ((S \div 20) - 2) <= S
    BY <1>1
  <2> QED BY <1>1, <1>5, <2>1, <2>2 DEF at, S, j
<1>7. CASE a = "state"
  <2>1. BlockOf(a).from = at /\ BlockOf(a).to = at + S
    BY <1>4, <1>7
  <2> QED BY <1>1, <1>5, <2>1 DEF at, S, j
<1>8. CASE a = "matrix"
  <2> DEFINE q == n * n
  <2>1. BlockOf(a).from = at /\ BlockOf(a).to = align_mem(align_mem(at) + 4 * n * n) + 4 * n * n
    BY <1>4, <1>8
  <2>2. n \in Nat /\ 8 * q < S
    BY <1>1, MatricesFit DEF n
  <2>3. q \in Nat /\ 4 * n * n = 4 * q /\ 8 * n * n = 8 * q
    BY <2>2
  <2> HIDE DEF q
  <2>4. BlockOf(a).to = align_mem(at) + 8 * q /\ align_mem(at) \in Nat
    <3>1. align_mem(align_mem(at) + 4 * q) = align_mem(at) + 4 * q /\ align_mem(at) \in Nat
      BY <1>5, <2>3, Aligned
    <3> QED BY <2>1, <2>3, <3>1
  <2>5. align_mem(at) + 8 * q <= at + S
    <3>1. CASE S % 4 = 0
      <4>1. at % 4 = 0
        <5>1. at = 0 \/ at = S \/ at = S + S
          BY <1>1 DEF at, j
        <5> QED BY <1>1, <3>1, <5>1
      <4>2. align_mem(at) = at
        BY <1>5, <4>1, Aligned
      <4> QED BY <1>1, <1>5, <2>2, <2>3, <4>2
    <3>2. CASE 8 * q + 3 <= S
      <4>1. align_mem(at) <= at + 3 /\ align_mem(at) \in Nat
        BY <1>5, Aligned
      <4> QED BY <1>1, <1>5, <2>3, <3>2, <4>1
    <3>3. S % 4 = 0 \/ 8 * n * n + 3 <= S
      BY DEF RoomToAlign, S, n
    <3> QED BY <2>3, <3>1, <3>2, <3>3
  <2>6. BlockOf(a).to \in Int /\ BlockOf(a).to <= j * S
    BY <1>1, <1>5, <2>3, <2>4, <2>5
  <2> QED BY <2>1, <2>6 DEF at, S, j
<1> QED BY <1>1, <1>6, <1>7, <1>8 DEF Executed

LEMMA ExecutedSize ==
  ASSUME NEW S \in SUBSET Executed
  PROVE  IsFiniteSet(S) /\ Cardinality(S) \in 0 .. 3
<1>1. IsFiniteSet({"list"}) /\ Cardinality({"list"}) = 1
  BY FS_Singleton
<1>2. IsFiniteSet({"list"} \union {"matrix"}) /\ Cardinality({"list"} \union {"matrix"}) = 2
  BY <1>1, FS_AddElement
<1>3. /\ IsFiniteSet(({"list"} \union {"matrix"}) \union {"state"})
      /\ Cardinality(({"list"} \union {"matrix"}) \union {"state"}) = 3
  BY <1>2, FS_AddElement
<1>4. Executed = ({"list"} \union {"matrix"}) \union {"state"}
  BY DEF Executed
<1>5. IsFiniteSet(S) /\ Cardinality(S) <= 3
  BY <1>3, <1>4, FS_Subset
<1> QED BY <1>5, FS_CardinalityType

(* The algorithms have different places, in the order of the list.          *)
LEMMA Positions ==
  ASSUME run.execs \in SUBSET Executed
  PROVE  /\ Cardinality(run.execs) \in 0 .. 3
         /\ \A a \in run.execs : Position(a) \in 1 .. Cardinality(run.execs)
         /\ \A a, b \in run.execs : a # b => Position(a) < Position(b) \/ Position(b) < Position(a)
<1> DEFINE Upto(a) == {b \in run.execs : \E x, y \in DOMAIN Algorithms :
                         Algorithms[x] = b /\ Algorithms[y] = a /\ x <= y}
<1>1. DOMAIN Algorithms = 1 .. 3 /\ Algorithms[1] = "list" /\ Algorithms[2] = "matrix" /\ Algorithms[3] = "state"
  BY DEF Algorithms
<1>3. IsFiniteSet(run.execs) /\ Cardinality(run.execs) \in 0 .. 3
  BY ExecutedSize
<1>4. ASSUME NEW a \in run.execs PROVE Upto(a) \in SUBSET run.execs /\ a \in Upto(a)
  <2>1. a \in Executed
    OBVIOUS
  <2> QED BY <1>1, <2>1 DEF Executed
<1>5. ASSUME NEW a \in run.execs PROVE Position(a) \in 1 .. Cardinality(run.execs)
  <2> HIDE DEF Upto
  <2>1. IsFiniteSet(Upto(a)) /\ Cardinality(Upto(a)) <= Cardinality(run.execs)
    BY <1>3, <1>4, FS_Subset
  <2>2. Cardinality(Upto(a)) \in Nat /\ Cardinality(Upto(a)) # 0
    BY <1>4, <2>1, FS_CardinalityType, FS_EmptySet
  <2>3. Position(a) = Cardinality(Upto(a))
    BY DEF Position, Upto
  <2> QED BY <1>3, <2>1, <2>2, <2>3
<1>6. ASSUME NEW a \in run.execs, NEW b \in run.execs, Upto(a) \subseteq Upto(b), b \notin Upto(a)
      PROVE  Position(a) < Position(b)
  <2> HIDE DEF Upto
  <2>1. IsFiniteSet(Upto(b)) /\ Upto(a) \in SUBSET Upto(b) /\ Upto(a) # Upto(b)
    BY <1>3, <1>4, <1>6, FS_Subset
  <2>2. Cardinality(Upto(a)) <= Cardinality(Upto(b)) /\ Cardinality(Upto(a)) # Cardinality(Upto(b))
    BY <2>1, FS_Subset
  <2>3. Position(a) = Cardinality(Upto(a)) /\ Position(b) = Cardinality(Upto(b))
    BY DEF Position, Upto
  <2>4. Position(a) \in Nat /\ Position(b) \in Nat
    BY <1>3, <1>5
  <2> QED BY <2>2, <2>3, <2>4
<1>7. ASSUME NEW a \in run.execs, NEW b \in run.execs, a # b
      PROVE  \/ Upto(a) \subseteq Upto(b) /\ b \notin Upto(a)
             \/ Upto(b) \subseteq Upto(a) /\ a \notin Upto(b)
  <2>1. PICK x \in 1 .. 3 : Algorithms[x] = a
    BY <1>1 DEF Executed
  <2>2. PICK y \in 1 .. 3 : Algorithms[y] = b
    BY <1>1 DEF Executed
  <2>3. \A u, v \in 1 .. 3 : Algorithms[u] = Algorithms[v] => u = v
    BY <1>1
  <2>4. \A d \in run.execs : (d \in Upto(a) <=> \E u \in 1 .. 3 : Algorithms[u] = d /\ u <= x)
    BY <1>1, <2>1, <2>3
  <2>5. \A d \in run.execs : (d \in Upto(b) <=> \E u \in 1 .. 3 : Algorithms[u] = d /\ u <= y)
    BY <1>1, <2>2, <2>3
  <2> HIDE DEF Upto
  <2>6. Upto(a) \subseteq run.execs /\ Upto(b) \subseteq run.execs
    BY <1>4
  <2>7. x < y \/ y < x
    BY <1>7, <2>1, <2>2
  <2> QED BY <2>1, <2>2, <2>3, <2>4, <2>5, <2>6, <2>7
<1> QED BY <1>3, <1>5, <1>6, <1>7

LEMMA SharesApart ==
  ASSUME run.execs \in SUBSET Executed, run.size \in Nat, RoomToAlign(run.size),
         NEW a \in run.execs, NEW b \in run.execs
  PROVE  /\ BlockOf(a).to <= run.size * Cardinality(run.execs)
         /\ a # b => BlockOf(a).to <= BlockOf(b).from \/ BlockOf(b).to <= BlockOf(a).from
<1>1. PICK c \in 1 .. 3 : c = Cardinality(run.execs)
  BY Positions
<1>2. PICK j \in 1 .. 3 : j = Position(a) /\ j <= c
  BY <1>1, Positions
<1>3. PICK k \in 1 .. 3 : k = Position(b) /\ k <= c
  BY <1>1, Positions
<1>4. /\ BlockOf(a).from = (j - 1) * run.size /\ BlockOf(a).to \in Int /\ BlockOf(a).to <= j * run.size
      /\ BlockOf(b).from = (k - 1) * run.size /\ BlockOf(b).to \in Int /\ BlockOf(b).to <= k * run.size
  BY <1>1, <1>2, <1>3, InItsShare
<1>5. ASSUME NEW m \in 1 .. 3, NEW l \in 1 .. 3, m <= l PROVE m * run.size <= run.size * l
  BY <1>5
<1>6. a # b => j < k \/ k < j
  BY <1>2, <1>3, Positions
<1>7. BlockOf(a).to <= run.size * c
  BY <1>2, <1>4, <1>5
<1>8. j < k => BlockOf(a).to <= BlockOf(b).from
  BY <1>4
<1>9. k < j => BlockOf(b).to <= BlockOf(a).from
  BY <1>4
<1> QED BY <1>1, <1>6, <1>7, <1>8, <1>9

(* What goes with the blocks: the types, a place for each context, and that *)
(* the algorithms to execute and the size of a share are read once.         *)
BlocksIInv ==
  /\ MainTypeOK
  /\ pc = "bind" => i < contexts
  /\ pc \notin {"portable_init", "seeds"} =>
       /\ {"execs", "size"} \subseteq DOMAIN run
       /\ run.execs \in SUBSET Executed
       /\ run.execs # {} => run.size \in Int

LEMMA BlocksInit == MainInit => BlocksIInv
<1> SUFFICES ASSUME MainInit PROVE BlocksIInv
  OBVIOUS
<1>1. contexts \in 0 .. MULTITHREAD /\ 0 \in 0 .. MULTITHREAD
  BY MainAssumption DEF MainInit
<1>2. run.iterations \in Int
  BY DEF MainInit, NoRun
<1> QED BY <1>1, <1>2 DEF MainInit, MainTypeOK, BlocksIInv

(* get_seed_32(7), and the algorithms.                                      *)
LEMMA SeventhSeed ==
  ASSUME RunIInv, pc = "seeds"
  PROVE  get_seed_32(7) \in Int
<1>1. get_seed_args(7, argv) \in Int
  BY DEF get_seed_args, RunIInv, IterationsRead
<1>2. CASE method \notin BareMetal
  BY <1>1, <1>2 DEF get_seed_32
<1>3. CASE method \in BareMetal
  <2>1. DOMAIN seed_volatile = 1 .. 5
    BY <1>3 DEF seed_volatile, BareMetal
  <2>2. 7 \notin DOMAIN seed_volatile
    BY <2>1
  <2> HIDE DEF seed_volatile
  <2> QED BY <1>3, <2>2 DEF get_seed_32
<1> QED BY <1>2, <1>3

LEMMA MaskedAlgorithms ==
  ASSUME NEW mask
  PROVE  execs(mask) \in SUBSET Executed
<1>1. DOMAIN Algorithms = 1 .. 3 /\ \A k \in 1 .. 3 : Algorithms[k] \in Executed
  BY DEF Algorithms, Executed
<1>2. ToSet(Algorithms) \subseteq Executed
  BY <1>1 DEF ToSet
<1> QED BY <1>1, <1>2 DEF execs

LEMMA SeedsBlocks ==
  ASSUME RunIInv, RunIInv', BlocksIInv, Seeds
  PROVE  BlocksIInv'
<1> DEFINE todo == execs(get_seed_32(5))
           total == IF get_seed_32(7) # 0 THEN get_seed_32(7) ELSE DataSize
<1>1. /\ pc = "seeds" /\ pc' \in {"calibrate", "start"}
      /\ UNCHANGED <<method, i, child, wait, value, channel, contexts>>
      /\ run'.iterations = get_seed_32(4) /\ run'.execs = todo
      /\ run'.size = share(total, Cardinality(todo)) /\ {"execs", "size"} \subseteq DOMAIN run'
  BY DEF Seeds, build
<1>2. todo \in SUBSET Executed
  BY MaskedAlgorithms
<1>3. total \in Int
  BY <1>1, SeventhSeed, MainAssumption DEF DataSize
<1>4. todo # {} => Cardinality(todo) \in 1 .. 3
  <2>1. IsFiniteSet(todo) /\ Cardinality(todo) \in 0 .. 3
    BY <1>2, ExecutedSize
  <2> QED BY <2>1, FS_EmptySet
<1>5. get_seed_32(4) \in Int
  BY <1>1, FourthSeed
<1> HIDE DEF todo, total
<1>6. todo # {} => run'.size \in Int
  BY <1>1, <1>3, <1>4 DEF share
<1>7. MainTypeOK'
  BY <1>1, <1>5 DEF BlocksIInv, MainTypeOK
<1> QED BY <1>1, <1>2, <1>6, <1>7 DEF BlocksIInv

LEMMA CalibrateBlocks ==
  ASSUME RunIInv, RunIInv', BlocksIInv, Calibrate
  PROVE  BlocksIInv'
<1>1. /\ pc = "calibrate" /\ pc' \in {"calibrate", "start"}
      /\ UNCHANGED <<method, i, child, wait, channel, contexts>>
      /\ value' = [value EXCEPT ![0] = "calibration"]
  BY DEF Calibrate, build
<1>2. run'.execs = run.execs /\ run'.size = run.size /\ DOMAIN run' = DOMAIN run
  BY <1>1 DEF Calibrate, BlocksIInv
<1>3. run'.iterations \in Int
  BY <1>1 DEF RunIInv, Calibrating, IterationsRead
<1>4. value' \in [Contexts -> {"unset", "calibration", "left", "own"}]
  BY <1>1 DEF BlocksIInv, MainTypeOK
<1>5. MainTypeOK'
  BY <1>1, <1>3, <1>4 DEF BlocksIInv, MainTypeOK
<1> QED BY <1>1, <1>2, <1>5 DEF BlocksIInv

(* From then on only the contexts change.                                   *)
LEMMA ParallelBlocks ==
  ASSUME RunIInv, RunIInv', BlocksIInv, UNCHANGED run,
         pc \notin {"portable_init", "seeds"}, pc' \in {"calibrate", "start", "bind", "stop", "done"},
         i' \in 0 .. MULTITHREAD, contexts' = contexts, pc' = "bind" => i' < contexts,
         value' \in [Contexts -> {"unset", "calibration", "left", "own"}],
         channel' \in [Contexts -> {"left", "closed", "empty", "dropped", "own"}]
  PROVE  BlocksIInv'
<1>1. child' \in [Contexts -> {"none", "running", "failed", "suspended", "exited"}]
  BY DEF RunIInv, RunTyped
<1>2. wait' \in [Contexts -> {"no", "report", "resumed", "gone"}]
  BY DEF RunIInv, RunTyped
<1>3. MainTypeOK'
  BY <1>1, <1>2 DEF BlocksIInv, MainTypeOK
<1> QED BY <1>3 DEF BlocksIInv

LEMMA StopBlocks ==
  ASSUME RunIInv, RunIInv', BlocksIInv, Stop
  PROVE  BlocksIInv'
<1>1. /\ pc = "stop" /\ pc' = pc /\ i < contexts /\ i' = i + 1
      /\ UNCHANGED <<contexts, run>>
  BY DEF Stop
<1>2. i' \in 0 .. MULTITHREAD /\ i \in Contexts
  BY <1>1, MainAssumption DEF BlocksIInv, MainTypeOK, Contexts
<1>3. CASE method \in Single \union {"pthread"}
  <2>1. UNCHANGED <<value, channel>>
    BY <1>3 DEF Stop, Single, BareMetal
  <2> QED BY <1>1, <1>2, <2>1, ParallelBlocks DEF BlocksIInv, MainTypeOK
<1>4. CASE method = "fork"
  <2>1. UNCHANGED channel /\ \E ok \in BOOLEAN : value' = [value EXCEPT ![i] = IF ok THEN channel[i] ELSE @]
    BY <1>4 DEF Stop, Single, BareMetal
  <2>2. channel[i] \in {"left", "own"}
    BY <1>2, <1>4 DEF RunIInv, ByFork
  <2>3. value' \in [Contexts -> {"unset", "calibration", "left", "own"}]
    BY <1>2, <2>1, <2>2 DEF BlocksIInv, MainTypeOK
  <2> QED BY <1>1, <1>2, <2>1, <2>3, ParallelBlocks DEF BlocksIInv, MainTypeOK
<1>5. CASE method = "socket"
  <2>1. value' = [value EXCEPT ![i] = "own"] /\ channel' = [channel EXCEPT ![i] = "empty"]
    BY <1>5 DEF Stop, Single, BareMetal
  <2>2. /\ value' \in [Contexts -> {"unset", "calibration", "left", "own"}]
        /\ channel' \in [Contexts -> {"left", "closed", "empty", "dropped", "own"}]
    BY <1>2, <2>1 DEF BlocksIInv, MainTypeOK
  <2> QED BY <1>1, <1>2, <2>2, ParallelBlocks
<1> QED BY <1>3, <1>4, <1>5, MainAssumption DEF RunIInv, RunTyped

LEMMA FinishBlocks ==
  ASSUME RunIInv, RunIInv', BlocksIInv, NEW c \in Contexts, Finish(c)
  PROVE  BlocksIInv'
<1>1. UNCHANGED <<pc, i, contexts, run>> /\ child[c] = "running"
  BY DEF Finish
<1>2. pc \notin {"portable_init", "seeds"}
  BY <1>1 DEF RunIInv, StartedOnce, Begun
<1>3. /\ value' \in [Contexts -> {"unset", "calibration", "left", "own"}]
      /\ channel' \in [Contexts -> {"left", "closed", "empty", "dropped", "own"}]
  <2>1. CASE method \in Single \union {"pthread"}
    BY <2>1 DEF Finish, BlocksIInv, MainTypeOK, Single, BareMetal
  <2>2. CASE method = "fork"
    BY <2>2 DEF Finish, BlocksIInv, MainTypeOK, Single, BareMetal
  <2>3. CASE method = "socket"
    BY <2>3 DEF Finish, BlocksIInv, MainTypeOK, Single, BareMetal
  <2> QED BY <2>1, <2>2, <2>3, MainAssumption DEF RunIInv, RunTyped
<1> QED BY <1>1, <1>2, <1>3, ParallelBlocks DEF BlocksIInv, MainTypeOK

LEMMA BlocksNext ==
  ASSUME RunIInv, RunIInv', BlocksIInv, [MainNext]_mainVars
  PROVE  BlocksIInv'
<1>1. CASE portable_init
  <2>1. /\ pc' = "seeds" /\ UNCHANGED <<run, i, child, wait, value, channel>>
    BY <1>1 DEF portable_init
  <2>2. contexts' \in 0 .. MULTITHREAD
    BY DEF RunIInv, RunTyped, InRoom
  <2> QED BY <2>1, <2>2 DEF BlocksIInv, MainTypeOK
<1>2. CASE Start
  <2>1. /\ pc = "start" /\ i < contexts /\ pc' \in {"start", "bind"} /\ UNCHANGED <<contexts, run, value, channel>>
        /\ pc' = (IF method = "socket" THEN "bind" ELSE "start")
        /\ i' = (IF method = "socket" THEN i ELSE i + 1)
    BY <1>2 DEF Start
  <2>2. i' \in 0 .. MULTITHREAD /\ (pc' = "bind" => i' < contexts)
    BY <2>1, MainAssumption DEF BlocksIInv, MainTypeOK
  <2> QED BY <2>1, <2>2, ParallelBlocks DEF BlocksIInv, MainTypeOK
<1>3. CASE Bind
  <2>1. /\ pc = "bind" /\ pc' = "start" /\ i < contexts /\ i' = i + 1 /\ UNCHANGED <<contexts, run, value>>
        /\ channel' = [channel EXCEPT ![i] = IF @ = "closed" THEN "empty" ELSE @]
    BY <1>3 DEF Bind, BlocksIInv
  <2>2. i' \in 0 .. MULTITHREAD
    BY <2>1, MainAssumption DEF BlocksIInv, MainTypeOK
  <2>3. channel' \in [Contexts -> {"left", "closed", "empty", "dropped", "own"}]
    BY <2>1 DEF BlocksIInv, MainTypeOK
  <2> QED BY <2>1, <2>2, <2>3, ParallelBlocks DEF BlocksIInv, MainTypeOK
<1>4. CASE AllStarted
  <2>1. /\ pc = "start" /\ pc' = "stop" /\ i' = 0 /\ UNCHANGED <<contexts, run, value, channel>>
    BY <1>4 DEF AllStarted
  <2>2. i' \in 0 .. MULTITHREAD
    BY <2>1, MainAssumption
  <2> QED BY <2>1, <2>2, ParallelBlocks DEF BlocksIInv, MainTypeOK
<1>5. CASE Report
  <2>1. /\ pc = "stop" /\ pc' = "done" /\ UNCHANGED <<i, contexts, run, value, channel>>
    BY <1>5 DEF Report
  <2> QED BY <2>1, ParallelBlocks DEF BlocksIInv, MainTypeOK
<1>6. ASSUME NEW c \in Contexts, Suspend(c) \/ Resume(c) PROVE BlocksIInv'
  <2>1. UNCHANGED <<pc, i, contexts, run, value, channel>> /\ child[c] \in {"running", "suspended"}
    BY <1>6 DEF Suspend, Resume
  <2>2. pc \notin {"portable_init", "seeds"}
    BY <2>1 DEF RunIInv, StartedOnce, Begun
  <2> QED BY <2>1, <2>2, ParallelBlocks DEF BlocksIInv, MainTypeOK
<1>7. CASE UNCHANGED mainVars
  BY <1>7 DEF mainVars, BlocksIInv, MainTypeOK
<1> QED
  BY <1>1, <1>2, <1>3, <1>4, <1>5, <1>6, <1>7, SeedsBlocks, CalibrateBlocks, StopBlocks, FinishBlocks
     DEF MainNext

(* Whatever sizes and algorithms the command line asks for, no kernel       *)
(* writes outside its own block, as long as a share has room to align its   *)
(* matrices (core_main.c:165-190, core_matrix.c:172-197).                   *)
THEOREM BlocksApart == MainSpec => []BlocksDisjoint
<1>1. BlocksIInv => BlocksDisjoint
  <2> SUFFICES ASSUME BlocksIInv, pc \notin {"portable_init", "seeds"},
                      run.execs # {} => RoomToAlign(run.size),
                      NEW a \in run.execs, NEW b \in run.execs
               PROVE  /\ BlockOf(a).to <= run.size * Cardinality(run.execs)
                      /\ a # b => BlockOf(a).to <= BlockOf(b).from \/ BlockOf(b).to <= BlockOf(a).from
    BY DEF BlocksIInv, BlocksDisjoint
  <2>1. run.execs \in SUBSET Executed /\ run.size \in Nat /\ RoomToAlign(run.size)
    BY DEF BlocksIInv, RoomToAlign
  <2> QED BY <2>1, SharesApart
<1> QED BY RunInit, RunNext, BlocksInit, BlocksNext, <1>1, PTL DEF MainSpec

=============================================================================
