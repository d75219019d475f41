--------------------------- MODULE ProgramProofs ----------------------------
(***************************************************************************)
(* The barrier of riscv-baremetal/util.h keeps its promise for every       *)
(* finite set of threads and every number of calls; comp3.c is right for   *)
(* every buffer of notifications and every number of them looked at.       *)
(***************************************************************************)
EXTENDS SpinBarrier, RiskProgram, FiniteSetTheorems, SequenceTheorems, TLAPS

-----------------------------------------------------------------------------
(* Counting and parity.                                                     *)

LEMMA Count ==
  ASSUME NEW S \in SUBSET Threads
  PROVE  /\ IsFiniteSet(S)
         /\ Cardinality(S) \in 0 .. ncores
         /\ Cardinality(S) = ncores <=> S = Threads
         /\ ncores \in Nat \ {0}
<1>1. IsFiniteSet(S) /\ Cardinality(S) <= ncores /\ (ncores = Cardinality(S) => S = Threads)
  BY BarrierAssumption, FS_Subset DEF ncores
<1>2. Cardinality(S) \in Nat /\ ncores \in Nat
  BY <1>1, BarrierAssumption, FS_CardinalityType DEF ncores
<1>3. ncores # 0
  BY BarrierAssumption, FS_EmptySet DEF ncores
<1> QED BY <1>1, <1>2, <1>3 DEF ncores

LEMMA NoOne == Cardinality({}) = 0
BY FS_EmptySet

LEMMA OneMore ==
  ASSUME NEW S \in SUBSET Threads, NEW t \in Threads, t \notin S
  PROVE  Cardinality(S \union {t}) = Cardinality(S) + 1
BY Count, FS_AddElement

LEMMA Alternate ==
  ASSUME NEW n \in Nat
  PROVE  n % 2 \in {0, 1} /\ (n + 1) % 2 = 1 - (n % 2)
OBVIOUS

-----------------------------------------------------------------------------
(* The invariant, one lemma per statement of the barrier.                   *)

LEMMA InvInit == BarrierInit => BarrierInv
<1> SUFFICES ASSUME BarrierInit PROVE BarrierInv
  OBVIOUS
<1>1. ncores \in Nat \ {0}
  BY Count
<1>2. Here = {}
  BY DEF BarrierInit, Here
<1>3. BarrierTypeOK
  BY <1>1 DEF BarrierInit, BarrierTypeOK
<1>4. Parity /\ OneLast /\ \A t \in Threads : Placed(t)
  BY DEF BarrierInit, Parity, OneLast, Placed, LastOne
<1>5. Counted
  BY <1>2, NoOne, BarrierAssumption DEF BarrierInit, Counted, LastOne
<1> QED BY <1>3, <1>4, <1>5 DEF BarrierInv

(* While someone is still to be counted no one is the last.                 *)
LEMMA Gathering ==
  ASSUME BarrierInv, NEW t \in Threads, at[t] \in {"outside", "add"}
  PROVE  /\ t \notin Here
         /\ \A u \in Threads : ~LastOne(u)
         /\ count = Cardinality(Here)
<1>1. arrived[t] = round /\ round \in Nat
  BY DEF BarrierInv, BarrierTypeOK, Placed
<1>2. t \notin Here
  BY <1>1 DEF Here
<1>3. \A u \in Threads : ~LastOne(u)
  BY <1>2 DEF BarrierInv, Counted
<1>4. ~\E u \in Threads : at[u] = "flip"
  BY <1>3 DEF LastOne
<1> QED BY <1>2, <1>3, <1>4 DEF BarrierInv, Counted

(* When there is a last thread all the others spin.                         *)
LEMMA Gathered ==
  ASSUME BarrierInv, NEW t \in Threads, LastOne(t)
  PROVE  /\ \A u \in Threads : arrived[u] = round + 1
         /\ \A u \in Threads \ {t} : at[u] = "spin"
<1>1. Here = Threads
  BY DEF BarrierInv, Counted
<1>2. \A u \in Threads : arrived[u] = round + 1
  BY <1>1 DEF Here
<1>3. ASSUME NEW u \in Threads \ {t} PROVE at[u] = "spin"
  <2>1. ~LastOne(u)
    BY <1>3 DEF BarrierInv, OneLast
  <2>2. arrived[u] # round
    BY <1>2 DEF BarrierInv, BarrierTypeOK
  <2>3. at[u] \in {"outside", "add", "reset", "flip", "spin"}
    BY DEF BarrierInv, BarrierTypeOK
  <2> QED BY <2>1, <2>2, <2>3 DEF BarrierInv, Placed, LastOne
<1> QED BY <1>2, <1>3

LEMMA InvEnter ==
  ASSUME BarrierInv, NEW t \in Threads, Enter(t)
  PROVE  BarrierInv'
<1>1. /\ at[t] = "outside"
      /\ at' = [at EXCEPT ![t] = "add"]
      /\ threadsense' = [threadsense EXCEPT ![t] = 1 - @]
      /\ UNCHANGED <<sense, count, arrived, left, round>>
  BY DEF Enter, Go, shared, history
<1>2. BarrierTypeOK'
  BY <1>1 DEF BarrierInv, BarrierTypeOK
<1>3. \A u \in Threads : Placed(u)'
  BY <1>1 DEF BarrierInv, BarrierTypeOK, Placed, LastOne
<1>4. Parity'
  <2>1. threadsense'[t] = 1 - (arrived[t] % 2) /\ arrived[t] = round
    BY <1>1 DEF BarrierInv, BarrierTypeOK, Parity, Placed
  <2>2. threadsense'[t] = (round' + 1) % 2 /\ at'[t] = "add"
    BY <1>1, <2>1, Alternate DEF BarrierInv, BarrierTypeOK
  <2>3. \A u \in Threads \ {t} : threadsense'[u] = threadsense[u] /\ at'[u] = at[u]
    BY <1>1 DEF BarrierInv, BarrierTypeOK
  <2> QED BY <1>1, <2>2, <2>3 DEF BarrierInv, Parity
<1>5. \A u \in Threads : (LastOne(u)' <=> LastOne(u)) /\ (at'[u] = "flip" <=> at[u] = "flip")
  BY <1>1 DEF BarrierInv, BarrierTypeOK, LastOne
<1>6. Counted' /\ OneLast'
  BY <1>1, <1>5 DEF BarrierInv, Counted, OneLast, Here
<1> QED BY <1>2, <1>3, <1>4, <1>6 DEF BarrierInv

LEMMA InvAdd ==
  ASSUME BarrierInv, NEW t \in Threads, Add(t)
  PROVE  BarrierInv'
<1> DEFINE next == IF count = ncores - 1 THEN "reset" ELSE "spin"
<1>1. /\ at[t] = "add"
      /\ at' = [at EXCEPT ![t] = next]
      /\ count' = count + 1
      /\ arrived' = [arrived EXCEPT ![t] = @ + 1]
      /\ UNCHANGED <<sense, threadsense, left, round>>
  BY DEF Add, Go
<1>2. /\ t \notin Here
      /\ \A u \in Threads : ~LastOne(u)
      /\ count = Cardinality(Here)
  BY <1>1, Gathering
<1>3. arrived[t] = round /\ left[t] = round /\ round \in Nat
  BY <1>1 DEF BarrierInv, BarrierTypeOK, Placed
<1>4. Here' = Here \union {t}
  BY <1>1, <1>3 DEF BarrierInv, BarrierTypeOK, Here
<1>5. Here \in SUBSET Threads /\ Here' \in SUBSET Threads
  BY DEF Here
<1>6. count' = Cardinality(Here')
  BY <1>1, <1>2, <1>4, <1>5, OneMore
<1>7. count \in Nat /\ count' \in 0 .. ncores /\ (count' = ncores <=> Here' = Threads)
      /\ ncores \in Nat
  BY <1>2, <1>5, <1>6, Count
<1>8. at'[t] = next /\ (next = "reset" <=> Here' = Threads)
  BY <1>1, <1>7 DEF BarrierInv, BarrierTypeOK
<1>9. \A u \in Threads \ {t} : at'[u] = at[u] /\ arrived'[u] = arrived[u]
  BY <1>1 DEF BarrierInv, BarrierTypeOK
<1>10. arrived'[t] = round + 1
  BY <1>1, <1>3 DEF BarrierInv, BarrierTypeOK
<1>11. BarrierTypeOK'
  BY <1>1, <1>7 DEF BarrierInv, BarrierTypeOK
<1>12. ASSUME NEW u \in Threads PROVE Placed(u)'
  BY <1>1, <1>3, <1>8, <1>9, <1>10 DEF BarrierInv, Placed, LastOne
<1>13. Parity'
  <2>1. threadsense'[t] = arrived'[t] % 2
    BY <1>1, <1>10 DEF BarrierInv, Parity
  <2> QED BY <1>1, <1>8, <1>9, <2>1 DEF BarrierInv, Parity
<1>14. \A u \in Threads \ {t} : ~LastOne(u)'
  BY <1>2, <1>9 DEF LastOne
<1>15. LastOne(t)' <=> Here' = Threads
  BY <1>8 DEF LastOne
<1>16. ~\E u \in Threads : at'[u] = "flip"
  BY <1>8, <1>14 DEF LastOne
<1>17. Counted' /\ OneLast'
  BY <1>6, <1>14, <1>15, <1>16 DEF Counted, OneLast
<1> QED BY <1>11, <1>12, <1>13, <1>17 DEF BarrierInv

LEMMA InvReset ==
  ASSUME BarrierInv, NEW t \in Threads, Reset(t)
  PROVE  BarrierInv'
<1>1. /\ at[t] = "reset"
      /\ at' = [at EXCEPT ![t] = "flip"]
      /\ count' = 0
      /\ UNCHANGED <<sense, threadsense, arrived, left, round>>
  BY DEF Reset, Go, history
<1>2. BarrierTypeOK'
  BY <1>1, Count DEF BarrierInv, BarrierTypeOK
<1>3. at'[t] = "flip" /\ \A u \in Threads : LastOne(u)' <=> LastOne(u)
  BY <1>1 DEF BarrierInv, BarrierTypeOK, LastOne
<1>4. \A u \in Threads : Placed(u)'
  BY <1>1 DEF BarrierInv, BarrierTypeOK, Placed, LastOne
<1>5. Parity'
  BY <1>1 DEF BarrierInv, BarrierTypeOK, Parity
<1>6. Counted' /\ OneLast'
  BY <1>1, <1>3 DEF BarrierInv, Counted, OneLast, Here
<1> QED BY <1>2, <1>4, <1>5, <1>6 DEF BarrierInv

LEMMA InvFlip ==
  ASSUME BarrierInv, NEW t \in Threads, FlipSense(t)
  PROVE  BarrierInv'
<1>1. /\ at[t] = "flip"
      /\ at' = [at EXCEPT ![t] = "outside"]
      /\ sense' = threadsense[t]
      /\ round' = round + 1
      /\ left' = [left EXCEPT ![t] = @ + 1]
      /\ UNCHANGED <<count, threadsense, arrived>>
  BY DEF FlipSense, Go
<1>2. LastOne(t)
  BY <1>1 DEF LastOne
<1>3. /\ \A u \in Threads : arrived[u] = round + 1
      /\ \A u \in Threads \ {t} : at[u] = "spin"
  BY <1>2, Gathered
<1>4. left[t] = round /\ round \in Nat
  BY <1>2 DEF BarrierInv, BarrierTypeOK, Placed
<1>5. BarrierTypeOK'
  BY <1>1, <1>4 DEF BarrierInv, BarrierTypeOK
<1>6. at'[t] = "outside" /\ \A u \in Threads \ {t} : at'[u] = "spin" /\ left'[u] = left[u]
  BY <1>1, <1>3 DEF BarrierInv, BarrierTypeOK
<1>7. left'[t] = round'
  BY <1>1, <1>4 DEF BarrierInv, BarrierTypeOK
<1>8. ASSUME NEW u \in Threads PROVE Placed(u)'
  BY <1>1, <1>3, <1>6, <1>7 DEF BarrierInv, Placed, LastOne
<1>9. Parity'
  <2>1. threadsense[t] = arrived[t] % 2
    BY <1>1 DEF BarrierInv, Parity
  <2>2. sense' = round' % 2
    BY <1>1, <1>3, <2>1
  <2>3. \A u \in Threads : threadsense'[u] = arrived'[u] % 2
    BY <1>1, <1>3, <2>1 DEF BarrierInv, Parity
  <2> QED BY <2>2, <2>3, <1>6 DEF Parity
<1>10. Here' = {}
  BY <1>1, <1>3, <1>4 DEF Here
<1>11. \A u \in Threads : ~LastOne(u)' /\ at'[u] # "flip"
  BY <1>6 DEF LastOne
<1>12. count' = 0
  BY <1>1 DEF BarrierInv, Counted
<1>13. Counted' /\ OneLast'
  BY <1>10, <1>11, <1>12, NoOne, BarrierAssumption DEF Counted, OneLast
<1> QED BY <1>5, <1>8, <1>9, <1>13 DEF BarrierInv

(* A thread that finds its sense flipped spins from an earlier round.       *)
LEMMA PassesLate ==
  ASSUME BarrierInv, NEW t \in Threads, Pass(t)
  PROVE  arrived[t] = round /\ left[t] + 1 = round /\ round \in Nat
<1>1. at[t] = "spin" /\ sense = threadsense[t]
  BY DEF Pass, Go
<1>2. round % 2 = arrived[t] % 2
  BY <1>1 DEF BarrierInv, Parity
<1>3. round \in Nat /\ arrived[t] \in {round, round + 1} /\ left[t] + 1 = arrived[t]
  BY <1>1 DEF BarrierInv, BarrierTypeOK, Placed
<1>4. arrived[t] # round + 1
  BY <1>2, <1>3, Alternate
<1> QED BY <1>3, <1>4

LEMMA InvPass ==
  ASSUME BarrierInv, NEW t \in Threads, Pass(t)
  PROVE  BarrierInv'
<1>1. /\ at[t] = "spin"
      /\ at' = [at EXCEPT ![t] = "outside"]
      /\ left' = [left EXCEPT ![t] = @ + 1]
      /\ UNCHANGED <<sense, count, threadsense, arrived, round>>
  BY DEF Pass, Go, shared
<1>2. arrived[t] = round /\ left[t] + 1 = round /\ round \in Nat
  BY PassesLate
<1>3. BarrierTypeOK'
  BY <1>1 DEF BarrierInv, BarrierTypeOK
<1>4. \A u \in Threads : Placed(u)'
  BY <1>1, <1>2 DEF BarrierInv, BarrierTypeOK, Placed, LastOne
<1>5. Parity'
  BY <1>1 DEF BarrierInv, BarrierTypeOK, Parity
<1>6. \A u \in Threads : (LastOne(u)' <=> LastOne(u)) /\ (at'[u] = "flip" <=> at[u] = "flip")
  BY <1>1 DEF BarrierInv, BarrierTypeOK, LastOne
<1>7. Counted' /\ OneLast'
  BY <1>1, <1>6 DEF BarrierInv, Counted, OneLast, Here
<1> QED BY <1>3, <1>4, <1>5, <1>7 DEF BarrierInv

(* The inductive invariant: the counter is the number of threads that have  *)
(* arrived in this round, the senses are the parities of the rounds, and    *)
(* only one thread is the last of a round (util.h:45-63).                   *)
THEOREM BarrierInvariance == BarrierSpec => []BarrierInv
<1>1. BarrierInv /\ [BarrierNext]_barrierVars => BarrierInv'
  <2> SUFFICES ASSUME BarrierInv, [BarrierNext]_barrierVars PROVE BarrierInv'
    OBVIOUS
  <2>1. CASE UNCHANGED barrierVars
    BY <2>1 DEF barrierVars, BarrierInv, BarrierTypeOK, Placed, LastOne, Parity, Counted,
                OneLast, Here
  <2>2. ASSUME NEW t \in Threads, Step(t) PROVE BarrierInv'
    BY <2>2, InvEnter, InvAdd, InvReset, InvFlip, InvPass DEF Step
  <2> QED BY <2>1, <2>2 DEF BarrierNext
<1> QED BY InvInit, <1>1, PTL DEF BarrierSpec

(* Counter and senses keep to their ranges, whatever the number of threads. *)
THEOREM BarrierTyped == BarrierSpec => []BarrierTypeOK
<1>1. BarrierInv => BarrierTypeOK
  BY DEF BarrierInv
<1> QED BY <1>1, BarrierInvariance, PTL

-----------------------------------------------------------------------------
(* The refinement.                                                          *)

LEMMA StepPromised ==
  ASSUME BarrierInv, NEW t \in Threads, Step(t)
  PROVE  Promise!RendezvousNext \/ UNCHANGED <<arrived, left>>
<1>1. CASE Enter(t) \/ Reset(t)
  BY <1>1 DEF Enter, Reset, history
<1>2. CASE Add(t)
  <2>1. arrived[t] = left[t]
    BY <1>2 DEF Add, Go, BarrierInv, Placed
  <2> QED BY <1>2, <2>1 DEF Add, Promise!RendezvousNext, Promise!Arrive
<1>3. CASE FlipSense(t)
  <2>1. LastOne(t) /\ left' = [left EXCEPT ![t] = @ + 1] /\ UNCHANGED arrived
    BY <1>3 DEF FlipSense, Go, LastOne
  <2>2. \A u \in Threads : arrived[u] = round + 1
    BY <2>1, Gathered
  <2>3. left[t] = round /\ round \in Nat
    BY <2>1 DEF BarrierInv, BarrierTypeOK, Placed
  <2>4. left[t] + 1 = arrived[t] /\ left[t] < arrived[t]
    BY <2>2, <2>3
  <2>5. \A u \in Threads : arrived[u] >= arrived[t]
    BY <2>2, <2>3
  <2>6. Promise!Leave(t)
    BY <2>1, <2>4, <2>5 DEF Promise!Leave
  <2> QED BY <2>6 DEF Promise!RendezvousNext
<1>4. CASE Pass(t)
  <2>1. arrived[t] = round /\ left[t] + 1 = round /\ round \in Nat /\ left[t] \in Nat
    BY <1>4, PassesLate DEF BarrierInv, BarrierTypeOK
  <2>2. ASSUME NEW u \in Threads PROVE arrived[u] >= round
    BY <2>1 DEF BarrierInv, BarrierTypeOK, Placed, LastOne
  <2>3. left' = [left EXCEPT ![t] = @ + 1] /\ UNCHANGED arrived
    BY <1>4 DEF Pass
  <2>4. left[t] + 1 = arrived[t] /\ left[t] < arrived[t]
    BY <2>1
  <2>5. Promise!Leave(t)
    BY <2>1, <2>2, <2>3, <2>4 DEF Promise!Leave
  <2> QED BY <2>5 DEF Promise!RendezvousNext
<1> QED BY <1>1, <1>2, <1>3, <1>4 DEF Step

(* A thread leaves its k-th call only when all have made their k-th: the    *)
(* barrier can be reused at once, by any number of threads (util.h:45-63).  *)
THEOREM BarrierRefinement == BarrierSpec => ImplementsRendezvous
<1>1. BarrierInit => Promise!RendezvousInit
  BY DEF BarrierInit, Promise!RendezvousInit
<1>2. BarrierInv /\ [BarrierNext]_barrierVars
        => [Promise!RendezvousNext]_(Promise!rendezvousVars)
  BY StepPromised DEF BarrierNext, barrierVars, Promise!rendezvousVars
<1> QED BY <1>1, <1>2, BarrierInvariance, PTL
        DEF BarrierSpec, ImplementsRendezvous, Promise!RendezvousSpec

-----------------------------------------------------------------------------
(* comp3.c.                                                                 *)

Handled == [at : Nat, trade : exec_notification]

RiskTyped ==
  /\ handled \in Seq(Handled)
  /\ message_start \in Nat
  /\ old_message_id \in Nat
  /\ risk_status \in {"running", "good", "bad"}

(* old_message_id is the running maximum: nothing of interest is above it,  *)
(* and something is at it as soon as there was anything.                    *)
RunningMaximum ==
  /\ \A k \in 1 .. Len(handled) :
       OfInterest(handled[k].trade) => handled[k].trade.message_id <= old_message_id
  /\ old_message_id = 0 \/ \E k \in 1 .. Len(handled) :
       OfInterest(handled[k].trade) /\ handled[k].trade.message_id = old_message_id

Forwards == \A k \in 1 .. Len(handled) : handled[k].at < message_start

OverLimit(t) == t.price - t.strike > Limit(t) \/ t.strike - t.price > Limit(t)

RiskIInv == RiskTyped /\ RunningMaximum /\ Forwards /\ StatusRight

-----------------------------------------------------------------------------

(* The shifts, the doubling and the rebate amount to a limit on the         *)
(* distance from the strike.                                                *)
LEMMA RiskIsDistance ==
  ASSUME NEW t \in exec_notification
  PROVE  Risk(t) > RISK_THRESHOLD <=> OverLimit(t)
<1> DEFINE vol == Distance(t.price, t.strike)
<1>1. t.price \in Nat /\ t.strike \in Nat /\ t.expiration \in Nat
  BY RiskAssumption
<1>2. /\ vol \in Nat
      /\ \A n \in Nat : vol > n <=> t.price - t.strike > n \/ t.strike - t.price > n
  BY <1>1 DEF Distance
<1> HIDE DEF vol
<1>3. CASE t.expiration > 10
  <2>1. Risk(t) = IF t.liquidity = "maker" THEN 2 * (4 * vol) - 2 ELSE 2 * (4 * vol)
    BY <1>3 DEF Risk, FarOff, vol
  <2>2. Risk(t) > 100 <=> vol > 12
    BY <1>2, <2>1
  <2> QED BY <1>2, <1>3, <2>2 DEF OverLimit, Limit, RISK_THRESHOLD
<1>4. CASE ~(t.expiration > 10)
  <2>1. Risk(t) = IF t.liquidity = "maker" THEN 4 * vol - 2 ELSE 4 * vol
    BY <1>4 DEF Risk, FarOff, vol
  <2>2. Risk(t) > 100 <=> vol > 25
    BY <1>2, <2>1
  <2> QED BY <1>2, <1>4, <2>2 DEF OverLimit, Limit, RISK_THRESHOLD
<1> QED BY <1>3, <1>4

(* What one more notification does to what is handled and accepted.         *)
LEMMA OneMoreHandled ==
  ASSUME RiskTyped, NEW trade \in exec_notification,
         handled' = Append(handled, [at |-> message_start, trade |-> trade])
  PROVE  /\ handled' \in Seq(Handled)
         /\ Len(handled') = Len(handled) + 1
         /\ \A k \in 1 .. Len(handled) : handled'[k] = handled[k]
         /\ handled'[Len(handled) + 1] = [at |-> message_start, trade |-> trade]
<1>1. [at |-> message_start, trade |-> trade] \in Handled
  BY DEF RiskTyped, Handled
<1> QED BY <1>1 DEF RiskTyped

LEMMA HandledNumbers ==
  ASSUME RiskTyped
  PROVE  \A j \in 1 .. Len(handled) :
           handled[j].at \in Nat /\ handled[j].trade.message_id \in Nat
<1> SUFFICES ASSUME NEW j \in 1 .. Len(handled)
             PROVE  handled[j].at \in Nat /\ handled[j].trade.message_id \in Nat
  OBVIOUS
<1>1. handled[j] \in Handled
  BY DEF RiskTyped
<1>2. handled[j].at \in Nat /\ handled[j].trade \in exec_notification
  BY <1>1 DEF Handled
<1> QED BY <1>2, RiskAssumption

(* The running maximum decides whether a notification counts.               *)
LEMMA SeenIsBehind ==
  ASSUME RiskTyped, RunningMaximum, NEW trade \in exec_notification
  PROVE  ~Ignored(trade) <=>
           /\ OfInterest(trade)
           /\ \A j \in 1 .. Len(handled) :
                OfInterest(handled[j].trade) => handled[j].trade.message_id < trade.message_id
<1>1. trade.message_id \in Nat /\ trade.message_id > 0 /\ old_message_id \in Nat
  BY RiskAssumption DEF RiskTyped
<1>2. \A j \in 1 .. Len(handled) : handled[j].trade.message_id \in Nat
  BY HandledNumbers
<1>3. ~Ignored(trade) <=> OfInterest(trade) /\ ~(trade.message_id <= old_message_id)
  BY Zenon DEF Ignored, OfInterest, Seen
<1>4. ~(trade.message_id <= old_message_id) <=>
        \A j \in 1 .. Len(handled) :
          OfInterest(handled[j].trade) => handled[j].trade.message_id < trade.message_id
  <2>1. CASE old_message_id = 0
    BY <1>1, <1>2, <2>1 DEF RunningMaximum
  <2>2. ASSUME NEW k \in 1 .. Len(handled), OfInterest(handled[k].trade),
               handled[k].trade.message_id = old_message_id
        PROVE  ~(trade.message_id <= old_message_id) <=>
                 \A j \in 1 .. Len(handled) :
                   OfInterest(handled[j].trade) => handled[j].trade.message_id < trade.message_id
    BY <1>1, <1>2, <2>2 DEF RunningMaximum
  <2> QED BY <2>1, <2>2 DEF RunningMaximum
<1> QED BY <1>3, <1>4

LEMMA AcceptedGrows ==
  ASSUME RiskTyped, RunningMaximum, NEW trade \in exec_notification,
         handled' = Append(handled, [at |-> message_start, trade |-> trade])
  PROVE  \A k \in 1 .. Len(handled) + 1 :
           k \in Accepted' <=> IF k \in 1 .. Len(handled) THEN k \in Accepted ELSE ~Ignored(trade)
<1>1. Len(handled) \in Nat /\ DOMAIN handled = 1 .. Len(handled)
  BY DEF RiskTyped
<1>2. DOMAIN handled' = 1 .. Len(handled) + 1
  BY <1>1, OneMoreHandled
<1>3. ASSUME NEW k \in 1 .. Len(handled) PROVE k \in Accepted' <=> k \in Accepted
  <2>1. handled'[k] = handled[k] /\ \A j \in 1 .. k - 1 : handled'[j] = handled[j]
    BY <1>1, OneMoreHandled
  <2> QED BY <1>1, <1>2, <2>1 DEF Accepted, OfInterest
<1>4. Len(handled) + 1 \in Accepted' <=> ~Ignored(trade)
  <2> DEFINE n == Len(handled) + 1
  <2>1. handled'[n].trade = trade /\ \A j \in 1 .. n - 1 : handled'[j] = handled[j]
    BY <1>1, OneMoreHandled
  <2>2. n \in DOMAIN handled' /\ 1 .. n - 1 = 1 .. Len(handled)
    BY <1>1, <1>2
  <2> HIDE DEF n
  <2>3. n \in Accepted' <=>
          /\ OfInterest(trade)
          /\ \A j \in 1 .. n - 1 : OfInterest(handled[j].trade) => handled[j].trade.message_id < trade.message_id
    BY <2>1, <2>2 DEF Accepted, OfInterest
  <2>4. n \in Accepted' <=> ~Ignored(trade)
    BY <2>2, <2>3, SeenIsBehind, Zenon
  <2> QED BY <2>4 DEF n
<1> QED BY <1>1, <1>3, <1>4

-----------------------------------------------------------------------------

LEMMA RiskInitIInv == RiskInit => RiskIInv
<1> SUFFICES ASSUME RiskInit PROVE RiskIInv
  OBVIOUS
<1>1. handled = <<>> /\ Len(handled) = 0 /\ 1 .. 0 = {} /\ risk_status = "running"
  BY DEF RiskInit
<1>2. RiskTyped
  BY <1>1 DEF RiskInit, RiskTyped
<1>3. RunningMaximum /\ Forwards
  BY <1>1 DEF RiskInit, RunningMaximum, Forwards
<1>4. Accepted = {}
  BY <1>1 DEF Accepted
<1>5. StatusRight
  BY <1>1, <1>4 DEF StatusRight
<1> QED BY <1>2, <1>3, <1>5 DEF RiskIInv

LEMMA HandleStep ==
  ASSUME RiskIInv, NEW trade \in exec_notification, Handle(trade)
  PROVE  RiskIInv'
<1> DEFINE n == Len(handled)
<1> USE DEF RiskIInv
<1>1. handled' = Append(handled, [at |-> message_start, trade |-> trade])
  BY DEF Handle
<1>2. /\ n \in Nat /\ handled' \in Seq(Handled) /\ Len(handled') = n + 1
      /\ \A k \in 1 .. n : handled'[k] = handled[k]
      /\ handled'[n + 1] = [at |-> message_start, trade |-> trade]
  BY <1>1, OneMoreHandled DEF RiskTyped
<1>3. \A k \in 1 .. n + 1 : k \in 1 .. n \/ k = n + 1
  BY <1>2
<1>4. message_start' \in Nat /\ message_start' > message_start
  BY RiskAssumption DEF Handle, RiskTyped
<1>5. old_message_id' = IF Ignored(trade) THEN old_message_id ELSE trade.message_id
  BY DEF Handle, process_execution, counts
<1>6. trade.message_id \in Nat
  BY RiskAssumption
<1>7. risk_status' = IF ~Ignored(trade) /\ OverLimit(trade) THEN "bad" ELSE risk_status
  BY RiskIsDistance DEF Handle, Alarm
<1>8. RiskTyped'
  BY <1>2, <1>4, <1>5, <1>6, <1>7 DEF RiskTyped
<1>9. RunningMaximum'
  <2>1. CASE Ignored(trade)
    <3>1. OfInterest(trade) => trade.message_id <= old_message_id
      BY <2>1 DEF Ignored, OfInterest, Seen
    <3> QED BY <1>2, <1>3, <1>5, <2>1, <3>1 DEF RunningMaximum, OfInterest
  <2>2. CASE ~Ignored(trade)
    <3>1. OfInterest(trade) /\ old_message_id' = trade.message_id
      BY <1>5, <2>2, SeenIsBehind
    <3>2. \A j \in 1 .. n : OfInterest(handled[j].trade) => handled[j].trade.message_id < trade.message_id
      BY <2>2, SeenIsBehind
    <3>3. \A j \in 1 .. n : handled[j].trade.message_id \in Nat
      BY HandledNumbers
    <3>4. \A k \in 1 .. n + 1 :
            OfInterest(handled'[k].trade) => handled'[k].trade.message_id <= trade.message_id
      BY <1>2, <1>3, <1>6, <3>2, <3>3
    <3>5. n + 1 \in 1 .. n + 1
      BY <1>2
    <3> QED BY <1>2, <3>1, <3>4, <3>5 DEF RunningMaximum, OfInterest
  <2> QED BY <2>1, <2>2
<1>10. Forwards'
  <2>1. message_start \in Nat /\ \A k \in 1 .. n : handled[k].at \in Nat /\ handled[k].at < message_start
    BY HandledNumbers DEF Forwards, RiskTyped
  <2>2. \A k \in 1 .. n + 1 : handled'[k].at < message_start'
    BY <1>2, <1>3, <1>4, <2>1
  <2> QED BY <1>2, <2>2 DEF Forwards
<1>11. StatusRight'
  <2>1. \A k \in 1 .. n + 1 : k \in Accepted' <=> IF k \in 1 .. n THEN k \in Accepted ELSE ~Ignored(trade)
    BY <1>1, AcceptedGrows
  <2>2. Accepted \subseteq 1 .. n /\ Accepted' \subseteq 1 .. n + 1
    BY <1>2 DEF Accepted, RiskTyped
  <2>3. (\E k \in Accepted' : OverLimit(handled'[k].trade))
          <=> (\E k \in Accepted : OverLimit(handled[k].trade)) \/ (~Ignored(trade) /\ OverLimit(trade))
    <3>1. ASSUME NEW k \in Accepted, OverLimit(handled[k].trade)
          PROVE  \E j \in Accepted' : OverLimit(handled'[j].trade)
      <4>1. k \in 1 .. n /\ k \in Accepted' /\ handled'[k] = handled[k]
        BY <1>2, <2>1, <2>2
      <4> QED BY <3>1, <4>1
    <3>2. ASSUME ~Ignored(trade), OverLimit(trade)
          PROVE  \E j \in Accepted' : OverLimit(handled'[j].trade)
      <4>1. n + 1 \in 1 .. n + 1 /\ n + 1 \notin 1 .. n
        BY <1>2
      <4>2. n + 1 \in Accepted' /\ handled'[n + 1].trade = trade
        BY <1>2, <2>1, <3>2, <4>1
      <4> QED BY <3>2, <4>2
    <3>3. ASSUME NEW k \in Accepted', OverLimit(handled'[k].trade)
          PROVE  \/ k \in Accepted /\ OverLimit(handled[k].trade)
                 \/ ~Ignored(trade) /\ OverLimit(trade)
      <4>1. CASE k \in 1 .. n
        BY <1>2, <2>1, <2>2, <3>3, <4>1
      <4>2. CASE k = n + 1
        <5>1. k \notin 1 .. n /\ k \in 1 .. n + 1
          BY <1>2, <4>2
        <5> QED BY <1>2, <2>1, <3>3, <4>2, <5>1
      <4> QED BY <1>3, <2>2, <4>1, <4>2
    <3> QED BY <3>1, <3>2, <3>3
  <2>4. risk_status = "bad" <=> \E k \in Accepted : OverLimit(handled[k].trade)
    BY DEF StatusRight, OverLimit
  <2>5. risk_status' = "bad" <=> \E k \in Accepted' : OverLimit(handled'[k].trade)
    BY <1>7, <2>3, <2>4, Zenon
  <2>6. risk_status' # "good"
    <3>1. n < check_every + check_stride
      BY DEF Handle
    <3>2. risk_status # "good"
      BY <1>2, <3>1, RiskAssumption DEF StatusRight
    <3> QED BY <1>7, <3>2
  <2>7. \A k \in 1 .. n : handled'[k].at < handled'[k + 1].at
    <3>1. ASSUME NEW k \in 1 .. n - 1 PROVE handled'[k].at < handled'[k + 1].at
      <4>1. k \in 1 .. n /\ k + 1 \in 1 .. n
        BY <1>2
      <4> QED BY <1>2, <4>1 DEF StatusRight
    <3>2. ASSUME NEW k \in 1 .. n, k = n PROVE handled'[k].at < handled'[k + 1].at
      BY <1>2, <3>2 DEF Forwards
    <3> QED BY <1>2, <3>1, <3>2
  <2>8. 1 .. Len(handled') - 1 = 1 .. n
    BY <1>2
  <2> QED BY <2>5, <2>6, <2>7, <2>8, Zenon DEF StatusRight, OverLimit, Limit
<1> QED BY <1>8, <1>9, <1>10, <1>11

LEMMA RiskNextIInv ==
  ASSUME RiskIInv, [RiskNext]_riskVars
  PROVE  RiskIInv'
<1>1. CASE UNCHANGED riskVars
  BY <1>1 DEF riskVars, RiskIInv, RiskTyped, RunningMaximum, Forwards, StatusRight, Accepted, OfInterest, Limit
<1>2. CASE Conclude
  <2>1. /\ handled' = handled /\ message_start' = message_start /\ old_message_id' = old_message_id
        /\ risk_status = "running" /\ risk_status' = "good" /\ Len(handled) = check_every + check_stride
    BY <1>2 DEF Conclude, counts
  <2>2. RiskTyped' /\ RunningMaximum' /\ Forwards'
    BY <2>1 DEF RiskIInv, RiskTyped, RunningMaximum, Forwards, OfInterest
  <2>3. Accepted' = Accepted
    BY <2>1 DEF Accepted, OfInterest
  <2>4. StatusRight'
    BY <2>1, <2>3 DEF RiskIInv, StatusRight, Limit
  <2> QED BY <2>2, <2>4 DEF RiskIInv
<1>3. ASSUME NEW trade \in exec_notification, Handle(trade) PROVE RiskIInv'
  BY <1>3, HandleStep
<1> QED BY <1>1, <1>2, <1>3 DEF RiskNext

(* Whatever notifications are in the buffer and however many are looked at, *)
(* the program ends well exactly when none that counted was further from    *)
(* its strike than the limit allows (comp3.c:675-750).                      *)
THEOREM RiskStatus == RiskSpec => []StatusRight
<1>1. RiskIInv => StatusRight
  BY DEF RiskIInv
<1> QED BY <1>1, RiskInitIInv, RiskNextIInv, PTL DEF RiskSpec
-----------------------------------------------------------------------------
(* The counters.                                                            *)

(* The single contracts of the notifications S of a sequence.               *)
Singles(h, S) == UNION {{k} \X (1 .. h[k].trade.contracts) : k \in S}

LEMMA Width16 == UINT16_MAX \in Nat
BY DEF UINT16_MAX

LEMMA SinglesFinite ==
  ASSUME NEW n \in Nat, NEW h, NEW S \in SUBSET (1 .. n),
         \A k \in 1 .. n : h[k].trade.contracts \in 0 .. UINT16_MAX
  PROVE  /\ IsFiniteSet(Singles(h, S))
         /\ Cardinality(Singles(h, S)) \in Nat
<1>1. IsFiniteSet((1 .. n) \X (1 .. UINT16_MAX))
  <2>1. IsFiniteSet(1 .. n) /\ IsFiniteSet(1 .. UINT16_MAX)
    BY Width16, FS_Interval
  <2> QED BY <2>1, FS_Product
<1>2. Singles(h, S) \subseteq (1 .. n) \X (1 .. UINT16_MAX)
  <2>1. \A k \in S : 1 .. h[k].trade.contracts \subseteq 1 .. UINT16_MAX
    <3> SUFFICES ASSUME NEW k \in S PROVE 1 .. h[k].trade.contracts \subseteq 1 .. UINT16_MAX
      OBVIOUS
    <3>1. h[k].trade.contracts \in 0 .. UINT16_MAX
      OBVIOUS
    <3> DEFINE c == h[k].trade.contracts
    <3> HIDE DEF c
    <3>2. c \in 0 .. UINT16_MAX => 1 .. c \subseteq 1 .. UINT16_MAX
      BY Width16
    <3> QED BY <3>1, <3>2 DEF c
  <2> QED BY <2>1 DEF Singles
<1> QED BY <1>1, <1>2, FS_Subset, FS_CardinalityType

(* What is added to the contracts of a set of notifications, one of which   *)
(* may be the new one.                                                      *)
LEMMA CountedMore ==
  ASSUME NEW n \in Nat, NEW h, NEW g, NEW S \in SUBSET (1 .. n), NEW T \in SUBSET (1 .. n + 1),
         \A k \in 1 .. n : h[k].trade.contracts \in 0 .. UINT16_MAX /\ g[k] = h[k],
         \A k \in 1 .. n : k \in T <=> k \in S,
         NEW c \in 0 .. UINT16_MAX, g[n + 1].trade.contracts = c
  PROVE  Cardinality(Singles(g, T)) = Cardinality(Singles(h, S)) + (IF n + 1 \in T THEN c ELSE 0)
<1> DEFINE new == {n + 1} \X (1 .. c)
<1>1. c \in Nat
  BY Width16
<1>2. Singles(g, S) = Singles(h, S)
  BY DEF Singles
<1>3. IsFiniteSet(Singles(h, S)) /\ Cardinality(Singles(h, S)) \in Nat
  BY SinglesFinite
<1>4. \A k \in 1 .. n + 1 : k \in 1 .. n \/ k = n + 1
  OBVIOUS
<1>5. CASE n + 1 \notin T
  <2>1. T = S
    BY <1>4, <1>5
  <2> QED BY <1>2, <1>3, <1>5, <2>1
<1>6. CASE n + 1 \in T
  <2>1. T = S \union {n + 1}
    BY <1>4, <1>6
  <2>2. Singles(g, T) = Singles(h, S) \union new
    BY <1>2, <2>1 DEF Singles
  <2>3. Cardinality(Singles(h, S) \cap new) = 0
    <3>1. Singles(h, S) \cap new = {}
      BY DEF Singles
    <3> QED BY <3>1, FS_EmptySet
  <2>4. IsFiniteSet(new) /\ Cardinality(new) = c
    <3>1. IsFiniteSet({n + 1}) /\ Cardinality({n + 1}) = 1
      BY FS_Singleton
    <3>2. IsFiniteSet(1 .. c) /\ Cardinality(1 .. c) = c
      BY <1>1, FS_Interval
    <3>3. /\ IsFiniteSet(new)
          /\ Cardinality(new) = Cardinality({n + 1}) * Cardinality(1 .. c)
      BY <3>1, <3>2, FS_Product, Zenon
    <3> QED BY <1>1, <3>1, <3>2, <3>3
  <2> HIDE DEF new
  <2>5. Cardinality(Singles(h, S) \union new)
          = Cardinality(Singles(h, S)) + Cardinality(new) - Cardinality(Singles(h, S) \cap new)
    BY <1>3, <2>4, FS_Union
  <2> QED BY <1>1, <1>3, <1>6, <2>2, <2>3, <2>4, <2>5
<1> QED BY <1>5, <1>6

LEMMA HandledContracts ==
  ASSUME RiskTyped
  PROVE  \A k \in 1 .. Len(handled) :
           /\ handled[k].trade.contracts \in 0 .. UINT16_MAX
           /\ handled[k].trade.side \in {"B", "S"}
<1> SUFFICES ASSUME NEW k \in 1 .. Len(handled)
             PROVE  handled[k].trade.contracts \in 0 .. UINT16_MAX /\ handled[k].trade.side \in {"B", "S"}
  OBVIOUS
<1>1. handled[k] \in Handled
  BY DEF RiskTyped
<1> QED BY <1>1, RiskAssumption DEF Handled

LEMMA CountInit == RiskInit => CountedOnce
<1> SUFFICES ASSUME RiskInit PROVE CountedOnce
  OBVIOUS
<1>1. handled = <<>> /\ contracts_processed = 0 /\ puts_count = 0 /\ calls_count = 0
  BY DEF RiskInit
<1>2. Accepted = {} /\ \A type, side : Of(type, side) = {}
  BY <1>1 DEF Accepted, Of
<1>3. Contracts({}) = 0
  BY FS_EmptySet DEF Contracts
<1>4. \A type, side : Contracts(Of(type, side)) = 0
  BY <1>2, <1>3
<1>5. contracts_processed = Contracts(Accepted)
  BY <1>1, <1>2, <1>3
<1> QED BY <1>1, <1>4, <1>5 DEF CountedOnce

LEMMA CountStep ==
  ASSUME RiskIInv, CountedOnce, NEW trade \in exec_notification, Handle(trade)
  PROVE  CountedOnce'
<1> DEFINE n == Len(handled)
           c == trade.contracts
           more(type, side) ==
             IF ~Ignored(trade) /\ trade.trade_type = type /\ trade.side = side THEN c ELSE 0
<1> USE DEF RiskIInv
<1>1. handled' = Append(handled, [at |-> message_start, trade |-> trade])
  BY DEF Handle
<1>2. /\ n \in Nat /\ Len(handled') = n + 1
      /\ \A k \in 1 .. n : handled'[k] = handled[k]
      /\ handled'[n + 1].trade = trade
  BY <1>1, OneMoreHandled DEF RiskTyped
<1>3. /\ c \in 0 .. UINT16_MAX /\ trade.side \in {"B", "S"}
      /\ \A k \in 1 .. n : handled[k].trade.contracts \in 0 .. UINT16_MAX
  BY HandledContracts, RiskAssumption
<1>4. /\ Accepted \subseteq 1 .. n /\ Accepted' \subseteq 1 .. n + 1
      /\ \A k \in 1 .. n : k \in Accepted' <=> k \in Accepted
      /\ n + 1 \in Accepted' <=> ~Ignored(trade)
  <2>1. \A k \in 1 .. n + 1 : k \in Accepted' <=> IF k \in 1 .. n THEN k \in Accepted ELSE ~Ignored(trade)
    BY <1>1, AcceptedGrows
  <2>2. n + 1 \in 1 .. n + 1 /\ n + 1 \notin 1 .. n /\ 1 .. n \subseteq 1 .. n + 1
    BY <1>2
  <2>3. handled' \in Seq(Handled)
    BY <1>1, OneMoreHandled
  <2>4. DOMAIN handled = 1 .. n /\ DOMAIN handled' = 1 .. n + 1
    BY <1>2, <2>3 DEF RiskTyped
  <2>5. Accepted \subseteq 1 .. n /\ Accepted' \subseteq 1 .. n + 1
    BY <2>4 DEF Accepted
  <2> HIDE DEF n
  <2> QED BY <2>1, <2>2, <2>5, Zenon
<1>5. \A S : Contracts(S) = Cardinality(Singles(handled, S))
  BY DEF Contracts, Singles
<1>6. \A S : Contracts(S)' = Cardinality(Singles(handled', S))
  BY DEF Contracts, Singles
<1>7. Contracts(Accepted)' = Contracts(Accepted) + (IF Ignored(trade) THEN 0 ELSE c)
  <2>1. Contracts(Accepted)' = Cardinality(Singles(handled', Accepted'))
    BY DEF Contracts, Singles
  <2> QED BY <1>2, <1>3, <1>4, <1>5, <2>1, CountedMore
<1>8. \A type, side : Contracts(Of(type, side))' = Contracts(Of(type, side)) + more(type, side)
  <2> SUFFICES ASSUME NEW type, NEW side
               PROVE  Contracts(Of(type, side))' = Contracts(Of(type, side)) + more(type, side)
    OBVIOUS
  <2>1. Contracts(Of(type, side))' = Cardinality(Singles(handled', Of(type, side)'))
    BY DEF Contracts, Singles
  <2>2. /\ Of(type, side) \subseteq 1 .. n /\ Of(type, side)' \subseteq 1 .. n + 1
        /\ \A k \in 1 .. n : k \in Of(type, side)' <=> k \in Of(type, side)
        /\ n + 1 \in Of(type, side)' <=> ~Ignored(trade) /\ trade.trade_type = type /\ trade.side = side
    BY <1>2, <1>4 DEF Of
  <2>3. Contracts(Of(type, side))' =
          Cardinality(Singles(handled, Of(type, side))) + (IF n + 1 \in Of(type, side)' THEN c ELSE 0)
    BY <1>2, <1>3, <2>1, <2>2, CountedMore
  <2> QED BY <1>5, <2>2, <2>3
<1>9. /\ Contracts(Accepted) \in Nat
      /\ \A type, side : Contracts(Of(type, side)) \in Nat
  <2>1. \A type, side : Of(type, side) \subseteq 1 .. n
    BY <1>4 DEF Of
  <2> QED BY <1>2, <1>3, <1>4, <1>5, <2>1, SinglesFinite
<1>10. contracts_processed' = Contracts(Accepted)'
  BY <1>7, <1>9, <1>3 DEF Handle, process_execution, counts, CountedOnce
<1>11. puts_count' = Contracts(Of("P", "B"))' - Contracts(Of("P", "S"))'
  <2>1. puts_count' = puts_count + more("P", "B") - more("P", "S")
    BY <1>3, <1>9 DEF Handle, process_execution, counts, CountedOnce
  <2> HIDE DEF more
  <2>2. more("P", "B") \in Nat /\ more("P", "S") \in Nat
    BY <1>3 DEF more
  <2>3. /\ Contracts(Of("P", "B"))' = Contracts(Of("P", "B")) + more("P", "B")
        /\ Contracts(Of("P", "S"))' = Contracts(Of("P", "S")) + more("P", "S")
    BY <1>8
  <2>4. Contracts(Of("P", "B")) \in Nat /\ Contracts(Of("P", "S")) \in Nat
    BY <1>9
  <2> QED BY <2>1, <2>2, <2>3, <2>4 DEF CountedOnce
<1>12. calls_count' = Contracts(Of("C", "B"))' - Contracts(Of("C", "S"))'
  <2>1. calls_count' = calls_count + more("C", "B") - more("C", "S")
    <3>1. calls_count \in Int
      BY <1>9 DEF CountedOnce
    <3>2. calls_count' = IF Ignored(trade) \/ trade.trade_type # "C" THEN calls_count
                         ELSE IF trade.side = "S" THEN calls_count - c ELSE calls_count + c
      BY DEF Handle, process_execution, counts
    <3>3. CASE Ignored(trade) \/ trade.trade_type # "C"
      BY <3>1, <3>2, <3>3
    <3>4. CASE ~Ignored(trade) /\ trade.trade_type = "C" /\ trade.side = "B"
      BY <1>1, <1>3, <3>1, <3>2, <3>4
    <3>5. CASE ~Ignored(trade) /\ trade.trade_type = "C" /\ trade.side = "S"
      BY <1>3, <3>1, <3>2, <3>5
    <3> QED BY <1>3, <3>3, <3>4, <3>5
  <2> HIDE DEF more
  <2>2. more("C", "B") \in Nat /\ more("C", "S") \in Nat
    BY <1>3 DEF more
  <2>3. /\ Contracts(Of("C", "B"))' = Contracts(Of("C", "B")) + more("C", "B")
        /\ Contracts(Of("C", "S"))' = Contracts(Of("C", "S")) + more("C", "S")
    BY <1>8
  <2>4. Contracts(Of("C", "B")) \in Nat /\ Contracts(Of("C", "S")) \in Nat
    BY <1>9
  <2> QED BY <2>1, <2>2, <2>3, <2>4 DEF CountedOnce
<1> QED BY <1>10, <1>11, <1>12 DEF CountedOnce

LEMMA CountNext ==
  ASSUME RiskIInv, CountedOnce, [RiskNext]_riskVars
  PROVE  CountedOnce'
<1>1. CASE UNCHANGED <<handled, counts>>
  BY <1>1 DEF counts, CountedOnce, Contracts, Of, Accepted, OfInterest
<1>2. ASSUME NEW trade \in exec_notification, Handle(trade) PROVE CountedOnce'
  BY <1>2, CountStep
<1> QED BY <1>1, <1>2 DEF RiskNext, Conclude, riskVars, counts

(* Whatever is in the buffer, every notification that counts is counted     *)
(* once and on its side, and no other one is (comp3.c:708-724).             *)
THEOREM RiskCounted == RiskSpec => []CountedOnce
<1>1. RiskIInv /\ CountedOnce /\ [RiskNext]_riskVars => (RiskIInv /\ CountedOnce)'
  BY RiskNextIInv, CountNext
<1> QED BY <1>1, RiskInitIInv, CountInit, PTL DEF RiskSpec
=============================================================================
