---------------------------- MODULE SpinBarrier ----------------------------
(***************************************************************************)
(* barrier() of riscv-baremetal/util.h: a counter that the last thread     *)
(* resets, and a shared sense that it flips, so that the same two words    *)
(* serve every call.  The stores of a thread become visible in their       *)
(* order, as on the in-order processors of this repository.                *)
(***************************************************************************)
EXTENDS Integers, FiniteSets

CONSTANTS
  Threads,
  Calls      \* how often each thread calls the barrier

ASSUME BarrierAssumption ==
  /\ IsFiniteSet(Threads)
  /\ Threads # {}
  /\ Calls \in Nat

VARIABLES
  sense, count,   \* shared, volatile
  threadsense,    \* __thread: one per thread
  at,             \* the statement a thread is at
  arrived, left,  \* history: calls counted, calls returned from
  round           \* history: how often the sense has been flipped

shared == <<sense, count>>
history == <<arrived, left, round>>
barrierVars == <<sense, count, threadsense, at, arrived, left, round>>

ncores == Cardinality(Threads)

BarrierInit ==
  /\ sense = 0
  /\ count = 0
  /\ threadsense = [t \in Threads |-> 0]
  /\ at = [t \in Threads |-> "outside"]
  /\ arrived = [t \in Threads |-> 0]
  /\ left = [t \in Threads |-> 0]
  /\ round = 0

Go(t, from, to) == at[t] = from /\ at' = [at EXCEPT ![t] = to]

(* Mutant: the private sense is not flipped.                                *)
Enter_SameSense(t) ==
  /\ left[t] < Calls
  /\ Go(t, "outside", "add")
  /\ UNCHANGED <<shared, threadsense, history>>

(* threadsense = !threadsense                                               *)
Enter(t) ==
  /\ left[t] < Calls
  /\ Go(t, "outside", "add")
  /\ threadsense' = [threadsense EXCEPT ![t] = 1 - @]
  /\ UNCHANGED <<shared, history>>

(* __sync_fetch_and_add(&count, 1) == ncores-1, and the branch on it.       *)
Add(t) ==
  /\ Go(t, "add", IF count = ncores - 1 THEN "reset" ELSE "spin")
  /\ count' = count + 1
  /\ arrived' = [arrived EXCEPT ![t] = @ + 1]
  /\ UNCHANGED <<sense, threadsense, left, round>>

(* Mutant: the counter is not reset.                                        *)
Reset_Not(t) == Go(t, "reset", "flip") /\ UNCHANGED <<shared, threadsense, history>>

(* count = 0                                                                *)
Reset(t) ==
  /\ Go(t, "reset", "flip")
  /\ count' = 0
  /\ UNCHANGED <<sense, threadsense, history>>

(* sense = threadsense; the last thread has no one to wait for.             *)
FlipSense(t) ==
  /\ Go(t, "flip", "outside")
  /\ sense' = threadsense[t]
  /\ round' = round + 1
  /\ left' = [left EXCEPT ![t] = @ + 1]
  /\ UNCHANGED <<count, threadsense, arrived>>

(* while (sense != threadsense): the read that ends the loop.               *)
Pass(t) ==
  /\ sense = threadsense[t]
  /\ Go(t, "spin", "outside")
  /\ left' = [left EXCEPT ![t] = @ + 1]
  /\ UNCHANGED <<shared, threadsense, arrived, round>>

Step(t) == Enter(t) \/ Add(t) \/ Reset(t) \/ FlipSense(t) \/ Pass(t)

BarrierNext == \E t \in Threads : Step(t)

BarrierSpec == BarrierInit /\ [][BarrierNext]_barrierVars

(* Every thread keeps running.                                              *)
BarrierFairSpec == BarrierSpec /\ \A t \in Threads : WF_barrierVars(Step(t))

-----------------------------------------------------------------------------
(* Properties.                                                              *)

BarrierTypeOK ==
  /\ sense \in {0, 1}
  /\ count \in 0 .. ncores
  /\ threadsense \in [Threads -> {0, 1}]
  /\ at \in [Threads -> {"outside", "add", "reset", "flip", "spin"}]
  /\ arrived \in [Threads -> Nat]
  /\ left \in [Threads -> Nat]
  /\ round \in Nat

Promise == INSTANCE Rendezvous

(* The barrier keeps its promise however often it is reused: a thread that  *)
(* comes round quickly neither slips past the slow ones nor is counted in   *)
(* the round they are still leaving (util.h:45-63).                         *)
ImplementsRendezvous == Promise!RendezvousSpec

(* No thread spins for ever: all come back from all their calls.            *)
EveryoneReturns == <>(\A t \in Threads : left[t] = Calls)

-----------------------------------------------------------------------------
(* The induction of the proofs.                                             *)

Here == {t \in Threads : arrived[t] = round + 1}

LastOne(t) == at[t] \in {"reset", "flip"}

(* Where a thread stands between two rounds.                                *)
Placed(t) ==
  /\ at[t] = "outside" => arrived[t] = round /\ left[t] = round
  /\ at[t] = "add" => arrived[t] = round /\ left[t] = round
  /\ LastOne(t) => arrived[t] = round + 1 /\ left[t] = round
  /\ at[t] = "spin" => left[t] + 1 = arrived[t] /\ arrived[t] \in {round, round + 1}

(* The senses tell rounds apart by their parity.                            *)
Parity ==
  /\ sense = round % 2
  /\ \A t \in Threads :
       threadsense[t] = (IF at[t] = "add" THEN round + 1 ELSE arrived[t]) % 2

Counted ==
  /\ count = IF \E t \in Threads : at[t] = "flip" THEN 0 ELSE Cardinality(Here)
  /\ (\E t \in Threads : LastOne(t)) <=> Here = Threads

OneLast == \A t, u \in Threads : LastOne(t) /\ LastOne(u) => t = u

BarrierInv ==
  /\ BarrierTypeOK
  /\ \A t \in Threads : Placed(t)
  /\ Parity
  /\ Counted
  /\ OneLast
=============================================================================
