----------------------------- MODULE Rendezvous -----------------------------
(***************************************************************************)
(* What a barrier promises to the threads that call it again and again: a  *)
(* thread leaves its k-th call only when every thread has made its k-th.   *)
(***************************************************************************)
EXTENDS Naturals

CONSTANT Threads

VARIABLES
  arrived,  \* calls a thread has made so far
  left      \* calls it has come back from

rendezvousVars == <<arrived, left>>

RendezvousInit ==
  /\ arrived = [t \in Threads |-> 0]
  /\ left = [t \in Threads |-> 0]

Arrive(t) ==
  /\ arrived[t] = left[t]
  /\ arrived' = [arrived EXCEPT ![t] = @ + 1]
  /\ UNCHANGED left

Leave(t) ==
  /\ left[t] < arrived[t]
  /\ \A u \in Threads : arrived[u] >= arrived[t]
  /\ left' = [left EXCEPT ![t] = arrived[t]]
  /\ UNCHANGED arrived

RendezvousNext == \E t \in Threads : Arrive(t) \/ Leave(t)

RendezvousSpec == RendezvousInit /\ [][RendezvousNext]_rendezvousVars
=============================================================================
