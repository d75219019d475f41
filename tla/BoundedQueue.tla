---------------------------- MODULE BoundedQueue ----------------------------
(***************************************************************************)
(* What a queue with a registered output promises: words leave in the      *)
(* order they came, at most Capacity wait, and the first of them is shown  *)
(* as long as there is one.                                                *)
(***************************************************************************)
EXTENDS Naturals, Sequences

CONSTANTS Data, Capacity

VARIABLES
  waiting,  \* the words, in order
  shown     \* the output

boundedQueueVars == <<waiting, shown>>

Shows(words, out) == words # <<>> => out = Head(words)

QueueInit == waiting = <<>>

Put(d) ==
  /\ Len(waiting) < Capacity
  /\ waiting' = Append(waiting, d)

Take ==
  /\ waiting # <<>>
  /\ waiting' = Tail(waiting)

(* Both at once need a word to take and room for another.                   *)
PutAndTake(d) ==
  /\ waiting # <<>>
  /\ Len(waiting) < Capacity
  /\ waiting' = Append(Tail(waiting), d)

Clear == waiting' = <<>>

QueueStep == Take \/ Clear \/ \E d \in Data : Put(d) \/ PutAndTake(d)

QueueNext == QueueStep /\ Shows(waiting', shown')

QueueSpec == QueueInit /\ [][QueueNext]_boundedQueueVars
=============================================================================
