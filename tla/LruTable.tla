------------------------------ MODULE LruTable ------------------------------
(***************************************************************************)
(* What an associative memory with least-recently-used replacement         *)
(* promises: at most Size keys, each once, the most recently used first.   *)
(***************************************************************************)
EXTENDS Naturals, Sequences

CONSTANTS Key, Val, Size, NoAnswer

VARIABLES
  table,   \* [key, val] records, the most recently used one first
  answer   \* what the last request was answered

lruVars == <<table, answer>>

Entries(k) == {n \in 1 .. Len(table) : table[n].key = k}

(* Entry e becomes the most recently used one, and place n is given up: the *)
(* entries before it move back by one.                                      *)
Used(e, n) ==
  [i \in 1 .. Len(table) \union {n} |->
     IF i = 1 THEN e ELSE IF i <= n THEN table[i - 1] ELSE table[i]]

LruInit == table = <<>> /\ answer = NoAnswer

(* A read makes its key the most recently used one.                         *)
ReadHit(k) ==
  \E n \in Entries(k) :
    /\ answer' = table[n].val
    /\ table' = Used(table[n], n)

ReadMiss(k) ==
  /\ Entries(k) = {}
  /\ answer' = NoAnswer
  /\ UNCHANGED table

(* A write of a new key into a full table gives up the last place.          *)
Write(k, v) ==
  /\ \E n \in 1 .. Size :
       /\ IF Entries(k) # {} THEN n \in Entries(k)
          ELSE n = IF Len(table) = Size THEN Size ELSE Len(table) + 1
       /\ table' = Used([key |-> k, val |-> v], n)
  /\ answer' = NoAnswer

Rest == answer' = NoAnswer /\ UNCHANGED table

Empty == answer' = NoAnswer /\ table' = <<>>

LruNext ==
  \/ Rest
  \/ Empty
  \/ \E k \in Key : ReadHit(k) \/ ReadMiss(k) \/ \E v \in Val : Write(k, v)

LruSpec == LruInit /\ [][LruNext]_lruVars
=============================================================================
