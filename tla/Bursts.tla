------------------------------- MODULE Bursts -------------------------------
(***************************************************************************)
(* How a line is cut into the beats of a burst (64 of 256 bits at a time   *)
(* in cacheline_adaptor.sv and param_memory.sv).                           *)
(***************************************************************************)
EXTENDS MemoryTypes

CONSTANTS
  MaxCount,      \* index of the last beat: maxcount, BURST_LEN - 1
  WordsPerBeat   \* words in a beat

ASSUME BurstAssumption ==
  /\ MaxCount \in Nat
  /\ WordsPerBeat \in Nat \ {0}
  /\ Words = 0 .. (MaxCount + 1) * WordsPerBeat - 1

Counts == 0 .. MaxCount
Beat == [0 .. WordsPerBeat - 1 -> Word]

(* line[64*count +: 64], read and written.                                  *)
BeatOf(line, count) ==
  [i \in 0 .. WordsPerBeat - 1 |-> line[WordsPerBeat * count + i]]

WithBeat(line, count, beat) ==
  [w \in Words |-> IF w \div WordsPerBeat = count
                   THEN beat[w % WordsPerBeat] ELSE line[w]]
=============================================================================
