---------------------------- MODULE MCMemSystem ----------------------------
(* Four lines in one set: two of them hold code, two hold data.             *)
EXTENDS MemSystem

MCTags == 0 .. 3
MCSets == {0}
MCWords == 0 .. (MaxCount + 1) * WordsPerBeat - 1
MCLast == (MaxCount + 1) * WordsPerBeat - 1
MCBytes == {0}
MCValues == {0, 1}

Read(t, w) == [op |-> "read", tag |-> t, index |-> 0, word |-> w,
               mbe |-> {}, wdata |-> ZeroWord]
Write(t, w, v) == [op |-> "write", tag |-> t, index |-> 0, word |-> w,
                   mbe |-> Bytes, wdata |-> [b \in Bytes |-> v]]

(* Straight-line code over two lines, and back.                             *)
MCFetches == {Read(0, 0), Read(1, MCLast)}

(* Loads and stores in the first and the last beat of a data line, and in   *)
(* the last beat of the line that takes its place.                          *)
MCDataRequests ==
  UNION {{Read(2, w), Write(2, w, 0), Write(2, w, 1)} : w \in {0, MCLast}}
    \union {Read(3, 0), Write(3, MCLast, 0), Write(3, MCLast, 1)}

(* The two lines of code differ in every word, and the first is not zero.   *)
MCImage == [a \in LineAddr |-> [w \in Words |-> [b \in Bytes |->
              CASE a[1] = 0 -> IF w = 1 THEN 0 ELSE 1
                [] a[1] = 1 -> IF w = 1 THEN 1 ELSE 0
                [] a[1] = 2 -> w % 2
                [] a[1] = 3 -> 0]]]
=============================================================================
