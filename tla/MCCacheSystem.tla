--------------------------- MODULE MCCacheSystem ---------------------------
(* A cache of two sets over four lines: two lines compete for each set.     *)
EXTENDS CacheSystem

MCTags == {0, 1}
MCSets == {0, 1}
MCWords == {0}
MCBytes == {0, 1}
MCValues == {0, 1}

(* Loads, and stores of either byte, in set 0; set 1 is touched by one line,*)
(* which is enough to see a write to the wrong set.                         *)
MCRequests ==
  {r \in Request :
     /\ r.op # "none"
     /\ r.index = 1 => r.tag = 1
     /\ r.op = "read" => r.mbe = Bytes /\ r.wdata = ZeroWord
     /\ r.op = "write" => r.mbe = {1} \/ (r.mbe = {0} /\ r.index = 0)
     /\ \A b \in Bytes \ r.mbe : r.wdata[b] = 0}

(* Memory starts with a pattern that differs from the reset state.          *)
MCImage == [a \in LineAddr |-> [w \in Words |-> [b \in Bytes |->
              IF a[1] = 1 /\ b = 0 THEN 1 ELSE 0]]]
=============================================================================
