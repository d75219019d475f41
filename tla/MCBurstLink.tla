---------------------------- MODULE MCBurstLink ----------------------------
(* Two lines in two pages and bursts of the adaptor's four beats.           *)
EXTENDS BurstLink

MCTags == {0, 1}
MCSets == {0}
MCWords == 0 .. 3
MCBytes == {0}
MCValues == {0, 1}
MCImage == [a \in LineAddr |-> [w \in Words |-> [b \in Bytes |-> (w + a[1]) % 2]]]

(* Lines that differ from the image and from each other in every beat.      *)
MCLines == {ZeroLine,
            [w \in Words |-> [b \in Bytes |-> 1]],
            [w \in Words |-> [b \in Bytes |-> IF w > 1 THEN 1 ELSE 0]]}
MCLineRequests == {c \in LineRequest : c.line \in MCLines}
=============================================================================
