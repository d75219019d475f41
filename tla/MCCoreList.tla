----------------------------- MODULE MCCoreList -----------------------------
(* Lists of 5, 8 and 10 items, with seeds whose corruption can be undone,   *)
(* cannot (29 turns a 1 into a comma), and differ, and with a seed that     *)
(* makes two indexes collide (7, in the list of 10); one iteration of three *)
(* of the runs whose CRCs core_main.c knows.                                *)
EXTENDS CoreList

Run(size, seed1, seed2, seed3, iterations) ==
  [size |-> size, seed1 |-> seed1, seed2 |-> seed2, seed3 |-> seed3, iterations |-> iterations]

MCInputs ==
  {Run(size, seed, seed, finds, 2) : size \in {140, 200, 245}, seed \in {0, 7, 29}, finds \in {2, 3}}
    \union {Run(245, 3, 5, 7, 2), Run(400, 8, 8, 8, 1),
            Run(666, 0, 0, 102, 1), Run(666, 13333, 13333, 102, 1)}
=============================================================================
