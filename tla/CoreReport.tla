----------------------------- MODULE CoreReport -----------------------------
(***************************************************************************)
(* What main of core_main.c says at the end: whether the seeds are known,  *)
(* whether the CRCs are the published ones, and the verdict.               *)
(***************************************************************************)
EXTENDS CoreUtil

Algorithms == <<"list", "matrix", "state">>

(* Bits of the mask execs; 0 stands for all of them.                        *)
execs(mask) ==
  IF mask = 0 THEN ToSet(Algorithms)
  ELSE {Algorithms[k] : k \in {j \in DOMAIN Algorithms : (mask \div 2 ^ (j - 1)) % 2 = 1}}

(* A run without seeds is the performance run, a first seed of 1 alone the  *)
(* validation run (the comments of the code have the two names swapped).    *)
seeds(seed1, seed2, seed3) ==
  CASE seed1 = 0 /\ seed2 = 0 /\ seed3 = 0 -> [seed1 |-> 0, seed2 |-> 0, seed3 |-> 102]
    [] seed1 = 1 /\ seed2 = 0 /\ seed3 = 0 -> [seed1 |-> 13333, seed2 |-> 13333, seed3 |-> 102]
    [] OTHER -> [seed1 |-> seed1, seed2 |-> seed2, seed3 |-> seed3]

(* Room for each of n algorithms, and where the j-th begins.                *)
share(total, n) == total \div n
memblock(total, n, j) == (j - 1) * share(total, n)

seedcrc(s, size) == crc16(size, crc16(s.seed3, crc16(s.seed2, crc16(s.seed1, 0))))

(* 0x8a02, 0x7b05, 0x4eaf, 0xe9f5, 0x18f2 in the order of known_id.         *)
SeedCrcs == <<35330, 31493, 20143, 59893, 6386>>

Unknown == -1
known_id(crc) ==
  IF \E k \in DOMAIN SeedCrcs : SeedCrcs[k] = crc
  THEN (CHOOSE k \in DOMAIN SeedCrcs : SeedCrcs[k] = crc) - 1 ELSE Unknown

known_crc ==
  [list   |-> <<54448, 13120, 27257, 59156, 58305>>,
   matrix |-> <<48722, 4505, 22024, 8151, 1863>>,
   state  |-> <<24135, 14783, 58788, 36410, 36228>>]

(* total_errors: errs is the number of CRCs that differ, over the contexts. *)
(* Mutant: the CRCs make no difference.                                     *)
total_errors_NoCrcs(id, errs, secs) ==
  (IF id = Unknown THEN -1 ELSE 0) + (IF secs < 10 THEN 1 ELSE 0)
total_errors(id, errs, secs) ==
  (IF id = Unknown THEN -1 ELSE errs) + (IF secs < 10 THEN 1 ELSE 0)

(* "Correct operation validated", "Errors detected" or "Cannot validate     *)
(* operation for these seed values".                                        *)
Verdict(errors) ==
  CASE errors = 0 -> "validated"
    [] errors > 0 -> "errors"
    [] errors < 0 -> "unknown_seeds"
=============================================================================
