---------------------------- MODULE CompPrograms ----------------------------
(***************************************************************************)
(* Final/testcode/comp/source: comp1.c, three loops over the values of an  *)
(* unsigned char, which feed the branch predictor and check two kernels;   *)
(* and comp2.c, least common multiples of the rows of a table of pseudo-   *)
(* random numbers, and a weighted sum of them.  Each ends with what the    *)
(* program promises on a processor that works.                             *)
(***************************************************************************)
EXTENDS Integers, Sequences

VARIABLES
  testing,      \* the loop main is in, or "done"
  test,         \* its counter
  mismatch, branch_status

branchVars == <<testing, test, mismatch, branch_status>>

Bit(x, k) == (x \div 2 ^ k) % 2

(* A byte whose bits are those the branches set.                            *)
Byte8(set(_)) ==
  LET Upto[k \in 0 .. 8] == IF k = 0 THEN 0 ELSE Upto[k - 1] + (IF set(k - 1) THEN 2 ^ (k - 1) ELSE 0)
  IN  Upto[8]

(* Eight branches at eight addresses, one per bit.                          *)
uncorrelated_branches_kernel(x) == Byte8(LAMBDA k : Bit(x, k) = 1)

(* Branch k is taken when the bits up to k are all set, and sets them all.  *)
correlated_branches_kernel(x) ==
  Byte8(LAMBDA k : \E n \in k .. 7 : x % 2 ^ (n + 1) = 2 ^ (n + 1) - 1)

(* ~test & (test + 1), in 8 bits, is the lowest bit that is not set.        *)
golden(x) ==
  LET both == Byte8(LAMBDA k : Bit(x, k) = 0 /\ Bit(x + 1, k) = 1)
  IN  (both - 1) % 256

Failed(loop, x) ==
  CASE loop = "uncorrelated" -> uncorrelated_branches_kernel(x) # x
    [] loop = "correlated" -> correlated_branches_kernel(x) # golden(x)
    [] loop = "mixed" -> uncorrelated_branches_kernel(x) # x \/ correlated_branches_kernel(x) # golden(x)

NextLoop(loop) ==
  CASE loop = "uncorrelated" -> "correlated" [] loop = "correlated" -> "mixed" [] loop = "mixed" -> "done"

BranchInit ==
  /\ testing = "uncorrelated"
  /\ test = 0
  /\ mismatch = FALSE
  /\ branch_status = "DEFFDEFF"

(* 255 is not tried: the counter could never get beyond it.  Mutant: it is. *)
InRange_All == test <= 255
InRange == test < 255

(* One turn of a loop; the first mismatch leaves it.                        *)
Turn ==
  /\ testing # "done"
  /\ IF InRange /\ ~Failed(testing, test)
     THEN test' = (test + 1) % 256 /\ UNCHANGED <<testing, mismatch>>
     ELSE /\ mismatch' = (mismatch \/ InRange)
          /\ testing' = NextLoop(testing)
          /\ test' = 0
  /\ UNCHANGED branch_status

(* test_function_call, whose result is dropped, and the verdict.            *)
BranchVerdict ==
  /\ testing = "done"
  /\ branch_status = "DEFFDEFF"
  /\ branch_status' = IF mismatch THEN "00BADBAD" ELSE "600D600D"
  /\ UNCHANGED <<testing, test, mismatch>>

BranchNext == Turn \/ BranchVerdict

BranchSpec == BranchInit /\ [][BranchNext]_branchVars

(* The program runs.                                                        *)
BranchFairness == WF_branchVars(BranchNext)

(* On a processor that works the program reports success, and it does end:  *)
(* the kernels agree with their closed forms for every byte that is tried,  *)
(* and no loop waits for a counter to pass its greatest value               *)
(* (comp1.c:20-37, 126-178).                                                *)
BranchesPass == <>(branch_status = "600D600D")

-----------------------------------------------------------------------------
(* comp2.c.  A long long that may exceed 31 bits is [hi, lo] for            *)
(* hi * 2^16 + lo; what is computed from this table never gets negative.    *)

N == 12
M == 7
INC == 29
MOD == 41

Limb == 65536
Long(n) == [hi |-> n \div Limb, lo |-> n % Limb]
Plus(a, b) == [hi |-> a.hi + b.hi + (a.lo + b.lo) \div Limb, lo |-> (a.lo + b.lo) % Limb]
Scaled(a, n) == [hi |-> a.hi * n + (a.lo * n) \div Limb, lo |-> (a.lo * n) % Limb]

EXPECTED == [hi |-> 1180815, lo |-> 24480]

VARIABLES
  row, col,     \* the loops of main and of iter
  curr,         \* what iter has so far
  lcms, sum, lcm_status

lcmVars == <<row, col, curr, lcms, sum, lcm_status>>

(* The table, row by row.                                                   *)
nums[k \in 0 .. N * N - 1] == IF k = 0 THEN 60 ELSE (M * nums[k - 1] + INC) % MOD

Number(r, c) == nums[r * N + c]

(* Euclid's loop, the greater one first; 1 for two zeros.                   *)
Euclid[a \in Nat, b \in Nat] == IF b = 0 THEN a ELSE Euclid[b, a % b]

gcd(a, b) == IF a = 0 /\ b = 0 THEN 1 ELSE IF a < b THEN Euclid[b, a] ELSE Euclid[a, b]

(* The parameters of lcm are ints: a long long passed for one of them       *)
(* keeps its lower 32 bits.                                                 *)
Narrow(a) ==
  LET hi == a.hi % Limb
  IN  (IF hi < Limb \div 2 THEN hi ELSE hi - Limb) * Limb + a.lo

lcm(a, b) == Scaled(Long(Narrow(a)), b \div gcd(Narrow(a), b))

LcmInit ==
  /\ row = 0
  /\ col = 1
  /\ curr = Long(Number(0, 0))
  /\ lcms = <<>>
  /\ sum = Long(0)
  /\ lcm_status = "DEFFDEFF"

(* The loop of iter.                                                        *)
Accumulate ==
  /\ row < N
  /\ col < N
  /\ curr' = lcm(curr, Number(row, col))
  /\ col' = col + 1
  /\ UNCHANGED <<row, lcms, sum, lcm_status>>

(* iter returns, and is called for the next row.                            *)
EndRow ==
  /\ row < N
  /\ col = N
  /\ lcms' = Append(lcms, curr)
  /\ row' = row + 1
  /\ col' = 1
  /\ curr' = IF row + 1 < N THEN Long(Number(row + 1, 0)) ELSE curr
  /\ UNCHANGED <<sum, lcm_status>>

(* The last loop of main, and its comparison.                               *)
AddUp ==
  /\ row = N
  /\ lcm_status = "DEFFDEFF"
  /\ LET total[k \in 0 .. N] == IF k = 0 THEN Long(0) ELSE Plus(total[k - 1], Scaled(lcms[k], k))
     IN  sum' = total[N]
  /\ lcm_status' = IF sum' = EXPECTED THEN "PASS" ELSE "FAIL"
  /\ UNCHANGED <<row, col, curr, lcms>>

LcmNext == Accumulate \/ EndRow \/ AddUp

LcmSpec == LcmInit /\ [][LcmNext]_lcmVars

(* The program runs.                                                        *)
LcmFairness == WF_lcmVars(LcmNext)

Divides(n, a) == IF n = 0 THEN a = Long(0) ELSE ((a.hi % n) * (Limb % n) + a.lo) % n = 0

Quotient(a, p) == [hi |-> a.hi \div p, lo |-> ((a.hi % p) * Limb + a.lo) \div p]

Primes == {p \in 2 .. 60 : \A d \in 2 .. p - 1 : p % d # 0}

IsLeastMultiple(a, S) ==
  /\ \A n \in S : Divides(n, a)
  /\ 0 \notin S => \A p \in Primes : Divides(p, a) => \E n \in S : ~Divides(n, Quotient(a, p))

(* At every turn curr is the least common multiple of the numbers so far,   *)
(* although lcm takes ints and a row ends beyond 31 bits: what is narrowed  *)
(* still fits (comp2.c:63-95).                                              *)
LeastMultiples ==
  /\ row < N => IsLeastMultiple(curr, {Number(row, c) : c \in 0 .. col - 1})
  /\ \A r \in 1 .. Len(lcms) : IsLeastMultiple(lcms[r], {Number(r - 1, c) : c \in 0 .. N - 1})

(* On a processor that works the program reports success, for the constant  *)
(* its source expects (comp2.c:28, 57).                                     *)
MultiplesPass == []LeastMultiples /\ <>(lcm_status = "PASS")
=============================================================================
