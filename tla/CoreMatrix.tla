----------------------------- MODULE CoreMatrix -----------------------------
(***************************************************************************)
(* core_matrix.c: two N x N matrices of ee_s16 (MATDAT) multiplied into a  *)
(* third of ee_s32 (MATRES).  A matrix is a function of row and column;    *)
(* signed overflow of a MATRES is undefined in C and is not modelled.      *)
(***************************************************************************)
EXTENDS CoreUtil

S16(x) == U16(x + 32768) - 32768

Cells(N) == (1 .. N) \X (1 .. N)

(* The elements in the order of the loops, i outside and j inside.          *)
RowMajor(N) == [k \in 1 .. N * N |-> <<((k - 1) \div N) + 1, ((k - 1) % N) + 1>>]

matrix_clip(x, y) == IF y THEN x % 256 ELSE U16(x)

(* 0xf000 | x, in a MATDAT.  Mutant: in an unsigned one.                    *)
matrix_big_Unsigned(x) == 61440 + (x % 4096)
matrix_big(x) == S16(61440 + (x % 4096))

bit_extract(x, from, to) == (x \div 2 ^ from) % 2 ^ to

(* The largest N with room for A, B and C, and their first values; order is *)
(* the number of the element, which also drives the generator.              *)
(* Mutant: one more.                                                        *)
Dimension_More(blksize) == CHOOSE n \in 1 .. blksize : (n - 1) * (n - 1) * 8 < blksize /\ n * n * 8 >= blksize
Dimension(blksize) == CHOOSE n \in 0 .. blksize : n * n * 8 < blksize /\ (n + 1) * (n + 1) * 8 >= blksize

Generated(N, seed) ==
  LET Grow == [k \in 1 .. N * N |-> [x \in Int |-> U16(k * x)]]
  IN  [k \in 1 .. N * N |-> Loop(k, Grow, IF seed = 0 THEN 1 ELSE seed)]

core_init_matrix(blksize, seed) ==
  LET N == Dimension(blksize)
      s == Generated(N, seed)
      order(c) == (c[1] - 1) * N + c[2]
      b == [c \in Cells(N) |-> S16(matrix_clip(s[order(c)] + order(c), FALSE))]
  IN  [N |-> N,
       A |-> [c \in Cells(N) |-> matrix_clip(b[c] + order(c), TRUE)],
       B |-> b]

-----------------------------------------------------------------------------
SumTo(N, f(_)) ==
  LET Sum[k \in 0 .. N] == IF k = 0 THEN 0 ELSE Sum[k - 1] + f(k)
  IN  Sum[N]

matrix_add_const(A, val) == [c \in DOMAIN A |-> S16(A[c] + val)]

matrix_mul_const(N, A, val) == [c \in Cells(N) |-> A[c] * val]

(* Only the first N elements of C are written, as its first row.            *)
matrix_mul_vect(N, C, A, B) ==
  [c \in Cells(N) |->
     IF c[1] = 1 THEN SumTo(N, LAMBDA j : A[<<c[2], j>>] * B[<<1, j>>]) ELSE C[c]]

matrix_mul_matrix(N, A, B) ==
  [c \in Cells(N) |-> SumTo(N, LAMBDA k : A[<<c[1], k>>] * B[<<k, c[2]>>])]

matrix_mul_matrix_bitextract(N, A, B) ==
  [c \in Cells(N) |->
     SumTo(N, LAMBDA k : LET tmp == A[<<c[1], k>>] * B[<<k, c[2]>>]
                         IN  bit_extract(tmp, 2, 4) * bit_extract(tmp, 5, 7))]

(* One point for an element greater than the one before, ten when the       *)
(* running sum exceeds clipval and starts again.                            *)
matrix_sum(N, C, clipval) ==
  LET c == RowMajor(N)
      Element == [k \in 1 .. N * N |-> [s \in [tmp : Int, prev : Int, ret : Int] |->
        LET cur == C[c[k]]
        IN  IF s.tmp + cur > clipval THEN [tmp |-> 0, prev |-> cur, ret |-> S16(s.ret + 10)]
            ELSE [tmp |-> s.tmp + cur, prev |-> cur,
                  ret |-> IF cur > s.prev THEN S16(s.ret + 1) ELSE s.ret]]]
  IN  Loop(N * N, Element, [tmp |-> 0, prev |-> 0, ret |-> 0]).ret

(* The four products in order, the CRC of each folded in, and A as it is    *)
(* left.                                                                    *)
matrix_test(m, val) ==
  LET N == m.N
      A == matrix_add_const(m.A, val)
      C1 == matrix_mul_const(N, A, val)
      C2 == matrix_mul_vect(N, C1, A, m.B)
      C3 == matrix_mul_matrix(N, A, m.B)
      C4 == matrix_mul_matrix_bitextract(N, A, m.B)
      crc(C, sofar) == crc16(U16(matrix_sum(N, C, matrix_big(val))), sofar)
  IN  [A |-> matrix_add_const(A, S16(-val)),
       crc |-> crc(C4, crc(C3, crc(C2, crc(C1, 0))))]

core_bench_matrix(m, seed, crc) ==
  LET t == matrix_test(m, S16(seed))
  IN  [A |-> t.A, crc |-> crc16(t.crc, crc)]
=============================================================================
