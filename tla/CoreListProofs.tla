--------------------------- MODULE CoreListProofs ---------------------------
(***************************************************************************)
(* The list benchmark of CoreMark, for every list, every seed and any      *)
(* number of iterations.                                                   *)
(***************************************************************************)
EXTENDS CoreList, FiniteSetTheorems, FunctionTheorems, WellFoundedInduction, TLAPS

-----------------------------------------------------------------------------
(* Induction, as a fact about sets: a set that has 0 and the successor of   *)
(* each of its elements has all numbers.                                    *)

LEMMA Least ==
  ASSUME NEW S \in SUBSET Nat, S # {}
  PROVE  \E x \in S : \A y \in S : x <= y
<1> DEFINE R == {ss \in Nat \X Nat : ss[1] < ss[2]}
<1>1. IsWellFoundedOn(R, Nat)
  BY NatLessThanWellFounded, Zenon DEF OpToRel
<1>2. PICK x \in S : \A y \in S : ~ (<<y, x>> \in R)
  <2> HIDE DEF R
  <2> QED BY <1>1, WFMin
<1>3. \A y \in S : ~ (y < x)
  BY <1>2
<1> QED BY <1>3

LEMMA Induction ==
  ASSUME NEW n \in Nat, NEW S, 0 \in S,
         \A k \in 1 .. n : k - 1 \in S => k \in S
  PROVE  \A k \in 0 .. n : k \in S
<1> DEFINE Missed == {k \in 0 .. n : k \notin S}
<1> SUFFICES ASSUME Missed # {} PROVE FALSE
  OBVIOUS
<1>1. PICK x \in Missed : \A y \in Missed : x <= y
  <2>1. Missed \in SUBSET Nat
    OBVIOUS
  <2> HIDE DEF Missed
  <2> QED BY <2>1, Least
<1>2. x \in 1 .. n /\ x \notin S /\ x - 1 \in 0 .. n
  OBVIOUS
<1>3. x - 1 \in Missed
  BY <1>2
<1>4. x <= x - 1
  BY <1>1, <1>3
<1> QED BY <1>2, <1>4

-----------------------------------------------------------------------------
(* Loops.  A loop ends with the last of the values that it goes through;    *)
(* it goes through some if its step is defined on them.                     *)

Passes(n, step, x, g) ==
  /\ DOMAIN g = 0 .. n
  /\ g[0] = x
  /\ \A k \in 1 .. n : g[k] = step[k][g[k - 1]]

LEMMA LoopIs ==
  ASSUME NEW n \in Nat, NEW step, NEW x, NEW T, NEW g \in [0 .. n -> T], Passes(n, step, x, g)
  PROVE  Loop(n, step, x) = g[n]
<1> DEFINE Body(f) == [k \in 0 .. n |-> IF k = 0 THEN x ELSE step[k][f[k - 1]]]
           after == CHOOSE f : f = Body(f)
<1>1. g = Body(g)
  BY DEF Passes
<1>2. after = Body(after)
  BY <1>1, Zenon
<1>3. n \in {j \in 0 .. n : after[j] = g[j]}
  <2> DEFINE S == {j \in 0 .. n : after[j] = g[j]}
  <2> HIDE DEF after
  <2>1. 0 \in S
    BY <1>2 DEF Passes
  <2>2. ASSUME NEW k \in 1 .. n, k - 1 \in S PROVE k \in S
    <3>1. after[k] = step[k][after[k - 1]]
      BY <1>2
    <3> QED BY <2>2, <3>1 DEF Passes
  <2> HIDE DEF S
  <2>3. n \in 0 .. n
    OBVIOUS
  <2>4. n \in S
    BY <2>1, <2>2, <2>3, Induction, Zenon
  <2> QED BY <2>4 DEF S
<1>4. after[n] = g[n]
  BY <1>3, Zenon
<1> QED BY <1>4, Zenon DEF Loop

LEMMA LoopRuns ==
  ASSUME NEW n \in Nat, NEW T, NEW x \in T, NEW step,
         \A k \in 1 .. n, y \in T : step[k][y] \in T
  PROVE  \E g \in [0 .. n -> T] : Passes(n, step, x, g)
<1> DEFINE S == {k \in 0 .. n : \E g \in [0 .. k -> T] : Passes(k, step, x, g)}
<1>1. 0 \in S
  <2>1. [k \in 0 .. 0 |-> x] \in [0 .. 0 -> T] /\ Passes(0, step, x, [k \in 0 .. 0 |-> x])
    BY DEF Passes
  <2> QED BY <2>1
<1>2. ASSUME NEW k \in 1 .. n, k - 1 \in S PROVE k \in S
  <2>1. PICK g \in [0 .. k - 1 -> T] : Passes(k - 1, step, x, g)
    BY <1>2
  <2> DEFINE h == [j \in 0 .. k |-> IF j = k THEN step[k][g[k - 1]] ELSE g[j]]
  <2>2. step[k][g[k - 1]] \in T
    OBVIOUS
  <2>3. h \in [0 .. k -> T]
    BY <2>2
  <2>4. Passes(k, step, x, h)
    BY <2>1 DEF Passes
  <2> QED BY <2>3, <2>4
<1> HIDE DEF S
<1>3. n \in S
  <2>1. n \in 0 .. n
    OBVIOUS
  <2> QED BY <1>1, <1>2, <2>1, Induction, Zenon
<1> QED BY <1>3 DEF S

LEMMA LoopType ==
  ASSUME NEW n \in Nat, NEW T, NEW x \in T, NEW step,
         \A k \in 1 .. n : step[k] \in [T -> T]
  PROVE  Loop(n, step, x) \in T
<1> \A k \in 1 .. n, y \in T : step[k][y] \in T
  OBVIOUS
<1>1. PICK g \in [0 .. n -> T] : Passes(n, step, x, g)
  BY LoopRuns
<1>2. Loop(n, step, x) = g[n]
  BY <1>1, LoopIs
<1> QED BY <1>2

-----------------------------------------------------------------------------
(* The CRC has 16 bits, whatever is folded in.                              *)

LEMMA Halves == \A x : x \in Half <=> x \in Int /\ 0 <= x /\ x < 65536
<1> TAKE x
<1>0. EE_U16_MAX \in Int
  BY SMT DEF EE_U16_MAX
<1>1. EE_U16_MAX = 65535
  BY SMT DEF EE_U16_MAX
<1>2. x \in Half <=> x \in Int /\ 0 <= x /\ x <= EE_U16_MAX
  <2>1. ASSUME x \in Half PROVE x \in Int /\ 0 <= x /\ x <= EE_U16_MAX
    BY <1>0, <2>1, SMT DEF Half
  <2>2. ASSUME x \in Int, 0 <= x, x <= EE_U16_MAX PROVE x \in Half
    BY <1>0, <2>2, SMT DEF Half
  <2> QED BY <2>1, <2>2, Zenon
<1>3. x \in Int => (x <= EE_U16_MAX <=> x < 65536)
  BY <1>1, SMT
<1> QED BY <1>2, <1>3, SMT

LEMMA Bytes == \A x : x \in Byte <=> x \in Int /\ 0 <= x /\ x < 256
<1> TAKE x
<1>0. EE_U8_MAX \in Int
  BY SMT DEF EE_U8_MAX
<1>1. EE_U8_MAX = 255
  BY SMT DEF EE_U8_MAX
<1>2. x \in Byte <=> x \in Int /\ 0 <= x /\ x <= EE_U8_MAX
  <2>1. ASSUME x \in Byte PROVE x \in Int /\ 0 <= x /\ x <= EE_U8_MAX
    BY <1>0, <2>1, SMT DEF Byte
  <2>2. ASSUME x \in Int, 0 <= x, x <= EE_U8_MAX PROVE x \in Byte
    BY <1>0, <2>2, SMT DEF Byte
  <2> QED BY <2>1, <2>2, Zenon
<1>3. x \in Int => (x <= EE_U8_MAX <=> x < 256)
  BY <1>1, SMT
<1> QED BY <1>2, <1>3, SMT

LEMMA HalfInt == \A x \in Half : x \in Int
BY Halves, SMT

LEMMA U16Type == \A x \in Int : U16(x) \in Half
BY Halves, SMT DEF U16

LEMMA FlipType ==
  /\ \A x \in Half : Flip(x, 2) \in Half
  /\ \A x \in Half : Flip(x, 16384) \in Half
<1> SUFFICES ASSUME NEW x \in Int, 0 <= x, x < 65536
             PROVE  /\ Flip(x, 2) \in Int /\ 0 <= Flip(x, 2) /\ Flip(x, 2) < 65536
                    /\ Flip(x, 16384) \in Int /\ 0 <= Flip(x, 16384) /\ Flip(x, 16384) < 65536
  BY Halves, SMT
<1>1. Flip(x, 2) \in Int /\ 0 <= Flip(x, 2) /\ Flip(x, 2) < 65536
  BY SMT DEF Flip, BitAt
<1>2. Flip(x, 16384) \in Int /\ 0 <= Flip(x, 16384) /\ Flip(x, 16384) < 65536
  BY SMT DEF Flip, BitAt
<1> QED BY <1>1, <1>2, SMT

LEMMA CrcRoundType ==
  ASSUME NEW crc \in Half, NEW bit
  PROVE  CrcRound(crc, bit) \in Half
<1>1. crc \div 2 \in Half
  BY Halves, SMT
<1>2. Flip(Flip(crc, 2), 16384) \div 2 + 32768 \in Half
  <2>1. Flip(Flip(crc, 2), 16384) \in Half
    BY FlipType
  <2> HIDE DEF Flip
  <2> QED BY <2>1, Halves, SMT
<1> QED BY <1>1, <1>2 DEF CrcRound

LEMMA CrcType ==
  ASSUME NEW x, NEW crc \in Half
  PROVE  /\ crcu8(x, crc) \in Half
         /\ crcu16(x, crc) \in Half
         /\ crc16(x, crc) \in Half
         /\ crcu32(x, crc) \in Half
<1>1. ASSUME NEW d, NEW c \in Half PROVE crcu8(d, c) \in Half
  <2> DEFINE step == [k \in 1 .. 8 |-> [y \in Half |-> CrcRound(y, BitAt(d, 2 ^ (k - 1)))]]
  <2>1. \A k \in 1 .. 8 : step[k] \in [Half -> Half]
    BY CrcRoundType
  <2> HIDE DEF step
  <2>2. Loop(8, step, c) \in Half
    BY <2>1, LoopType
  <2> QED BY <2>2, Zenon DEF crcu8, step
<1>2. ASSUME NEW d, NEW c \in Half PROVE crcu16(d, c) \in Half
  BY <1>1 DEF crcu16
<1>3. ASSUME NEW d, NEW c \in Half PROVE crc16(d, c) \in Half
  BY <1>2 DEF crc16
<1>4. ASSUME NEW hi, NEW lo PROVE crc16(hi, crc16(lo, crc)) \in Half
  BY <1>3, Zenon
<1>5. crcu32(x, crc) \in Half
  BY <1>4, SMT DEF crcu32
<1> QED BY <1>1, <1>2, <1>3, <1>5, Zenon

LEMMA CrcTimesType ==
  ASSUME NEW n \in Nat, NEW x, NEW crc \in Half
  PROVE  CrcTimes(n, x, crc) \in Half
<1> DEFINE step == [k \in 1 .. n |-> [c \in Half |-> crc16(x, c)]]
<1>1. \A k \in 1 .. n : step[k] \in [Half -> Half]
  BY CrcType
<1> HIDE DEF step
<1>2. Loop(n, step, crc) \in Half
  BY <1>1, LoopType
<1> QED BY <1>2, Zenon DEF CrcTimes, step

-----------------------------------------------------------------------------
(* Exclusive or, bit by bit: done twice, it is undone.                      *)

LEMMA BitsOfSum ==
  ASSUME NEW a \in 0 .. 1, NEW b \in 0 .. 1, NEW c \in 0 .. 1, NEW d \in 0 .. 1,
         NEW e \in 0 .. 1, NEW f \in 0 .. 1, NEW g \in 0 .. 1, NEW h \in 0 .. 1,
         NEW x, x = a + 2 * b + 4 * c + 8 * d + 16 * e + 32 * f + 64 * g + 128 * h
  PROVE  /\ x \in Byte
         /\ BitAt(x, 1) = a /\ BitAt(x, 2) = b /\ BitAt(x, 4) = c /\ BitAt(x, 8) = d
         /\ BitAt(x, 16) = e /\ BitAt(x, 32) = f /\ BitAt(x, 64) = g /\ BitAt(x, 128) = h
<1>1. x \in Byte
  BY Bytes, SMT
<1>2. BitAt(x, 1) = a /\ BitAt(x, 2) = b
  BY SMT DEF BitAt
<1>3. BitAt(x, 4) = c /\ BitAt(x, 8) = d
  BY SMT DEF BitAt
<1>4. BitAt(x, 16) = e /\ BitAt(x, 32) = f
  BY SMT DEF BitAt
<1>5. BitAt(x, 64) = g /\ BitAt(x, 128) = h
  BY SMT DEF BitAt
<1> QED BY <1>1, <1>2, <1>3, <1>4, <1>5

LEMMA SameBits ==
  ASSUME NEW x \in Byte, NEW y \in Byte,
         \A w \in {1, 2, 4, 8, 16, 32, 64, 128} : BitAt(x, w) = BitAt(y, w)
  PROVE  x = y
<1>0. x \in Int /\ 0 <= x /\ x < 256 /\ y \in Int /\ 0 <= y /\ y < 256
  BY Bytes, SMT
<1>1. x \div 128 = y \div 128
  <2>1. BitAt(x, 128) = BitAt(y, 128)
    OBVIOUS
  <2> QED BY <1>0, <2>1, SMT DEF BitAt
<1>2. x \div 64 = y \div 64
  <2>1. BitAt(x, 64) = BitAt(y, 64)
    OBVIOUS
  <2> QED BY <1>0, <1>1, <2>1, SMT DEF BitAt
<1>3. x \div 32 = y \div 32
  <2>1. BitAt(x, 32) = BitAt(y, 32)
    OBVIOUS
  <2> QED BY <1>0, <1>2, <2>1, SMT DEF BitAt
<1>4. x \div 16 = y \div 16
  <2>1. BitAt(x, 16) = BitAt(y, 16)
    OBVIOUS
  <2> QED BY <1>0, <1>3, <2>1, SMT DEF BitAt
<1>5. x \div 8 = y \div 8
  <2>1. BitAt(x, 8) = BitAt(y, 8)
    OBVIOUS
  <2> QED BY <1>0, <1>4, <2>1, SMT DEF BitAt
<1>6. x \div 4 = y \div 4
  <2>1. BitAt(x, 4) = BitAt(y, 4)
    OBVIOUS
  <2> QED BY <1>0, <1>5, <2>1, SMT DEF BitAt
<1>7. x \div 2 = y \div 2
  <2>1. BitAt(x, 2) = BitAt(y, 2)
    OBVIOUS
  <2> QED BY <1>0, <1>6, <2>1, SMT DEF BitAt
<1>8. x \div 1 = y \div 1
  <2>1. BitAt(x, 1) = BitAt(y, 1)
    OBVIOUS
  <2> QED BY <1>0, <1>7, <2>1, SMT DEF BitAt
<1> QED BY <1>0, <1>8, SMT

LEMMA Xor8Bits ==
  ASSUME NEW x, NEW y
  PROVE  /\ Xor8(x, y) \in Byte
         /\ \A w \in {1, 2, 4, 8, 16, 32, 64, 128} :
              BitAt(Xor8(x, y), w) = IF BitAt(x, w) = BitAt(y, w) THEN 0 ELSE 1
<1> DEFINE b(w) == IF BitAt(x, w) = BitAt(y, w) THEN 0 ELSE 1
<1>1. Xor8(x, y) = b(1) + 2 * b(2) + 4 * b(4) + 8 * b(8) + 16 * b(16) + 32 * b(32) + 64 * b(64)
                   + 128 * b(128)
  BY SMT DEF Xor8
<1>2. \A w : b(w) \in 0 .. 1
  OBVIOUS
<1> HIDE DEF b
<1>3. /\ Xor8(x, y) \in Byte
      /\ BitAt(Xor8(x, y), 1) = b(1) /\ BitAt(Xor8(x, y), 2) = b(2)
      /\ BitAt(Xor8(x, y), 4) = b(4) /\ BitAt(Xor8(x, y), 8) = b(8)
      /\ BitAt(Xor8(x, y), 16) = b(16) /\ BitAt(Xor8(x, y), 32) = b(32)
      /\ BitAt(Xor8(x, y), 64) = b(64) /\ BitAt(Xor8(x, y), 128) = b(128)
  BY <1>1, <1>2, BitsOfSum
<1> QED BY <1>3 DEF b

LEMMA XorTwice ==
  ASSUME NEW x \in Byte, NEW y \in Int
  PROVE  Xor8(Xor8(x, y), y) = x
<1> DEFINE z == Xor8(Xor8(x, y), y)
<1>1. ASSUME NEW w \in {1, 2, 4, 8, 16, 32, 64, 128} PROVE BitAt(z, w) = BitAt(x, w)
  <2>1. BitAt(z, w) = IF BitAt(Xor8(x, y), w) = BitAt(y, w) THEN 0 ELSE 1
    BY Xor8Bits
  <2>2. BitAt(Xor8(x, y), w) = IF BitAt(x, w) = BitAt(y, w) THEN 0 ELSE 1
    BY Xor8Bits
  <2>3. BitAt(x, w) \in 0 .. 1 /\ BitAt(y, w) \in 0 .. 1
    BY Bytes, SMT DEF BitAt
  <2> QED BY <2>1, <2>2, <2>3, SMT
<1>2. z \in Byte
  BY Xor8Bits
<1> HIDE DEF z
<1>3. z = x
  BY <1>1, <1>2, SameBits
<1> QED BY <1>3 DEF z

-----------------------------------------------------------------------------
(* The text of the state benchmark is made of bytes.                        *)

Character ==
  {"0", "1", "2", "3", "4", "5", "6", "7", "8", "9"}
    \union {".", "+", "-", "e", "E", "T", "F", "q", "z", "^"}

LEMMA CodeType == \A c \in Character : Code(c) \in Byte
<1> SUFFICES ASSUME NEW c \in Character PROVE Code(c) \in Int /\ 0 <= Code(c) /\ Code(c) < 256
  BY Bytes, Zenon
<1>1. CASE c \in {"0", "1", "2", "3", "4", "5", "6", "7", "8", "9"}
  <2> DEFINE k == CHOOSE j \in DOMAIN Decimal : Decimal[j] = c
  <2>1. DOMAIN Decimal = 1 .. 10
    BY DEF Decimal
  <2>2. \E j \in 1 .. 10 : Decimal[j] = c
    BY <1>1 DEF Decimal
  <2>3. k \in 1 .. 10
    BY <2>1, <2>2
  <2>4. DigitValue(c, Decimal) \in 0 .. 9
    <3>1. DigitValue(c, Decimal) = k - 1
      BY Zenon DEF DigitValue
    <3> HIDE DEF k
    <3> QED BY <2>3, <3>1, SMT
  <2>5. Code(c) = 48 + DigitValue(c, Decimal)
    BY <1>1, SMT DEF Code
  <2> QED BY <2>4, <2>5, SMT
<1>2. CASE c \in {".", "+", "-", "e", "E", "T", "F", "q", "z", "^"}
  <2>1. Code(c) \in {46, 43, 45, 101, 69, 84, 70, 113, 122, 94}
    BY <1>2, SMT DEF Code
  <2> QED BY <2>1, SMT
<1> QED BY <1>1, <1>2, SMT DEF Character

LEMMA TextType == \A s \in Seq(Character) : Text(s) \in Seq(Byte)
<1> SUFFICES ASSUME NEW s \in Seq(Character) PROVE Text(s) \in Seq(Byte)
  OBVIOUS
<1>1. \A k \in DOMAIN s : s[k] \in Character
  OBVIOUS
<1>2. Len(s) \in Nat /\ DOMAIN s = 1 .. Len(s)
  OBVIOUS
<1>3. Text(s) \in [1 .. Len(s) -> Byte]
  BY <1>1, <1>2, CodeType DEF Text
<1> QED BY <1>2, <1>3

LEMMA Text4Type ==
  ASSUME NEW a \in Character, NEW b \in Character, NEW c \in Character, NEW d \in Character
  PROVE  Text(<<a, b, c, d>>) \in Seq(Byte)
<1>1. <<a, b, c, d>> \in Seq(Character)
  OBVIOUS
<1> QED BY <1>1, TextType

LEMMA Text8Type ==
  ASSUME NEW a \in Character, NEW b \in Character, NEW c \in Character, NEW d \in Character,
         NEW e \in Character, NEW f \in Character, NEW g \in Character, NEW h \in Character
  PROVE  Text(<<a, b, c, d, e, f, g, h>>) \in Seq(Byte)
<1>1. <<a, b, c, d, e, f, g, h>> \in Seq(Character)
  OBVIOUS
<1> QED BY <1>1, TextType

LEMMA Letters ==
  /\ "0" \in Character /\ "1" \in Character /\ "2" \in Character /\ "3" \in Character
  /\ "4" \in Character /\ "5" \in Character /\ "6" \in Character /\ "7" \in Character
  /\ "8" \in Character /\ "." \in Character /\ "+" \in Character /\ "-" \in Character
  /\ "e" \in Character /\ "T" \in Character /\ "F" \in Character /\ "q" \in Character
  /\ "z" \in Character /\ "^" \in Character
BY DEF Character

LEMMA PatternType == \A seed \in Int : Pattern(seed) \in Seq(Byte)
<1>1. intpat \in [1 .. 4 -> Seq(Byte)]
  <2>1. Text(<<"5","0","1","2">>) \in Seq(Byte) /\ Text(<<"1","2","3","4">>) \in Seq(Byte)
    BY Letters, Text4Type, Zenon
  <2>2. Text(<<"-","8","7","4">>) \in Seq(Byte) /\ Text(<<"+","1","2","2">>) \in Seq(Byte)
    BY Letters, Text4Type, Zenon
  <2> QED BY <2>1, <2>2 DEF intpat
<1>2. floatpat \in [1 .. 4 -> Seq(Byte)]
  <2>1. Text(<<"3","5",".","5","4","4","0","0">>) \in Seq(Byte)
    BY Letters, Text8Type, Zenon
  <2>2. Text(<<".","1","2","3","4","5","0","0">>) \in Seq(Byte)
    BY Letters, Text8Type, Zenon
  <2>3. Text(<<"-","1","1","0",".","7","0","0">>) \in Seq(Byte)
    BY Letters, Text8Type, Zenon
  <2>4. Text(<<"+","0",".","6","4","4","0","0">>) \in Seq(Byte)
    BY Letters, Text8Type, Zenon
  <2> QED BY <2>1, <2>2, <2>3, <2>4 DEF floatpat
<1>3. scipat \in [1 .. 4 -> Seq(Byte)]
  <2>1. Text(<<"5",".","5","0","0","e","+","3">>) \in Seq(Byte)
    BY Letters, Text8Type, Zenon
  <2>2. Text(<<"-",".","1","2","3","e","-","2">>) \in Seq(Byte)
    BY Letters, Text8Type, Zenon
  <2>3. Text(<<"-","8","7","e","+","8","3","2">>) \in Seq(Byte)
    BY Letters, Text8Type, Zenon
  <2>4. Text(<<"+","0",".","6","e","-","1","2">>) \in Seq(Byte)
    BY Letters, Text8Type, Zenon
  <2> QED BY <2>1, <2>2, <2>3, <2>4 DEF scipat
<1>4. errpat \in [1 .. 4 -> Seq(Byte)]
  <2>1. Text(<<"T","0",".","3","e","-","1","F">>) \in Seq(Byte)
    BY Letters, Text8Type, Zenon
  <2>2. Text(<<"-","T",".","T","+","+","T","q">>) \in Seq(Byte)
    BY Letters, Text8Type, Zenon
  <2>3. Text(<<"1","T","3",".","4","e","4","z">>) \in Seq(Byte)
    BY Letters, Text8Type, Zenon
  <2>4. Text(<<"3","4",".","0","e","-","T","^">>) \in Seq(Byte)
    BY Letters, Text8Type, Zenon
  <2> QED BY <2>1, <2>2, <2>3, <2>4 DEF errpat
<1> SUFFICES ASSUME NEW seed \in Int PROVE Pattern(seed) \in Seq(Byte)
  OBVIOUS
<1>5. ((seed \div 8) % 4) + 1 \in 1 .. 4
  OBVIOUS
<1>6. seed % 8 <= 2 \/ seed % 8 \in {3, 4} \/ seed % 8 \in {5, 6} \/ seed % 8 = 7
  OBVIOUS
<1> QED BY <1>1, <1>2, <1>3, <1>4, <1>5, <1>6 DEF Pattern

LEMMA WrittenType ==
  ASSUME NEW size \in Nat, NEW seed \in Int
  PROVE  Written(size, seed) \in Seq(Byte)
<1> DEFINE S == [text : Seq(Byte), chosen : Seq(Byte)]
           times == (size \div 5) + 1
           Fill == [k \in 1 .. times |-> [s \in S |->
                      IF Len(s.text) + Len(s.chosen) + 1 >= size - 1 THEN s
                      ELSE [text |-> IF s.chosen = <<>> THEN <<>>
                                     ELSE s.text \o Append(s.chosen, Comma),
                            chosen |-> Pattern(U16(seed + k))]]]
<1>1. times \in Nat
  OBVIOUS
<1>2. Comma \in Byte
  BY Bytes, SMT DEF Comma
<1>3. \A k \in 1 .. times : Pattern(U16(seed + k)) \in Seq(Byte)
  <2> TAKE k \in 1 .. times
  <2>1. seed + k \in Int
    OBVIOUS
  <2>2. U16(seed + k) \in Int
    BY <2>1, U16Type, HalfInt, Zenon
  <2> QED BY <2>2, PatternType, Zenon
<1>4. \A k \in 1 .. times : Fill[k] \in [S -> S]
  <2> HIDE DEF times
  <2>1. ASSUME NEW k \in 1 .. times, NEW s \in S
        PROVE  (IF Len(s.text) + Len(s.chosen) + 1 >= size - 1 THEN s
                ELSE [text |-> IF s.chosen = <<>> THEN <<>>
                               ELSE s.text \o Append(s.chosen, Comma),
                      chosen |-> Pattern(U16(seed + k))]) \in S
    <3> DEFINE p == Pattern(U16(seed + k))
    <3>1. p \in Seq(Byte)
      BY <1>3
    <3> HIDE DEF p
    <3>2. s.text \o Append(s.chosen, Comma) \in Seq(Byte) /\ <<>> \in Seq(Byte)
      BY <1>2, SMT
    <3>3. [text |-> IF s.chosen = <<>> THEN <<>> ELSE s.text \o Append(s.chosen, Comma),
           chosen |-> p] \in S
      BY <3>1, <3>2, SMT
    <3> QED BY <3>3, SMT DEF p
  <2> QED BY <2>1, Zenon
<1>5. [text |-> <<>>, chosen |-> <<>>] \in S
  BY SMT
<1> HIDE DEF Fill, times, S
<1>6. Loop(times, Fill, [text |-> <<>>, chosen |-> <<>>]) \in S
  BY <1>1, <1>4, <1>5, LoopType
<1>7. Written(size, seed) = Loop(times, Fill, [text |-> <<>>, chosen |-> <<>>]).text
  BY Zenon DEF Written, Fill, times, S
<1> QED BY <1>6, <1>7 DEF S

LEMMA InitStateType ==
  ASSUME NEW size \in Nat, NEW seed \in Int
  PROVE  core_init_state(size, seed) \in [1 .. size -> Byte]
<1> DEFINE text == Written(size, seed)
<1>1. text \in Seq(Byte)
  BY WrittenType
<1>2. 0 \in Byte
  BY Bytes, SMT
<1> HIDE DEF text
<1>3. \A k \in 1 .. size : (IF k <= Len(text) THEN text[k] ELSE 0) \in Byte
  BY <1>1, <1>2
<1>4. core_init_state(size, seed) = [k \in 1 .. size |-> IF k <= Len(text) THEN text[k] ELSE 0]
  BY Zenon DEF core_init_state, text
<1> QED BY <1>3, <1>4

-----------------------------------------------------------------------------
(* The corruption of the text, and what the state benchmark leaves.         *)

LEMMA CorruptType ==
  ASSUME NEW n \in Nat, NEW b \in [1 .. n -> Byte], NEW size, NEW step, NEW seed
  PROVE  Corrupt(b, size, step, seed) \in [1 .. n -> Byte]
BY Xor8Bits, Zenon DEF Corrupt

(* Corrupted twice with the same seed, a text that gains no comma is what   *)
(* it was.                                                                  *)
Toggled(n, b, size, step, seed) ==
  /\ n \in Nat /\ b \in [1 .. n -> Byte] /\ size \in Nat /\ step \in Nat \ {0} /\ seed \in Int
  /\ \A k \in 1 .. n : b[k] # Comma => Xor8(b[k], seed) # Comma

Untouched(b, size, step, seed) == Corrupt(Corrupt(b, size, step, seed), size, step, seed) = b

LEMMA CorruptTwice ==
  ASSUME NEW n \in Nat, NEW b \in [1 .. n -> Byte], NEW size \in Nat, NEW step \in Nat \ {0},
         NEW seed \in Int,
         \A k \in 1 .. n : b[k] # Comma => Xor8(b[k], seed) # Comma
  PROVE  Corrupt(Corrupt(b, size, step, seed), size, step, seed) = b
<1> DEFINE bad == Corrupt(b, size, step, seed)
           hit(k, t) == k <= size /\ (k - 1) % step = 0 /\ t[k] # Comma
<1>1. bad = [k \in 1 .. n |-> IF hit(k, b) THEN Xor8(b[k], seed) ELSE b[k]]
  BY Zenon DEF Corrupt
<1>2. Corrupt(bad, size, step, seed)
        = [k \in 1 .. n |-> IF hit(k, bad) THEN Xor8(bad[k], seed) ELSE bad[k]]
  BY <1>1, Zenon DEF Corrupt
<1>3. ASSUME NEW k \in 1 .. n
      PROVE  (IF hit(k, bad) THEN Xor8(bad[k], seed) ELSE bad[k]) = b[k]
  <2>1. CASE hit(k, b)
    <3>1. bad[k] = Xor8(b[k], seed) /\ bad[k] # Comma
      BY <1>1, <2>1, Zenon
    <3>2. Xor8(bad[k], seed) = b[k]
      BY <3>1, XorTwice, Zenon
    <3> QED BY <2>1, <3>1, <3>2, Zenon
  <2>2. CASE ~ hit(k, b)
    <3>1. bad[k] = b[k]
      BY <1>1, <2>2, Zenon
    <3> QED BY <2>2, <3>1, Zenon
  <2> QED BY <2>1, <2>2, Zenon
<1>4. Corrupt(bad, size, step, seed) = [k \in 1 .. n |-> b[k]]
  BY <1>2, <1>3, Zenon
<1> QED BY <1>4, Zenon

LEMMA Toggles ==
  ASSUME NEW n, NEW b, NEW size, NEW step, NEW seed, Toggled(n, b, size, step, seed)
  PROVE  Untouched(b, size, step, seed)
<1>1. /\ n \in Nat /\ b \in [1 .. n -> Byte] /\ size \in Nat /\ step \in Nat \ {0} /\ seed \in Int
      /\ \A k \in 1 .. n : b[k] # Comma => Xor8(b[k], seed) # Comma
  BY Zenon DEF Toggled
<1>2. Corrupt(Corrupt(b, size, step, seed), size, step, seed) = b
  BY <1>1, CorruptTwice
<1> QED BY <1>2, Zenon DEF Untouched

LEMMA FoldCountsType ==
  ASSUME NEW final, NEW track, NEW crc \in Half
  PROVE  FoldCounts(final, track, crc) \in Half
<1> DEFINE n == Len(States)
           Fold == [k \in DOMAIN States |-> [c \in Half |->
                      crcu32(track[States[k]], crcu32(final[States[k]], c))]]
<1>1. n \in Nat /\ DOMAIN States = 1 .. n
  BY DEF States
<1>2. \A k \in 1 .. n : Fold[k] \in [Half -> Half]
  BY <1>1, CrcType, Zenon
<1> HIDE DEF Fold, n
<1>3. Loop(n, Fold, crc) \in Half
  BY <1>1, <1>2, LoopType, Zenon
<1> QED BY <1>3, Zenon DEF FoldCounts, Fold, n

LEMMA StateBench ==
  ASSUME NEW n \in Nat, NEW b \in [1 .. n -> Byte], NEW size, NEW seed1, NEW seed2, NEW step,
         NEW crc \in Half
  PROVE  LET left == core_bench_state(size, b, seed1, seed2, step, crc)
         IN  /\ left.mem = Corrupt(Corrupt(b, size, step, seed1), size, step, seed2)
             /\ left.mem \in [1 .. n -> Byte]
             /\ left.crc \in Half
             /\ DOMAIN left = {"mem", "crc"}
<1> DEFINE bad == Corrupt(b, size, step, seed1)
           first == Tokens(b, NoCounts, NoCounts)
           second == Tokens(bad, first.final, first.track)
           left == [mem |-> Corrupt(bad, size, step, seed2),
                    crc |-> FoldCounts(second.final, second.track, crc)]
<1>1. core_bench_state(size, b, seed1, seed2, step, crc) = left
  BY Zenon DEF core_bench_state
<1>2. bad \in [1 .. n -> Byte] /\ Corrupt(bad, size, step, seed2) \in [1 .. n -> Byte]
  BY CorruptType, Zenon
<1>3. FoldCounts(second.final, second.track, crc) \in Half
  BY FoldCountsType, Zenon
<1> HIDE DEF bad, second
<1>4. left.mem = Corrupt(bad, size, step, seed2)
      /\ left.crc = FoldCounts(second.final, second.track, crc)
      /\ DOMAIN left = {"mem", "crc"}
  OBVIOUS
<1> QED BY <1>1, <1>2, <1>3, <1>4, Zenon DEF bad

-----------------------------------------------------------------------------
(* The matrix benchmark leaves A as it found it.                            *)

LEMMA DimensionType ==
  ASSUME NEW size \in Nat \ {0}
  PROVE  Dimension(size) \in Nat
<1> DEFINE S == {n \in 0 .. size : (n + 1) * (n + 1) * 8 >= size}
<1>1. size \in S
  <2>1. (size + 1) * (size + 1) >= size + 1
    BY SMT
  <2> QED BY <2>1, SMT
<1>2. PICK n \in S : \A x \in S : n <= x
  <2>1. S \in SUBSET Nat
    OBVIOUS
  <2> HIDE DEF S
  <2> QED BY <1>1, <2>1, Least
<1>3. n * n * 8 < size
  <2>1. CASE n = 0
    BY <2>1, SMT
  <2>2. CASE n # 0
    <3>1. n - 1 \in 0 .. size /\ n - 1 \notin S
      BY <1>2, <2>2, SMT
    <3>2. ~ (((n - 1) + 1) * ((n - 1) + 1) * 8 >= size)
      BY <3>1, Zenon
    <3>3. (n - 1) + 1 = n
      BY SMT
    <3> QED BY <3>2, <3>3, SMT
  <2> QED BY <2>1, <2>2
<1>4. n \in 0 .. size /\ (n + 1) * (n + 1) * 8 >= size
  BY DEF S
<1>5. Dimension(size) \in 0 .. size
  BY <1>3, <1>4, Zenon DEF Dimension
<1> QED BY <1>5

LEMMA GeneratedType ==
  ASSUME NEW N \in Nat, NEW seed \in Int
  PROVE  Generated(N, seed) \in [1 .. N * N -> Int]
<1> DEFINE Grow == [k \in 1 .. N * N |-> [x \in Int |-> U16(k * x)]]
           start == IF seed = 0 THEN 1 ELSE seed
<1>1. start \in Int
  OBVIOUS
<1>2. ASSUME NEW k \in 1 .. N * N PROVE Loop(k, Grow, start) \in Int
  <2>1. \A j \in 1 .. k, x \in Int : U16(j * x) \in Int
    <3> SUFFICES ASSUME NEW j \in 1 .. k, NEW x \in Int PROVE U16(j * x) \in Int
      OBVIOUS
    <3>1. j * x \in Int
      BY SMT
    <3> QED BY <3>1, U16Type, HalfInt, Zenon
  <2>2. \A j \in 1 .. k : Grow[j] \in [Int -> Int]
    <3>1. \A j \in 1 .. k : j \in 1 .. N * N
      BY SMT
    <3> QED BY <2>1, <3>1, Zenon
  <2>3. k \in Nat
    OBVIOUS
  <2> HIDE DEF Grow, start
  <2> QED BY <1>1, <2>2, <2>3, LoopType, Zenon
<1>3. Generated(N, seed) = [k \in 1 .. N * N |-> Loop(k, Grow, start)]
  BY Zenon DEF Generated
<1> QED BY <1>2, <1>3, Zenon

LEMMA S16Type == \A x \in Int : S16(x) \in Int
BY SMT DEF S16, U16

(* Adding a constant and then its negative, 16 bits wide, changes nothing.  *)
LEMMA S16Back ==
  ASSUME NEW x \in Int, -32768 <= x, x <= 32767, NEW v \in Int
  PROVE  S16(S16(x + v) + S16(-v)) = x
BY SMT DEF S16, U16

Elements(A) == \A c \in DOMAIN A : A[c] \in Int /\ -32768 <= A[c] /\ A[c] <= 32767

LEMMA InitMatrixType ==
  ASSUME NEW size \in Nat \ {0}, NEW seed \in Int
  PROVE  LET mt == core_init_matrix(size, seed)
         IN  /\ Elements(mt.A)
             /\ mt.A = [c \in DOMAIN mt.A |-> mt.A[c]]
             /\ mt = [N |-> mt.N, A |-> mt.A, B |-> mt.B]
<1> DEFINE N == Dimension(size)
           s == Generated(N, seed)
           order(c) == (c[1] - 1) * N + c[2]
           b == [c \in Cells(N) |-> S16(matrix_clip(s[order(c)] + order(c), FALSE))]
           A == [c \in Cells(N) |-> matrix_clip(b[c] + order(c), TRUE)]
<1>1. core_init_matrix(size, seed) = [N |-> N, A |-> A, B |-> b]
  BY Zenon DEF core_init_matrix
<1>2. N \in Nat
  BY DimensionType
<1>3. s \in [1 .. N * N -> Int]
  BY <1>2, GeneratedType
<1> HIDE DEF N, s
<1>4. ASSUME NEW c \in Cells(N)
      PROVE  order(c) \in 1 .. N * N
  <2>1. c[1] \in 1 .. N /\ c[2] \in 1 .. N
    BY DEF Cells
  <2>2. (c[1] - 1) * N >= 0 /\ (N - c[1]) * N >= 0
    BY <1>2, <2>1, SMT
  <2>3. (c[1] - 1) * N = c[1] * N - N /\ (N - c[1]) * N = N * N - c[1] * N
    BY <1>2, <2>1, SMT
  <2> QED BY <1>2, <2>1, <2>2, <2>3, SMT
<1>5. ASSUME NEW c \in Cells(N)
      PROVE  b[c] \in Int
  <2>1. s[order(c)] + order(c) \in Int
    <3> DEFINE o == order(c)
    <3>1. o \in 1 .. N * N
      BY <1>4
    <3>2. s[o] \in Int
      BY <1>3, <3>1, Zenon
    <3> HIDE DEF o
    <3>3. s[o] + o \in Int
      BY <1>2, <3>1, <3>2, SMT
    <3> QED BY <3>3, Zenon DEF o
  <2>2. matrix_clip(s[order(c)] + order(c), FALSE) \in Int
    <3>1. U16(s[order(c)] + order(c)) \in Int
      BY <2>1, U16Type, HalfInt, Zenon
    <3> QED BY <3>1, Zenon DEF matrix_clip
  <2> QED BY <2>2, S16Type, Zenon
<1>6. ASSUME NEW c \in Cells(N)
      PROVE  A[c] \in Int /\ -32768 <= A[c] /\ A[c] <= 32767
  <2> DEFINE o == order(c)
             sum == b[c] + o
  <2>1. sum \in Int
    <3>1. o \in 1 .. N * N
      BY <1>4
    <3>2. b[c] \in Int
      BY <1>5
    <3> HIDE DEF o, b
    <3> QED BY <1>2, <3>1, <3>2, SMT
  <2>2. A[c] = sum % 256
    BY Zenon DEF matrix_clip
  <2> HIDE DEF A, b, order, o, sum
  <2>3. \A x \in Int : x % 256 \in Int /\ -32768 <= x % 256 /\ x % 256 <= 32767
    BY SMT
  <2> DEFINE v == sum % 256
  <2>4. v \in Int /\ -32768 <= v /\ v <= 32767
    BY <2>1, <2>3
  <2> HIDE DEF v
  <2>5. A[c] = v
    BY <2>2 DEF v
  <2> QED BY <2>4, <2>5
<1>7. DOMAIN A = Cells(N)
  OBVIOUS
<1>8. A = [c \in DOMAIN A |-> A[c]]
  BY Zenon
<1> HIDE DEF A, b, order
<1>9. Elements(A)
  BY <1>6, <1>7, SMT DEF Elements
<1> QED BY <1>1, <1>8, <1>9

LEMMA MatrixBench ==
  ASSUME NEW mt, NEW A, mt.A = A, Elements(A), A = [c \in DOMAIN A |-> A[c]],
         NEW seed \in Int, NEW crc \in Half
  PROVE  LET left == core_bench_matrix(mt, seed, crc)
         IN  left.A = A /\ left.crc \in Half
<1> DEFINE val == S16(seed)
           once == matrix_add_const(A, val)
           twice == matrix_add_const(once, S16(-val))
           t == matrix_test(mt, val)
<1>1. val \in Int
  BY S16Type
<1>2. DOMAIN once = DOMAIN A /\ \A c \in DOMAIN A : once[c] = S16(A[c] + val)
  BY Zenon DEF matrix_add_const
<1>3. twice = [c \in DOMAIN A |-> S16(once[c] + S16(-val))]
  BY <1>2, Zenon DEF matrix_add_const
<1> HIDE DEF val, once, twice, t
<1>4. ASSUME NEW c \in DOMAIN A PROVE S16(once[c] + S16(-val)) = A[c]
  BY <1>1, <1>2, S16Back DEF Elements
<1>5. twice = A
  BY <1>3, <1>4, Zenon
<1>6. t.A = twice
  BY Zenon DEF t, twice, once, matrix_test
<1>7. core_bench_matrix(mt, seed, crc) = [A |-> t.A, crc |-> crc16(t.crc, crc)]
  BY Zenon DEF core_bench_matrix, t, val
<1>8. crc16(t.crc, crc) \in Half
  BY CrcType
<1> QED BY <1>5, <1>6, <1>7, <1>8

-----------------------------------------------------------------------------
(* Sequences and functions, and the chain of cells from a cell on.          *)

LEMMA FunIsSeq ==
  ASSUME NEW S, NEW n \in Nat, NEW f \in [1 .. n -> S]
  PROVE  f \in Seq(S) /\ Len(f) = n
OBVIOUS

LEMMA SeqIsFun ==
  ASSUME NEW S, NEW q \in Seq(S)
  PROVE  Len(q) \in Nat /\ q \in [1 .. Len(q) -> S]
OBVIOUS

LEMMA SeqFacts ==
  ASSUME NEW S, NEW t \in Seq(S)
  PROVE  /\ Len(t) \in Nat
         /\ t = <<>> <=> Len(t) = 0
         /\ \A k \in 1 .. Len(t) : t[k] \in S
         /\ \A e \in S : /\ Append(t, e) \in Seq(S)
                         /\ Len(Append(t, e)) = Len(t) + 1
                         /\ \A k \in 1 .. Len(t) : Append(t, e)[k] = t[k]
                         /\ Append(t, e)[Len(t) + 1] = e
OBVIOUS

LEMMA AppendFacts ==
  ASSUME NEW S, NEW t \in Seq(S), NEW e \in S
  PROVE  /\ Len(Append(t, e)) = Len(t) + 1
         /\ \A k \in 1 .. Len(t) : Append(t, e)[k] = t[k]
         /\ Append(t, e)[Len(t) + 1] = e
OBVIOUS

LEMMA JoinFacts ==
  ASSUME NEW n \in Nat, NEW x \in Seq(1 .. n), NEW y \in Seq(1 .. n)
  PROVE  /\ x \o y \in Seq(1 .. n)
         /\ Len(x \o y) = Len(x) + Len(y)
         /\ \A k \in 1 .. Len(x) : (x \o y)[k] = x[k]
         /\ \A k \in 1 .. Len(y) : (x \o y)[Len(x) + k] = y[k]
OBVIOUS

LEMMA SameSeq ==
  ASSUME NEW n \in Nat, NEW x \in Seq(1 .. n), NEW y \in Seq(1 .. n), NEW L \in Nat, Len(x) = L, Len(y) = L,
         \A k \in 1 .. L : x[k] = y[k]
  PROVE  x = y
OBVIOUS

(* Where the list goes on from the end of a sequence of cells.              *)
After(nx, c, t) == IF t = <<>> THEN c ELSE nx[t[Len(t)]]
Longer(t, x) == IF x = Null THEN t ELSE Append(t, x)

LEMMA AfterType ==
  ASSUME NEW n \in Nat, NEW nx \in [1 .. n -> 0 .. n], NEW c \in 0 .. n, NEW t \in Seq(1 .. n)
  PROVE  After(nx, c, t) \in 0 .. n /\ Longer(t, After(nx, c, t)) \in Seq(1 .. n)
<1>1. After(nx, c, t) \in 0 .. n
  <2>1. CASE t = <<>>
    BY <2>1 DEF After
  <2>2. CASE t # <<>>
    <3>1. Len(t) \in 1 .. Len(t)
      BY <2>2, SeqFacts
    <3>2. t[Len(t)] \in 1 .. n
      BY <3>1, SeqFacts
    <3> QED BY <2>2, <3>2 DEF After
  <2> QED BY <2>1, <2>2
<1> DEFINE x == After(nx, c, t)
<1> HIDE DEF x
<1>2. x \in 0 .. n
  BY <1>1 DEF x
<1>3. CASE x = Null
  BY <1>1, <1>3 DEF Longer, x
<1>4. CASE x # Null
  <2>1. x \in 1 .. n
    BY <1>2, <1>4 DEF Null
  <2>2. Append(t, x) \in Seq(1 .. n)
    BY <2>1, SeqFacts
  <2> QED BY <1>1, <1>4, <2>2 DEF Longer, x
<1> QED BY <1>3, <1>4

(* The passes of the loop of Chain.                                         *)
LEMMA ChainRuns ==
  ASSUME NEW n \in Nat, NEW nx \in [1 .. n -> 0 .. n], NEW c \in 0 .. n
  PROVE  \E g \in [0 .. n + 1 -> Seq(1 .. n)] :
           /\ Chain(nx, c) = g[n + 1]
           /\ g[0] = <<>>
           /\ \A k \in 1 .. n + 1 : g[k] = Longer(g[k - 1], After(nx, c, g[k - 1]))
<1> DEFINE Follow == [k \in 1 .. Len(nx) + 1 |-> [t \in Seq(Nat) |->
                        LET x == IF t = <<>> THEN c ELSE nx[t[Len(t)]]
                        IN  IF x = Null THEN t ELSE Append(t, x)]]
<1>1. Len(nx) = n
  BY FunIsSeq
<1>2. Seq(1 .. n) \subseteq Seq(Nat)
  OBVIOUS
<1>3. ASSUME NEW k \in 1 .. n + 1, NEW t \in Seq(1 .. n)
      PROVE  Follow[k][t] = Longer(t, After(nx, c, t))
  BY <1>1, <1>2, Zenon DEF Longer, After
<1>4. Chain(nx, c) = Loop(n + 1, Follow, <<>>)
  BY <1>1, Zenon DEF Chain
<1> HIDE DEF Follow
<1>5. \A k \in 1 .. n + 1, t \in Seq(1 .. n) : Follow[k][t] \in Seq(1 .. n)
  BY <1>3, AfterType
<1>6. <<>> \in Seq(1 .. n) /\ n + 1 \in Nat
  OBVIOUS
<1>7. PICK g \in [0 .. n + 1 -> Seq(1 .. n)] : Passes(n + 1, Follow, <<>>, g)
  BY <1>5, <1>6, LoopRuns, Zenon
<1>8. Loop(n + 1, Follow, <<>>) = g[n + 1]
  BY <1>6, <1>7, LoopIs, Zenon
<1>9. ASSUME NEW k \in 1 .. n + 1
      PROVE  g[k] = Longer(g[k - 1], After(nx, c, g[k - 1]))
  <2>1. k - 1 \in 0 .. n + 1
    OBVIOUS
  <2>2. g[k] = Follow[k][g[k - 1]] /\ g[k - 1] \in Seq(1 .. n)
    BY <1>7, <2>1, Zenon DEF Passes
  <2> QED BY <1>3, <2>2, Zenon
<1>10. g[0] = <<>>
  BY <1>7, Zenon DEF Passes
<1> QED BY <1>4, <1>8, <1>9, <1>10, Zenon

LEMMA ChainType ==
  ASSUME NEW n \in Nat, NEW nx \in [1 .. n -> 0 .. n], NEW c \in 0 .. n
  PROVE  Chain(nx, c) \in Seq(1 .. n) /\ Len(Chain(nx, c)) \in Nat
<1>1. n + 1 \in 0 .. n + 1
  OBVIOUS
<1>2. PICK g \in [0 .. n + 1 -> Seq(1 .. n)] : Chain(nx, c) = g[n + 1]
  BY ChainRuns
<1>3. Chain(nx, c) \in Seq(1 .. n)
  BY <1>1, <1>2
<1> QED BY <1>3, SeqIsFun

LEMMA ChainNull ==
  ASSUME NEW n \in Nat, NEW nx \in [1 .. n -> 0 .. n]
  PROVE  Chain(nx, Null) = <<>>
<1>1. Null \in 0 .. n
  BY DEF Null
<1>2. PICK g \in [0 .. n + 1 -> Seq(1 .. n)] :
        /\ Chain(nx, Null) = g[n + 1]
        /\ g[0] = <<>>
        /\ \A k \in 1 .. n + 1 : g[k] = Longer(g[k - 1], After(nx, Null, g[k - 1]))
  BY <1>1, ChainRuns
<1> DEFINE S == {k \in 0 .. n + 1 : g[k] = <<>>}
<1>3. 0 \in S
  BY <1>2
<1>4. \A k \in 1 .. n + 1 : k - 1 \in S => k \in S
  <2> SUFFICES ASSUME NEW k \in 1 .. n + 1, k - 1 \in S PROVE k \in S
    OBVIOUS
  <2>1. g[k - 1] = <<>> /\ k \in 0 .. n + 1
    OBVIOUS
  <2>2. g[k] = <<>>
    BY <1>2, <2>1, Zenon DEF Longer, After
  <2> QED BY <2>1, <2>2
<1> HIDE DEF S
<1>5. n + 1 \in Nat /\ n + 1 \in 0 .. n + 1
  OBVIOUS
<1>6. n + 1 \in S
  BY <1>3, <1>4, <1>5, Induction, Zenon
<1> QED BY <1>2, <1>6, Zenon DEF S

(* A chain begins with any cells that are linked, and is no longer if the   *)
(* last one has no successor.                                               *)
Linked(nx, s, L) == \A k \in 1 .. L - 1 : nx[s[k]] = s[k + 1]
Agree(t, d, s, L) == Len(t) = d /\ \A j \in 1 .. L : j <= d => t[j] = s[j]

(* How the length d of a chain becomes e.                                   *)
Grows(d, e, L, end) ==
  /\ d < L => e = d + 1
  /\ d >= L => e >= L
  /\ end = Null /\ d = L => e = d

(* How long a chain is after k passes.                                      *)
After_k(k, d, L, end) ==
  /\ k < L => d = k
  /\ k >= L => d >= L
  /\ k >= L /\ end = Null => d = L

LEMMA GrowsOn ==
  ASSUME NEW n \in Nat, NEW L \in 1 .. n, NEW k \in 1 .. n + 1, NEW d \in Nat, NEW e \in Nat,
         NEW end, After_k(k - 1, d, L, end), Grows(d, e, L, end)
  PROVE  After_k(k, e, L, end)
BY DEF After_k, Grows

LEMMA ChainStep ==
  ASSUME NEW n \in Nat, NEW nx \in [1 .. n -> 0 .. n],
         NEW L \in Nat, L >= 1, NEW s \in [1 .. L -> 1 .. n], Linked(nx, s, L),
         NEW t \in Seq(1 .. n), NEW d \in Nat, Agree(t, d, s, L)
  PROVE  \E e \in Nat :
           /\ Agree(Longer(t, After(nx, s[1], t)), e, s, L)
           /\ Grows(d, e, L, nx[s[L]])
<1> USE DEF Linked, Agree, Grows
<1> DEFINE x == After(nx, s[1], t)
           new == Longer(t, x)
<1>1. x \in 0 .. n
  <2> 1 \in 1 .. L /\ \A k \in 1 .. L : s[k] \in 0 .. n
    OBVIOUS
  <2> QED BY AfterType
<1>2. t = <<>> <=> d = 0
  BY SeqFacts
<1>3. d < L => x = s[d + 1]
  <2>1. CASE t = <<>>
    BY <1>2, <2>1 DEF After
  <2>2. CASE t # <<>> /\ d < L
    <3>1. d \in 1 .. L - 1
      BY <1>2, <2>2
    <3>2. t[d] = s[d] /\ nx[s[d]] = s[d + 1]
      BY <3>1
    <3> QED BY <2>2, <3>2 DEF After
  <2> QED BY <2>1, <2>2
<1>4. nx[s[L]] = Null /\ d = L => x = Null
  <2> SUFFICES ASSUME nx[s[L]] = Null, d = L PROVE x = Null
    OBVIOUS
  <2>1. t # <<>> /\ t[d] = s[L]
    BY <1>2
  <2> QED BY <2>1 DEF After
<1>5. new = Longer(t, x)
  OBVIOUS
<1> HIDE DEF x, new
<1>6. CASE x = Null
  <2>1. new = t
    BY <1>5, <1>6 DEF Longer
  <2>2. d >= L
    <3>1. d < L => s[d + 1] \in 1 .. n
      OBVIOUS
    <3> QED BY <1>3, <1>6, <3>1 DEF Null
  <2>3. Agree(new, d, s, L)
    BY <2>1
  <2>4. ~ (d < L)
    BY <2>2
  <2> HIDE DEF Agree
  <2> QED BY <2>2, <2>3, <2>4, Zenon DEF new, x
<1>7. CASE x # Null
  <2>1. x \in 1 .. n /\ new = Append(t, x)
    BY <1>1, <1>5, <1>7 DEF Longer, Null
  <2>2. /\ Len(new) = d + 1
        /\ \A k \in 1 .. d : new[k] = t[k]
        /\ new[d + 1] = x
    <3>1. /\ Len(Append(t, x)) = Len(t) + 1
          /\ \A k \in 1 .. Len(t) : Append(t, x)[k] = t[k]
          /\ Append(t, x)[Len(t) + 1] = x
      BY <2>1, AppendFacts, Zenon
    <3> QED BY <2>1, <3>1
  <2>3. \A j \in 1 .. L : j <= d + 1 => new[j] = s[j]
    <3> SUFFICES ASSUME NEW j \in 1 .. L, j <= d + 1 PROVE new[j] = s[j]
      OBVIOUS
    <3>1. CASE j = d + 1
      BY <1>3, <2>2, <3>1
    <3>2. CASE j # d + 1
      <4>1. j \in 1 .. d /\ j <= d
        BY <3>2
      <4>2. new[j] = t[j] /\ t[j] = s[j]
        BY <2>2, <4>1
      <4> QED BY <4>2
    <3> QED BY <3>1, <3>2
  <2>4. d + 1 \in Nat /\ Agree(new, d + 1, s, L)
    BY <2>2, <2>3
  <2> HIDE DEF Agree
  <2> QED BY <1>4, <1>7, <2>4 DEF new, x
<1> QED BY <1>6, <1>7

LEMMA ChainEnd ==
  ASSUME NEW n \in Nat, NEW L \in 1 .. n, NEW s \in [1 .. L -> 1 .. n],
         NEW c \in Seq(1 .. n), NEW d \in Nat, Agree(c, d, s, L),
         NEW end, After_k(n + 1, d, L, end)
  PROVE  /\ Len(c) >= L
         /\ \A k \in 1 .. L : c[k] = s[k]
         /\ end = Null => c = s
<1>1. Len(c) = d /\ d >= L /\ (end = Null => d = L)
  BY DEF Agree, After_k
<1>2. \A k \in 1 .. L : c[k] = s[k]
  BY <1>1 DEF Agree
<1>3. end = Null => c = s
  <2> SUFFICES ASSUME d = L PROVE c = s
    BY <1>1
  <2>1. c \in [1 .. d -> 1 .. n]
    BY <1>1, SeqIsFun
  <2> QED BY <1>2, <2>1
<1> QED BY <1>1, <1>2, <1>3

LEMMA ChainIs ==
  ASSUME NEW n \in Nat, NEW nx \in [1 .. n -> 0 .. n],
         NEW L \in 1 .. n, NEW s \in [1 .. L -> 1 .. n], Linked(nx, s, L)
  PROVE  /\ Len(Chain(nx, s[1])) >= L
         /\ \A k \in 1 .. L : Chain(nx, s[1])[k] = s[k]
         /\ nx[s[L]] = Null => Chain(nx, s[1]) = s
<1>1. L \in Nat /\ L >= 1 /\ s[1] \in 0 .. n
  OBVIOUS
<1>2. PICK g \in [0 .. n + 1 -> Seq(1 .. n)] :
        /\ Chain(nx, s[1]) = g[n + 1]
        /\ g[0] = <<>>
        /\ \A k \in 1 .. n + 1 : g[k] = Longer(g[k - 1], After(nx, s[1], g[k - 1]))
  BY <1>1, ChainRuns
<1> DEFINE Good(t, k) == \E d \in Nat :
             Agree(t, d, s, L) /\ After_k(k, d, L, nx[s[L]])
           S == {k \in 0 .. n + 1 : Good(g[k], k)}
<1>3. Good(<<>>, 0)
  <2>1. Agree(<<>>, 0, s, L)
    BY SeqFacts DEF Agree
  <2>2. After_k(0, 0, L, nx[s[L]])
    BY <1>1 DEF After_k
  <2> QED BY <2>1, <2>2
<1>4. ASSUME NEW k \in 1 .. n + 1, Good(g[k - 1], k - 1) PROVE Good(g[k], k)
  <2> DEFINE t == g[k - 1]
             new == Longer(t, After(nx, s[1], t))
  <2>1. t \in Seq(1 .. n)
    <3>1. k - 1 \in 0 .. n + 1
      OBVIOUS
    <3> QED BY <3>1
  <2>2. g[k] = new
    BY <1>2
  <2>3. PICK d \in Nat : Agree(t, d, s, L) /\ After_k(k - 1, d, L, nx[s[L]])
    BY <1>4, Zenon
  <2> HIDE DEF t
  <2>4. PICK e \in Nat : Agree(new, e, s, L) /\ Grows(d, e, L, nx[s[L]])
    BY <1>1, <2>1, <2>3, ChainStep, Zenon
  <2> HIDE DEF new, S
  <2>5. After_k(k, e, L, nx[s[L]])
    BY <2>3, <2>4, GrowsOn, Zenon
  <2>6. Good(new, k)
    BY <2>4, <2>5, Zenon
  <2> QED BY <2>2, <2>6, Zenon
<1> HIDE DEF Good
<1>5. 0 \in S
  BY <1>2, <1>3
<1>6. \A k \in 1 .. n + 1 : k - 1 \in S => k \in S
  <2>1. \A k \in 1 .. n + 1 : k \in 0 .. n + 1
    OBVIOUS
  <2> QED BY <1>4, <2>1, Zenon
<1>7. n + 1 \in Nat /\ n + 1 \in 0 .. n + 1
  OBVIOUS
<1>8. n + 1 \in S
  <2> HIDE DEF S
  <2> QED BY <1>5, <1>6, <1>7, Induction, Zenon
<1> DEFINE c == Chain(nx, s[1])
<1>9. c \in Seq(1 .. n)
  BY <1>2, <1>7
<1>10. Good(c, n + 1)
  BY <1>2, <1>8
<1> HIDE DEF c
<1>11. PICK d \in Nat : Agree(c, d, s, L) /\ After_k(n + 1, d, L, nx[s[L]])
  BY <1>10, Zenon DEF Good
<1> DEFINE end == nx[s[L]]
<1> HIDE DEF end, S
<1>12. Agree(c, d, s, L) /\ After_k(n + 1, d, L, end)
  BY <1>11, Zenon DEF end
<1>13. /\ Len(c) >= L
       /\ \A k \in 1 .. L : c[k] = s[k]
       /\ end = Null => c = s
  BY <1>9, <1>12, ChainEnd
<1> QED BY <1>13, Zenon DEF c, end

(* ChainIs with its hypotheses and its conclusion under names.              *)
Strung(n, nx, L, s) ==
  /\ n \in Nat /\ nx \in [1 .. n -> 0 .. n]
  /\ L \in 1 .. n /\ s \in [1 .. L -> 1 .. n] /\ Linked(nx, s, L)

StrungTo(c, nx, L, s) ==
  /\ Len(c) >= L
  /\ \A k \in 1 .. L : c[k] = s[k]
  /\ nx[s[L]] = Null => c = s

LEMMA StrungIs ==
  ASSUME NEW n, NEW nx, NEW L, NEW s, Strung(n, nx, L, s)
  PROVE  StrungTo(Chain(nx, s[1]), nx, L, s)
BY ChainIs DEF Strung, StrungTo

(* L elements of s, from the one behind the b-th on.                        *)
From(s, b, L) == [k \in 1 .. L |-> s[b + k]]

Stretch(n, N, s, b, L) ==
  N \in Nat /\ n \in Nat /\ s \in [1 .. N -> 1 .. n] /\ b \in Nat /\ L \in Nat /\ b + L <= N

IsPart(x, n, s, b, L) == x \in Seq(1 .. n) /\ Len(x) = L /\ \A k \in 1 .. L : x[k] = s[b + k]

LEMMA FromType ==
  ASSUME NEW n, NEW N, NEW s, NEW b, NEW L, Stretch(n, N, s, b, L)
  PROVE  /\ From(s, b, L) \in [1 .. L -> 1 .. n]
         /\ From(s, b, L) \in Seq(1 .. n)
         /\ Len(From(s, b, L)) = L
         /\ \A k \in 1 .. L : From(s, b, L)[k] = s[b + k]
<1>1. From(s, b, L) \in [1 .. L -> 1 .. n]
  BY DEF From, Stretch
<1>2. \A k \in 1 .. L : From(s, b, L)[k] = s[b + k]
  BY DEF From, Stretch
<1> USE DEF Stretch
<1> QED BY <1>1, <1>2, FunIsSeq

LEMMA FromPart ==
  ASSUME NEW n, NEW N, NEW s, NEW b, NEW L, Stretch(n, N, s, b, L)
  PROVE  IsPart(From(s, b, L), n, s, b, L)
BY FromType DEF IsPart

LEMMA FromStart ==
  ASSUME NEW n, NEW N, NEW s, NEW L, Stretch(n, N, s, 0, L)
  PROVE  /\ From(s, 0, L) \in [1 .. L -> 1 .. n]
         /\ From(s, 0, L) \in Seq(1 .. n)
         /\ Len(From(s, 0, L)) = L
         /\ \A k \in 1 .. L : From(s, 0, L)[k] = s[k]
<1> USE DEF Stretch
<1> DEFINE x == From(s, 0, L)
<1>1. \A k \in 1 .. L : 0 + k = k /\ k \in 1 .. N
  OBVIOUS
<1>2. x = [k \in 1 .. L |-> s[0 + k]]
  BY DEF From
<1>3. \A k \in 1 .. L : x[k] = s[k]
  BY <1>1, <1>2
<1>4. x \in [1 .. L -> 1 .. n]
  BY <1>1, <1>2
<1> HIDE DEF x
<1>5. x \in Seq(1 .. n) /\ Len(x) = L
  BY <1>4, FunIsSeq
<1> QED BY <1>3, <1>4, <1>5 DEF x

JoinedAt(s, b, L) == From(s, 0, b) \o From(s, b, L) = From(s, 0, b + L)

LEMMA Joined ==
  ASSUME NEW n, NEW N, NEW s, NEW b, NEW L, Stretch(n, N, s, b, L)
  PROVE  JoinedAt(s, b, L)
<1> DEFINE x == From(s, 0, b)
           y == From(s, b, L)
           z == From(s, 0, b + L)
           T == b + L
<1>1. /\ Stretch(n, N, s, 0, b) /\ Stretch(n, N, s, 0, T)
      /\ n \in Nat /\ b \in Nat /\ L \in Nat /\ T \in Nat
  BY DEF Stretch
<1>2. x \in Seq(1 .. n) /\ Len(x) = b /\ \A k \in 1 .. b : x[k] = s[k]
  BY <1>1, FromStart
<1>3. y \in Seq(1 .. n) /\ Len(y) = L /\ \A k \in 1 .. L : y[k] = s[b + k]
  BY FromType
<1>4. z \in Seq(1 .. n) /\ Len(z) = T /\ \A k \in 1 .. T : z[k] = s[k]
  BY <1>1, FromStart
<1>5. /\ \A k \in 1 .. b : x[k] = s[k]
      /\ \A k \in 1 .. L : y[k] = s[b + k]
      /\ \A k \in 1 .. T : z[k] = s[k]
  BY <1>2, <1>3, <1>4
<1> HIDE DEF x, y, z, T
<1>6. /\ x \o y \in Seq(1 .. n)
      /\ Len(x \o y) = Len(x) + Len(y)
      /\ \A k \in 1 .. Len(x) : (x \o y)[k] = x[k]
      /\ \A k \in 1 .. Len(y) : (x \o y)[Len(x) + k] = y[k]
  BY <1>1, <1>2, <1>3, JoinFacts, Zenon
<1> DEFINE c == x \o y
<1> HIDE DEF c
<1>7. /\ c \in Seq(1 .. n) /\ Len(c) = T
      /\ \A k \in 1 .. b : c[k] = x[k]
      /\ \A k \in 1 .. L : c[b + k] = y[k]
  BY <1>2, <1>3, <1>6, Zenon DEF c, T
<1>8. \A k \in 1 .. T : c[k] = z[k]
  <2> SUFFICES ASSUME NEW k \in 1 .. T PROVE c[k] = z[k]
    OBVIOUS
  <2>1. CASE k <= b
    BY <1>1, <1>5, <1>7, <2>1
  <2>2. CASE k > b
    <3>1. k - b \in 1 .. L /\ b + (k - b) = k
      BY <1>1, <2>2 DEF T
    <3>2. c[k] = y[k - b] /\ y[k - b] = s[k]
      BY <1>5, <1>7, <3>1
    <3> QED BY <1>5, <3>2
  <2> QED BY <1>1, <2>1, <2>2 DEF T
<1>9. c = z
  BY <1>1, <1>4, <1>7, <1>8, SameSeq, Zenon
<1> QED BY <1>9, Zenon DEF x, y, z, c, T, JoinedAt

LEMMA FromAll ==
  ASSUME NEW N \in Nat, NEW n \in Nat, NEW s \in [1 .. N -> 1 .. n]
  PROVE  From(s, 0, N) = s
BY DEF From

(* A heap and a list in it; cells of it that are linked; and a sequence     *)
(* that begins with such cells.                                             *)
ListIn(n, nx, N, s) ==
  /\ n \in Nat /\ nx \in [1 .. n -> 0 .. n]
  /\ N \in 1 .. n /\ s \in [1 .. N -> 1 .. n]
  /\ \A j, k \in 1 .. N : s[j] = s[k] => j = k

Links(nx, s, j, k) == \A x \in j .. k - 1 : nx[s[x]] = s[x + 1]

Begins(c, n, s, b, L) == c \in Seq(1 .. n) /\ Len(c) >= L /\ \A k \in 1 .. L : c[k] = s[b + k]

LEMMA ChainFrom ==
  ASSUME NEW n, NEW nx, NEW N, NEW s, NEW b, NEW L, ListIn(n, nx, N, s),
         Stretch(n, N, s, b, L), L # 0, Links(nx, s, b + 1, b + L)
  PROVE  /\ Begins(Chain(nx, s[b + 1]), n, s, b, L)
         /\ nx[s[b + L]] = Null => Chain(nx, s[b + 1]) = From(s, b, L)
<1> USE DEF ListIn, Stretch
<1> DEFINE t == From(s, b, L)
<1>1. t \in [1 .. L -> 1 .. n] /\ \A k \in 1 .. L : t[k] = s[b + k]
  BY SMTT(30) DEF From
<1>2. L \in 1 .. n
  OBVIOUS
<1>3. t[1] = s[b + 1] /\ t[L] = s[b + L] /\ s[b + 1] \in 0 .. n
  <2>1. 1 \in 1 .. L /\ L \in 1 .. L /\ \A x \in 1 .. n : x \in 0 .. n
    BY <1>2
  <2> QED BY <1>1, <2>1, Zenon
<1>4. Linked(nx, t, L)
  <2> HIDE DEF t
  <2> SUFFICES ASSUME NEW k \in 1 .. L - 1 PROVE nx[t[k]] = t[k + 1]
    BY DEF Linked
  <2>1. b + k \in b + 1 .. b + L - 1 /\ k \in 1 .. L /\ k + 1 \in 1 .. L /\ b + (k + 1) = (b + k) + 1
    OBVIOUS
  <2>2. nx[s[b + k]] = s[(b + k) + 1]
    BY <2>1 DEF Links
  <2> QED BY <1>1, <2>1, <2>2
<1> HIDE DEF t
<1>5. /\ Len(Chain(nx, t[1])) >= L
      /\ \A k \in 1 .. L : Chain(nx, t[1])[k] = t[k]
      /\ nx[t[L]] = Null => Chain(nx, t[1]) = t
  <2>1. Strung(n, nx, L, t)
    BY <1>1, <1>2, <1>4 DEF Strung
  <2>2. StrungTo(Chain(nx, t[1]), nx, L, t)
    BY <2>1, StrungIs, Zenon
  <2> QED BY <2>2, Zenon DEF StrungTo
<1>6. Chain(nx, s[b + 1]) \in Seq(1 .. n)
  BY <1>3, ChainType, Zenon
<1> QED BY <1>1, <1>3, <1>5, <1>6, Zenon DEF t, Begins

LEMMA SubFacts ==
  ASSUME NEW n \in Nat, NEW c \in Seq(1 .. n), NEW L \in 0 .. Len(c)
  PROVE  /\ SubSeq(c, 1, L) \in Seq(1 .. n)
         /\ Len(SubSeq(c, 1, L)) = L
         /\ \A k \in 1 .. L : SubSeq(c, 1, L)[k] = c[k]
OBVIOUS

LEMMA FirstCells ==
  ASSUME NEW n, NEW N, NEW s, NEW b, NEW L, NEW c, Stretch(n, N, s, b, L), Begins(c, n, s, b, L)
  PROVE  SubSeq(c, 1, L) = From(s, b, L)
<1> DEFINE x == SubSeq(c, 1, L)
           y == From(s, b, L)
<1>1. x \in Seq(1 .. n) /\ Len(x) = L /\ \A k \in 1 .. L : x[k] = c[k]
  <2>1. L \in 0 .. Len(c) /\ n \in Nat /\ c \in Seq(1 .. n)
    BY DEF Stretch, Begins
  <2> QED BY <2>1, SubFacts
<1>2. y \in Seq(1 .. n) /\ Len(y) = L /\ \A k \in 1 .. L : y[k] = s[b + k]
  <2>1. IsPart(y, n, s, b, L)
    BY FromPart, Zenon
  <2> QED BY <2>1, Zenon DEF IsPart
<1> HIDE DEF x, y
<1>3. \A k \in 1 .. L : x[k] = y[k]
  BY <1>1, <1>2 DEF Begins
<1>4. x = y
  <2>1. n \in Nat /\ L \in Nat
    BY DEF Stretch
  <2> QED BY <1>1, <1>2, <1>3, <2>1, SameSeq
<1> QED BY <1>4 DEF x, y

(* The first cells of a chain, up to a given one, and given their number.   *)
LEMMA UptoIs ==
  ASSUME NEW n, NEW nx, NEW N, NEW s, NEW L, NEW c, ListIn(n, nx, N, s), L \in 1 .. N,
         Begins(c, n, s, 0, L)
  PROVE  Upto(c, s[L]) = From(s, 0, L)
<1> USE DEF ListIn
<1> DEFINE P(k) == k \in DOMAIN c /\ c[k] = s[L] /\ \A j \in 1 .. k - 1 : c[j] # s[L]
           e == CHOOSE k \in DOMAIN c : c[k] = s[L] /\ \A j \in 1 .. k - 1 : c[j] # s[L]
<1>1. /\ c \in Seq(1 .. n) /\ DOMAIN c = 1 .. Len(c) /\ Len(c) \in Nat /\ Len(c) >= L
      /\ \A k \in 1 .. L : c[k] = s[k]
  BY DEF Begins
<1>2. P(L)
  <2>1. \A j \in 1 .. L - 1 : c[j] = s[j] /\ j # L /\ j \in 1 .. N
    BY <1>1, SMTT(30)
  <2>2. L \in DOMAIN c
    BY <1>1
  <2> QED BY <1>1, <2>1, <2>2
<1>3. ASSUME NEW k, P(k) PROVE k = L
  <2>1. k \in Nat /\ k >= 1
    BY <1>1, <1>3
  <2>2. ~ (k < L)
    <3> SUFFICES ASSUME k < L PROVE FALSE
      OBVIOUS
    <3>1. k \in 1 .. L /\ k \in 1 .. N /\ k # L
      BY <2>1
    <3>2. c[k] = s[k]
      BY <1>1, <3>1
    <3> QED BY <1>3, <3>1, <3>2
  <2>3. ~ (k > L)
    <3> SUFFICES ASSUME k > L PROVE FALSE
      OBVIOUS
    <3>1. L \in 1 .. k - 1
      BY <2>1
    <3>2. c[L] # s[L]
      BY <1>3, <3>1
    <3> QED BY <1>1, <3>2
  <2> QED BY <2>1, <2>2, <2>3
<1>4. e = L
  <2>1. P(e)
    BY <1>2, Zenon
  <2> QED BY <1>3, <2>1, Zenon
<1>5. Upto(c, s[L]) = SubSeq(c, 1, L)
  BY <1>4, Zenon DEF Upto
<1> HIDE DEF e
<1>6. Stretch(n, N, s, 0, L)
  BY DEF Stretch
<1> HIDE DEF ListIn
<1>7. SubSeq(c, 1, L) = From(s, 0, L)
  BY <1>6, FirstCells
<1> QED BY <1>5, <1>7, Zenon

(* The three parts of a list that a merge works on, as Parts has them.      *)
LEMMA FromNone ==
  ASSUME NEW n, NEW N, NEW s, NEW b, Stretch(n, N, s, b, 0)
  PROVE  From(s, b, 0) = <<>>
<1>1. IsPart(From(s, b, 0), n, s, b, 0)
  BY FromPart, Zenon
<1> DEFINE x == From(s, b, 0)
<1> HIDE DEF x
<1>2. x \in Seq(1 .. n) /\ Len(x) = 0
  BY <1>1, Zenon DEF IsPart, x
<1>3. x = <<>>
  BY <1>2, SeqFacts
<1> QED BY <1>3 DEF x

OutOf(n, nx, N, s, a, out, tail) ==
  /\ ListIn(n, nx, N, s) /\ a \in 0 .. N /\ Links(nx, s, 1, a)
  /\ out = (IF a = 0 THEN Null ELSE s[1])
  /\ tail = (IF a = 0 THEN Null ELSE s[a])

OutIn(nx, s, a, out, tail) ==
  (IF tail = Null THEN <<>> ELSE Upto(Chain(nx, out), tail)) = From(s, 0, a)

LEMMA OutIs ==
  ASSUME NEW n, NEW nx, NEW N, NEW s, NEW a, NEW out, NEW tail, OutOf(n, nx, N, s, a, out, tail)
  PROVE  OutIn(nx, s, a, out, tail)
<1> USE DEF OutOf, OutIn
<1>1. Stretch(n, N, s, 0, a)
  BY DEF Stretch, ListIn
<1>2. CASE a = 0
  <2>1. Stretch(n, N, s, 0, 0)
    BY <1>1, <1>2
  <2> QED BY <1>2, <2>1, FromNone
<1>3. CASE a # 0
  <2>1. a \in 1 .. N /\ 0 + 1 = 1 /\ 0 + a = a
    BY <1>3 DEF ListIn
  <2>2. Links(nx, s, 0 + 1, 0 + a)
    BY <2>1
  <2>3. Begins(Chain(nx, s[0 + 1]), n, s, 0, a)
    BY <1>1, <1>3, <2>2, ChainFrom, Zenon
  <2>4. Begins(Chain(nx, s[1]), n, s, 0, a)
    BY <2>1, <2>3
  <2>5. Upto(Chain(nx, s[1]), s[a]) = From(s, 0, a)
    BY <2>1, <2>4, UptoIs
  <2>6. tail # Null /\ tail = s[a] /\ out = s[1]
    <3>1. s[a] \in 1 .. n
      BY <2>1 DEF ListIn
    <3> QED BY <1>3, <3>1 DEF Null
  <2> QED BY <2>5, <2>6
<1> QED BY <1>2, <1>3

Rest(n, nx, N, s, b, c) ==
  /\ ListIn(n, nx, N, s) /\ b \in 0 .. N /\ Links(nx, s, b + 1, N)
  /\ b # N => nx[s[N]] = Null
  /\ c = (IF b = N THEN Null ELSE s[b + 1])

RestIn(nx, c, s, b, N) == Chain(nx, c) = From(s, b, N - b)

LEMMA RestIs ==
  ASSUME NEW n, NEW nx, NEW N, NEW s, NEW b, NEW c, Rest(n, nx, N, s, b, c)
  PROVE  RestIn(nx, c, s, b, N)
<1> USE DEF Rest
<1> DEFINE L == N - b
<1>1. L \in Nat /\ b + L = N /\ Stretch(n, N, s, b, L) /\ (L = 0 <=> b = N)
  BY DEF Stretch, ListIn
<1> HIDE DEF L
<1>2. CASE b = N
  <2>1. Chain(nx, c) = <<>>
    BY <1>2, ChainNull DEF ListIn
  <2>2. Stretch(n, N, s, b, 0) /\ L = 0
    BY <1>1, <1>2
  <2>3. From(s, b, 0) = <<>>
    BY <2>2, FromNone, Zenon
  <2> QED BY <2>1, <2>2, <2>3 DEF L, RestIn
<1>3. CASE b # N
  <2>1. Links(nx, s, b + 1, b + L)
    BY <1>1
  <2>2. nx[s[b + L]] = Null => Chain(nx, s[b + 1]) = From(s, b, L)
    <3>1. L # 0
      BY <1>1, <1>3
    <3> QED BY <1>1, <2>1, <3>1, ChainFrom
  <2> QED BY <1>1, <1>3, <2>2 DEF L, RestIn
<1> QED BY <1>2, <1>3 DEF RestIn

RunOf(n, nx, N, s, b, L, p) ==
  /\ ListIn(n, nx, N, s) /\ Stretch(n, N, s, b, L) /\ Links(nx, s, b + 1, b + L)
  /\ L > 0 => p = s[b + 1]

RunIn(nx, s, b, L, p) == SubSeq(Chain(nx, p), 1, L) = From(s, b, L)

LEMMA RunIs ==
  ASSUME NEW n, NEW nx, NEW N, NEW s, NEW b, NEW L, NEW p, RunOf(n, nx, N, s, b, L, p)
  PROVE  RunIn(nx, s, b, L, p)
<1> USE DEF RunOf, RunIn
<1>1. CASE L = 0
  <2>1. SubSeq(Chain(nx, p), 1, 0) = <<>>
    OBVIOUS
  <2>2. From(s, b, 0) = <<>>
    BY <1>1, FromNone
  <2> QED BY <1>1, <2>1, <2>2
<1>2. CASE L # 0
  <2>1. p = s[b + 1]
    BY <1>2 DEF Stretch
  <2>2. Begins(Chain(nx, s[b + 1]), n, s, b, L)
    BY <1>2, ChainFrom, Zenon
  <2>3. SubSeq(Chain(nx, s[b + 1]), 1, L) = From(s, b, L)
    BY <2>2, FirstCells
  <2> QED BY <2>1, <2>3
<1> QED BY <1>1, <1>2

-----------------------------------------------------------------------------
(* The inductive invariant.  The heap has n cells, N of which are in the    *)
(* list: s[1] is the first of them, as Parts has them.  While a sort goes   *)
(* on, a of them have been put out; in a merge, a0 had been when it began.  *)

Fresh(x) == (x \div 256) * 257
Largest == 32767
Number == 0 .. Largest
Datum == [idx : Number, data16 : Half]

Text0 == core_init_state(input.size, input.seed1)
Matrix0 == core_init_matrix(input.size, input.seed1 + input.seed2 * 65536)

Results == [crc : Half, crclist : Half, crcmatrix : Half, crcstate : Half, list : {0, 1}]

Undoes ==
  /\ input.seed1 = input.seed2
  /\ \A k \in 1 .. input.size : Text0[k] # Comma => Xor8(Text0[k], input.seed1) # Comma

Kernels ==
  /\ input \in Inputs
  /\ mem \in [1 .. input.size -> Byte]
  /\ mat = Matrix0
  /\ res \in Results
  /\ retval \in Half
  /\ call = 0 \/ Undoes => mem = Text0

Heap(n) ==
  /\ n \in Nat /\ n >= 2
  /\ next \in [1 .. n -> 0 .. n]
  /\ info \in [1 .. n -> 1 .. n]
  /\ data \in [1 .. n -> Datum]
  /\ list \in 1 .. n
  /\ remover \in 0 .. n
  /\ call \in Nat
  /\ at \notin {"crc", "undo"} => \A c \in 1 .. n : info[c] = c

(* The list; and that no cell with an index is missed.                      *)
Ring(n, N, s) ==
  /\ N \in Nat /\ N >= 2 /\ N <= n
  /\ s \in [1 .. N -> 1 .. n]
  /\ \A j, k \in 1 .. N : s[j] = s[k] => j = k

Member(n, N, s) ==
  \A c \in 1 .. n : call <= 1 \/ c = 1 \/ data[c].idx # 0 => \E k \in 1 .. N : s[k] = c

Whole(N, s) ==
  /\ list = s[1]
  /\ \A k \in 1 .. N - 1 : next[s[k]] = s[k + 1]
  /\ next[s[N]] = Null

(* The cell that was removed is the last of s, and its datum is the one of  *)
(* the second.                                                              *)
Removed(n, N, s) ==
  /\ N >= 3
  /\ list = s[1]
  /\ \A k \in 1 .. N - 2 : next[s[k]] = s[k + 1]
  /\ next[s[N - 1]] = Null
  /\ remover = s[N]
  /\ info[s[2]] = s[N] /\ info[s[N]] = s[2]
  /\ \A c \in 1 .. n : c # s[2] /\ c # s[N] => info[c] = c

SplitShape(N, s, a) ==
  /\ a \in 0 .. N
  /\ m.out = (IF a = 0 THEN Null ELSE s[1])
  /\ m.tail = (IF a = 0 THEN Null ELSE s[a])
  /\ m.p = (IF a = N THEN Null ELSE s[a + 1])
  /\ \A k \in 1 .. N - 1 : k # a => next[s[k]] = s[k + 1]
  /\ a # N => next[s[N]] = Null

TakeShape(N, s, a) ==
  /\ a \in 0 .. N /\ m.psize \in Nat /\ m.qsize \in Nat /\ a + m.psize <= N
  /\ m.out = (IF a = 0 THEN Null ELSE s[1])
  /\ m.tail = (IF a = 0 THEN Null ELSE s[a])
  /\ m.psize > 0 => m.p = s[a + 1]
  /\ m.q = (IF a + m.psize = N THEN Null ELSE s[a + m.psize + 1])
  /\ \A k \in 1 .. N - 1 : k # a /\ k # a + m.psize => next[s[k]] = s[k + 1]
  /\ a + m.psize # N => next[s[N]] = Null

(* The order that the sort makes.  Runs end at the multiples of insize, and *)
(* a run has the data that were there before the sort.                      *)
Rank(bef, c) == CHOOSE j \in DOMAIN bef : bef[j] = c

Settled(cmp, dat, c) == cmp = "cmp_idx" \/ (dat[c].data16 \div 128) % 2 = 1

Lower(cmp, dat, bef, c, d) ==
  /\ Settled(cmp, dat, c)
  /\ Settled(cmp, dat, d)
  /\ \/ Key(cmp, c, dat) < Key(cmp, d, dat)
     \/ Key(cmp, c, dat) = Key(cmp, d, dat) /\ Rank(bef, c) < Rank(bef, d)

Times(w) == {k \in Nat : \E j \in Nat : k = j * w}

InBlock(k, r, w) == \E b \in Times(w) : b < k /\ k <= b + w /\ b < r /\ r <= b + w

Regular(c) == data[c].data16 = Fresh(data[c].data16)

MergeState ==
  [cmp : {"cmp_idx", "cmp_complex"}, then : {"init", "remove", "return"}, p : Nat, q : Nat,
   psize : Nat, qsize : Nat, insize : Nat \ {0}, nmerges : Nat, tail : Nat, out : Nat]

Sorting(n, N, s) ==
  /\ m \in MergeState
  /\ m.then = "remove" <=> m.cmp = "cmp_complex"
  /\ m.then = "init" <=> call = 0
  /\ before \in [1 .. N -> 1 .. n]
  /\ \A j, k \in 1 .. N : before[j] = before[k] => j = k
  /\ \A k \in 1 .. N : \E j \in 1 .. N : before[j] = s[k]
  /\ m.then = "init" => before[1] = 1

SplitOrder(N, s, a) ==
  LET w == m.insize
      rank(k) == Rank(before, s[k])
  IN  /\ a \in Times(2 * w) \/ a = N
      /\ m.nmerges = 0 => a = 0
      /\ m.nmerges = 1 => a <= 2 * w
      /\ \A k \in 1 .. N - 1 :
           (k < a /\ k \notin Times(2 * w)) \/ (k > a /\ k \notin Times(w))
             => Lower(m.cmp, data, before, s[k], s[k + 1])
      /\ \A k \in 1 .. N : InBlock(k, rank(k), IF k <= a THEN 2 * w ELSE w)
      /\ m.cmp = "cmp_idx" => \A k \in 1 .. N :
           IF k <= a THEN Regular(s[k]) \/ (k = N /\ N - 1 \in Times(2 * w))
           ELSE Regular(s[k]) \/ w = 1 \/ (k = N /\ N - 1 \in Times(w))

TakeOrder(N, s, a, a0) ==
  LET w == m.insize
      h == IF a0 + 2 * w < N THEN a0 + 2 * w ELSE N
      rank(k) == Rank(before, s[k])
      lower(j, k) == Lower(m.cmp, data, before, s[j], s[k])
  IN  /\ a0 \in Times(2 * w) /\ a0 <= a /\ a0 < N
      /\ m.psize <= w /\ a + m.psize <= a0 + 2 * w
      /\ a = a0 => m.psize > 0 /\ (a + m.psize < N => m.psize = w)
      /\ a + m.psize < N => a + m.psize + m.qsize = a0 + 2 * w
      /\ m.nmerges > 0 /\ (m.nmerges = 1 => a0 = 0)
      /\ \A k \in 1 .. N - 1 :
           \/ k < a0 /\ k \notin Times(2 * w)
           \/ a0 < k /\ k < h /\ k # a /\ k # a + m.psize
           \/ k > h /\ k \notin Times(w)
           => lower(k, k + 1)
      /\ a > a0 /\ m.psize > 0 => lower(a, a + 1)
      /\ a > a0 /\ a + m.psize < h => lower(a, a + m.psize + 1)
      /\ \A k \in 1 .. N :
           /\ k <= a0 => InBlock(k, rank(k), 2 * w)
           /\ a0 < k /\ k <= a => a0 < rank(k) /\ rank(k) <= a0 + 2 * w
           /\ a < k /\ k <= a + m.psize => a0 < rank(k) /\ rank(k) <= a0 + w
           /\ a + m.psize < k /\ k <= h => a0 + w < rank(k) /\ rank(k) <= a0 + 2 * w
           /\ k > h => InBlock(k, rank(k), w)
      /\ m.cmp = "cmp_idx" => \A k \in 1 .. N :
           \/ Regular(s[k])
           \/ a0 < k /\ k <= h /\ a > a0 /\ k = N /\ N = a0 + 1
           \/ a0 < k /\ (a = a0 \/ k > h) /\ (w = 1 \/ (k = N /\ N - 1 \in Times(w)))

(* Before and after the sorts by index.                                     *)
Inserting(n, N, s) ==
  /\ N = n /\ s[1] = 1 /\ s[N] = 2
  /\ call = 0
  /\ data[1].idx = 0 /\ data[2].idx = Largest
  /\ i \in Nat
  /\ n >= i + 2 \/ n >= ListSize(input.size) - 1

Indexed(n) ==
  /\ data[1].idx = 0 /\ data[2].idx # 0
  /\ \E c \in 3 .. n : data[c].idx # 0

Ascending(dat, N, s) == \A k \in 1 .. N - 1 : dat[s[k]].idx <= dat[s[k + 1]].idx
Rising(N, s) == Ascending(data, N, s)

Sorted(N, s) ==
  /\ Rising(N, s)
  /\ \A k \in 1 .. N : Regular(s[k])
  /\ call <= 1 /\ at # "return" => s[1] = 1

(* What the first sort left.                                                *)
Values(dat, N, s) ==
  [k \in 1 .. N |-> [idx |-> dat[s[k]].idx, data16 |-> Fresh(dat[s[k]].data16)]]

Copied(n, dat, first) ==
  \E r \in [1 .. n -> 1 .. n] :
    /\ \A j, k \in 1 .. n : r[j] = r[k] => j = k
    /\ Ascending(dat, n, r)
    /\ first = Values(dat, n, r)

Origin(n) ==
  /\ res.list = 1
  /\ origin.mem = Text0 /\ origin.A = mat.A
  /\ Copied(n, data, origin.list)

Phase(n, N, s, a, a0) ==
  /\ at = "insert" => Inserting(n, N, s)
  /\ at # "insert" => Indexed(n)
  /\ call >= 1 => Origin(n)
  /\ at = "init" => call = 0
  /\ at \in {"call", "find", "remove", "crc", "undo", "undone", "return"} => call >= 1
  /\ at \in {"insert", "init", "call", "find", "remove", "undone", "return"} => Whole(N, s)
  /\ at \in {"crc", "undo"} => Removed(n, N, s)
  /\ at \in {"init", "call", "return"} => Sorted(N, s)
  /\ at \in {"split", "take"} => Sorting(n, N, s)
  /\ at = "split" => SplitShape(N, s, a) /\ SplitOrder(N, s, a)
  /\ at = "take" => TakeShape(N, s, a) /\ TakeOrder(N, s, a, a0)

ListInv(n, N, s, a, a0) ==
  Kernels /\ Heap(n) /\ Ring(n, N, s) /\ Member(n, N, s) /\ Phase(n, N, s, a, a0)

-----------------------------------------------------------------------------
(* The invariant in the statements that keep what it is about.              *)

LEMMA SameKernels ==
  ASSUME Kernels, UNCHANGED <<input, mem, mat>>, res' \in Results, retval' \in Half,
         call' = 0 => call = 0
  PROVE  Kernels'
BY DEF Kernels, Text0, Matrix0, Undoes

LEMMA KernelTypes ==
  ASSUME Kernels
  PROVE  input \in Inputs /\ res \in Results /\ retval \in Half
BY Zenon DEF Kernels

LEMMA SameHeap ==
  ASSUME NEW n, Heap(n), UNCHANGED <<next, info, data>>, list' \in 1 .. n, remover' \in 0 .. n,
         call' \in Nat, at' \notin {"crc", "undo"} => at \notin {"crc", "undo"}
  PROVE  Heap(n)'
BY DEF Heap

LEMMA SameMember ==
  ASSUME NEW n, NEW N, NEW s, Member(n, N, s), UNCHANGED data, call' <= 1 => call <= 1
  PROVE  Member(n, N, s)'
BY DEF Member

LEMMA SameIndexed ==
  ASSUME NEW n, Indexed(n), UNCHANGED data
  PROVE  Indexed(n)'
BY DEF Indexed

LEMMA SameOrigin ==
  ASSUME NEW n, Origin(n), UNCHANGED <<input, data, mat, origin>>, res'.list = res.list
  PROVE  Origin(n)'
BY DEF Origin, Text0

LEMMA SameWhole ==
  ASSUME NEW N, NEW s, Whole(N, s), UNCHANGED <<next, list>>
  PROVE  Whole(N, s)'
BY DEF Whole

LEMMA SameSorted ==
  ASSUME NEW N, NEW s, Sorted(N, s), UNCHANGED data, call' <= 1 /\ at' # "return" => s[1] = 1
  PROVE  Sorted(N, s)'
BY DEF Sorted, Rising, Ascending, Regular

(* What Init and every step establish.                                      *)
ListIInv == \E n, N, s, a, a0 : ListInv(n, N, s, a, a0)

LEMMA HeapList ==
  ASSUME NEW n, NEW N, NEW s, Heap(n), Ring(n, N, s)
  PROVE  ListIn(n, next, N, s)
<1>1. n \in Nat /\ next \in [1 .. n -> 0 .. n]
  BY Zenon DEF Heap
<1>2. /\ N \in Nat /\ N >= 2 /\ N <= n /\ s \in [1 .. N -> 1 .. n]
      /\ \A j, k \in 1 .. N : s[j] = s[k] => j = k
  BY Zenon DEF Ring
<1>3. N \in 1 .. n
  BY <1>1, <1>2
<1> QED BY <1>1, <1>2, <1>3, Zenon DEF ListIn

(* The list as a chain.                                                     *)
LEMMA WholeChain ==
  ASSUME NEW n, NEW N, NEW s, Heap(n), Ring(n, N, s), Whole(N, s)
  PROVE  Chain(next, list) = s /\ DOMAIN s = 1 .. N /\ Len(s) = N
<1>1. ListIn(n, next, N, s)
  BY HeapList
<1>2. Links(next, s, 0 + 1, N)
  BY DEF Links, Whole, Ring
<1>3. N \in Nat /\ n \in Nat /\ s \in [1 .. N -> 1 .. n] /\ N - 0 = N /\ 0 \in 0 .. N
  BY <1>1 DEF ListIn
<1>4. list = (IF 0 = N THEN Null ELSE s[0 + 1])
  BY DEF Whole, Ring
<1>5. Chain(next, list) = From(s, 0, N - 0)
  <2>1. 0 # N => next[s[N]] = Null
    BY DEF Whole
  <2>2. 0 \in 0 .. N /\ Links(next, s, 0 + 1, N)
    BY <1>2, <1>3
  <2>3. Rest(n, next, N, s, 0, list)
    BY <1>1, <1>4, <2>1, <2>2, Zenon DEF Rest
  <2>4. RestIn(next, list, s, 0, N)
    BY <2>3, RestIs, Zenon
  <2> QED BY <2>4, Zenon DEF RestIn
<1>6. From(s, 0, N) = s
  BY <1>3, FromAll
<1> QED BY <1>3, <1>5, <1>6, FunIsSeq

LEMMA RankIs ==
  ASSUME NEW N \in Nat, NEW S, NEW bef \in [1 .. N -> S],
         \A j, k \in 1 .. N : bef[j] = bef[k] => j = k, NEW k \in 1 .. N
  PROVE  Rank(bef, bef[k]) = k
BY DEF Rank

LEMMA TimesZero == \A w \in Nat : 0 \in Times(w)
<1> TAKE w \in Nat
<1>1. 0 \in Nat /\ 0 = 0 * w
  OBVIOUS
<1> QED BY <1>1 DEF Times

-----------------------------------------------------------------------------
(* A sort begins.                                                           *)

LEMMA StartSortStep ==
  ASSUME NEW n, NEW N, NEW s, Heap(n), Ring(n, N, s), Whole(N, s), at \notin {"crc", "undo"},
         NEW cmp \in {"cmp_idx", "cmp_complex"}, NEW then \in {"init", "remove", "return"},
         then = "remove" <=> cmp = "cmp_complex", then = "init" <=> call' = 0,
         then = "init" => s[1] = 1,
         NEW from, from = list, StartSort(from, cmp, then), UNCHANGED next
  PROVE  at' = "split" /\ Sorting(n, N, s)' /\ SplitShape(N, s, 0)' /\ SplitOrder(N, s, 0)'
<1>1. Chain(next, list) = s /\ DOMAIN s = 1 .. N
  BY WholeChain
<1>2. at' = "split" /\ before' = [k \in 1 .. N |-> info[s[k]]]
  BY <1>1, Zenon DEF StartSort
<1>3. m' = [NoMerge EXCEPT !.cmp = cmp, !.then = then, !.p = s[1], !.insize = 1]
  BY Zenon DEF StartSort, Whole
<1>4. /\ N \in Nat /\ N >= 2 /\ n \in Nat /\ s \in [1 .. N -> 1 .. n]
      /\ \A j, k \in 1 .. N : s[j] = s[k] => j = k
  BY Zenon DEF Ring, Heap
<1>5. \A c \in 1 .. n : info[c] = c
  BY Zenon DEF Heap
<1>6. before' = s
  BY <1>2, <1>4, <1>5
<1>7. m' = [cmp |-> cmp, then |-> then, p |-> s[1], q |-> 0, psize |-> 0, qsize |-> 0,
            insize |-> 1, nmerges |-> 0, tail |-> 0, out |-> 0]
  BY <1>3 DEF NoMerge, Null
<1>8. s[1] \in Nat
  BY <1>4
<1>9. /\ m'.cmp = cmp /\ m'.then = then /\ m'.p = s[1] /\ m'.insize = 1 /\ m'.nmerges = 0
      /\ m'.tail = 0 /\ m'.out = 0 /\ m' \in MergeState
  BY <1>7, <1>8 DEF MergeState
<1>10. Sorting(n, N, s)'
  <2>1. \A k \in 1 .. N : \E j \in 1 .. N : s[j] = s[k]
    OBVIOUS
  <2> QED BY <1>4, <1>6, <1>9, <2>1 DEF Sorting
<1>11. SplitShape(N, s, 0)'
  <2>1. \A k \in 1 .. N - 1 : next'[s[k]] = s[k + 1]
    BY DEF Whole
  <2>2. next'[s[N]] = Null
    BY DEF Whole
  <2> QED BY <1>4, <1>9, <2>1, <2>2 DEF SplitShape, Null
<1>12. SplitOrder(N, s, 0)'
  <2>1. 0 \in Times(2 * 1)
    BY TimesZero
  <2>2. \A k \in Nat : k \in Times(1)
    <3> TAKE k \in Nat
    <3>1. k = k * 1
      OBVIOUS
    <3> QED BY <3>1 DEF Times
  <2>3. ASSUME NEW k \in 1 .. N PROVE InBlock(k, Rank(s, s[k]), 1)
    <3>1. Rank(s, s[k]) = k
      BY <1>4, RankIs
    <3>2. k - 1 \in Times(1)
      BY <2>2
    <3>3. InBlock(k, k, 1)
      BY <3>2 DEF InBlock
    <3> QED BY <3>1, <3>3
  <2>4. \A k \in 1 .. N - 1 : ~ (k < 0) /\ k \in Times(1)
    BY <2>2
  <2>5. \A k \in 1 .. N : ~ (k <= 0)
    OBVIOUS
  <2> QED BY <1>6, <1>9, <2>1, <2>3, <2>4, <2>5 DEF SplitOrder
<1> QED BY <1>2, <1>10, <1>11, <1>12

(* The statements that leave the heap alone.                                *)

LEMMA SortStep ==
  ASSUME NEW n, NEW N, NEW s, NEW a, NEW a0, ListInv(n, N, s, a, a0), Sort
  PROVE  ListInv(n, N, s, 0, 0)'
<1>1. Kernels /\ Heap(n) /\ Ring(n, N, s) /\ Member(n, N, s) /\ at = "find"
  BY Zenon DEF ListInv, Sort
<1>2. Whole(N, s) /\ Indexed(n) /\ Origin(n) /\ call >= 1
  BY <1>1, Zenon DEF ListInv, Phase
<1>3. UNCHANGED <<input, next, info, data, mem, mat, res, call, list, retval, remover, origin>>
  BY Zenon DEF Sort, heap, kernels, locals
<1>4. /\ at' = "remove" \/ StartSort(list, "cmp_complex", "remove")
      /\ call \in Nat /\ list \in 1 .. n /\ remover \in 0 .. n
  BY <1>1, Zenon DEF Sort, Heap
<1>5. at' \in {"remove", "split"}
  BY <1>4 DEF StartSort
<1>6. at' = "split" => Sorting(n, N, s)' /\ SplitShape(N, s, 0)' /\ SplitOrder(N, s, 0)'
  <2>1. CASE StartSort(list, "cmp_complex", "remove")
    <3>1. ~ (call' = 0)
      BY <1>2, <1>3
    <3>2. at \notin {"crc", "undo"}
      BY <1>1
    <3> QED BY <1>1, <1>2, <1>3, <2>1, <3>1, <3>2, StartSortStep
  <2> QED BY <1>4, <2>1
<1>7. Kernels' /\ Heap(n)' /\ Ring(n, N, s)' /\ Member(n, N, s)'
  BY <1>1, <1>3, <1>4, <1>5, KernelTypes, SameKernels, SameHeap, SameMember DEF Ring
<1>8. Whole(N, s)' /\ Indexed(n)' /\ Origin(n)' /\ (call >= 1)'
  BY <1>2, <1>3, SameWhole, SameIndexed, SameOrigin
<1>9. Phase(n, N, s, 0, 0)'
  BY <1>5, <1>6, <1>8 DEF Phase
<1> QED BY <1>7, <1>9 DEF ListInv

LEMMA SortBackStep ==
  ASSUME NEW n, NEW N, NEW s, NEW a, NEW a0, ListInv(n, N, s, a, a0), SortBack
  PROVE  ListInv(n, N, s, 0, 0)'
<1>1. Kernels /\ Heap(n) /\ Ring(n, N, s) /\ Member(n, N, s) /\ at = "undone"
  BY Zenon DEF ListInv, SortBack
<1>2. Whole(N, s) /\ Indexed(n) /\ Origin(n) /\ call >= 1
  BY <1>1, Zenon DEF ListInv, Phase
<1>3. UNCHANGED <<input, next, info, data, mem, mat, res, call, list, retval, remover, origin>>
  BY Zenon DEF SortBack, heap, kernels, locals
<1>4. /\ StartSort(list, "cmp_idx", "return")
      /\ call \in Nat /\ list \in 1 .. n /\ remover \in 0 .. n
  BY <1>1, Zenon DEF SortBack, Heap
<1>5. at' = "split"
  BY <1>4 DEF StartSort
<1>6. Sorting(n, N, s)' /\ SplitShape(N, s, 0)' /\ SplitOrder(N, s, 0)'
  <2>1. ~ (call' = 0) /\ at \notin {"crc", "undo"}
    BY <1>1, <1>2, <1>3
  <2> QED BY <1>1, <1>2, <1>3, <1>4, <2>1, StartSortStep
<1>7. Kernels' /\ Heap(n)' /\ Ring(n, N, s)' /\ Member(n, N, s)'
  BY <1>1, <1>3, <1>4, <1>5, KernelTypes, SameKernels, SameHeap, SameMember DEF Ring
<1>8. Indexed(n)' /\ Origin(n)' /\ (call >= 1)'
  BY <1>2, <1>3, SameIndexed, SameOrigin
<1>9. Phase(n, N, s, 0, 0)'
  BY <1>5, <1>6, <1>8 DEF Phase
<1> QED BY <1>7, <1>9 DEF ListInv

(* What core_list_find returns is a cell of the chain, or null.             *)
LEMMA FoundIs ==
  ASSUME NEW n \in Nat, next \in [1 .. n -> 0 .. n], NEW from \in 0 .. n, NEW what
  PROVE  LET c == Chain(next, from) found == core_list_find(from, what) IN
         found # Null => \E k \in 1 .. Len(c) : found = c[k]
<1> DEFINE c == Chain(next, from)
           hits == {k \in DOMAIN c : Matches(c[k], what)}
           first == CHOOSE k \in hits : \A j \in hits : k <= j
           found == core_list_find(from, what)
<1>1. found = IF hits = {} THEN Null ELSE c[first]
  BY Zenon DEF core_list_find
<1>2. c \in Seq(1 .. n)
  BY ChainType
<1> SUFFICES ASSUME hits # {} PROVE found = c[first] /\ first \in 1 .. Len(c)
  BY <1>1
<1> HIDE DEF c
<1>3. hits \in SUBSET Nat /\ hits \in SUBSET (1 .. Len(c))
  <2>1. DOMAIN c = 1 .. Len(c) /\ Len(c) \in Nat
    BY <1>2
  <2>2. hits \in SUBSET (1 .. Len(c))
    BY <2>1, Zenon
  <2> HIDE DEF hits
  <2> QED BY <2>1, <2>2
<1> HIDE DEF hits
<1>4. first \in hits
  <2>1. \E k \in hits : \A j \in hits : k <= j
    BY <1>3, Least, Zenon
  <2> QED BY <2>1, Zenon
<1> QED BY <1>1, <1>3, <1>4

LEMMA CrcStep ==
  ASSUME NEW n, NEW N, NEW s, NEW a, NEW a0, ListInv(n, N, s, a, a0), Crc
  PROVE  ListInv(n, N, s, 0, 0)'
<1>1. Kernels /\ Heap(n) /\ Ring(n, N, s) /\ Member(n, N, s) /\ at = "crc" /\ at' = "undo"
  BY Zenon DEF ListInv, Crc
<1>2. Removed(n, N, s) /\ Indexed(n) /\ Origin(n) /\ call >= 1
  BY <1>1, Zenon DEF ListInv, Phase
<1>3. UNCHANGED <<input, next, info, data, mem, mat, res, call, list, remover, origin>>
  BY Zenon DEF Crc, heap, kernels
<1>4. /\ n \in Nat /\ next \in [1 .. n -> 0 .. n] /\ list \in 1 .. n /\ remover \in 0 .. n
      /\ call \in Nat
  BY <1>1, Zenon DEF Heap
<1>5. retval' \in Half
  <2> DEFINE hit == core_list_find(list, wanted)
             finder == IF hit = Null THEN next[list] ELSE hit
  <2>1. retval' = CrcTimes(Len(Chain(next, finder)), Data(list).data16, retval)
    BY Zenon DEF Crc
  <2>2. finder \in 0 .. n
    <3>1. Chain(next, list) \in Seq(1 .. n) /\ list \in 0 .. n
      BY <1>4, ChainType
    <3>2. hit # Null => \E k \in 1 .. Len(Chain(next, list)) : hit = Chain(next, list)[k]
      BY <1>4, <3>1, FoundIs, Zenon
    <3>3. hit # Null => hit \in 1 .. n
      <4> DEFINE c == Chain(next, list)
      <4> SUFFICES ASSUME hit # Null PROVE hit \in 1 .. n
        OBVIOUS
      <4>1. PICK k \in 1 .. Len(c) : hit = c[k]
        BY <3>2, Zenon
      <4>2. c \in [1 .. Len(c) -> 1 .. n]
        BY <3>1, SeqIsFun
      <4> HIDE DEF c, hit
      <4> QED BY <4>1, <4>2
    <3> HIDE DEF hit
    <3> QED BY <1>4, <3>3
  <2> HIDE DEF finder
  <2>3. Len(Chain(next, finder)) \in Nat
    BY <1>4, <2>2, ChainType
  <2>4. retval \in Half
    BY <1>1, Zenon DEF Kernels
  <2> QED BY <2>1, <2>3, <2>4, CrcTimesType, Zenon
<1>6. Kernels'
  <2>1. Kernels /\ UNCHANGED <<input, mem, mat, res, call>>
    BY <1>1, <1>3
  <2>2. res' \in Results
    BY <1>1, <1>3, KernelTypes
  <2> QED BY <1>5, <2>1, <2>2, KernelTypes, SameKernels
<1>7. Heap(n)' /\ Ring(n, N, s)' /\ Member(n, N, s)'
  BY <1>1, <1>3, <1>4, SameHeap, SameMember DEF Ring
<1>8. Removed(n, N, s)' /\ Indexed(n)' /\ Origin(n)' /\ (call >= 1)'
  BY <1>2, <1>3, SameIndexed, SameOrigin DEF Removed
<1>9. Phase(n, N, s, 0, 0)'
  BY <1>1, <1>8 DEF Phase
<1> QED BY <1>6, <1>7, <1>9 DEF ListInv

LEMMA ReturnStep ==
  ASSUME NEW n, NEW N, NEW s, NEW a, NEW a0, ListInv(n, N, s, a, a0), Return
  PROVE  ListInv(n, N, s, 0, 0)'
<1>1. /\ Kernels /\ Heap(n) /\ Ring(n, N, s) /\ Member(n, N, s)
      /\ at = "return" /\ at' = "call" /\ call' = call + 1
  BY Zenon DEF ListInv, Return
<1>2. Whole(N, s) /\ Sorted(N, s) /\ Indexed(n) /\ Origin(n) /\ call >= 1
  BY <1>1, Zenon DEF ListInv, Phase
<1>3. UNCHANGED <<input, next, info, data, mem, mat, list, retval, remover, origin>>
  BY Zenon DEF Return, heap, locals
<1>4. /\ n \in Nat /\ next \in [1 .. n -> 0 .. n] /\ list \in 1 .. n /\ remover \in 0 .. n
      /\ call \in Nat
  BY <1>1, Zenon DEF Heap
<1>5. /\ res' \in Results
      /\ res'.list = res.list
  <2> DEFINE r == CrcTimes(Len(Chain(next, next[list])), Data(list).data16, retval)
             crc == crcu16(r, res.crc)
             both == IF call = 2 THEN crc ELSE res.crclist
  <2>1. res' = [res EXCEPT !.crc = crc, !.crclist = both]
    BY Zenon DEF Return
  <2>2. res \in Results
    BY <1>1, KernelTypes
  <2> HIDE DEF r
  <2>3. crc \in Half /\ both \in Half
    <3>1. res.crc \in Half /\ res.crclist \in Half
      BY <2>2 DEF Results
    <3>2. crc \in Half
      BY <3>1, CrcType
    <3> HIDE DEF crc
    <3> QED BY <3>1, <3>2
  <2> HIDE DEF crc, both
  <2> QED BY <2>1, <2>2, <2>3 DEF Results
<1>6. retval \in Half
  BY <1>1, KernelTypes
<1>7. Kernels'
  <2>1. Kernels /\ UNCHANGED <<input, mem, mat, retval>> /\ ~ (call = 0) /\ ~ (call' = 0)
    BY <1>1, <1>2, <1>3, <1>4
  <2> QED BY <1>5, <1>6, <2>1, SameKernels
<1>8. Heap(n)' /\ Ring(n, N, s)' /\ Member(n, N, s)'
  <2>1. call' \in Nat /\ (call' <= 1 => call <= 1)
    BY <1>1, <1>4
  <2> QED BY <1>1, <1>3, <1>4, <2>1, SameHeap, SameMember DEF Ring
<1>9. Whole(N, s)' /\ Sorted(N, s)' /\ Indexed(n)' /\ Origin(n)' /\ (call >= 1)' /\ ~ (call' <= 1)
  <2>1. (call >= 1)' /\ ~ (call' <= 1)
    BY <1>1, <1>2, <1>4
  <2> QED BY <1>2, <1>3, <1>5, <2>1, SameWhole, SameSorted, SameIndexed, SameOrigin
<1>10. Phase(n, N, s, 0, 0)'
  BY <1>1, <1>9 DEF Phase
<1> QED BY <1>7, <1>8, <1>10 DEF ListInv

(* A list in which every cell is has all n of them; and an order of all     *)
(* cells leaves none out.                                                   *)
LEMMA Onto ==
  ASSUME NEW n \in Nat, NEW N \in Nat, N <= n, NEW s \in [1 .. N -> 1 .. n],
         \A c \in 1 .. n : \E k \in 1 .. N : s[k] = c
  PROVE  N = n
<1>1. s \in Surjection(1 .. N, 1 .. n)
  BY DEF Surjection
<1>2. IsFiniteSet(1 .. N) /\ Cardinality(1 .. N) = N /\ Cardinality(1 .. n) = n
  BY FS_Interval
<1>3. Cardinality(1 .. n) <= Cardinality(1 .. N)
  BY <1>1, <1>2, FS_Surjection, Zenon
<1> QED BY <1>2, <1>3

LEMMA AllOf ==
  ASSUME NEW n \in Nat, NEW s \in [1 .. n -> 1 .. n], \A j, k \in 1 .. n : s[j] = s[k] => j = k
  PROVE  \A c \in 1 .. n : \E k \in 1 .. n : s[k] = c
<1>1. s \in Injection(1 .. n, 1 .. n)
  BY DEF Injection, IsInjective
<1>2. IsFiniteSet(1 .. n)
  BY FS_Interval
<1>3. s \in Surjection(1 .. n, 1 .. n)
  BY <1>1, <1>2, FS_Injection, Zenon
<1> QED BY <1>3, Zenon DEF Surjection

LEMMA Numbers == \A x : x \in Number <=> x \in Int /\ 0 <= x /\ x <= 32767
<1> TAKE x
<1>0. Largest \in Int
  BY SMT DEF Largest
<1>1. Largest = 32767
  BY SMT DEF Largest
<1>2. x \in Number <=> x \in Int /\ 0 <= x /\ x <= Largest
  <2>1. ASSUME x \in Number PROVE x \in Int /\ 0 <= x /\ x <= Largest
    BY <1>0, <2>1, SMT DEF Number
  <2>2. ASSUME x \in Int, 0 <= x, x <= Largest PROVE x \in Number
    BY <1>0, <2>2, SMT DEF Number
  <2> QED BY <2>1, <2>2, Zenon
<1> QED BY <1>1, <1>2, SMT

LEMMA PairIs ==
  ASSUME NEW S, NEW T, NEW x \in [idx : S, data16 : T]
  PROVE  x = [idx |-> x.idx, data16 |-> x.data16] /\ x.idx \in S /\ x.data16 \in T
OBVIOUS

LEMMA DatumIs ==
  ASSUME NEW x \in Datum
  PROVE  /\ x = [idx |-> x.idx, data16 |-> x.data16]
         /\ x.idx \in Number /\ x.idx \in Int /\ 0 <= x.idx
         /\ x.data16 \in Half
<1>1. x = [idx |-> x.idx, data16 |-> x.data16] /\ x.idx \in Number /\ x.data16 \in Half
  BY PairIs, Zenon DEF Datum
<1>2. \A k \in Number : k \in Int /\ 0 <= k
  BY Numbers, SMT
<1> QED BY <1>1, <1>2, Zenon

(* The contents of a list whose data are as they were made.                 *)
LEMMA ContentsIs ==
  ASSUME NEW n, NEW N, NEW s, Heap(n), Ring(n, N, s), Whole(N, s), Sorted(N, s),
         at \notin {"crc", "undo"}
  PROVE  Contents(list) = Values(data, N, s)
<1>1. Chain(next, list) = s /\ DOMAIN s = 1 .. N
  BY WholeChain
<1>2. Contents(list) = [k \in 1 .. N |-> data[info[s[k]]]]
  BY <1>1, Zenon DEF Contents, Data
<1>3. s \in [1 .. N -> 1 .. n] /\ \A k \in 1 .. N : data[s[k]].data16 = Fresh(data[s[k]].data16)
  BY Zenon DEF Ring, Sorted, Regular
<1>4. data \in [1 .. n -> Datum] /\ \A c \in 1 .. n : info[c] = c
  BY Zenon DEF Heap
<1>5. ASSUME NEW k \in 1 .. N
      PROVE  data[info[s[k]]] = [idx |-> data[s[k]].idx, data16 |-> Fresh(data[s[k]].data16)]
  <2>1. s[k] \in 1 .. n /\ info[s[k]] = s[k] /\ data[s[k]].data16 = Fresh(data[s[k]].data16)
    BY <1>3, <1>4
  <2>2. data[s[k]] \in Datum
    BY <1>4, <2>1
  <2>3. data[s[k]] = [idx |-> data[s[k]].idx, data16 |-> data[s[k]].data16]
    BY <2>2, DatumIs
  <2> QED BY <2>1, <2>3
<1> QED BY <1>2, <1>5 DEF Values

LEMMA InitializedStep ==
  ASSUME NEW n, NEW N, NEW s, NEW a, NEW a0, ListInv(n, N, s, a, a0), Initialized
  PROVE  ListInv(n, N, s, 0, 0)'
<1>1. /\ Kernels /\ Heap(n) /\ Ring(n, N, s) /\ Member(n, N, s)
      /\ at = "init" /\ at' = "call" /\ call' = 1
  BY Zenon DEF ListInv, Initialized
<1>2. Whole(N, s) /\ Sorted(N, s) /\ Indexed(n) /\ call = 0
  BY <1>1, Zenon DEF ListInv, Phase
<1>3. UNCHANGED <<input, next, info, data, mem, mat, list, retval, remover>>
  BY Zenon DEF Initialized, heap, locals
<1>4. /\ n \in Nat /\ next \in [1 .. n -> 0 .. n] /\ list \in 1 .. n /\ remover \in 0 .. n
  BY <1>1, Zenon DEF Heap
<1>5. s[1] = 1 /\ list = 1
  <2>1. call <= 1 /\ at # "return"
    BY <1>1, <1>2
  <2> QED BY <1>2, <2>1, Zenon DEF Sorted, Whole
<1>6. res' \in Results /\ res'.list = 1
  <2>1. res' = [crc |-> 0, crclist |-> 0, crcmatrix |-> 0, crcstate |-> 0, list |-> 1]
    BY <1>5, Zenon DEF Initialized
  <2>2. 0 \in Half
    BY Halves, SMT
  <2> QED BY <2>1, <2>2 DEF Results
<1>7. Kernels'
  <2>1. retval' \in Half /\ ~ (call' = 0)
    BY <1>1, <1>3, KernelTypes
  <2> QED BY <1>1, <1>3, <1>6, <2>1, SameKernels
<1>8. Heap(n)' /\ Ring(n, N, s)' /\ Member(n, N, s)'
  <2>1. call' \in Nat /\ call <= 1
    BY <1>1, <1>2
  <2> QED BY <1>1, <1>3, <1>4, <2>1, SameHeap, SameMember DEF Ring
<1>9. Whole(N, s)' /\ Sorted(N, s)' /\ Indexed(n)' /\ (call >= 1)'
  BY <1>1, <1>2, <1>3, <1>5, SameWhole, SameSorted, SameIndexed
<1>10. Origin(n)'
  <2>1. N = n
    <3>1. N \in Nat /\ N <= n /\ s \in [1 .. N -> 1 .. n]
      BY <1>1, Zenon DEF Ring
    <3>2. \A c \in 1 .. n : \E k \in 1 .. N : s[k] = c
      BY <1>1, <1>2 DEF Member
    <3> QED BY <1>4, <3>1, <3>2, Onto
  <2>2. /\ origin'.list = Contents(list)
        /\ origin'.mem = mem /\ origin'.A = mat.A
    BY DEF Initialized, Blocks
  <2>3. mem = Text0
    BY <1>1, <1>2, Zenon DEF Kernels
  <2>4. origin'.list = Values(data, n, s)
    <3>1. at \notin {"crc", "undo"}
      BY <1>1
    <3> QED BY <1>1, <1>2, <2>1, <2>2, <3>1, ContentsIs, Zenon
  <2>5. Copied(n, data, origin'.list)
    <3>1. s \in [1 .. n -> 1 .. n] /\ \A j, k \in 1 .. n : s[j] = s[k] => j = k
      BY <1>1, <2>1, Zenon DEF Ring
    <3>2. Ascending(data, n, s)
      BY <1>2, <2>1, Zenon DEF Sorted, Rising
    <3> QED BY <2>4, <3>1, <3>2, Zenon DEF Copied
  <2>6. Text0' = Text0
    BY <1>3 DEF Text0
  <2> QED BY <1>3, <1>6, <2>2, <2>3, <2>5, <2>6 DEF Origin
<1>11. Phase(n, N, s, 0, 0)'
  BY <1>1, <1>9, <1>10 DEF Phase
<1> QED BY <1>7, <1>8, <1>11 DEF ListInv

LEMMA Monotone ==
  ASSUME NEW N \in Nat, NEW f \in [1 .. N -> Int], \A k \in 1 .. N - 1 : f[k] <= f[k + 1]
  PROVE  \A j, k \in 1 .. N : j <= k => f[j] <= f[k]
<1> DEFINE S == {k \in 0 .. N : \A j \in 1 .. N : j <= k => f[j] <= f[k]}
<1>1. 0 \in S
  OBVIOUS
<1>2. ASSUME NEW k \in 1 .. N, k - 1 \in S PROVE k \in S
  <2> SUFFICES ASSUME NEW j \in 1 .. N, j <= k PROVE f[j] <= f[k]
    OBVIOUS
  <2>1. CASE j = k
    BY <2>1
  <2>2. CASE j # k
    <3>1. j <= k - 1 /\ k - 1 \in 1 .. N - 1 /\ k - 1 \in 1 .. N /\ (k - 1) + 1 = k
      BY <2>2
    <3>2. f[j] <= f[k - 1]
      BY <1>2, <3>1
    <3>3. f[k - 1] <= f[k]
      BY <3>1
    <3>4. f[j] \in Int /\ f[k - 1] \in Int /\ f[k] \in Int
      BY <3>1
    <3> QED BY <3>2, <3>3, <3>4
  <2> QED BY <2>1, <2>2
<1> HIDE DEF S
<1>3. \A k \in 0 .. N : k \in S
  BY <1>1, <1>2, Induction
<1> TAKE j, k \in 1 .. N
<1>4. k \in S
  BY <1>3
<1> QED BY <1>4 DEF S

(* In a list in the order of the indexes, cells with index 0 come first.    *)
LEMMA AscendingOn ==
  ASSUME NEW n, NEW N, NEW s, Heap(n), Ring(n, N, s), Rising(N, s)
  PROVE  \A j, k \in 1 .. N : j <= k => data[s[j]].idx <= data[s[k]].idx
<1> DEFINE f == [k \in 1 .. N |-> data[s[k]].idx]
<1>1. N \in Nat /\ s \in [1 .. N -> 1 .. n] /\ data \in [1 .. n -> Datum]
  BY Zenon DEF Ring, Heap
<1>2. f \in [1 .. N -> Int]
  <2>1. ASSUME NEW k \in 1 .. N PROVE data[s[k]].idx \in Int
    <3>1. data[s[k]] \in Datum
      BY <1>1
    <3> QED BY <3>1, DatumIs
  <2> QED BY <2>1
<1>3. \A k \in 1 .. N - 1 : f[k] <= f[k + 1]
  BY <1>1 DEF Rising, Ascending
<1>4. \A k \in 1 .. N : f[k] = data[s[k]].idx
  OBVIOUS
<1> HIDE DEF f
<1>5. \A j, k \in 1 .. N : j <= k => f[j] <= f[k]
  BY <1>1, <1>2, <1>3, Monotone
<1> QED BY <1>4, <1>5

(* core_bench_list starts from the cell that was the first when the list    *)
(* was made, which may leave cells before it.                               *)
LEMMA CallStep ==
  ASSUME NEW n, NEW N, NEW s, NEW a, NEW a0, ListInv(n, N, s, a, a0), Call
  PROVE  ListIInv'
<1>1. Kernels /\ Heap(n) /\ Ring(n, N, s) /\ Member(n, N, s) /\ at = "call" /\ at' = "find"
  BY Zenon DEF ListInv, Call
<1>2. Whole(N, s) /\ Sorted(N, s) /\ Indexed(n) /\ Origin(n) /\ call >= 1
  BY <1>1, Zenon DEF ListInv, Phase
<1>3. UNCHANGED <<input, next, info, data, mem, mat, res, call, remover, origin>>
  BY Zenon DEF Call, heap, kernels
<1>4. /\ n \in Nat /\ n >= 2 /\ next \in [1 .. n -> 0 .. n] /\ remover \in 0 .. n
      /\ call \in Nat /\ data \in [1 .. n -> Datum]
  BY <1>1, Zenon DEF Heap
<1>5. /\ N \in Nat /\ N >= 2 /\ N <= n /\ s \in [1 .. N -> 1 .. n]
      /\ \A j, k \in 1 .. N : s[j] = s[k] => j = k
  BY <1>1, Zenon DEF Ring
<1>6. list' = 1 /\ retval' = 0
  BY <1>2 DEF Call, Origin
<1>7. Kernels'
  <2>1. 0 \in Half
    BY Halves, SMT
  <2>2. res' \in Results
    BY <1>1, <1>3, KernelTypes
  <2> QED BY <1>1, <1>3, <1>6, <2>1, <2>2, SameKernels
<1>8. Heap(n)' /\ Indexed(n)' /\ Origin(n)' /\ (call >= 1)'
  <2>1. 1 \in 1 .. n
    BY <1>4
  <2> QED BY <1>1, <1>2, <1>3, <1>4, <1>6, <2>1, SameHeap, SameIndexed, SameOrigin
<1>9. PICK j \in 1 .. N : s[j] = 1
  <2>1. 1 \in 1 .. n
    BY <1>4
  <2> QED BY <1>1, <2>1, Zenon DEF Member
<1>10. \A x, y \in 1 .. N : x <= y => data[s[x]].idx <= data[s[y]].idx
  BY <1>1, <1>2, AscendingOn, Zenon DEF Sorted
<1> DEFINE b == j - 1
           L == N - b
           t == From(s, b, L)
<1>11. /\ b \in Nat /\ L \in Nat /\ b + L = N /\ L <= N
       /\ \A k \in 1 .. L : b + k \in 1 .. N
  BY <1>5
<1>12. t \in [1 .. L -> 1 .. n] /\ \A k \in 1 .. L : t[k] = s[b + k]
  BY <1>5, <1>11 DEF From
<1> HIDE DEF t
<1>13. ASSUME NEW c \in 1 .. n, call <= 1 \/ c = 1 \/ data[c].idx # 0
       PROVE  \E k \in 1 .. L : t[k] = c
  <2>1. PICK k \in 1 .. N : s[k] = c
    BY <1>1, <1>13, Zenon DEF Member
  <2>2. k >= j
    <3>1. CASE call <= 1
      <4>1. s[1] = 1
        BY <1>1, <1>2, <3>1, Zenon DEF Sorted
      <4>2. j = 1
        BY <1>5, <1>9, <4>1
      <4> QED BY <4>2
    <3>2. CASE c = 1
      BY <1>5, <1>9, <2>1, <3>2
    <3>3. CASE data[c].idx # 0 /\ ~ (k >= j)
      <4>1. data[s[k]].idx <= data[s[j]].idx
        BY <1>10, <3>3
      <4>2. data[1].idx = 0
        BY <1>2, Zenon DEF Indexed
      <4>3. data[c].idx \in Int /\ 0 <= data[c].idx
        BY <1>4, DatumIs
      <4> QED BY <1>9, <2>1, <3>3, <4>1, <4>2, <4>3
    <3> QED BY <1>13, <3>1, <3>2, <3>3
  <2>3. k - b \in 1 .. L /\ b + (k - b) = k
    BY <1>5, <2>2
  <2>4. t[k - b] = c
    BY <1>12, <2>1, <2>3
  <2> QED BY <2>3, <2>4
<1>14. L >= 2
  <2>1. 1 \in 1 .. n /\ 2 \in 1 .. n /\ data[2].idx # 0
    BY <1>2, <1>4 DEF Indexed
  <2>2. \E k \in 1 .. L : t[k] = 1
    BY <1>13, <2>1
  <2>3. \E k \in 1 .. L : t[k] = 2
    BY <1>13, <2>1
  <2> HIDE DEF L
  <2> QED BY <1>11, <2>2, <2>3
<1>15. Ring(n, L, t)'
  <2>1. \A x, y \in 1 .. L : t[x] = t[y] => x = y
    <3> SUFFICES ASSUME NEW x \in 1 .. L, NEW y \in 1 .. L, t[x] = t[y] PROVE x = y
      OBVIOUS
    <3>1. s[b + x] = s[b + y] /\ b + x \in 1 .. N /\ b + y \in 1 .. N
      BY <1>11, <1>12
    <3>2. b + x = b + y
      BY <1>5, <3>1
    <3> HIDE DEF L, b
    <3> QED BY <1>11, <3>2
  <2>2. L <= n
    BY <1>4, <1>5, <1>11
  <2> HIDE DEF L
  <2> QED BY <1>11, <1>12, <1>14, <2>1, <2>2 DEF Ring
<1>16. Member(n, L, t)'
  BY <1>3, <1>13 DEF Member
<1>17. Whole(L, t)'
  <2>1. t[1] = 1
    <3>1. 1 \in 1 .. L /\ b + 1 = j
      BY <1>5, <1>14
    <3> QED BY <1>9, <1>12, <3>1
  <2>2. ASSUME NEW k \in 1 .. L - 1 PROVE next[t[k]] = t[k + 1]
    <3>1. k \in 1 .. L /\ k + 1 \in 1 .. L /\ b + k \in 1 .. N - 1 /\ b + (k + 1) = (b + k) + 1
      BY <1>5
    <3>2. next[s[b + k]] = s[(b + k) + 1]
      BY <1>2, <3>1 DEF Whole
    <3> QED BY <1>12, <3>1, <3>2
  <2>3. next[t[L]] = Null
    <3>1. L \in 1 .. L /\ b + L = N
      BY <1>11, <1>14
    <3>2. next[s[N]] = Null
      BY <1>2 DEF Whole
    <3> QED BY <1>12, <3>1, <3>2
  <2> HIDE DEF L
  <2> QED BY <1>3, <1>6, <2>1, <2>2, <2>3 DEF Whole
<1> HIDE DEF L
<1>18. Phase(n, L, t, 0, 0)'
  BY <1>1, <1>8, <1>17 DEF Phase
<1>19. ListInv(n, L, t, 0, 0)'
  BY <1>7, <1>8, <1>15, <1>16, <1>18 DEF ListInv
<1> QED BY <1>19 DEF ListIInv

-----------------------------------------------------------------------------
(* The statements that relink the list.                                     *)

Permutes(N, p, q) ==
  /\ p \in [1 .. N -> 1 .. N] /\ q \in [1 .. N -> 1 .. N]
  /\ \A k \in 1 .. N : p[q[k]] = k /\ q[p[k]] = k

Permuted(N, s, p) == [k \in 1 .. N |-> s[p[k]]]

SameCells(N, s, t) == \A c : (\E k \in 1 .. N : s[k] = c) => \E k \in 1 .. N : t[k] = c

LEMMA Reordered ==
  ASSUME NEW n, NEW N, NEW s, Ring(n, N, s), NEW p, NEW q, Permutes(N, p, q)
  PROVE  Ring(n, N, Permuted(N, s, p)) /\ SameCells(N, s, Permuted(N, s, p))
<1> USE DEF Permutes
<1> DEFINE t == Permuted(N, s, p)
<1>1. /\ N \in Nat /\ N >= 2 /\ N <= n /\ s \in [1 .. N -> 1 .. n]
      /\ \A j, k \in 1 .. N : s[j] = s[k] => j = k
  BY Zenon DEF Ring
<1>2. t \in [1 .. N -> 1 .. n] /\ \A k \in 1 .. N : t[k] = s[p[k]] /\ p[k] \in 1 .. N
  BY <1>1 DEF Permuted
<1> HIDE DEF t
<1>3. \A j, k \in 1 .. N : t[j] = t[k] => j = k
  <2> SUFFICES ASSUME NEW j \in 1 .. N, NEW k \in 1 .. N, t[j] = t[k] PROVE j = k
    OBVIOUS
  <2>1. p[j] = p[k]
    <3>1. t[j] = s[p[j]] /\ t[k] = s[p[k]] /\ p[j] \in 1 .. N /\ p[k] \in 1 .. N
      BY <1>2, Zenon
    <3>2. \A x, y \in 1 .. N : s[x] = s[y] => x = y
      BY <1>1, Zenon
    <3>3. s[p[j]] = s[p[k]]
      BY <3>1, Zenon
    <3> QED BY <3>1, <3>2, <3>3, Zenon
  <2>2. q[p[j]] = j /\ q[p[k]] = k
    OBVIOUS
  <2> QED BY <2>1, <2>2
<1>4. ASSUME NEW c, NEW k \in 1 .. N, s[k] = c PROVE \E j \in 1 .. N : t[j] = c
  <2>1. q[k] \in 1 .. N /\ p[q[k]] = k
    OBVIOUS
  <2>2. t[q[k]] = c
    BY <1>2, <1>4, <2>1
  <2> QED BY <2>1, <2>2
<1>5. Ring(n, N, t)
  BY <1>1, <1>2, <1>3, Zenon DEF Ring
<1>6. SameCells(N, s, t)
  BY <1>4, Zenon DEF SameCells
<1> QED BY <1>5, <1>6 DEF t

LEMMA SameMembers ==
  ASSUME NEW n, NEW N, NEW s, NEW t, Member(n, N, s), SameCells(N, s, t), UNCHANGED data,
         call' <= 1 => call <= 1
  PROVE  Member(n, N, t)'
BY DEF Member, SameCells

(* The header, the last item and one with an index between them.            *)
LEMMA ThreeCells ==
  ASSUME NEW n, NEW N, NEW s, Heap(n), Ring(n, N, s), Member(n, N, s), Indexed(n)
  PROVE  N >= 3
<1>1. N \in Nat /\ s \in [1 .. N -> 1 .. n]
  BY Zenon DEF Ring
<1>2. n \in Nat /\ n >= 2
  BY Zenon DEF Heap
<1>3. PICK c \in 3 .. n : data[c].idx # 0
  BY DEF Indexed
<1>4. c \in 1 .. n /\ 1 \in 1 .. n /\ 2 \in 1 .. n /\ c # 1 /\ c # 2 /\ data[2].idx # 0
  BY <1>2 DEF Indexed
<1>5. \E k \in 1 .. N : s[k] = 1
  BY <1>4, Zenon DEF Member
<1>6. \E k \in 1 .. N : s[k] = 2
  BY <1>4, Zenon DEF Member
<1>7. \E k \in 1 .. N : s[k] = c
  BY <1>3, <1>4, Zenon DEF Member
<1> QED BY <1>1, <1>4, <1>5, <1>6, <1>7

LEMMA RemoveStep ==
  ASSUME NEW n, NEW N, NEW s, NEW a, NEW a0, ListInv(n, N, s, a, a0), RemoveItem
  PROVE  ListIInv'
<1>1. /\ Kernels /\ Heap(n) /\ Ring(n, N, s) /\ Member(n, N, s)
      /\ at = "remove" /\ at' = "crc"
  BY Zenon DEF ListInv, RemoveItem
<1>2. Whole(N, s) /\ Indexed(n) /\ Origin(n) /\ call >= 1
  BY <1>1, Zenon DEF ListInv, Phase
<1>3. UNCHANGED <<input, data, mem, mat, res, call, list, retval, origin>>
  BY Zenon DEF RemoveItem, kernels
<1>4. /\ n \in Nat /\ n >= 2 /\ next \in [1 .. n -> 0 .. n] /\ info \in [1 .. n -> 1 .. n]
      /\ list \in 1 .. n /\ call \in Nat /\ data \in [1 .. n -> Datum]
  BY <1>1, Zenon DEF Heap
<1>5. \A c \in 1 .. n : info[c] = c
  BY <1>1 DEF Heap
<1>6. /\ N \in Nat /\ s \in [1 .. N -> 1 .. n]
      /\ \A j, k \in 1 .. N : s[j] = s[k] => j = k
  BY <1>1, Zenon DEF Ring
<1>7. N >= 3
  BY <1>1, <1>2, ThreeCells, Zenon
<1>8. 1 \in 1 .. N /\ 2 \in 1 .. N /\ 3 \in 1 .. N /\ N \in 1 .. N
  BY <1>6, <1>7
<1>9. /\ list = s[1] /\ next[s[1]] = s[2] /\ next[s[2]] = s[3]
      /\ s[1] # s[2] /\ s[1] # s[3] /\ s[2] # s[3]
  <2>1. next[s[1]] = s[1 + 1] /\ next[s[2]] = s[2 + 1] /\ list = s[1]
    BY <1>2, <1>6, <1>7 DEF Whole
  <2> QED BY <1>6, <1>8, <2>1
<1>10. /\ info' = [info EXCEPT ![s[2]] = info[s[3]], ![s[3]] = info[s[2]]]
       /\ next' = [next EXCEPT ![s[2]] = next[s[3]], ![s[3]] = Null]
       /\ remover' = s[3]
  BY <1>9, Zenon DEF RemoveItem
<1>11. /\ info' \in [1 .. n -> 1 .. n] /\ info'[s[2]] = s[3] /\ info'[s[3]] = s[2]
       /\ \A c \in 1 .. n : c # s[2] /\ c # s[3] => info'[c] = c
  BY <1>4, <1>5, <1>6, <1>8, <1>9, <1>10
<1>12. /\ next' \in [1 .. n -> 0 .. n] /\ next'[s[2]] = next[s[3]]
       /\ \A c \in 1 .. n : c # s[2] /\ c # s[3] => next'[c] = next[c]
  <2>1. s[2] \in 1 .. n /\ s[3] \in 1 .. n
    BY <1>6, <1>8
  <2>2. next \in [1 .. n -> 0 .. n] /\ n \in Nat
    BY <1>4
  <2>3. next[s[3]] \in 0 .. n /\ Null \in 0 .. n
    BY <2>1, <2>2 DEF Null
  <2> QED BY <1>9, <1>10, <2>1, <2>2, <2>3
<1> DEFINE p == [k \in 1 .. N |-> IF k < 3 THEN k ELSE IF k = N THEN 3 ELSE k + 1]
           q == [k \in 1 .. N |-> IF k < 3 THEN k ELSE IF k = 3 THEN N ELSE k - 1]
           t == Permuted(N, s, p)
<1>13. Permutes(N, p, q)
  BY <1>6, <1>7 DEF Permutes
<1>14. Ring(n, N, t) /\ SameCells(N, s, t)
  <2> HIDE DEF p, q
  <2> QED BY <1>1, <1>13, Reordered, Zenon
<1>15. /\ t[1] = s[1] /\ t[2] = s[2] /\ t[N] = s[3]
       /\ \A k \in 3 .. N - 1 : t[k] = s[k + 1]
  BY <1>6, <1>7 DEF Permuted
<1> HIDE DEF p, q, t
<1>16. Removed(n, N, t)'
  <2>1. ASSUME NEW k \in 1 .. N - 2 PROVE next'[t[k]] = t[k + 1]
    <3>1. k = 1 => next'[t[k]] = t[k + 1]
      <4>1. next'[s[1]] = s[2]
        BY <1>6, <1>8, <1>9, <1>12
      <4> QED BY <1>15, <4>1
    <3>2. k = 2 => next'[t[k]] = t[k + 1]
      <4> SUFFICES ASSUME k = 2 PROVE next'[t[2]] = t[3]
        OBVIOUS
      <4>1. 3 \in 3 .. N - 1 /\ 3 \in 1 .. N - 1 /\ 3 + 1 = 4
        BY <1>6
      <4>2. t[3] = s[4] /\ next[s[3]] = s[4]
        BY <1>2, <1>15, <4>1 DEF Whole
      <4> QED BY <1>12, <1>15, <4>2
    <3>3. k >= 3 => next'[t[k]] = t[k + 1]
      <4> SUFFICES ASSUME k >= 3 PROVE next'[t[k]] = t[k + 1]
        OBVIOUS
      <4>1. /\ k \in 3 .. N - 1 /\ k + 1 \in 3 .. N - 1 /\ k + 1 \in 1 .. N - 1
            /\ k + 1 \in 1 .. N /\ k + 1 # 2 /\ k + 1 # 3
        BY <1>6
      <4>2. next[s[k + 1]] = s[(k + 1) + 1]
        BY <1>2, <4>1 DEF Whole
      <4>3. s[k + 1] \in 1 .. n /\ s[k + 1] # s[2] /\ s[k + 1] # s[3]
        BY <1>6, <1>8, <4>1
      <4> QED BY <1>12, <1>15, <4>1, <4>2, <4>3
    <3> QED BY <1>6, <3>1, <3>2, <3>3
  <2>2. next'[t[N - 1]] = Null
    <3>1. next[s[N]] = Null
      BY <1>2 DEF Whole
    <3>2. CASE N = 3
      <4>1. N - 1 = 2
        BY <3>2
      <4> QED BY <1>12, <1>15, <3>1, <3>2, <4>1
    <3>3. CASE N # 3
      <4>1. N - 1 \in 3 .. N - 1 /\ (N - 1) + 1 = N /\ N # 2
        BY <1>6, <1>7, <3>3
      <4>2. t[N - 1] = s[N]
        BY <1>15, <4>1
      <4>3. s[N] \in 1 .. n /\ s[N] # s[2] /\ s[N] # s[3]
        BY <1>6, <1>8, <3>3, <4>1
      <4> QED BY <1>12, <3>1, <4>2, <4>3
    <3> QED BY <3>2, <3>3
  <2>3. list' = t[1] /\ remover' = t[N]
    BY <1>3, <1>9, <1>10, <1>15
  <2>4. /\ info'[t[2]] = t[N] /\ info'[t[N]] = t[2]
        /\ \A c \in 1 .. n : c # t[2] /\ c # t[N] => info'[c] = c
    BY <1>11, <1>15
  <2> QED BY <1>7, <2>1, <2>2, <2>3, <2>4, Zenon DEF Removed
<1>17. Heap(n)'
  <2>1. remover' \in 0 .. n
    BY <1>6, <1>8, <1>10
  <2> QED BY <1>1, <1>3, <1>4, <1>11, <1>12, <2>1 DEF Heap
<1>18. Kernels' /\ Ring(n, N, t)' /\ Member(n, N, t)'
  <2>1. Kernels'
    BY <1>1, <1>3, KernelTypes, SameKernels
  <2>2. Member(n, N, t)'
    BY <1>1, <1>3, <1>14, SameMembers
  <2> QED BY <1>14, <2>1, <2>2 DEF Ring
<1>19. Indexed(n)' /\ Origin(n)' /\ (call >= 1)'
  BY <1>2, <1>3, SameIndexed, SameOrigin
<1>20. Phase(n, N, t, 0, 0)'
  BY <1>1, <1>16, <1>19 DEF Phase
<1> QED BY <1>17, <1>18, <1>20 DEF ListInv, ListIInv

LEMMA UndoStep ==
  ASSUME NEW n, NEW N, NEW s, NEW a, NEW a0, ListInv(n, N, s, a, a0), Undo
  PROVE  ListIInv'
<1>1. /\ Kernels /\ Heap(n) /\ Ring(n, N, s) /\ Member(n, N, s)
      /\ at = "undo" /\ at' = "undone"
  BY Zenon DEF ListInv, Undo
<1>2. Removed(n, N, s) /\ Indexed(n) /\ Origin(n) /\ call >= 1
  BY <1>1, Zenon DEF ListInv, Phase
<1>3. UNCHANGED <<input, data, mem, mat, res, call, list, retval, remover, origin>>
  BY Zenon DEF Undo, kernels, locals
<1>4. /\ n \in Nat /\ next \in [1 .. n -> 0 .. n] /\ info \in [1 .. n -> 1 .. n]
      /\ list \in 1 .. n /\ remover \in 0 .. n /\ call \in Nat
  BY <1>1, Zenon DEF Heap
<1>5. /\ N \in Nat /\ s \in [1 .. N -> 1 .. n]
      /\ \A j, k \in 1 .. N : s[j] = s[k] => j = k
  BY <1>1, Zenon DEF Ring
<1>6. N >= 3
  BY <1>2, Zenon DEF Removed
<1>7. /\ list = s[1] /\ remover = s[N]
      /\ \A k \in 1 .. N - 2 : next[s[k]] = s[k + 1]
      /\ next[s[N - 1]] = Null
      /\ info[s[2]] = s[N] /\ info[s[N]] = s[2]
      /\ \A c \in 1 .. n : c # s[2] /\ c # s[N] => info[c] = c
  BY <1>2, Zenon DEF Removed
<1>8. 1 \in 1 .. N - 2 /\ 1 \in 1 .. N /\ 2 \in 1 .. N /\ N \in 1 .. N /\ 1 + 1 = 2 /\ N # 2
  BY <1>5, <1>6
<1>9. s[2] \in 1 .. n /\ s[N] \in 1 .. n /\ s[1] \in 1 .. n
  BY <1>5, <1>8
<1>10. s[2] # s[N] /\ s[1] # s[2] /\ s[1] # s[N]
  BY <1>5, <1>6, <1>8
<1>11. next[list] = s[2]
  BY <1>7, <1>8
<1>12. /\ info' = [info EXCEPT ![s[2]] = info[s[N]], ![s[N]] = info[s[2]]]
       /\ next' = [next EXCEPT ![s[N]] = next[s[2]], ![s[2]] = s[N]]
  BY <1>7, <1>11, Zenon DEF Undo
<1>13. info' \in [1 .. n -> 1 .. n] /\ \A c \in 1 .. n : info'[c] = c
  BY <1>4, <1>7, <1>9, <1>10, <1>12
<1>14. /\ next' \in [1 .. n -> 0 .. n] /\ next'[s[N]] = next[s[2]] /\ next'[s[2]] = s[N]
       /\ \A c \in 1 .. n : c # s[2] /\ c # s[N] => next'[c] = next[c]
  <2>1. next \in [1 .. n -> 0 .. n] /\ n \in Nat
    BY <1>4
  <2>2. next[s[2]] \in 0 .. n
    BY <1>9, <2>1
  <2>3. s[N] \in 0 .. n
    BY <1>9, <2>1
  <2> QED BY <1>9, <1>10, <1>12, <2>1, <2>2, <2>3
<1> DEFINE q == [k \in 1 .. N |-> IF k < 3 THEN k ELSE IF k = N THEN 3 ELSE k + 1]
           p == [k \in 1 .. N |-> IF k < 3 THEN k ELSE IF k = 3 THEN N ELSE k - 1]
           t == Permuted(N, s, p)
<1>15. Permutes(N, p, q)
  BY <1>5, <1>6 DEF Permutes
<1>16. Ring(n, N, t) /\ SameCells(N, s, t)
  <2> HIDE DEF p, q
  <2> QED BY <1>1, <1>15, Reordered, Zenon
<1>17. /\ t[1] = s[1] /\ t[2] = s[2] /\ t[3] = s[N]
       /\ \A k \in 4 .. N : t[k] = s[k - 1]
  BY <1>5, <1>6 DEF Permuted
<1> HIDE DEF p, q, t
<1>18. Whole(N, t)'
  <2>1. list' = t[1]
    BY <1>3, <1>7, <1>17
  <2>2. ASSUME NEW k \in 1 .. N - 1 PROVE next'[t[k]] = t[k + 1]
    <3>1. k = 1 => next'[t[k]] = t[k + 1]
      <4>1. next'[s[1]] = s[2]
        BY <1>7, <1>9, <1>10, <1>11, <1>14
      <4> QED BY <1>17, <4>1
    <3>2. k = 2 => next'[t[k]] = t[k + 1]
      <4>1. next'[t[2]] = t[3]
        BY <1>14, <1>17
      <4> QED BY <4>1
    <3>3. k = 3 => next'[t[k]] = t[k + 1]
      <4> SUFFICES ASSUME k = 3 PROVE next'[t[3]] = t[4]
        OBVIOUS
      <4>1. 2 \in 1 .. N - 2 /\ 4 \in 4 .. N /\ 2 + 1 = 3 /\ 4 - 1 = 3
        BY <1>5
      <4>2. next[s[2]] = s[3] /\ t[4] = s[3]
        BY <1>7, <1>17, <4>1
      <4> QED BY <1>14, <1>17, <4>2
    <3>4. k >= 4 => next'[t[k]] = t[k + 1]
      <4> SUFFICES ASSUME k >= 4 PROVE next'[t[k]] = t[k + 1]
        OBVIOUS
      <4>1. /\ k \in 4 .. N /\ k + 1 \in 4 .. N /\ k - 1 \in 1 .. N - 2 /\ k - 1 \in 1 .. N
            /\ (k - 1) + 1 = k /\ (k + 1) - 1 = k /\ k - 1 # 2 /\ k - 1 # N
        BY <1>5
      <4>2. next[s[k - 1]] = s[k] /\ t[k] = s[k - 1] /\ t[k + 1] = s[k]
        BY <1>7, <1>17, <4>1
      <4>3. s[k - 1] \in 1 .. n /\ s[k - 1] # s[2] /\ s[k - 1] # s[N]
        BY <1>5, <1>8, <4>1
      <4> QED BY <1>14, <4>2, <4>3
    <3> QED BY <1>5, <3>1, <3>2, <3>3, <3>4
  <2>3. next'[t[N]] = Null
    <3>1. CASE N = 3
      <4>1. N - 1 = 2
        BY <3>1
      <4> QED BY <1>7, <1>14, <1>17, <3>1, <4>1
    <3>2. CASE N # 3
      <4>1. N \in 4 .. N /\ N - 1 \in 1 .. N /\ N - 1 # 2 /\ N - 1 # N
        BY <1>5, <1>6, <3>2
      <4>2. t[N] = s[N - 1]
        BY <1>17, <4>1
      <4>3. s[N - 1] \in 1 .. n /\ s[N - 1] # s[2] /\ s[N - 1] # s[N]
        BY <1>5, <1>8, <4>1
      <4> QED BY <1>7, <1>14, <4>2, <4>3
    <3> QED BY <3>1, <3>2
  <2> QED BY <2>1, <2>2, <2>3, Zenon DEF Whole
<1>19. Heap(n)'
  BY <1>1, <1>3, <1>4, <1>13, <1>14 DEF Heap
<1>20. Kernels' /\ Ring(n, N, t)' /\ Member(n, N, t)'
  <2>1. Kernels'
    BY <1>1, <1>3, KernelTypes, SameKernels
  <2>2. Member(n, N, t)'
    BY <1>1, <1>3, <1>16, SameMembers
  <2> QED BY <1>16, <2>1, <2>2 DEF Ring
<1>21. Indexed(n)' /\ Origin(n)' /\ (call >= 1)'
  BY <1>2, <1>3, SameIndexed, SameOrigin
<1>22. Phase(n, N, t, 0, 0)'
  BY <1>1, <1>18, <1>21 DEF Phase
<1> QED BY <1>19, <1>20, <1>22 DEF ListInv, ListIInv

(* Relinked in the order of t.                                              *)
Ordered(n, nx, N, t) ==
  /\ nx \in [1 .. n -> 0 .. n]
  /\ \A k \in 1 .. N : nx[t[k]] = IF k < N THEN t[k + 1] ELSE Null

LEMMA LinkIs ==
  ASSUME NEW n \in Nat, NEW nx \in [1 .. n -> 0 .. n], NEW N, NEW t, Ring(n, N, t)
  PROVE  Ordered(n, Link(nx, t), N, t)
<1>1. /\ N \in Nat /\ t \in [1 .. N -> 1 .. n]
      /\ \A j, k \in 1 .. N : t[j] = t[k] => j = k
  BY Zenon DEF Ring
<1>2. Len(t) = N /\ DOMAIN t = 1 .. N /\ DOMAIN nx = 1 .. n
  BY <1>1, FunIsSeq
<1> DEFINE place(c) == CHOOSE j \in 1 .. N : t[j] = c
           new(c) == IF \E k \in 1 .. N : t[k] = c
                     THEN IF place(c) < N THEN t[place(c) + 1] ELSE Null
                     ELSE nx[c]
<1>3. Link(nx, t) = [c \in 1 .. n |-> new(c)]
  BY <1>2, Zenon DEF Link
<1>4. ASSUME NEW c \in 1 .. n PROVE new(c) \in 0 .. n
  <2>1. CASE \E k \in 1 .. N : t[k] = c
    <3>1. place(c) \in 1 .. N
      BY <2>1, Zenon
    <3> HIDE DEF place
    <3>2. place(c) < N => t[place(c) + 1] \in 1 .. n
      BY <1>1, <3>1, SMTT(30)
    <3> QED BY <2>1, <3>2 DEF Null
  <2>2. CASE ~ \E k \in 1 .. N : t[k] = c
    BY <2>2
  <2> QED BY <2>1, <2>2
<1>5. ASSUME NEW k \in 1 .. N PROVE new(t[k]) = IF k < N THEN t[k + 1] ELSE Null
  <2>1. place(t[k]) \in 1 .. N /\ t[place(t[k])] = t[k]
    BY Zenon
  <2>2. place(t[k]) = k
    BY <1>1, <2>1, Zenon
  <2> HIDE DEF place
  <2> QED BY <2>2
<1>6. Link(nx, t) \in [1 .. n -> 0 .. n]
  <2> HIDE DEF new
  <2> QED BY <1>3, <1>4
<1>7. \A k \in 1 .. N : Link(nx, t)[t[k]] = IF k < N THEN t[k + 1] ELSE Null
  <2> TAKE k \in 1 .. N
  <2>1. t[k] \in 1 .. n
    BY <1>1
  <2> HIDE DEF new
  <2>2. Link(nx, t)[t[k]] = new(t[k])
    BY <1>3, <2>1, Zenon
  <2> QED BY <1>5, <2>2
<1> QED BY <1>6, <1>7, Zenon DEF Ordered

(* The cell behind the one found, the q-th, moved behind the first.         *)
Moved(nx, first, found) ==
  LET moved == nx[found] IN
  IF moved = Null THEN nx
  ELSE LET cut == [nx EXCEPT ![found] = nx[moved]]
       IN  [cut EXCEPT ![moved] = cut[first], ![first] = moved]

LEMMA MovedIs ==
  ASSUME NEW n, NEW nx, NEW N, NEW t, Ring(n, N, t), Ordered(n, nx, N, t), NEW q \in 1 .. N
  PROVE  \E u : /\ Ring(n, N, u) /\ SameCells(N, t, u) /\ u[1] = t[1]
                /\ Ordered(n, Moved(nx, t[1], t[q]), N, u)
<1>1. /\ N \in Nat /\ N >= 2 /\ N <= n /\ t \in [1 .. N -> 1 .. n]
      /\ \A j, k \in 1 .. N : t[j] = t[k] => j = k
  BY Zenon DEF Ring
<1>2. /\ nx \in [1 .. n -> 0 .. n]
      /\ \A k \in 1 .. N : nx[t[k]] = IF k < N THEN t[k + 1] ELSE Null
  BY Zenon DEF Ordered
<1>3. CASE q = N
  <2>1. nx[t[q]] = Null
    BY <1>1, <1>2, <1>3
  <2>2. Moved(nx, t[1], t[q]) = nx
    BY <2>1 DEF Moved
  <2>3. SameCells(N, t, t)
    BY DEF SameCells
  <2> QED BY <2>2, <2>3
<1>4. CASE q # N
  <2>1. q \in 1 .. N - 1 /\ q + 1 \in 1 .. N /\ 1 \in 1 .. N /\ 2 \in 1 .. N /\ 1 < N
    BY <1>1, <1>4
  <2>2. nx[t[q]] = t[q + 1] /\ t[q + 1] \in 1 .. n /\ t[q] \in 1 .. n /\ t[1] \in 1 .. n
    BY <1>1, <1>2, <2>1
  <2>3. t[q + 1] # t[q] /\ t[q + 1] # t[1] /\ t[q + 1] # Null
    BY <1>1, <2>1, <2>2 DEF Null
  <2> DEFINE cut == [nx EXCEPT ![t[q]] = nx[t[q + 1]]]
             new == Moved(nx, t[1], t[q])
  <2>4. new = [cut EXCEPT ![t[q + 1]] = cut[t[1]], ![t[1]] = t[q + 1]]
    BY <2>2, <2>3, Zenon DEF Moved
  <2>5. nx[t[1]] = t[2] /\ t[2] \in 1 .. n
    <3>1. nx[t[1]] = t[1 + 1]
      BY <1>2, <2>1
    <3> QED BY <1>1, <2>1, <3>1
  <2> HIDE DEF new
  <2>6. CASE q = 1
    <3>1. cut[t[1]] = nx[t[2]] /\ t[q + 1] = t[2]
      BY <1>2, <2>2, <2>6
    <3>2. new = nx
      BY <1>2, <2>2, <2>3, <2>4, <2>5, <2>6, <3>1
    <3>3. SameCells(N, t, t)
      BY DEF SameCells
    <3> QED BY <3>2, <3>3 DEF new
  <2>7. CASE q # 1
    <3>1. t[q] # t[1]
      BY <1>1, <2>1, <2>7
    <3>2. cut[t[1]] = t[2] /\ cut \in [1 .. n -> 0 .. n] /\ cut[t[q]] = nx[t[q + 1]]
      BY <1>2, <2>2, <2>5, <3>1
    <3>3. \A c \in 1 .. n : c # t[q] => cut[c] = nx[c]
      BY <1>2
    <3> HIDE DEF cut
    <3>4. /\ new \in [1 .. n -> 0 .. n]
          /\ new[t[q + 1]] = t[2] /\ new[t[1]] = t[q + 1] /\ new[t[q]] = nx[t[q + 1]]
      BY <2>2, <2>3, <2>4, <2>5, <3>1, <3>2, SMTT(30)
    <3>5. \A c \in 1 .. n : c # t[q] /\ c # t[1] /\ c # t[q + 1] => new[c] = nx[c]
      BY <2>4, <3>2, <3>3
    <3> DEFINE p == [k \in 1 .. N |-> IF k = 1 THEN 1 ELSE IF k = 2 THEN q + 1
                                      ELSE IF k <= q + 1 THEN k - 1 ELSE k]
               r == [k \in 1 .. N |-> IF k = 1 THEN 1 ELSE IF k = q + 1 THEN 2
                                      ELSE IF k <= q THEN k + 1 ELSE k]
               u == Permuted(N, t, p)
    <3>6. Permutes(N, p, r)
      BY <1>1, <2>1, <2>7 DEF Permutes
    <3>7. /\ u[1] = t[1] /\ u[2] = t[q + 1]
          /\ \A k \in 3 .. q + 1 : u[k] = t[k - 1]
          /\ \A k \in q + 2 .. N : u[k] = t[k]
      BY <1>1, <2>1, <2>7 DEF Permuted
    <3>8. Ring(n, N, u) /\ SameCells(N, t, u)
      <4> HIDE DEF p, r
      <4> QED BY <3>6, Reordered, Zenon
    <3> HIDE DEF p, r, u
    <3>9. ASSUME NEW k \in 1 .. N PROVE new[u[k]] = IF k < N THEN u[k + 1] ELSE Null
      <4>1. k = 1 => new[u[k]] = IF k < N THEN u[k + 1] ELSE Null
        <5>1. new[u[1]] = u[2]
          BY <3>4, <3>7
        <5> QED BY <2>1, <5>1
      <4>2. k = 2 => new[u[k]] = IF k < N THEN u[k + 1] ELSE Null
        <5>1. 3 \in 3 .. q + 1 /\ 2 < N
          BY <1>1, <2>1, <2>7
        <5>2. u[3] = t[3 - 1]
          BY <3>7, <5>1
        <5>3. new[u[2]] = u[3]
          BY <3>4, <3>7, <5>2
        <5> QED BY <5>1, <5>3
      <4>3. k >= 3 /\ k <= q => new[u[k]] = IF k < N THEN u[k + 1] ELSE Null
        <5> SUFFICES ASSUME k >= 3, k <= q PROVE new[u[k]] = IF k < N THEN u[k + 1] ELSE Null
          OBVIOUS
        <5>1. /\ k \in 3 .. q + 1 /\ k + 1 \in 3 .. q + 1 /\ k < N /\ k - 1 \in 1 .. N
              /\ k - 1 < N /\ (k - 1) + 1 = k /\ (k + 1) - 1 = k
              /\ k - 1 # q /\ k - 1 # 1 /\ k - 1 # q + 1
          BY <1>1, <2>1
        <5>2. u[k] = t[k - 1] /\ u[k + 1] = t[k] /\ nx[t[k - 1]] = t[k]
          BY <1>2, <3>7, <5>1
        <5>3. t[k - 1] \in 1 .. n /\ t[k - 1] # t[q] /\ t[k - 1] # t[1] /\ t[k - 1] # t[q + 1]
          BY <1>1, <2>1, <5>1
        <5> QED BY <3>5, <5>1, <5>2, <5>3
      <4>4. k >= 3 /\ k = q + 1 => new[u[k]] = IF k < N THEN u[k + 1] ELSE Null
        <5> SUFFICES ASSUME k >= 3, k = q + 1 PROVE new[u[k]] = IF k < N THEN u[k + 1] ELSE Null
          OBVIOUS
        <5>1. k \in 3 .. q + 1 /\ k - 1 = q
          BY <2>1
        <5>2. u[k] = t[q] /\ new[u[k]] = nx[t[k]]
          BY <3>4, <3>7, <5>1
        <5>3. k < N => k + 1 \in q + 2 .. N
          BY <1>1, <2>1
        <5>4. k < N => u[k + 1] = t[k + 1]
          BY <3>7, <5>3
        <5> QED BY <1>2, <5>2, <5>4
      <4>5. k >= q + 2 => new[u[k]] = IF k < N THEN u[k + 1] ELSE Null
        <5> SUFFICES ASSUME k >= q + 2 PROVE new[u[k]] = IF k < N THEN u[k + 1] ELSE Null
          OBVIOUS
        <5>1. k \in q + 2 .. N /\ k # q /\ k # 1 /\ k # q + 1 /\ (k < N => k + 1 \in q + 2 .. N)
          BY <1>1, <2>1
        <5>2. t[k] \in 1 .. n /\ t[k] # t[q] /\ t[k] # t[1] /\ t[k] # t[q + 1]
          BY <1>1, <2>1, <5>1
        <5>3. u[k] = t[k] /\ (k < N => u[k + 1] = t[k + 1]) /\ new[t[k]] = nx[t[k]]
          BY <3>5, <3>7, <5>1, <5>2
        <5> QED BY <1>2, <5>3
      <4> QED BY <1>1, <2>1, <4>1, <4>2, <4>3, <4>4, <4>5
    <3>10. Ordered(n, new, N, u)
      BY <3>4, <3>9, Zenon DEF Ordered
    <3> QED BY <3>7, <3>8, <3>10, Zenon DEF new
  <2> QED BY <2>6, <2>7
<1> QED BY <1>3, <1>4

LEMMA BitType ==
  ASSUME NEW x \in Int
  PROVE  /\ BitAt(x, 1) \in Int /\ BitAt(x, 256) \in Int /\ BitAt(x, 512) \in Int
BY SMT DEF BitAt

LEMMA ReversedIs ==
  ASSUME NEW n, NEW N, NEW s, Heap(n), Ring(n, N, s), Whole(N, s)
  PROVE  \E t : /\ Ring(n, N, t) /\ SameCells(N, s, t)
                /\ \A k \in 1 .. N : \E q \in 1 .. N : s[k] = t[q]
                /\ core_list_reverse(list) = [next |-> Link(next, t), head |-> t[1]]
<1>1. Chain(next, list) = s /\ Len(s) = N
  BY WholeChain
<1>2. N \in Nat /\ s \in [1 .. N -> 1 .. n]
  BY Zenon DEF Ring
<1> DEFINE p == [k \in 1 .. N |-> (N - k) + 1]
           t == Permuted(N, s, p)
<1>3. Permutes(N, p, p)
  BY <1>2 DEF Permutes
<1>4. t = [k \in 1 .. N |-> s[(N - k) + 1]]
  BY <1>2 DEF Permuted
<1>5. Reverse(s) = t
  BY <1>1, <1>4, Zenon DEF Reverse
<1>6. core_list_reverse(list) = [next |-> Link(next, t), head |-> t[1]]
  BY <1>1, <1>5, Zenon DEF core_list_reverse
<1>7. \A k \in 1 .. N : \E q \in 1 .. N : s[k] = t[q]
  <2> TAKE k \in 1 .. N
  <2>1. (N - k) + 1 \in 1 .. N /\ (N - ((N - k) + 1)) + 1 = k
    BY <1>2
  <2>2. t[(N - k) + 1] = s[k]
    BY <1>4, <2>1
  <2> HIDE DEF t
  <2> QED BY <2>1, <2>2
<1> HIDE DEF p
<1>8. Ring(n, N, t) /\ SameCells(N, s, t)
  BY <1>3, Reordered, Zenon
<1> HIDE DEF t
<1> QED BY <1>6, <1>7, <1>8

LEMMA FindStep ==
  ASSUME NEW n, NEW N, NEW s, NEW a, NEW a0, ListInv(n, N, s, a, a0), Find
  PROVE  ListIInv'
<1>1. /\ Kernels /\ Heap(n) /\ Ring(n, N, s) /\ Member(n, N, s) /\ at = "find"
  BY Zenon DEF ListInv, Find
<1>2. Whole(N, s) /\ Indexed(n) /\ Origin(n) /\ call >= 1
  BY <1>1, Zenon DEF ListInv, Phase
<1>3. UNCHANGED <<input, info, data, mem, mat, res, at, call, remover, origin>>
  BY Zenon DEF Find, kernels
<1>4. /\ n \in Nat /\ next \in [1 .. n -> 0 .. n] /\ info \in [1 .. n -> 1 .. n]
      /\ list \in 1 .. n /\ remover \in 0 .. n /\ call \in Nat /\ data \in [1 .. n -> Datum]
  BY <1>1, Zenon DEF Heap
<1>5. /\ N \in Nat /\ N >= 2 /\ s \in [1 .. N -> 1 .. n]
  BY <1>1, Zenon DEF Ring
<1>6. Chain(next, list) = s /\ Len(s) = N
  BY <1>1, <1>2, WholeChain
<1>7. PICK t : /\ Ring(n, N, t) /\ SameCells(N, s, t)
               /\ \A k \in 1 .. N : \E q \in 1 .. N : s[k] = t[q]
               /\ core_list_reverse(list) = [next |-> Link(next, t), head |-> t[1]]
  BY <1>1, <1>2, ReversedIs, ZenonT(40)
<1> DEFINE what == [wanted EXCEPT !.data16 = i % 256]
           found == core_list_find(list, what)
           nx == Link(next, t)
<1>8. Ordered(n, nx, N, t)
  BY <1>4, <1>7, LinkIs, Zenon
<1>9. core_list_reverse(list).next = nx /\ core_list_reverse(list).head = t[1]
  BY <1>7
<1>10. t \in [1 .. N -> 1 .. n] /\ nx \in [1 .. n -> 0 .. n] /\ t[1] \in 1 .. n /\ nx[t[1]] \in 1 .. n
  <2>1. t \in [1 .. N -> 1 .. n]
    BY <1>7, Zenon DEF Ring
  <2>2. /\ nx \in [1 .. n -> 0 .. n]
        /\ \A k \in 1 .. N : nx[t[k]] = IF k < N THEN t[k + 1] ELSE Null
    BY <1>8, Zenon DEF Ordered
  <2>3. 1 \in 1 .. N /\ 2 \in 1 .. N /\ 1 < N /\ 1 + 1 = 2
    BY <1>5
  <2> HIDE DEF nx
  <2>4. nx[t[1]] = t[2]
    BY <2>2, <2>3
  <2> QED BY <2>1, <2>2, <2>3, <2>4
<1>11. found # Null => \E q \in 1 .. N : found = t[q]
  <2>1. list \in 0 .. n
    BY <1>4
  <2>2. found # Null => \E k \in 1 .. Len(Chain(next, list)) : found = Chain(next, list)[k]
    BY <1>4, <2>1, FoundIs, Zenon
  <2>3. found # Null => \E k \in 1 .. N : found = s[k]
    BY <1>6, <2>2, Zenon
  <2> QED BY <1>7, <2>3, Zenon
<1>12. /\ list' = t[1]
       /\ found = Null => next' = nx
       /\ found # Null => next' = Moved(nx, t[1], found)
       /\ retval' = IF found = Null THEN U16(retval + BitAt(Data(nx[t[1]]).data16, 256) - 1)
                    ELSE U16(retval + BitAt(Data(found).data16, 1)
                               * BitAt(Data(found).data16, 512) + 4)
  <2> HIDE DEF nx, found, what
  <2>1. list' = core_list_reverse(list).head
    BY Zenon DEF Find
  <2>2. found = Null =>
          /\ next' = nx
          /\ retval' = U16(retval + BitAt(Data(nx[t[1]]).data16, 256) - 1)
    BY <1>9, Zenon DEF Find, found, what
  <2>3. found # Null =>
          /\ next' = Moved(nx, t[1], found)
          /\ retval' = U16(retval + BitAt(Data(found).data16, 1)
                             * BitAt(Data(found).data16, 512) + 4)
    BY <1>9, ZenonT(40) DEF Find, found, what, Moved
  <2> QED BY <1>9, <2>1, <2>2, <2>3
<1> HIDE DEF found, nx
<1>13. retval' \in Half
  <2>1. ASSUME NEW c \in 1 .. n
        PROVE  /\ BitAt(Data(c).data16, 1) \in Int
               /\ BitAt(Data(c).data16, 256) \in Int
               /\ BitAt(Data(c).data16, 512) \in Int
    <3>1. Data(c) \in Datum
      BY <1>4 DEF Data
    <3>2. Data(c).data16 \in Int
      BY <3>1, DatumIs, HalfInt
    <3> QED BY <3>2, BitType, SMT
  <2>2. retval \in Int
    BY <1>1, KernelTypes, HalfInt
  <2>3. CASE found = Null
    <3> DEFINE x == BitAt(Data(nx[t[1]]).data16, 256)
    <3>1. x \in Int
      BY <1>10, <2>1
    <3>2. retval' = U16(retval + x - 1)
      BY <1>12, <2>3
    <3> HIDE DEF x
    <3>3. retval + x - 1 \in Int
      BY <2>2, <3>1
    <3> QED BY <3>2, <3>3, U16Type
  <2>4. CASE found # Null
    <3> DEFINE x == BitAt(Data(found).data16, 1)
               y == BitAt(Data(found).data16, 512)
    <3>1. x \in Int /\ y \in Int
      <4>1. found \in 1 .. n
        BY <1>10, <1>11, <2>4
      <4> QED BY <2>1, <4>1
    <3>2. retval' = U16(retval + x * y + 4)
      BY <1>12, <2>4
    <3> HIDE DEF x, y
    <3>3. retval + x * y + 4 \in Int
      BY <2>2, <3>1
    <3> QED BY <3>2, <3>3, U16Type
  <2> QED BY <2>3, <2>4
<1>14. PICK u : Ring(n, N, u) /\ SameCells(N, t, u) /\ u[1] = t[1] /\ Ordered(n, next', N, u)
  <2>1. CASE found = Null
    <3>1. SameCells(N, t, t)
      BY DEF SameCells
    <3> QED BY <1>7, <1>8, <1>12, <2>1, <3>1
  <2>2. CASE found # Null
    <3>1. PICK q \in 1 .. N : found = t[q]
      BY <1>11, <2>2
    <3>2. \E u : /\ Ring(n, N, u) /\ SameCells(N, t, u) /\ u[1] = t[1]
                 /\ Ordered(n, Moved(nx, t[1], t[q]), N, u)
      BY <1>7, <1>8, MovedIs, Zenon
    <3>3. next' = Moved(nx, t[1], t[q])
      BY <1>12, <2>2, <3>1
    <3> QED BY <3>2, <3>3
  <2> QED BY <2>1, <2>2
<1>15. Whole(N, u)' /\ next' \in [1 .. n -> 0 .. n]
  <2>1. /\ next' \in [1 .. n -> 0 .. n]
        /\ \A k \in 1 .. N : next'[u[k]] = IF k < N THEN u[k + 1] ELSE Null
    BY <1>14, Zenon DEF Ordered
  <2>2. N \in 1 .. N /\ ~ (N < N) /\ \A k \in 1 .. N - 1 : k \in 1 .. N /\ k < N
    BY <1>5
  <2>3. list' = u[1]
    BY <1>12, <1>14
  <2> QED BY <2>1, <2>2, <2>3 DEF Whole
<1>16. Heap(n)'
  <2>1. list' \in 1 .. n
    BY <1>10, <1>12
  <2> QED BY <1>1, <1>3, <1>4, <1>15, <2>1 DEF Heap
<1>17. Kernels' /\ Ring(n, N, u)' /\ Member(n, N, u)'
  <2>1. Kernels'
    BY <1>1, <1>3, <1>13, KernelTypes, SameKernels
  <2>2. SameCells(N, s, u)
    BY <1>7, <1>14, Zenon DEF SameCells
  <2>3. Member(n, N, u)'
    BY <1>1, <1>3, <2>2, SameMembers
  <2> QED BY <1>14, <2>1, <2>3 DEF Ring
<1>18. Indexed(n)' /\ Origin(n)' /\ (call >= 1)'
  BY <1>2, <1>3, SameIndexed, SameOrigin
<1>19. Phase(n, N, u, 0, 0)'
  BY <1>1, <1>3, <1>15, <1>18 DEF Phase
<1> QED BY <1>16, <1>17, <1>19 DEF ListInv, ListIInv

-----------------------------------------------------------------------------
(* The list is made.                                                        *)

LEMMA SizeIs ==
  ASSUME Kernels
  PROVE  /\ ListSize(input.size) \in Int /\ ListSize(input.size) >= 4
         /\ ListSize(input.size) \div 5 <= 32768
<1>1. input \in Inputs
  BY KernelTypes
<1>2. input.size \in Nat /\ input.size >= 120 /\ ListSize(input.size) \div 5 <= 32768
  BY <1>1, InputsAssumption
<1>3. ListSize(input.size) \in Int /\ ListSize(input.size) >= 4
  BY <1>2, SMT DEF ListSize
<1> QED BY <1>2, <1>3

LEMMA ItemType ==
  ASSUME NEW k \in Nat, NEW seed
  PROVE  Item(k, seed) \in Datum /\ Item(k, seed).idx = 0
<1> DEFINE x == Xor8(seed, k)
           dat == ((x % 16) * 8) + (k % 8)
<1>1. x \in Int /\ 0 <= x /\ x < 256
  BY Xor8Bits, Bytes
<1>2. Item(k, seed) = [idx |-> 0, data16 |-> (dat * 256) + dat]
  BY SMT DEF Item
<1> HIDE DEF x
<1>3. (dat * 256) + dat \in Half
  BY <1>1, Halves, SMT
<1>4. 0 \in Number
  BY Numbers, SMT
<1> HIDE DEF dat
<1> QED BY <1>2, <1>3, <1>4 DEF Datum

LEMMA Or8Type ==
  ASSUME NEW x, NEW y
  PROVE  Or8(x, y) \in Int /\ 0 <= Or8(x, y)
BY SMT DEF Or8

LEMMA IndexType ==
  ASSUME NEW k \in Nat, NEW size \in Int, size \div 5 <= 32768, NEW seed
  PROVE  Index(k, size, seed) \in Number
<1> DEFINE pat == Xor16(k, seed)
           x == Or8((k + 1) % 8, pat \div 256)
<1>1. pat \in Int
  <2>1. Xor8(k \div 256, seed \div 256) \in Int /\ Xor8(k, seed) \in Int
    BY Xor8Bits, Bytes
  <2> QED BY <2>1, SMT DEF Xor16
<1>2. x \in Int
  BY Or8Type
<1>3. Index(k, size, seed) = IF k < size \div 5 THEN k ELSE (x * 256 + (pat % 256)) % 16384
  BY SMT DEF Index
<1> HIDE DEF pat, x
<1>4. k < size \div 5 => k \in Number
  <2>1. size \div 5 \in Int
    BY SMT
  <2> QED BY <2>1, Numbers, SMT
<1>5. (x * 256 + (pat % 256)) % 16384 \in Number
  <2>1. pat % 256 \in Int /\ x * 256 \in Int
    BY <1>1, <1>2, SMT
  <2>2. \A y \in Int : y % 16384 \in Number
    BY Numbers, SMT
  <2>3. x * 256 + (pat % 256) \in Int
    BY <2>1, SMT
  <2> QED BY <2>2, <2>3, SMT
<1> QED BY <1>3, <1>4, <1>5

(* An index is not 0 because a bit of k + 1 is or-ed into its upper half.   *)
LEMMA FirstIndex ==
  ASSUME NEW size \in Int, NEW seed
  PROVE  Index(1, size, seed) # 0
<1> DEFINE pat == Xor16(1, seed)
           y == pat \div 256
           x == Or8(2, y)
           bit(w) == IF BitAt(2, w) = 0 /\ BitAt(y, w) = 0 THEN 0 ELSE w
<1>1. pat \in Int
  <2>1. Xor8(1 \div 256, seed \div 256) \in Int /\ Xor8(1, seed) \in Int
    BY Xor8Bits, Bytes
  <2> QED BY <2>1, SMT DEF Xor16
<1>2. x = bit(1) + bit(2) + bit(4) + bit(8) + bit(16) + bit(32) + bit(64) + bit(128)
  BY SMT DEF Or8
<1>3. bit(2) = 2
  BY SMT DEF BitAt
<1>4. /\ bit(1) \in {0, 1} /\ bit(4) \in {0, 4} /\ bit(8) \in {0, 8} /\ bit(16) \in {0, 16}
      /\ bit(32) \in {0, 32} /\ bit(64) \in {0, 64} /\ bit(128) \in {0, 128}
  BY SMT
<1>5. Index(1, size, seed) =
        IF 1 < size \div 5 THEN 1 ELSE (Or8((1 + 1) % 8, y) * 256 + (pat % 256)) % 16384
  BY SMT DEF Index
<1>6. (1 + 1) % 8 = 2
  BY SMT
<1>7. Index(1, size, seed) = IF 1 < size \div 5 THEN 1 ELSE (x * 256 + (pat % 256)) % 16384
  BY <1>5, <1>6, SMT
<1> HIDE DEF bit, x, y, pat
<1> DEFINE low == bit(1) + bit(2) + bit(4) + bit(8) + bit(16) + bit(32)
           high == bit(64) + bit(128)
           r == pat % 256
<1>8. /\ low \in Int /\ 2 <= low /\ low < 64 /\ x = low + high /\ high \in {0, 64, 128, 192}
  BY <1>2, <1>3, <1>4, SMT
<1>9. r \in Int /\ 0 <= r /\ r < 256
  BY <1>1, SMT
<1> HIDE DEF low, high, r
<1>10. (x * 256 + r) % 16384 = low * 256 + r
  <2>1. PICK q \in {0, 1, 2, 3} : high = 64 * q
    BY <1>8, SMT
  <2>2. x * 256 + r = 16384 * q + (low * 256 + r)
    BY <1>8, <1>9, <2>1, SMT
  <2>3. low * 256 + r \in Int /\ 0 <= low * 256 + r /\ low * 256 + r < 16384
    BY <1>8, <1>9, SMT
  <2> QED BY <2>1, <2>2, <2>3, SMT
<1>11. low * 256 + r # 0
  BY <1>8, <1>9, SMT
<1> QED BY <1>7, <1>10, <1>11, SMT DEF r

Appendable(S, n, f, e) == n \in Nat /\ f \in [1 .. n -> S] /\ e \in S
Extended(g, n, f, e) == g = [k \in 1 .. n + 1 |-> IF k = n + 1 THEN e ELSE f[k]]

LEMMA AppendIs ==
  ASSUME NEW S, NEW n, NEW f, NEW e, Appendable(S, n, f, e)
  PROVE  Extended(Append(f, e), n, f, e)
<1>0. n \in Nat /\ f \in [1 .. n -> S] /\ e \in S
  BY DEF Appendable
<1>1. f \in Seq(S) /\ Len(f) = n
  BY <1>0, FunIsSeq
<1>2. Append(f, e) \in Seq(S) /\ Len(Append(f, e)) = n + 1
  BY <1>0, <1>1
<1>3. \A k \in 1 .. n + 1 : Append(f, e)[k] = IF k = n + 1 THEN e ELSE f[k]
  BY <1>0, <1>1
<1>4. Append(f, e) \in [1 .. n + 1 -> S]
  BY <1>0, <1>2, SeqIsFun
<1> QED BY <1>3, <1>4 DEF Extended

LEMMA InsertStep ==
  ASSUME NEW n, NEW N, NEW s, NEW a, NEW a0, ListInv(n, N, s, a, a0), Insert
  PROVE  ListIInv'
<1>1. /\ Kernels /\ Heap(n) /\ Ring(n, N, s) /\ Member(n, N, s)
      /\ at = "insert" /\ i < ListSize(input.size) /\ i' = i + 1
  BY Zenon DEF ListInv, Insert
<1>2. Whole(N, s) /\ Inserting(n, N, s)
  BY <1>1, Zenon DEF ListInv, Phase
<1>3. UNCHANGED <<input, mem, mat, res, at, call, list, retval, remover>>
  BY Zenon DEF Insert, kernels
<1>4. /\ n \in Nat /\ n >= 2 /\ next \in [1 .. n -> 0 .. n] /\ info \in [1 .. n -> 1 .. n]
      /\ list \in 1 .. n /\ remover \in 0 .. n /\ call \in Nat /\ data \in [1 .. n -> Datum]
  BY <1>1, Zenon DEF Heap
<1>5. \A c \in 1 .. n : info[c] = c
  BY <1>1, Zenon DEF Heap
<1>6. /\ N = n /\ s[1] = 1 /\ s[N] = 2 /\ call = 0
      /\ data[1].idx = 0 /\ i \in Nat
      /\ n >= i + 2 \/ n >= ListSize(input.size) - 1
  BY <1>2, Zenon DEF Inserting
<1>7. s \in [1 .. n -> 1 .. n] /\ \A j, k \in 1 .. n : s[j] = s[k] => j = k
  BY <1>1, <1>6, Zenon DEF Ring
<1>8. ListSize(input.size) \in Int
  BY <1>1, SizeIs
<1>9. Kernels'
  BY <1>1, <1>3, KernelTypes, SameKernels
<1>10. Len(next) = n
  BY <1>4, FunIsSeq
<1> DEFINE c == n + 1
           what == Item(i, input.seed1)
<1>11. CASE c >= ListSize(input.size)
  <2>1. UNCHANGED <<next, info, data>>
    BY <1>10, <1>11, Zenon DEF Insert, core_list_insert_new, heap
  <2>2. Heap(n)' /\ Member(n, N, s)' /\ Whole(N, s)'
    BY <1>1, <1>2, <1>3, <1>4, <2>1, SameHeap, SameMember, SameWhole
  <2>3. Inserting(n, N, s)'
    <3>1. i' \in Nat /\ n >= ListSize(input.size) - 1
      BY <1>1, <1>4, <1>6, <1>8, <1>11
    <3> QED BY <1>2, <1>3, <2>1, <3>1 DEF Inserting
  <2>4. Phase(n, N, s, 0, 0)'
    <3>1. ~ (call' >= 1)
      BY <1>3, <1>6
    <3> QED BY <1>1, <1>3, <2>2, <2>3, <3>1 DEF Phase
  <2>5. Ring(n, N, s)'
    BY <1>1 DEF Ring
  <2>6. ListInv(n, N, s, 0, 0)'
    BY <1>9, <2>2, <2>4, <2>5 DEF ListInv
  <2> QED BY <2>6 DEF ListIInv
<1>12. CASE ~ (c >= ListSize(input.size))
  <2>1. /\ next' = Append([next EXCEPT ![1] = c], next[1])
        /\ info' = Append(info, c)
        /\ data' = Append(data, what)
    BY <1>10, <1>12, Zenon DEF Insert, core_list_insert_new
  <2>2. what \in Datum /\ what.idx = 0
    BY <1>6, ItemType
  <2> HIDE DEF what
  <2>3. /\ c \in Nat /\ c \in 1 .. c /\ c \in 0 .. c
        /\ \A k \in 0 .. n : k \in 0 .. c
        /\ \A k \in 1 .. n : k \in 1 .. c
    BY <1>4, SMTT(30)
  <2> HIDE DEF c
  <2>4. next' = [k \in 1 .. n + 1 |-> IF k = n + 1 THEN next[1] ELSE IF k = 1 THEN c ELSE next[k]]
    <3> DEFINE nx == [next EXCEPT ![1] = c]
    <3>1. nx = [k \in 1 .. n |-> IF k = 1 THEN c ELSE next[k]]
      BY <1>4
    <3>2. \A k \in 1 .. n : next[k] \in 0 .. c
      BY <1>4, <2>3
    <3>3. next' = Append(nx, next[1])
      BY <2>1
    <3> HIDE DEF nx
    <3>4. nx \in [1 .. n -> 0 .. c] /\ next[1] \in 0 .. c
      <4>1. 1 \in 1 .. n
        BY <1>4
      <4> QED BY <2>3, <3>1, <3>2, <4>1
    <3>5. Appendable(0 .. c, n, nx, next[1])
      BY <1>4, <3>4 DEF Appendable
    <3>6. Extended(next', n, nx, next[1])
      BY <3>3, <3>5, AppendIs, Zenon
    <3>7. next' = [k \in 1 .. n + 1 |-> IF k = n + 1 THEN next[1] ELSE nx[k]]
      BY <3>6, Zenon DEF Extended
    <3>8. \A k \in 1 .. n + 1 : k # n + 1 => nx[k] = IF k = 1 THEN c ELSE next[k]
      <4>1. \A k \in 1 .. n + 1 : k # n + 1 => k \in 1 .. n
        BY <1>4
      <4> QED BY <3>1, <4>1
    <3> QED BY <3>7, <3>8
  <2>5. info' = [k \in 1 .. n + 1 |-> IF k = n + 1 THEN c ELSE info[k]]
    <3>1. info \in [1 .. n -> 1 .. c]
      BY <1>4, <2>3
    <3>2. Appendable(1 .. c, n, info, c)
      BY <1>4, <2>3, <3>1 DEF Appendable
    <3>3. Extended(info', n, info, c)
      BY <2>1, <3>2, AppendIs
    <3> QED BY <3>3, Zenon DEF Extended
  <2>6. data' = [k \in 1 .. n + 1 |-> IF k = n + 1 THEN what ELSE data[k]]
    <3>1. Appendable(Datum, n, data, what)
      BY <1>4, <2>2, Zenon DEF Appendable
    <3>2. Extended(data', n, data, what)
      BY <2>1, <3>1, AppendIs
    <3> QED BY <3>2, Zenon DEF Extended
  <2>7. /\ n + 1 = c
        /\ next' \in [1 .. c -> 0 .. c] /\ next'[c] = next[1] /\ next'[1] = c
        /\ \A k \in 1 .. n : k # 1 => next'[k] = next[k]
    <3>1. n + 1 = c
      BY DEF c
    <3>2. 1 \in 1 .. n /\ 1 \in 1 .. c /\ 1 # c /\ \A k \in 1 .. n : k # c
      BY <1>4 DEF c
    <3>3. next' = [k \in 1 .. c |-> IF k = c THEN next[1] ELSE IF k = 1 THEN c ELSE next[k]]
      BY <2>4, <3>1
    <3>4. \A k \in 1 .. c : (IF k = c THEN next[1] ELSE IF k = 1 THEN c ELSE next[k]) \in 0 .. c
      <4>1. \A k \in 1 .. c : k # c => k \in 1 .. n
        BY <1>4 DEF c
      <4> QED BY <1>4, <2>3, <3>2, <4>1
    <3> QED BY <2>3, <3>1, <3>2, <3>3, <3>4
  <2>8. info' \in [1 .. c -> 1 .. c] /\ \A k \in 1 .. c : info'[k] = k
    <3>1. n + 1 = c /\ \A k \in 1 .. c : k # c => k \in 1 .. n
      BY <1>4 DEF c
    <3> QED BY <1>5, <2>3, <2>5, <3>1
  <2>9. /\ data' \in [1 .. c -> Datum]
        /\ data'[1] = data[1] /\ data'[2] = data[2]
    <3>1. n + 1 = c /\ \A k \in 1 .. c : k # c => k \in 1 .. n
      BY <1>4 DEF c
    <3>2. 1 \in 1 .. c /\ 2 \in 1 .. c /\ 1 # c /\ 2 # c
      BY <1>4 DEF c
    <3> QED BY <1>4, <2>2, <2>3, <2>6, <3>1, <3>2
  <2> DEFINE t == [k \in 1 .. c |-> IF k = 1 THEN 1 ELSE IF k = 2 THEN c ELSE s[k - 1]]
  <2>10. /\ t \in [1 .. c -> 1 .. c] /\ t[1] = 1 /\ t[2] = c /\ t[c] = 2
         /\ \A k \in 3 .. c : t[k] = s[k - 1]
    <3>1. \A k \in 1 .. c : k # 1 /\ k # 2 => k - 1 \in 1 .. n
      BY <1>4 DEF c
    <3>2. \A k \in 1 .. c : k # 1 /\ k # 2 => s[k - 1] \in 1 .. c
      BY <1>7, <2>3, <3>1
    <3>3. 1 \in 1 .. c /\ 2 \in 1 .. c /\ c # 1 /\ c # 2 /\ c - 1 = n
      BY <1>4 DEF c
    <3>4. t \in [1 .. c -> 1 .. c]
      BY <2>3, <3>2, <3>3
    <3>5. \A k \in 3 .. c : k \in 1 .. c /\ k # 1 /\ k # 2
      BY <2>3
    <3> QED BY <1>6, <2>3, <3>3, <3>4, <3>5
  <2> HIDE DEF t
  <2>11. Ring(c, c, t)
    <3>1. \A k \in 3 .. c : t[k] \in 1 .. n /\ t[k] # 1 /\ t[k] # c
      <4> TAKE k \in 3 .. c
      <4>1. k - 1 \in 1 .. n /\ k - 1 # 1 /\ 1 \in 1 .. n
        BY <1>4 DEF c
      <4>2. s[k - 1] \in 1 .. n /\ s[k - 1] # s[1]
        BY <1>7, <4>1
      <4>3. \A x \in 1 .. n : x # c
        BY <1>4 DEF c
      <4> QED BY <1>6, <2>10, <4>2, <4>3
    <3>2. ASSUME NEW j \in 1 .. c, NEW k \in 1 .. c, t[j] = t[k] PROVE j = k
      <4>1. 1 # c /\ (j \in {1, 2} \/ j \in 3 .. c) /\ (k \in {1, 2} \/ k \in 3 .. c)
        BY <1>4, <2>3, SMTT(30) DEF c
      <4>2. CASE j \in 3 .. c /\ k \in 3 .. c
        <5>1. j - 1 \in 1 .. n /\ k - 1 \in 1 .. n
          BY <1>4, <4>2 DEF c
        <5>2. s[j - 1] = s[k - 1]
          BY <2>10, <3>2, <4>2
        <5>3. j - 1 = k - 1
          BY <1>7, <5>1, <5>2
        <5> QED BY <5>3
      <4>3. CASE ~ (j \in 3 .. c /\ k \in 3 .. c)
        BY <2>10, <3>1, <3>2, <4>1, <4>3
      <4> QED BY <4>2, <4>3
    <3>3. c >= 2 /\ c <= c
      BY <1>4 DEF c
    <3> QED BY <2>3, <2>10, <3>2, <3>3 DEF Ring
  <2>12. Member(c, c, t)'
    <3> SUFFICES ASSUME NEW d \in 1 .. c PROVE \E k \in 1 .. c : t[k] = d
      BY DEF Member
    <3>1. 1 \in 1 .. c /\ 2 \in 1 .. c
      BY <1>4 DEF c
    <3>2. CASE d = c
      BY <2>10, <3>1, <3>2
    <3>3. CASE d # c
      <4>1. d \in 1 .. n /\ call <= 1
        BY <1>4, <1>6, <3>3 DEF c
      <4>2. PICK k \in 1 .. n : s[k] = d
        BY <1>1, <1>6, <4>1, Zenon DEF Member
      <4>3. k = 1 \/ (k + 1 \in 3 .. c /\ k + 1 \in 1 .. c /\ (k + 1) - 1 = k)
        BY <1>4 DEF c
      <4> QED BY <1>6, <2>10, <3>1, <4>2, <4>3
    <3> QED BY <3>2, <3>3
  <2>13. Whole(c, t)'
    <3>1. list' = t[1]
      BY <1>2, <1>3, <1>6, <2>10 DEF Whole
    <3>2. \A k \in 1 .. n - 1 : next[s[k]] = s[k + 1]
      BY <1>2, <1>6 DEF Whole
    <3>3. next[s[n]] = Null
      BY <1>2, <1>6, Zenon DEF Whole
    <3>4. ASSUME NEW k \in 1 .. c - 1 PROVE next'[t[k]] = t[k + 1]
      <4>1. k = 1 => next'[t[k]] = t[k + 1]
        <5>1. next'[t[1]] = t[2]
          BY <2>7, <2>10
        <5> QED BY <5>1
      <4>2. k = 2 => next'[t[k]] = t[k + 1]
        <5>1. 1 \in 1 .. n - 1 /\ 3 \in 3 .. c /\ 1 + 1 = 2 /\ 3 - 1 = 2
          BY <1>4 DEF c
        <5>2. next[1] = s[2] /\ t[3] = s[2]
          BY <1>6, <2>10, <3>2, <5>1
        <5>3. next'[t[2]] = t[3]
          BY <2>7, <2>10, <5>2
        <5> QED BY <5>3
      <4>3. k >= 3 => next'[t[k]] = t[k + 1]
        <5> SUFFICES ASSUME k >= 3 PROVE next'[t[k]] = t[k + 1]
          OBVIOUS
        <5>1. /\ k \in 3 .. c /\ k + 1 \in 3 .. c /\ k - 1 \in 1 .. n - 1 /\ k - 1 \in 1 .. n
              /\ 1 \in 1 .. n /\ k - 1 # 1 /\ (k - 1) + 1 = k /\ (k + 1) - 1 = k
          BY <1>4 DEF c
        <5>2. s[k - 1] \in 1 .. n /\ s[k - 1] # 1
          BY <1>6, <1>7, <5>1
        <5>3. t[k] = s[k - 1] /\ t[k + 1] = s[k] /\ next[s[k - 1]] = s[k]
          BY <2>10, <3>2, <5>1
        <5> QED BY <2>7, <5>2, <5>3
      <4> QED BY <2>3, <4>1, <4>2, <4>3
    <3>5. next'[t[c]] = Null
      <4>1. 2 \in 1 .. n /\ 2 # 1
        BY <1>4
      <4>2. next'[2] = next[2]
        BY <2>7, <4>1
      <4> QED BY <1>6, <2>10, <3>3, <4>2
    <3> QED BY <3>1, <3>4, <3>5 DEF Whole
  <2>14. Heap(c)'
    <3>1. list' \in 1 .. c /\ remover' \in 0 .. c /\ call' \in Nat /\ c >= 2
      BY <1>3, <1>4 DEF c
    <3> QED BY <2>3, <2>7, <2>8, <2>9, <3>1 DEF Heap
  <2>15. Inserting(c, c, t)'
    <3>1. i' \in Nat /\ (c >= i' + 2 \/ c >= ListSize(input.size) - 1)
      BY <1>1, <1>4, <1>6, <1>8 DEF c
    <3>2. data'[1].idx = 0 /\ data'[2].idx = Largest
      BY <1>2, <2>9, Zenon DEF Inserting
    <3> QED BY <1>3, <1>6, <2>10, <3>1, <3>2 DEF Inserting
  <2>16. Phase(c, c, t, 0, 0)'
    <3>1. ~ (call' >= 1)
      BY <1>3, <1>6
    <3> QED BY <1>1, <1>3, <2>13, <2>15, <3>1 DEF Phase
  <2>17. Ring(c, c, t)'
    BY <2>11 DEF Ring
  <2>18. ListInv(c, c, t, 0, 0)'
    BY <1>9, <2>12, <2>14, <2>16, <2>17 DEF ListInv
  <2> QED BY <2>18 DEF ListIInv
<1> QED BY <1>11, <1>12

LEMMA IndexStep ==
  ASSUME NEW n, NEW N, NEW s, NEW a, NEW a0, ListInv(n, N, s, a, a0), IndexAndSort
  PROVE  ListInv(n, N, s, 0, 0)'
<1>1. /\ Kernels /\ Heap(n) /\ Ring(n, N, s) /\ Member(n, N, s)
      /\ at = "insert" /\ i >= ListSize(input.size)
  BY Zenon DEF ListInv, IndexAndSort
<1>2. Whole(N, s) /\ Inserting(n, N, s)
  BY <1>1, Zenon DEF ListInv, Phase
<1>3. UNCHANGED <<input, next, info, mem, mat, res, call, list, retval, remover>>
  BY Zenon DEF IndexAndSort, kernels, locals
<1>4. /\ n \in Nat /\ n >= 2 /\ next \in [1 .. n -> 0 .. n] /\ info \in [1 .. n -> 1 .. n]
      /\ list \in 1 .. n /\ remover \in 0 .. n /\ call \in Nat /\ data \in [1 .. n -> Datum]
  BY <1>1, Zenon DEF Heap
<1>5. \A c \in 1 .. n : info[c] = c
  BY <1>1, Zenon DEF Heap
<1>6. /\ N = n /\ s[1] = 1 /\ s[N] = 2 /\ call = 0
      /\ data[1].idx = 0 /\ data[2].idx = Largest /\ i \in Nat
      /\ n >= i + 2 \/ n >= ListSize(input.size) - 1
  BY <1>2, Zenon DEF Inserting
<1>7. s \in [1 .. n -> 1 .. n] /\ \A j, k \in 1 .. n : s[j] = s[k] => j = k
  BY <1>1, <1>6, Zenon DEF Ring
<1>0. n \in Nat /\ n >= 2
  BY <1>4
<1> DEFINE size == ListSize(input.size)
           seed == input.seed1
           Found(d) == \E k \in 2 .. n - 1 : info[s[k]] = d
           place(d) == CHOOSE k \in 2 .. n - 1 : info[s[k]] = d
           new(d) == IF Found(d) THEN [data[d] EXCEPT !.idx = Index(place(d) - 1, size, seed)]
                     ELSE data[d]
<1>8. size \in Int /\ size >= 4 /\ size \div 5 <= 32768
  BY <1>1, SizeIs
<1>9. Chain(next, 1) = s /\ Len(s) = n /\ list = 1
  <2>1. list = 1
    BY <1>2, <1>6, Zenon DEF Whole
  <2>2. Chain(next, list) = s /\ Len(s) = N
    BY <1>1, <1>2, WholeChain
  <2> QED BY <1>6, <2>1, <2>2
<1>10. data' = [d \in 1 .. n |-> new(d)]
  <2>1. DOMAIN data = 1 .. n
    BY <1>4
  <2> QED BY <1>9, <2>1, Zenon DEF IndexAndSort
<1>11. StartSort(1, "cmp_idx", "init")
  BY Zenon DEF IndexAndSort
<1> HIDE DEF size, seed
<1>12. \A d : Found(d) => place(d) \in 2 .. n - 1 /\ info[s[place(d)]] = d
  BY Zenon
<1> HIDE DEF Found, place
<1>13. \A d \in 1 .. n : Found(d) => place(d) - 1 \in Nat /\ s[place(d)] = d
  <2> TAKE d \in 1 .. n
  <2> SUFFICES ASSUME Found(d) PROVE place(d) - 1 \in Nat /\ s[place(d)] = d
    OBVIOUS
  <2>0. place(d) \in 2 .. n - 1 /\ info[s[place(d)]] = d
    BY <1>12, Zenon
  <2>1. place(d) \in 2 .. n - 1 /\ place(d) \in 1 .. n /\ info[s[place(d)]] = d
    BY <1>0, <2>0
  <2>2. s[place(d)] \in 1 .. n
    BY <1>7, <2>1
  <2> QED BY <1>5, <2>1, <2>2
<1>14. \A d \in 1 .. n : new(d) \in Datum
  <2> TAKE d \in 1 .. n
  <2>1. data[d] \in Datum
    BY <1>4
  <2>2. CASE Found(d)
    <3> DEFINE x == Index(place(d) - 1, size, seed)
    <3>1. x \in Number
      BY <1>8, <1>13, <2>2, IndexType
    <3>2. new(d) = [data[d] EXCEPT !.idx = x]
      BY <2>2
    <3> HIDE DEF x
    <3> QED BY <2>1, <3>1, <3>2 DEF Datum
  <2>3. CASE ~ Found(d)
    BY <2>1, <2>3
  <2> QED BY <2>2, <2>3
<1>15. n >= 3
  BY <1>1, <1>4, <1>6, <1>8 DEF size
<1>16. ~ Found(1) /\ ~ Found(2) /\ Found(s[2]) /\ place(s[2]) = 2
  <2>1. \A k \in 2 .. n - 1 : k \in 1 .. n /\ k # 1 /\ k # n
    BY <1>4
  <2>2. 1 \in 1 .. n /\ n \in 1 .. n /\ 2 \in 2 .. n - 1 /\ 2 \in 1 .. n
    BY <1>4, <1>15
  <2>3. \A k \in 2 .. n - 1 : info[s[k]] = s[k] /\ s[k] # 1 /\ s[k] # 2
    BY <1>5, <1>6, <1>7, <2>1, <2>2
  <2>4. Found(s[2])
    BY <2>2, <2>3 DEF Found
  <2>5. place(s[2]) \in 2 .. n - 1 /\ s[place(s[2])] = s[2]
    BY <1>12, <2>3, <2>4
  <2>6. place(s[2]) = 2
    BY <1>7, <2>1, <2>2, <2>5
  <2> QED BY <2>3, <2>4, <2>6 DEF Found
<1>17. data' \in [1 .. n -> Datum]
  <2> HIDE DEF new
  <2> QED BY <1>10, <1>14
<1>18. Indexed(n)'
  <2>1. 1 \in 1 .. n /\ 2 \in 1 .. n
    BY <1>4
  <2>2. data'[1].idx = 0 /\ data'[2].idx # 0
    <3>1. Largest # 0
      BY SMT DEF Largest
    <3>2. data'[1] = data[1] /\ data'[2] = data[2]
      BY <1>10, <1>16, <2>1
    <3> QED BY <1>6, <3>1, <3>2
  <2>3. s[2] \in 3 .. n /\ s[2] \in 1 .. n
    <3>1. s[2] \in 1 .. n /\ n \in 1 .. n /\ 2 \in 1 .. n /\ n # 2 /\ 2 # 1
      BY <1>0, <1>7, <1>15
    <3>2. s[2] # s[1] /\ s[2] # s[n]
      BY <1>7, <2>1, <3>1
    <3>3. s[1] = 1 /\ s[n] = 2
      BY <1>6
    <3> QED BY <1>0, <3>1, <3>2, <3>3
  <2>4. data'[s[2]].idx # 0
    <3> DEFINE x == Index(1, size, seed)
    <3>1. x # 0
      BY <1>8, FirstIndex
    <3>2. data'[s[2]] = [data[s[2]] EXCEPT !.idx = Index(2 - 1, size, seed)]
      BY <1>10, <1>16, <2>3
    <3>3. 2 - 1 = 1
      OBVIOUS
    <3>4. data[s[2]] \in Datum
      BY <1>4, <2>3
    <3>5. data'[s[2]] = [data[s[2]] EXCEPT !.idx = x]
      BY <3>2, <3>3
    <3> HIDE DEF x
    <3> QED BY <3>1, <3>4, <3>5 DEF Datum
  <2> QED BY <2>2, <2>3, <2>4, Zenon DEF Indexed
<1>19. at' = "split" /\ Sorting(n, N, s)' /\ SplitShape(N, s, 0)' /\ SplitOrder(N, s, 0)'
  <2>1. at \notin {"crc", "undo"} /\ call' = 0 /\ UNCHANGED next
    BY <1>1, <1>3, <1>6
  <2> QED BY <1>1, <1>2, <1>6, <1>9, <1>11, <2>1, StartSortStep
<1>20. Kernels'
  BY <1>1, <1>3, KernelTypes, SameKernels
<1>21. Heap(n)' /\ Ring(n, N, s)' /\ Member(n, N, s)'
  <2>1. Member(n, N, s)'
    <3>1. \A c \in 1 .. n : \E k \in 1 .. N : s[k] = c
      <4>1. call <= 1
        BY <1>6
      <4> QED BY <1>1, <4>1, Zenon DEF Member
    <3> QED BY <3>1, Zenon DEF Member
  <2> QED BY <1>1, <1>3, <1>4, <1>5, <1>17, <2>1 DEF Heap, Ring
<1>22. Phase(n, N, s, 0, 0)'
  <2>1. ~ (call' >= 1)
    BY <1>3, <1>6
  <2> QED BY <1>18, <1>19, <2>1 DEF Phase
<1> QED BY <1>20, <1>21, <1>22 DEF ListInv

-----------------------------------------------------------------------------
(* Where runs end: the multiples of their length.                           *)

Positive(w) == w \in Nat /\ w > 0

LEMMA TimesOrder ==
  ASSUME NEW w \in Nat, NEW j \in Nat, NEW k \in Nat, j <= k
  PROVE  j * w <= k * w
<1> DEFINE d == k - j
<1>1. d \in Nat /\ k = j + d
  OBVIOUS
<1> HIDE DEF d
<1>2. k * w = j * w + d * w /\ d * w \in Nat /\ j * w \in Nat
  BY <1>1
<1> QED BY <1>2

LEMMA TimesNext ==
  ASSUME NEW w, Positive(w), NEW b \in Times(w)
  PROVE  b \in Nat /\ b + w \in Times(w)
<1>1. PICK j \in Nat : b = j * w
  BY DEF Times
<1>2. b + w = (j + 1) * w /\ j + 1 \in Nat /\ b \in Nat /\ b + w \in Nat
  BY <1>1 DEF Positive
<1> QED BY <1>2, Zenon DEF Times

LEMMA TimesGap ==
  ASSUME NEW w, Positive(w), NEW b \in Times(w), NEW k \in Times(w), b < k
  PROVE  b + w <= k
<1> USE DEF Positive
<1>1. PICK j \in Nat : b = j * w
  BY DEF Times
<1>2. PICK i2 \in Nat : k = i2 * w
  BY DEF Times
<1>3. ~ (i2 <= j)
  <2> SUFFICES ASSUME i2 <= j PROVE FALSE
    OBVIOUS
  <2>1. i2 * w <= j * w
    BY TimesOrder
  <2>2. j * w \in Nat /\ i2 * w \in Nat
    OBVIOUS
  <2> QED BY <1>1, <1>2, <2>1, <2>2
<1>4. j + 1 <= i2 /\ j + 1 \in Nat
  BY <1>3
<1>5. (j + 1) * w <= i2 * w
  BY <1>4, TimesOrder
<1>6. (j + 1) * w = j * w + w
  OBVIOUS
<1> QED BY <1>1, <1>2, <1>5, <1>6

LEMMA TimesDouble ==
  ASSUME NEW w, Positive(w), NEW b \in Times(2 * w)
  PROVE  b \in Nat /\ b \in Times(w) /\ b + w \in Times(w) /\ b + 2 * w \in Times(2 * w)
<1>1. PICK j \in Nat : b = j * (2 * w)
  BY DEF Times
<1>2. b = (2 * j) * w /\ 2 * j \in Nat /\ b \in Nat
  BY <1>1 DEF Positive
<1>3. b \in Times(w)
  BY <1>2, Zenon DEF Times
<1>4. b + w \in Times(w)
  BY <1>3, TimesNext
<1>5. Positive(2 * w)
  BY DEF Positive
<1>6. b + 2 * w \in Times(2 * w)
  BY <1>5, TimesNext
<1> QED BY <1>2, <1>3, <1>4, <1>6

(* A position is in one block.                                              *)
LEMMA BlockIs ==
  ASSUME NEW w, Positive(w), NEW k \in Nat, NEW r \in Nat, InBlock(k, r, w),
         NEW b \in Times(w), b < k, k <= b + w
  PROVE  b < r /\ r <= b + w
<1>1. PICK c \in Times(w) : c < k /\ k <= c + w /\ c < r /\ r <= c + w
  BY DEF InBlock
<1>2. b \in Nat /\ c \in Nat /\ w \in Nat
  BY TimesNext DEF Positive
<1>3. ~ (b < c)
  <2> SUFFICES ASSUME b < c PROVE FALSE
    OBVIOUS
  <2>1. b + w <= c
    BY TimesGap
  <2> QED BY <1>1, <1>2, <2>1
<1>4. ~ (c < b)
  <2> SUFFICES ASSUME c < b PROVE FALSE
    OBVIOUS
  <2>1. c + w <= b
    BY <1>1, TimesGap
  <2> QED BY <1>1, <1>2, <2>1
<1> QED BY <1>1, <1>2, <1>3, <1>4

LEMMA RankType ==
  ASSUME NEW N, NEW S, NEW bef \in [1 .. N -> S], NEW c, \E j \in 1 .. N : bef[j] = c
  PROVE  Rank(bef, c) \in 1 .. N /\ bef[Rank(bef, c)] = c
<1>1. DOMAIN bef = 1 .. N
  OBVIOUS
<1> QED BY <1>1, Zenon DEF Rank

-----------------------------------------------------------------------------
(* The steps of a sort.                                                     *)

InSort(n, N, s) ==
  /\ Kernels /\ Heap(n) /\ Ring(n, N, s) /\ Member(n, N, s)
  /\ Indexed(n)
  /\ call >= 1 => Origin(n)
  /\ Sorting(n, N, s)

LEMMA SortFacts ==
  ASSUME NEW n, NEW N, NEW s, NEW a, NEW a0, ListInv(n, N, s, a, a0), at \in {"split", "take"}
  PROVE  /\ InSort(n, N, s)
         /\ at = "split" => SplitShape(N, s, a) /\ SplitOrder(N, s, a)
         /\ at = "take" => TakeShape(N, s, a) /\ TakeOrder(N, s, a, a0)
<1>1. at # "insert" /\ at \in {"split", "take"}
  OBVIOUS
<1> QED BY <1>1, Zenon DEF ListInv, Phase, InSort

LEMMA SplitOn ==
  ASSUME NEW n, NEW N, NEW s, NEW a, InSort(n, N, s)', at' = "split",
         SplitShape(N, s, a)', SplitOrder(N, s, a)'
  PROVE  ListInv(n, N, s, a, 0)'
<1>1. Phase(n, N, s, a, 0)'
  BY DEF Phase, InSort
<1> QED BY <1>1 DEF ListInv, InSort

LEMMA TakeOn ==
  ASSUME NEW n, NEW N, NEW s, NEW a, NEW a0, InSort(n, N, s)', at' = "take",
         TakeShape(N, s, a)', TakeOrder(N, s, a, a0)'
  PROVE  ListInv(n, N, s, a, a0)'
<1>1. Phase(n, N, s, a, a0)'
  BY DEF Phase, InSort
<1> QED BY <1>1 DEF ListInv, InSort

(* A step of the sort that leaves the data and the results alone.           *)
LEMMA SameSort ==
  ASSUME NEW n, NEW N, NEW s, InSort(n, N, s), at' \in {"split", "take"},
         at \in {"split", "take"}, next' \in [1 .. n -> 0 .. n],
         m' \in MergeState, m'.cmp = m.cmp, m'.then = m.then,
         UNCHANGED <<input, info, data, mem, mat, res, call, list, retval, remover, before, origin>>
  PROVE  InSort(n, N, s)'
<1>1. Kernels /\ Heap(n) /\ Ring(n, N, s) /\ Member(n, N, s) /\ Indexed(n) /\ Sorting(n, N, s)
  BY Zenon DEF InSort
<1>2. Kernels' /\ Ring(n, N, s)' /\ Member(n, N, s)' /\ Indexed(n)'
  BY <1>1, KernelTypes, SameKernels, SameMember, SameIndexed DEF Ring
<1>3. Heap(n)'
  BY <1>1 DEF Heap
<1>4. (call >= 1)' => Origin(n)'
  BY SameOrigin DEF InSort
<1>5. Sorting(n, N, s)'
  BY <1>1 DEF Sorting
<1> QED BY <1>2, <1>3, <1>4, <1>5 DEF InSort

(* The two runs that a merge begins with.                                   *)
TwoRuns(w, a, N, psize, h) ==
  /\ Positive(w) /\ a \in Nat /\ N \in Nat /\ a < N /\ a \in Times(2 * w)
  /\ psize = (IF N - a < w THEN N - a ELSE w)
  /\ h = (IF a + 2 * w < N THEN a + 2 * w ELSE N)

RunEnds(w, a, N, psize, h) ==
  /\ psize \in Nat /\ psize > 0 /\ psize <= w /\ a + psize <= N
  /\ (a + psize < N => psize = w) /\ (a + psize = N <=> N - a <= w)
  /\ h \in Nat /\ a < h /\ h <= N /\ h <= a + 2 * w
  /\ \A k \in 1 .. N - 1 : a < k /\ k < h /\ k # a + psize => k \notin Times(w)

LEMMA RunsOf ==
  ASSUME NEW w, NEW a, NEW N, NEW psize, NEW h, TwoRuns(w, a, N, psize, h)
  PROVE  RunEnds(w, a, N, psize, h)
<1> USE DEF Positive, TwoRuns
<1>1. /\ psize \in Nat /\ psize > 0 /\ psize <= w /\ a + psize <= N
      /\ (a + psize < N => psize = w) /\ (a + psize = N <=> N - a <= w)
      /\ h \in Nat /\ a < h /\ h <= N /\ h <= a + 2 * w
  OBVIOUS
<1>2. a \in Times(w) /\ a + w \in Times(w)
  BY TimesDouble
<1>3. ASSUME NEW k \in 1 .. N - 1, a < k, k < h, k # a + psize, k \in Times(w) PROVE FALSE
  <2>1. a + w <= k
    BY <1>2, <1>3, TimesGap
  <2>2. psize = w /\ a + w < k
    BY <1>1, <1>3, <2>1
  <2>3. (a + w) + w <= k
    BY <1>2, <1>3, <2>2, TimesGap
  <2> QED BY <1>1, <1>3, <2>3
<1> QED BY <1>1, <1>3 DEF RunEnds

LEMMA SplitStep ==
  ASSUME NEW n, NEW N, NEW s, NEW a, NEW b0, ListInv(n, N, s, a, b0), Split
  PROVE  ListInv(n, N, s, a, a)'
<1>1. at = "split" /\ at' = "take" /\ m.p # Null
  BY Zenon DEF Split
<1>2. InSort(n, N, s) /\ SplitShape(N, s, a) /\ SplitOrder(N, s, a)
  BY <1>1, SortFacts
<1>3. UNCHANGED <<input, next, info, data, mem, mat, res, call, list, retval, remover, before, origin>>
  BY Zenon DEF Split, heap, kernels, locals
<1>4. /\ Heap(n) /\ Ring(n, N, s) /\ Sorting(n, N, s)
      /\ N \in Nat /\ N >= 2 /\ n \in Nat /\ N <= n /\ s \in [1 .. N -> 1 .. n]
      /\ next \in [1 .. n -> 0 .. n] /\ m \in MergeState
  BY <1>2, Zenon DEF InSort, Heap, Ring, Sorting
<1> DEFINE w == m.insize
           psize == IF N - a < w THEN N - a ELSE w
           h == IF a + 2 * w < N THEN a + 2 * w ELSE N
<1>5. a \in 0 .. N /\ m.p = (IF a = N THEN Null ELSE s[a + 1])
  BY <1>2, Zenon DEF SplitShape
<1>6. a \in Nat /\ a < N /\ Positive(w)
  BY <1>1, <1>4, <1>5 DEF Positive, MergeState
<1>7. a \in Times(2 * w)
  BY <1>2, <1>6 DEF SplitOrder
<1>8. /\ psize \in Nat /\ psize > 0 /\ psize <= w /\ a + psize <= N
      /\ (a + psize < N => psize = w) /\ (a + psize = N <=> N - a <= w)
      /\ h \in Nat /\ a < h /\ h <= N /\ h <= a + 2 * w
      /\ \A k \in 1 .. N - 1 : a < k /\ k < h /\ k # a + psize => k \notin Times(w)
  <2>1. psize = (IF N - a < w THEN N - a ELSE w) /\ h = (IF a + 2 * w < N THEN a + 2 * w ELSE N)
    OBVIOUS
  <2> HIDE DEF w, psize, h
  <2>2. TwoRuns(w, a, N, psize, h)
    BY <1>4, <1>6, <1>7, <2>1, Zenon DEF TwoRuns
  <2>3. RunEnds(w, a, N, psize, h)
    BY <2>2, RunsOf, Zenon
  <2> QED BY <2>3, Zenon DEF RunEnds
<1>9a. psize = (IF N - a < w THEN N - a ELSE w) /\ h = (IF a + 2 * w < N THEN a + 2 * w ELSE N)
  OBVIOUS
<1> HIDE DEF w, psize, h
<1>9. Chain(next, m.p) = From(s, a, N - a)
  <2>1. ListIn(n, next, N, s)
    BY <1>4, HeapList
  <2>2. Links(next, s, a + 1, N) /\ (a # N => next[s[N]] = Null)
    <3>1. /\ \A k \in 1 .. N - 1 : k # a => next[s[k]] = s[k + 1]
          /\ a # N => next[s[N]] = Null
      BY <1>2, Zenon DEF SplitShape
    <3>2. \A k \in a + 1 .. N - 1 : k \in 1 .. N - 1 /\ k # a
      BY <1>4, <1>6
    <3> QED BY <3>1, <3>2, Zenon DEF Links
  <2> HIDE DEF Links
  <2>3. Rest(n, next, N, s, a, m.p)
    BY <1>5, <2>1, <2>2, Zenon DEF Rest
  <2>4. RestIn(next, m.p, s, a, N)
    BY <2>3, RestIs, Zenon
  <2> QED BY <2>4, Zenon DEF RestIn
<1> DEFINE t == Chain(next, m.p)
<1>10. Len(t) = N - a /\ \A k \in 1 .. N - a : t[k] = s[a + k]
  <2>1. Stretch(n, N, s, a, N - a)
    BY <1>4, <1>6 DEF Stretch
  <2> QED BY <1>9, <2>1, FromType
<1>11. m' = [m EXCEPT !.nmerges = m.nmerges + 1, !.qsize = m.insize,
                      !.psize = IF Len(t) < m.insize THEN Len(t) ELSE m.insize,
                      !.q = IF Len(t) > m.insize THEN t[m.insize + 1] ELSE Null]
  BY Zenon DEF Split
<1> HIDE DEF t
<1>12. /\ m'.nmerges = m.nmerges + 1 /\ m'.qsize = w /\ m'.insize = w
       /\ m'.psize = psize /\ m'.cmp = m.cmp /\ m'.then = m.then
       /\ m'.p = m.p /\ m'.tail = m.tail /\ m'.out = m.out
       /\ m'.q = IF N - a > w THEN t[w + 1] ELSE Null
  <2>1. /\ m'.nmerges = m.nmerges + 1 /\ m'.qsize = m.insize /\ m'.insize = m.insize
        /\ m'.psize = (IF Len(t) < m.insize THEN Len(t) ELSE m.insize)
        /\ m'.cmp = m.cmp /\ m'.then = m.then
        /\ m'.p = m.p /\ m'.tail = m.tail /\ m'.out = m.out
        /\ m'.q = IF Len(t) > m.insize THEN t[m.insize + 1] ELSE Null
    BY <1>4, <1>11 DEF MergeState
  <2> QED BY <1>9a, <1>10, <2>1 DEF w
<1>13. m'.q = IF a + psize = N THEN Null ELSE s[a + psize + 1]
  <2>1. CASE a + psize = N
    BY <1>4, <1>6, <1>8, <1>12, <2>1 DEF Positive
  <2>2. CASE a + psize # N
    <3>1. N - a > w /\ psize = w /\ w + 1 \in 1 .. N - a /\ a + (w + 1) = a + psize + 1
      BY <1>4, <1>6, <1>8, <2>2 DEF Positive
    <3>2. t[w + 1] = s[a + (w + 1)]
      BY <1>10, <3>1
    <3> QED BY <1>12, <2>2, <3>1, <3>2
  <2> QED BY <2>1, <2>2
<1>14. m' \in MergeState
  <2>1. m'.q \in Nat
    <3>1. a + psize # N => a + psize + 1 \in 1 .. N
      BY <1>4, <1>6, <1>8
    <3> QED BY <1>4, <1>13, <3>1 DEF Null
  <2>2. m'.psize \in Nat
    BY <1>8, <1>12
  <2>3. /\ m.nmerges + 1 \in Nat /\ m.insize \in Nat
        /\ (IF Len(t) < m.insize THEN Len(t) ELSE m.insize) = m'.psize
        /\ (IF Len(t) > m.insize THEN t[m.insize + 1] ELSE Null) = m'.q
    BY <1>4, <1>11 DEF MergeState
  <2>4. m' = [m EXCEPT !.nmerges = m.nmerges + 1, !.qsize = m.insize,
                       !.psize = m'.psize, !.q = m'.q]
    BY <1>11, <2>3
  <2> QED BY <1>4, <2>1, <2>2, <2>3, <2>4 DEF MergeState
<1>15. InSort(n, N, s)'
  BY <1>1, <1>2, <1>3, <1>4, <1>12, <1>14, SameSort
<1>16. TakeShape(N, s, a)'
  <2>1. \A k \in 1 .. N - 1 : k # a => next'[s[k]] = s[k + 1]
    BY <1>2, <1>3 DEF SplitShape
  <2>2. next'[s[N]] = Null
    BY <1>2, <1>3, <1>6 DEF SplitShape
  <2>3. m.out = (IF a = 0 THEN Null ELSE s[1]) /\ m.tail = (IF a = 0 THEN Null ELSE s[a])
    BY <1>2, Zenon DEF SplitShape
  <2>4. m.p = s[a + 1]
    BY <1>1, <1>5
  <2>5. w \in Nat
    BY <1>6 DEF Positive
  <2> QED BY <1>5, <1>8, <1>12, <1>13, <2>1, <2>2, <2>3, <2>4, <2>5 DEF TakeShape
<1> DEFINE rank(k) == Rank(before, s[k])
           lower(j, k) == Lower(m.cmp, data, before, s[j], s[k])
<1>17. /\ m.nmerges = 0 => a = 0
       /\ \A k \in 1 .. N - 1 :
            (k < a /\ k \notin Times(2 * w)) \/ (k > a /\ k \notin Times(w)) => lower(k, k + 1)
       /\ \A k \in 1 .. N : InBlock(k, rank(k), IF k <= a THEN 2 * w ELSE w)
       /\ m.cmp = "cmp_idx" => \A k \in 1 .. N :
            IF k <= a THEN Regular(s[k]) \/ (k = N /\ N - 1 \in Times(2 * w))
            ELSE Regular(s[k]) \/ w = 1 \/ (k = N /\ N - 1 \in Times(w))
  BY <1>2, Zenon DEF SplitOrder, w
<1>18. \A k \in 1 .. N : rank(k) \in 1 .. N
  BY <1>4, RankType DEF Sorting
<1> HIDE DEF rank, lower, w
<1>19. \A k \in 1 .. N :
         /\ k <= a => InBlock(k, rank(k), 2 * w)
         /\ a < k /\ k <= a + psize => a < rank(k) /\ rank(k) <= a + w
         /\ a + psize < k /\ k <= h => a + w < rank(k) /\ rank(k) <= a + 2 * w
         /\ k > h => InBlock(k, rank(k), w)
         /\ ~ (a < k /\ k <= a)
  <2> SUFFICES ASSUME NEW k \in 1 .. N
               PROVE  /\ k <= a => InBlock(k, rank(k), 2 * w)
                      /\ a < k /\ k <= a + psize => a < rank(k) /\ rank(k) <= a + w
                      /\ a + psize < k /\ k <= h => a + w < rank(k) /\ rank(k) <= a + 2 * w
                      /\ k > h => InBlock(k, rank(k), w)
                      /\ ~ (a < k /\ k <= a)
    OBVIOUS
  <2>1. k <= a => InBlock(k, rank(k), 2 * w)
    BY <1>17
  <2>2. k > a => InBlock(k, rank(k), w)
    BY <1>6, <1>17
  <2>3. k \in Nat /\ rank(k) \in Nat
    BY <1>18
  <2>4. a \in Times(w) /\ a + w \in Times(w)
    BY <1>6, <1>7, TimesDouble
  <2>5. a < k /\ k <= a + psize => a < rank(k) /\ rank(k) <= a + w
    <3> SUFFICES ASSUME a < k, k <= a + psize PROVE a < rank(k) /\ rank(k) <= a + w
      OBVIOUS
    <3>1. k <= a + w
      BY <1>6, <1>8 DEF Positive
    <3> QED BY <1>6, <2>2, <2>3, <2>4, <3>1, BlockIs
  <2>6. a + psize < k /\ k <= h => a + w < rank(k) /\ rank(k) <= a + 2 * w
    <3> SUFFICES ASSUME a + psize < k, k <= h PROVE a + w < rank(k) /\ rank(k) <= a + 2 * w
      OBVIOUS
    <3>1. a + w < k /\ k <= (a + w) + w /\ k > a
      BY <1>4, <1>6, <1>8 DEF Positive
    <3>2. a + w < rank(k) /\ rank(k) <= (a + w) + w
      BY <1>6, <2>2, <2>3, <2>4, <3>1, BlockIs
    <3> QED BY <1>6, <2>3, <3>2 DEF Positive
  <2>7. k > h => InBlock(k, rank(k), w)
    BY <1>6, <1>8, <2>2, <2>3
  <2>8. ~ (a < k /\ k <= a)
    BY <1>6, <2>3
  <2> QED BY <2>1, <2>5, <2>6, <2>7, <2>8
<1>20. \A k \in 1 .. N - 1 :
         \/ k < a /\ k \notin Times(2 * w)
         \/ a < k /\ k < h /\ k # a /\ k # a + psize
         \/ k > h /\ k \notin Times(w)
         => lower(k, k + 1)
  BY <1>6, <1>8, <1>17
<1>21. m.cmp = "cmp_idx" => \A k \in 1 .. N :
         \/ Regular(s[k])
         \/ a < k /\ (a = a \/ k > h) /\ (w = 1 \/ (k = N /\ N - 1 \in Times(w)))
  <2> SUFFICES ASSUME m.cmp = "cmp_idx", NEW k \in 1 .. N
               PROVE  Regular(s[k]) \/ (a < k /\ (w = 1 \/ (k = N /\ N - 1 \in Times(w))))
    BY Zenon
  <2>1. /\ k <= a => Regular(s[k]) \/ k = N
        /\ ~ (k <= a) => Regular(s[k]) \/ w = 1 \/ (k = N /\ N - 1 \in Times(w))
    BY <1>17, Zenon
  <2>2. ~ (k <= a) => a < k
    BY <1>4, <1>6
  <2>3. k <= a => k # N
    BY <1>4, <1>6
  <2> QED BY <2>1, <2>2, <2>3, Zenon
<1>22. TakeOrder(N, s, a, a)'
  <2>1. m.nmerges \in Nat
    BY <1>4 DEF MergeState
  <2>2. /\ a \in Times(2 * w) /\ a <= a /\ a < N
        /\ psize <= w /\ a + psize <= a + 2 * w
        /\ psize > 0 /\ (a + psize < N => psize = w)
        /\ a + psize < N => a + psize + w = a + 2 * w
        /\ m.nmerges + 1 > 0 /\ (m.nmerges + 1 = 1 => a = 0)
        /\ ~ (a > a)
    <3>1. (m.nmerges = 0 => a = 0) /\ w \in Nat
      BY <1>6, <1>17 DEF Positive
    <3>2. psize <= w /\ (a + psize < N => psize = w) /\ psize \in Nat /\ psize > 0
      BY <1>8
    <3>3. a + psize <= a + 2 * w /\ (a + psize < N => a + psize + w = a + 2 * w)
      BY <1>6, <3>1, <3>2
    <3>4. m.nmerges + 1 > 0 /\ (m.nmerges + 1 = 1 => a = 0)
      BY <2>1, <3>1
    <3>5. a <= a /\ ~ (a > a)
      BY <1>6
    <3> QED BY <1>6, <1>7, <3>2, <3>3, <3>4, <3>5
  <2>3. /\ m'.nmerges = m.nmerges + 1 /\ m'.qsize = w /\ m'.insize = w
        /\ m'.psize = psize /\ m'.cmp = m.cmp
    BY <1>12
  <2>4. \A k \in 1 .. N : Regular(s[k]) => Regular(s[k])'
    BY <1>3 DEF Regular
  <2>5. UNCHANGED <<data, before>>
    BY <1>3
  <2>6. \A k \in 1 .. N : (Regular(s[k])' <=> Regular(s[k]))
    BY <1>3 DEF Regular
  <2>7. h = IF a + 2 * w < N THEN a + 2 * w ELSE N
    BY <1>9a
  <2> HIDE DEF Regular
  <2> QED BY <1>19, <1>20, <1>21, <2>2, <2>3, <2>5, <2>6, <2>7, Zenon DEF TakeOrder, rank, lower
<1> QED BY <1>1, <1>15, <1>16, <1>22, TakeOn

(* Where a merge ends: at the end of the second run, or of the list.        *)
MergeEnd(N, a, a0, w, h) ==
  /\ N \in Nat /\ a \in 0 .. N /\ a0 \in Nat /\ Positive(w) /\ a0 <= a /\ a0 < N
  /\ a <= a0 + 2 * w /\ a # a0 /\ (a < N => a = a0 + 2 * w) /\ a0 \in Times(2 * w)
  /\ h = (IF a0 + 2 * w < N THEN a0 + 2 * w ELSE N)

MergeDone(N, a, a0, w, h) ==
  a \in Nat /\ h = a /\ a0 < a /\ (a \in Times(2 * w) \/ a = N)

LEMMA MergeEnds ==
  ASSUME NEW N, NEW a, NEW a0, NEW w, NEW h, MergeEnd(N, a, a0, w, h)
  PROVE  MergeDone(N, a, a0, w, h)
<1> USE DEF Positive, MergeEnd, MergeDone
<1>1. h = a /\ a0 < a /\ a \in Nat
  OBVIOUS
<1>2. a0 + 2 * w \in Times(2 * w)
  BY TimesDouble
<1>3. CASE a = N
  BY <1>1, <1>3
<1>4. CASE a # N
  BY <1>1, <1>2, <1>4
<1> QED BY <1>3, <1>4

LEMMA MergedStep ==
  ASSUME NEW n, NEW N, NEW s, NEW a, NEW a0, ListInv(n, N, s, a, a0), Merged
  PROVE  ListInv(n, N, s, a, 0)'
<1>1. /\ at = "take" /\ at' = "split" /\ ~ Mergeable
      /\ m' = [m EXCEPT !.p = m.q]
  BY Zenon DEF Merged
<1>2. InSort(n, N, s) /\ TakeShape(N, s, a) /\ TakeOrder(N, s, a, a0)
  BY <1>1, SortFacts
<1>3. UNCHANGED <<input, next, info, data, mem, mat, res, call, list, retval, remover, before, origin>>
  BY Zenon DEF Merged, heap, kernels, locals
<1>4. /\ N \in Nat /\ N >= 2 /\ n \in Nat /\ N <= n /\ s \in [1 .. N -> 1 .. n]
      /\ next \in [1 .. n -> 0 .. n] /\ m \in MergeState
  BY <1>2, Zenon DEF InSort, Heap, Ring, Sorting
<1> DEFINE w == m.insize
           h == IF a0 + 2 * w < N THEN a0 + 2 * w ELSE N
           rank(k) == Rank(before, s[k])
           lower(j, k) == Lower(m.cmp, data, before, s[j], s[k])
<1>5. /\ a \in 0 .. N /\ m.psize \in Nat /\ m.qsize \in Nat /\ a + m.psize <= N
      /\ m.out = (IF a = 0 THEN Null ELSE s[1])
      /\ m.tail = (IF a = 0 THEN Null ELSE s[a])
      /\ m.q = (IF a + m.psize = N THEN Null ELSE s[a + m.psize + 1])
      /\ \A k \in 1 .. N - 1 : k # a /\ k # a + m.psize => next[s[k]] = s[k + 1]
      /\ a + m.psize # N => next[s[N]] = Null
  BY <1>2, Zenon DEF TakeShape
<1>6. /\ a0 \in Times(2 * w) /\ a0 <= a /\ a0 < N
      /\ a + m.psize <= a0 + 2 * w
      /\ a = a0 => m.psize > 0
      /\ a + m.psize < N => a + m.psize + m.qsize = a0 + 2 * w
      /\ m.nmerges > 0 /\ (m.nmerges = 1 => a0 = 0)
  BY <1>2, Zenon DEF TakeOrder, w
<1>7. \A k \in 1 .. N - 1 :
        \/ k < a0 /\ k \notin Times(2 * w)
        \/ a0 < k /\ k < h /\ k # a /\ k # a + m.psize
        \/ k > h /\ k \notin Times(w)
        => lower(k, k + 1)
  BY <1>2, Zenon DEF TakeOrder, w, h, lower
<1>8. \A k \in 1 .. N :
        /\ k <= a0 => InBlock(k, rank(k), 2 * w)
        /\ a0 < k /\ k <= a => a0 < rank(k) /\ rank(k) <= a0 + 2 * w
        /\ k > h => InBlock(k, rank(k), w)
  BY <1>2, Zenon DEF TakeOrder, w, h, rank
<1>9. m.cmp = "cmp_idx" => \A k \in 1 .. N :
        \/ Regular(s[k])
        \/ a0 < k /\ k <= h /\ a > a0 /\ k = N /\ N = a0 + 1
        \/ a0 < k /\ (a = a0 \/ k > h) /\ (w = 1 \/ (k = N /\ N - 1 \in Times(w)))
  BY <1>2, Zenon DEF TakeOrder, w, h
<1>10. Positive(w) /\ m.nmerges \in Nat
  BY <1>4 DEF Positive, MergeState
<1>11. m.psize = 0 /\ (a # N => m.qsize = 0)
  <2>1. m.psize = 0
    BY <1>1, <1>5 DEF Mergeable
  <2>2. a # N => m.q # Null
    <3>1. a # N => a + 1 \in 1 .. N
      BY <1>4, <1>5
    <3>2. a + m.psize = a /\ a + m.psize + 1 = a + 1
      BY <1>5, <2>1
    <3>3. a # N => m.q = s[a + 1]
      BY <1>5, <3>2
    <3>4. a # N => s[a + 1] \in 1 .. n
      BY <1>4, <3>1
    <3> QED BY <1>4, <3>3, <3>4 DEF Null
  <2> QED BY <1>1, <1>5, <2>1, <2>2 DEF Mergeable
<1>12. h = IF a0 + 2 * w < N THEN a0 + 2 * w ELSE N
  OBVIOUS
<1> HIDE DEF h, rank, lower
<1>13. a0 \in Nat
  <2>1. Positive(2 * w)
    BY <1>10 DEF Positive
  <2> QED BY <1>6, <2>1, TimesNext, Zenon
<1>14. a \in Nat /\ h = a /\ a0 < a /\ (a \in Times(2 * w) \/ a = N) /\ w \in Nat
  <2> HIDE DEF w
  <2>1. a <= a0 + 2 * w /\ a # a0 /\ (a < N => a = a0 + 2 * w) /\ w \in Nat
    BY <1>5, <1>6, <1>10, <1>11, <1>13 DEF Positive
  <2>2. MergeEnd(N, a, a0, w, h)
    BY <1>4, <1>5, <1>6, <1>10, <1>12, <1>13, <2>1, Zenon DEF MergeEnd
  <2>3. MergeDone(N, a, a0, w, h)
    BY <2>2, MergeEnds, Zenon
  <2> QED BY <2>1, <2>3, Zenon DEF MergeDone
<1>15. /\ m'.nmerges = m.nmerges /\ m'.insize = w /\ m'.cmp = m.cmp /\ m'.then = m.then
       /\ m'.p = m.q /\ m'.tail = m.tail /\ m'.out = m.out
  BY <1>1, <1>4 DEF MergeState
<1>16. m' \in MergeState
  BY <1>1, <1>4 DEF MergeState
<1>17. InSort(n, N, s)'
  BY <1>1, <1>2, <1>3, <1>4, <1>15, <1>16, SameSort
<1>18. SplitShape(N, s, a)'
  <2>1. m.q = (IF a = N THEN Null ELSE s[a + 1])
    BY <1>5, <1>11
  <2>2. \A k \in 1 .. N - 1 : k # a => next'[s[k]] = s[k + 1]
    BY <1>3, <1>5, <1>11
  <2>3. a # N => next'[s[N]] = Null
    BY <1>3, <1>5, <1>11
  <2> HIDE DEF w
  <2> QED BY <1>5, <1>15, <2>1, <2>2, <2>3, Zenon DEF SplitShape
<1> HIDE DEF w
<1>19. m.nmerges = 1 => a <= 2 * w
  BY <1>5, <1>6, <1>10, <1>11, <1>14
<1>20. \A k \in 1 .. N - 1 :
         (k < a /\ k \notin Times(2 * w)) \/ (k > a /\ k \notin Times(w)) => lower(k, k + 1)
  <2> SUFFICES ASSUME NEW k \in 1 .. N - 1,
                      (k < a /\ k \notin Times(2 * w)) \/ (k > a /\ k \notin Times(w))
               PROVE  lower(k, k + 1)
    OBVIOUS
  <2>1. k = a0 => k \in Times(2 * w)
    BY <1>6
  <2>2. k < a /\ k # a0 => k < a0 \/ (a0 < k /\ k # a /\ k # a + m.psize)
    BY <1>5, <1>11, <1>13, <1>14
  <2>3. k > a => k > h /\ ~ (k < a)
    BY <1>14
  <2> QED BY <1>7, <1>14, <2>1, <2>2, <2>3
<1>21. \A k \in 1 .. N : InBlock(k, rank(k), IF k <= a THEN 2 * w ELSE w)
  <2> SUFFICES ASSUME NEW k \in 1 .. N PROVE InBlock(k, rank(k), IF k <= a THEN 2 * w ELSE w)
    OBVIOUS
  <2>1. CASE k > a
    BY <1>8, <1>14, <2>1
  <2>2. CASE k <= a0
    BY <1>8, <1>13, <1>14, <2>2
  <2>3. CASE a0 < k /\ k <= a
    <3>1. k <= a0 + 2 * w
      BY <1>5, <1>6, <1>10, <1>11, <1>13, <1>14, <2>3
    <3> QED BY <1>6, <1>8, <2>3, <3>1 DEF InBlock
  <2> QED BY <1>13, <1>14, <2>1, <2>2, <2>3
<1>22. m.cmp = "cmp_idx" => \A k \in 1 .. N :
         IF k <= a THEN Regular(s[k]) \/ (k = N /\ N - 1 \in Times(2 * w))
         ELSE Regular(s[k]) \/ w = 1 \/ (k = N /\ N - 1 \in Times(w))
  <2> SUFFICES ASSUME m.cmp = "cmp_idx", NEW k \in 1 .. N
               PROVE  IF k <= a THEN Regular(s[k]) \/ (k = N /\ N - 1 \in Times(2 * w))
                      ELSE Regular(s[k]) \/ w = 1 \/ (k = N /\ N - 1 \in Times(w))
    OBVIOUS
  <2>1. N = a0 + 1 => N - 1 \in Times(2 * w)
    BY <1>6, <1>13
  <2>2. ~ (a = a0) /\ (k > h <=> ~ (k <= a))
    BY <1>13, <1>14
  <2> HIDE DEF Regular
  <2> QED BY <1>9, <1>14, <2>1, <2>2
<1>23. SplitOrder(N, s, a)'
  <2>1. ~ (m.nmerges = 0)
    BY <1>6, <1>10
  <2>2. \A k \in 1 .. N : (Regular(s[k])' <=> Regular(s[k]))
    BY <1>3 DEF Regular
  <2>3. UNCHANGED <<data, before>>
    BY <1>3
  <2>4. m'.nmerges = m.nmerges /\ m'.insize = w /\ m'.cmp = m.cmp
    BY <1>15
  <2> HIDE DEF Regular
  <2> QED BY <1>14, <1>19, <1>20, <1>21, <1>22, <2>1, <2>2, <2>3, <2>4, Zenon
      DEF SplitOrder, rank, lower
<1> QED BY <1>1, <1>17, <1>18, <1>23, SplitOn

(* After the last pass there is one run.                                    *)
Finished(N, s) ==
  /\ \A k \in 1 .. N - 1 : Lower(m.cmp, data, before, s[k], s[k + 1])
  /\ m.cmp = "cmp_idx" => \A k \in 1 .. N : Regular(s[k])

LEMMA PassEnds ==
  ASSUME NEW n, NEW N, NEW s, NEW a, InSort(n, N, s), SplitShape(N, s, a), m.p = Null
  PROVE  /\ a = N /\ m.tail = s[N] /\ m.out = s[1]
         /\ \A k \in 1 .. N - 1 : next[s[k]] = s[k + 1]
<1>1. /\ N \in Nat /\ N >= 2 /\ n \in Nat /\ s \in [1 .. N -> 1 .. n]
  BY Zenon DEF InSort, Heap, Ring
<1>2. /\ a \in 0 .. N
      /\ m.out = (IF a = 0 THEN Null ELSE s[1])
      /\ m.tail = (IF a = 0 THEN Null ELSE s[a])
      /\ m.p = (IF a = N THEN Null ELSE s[a + 1])
      /\ \A k \in 1 .. N - 1 : k # a => next[s[k]] = s[k + 1]
  BY Zenon DEF SplitShape
<1>3. a = N
  <2>1. a # N => a + 1 \in 1 .. N
    BY <1>1, <1>2
  <2>2. a # N => s[a + 1] \in 1 .. n
    BY <1>1, <2>1
  <2>3. a # N => m.p # Null
    BY <1>1, <1>2, <2>2 DEF Null
  <2> QED BY <2>3
<1>4. a # 0 /\ \A k \in 1 .. N - 1 : k # a
  BY <1>1, <1>3
<1> QED BY <1>2, <1>3, <1>4

LEMMA OneRun ==
  ASSUME NEW n, NEW N, NEW s, InSort(n, N, s), SplitOrder(N, s, N), m.nmerges <= 1
  PROVE  Finished(N, s)
<1>1. /\ N \in Nat /\ N >= 2 /\ m \in MergeState
  BY Zenon DEF InSort, Ring, Sorting
<1> DEFINE w == m.insize
           lower(j, k) == Lower(m.cmp, data, before, s[j], s[k])
<1>2. /\ m.nmerges = 0 => N = 0
      /\ m.nmerges = 1 => N <= 2 * w
      /\ \A k \in 1 .. N - 1 :
           (k < N /\ k \notin Times(2 * w)) \/ (k > N /\ k \notin Times(w)) => lower(k, k + 1)
      /\ m.cmp = "cmp_idx" => \A k \in 1 .. N :
           IF k <= N THEN Regular(s[k]) \/ (k = N /\ N - 1 \in Times(2 * w))
           ELSE Regular(s[k]) \/ w = 1 \/ (k = N /\ N - 1 \in Times(w))
  BY Zenon DEF SplitOrder
<1>3. m.nmerges \in Nat /\ w \in Nat /\ w > 0
  BY <1>1 DEF MergeState
<1> HIDE DEF w, lower
<1>4. N <= 2 * w
  BY <1>1, <1>2, <1>3
<1>5. ASSUME NEW k \in 1 .. N - 1, k \in Times(2 * w) PROVE FALSE
  <2>1. Positive(2 * w)
    BY <1>3 DEF Positive
  <2>2. 0 \in Times(2 * w) /\ 0 < k
    BY <1>3, TimesZero
  <2>3. 0 + 2 * w <= k
    BY <1>5, <2>1, <2>2, TimesGap
  <2> QED BY <1>1, <1>3, <1>4, <2>3
<1>6. \A k \in 1 .. N - 1 : lower(k, k + 1)
  <2>1. \A k \in 1 .. N - 1 : k < N
    BY <1>1
  <2> QED BY <1>2, <1>5, <2>1
<1>7. m.cmp = "cmp_idx" => \A k \in 1 .. N : Regular(s[k])
  <2>1. N - 1 \in 1 .. N - 1 /\ \A k \in 1 .. N : k <= N
    BY <1>1
  <2> HIDE DEF Regular
  <2> QED BY <1>2, <1>5, <2>1
<1> QED BY <1>6, <1>7 DEF Finished, lower

LEMMA KeyByIdx == \A c, dat : Key("cmp_idx", c, dat) = dat[c].idx
BY DEF Key

(* The header has the lowest index, and was the first.                      *)
LEMMA HeaderFirst ==
  ASSUME NEW n, NEW N, NEW s, InSort(n, N, s), Finished(N, s), m.then = "init"
  PROVE  s[1] = 1
<1>1. Heap(n) /\ Ring(n, N, s) /\ Member(n, N, s) /\ Indexed(n) /\ Sorting(n, N, s)
  BY Zenon DEF InSort
<1>2. /\ N \in Nat /\ N >= 2 /\ n \in Nat /\ n >= 2 /\ s \in [1 .. N -> 1 .. n]
      /\ data \in [1 .. n -> Datum] /\ data[1].idx = 0 /\ call \in Nat
  BY <1>1, Zenon DEF Heap, Ring, Indexed
<1>3. /\ m.cmp # "cmp_complex" /\ call = 0 /\ before[1] = 1 /\ m.cmp \in {"cmp_idx", "cmp_complex"}
      /\ before \in [1 .. N -> 1 .. n]
      /\ \A j, k \in 1 .. N : before[j] = before[k] => j = k
      /\ \A k \in 1 .. N : \E j \in 1 .. N : before[j] = s[k]
  BY <1>1 DEF Sorting, MergeState
<1>4. PICK k \in 1 .. N : s[k] = 1
  <2>1. call <= 1 /\ 1 \in 1 .. n
    BY <1>2, <1>3
  <2> QED BY <1>1, <2>1, Zenon DEF Member
<1>5. CASE k = 1
  BY <1>4, <1>5
<1>6. CASE k # 1
  <2>1. k - 1 \in 1 .. N - 1 /\ (k - 1) + 1 = k /\ k - 1 \in 1 .. N
    BY <1>2, <1>6
  <2>2. Lower("cmp_idx", data, before, s[k - 1], 1)
    <3>1. Lower(m.cmp, data, before, s[k - 1], s[(k - 1) + 1])
      BY <2>1, Zenon DEF Finished
    <3>2. m.cmp = "cmp_idx"
      BY <1>3
    <3> QED BY <1>4, <2>1, <3>1, <3>2
  <2>3. data[s[k - 1]].idx \in Nat
    <3>1. data[s[k - 1]] \in Datum
      BY <1>2, <2>1
    <3>2. data[s[k - 1]].idx \in Number
      BY <3>1 DEF Datum
    <3> QED BY <3>2 DEF Number
  <2>4. Rank(before, 1) = 1
    <3>1. 1 \in 1 .. N
      BY <1>2
    <3>2. (\E j \in 1 .. N : before[j] = 1) /\ before \in [1 .. N -> 1 .. n]
      BY <1>3, <3>1
    <3> DEFINE r == Rank(before, 1)
    <3>3. r \in 1 .. N /\ before[r] = 1
      <4>1. DOMAIN before = 1 .. N
        BY <3>2
      <4> QED BY <3>2, <4>1, Zenon DEF Rank
    <3> HIDE DEF r
    <3>4. before[r] = before[1]
      BY <1>3, <3>3
    <3>5. r = 1
      BY <1>3, <3>1, <3>3, <3>4
    <3> QED BY <3>5 DEF r
  <2>5. Rank(before, s[k - 1]) \in 1 .. N
    BY <1>3, <2>1, RankType
  <2>6. \/ data[s[k - 1]].idx < 0
        \/ data[s[k - 1]].idx = 0 /\ Rank(before, s[k - 1]) < 1
    BY <1>2, <2>2, <2>4, KeyByIdx DEF Lower
  <2> QED BY <2>3, <2>5, <2>6
<1> QED BY <1>5, <1>6

LEMMA EndPassStep ==
  ASSUME NEW n, NEW N, NEW s, NEW a, NEW a0, ListInv(n, N, s, a, a0), EndPass
  PROVE  /\ ListInv(n, N, s, 0, 0)'
         /\ at' # "split" => Finished(N, s)
<1>1. at = "split" /\ m.p = Null /\ next' = Terminated
  BY Zenon DEF EndPass
<1>2. InSort(n, N, s) /\ SplitShape(N, s, a) /\ SplitOrder(N, s, a)
  BY <1>1, SortFacts
<1>3. UNCHANGED <<input, info, data, mem, mat, res, call, retval, i, wanted, remover, before, origin>>
  BY Zenon DEF EndPass, kernels
<1>4. /\ Kernels /\ Heap(n) /\ Ring(n, N, s) /\ Member(n, N, s) /\ Indexed(n) /\ Sorting(n, N, s)
      /\ N \in Nat /\ N >= 2 /\ n \in Nat /\ N <= n /\ s \in [1 .. N -> 1 .. n]
      /\ next \in [1 .. n -> 0 .. n] /\ m \in MergeState
      /\ list \in 1 .. n /\ call \in Nat
  BY <1>2, Zenon DEF InSort, Heap, Ring, Sorting
<1>5. /\ a = N /\ m.tail = s[N] /\ m.out = s[1]
      /\ \A k \in 1 .. N - 1 : next[s[k]] = s[k + 1]
  BY <1>1, <1>2, PassEnds
<1>6. SplitOrder(N, s, N)
  BY <1>2, <1>5
<1>7. /\ next' \in [1 .. n -> 0 .. n]
      /\ next'[s[N]] = Null
      /\ \A k \in 1 .. N - 1 : next'[s[k]] = s[k + 1]
  <2>1. next' = [next EXCEPT ![s[N]] = 0]
    BY <1>1, <1>5 DEF Terminated, Null
  <2>2. s[N] \in 1 .. n /\ 0 \in 0 .. n
    BY <1>4
  <2>3. \A k \in 1 .. N - 1 : s[k] \in 1 .. n /\ s[k] # s[N]
    <3> SUFFICES ASSUME NEW k \in 1 .. N - 1 PROVE s[k] \in 1 .. n /\ s[k] # s[N]
      OBVIOUS
    <3>1. k \in 1 .. N /\ N \in 1 .. N /\ k # N
      BY <1>4
    <3>2. s[k] # s[N]
      BY <1>4, <3>1, Zenon DEF Ring
    <3> QED BY <1>4, <3>1, <3>2
  <2> QED BY <1>4, <1>5, <2>1, <2>2, <2>3 DEF Null
<1>8. Ring(n, N, s)' /\ Member(n, N, s)' /\ Indexed(n)' /\ ((call >= 1)' => Origin(n)')
  <2>1. Ring(n, N, s)' /\ Member(n, N, s)' /\ Indexed(n)'
    BY <1>3, <1>4, SameMember, SameIndexed DEF Ring
  <2>2. (call >= 1)' => Origin(n)'
    BY <1>2, <1>3, SameOrigin DEF InSort
  <2> QED BY <2>1, <2>2
<1>9. CASE m.nmerges <= 1
  <2>1. list' = s[1] /\ at' = m.then
    BY <1>5, <1>9, Zenon DEF EndPass
  <2>2. Finished(N, s)
    BY <1>2, <1>6, <1>9, OneRun
  <2>3. /\ m.then \in {"init", "remove", "return"} /\ (m.then = "init" <=> call = 0)
        /\ (m.then = "remove" <=> m.cmp = "cmp_complex") /\ m.cmp \in {"cmp_idx", "cmp_complex"}
    BY <1>4 DEF Sorting, MergeState
  <2>4. at' \in {"init", "remove", "return"} /\ (at' = "init" <=> call = 0)
    BY <2>1, <2>3
  <2>5. Kernels'
    BY <1>3, <1>4, KernelTypes, SameKernels
  <2>6. Heap(n)'
    <3>1. s[1] \in 1 .. n
      BY <1>4
    <3>2. at \notin {"crc", "undo"}
      BY <1>1
    <3> QED BY <1>3, <1>4, <1>7, <2>1, <3>1, <3>2 DEF Heap
  <2>7. Whole(N, s)'
    BY <1>7, <2>1 DEF Whole
  <2>8. at' # "remove" => Sorted(N, s)'
    <3> SUFFICES ASSUME at' # "remove" PROVE Sorted(N, s)'
      OBVIOUS
    <3>1. m.cmp = "cmp_idx"
      BY <2>1, <2>3
    <3>2. \A k \in 1 .. N : Regular(s[k])'
      BY <1>3, <2>2, <3>1 DEF Finished, Regular
    <3>3. Rising(N, s)'
      <4>1. ASSUME NEW k \in 1 .. N - 1 PROVE data[s[k]].idx <= data[s[k + 1]].idx
        <5>1. Lower("cmp_idx", data, before, s[k], s[k + 1])
          BY <2>2, <3>1 DEF Finished
        <5>2. \/ data[s[k]].idx < data[s[k + 1]].idx
              \/ data[s[k]].idx = data[s[k + 1]].idx
          BY <5>1, KeyByIdx DEF Lower
        <5>3. data[s[k]].idx \in Int /\ data[s[k + 1]].idx \in Int
          <6>1. k \in 1 .. N /\ k + 1 \in 1 .. N
            BY <1>4
          <6>2. s[k] \in 1 .. n /\ s[k + 1] \in 1 .. n
            BY <1>4, <6>1
          <6>3. data[s[k]].idx \in Number /\ data[s[k + 1]].idx \in Number
            BY <1>4, <6>2, DatumIs DEF Heap
          <6> QED BY <6>3 DEF Number
        <5> QED BY <5>2, <5>3
      <4> QED BY <1>3, <4>1 DEF Rising, Ascending
    <3>4. at' = "init" => s[1] = 1
      BY <1>2, <2>1, <2>2, HeaderFirst
    <3>5. at' \in {"init", "return"}
      BY <2>4
    <3> QED BY <3>2, <3>3, <3>4, <3>5 DEF Sorted
  <2>9. call # 0 => call >= 1
    BY <1>4
  <2>10. Phase(n, N, s, 0, 0)'
    BY <1>3, <1>8, <2>4, <2>7, <2>8, <2>9 DEF Phase
  <2> QED BY <1>8, <2>2, <2>5, <2>6, <2>10 DEF ListInv
<1>10. CASE ~ (m.nmerges <= 1)
  <2>1. m' = NextPass /\ UNCHANGED <<list, at>>
    BY <1>10, Zenon DEF EndPass
  <2>2. m' = [m EXCEPT !.p = s[1], !.out = 0, !.tail = 0, !.nmerges = 0, !.insize = 2 * m.insize]
    BY <1>5, <2>1 DEF NextPass, Null
  <2>3. s[1] \in Nat /\ 2 * m.insize \in Nat \ {0}
    <3>1. s[1] \in 1 .. n
      BY <1>4
    <3>2. m.insize \in Nat \ {0}
      BY <1>4 DEF MergeState
    <3>3. 2 * m.insize \in Nat \ {0}
      BY <3>2
    <3> QED BY <3>1, <3>3
  <2>4. m' \in MergeState
    BY <1>4, <2>2, <2>3 DEF MergeState
  <2>5. /\ m'.p = s[1] /\ m'.out = 0 /\ m'.tail = 0 /\ m'.nmerges = 0
        /\ m'.insize = 2 * m.insize /\ m'.cmp = m.cmp /\ m'.then = m.then
    BY <1>4, <2>2 DEF MergeState
  <2>6. InSort(n, N, s)'
    BY <1>1, <1>2, <1>3, <1>7, <2>1, <2>4, <2>5, SameSort
  <2>7. SplitShape(N, s, 0)'
    <3>1. 0 \in 0 .. N /\ 0 # N /\ 0 + 1 = 1
      BY <1>4
    <3>2. \A k \in 1 .. N - 1 : next'[s[k]] = s[k + 1]
      BY <1>7
    <3>3. next'[s[N]] = Null
      BY <1>7
    <3>4. m'.out = Null /\ m'.tail = Null /\ m'.p = s[0 + 1]
      BY <2>5, <3>1 DEF Null
    <3> QED BY <3>1, <3>2, <3>3, <3>4, Zenon DEF SplitShape
  <2>8. SplitOrder(N, s, 0)'
    <3> DEFINE w == m.insize
               lower(j, k) == Lower(m.cmp, data, before, s[j], s[k])
               rank(k) == Rank(before, s[k])
    <3>1. /\ \A k \in 1 .. N - 1 :
               (k < N /\ k \notin Times(2 * w)) \/ (k > N /\ k \notin Times(w)) => lower(k, k + 1)
          /\ \A k \in 1 .. N : InBlock(k, rank(k), IF k <= N THEN 2 * w ELSE w)
          /\ m.cmp = "cmp_idx" => \A k \in 1 .. N :
               IF k <= N THEN Regular(s[k]) \/ (k = N /\ N - 1 \in Times(2 * w))
               ELSE Regular(s[k]) \/ w = 1 \/ (k = N /\ N - 1 \in Times(w))
      BY <1>6, Zenon DEF SplitOrder
    <3>2. w \in Nat /\ w > 0
      BY <1>4 DEF MergeState
    <3> HIDE DEF w, lower, rank
    <3>3. 0 \in Times(2 * (2 * w))
      BY <3>2, TimesZero
    <3>4. \A k \in 1 .. N - 1 :
            (k < 0 /\ k \notin Times(2 * (2 * w))) \/ (k > 0 /\ k \notin Times(2 * w)) => lower(k, k + 1)
      BY <1>4, <3>1
    <3>5. \A k \in 1 .. N : InBlock(k, rank(k), IF k <= 0 THEN 2 * (2 * w) ELSE 2 * w)
      <4>1. \A k \in 1 .. N : k <= N /\ ~ (k <= 0)
        BY <1>4
      <4> QED BY <3>1, <4>1
    <3>6. m.cmp = "cmp_idx" => \A k \in 1 .. N :
            IF k <= 0 THEN Regular(s[k]) \/ (k = N /\ N - 1 \in Times(2 * (2 * w)))
            ELSE Regular(s[k]) \/ 2 * w = 1 \/ (k = N /\ N - 1 \in Times(2 * w))
      <4>1. \A k \in 1 .. N : k <= N /\ ~ (k <= 0)
        BY <1>4
      <4> HIDE DEF Regular
      <4> QED BY <3>1, <4>1
    <3>7. m'.nmerges = 0 /\ m'.insize = 2 * w /\ m'.cmp = m.cmp
      BY <2>5 DEF w
    <3>8. \A k \in 1 .. N : (Regular(s[k])' <=> Regular(s[k]))
      BY <1>3 DEF Regular
    <3>9. UNCHANGED <<data, before>>
      BY <1>3
    <3>10. ~ (m'.nmerges = 1)
      BY <3>7
    <3> HIDE DEF Regular
    <3> QED BY <3>3, <3>4, <3>5, <3>6, <3>7, <3>8, <3>9, <3>10, Zenon DEF SplitOrder, lower, rank
  <2> QED BY <1>1, <2>1, <2>6, <2>7, <2>8, SplitOn
<1> QED BY <1>9, <1>10

-----------------------------------------------------------------------------
(* The comparisons: what a kernel leaves, and what is cached.               *)

Blk == 1 .. input.size

StepState(n, s) ==
  /\ s = [data |-> s.data, mem |-> s.mem, mat |-> s.mat, res |-> s.res]
  /\ s.data \in [1 .. n -> Datum]
  /\ s.mem \in [Blk -> Byte]
  /\ s.mat = Matrix0
  /\ s.res \in Results
  /\ Undoes => s.mem = Text0

RanWell(r) ==
  /\ r.crc \in Half
  /\ r.mem \in [Blk -> Byte]
  /\ r.A = Matrix0.A
  /\ Undoes => r.mem = Text0

LEMMA InputIs ==
  ASSUME input \in Inputs
  PROVE  input.size \in Nat \ {0} /\ input.seed1 \in Int /\ input.seed2 \in Int
BY InputsAssumption

LeavesText(left, n, b, size, seed1, seed2, step) ==
  /\ left.mem = Corrupt(Corrupt(b, size, step, seed1), size, step, seed2)
  /\ left.mem \in [1 .. n -> Byte]
  /\ left.crc \in Half

LEMMA StateLeaves ==
  ASSUME NEW n \in Nat, NEW b \in [1 .. n -> Byte], NEW size, NEW seed1, NEW seed2, NEW step,
         NEW crc \in Half
  PROVE  LeavesText(core_bench_state(size, b, seed1, seed2, step, crc), n, b, size, seed1, seed2, step)
BY StateBench DEF LeavesText

LEMMA StateRuns ==
  ASSUME NEW n, NEW s, StepState(n, s), input \in Inputs, NEW step \in Nat \ {0}, NEW crc \in Half
  PROVE  LET text == core_bench_state(input.size, s.mem, input.seed1, input.seed2, step, crc)
         IN  /\ text.crc \in Half /\ text.mem \in [Blk -> Byte]
             /\ Undoes => text.mem = Text0
<1> DEFINE text == core_bench_state(input.size, s.mem, input.seed1, input.seed2, step, crc)
<1>1. input.size \in Nat /\ input.seed1 \in Int /\ s.mem \in [1 .. input.size -> Byte]
  BY InputIs DEF StepState, Blk
<1>2. /\ text.mem = Corrupt(Corrupt(s.mem, input.size, step, input.seed1), input.size, step, input.seed2)
      /\ text.mem \in [1 .. input.size -> Byte] /\ text.crc \in Half
  <2>1. LeavesText(text, input.size, s.mem, input.size, input.seed1, input.seed2, step)
    BY <1>1, StateLeaves, Zenon
  <2> QED BY <2>1, Zenon DEF LeavesText
<1> HIDE DEF text
<1>3. ASSUME Undoes PROVE text.mem = Text0
  <2>1. s.mem = Text0 /\ input.seed2 = input.seed1
    BY <1>3, Zenon DEF StepState, Undoes
  <2>2. \A k \in 1 .. input.size : s.mem[k] # Comma => Xor8(s.mem[k], input.seed1) # Comma
    BY <1>3, <2>1, Zenon DEF Undoes
  <2>3. Corrupt(Corrupt(s.mem, input.size, step, input.seed1), input.size, step, input.seed1) = s.mem
    <3>1. Toggled(input.size, s.mem, input.size, step, input.seed1)
      BY <1>1, <2>2, Zenon DEF Toggled
    <3>2. Untouched(s.mem, input.size, step, input.seed1)
      BY <3>1, Toggles, Zenon
    <3> QED BY <3>2, Zenon DEF Untouched
  <2> QED BY <1>2, <2>1, <2>3, Zenon
<1> QED BY <1>2, <1>3, Zenon DEF text, Blk

LEMMA MatrixRuns ==
  ASSUME NEW n, NEW s, StepState(n, s), input \in Inputs, NEW dtype \in Int, NEW crc \in Half
  PROVE  LET product == core_bench_matrix(s.mat, dtype, crc)
         IN  product.crc \in Half /\ product.A = Matrix0.A
<1> DEFINE seed == input.seed1 + input.seed2 * 65536
           mt == core_init_matrix(input.size, seed)
<1>1. input.size \in Nat \ {0} /\ seed \in Int
  BY InputIs, SMT
<1>2. s.mat = mt /\ Matrix0 = mt
  BY SMT DEF StepState, Matrix0
<1> HIDE DEF seed
<1>3. Elements(mt.A) /\ mt.A = [c \in DOMAIN mt.A |-> mt.A[c]]
  BY <1>1, InitMatrixType, Zenon
<1> HIDE DEF mt
<1>4. LET left == core_bench_matrix(mt, dtype, crc) IN left.A = mt.A /\ left.crc \in Half
  BY <1>3, MatrixBench, Zenon
<1> QED BY <1>2, <1>4, Zenon

LEMMA KernelIs ==
  ASSUME NEW n, NEW s, StepState(n, s), input \in Inputs, NEW x \in Half
  PROVE  RanWell(Kernel(x, s))
<1> DEFINE dtype == ((x \div 8) % 16) * 17
           step == IF dtype < 34 THEN 34 ELSE dtype
           text == core_bench_state(input.size, s.mem, input.seed1, input.seed2, step, s.res.crc)
           product == core_bench_matrix(s.mat, dtype, s.res.crc)
           ran == Kernel(x, s)
<1>1. dtype \in Int /\ step \in Nat \ {0}
  BY Halves, SMT
<1>2. s.res.crc \in Half
  <2>1. s.res \in Results
    BY Zenon DEF StepState
  <2> QED BY <2>1 DEF Results
<1>3. ran = CASE x % 8 = 0 -> [crc |-> text.crc, mem |-> text.mem, A |-> s.mat.A]
              [] x % 8 = 1 -> [crc |-> product.crc, mem |-> s.mem, A |-> product.A]
              [] OTHER     -> [crc |-> x, mem |-> s.mem, A |-> s.mat.A]
  BY Zenon DEF Kernel
<1> HIDE DEF dtype, step
<1>4. text.crc \in Half /\ text.mem \in [Blk -> Byte] /\ (Undoes => text.mem = Text0)
  BY <1>1, <1>2, StateRuns, Zenon
<1>5. product.crc \in Half /\ product.A = Matrix0.A
  BY <1>1, <1>2, MatrixRuns, Zenon
<1>6. s.mem \in [Blk -> Byte] /\ (Undoes => s.mem = Text0) /\ s.mat.A = Matrix0.A
  BY Zenon DEF StepState
<1> HIDE DEF text, product, ran
<1>7. CASE x % 8 = 0
  <2>1. ran = [crc |-> text.crc, mem |-> text.mem, A |-> s.mat.A]
    BY <1>3, <1>7
  <2>2. ran.crc = text.crc /\ ran.mem = text.mem /\ ran.A = s.mat.A
    BY <2>1
  <2> QED BY <1>4, <1>6, <2>2, Zenon DEF RanWell, ran
<1>8. CASE x % 8 = 1
  <2>1. ran = [crc |-> product.crc, mem |-> s.mem, A |-> product.A]
    BY <1>3, <1>8
  <2>2. ran.crc = product.crc /\ ran.mem = s.mem /\ ran.A = product.A
    BY <2>1
  <2> QED BY <1>5, <1>6, <2>2, Zenon DEF RanWell, ran
<1>9. CASE x % 8 # 0 /\ x % 8 # 1
  <2>1. ran = [crc |-> x, mem |-> s.mem, A |-> s.mat.A]
    BY <1>3, <1>9
  <2>2. ran.crc = x /\ ran.mem = s.mem /\ ran.A = s.mat.A
    BY <2>1
  <2> QED BY <1>6, <2>2, Zenon DEF RanWell, ran
<1> QED BY <1>7, <1>8, <1>9

(* What a comparison keeps of the data, and of those whose result is cached. *)
KeepsData(n, x, y) ==
  \A e \in 1 .. n : y[e].idx = x[e].idx /\ y[e].data16 \div 256 = x[e].data16 \div 256

KeepsKeys(n, x, y) ==
  \A e \in 1 .. n : Settled("cmp_complex", x, e) =>
    Settled("cmp_complex", y, e) /\ Key("cmp_complex", e, y) = Key("cmp_complex", e, x)

LEMMA CachedValue ==
  ASSUME NEW x \in Half, NEW c \in Half, NEW v, v = ((x \div 256) * 256) + 128 + (c % 128)
  PROVE  v \in Half /\ v \div 256 = x \div 256 /\ (v \div 128) % 2 = 1
<1>1. x \in Int /\ 0 <= x /\ x < 65536 /\ c \in Int
  BY Halves, SMT
<1>2. v \in Int /\ 0 <= v /\ v < 65536 /\ v \div 256 = x \div 256 /\ (v \div 128) % 2 = 1
  BY <1>1, SMT
<1> QED BY <1>2, Halves, SMT

LEMMA CalcIs ==
  ASSUME NEW n, NEW s, StepState(n, s), input \in Inputs, NEW d \in 1 .. n,
         NEW t, t = calc_func(d, s)
  PROVE  /\ StepState(n, t) /\ t.res.list = s.res.list
         /\ KeepsData(n, s.data, t.data) /\ KeepsKeys(n, s.data, t.data)
         /\ Settled("cmp_complex", t.data, d)
<1> DEFINE x == s.data[d].data16
           ran == Kernel(x, s)
           v == ((x \div 256) * 256) + 128 + (ran.crc % 128)
<1>1. s.data \in [1 .. n -> Datum] /\ s.res \in Results
  BY Zenon DEF StepState
<1>2. s.data[d] \in Datum /\ x \in Half
  <2>1. s.data[d] \in Datum
    BY <1>1
  <2> QED BY <2>1 DEF Datum
<1>3. CASE (x \div 128) % 2 = 1
  <2>1. t = s
    BY <1>3, Zenon DEF calc_func
  <2> QED BY <1>3, <2>1 DEF KeepsData, KeepsKeys, Settled
<1>4. CASE (x \div 128) % 2 # 1
  <2>1. t = Cached(s, d, x, ran)
    BY <1>4, Zenon DEF calc_func
  <2>2. RanWell(ran)
    BY <1>2, KernelIs
  <2> HIDE DEF ran
  <2>3. v \in Half /\ v \div 256 = x \div 256 /\ (v \div 128) % 2 = 1
    BY <1>2, <2>2, CachedValue DEF RanWell
  <2>4. t = [data |-> [s.data EXCEPT ![d].data16 = v],
             mem |-> ran.mem,
             mat |-> [s.mat EXCEPT !.A = ran.A],
             res |-> [s.res EXCEPT
                        !.crc = crcu16(ran.crc, s.res.crc),
                        !.crcstate = IF x % 8 = 0 THEN FirstResult(s.res.crcstate, ran.crc)
                                     ELSE s.res.crcstate,
                        !.crcmatrix = IF x % 8 = 1 THEN FirstResult(s.res.crcmatrix, ran.crc)
                                      ELSE s.res.crcmatrix]]
    BY <2>1, Zenon DEF Cached
  <2> HIDE DEF v, x
  <2>5. /\ t.data = [s.data EXCEPT ![d].data16 = v] /\ t.mem = ran.mem
        /\ t.mat = [s.mat EXCEPT !.A = ran.A]
        /\ t = [data |-> t.data, mem |-> t.mem, mat |-> t.mat, res |-> t.res]
        /\ t.res = [s.res EXCEPT
                      !.crc = crcu16(ran.crc, s.res.crc),
                      !.crcstate = IF x % 8 = 0 THEN FirstResult(s.res.crcstate, ran.crc)
                                   ELSE s.res.crcstate,
                      !.crcmatrix = IF x % 8 = 1 THEN FirstResult(s.res.crcmatrix, ran.crc)
                                    ELSE s.res.crcmatrix]
    BY <2>4
  <2>6. t.mat = Matrix0
    <3>1. ran.A = Matrix0.A /\ s.mat = Matrix0
      BY <2>2, Zenon DEF RanWell, StepState
    <3>2. Matrix0 = [N |-> Matrix0.N, A |-> Matrix0.A, B |-> Matrix0.B]
      BY DEF Matrix0, core_init_matrix
    <3> QED BY <2>5, <3>1, <3>2
  <2>7. t.res \in Results /\ t.res.list = s.res.list
    <3>1. /\ s.res.crc \in Half /\ s.res.crcstate \in Half /\ s.res.crcmatrix \in Half
          /\ ran.crc \in Half
      BY <1>1, <2>2 DEF Results, RanWell
    <3> DEFINE a == crcu16(ran.crc, s.res.crc)
               b == IF x % 8 = 0 THEN FirstResult(s.res.crcstate, ran.crc) ELSE s.res.crcstate
               c == IF x % 8 = 1 THEN FirstResult(s.res.crcmatrix, ran.crc) ELSE s.res.crcmatrix
    <3>2. a \in Half
      BY <3>1, CrcType, Zenon
    <3>3. b \in Half /\ c \in Half
      BY <3>1, Zenon DEF FirstResult
    <3>4. t.res = [s.res EXCEPT !.crc = a, !.crcstate = b, !.crcmatrix = c]
      BY <2>5
    <3> HIDE DEF a, b, c
    <3> QED BY <1>1, <3>2, <3>3, <3>4 DEF Results
  <2>8. t.data \in [1 .. n -> Datum]
    BY <1>1, <1>2, <2>3, <2>5 DEF Datum
  <2>9. /\ t.data[d].data16 = v /\ t.data[d].idx = s.data[d].idx
        /\ \A e \in 1 .. n : e # d => t.data[e] = s.data[e]
    <3>1. t.data = [s.data EXCEPT ![d].data16 = v] /\ DOMAIN s.data = 1 .. n
      BY <1>1, <2>5
    <3>2. t.data[d] = [s.data[d] EXCEPT !.data16 = v]
      BY <3>1
    <3>3. \A e \in 1 .. n : e # d => t.data[e] = s.data[e]
      BY <3>1
    <3> QED BY <1>2, <3>2, <3>3 DEF Datum
  <2>10. StepState(n, t)
    BY <2>2, <2>5, <2>6, <2>7, <2>8, Zenon DEF StepState, RanWell
  <2>11. KeepsData(n, s.data, t.data)
    BY <2>3, <2>9 DEF KeepsData, x
  <2>12. Settled("cmp_complex", t.data, d)
    BY <2>3, <2>9 DEF Settled
  <2>13. KeepsKeys(n, s.data, t.data)
    <3>1. ~ Settled("cmp_complex", s.data, d)
      BY <1>4 DEF Settled, x
    <3> QED BY <2>9, <3>1 DEF KeepsKeys, Settled, Key
  <2> QED BY <2>7, <2>10, <2>11, <2>12, <2>13
<1> QED BY <1>3, <1>4

Effect(n, cmp, x, y, c, d) ==
  /\ y \in [1 .. n -> Datum]
  /\ \A e \in 1 .. n : y[e].idx = x[e].idx /\ Fresh(y[e].data16) = Fresh(x[e].data16)
  /\ \A e \in 1 .. n : Settled(cmp, x, e) => Settled(cmp, y, e) /\ Key(cmp, e, y) = Key(cmp, e, x)
  /\ Settled(cmp, y, c) /\ Settled(cmp, y, d)
  /\ cmp = "cmp_idx" =>
       /\ y[c].data16 = Fresh(y[c].data16) /\ y[d].data16 = Fresh(y[d].data16)
       /\ \A e \in 1 .. n : x[e].data16 = Fresh(x[e].data16) => y[e].data16 = Fresh(y[e].data16)

LEMMA FreshValue ==
  ASSUME NEW x \in Half
  PROVE  Fresh(x) \in Half /\ Fresh(Fresh(x)) = Fresh(x)
<1>1. x \in Int /\ 0 <= x /\ x < 65536
  BY Halves, SMT
<1>2. Fresh(x) \in Int /\ 0 <= Fresh(x) /\ Fresh(x) < 65536 /\ Fresh(Fresh(x)) = Fresh(x)
  BY <1>1, SMT DEF Fresh
<1> QED BY <1>2, Halves, SMT

Regenerated(n, x, d, y) ==
  /\ y \in [1 .. n -> Datum]
  /\ y[d].idx = x[d].idx /\ y[d].data16 = Fresh(x[d].data16)
  /\ \A e \in 1 .. n : e # d => y[e] = x[e]

LEMMA RegenerateIs ==
  ASSUME NEW n, NEW x \in [1 .. n -> Datum], NEW d \in 1 .. n
  PROVE  Regenerated(n, x, d, Regenerate(d, x))
<1> DEFINE y == Regenerate(d, x)
<1> DEFINE v == Fresh(x[d].data16)
<1>1. y = [x EXCEPT ![d].data16 = v]
  BY DEF Regenerate, Fresh
<1>2. x[d] \in Datum
  OBVIOUS
<1>3. x[d].data16 \in Half
  BY <1>2 DEF Datum
<1>4. v \in Half
  BY <1>3, FreshValue
<1> HIDE DEF v, y
<1>5. y[d] = [x[d] EXCEPT !.data16 = v]
  BY <1>1
<1>6. y[d].idx = x[d].idx /\ y[d].data16 = v /\ y[d] \in Datum
  BY <1>2, <1>4, <1>5 DEF Datum
<1>7. \A e \in 1 .. n : e # d => y[e] = x[e]
  BY <1>1
<1>8. y \in [1 .. n -> Datum]
  <2>1. y = [e \in 1 .. n |-> y[e]]
    BY <1>1
  <2>2. \A e \in 1 .. n : y[e] \in Datum
    BY <1>6, <1>7
  <2> QED BY <2>1, <2>2
<1> QED BY <1>6, <1>7, <1>8, Zenon DEF v, y, Regenerated

LEMMA RegenerateBoth ==
  ASSUME NEW n, NEW x \in [1 .. n -> Datum], NEW c \in 1 .. n, NEW d \in 1 .. n,
         NEW y, y = Regenerate(d, Regenerate(c, x))
  PROVE  Effect(n, "cmp_idx", x, y, c, d)
<1> DEFINE z == Regenerate(c, x)
<1>1. /\ z \in [1 .. n -> Datum]
      /\ z[c].idx = x[c].idx /\ z[c].data16 = Fresh(x[c].data16)
      /\ \A e \in 1 .. n : e # c => z[e] = x[e]
  <2>1. Regenerated(n, x, c, z)
    BY RegenerateIs, Zenon
  <2> QED BY <2>1, Zenon DEF Regenerated
<1> HIDE DEF z
<1>2. y = Regenerate(d, z)
  BY DEF z
<1>3. /\ y \in [1 .. n -> Datum]
      /\ y[d].idx = z[d].idx /\ y[d].data16 = Fresh(z[d].data16)
      /\ \A e \in 1 .. n : e # d => y[e] = z[e]
  <2>1. Regenerated(n, z, d, y)
    BY <1>1, <1>2, RegenerateIs, Zenon
  <2> QED BY <2>1, Zenon DEF Regenerated
<1>4. \A e \in 1 .. n : x[e].data16 \in Half /\ z[e].data16 \in Half
  BY <1>1 DEF Datum
<1>5. \A e \in 1 .. n : /\ y[e].idx = x[e].idx
                        /\ Fresh(y[e].data16) = Fresh(x[e].data16)
                        /\ x[e].data16 = Fresh(x[e].data16) => y[e].data16 = Fresh(y[e].data16)
                        /\ e \in {c, d} => y[e].data16 = Fresh(y[e].data16)
  <2> SUFFICES ASSUME NEW e \in 1 .. n
               PROVE  /\ y[e].idx = x[e].idx
                      /\ Fresh(y[e].data16) = Fresh(x[e].data16)
                      /\ x[e].data16 = Fresh(x[e].data16) => y[e].data16 = Fresh(y[e].data16)
                      /\ e \in {c, d} => y[e].data16 = Fresh(y[e].data16)
    OBVIOUS
  <2>1. z[e].idx = x[e].idx /\ (z[e].data16 = x[e].data16 \/ z[e].data16 = Fresh(x[e].data16))
        /\ (e = c => z[e].data16 = Fresh(x[e].data16))
    BY <1>1
  <2>2. y[e].idx = z[e].idx /\ (y[e].data16 = z[e].data16 \/ y[e].data16 = Fresh(z[e].data16))
        /\ (e = d => y[e].data16 = Fresh(z[e].data16))
    BY <1>3
  <2>3. /\ Fresh(Fresh(x[e].data16)) = Fresh(x[e].data16)
        /\ Fresh(Fresh(z[e].data16)) = Fresh(z[e].data16)
    BY <1>4, FreshValue
  <2> QED BY <2>1, <2>2, <2>3
<1> QED BY <1>3, <1>5, Zenon DEF Effect, Settled, Key

LEMMA CalcBoth ==
  ASSUME NEW n, NEW s, StepState(n, s), input \in Inputs, NEW c \in 1 .. n, NEW d \in 1 .. n,
         NEW t, t = calc_func(d, calc_func(c, s))
  PROVE  /\ StepState(n, t) /\ t.res.list = s.res.list
         /\ Effect(n, "cmp_complex", s.data, t.data, c, d)
<1> DEFINE u == calc_func(c, s)
<1>1. /\ StepState(n, u) /\ u.res.list = s.res.list
      /\ KeepsData(n, s.data, u.data) /\ KeepsKeys(n, s.data, u.data)
      /\ Settled("cmp_complex", u.data, c)
  BY CalcIs, Zenon
<1> HIDE DEF u
<1>2. t = calc_func(d, u)
  BY DEF u
<1>3. /\ StepState(n, t) /\ t.res.list = u.res.list
      /\ KeepsData(n, u.data, t.data) /\ KeepsKeys(n, u.data, t.data)
      /\ Settled("cmp_complex", t.data, d)
  BY <1>1, <1>2, CalcIs, Zenon
<1>4. \A e \in 1 .. n : t.data[e].idx = s.data[e].idx
                        /\ Fresh(t.data[e].data16) = Fresh(s.data[e].data16)
  <2> SUFFICES ASSUME NEW e \in 1 .. n
               PROVE  t.data[e].idx = s.data[e].idx
                      /\ Fresh(t.data[e].data16) = Fresh(s.data[e].data16)
    OBVIOUS
  <2>1. /\ u.data[e].idx = s.data[e].idx /\ u.data[e].data16 \div 256 = s.data[e].data16 \div 256
        /\ t.data[e].idx = u.data[e].idx /\ t.data[e].data16 \div 256 = u.data[e].data16 \div 256
    BY <1>1, <1>3, ZenonT(40) DEF KeepsData
  <2> QED BY <2>1, Zenon DEF Fresh
<1>5. \A e \in 1 .. n : Settled("cmp_complex", s.data, e) =>
         Settled("cmp_complex", t.data, e) /\ Key("cmp_complex", e, t.data) = Key("cmp_complex", e, s.data)
  BY <1>1, <1>3, Zenon DEF KeepsKeys
<1>6. Settled("cmp_complex", t.data, c)
  BY <1>1, <1>3, Zenon DEF KeepsKeys
<1>7. t.data \in [1 .. n -> Datum]
  BY <1>3, Zenon DEF StepState
<1>8. "cmp_complex" # "cmp_idx"
  OBVIOUS
<1> QED BY <1>1, <1>3, <1>4, <1>5, <1>6, <1>7, <1>8, Zenon DEF Effect

Compared(n, t) ==
  /\ t.mem \in [Blk -> Byte] /\ t.mat = Matrix0 /\ t.res \in Results /\ t.res.list = res.list
  /\ call = 0 \/ Undoes => t.mem = Text0

LEMMA CompareIs ==
  ASSUME NEW n, NEW N, NEW s, InSort(n, N, s), NEW c \in 1 .. n, NEW d \in 1 .. n,
         NEW t, t = Compare(c, d)
  PROVE  Compared(n, t) /\ Effect(n, m.cmp, data, t.data, c, d)
<1> DEFINE u == [data |-> data, mem |-> mem, mat |-> mat, res |-> res]
<1>1. u.data = data /\ u.mem = mem /\ u.mat = mat /\ u.res = res
  OBVIOUS
<1>2. Kernels /\ Heap(n) /\ Sorting(n, N, s)
  BY Zenon DEF InSort
<1>3. /\ input \in Inputs /\ mem \in [Blk -> Byte] /\ mat = Matrix0 /\ res \in Results
      /\ call = 0 \/ Undoes => mem = Text0
  BY <1>2, Zenon DEF Kernels, Blk
<1>4. data \in [1 .. n -> Datum]
  BY <1>2, Zenon DEF Heap
<1>5. CASE m.cmp = "cmp_idx"
  <2>1. t = [u EXCEPT !.data = Regenerate(d, Regenerate(c, data))]
    BY <1>5, Zenon DEF Compare
  <2>2. /\ t.data = Regenerate(d, Regenerate(c, data))
        /\ t.mem = mem /\ t.mat = mat /\ t.res = res
    BY <2>1
  <2>3. Effect(n, "cmp_idx", data, t.data, c, d)
    BY <1>4, <2>2, RegenerateBoth
  <2> HIDE DEF u
  <2> QED BY <1>3, <1>5, <2>2, <2>3, Zenon DEF Compared
<1>6. CASE m.cmp # "cmp_idx"
  <2>1. t = calc_func(d, calc_func(c, u))
    BY <1>6, Zenon DEF Compare
  <2>2. m.cmp = "cmp_complex" /\ call # 0
    <3>1. m \in MergeState /\ (m.then = "remove" <=> m.cmp = "cmp_complex") /\ (m.then = "init" <=> call = 0)
      BY <1>2, Zenon DEF Sorting
    <3> QED BY <1>6, <3>1 DEF MergeState
  <2>3. u = [data |-> u.data, mem |-> u.mem, mat |-> u.mat, res |-> u.res]
    BY Zenon
  <2> HIDE DEF u
  <2>4. StepState(n, u)
    BY <1>1, <1>3, <1>4, <2>3, Zenon DEF StepState
  <2>5. StepState(n, t) /\ t.res.list = u.res.list /\ Effect(n, "cmp_complex", u.data, t.data, c, d)
    BY <1>3, <2>1, <2>4, CalcBoth, Zenon
  <2> QED BY <1>1, <2>2, <2>5, Zenon DEF Compared, StepState
<1> QED BY <1>5, <1>6

-----------------------------------------------------------------------------
(* One cell is put out.                                                     *)

Kept(n, cmp, x, y) ==
  /\ y \in [1 .. n -> Datum]
  /\ \A e \in 1 .. n : y[e].idx = x[e].idx /\ Fresh(y[e].data16) = Fresh(x[e].data16)
  /\ \A e \in 1 .. n : Settled(cmp, x, e) => Settled(cmp, y, e) /\ Key(cmp, e, y) = Key(cmp, e, x)
  /\ cmp = "cmp_idx" =>
       \A e \in 1 .. n : x[e].data16 = Fresh(x[e].data16) => y[e].data16 = Fresh(y[e].data16)

LEMMA KeptIs ==
  ASSUME NEW n, NEW cmp, NEW x \in [1 .. n -> Datum], NEW y, NEW c, NEW d
  PROVE  Kept(n, cmp, x, x) /\ (Effect(n, cmp, x, y, c, d) => Kept(n, cmp, x, y))
BY Zenon DEF Kept, Effect

LEMMA KeptLower ==
  ASSUME NEW n, NEW cmp, NEW x, NEW y, Kept(n, cmp, x, y), NEW bef, NEW c \in 1 .. n, NEW d \in 1 .. n,
         Lower(cmp, x, bef, c, d)
  PROVE  Lower(cmp, y, bef, c, d)
BY DEF Kept, Lower

LEMMA KeptCopied ==
  ASSUME NEW n \in Nat, NEW cmp, NEW x, NEW y, Kept(n, cmp, x, y), NEW first, Copied(n, x, first)
  PROVE  Copied(n, y, first)
<1>1. PICK r \in [1 .. n -> 1 .. n] :
        /\ \A j, k \in 1 .. n : r[j] = r[k] => j = k
        /\ Ascending(x, n, r)
        /\ first = Values(x, n, r)
  BY Zenon DEF Copied
<1>2. \A k \in 1 .. n : y[r[k]].idx = x[r[k]].idx /\ Fresh(y[r[k]].data16) = Fresh(x[r[k]].data16)
  BY DEF Kept
<1>3. Values(y, n, r) = Values(x, n, r)
  BY <1>2 DEF Values
<1>4. Ascending(y, n, r)
  <2>1. ASSUME NEW k \in 1 .. n - 1 PROVE y[r[k]].idx <= y[r[k + 1]].idx
    <3>1. k \in 1 .. n /\ k + 1 \in 1 .. n
      OBVIOUS
    <3>2. x[r[k]].idx <= x[r[k + 1]].idx
      BY <1>1, Zenon DEF Ascending
    <3> QED BY <1>2, <3>1, <3>2
  <2> QED BY <2>1, Zenon DEF Ascending
<1> QED BY <1>1, <1>3, <1>4, Zenon DEF Copied

LEMMA KeptSort ==
  ASSUME NEW n, NEW N, NEW s, NEW t, InSort(n, N, s), Ring(n, N, t), SameCells(N, s, t),
         SameCells(N, t, s), Kept(n, m.cmp, data, data'), at \in {"split", "take"},
         mem' \in [Blk -> Byte], mat' = Matrix0, res' \in Results, res'.list = res.list,
         call = 0 \/ Undoes => mem' = Text0,
         next' \in [1 .. n -> 0 .. n], m' \in MergeState, m'.cmp = m.cmp, m'.then = m.then,
         UNCHANGED <<input, info, at, call, list, retval, remover, before, origin>>
  PROVE  InSort(n, N, t)'
<1>1. Kernels /\ Heap(n) /\ Ring(n, N, s) /\ Member(n, N, s) /\ Indexed(n) /\ Sorting(n, N, s)
  BY Zenon DEF InSort
<1>2. Kernels'
  BY <1>1 DEF Kernels, Blk, Text0, Matrix0, Undoes
<1>3. data' \in [1 .. n -> Datum] /\ \A e \in 1 .. n : data'[e].idx = data[e].idx
  BY Zenon DEF Kept
<1>4. Heap(n)'
  BY <1>1, <1>3, Zenon DEF Heap
<1>5. Ring(n, N, t)'
  BY DEF Ring
<1>6. Member(n, N, t)'
  BY <1>1, <1>3, Zenon DEF Member, SameCells
<1>7. Indexed(n)'
  <2>1. n \in Nat /\ n >= 2
    BY <1>1, Zenon DEF Heap
  <2>2. 1 \in 1 .. n /\ 2 \in 1 .. n /\ \A c \in 3 .. n : c \in 1 .. n
    BY <2>1
  <2> QED BY <1>1, <1>3, <2>2, Zenon DEF Indexed
<1>8. (call >= 1)' => Origin(n)'
  <2> SUFFICES ASSUME call >= 1 PROVE Origin(n)'
    OBVIOUS
  <2>1. res.list = 1 /\ origin.mem = Text0 /\ origin.A = mat.A /\ Copied(n, data, origin.list)
    BY Zenon DEF InSort, Origin
  <2>2. mat' = mat /\ Text0' = Text0
    BY <1>1, Zenon DEF Kernels, Text0
  <2>3. Copied(n, data', origin.list)
    <3>1. n \in Nat
      BY <1>1, Zenon DEF Heap
    <3> QED BY <2>1, <3>1, KeptCopied, Zenon
  <2> QED BY <2>1, <2>2, <2>3, Zenon DEF Origin
<1>9. Sorting(n, N, t)'
  <2>1. /\ m.then = "remove" <=> m.cmp = "cmp_complex"
        /\ m.then = "init" <=> call = 0
        /\ before \in [1 .. N -> 1 .. n]
        /\ \A j, k \in 1 .. N : before[j] = before[k] => j = k
        /\ \A k \in 1 .. N : \E j \in 1 .. N : before[j] = s[k]
        /\ m.then = "init" => before[1] = 1
    BY <1>1, Zenon DEF Sorting
  <2>2. \A k \in 1 .. N : \E j \in 1 .. N : before[j] = t[k]
    <3> SUFFICES ASSUME NEW k \in 1 .. N PROVE \E j \in 1 .. N : before[j] = t[k]
      OBVIOUS
    <3>1. PICK j \in 1 .. N : s[j] = t[k]
      BY Zenon DEF SameCells
    <3>2. PICK x \in 1 .. N : before[x] = s[j]
      BY <2>1, Zenon
    <3> QED BY <3>1, <3>2, Zenon
  <2> QED BY <2>1, <2>2, Zenon DEF Sorting
<1> QED BY <1>2, <1>4, <1>5, <1>6, <1>7, <1>8, <1>9 DEF InSort

(* The cell put out is linked behind the last one.                          *)
Emitted(n, s, a, e) ==
  /\ next' \in [1 .. n -> 0 .. n]
  /\ a # 0 => next'[s[a]] = e
  /\ \A c \in 1 .. n : a = 0 \/ c # s[a] => next'[c] = next[c]

Emitting(n, N, s, a, e, rest) ==
  /\ n \in Nat /\ N \in Nat /\ s \in [1 .. N -> 1 .. n] /\ next \in [1 .. n -> 0 .. n]
  /\ a \in 0 .. N /\ m.tail = (IF a = 0 THEN Null ELSE s[a])
  /\ m.out = (IF a = 0 THEN Null ELSE s[1])
  /\ e \in 1 .. n /\ rest \in MergeState /\ rest.out = m.out /\ Emit(e, rest)

EmittedFields(s, a, e, rest) ==
  /\ m'.tail = e /\ m'.out = (IF a = 0 THEN e ELSE s[1]) /\ m' \in MergeState
  /\ m'.cmp = rest.cmp /\ m'.then = rest.then /\ m'.p = rest.p /\ m'.q = rest.q
  /\ m'.psize = rest.psize /\ m'.qsize = rest.qsize
  /\ m'.insize = rest.insize /\ m'.nmerges = rest.nmerges

LEMMA EmitIs ==
  ASSUME NEW n, NEW N, NEW s, NEW a, NEW e, NEW rest, Emitting(n, N, s, a, e, rest)
  PROVE  Emitted(n, s, a, e) /\ EmittedFields(s, a, e, rest)
<1> USE DEF Emitting
<1>1. /\ next' = IF m.tail = Null THEN next ELSE [next EXCEPT ![m.tail] = e]
      /\ m' = [rest EXCEPT !.tail = e, !.out = IF m.tail = Null THEN e ELSE rest.out]
  BY DEF Emit
<1>2. a # 0 => s[a] \in 1 .. n
  OBVIOUS
<1>3. m.tail = Null <=> a = 0
  BY <1>2 DEF Null
<1>4. Emitted(n, s, a, e)
  <2>1. CASE a = 0
    BY <1>1, <1>3, <2>1 DEF Emitted
  <2>2. CASE a # 0
    <3>1. next' = [next EXCEPT ![s[a]] = e] /\ e \in 0 .. n
      BY <1>1, <1>3, <2>2
    <3> QED BY <1>2, <2>2, <3>1 DEF Emitted
  <2> QED BY <2>1, <2>2
<1> DEFINE o == IF m.tail = Null THEN e ELSE rest.out
<1>5. o = IF a = 0 THEN e ELSE s[1]
  BY <1>3
<1>6. m' = [rest EXCEPT !.tail = e, !.out = o]
  BY <1>1
<1> HIDE DEF o
<1>7. /\ m'.tail = e /\ m'.out = o
      /\ m'.cmp = rest.cmp /\ m'.then = rest.then /\ m'.p = rest.p /\ m'.q = rest.q
      /\ m'.psize = rest.psize /\ m'.qsize = rest.qsize
      /\ m'.insize = rest.insize /\ m'.nmerges = rest.nmerges
  BY <1>6 DEF MergeState
<1>8. m' \in MergeState
  <2>1. e \in Nat /\ o \in Nat
    <3>1. a # 0 => s[1] \in 1 .. n
      OBVIOUS
    <3> QED BY <1>5, <3>1
  <2> QED BY <1>6, <2>1 DEF MergeState
<1> QED BY <1>4, <1>5, <1>7, <1>8 DEF EmittedFields

(* What a merge holds of the list, one fact at a time.                      *)
Taking(n, N, s, a) ==
  /\ N \in Nat /\ N >= 2 /\ n \in Nat /\ s \in [1 .. N -> 1 .. n]
  /\ \A j, k \in 1 .. N : s[j] = s[k] => j = k
  /\ next \in [1 .. n -> 0 .. n] /\ m \in MergeState
  /\ a \in 0 .. N /\ m.psize \in Nat /\ m.qsize \in Nat /\ a + m.psize <= N

LEMMA TakingIs ==
  ASSUME NEW n, NEW N, NEW s, NEW a, InSort(n, N, s), TakeShape(N, s, a)
  PROVE  Taking(n, N, s, a)
BY Zenon DEF Taking, InSort, Heap, Ring, Sorting, TakeShape

(* From the first run: the order of the list does not change.               *)
LEMMA FromPShape ==
  ASSUME NEW n, NEW N, NEW s, NEW a, Taking(n, N, s, a), TakeShape(N, s, a), m.psize > 0, FromP
  PROVE  /\ TakeShape(N, s, a + 1)' /\ next' \in [1 .. n -> 0 .. n] /\ m' \in MergeState
         /\ m'.cmp = m.cmp /\ m'.then = m.then /\ m'.insize = m.insize /\ m'.nmerges = m.nmerges
         /\ m'.psize = m.psize - 1 /\ m'.qsize = m.qsize
<1>1. /\ N \in Nat /\ N >= 2 /\ n \in Nat /\ s \in [1 .. N -> 1 .. n]
      /\ next \in [1 .. n -> 0 .. n] /\ m \in MergeState
      /\ a \in 0 .. N /\ m.psize \in Nat /\ m.qsize \in Nat /\ a + m.psize <= N
  BY Zenon DEF Taking
<1>2. \A j, k \in 1 .. N : s[j] = s[k] => j = k
  BY Zenon DEF Taking
<1>3. /\ m.out = (IF a = 0 THEN Null ELSE s[1])
      /\ m.tail = (IF a = 0 THEN Null ELSE s[a])
      /\ m.p = s[a + 1]
      /\ m.q = (IF a + m.psize = N THEN Null ELSE s[a + m.psize + 1])
      /\ \A k \in 1 .. N - 1 : k # a /\ k # a + m.psize => next[s[k]] = s[k + 1]
      /\ a + m.psize # N => next[s[N]] = Null
  BY Zenon DEF TakeShape
<1> DEFINE rest == [m EXCEPT !.p = next[m.p], !.psize = m.psize - 1]
           e == s[a + 1]
<1>4. a + 1 \in 1 .. N /\ a < N /\ m.psize - 1 \in Nat
  <2>1. N \in Nat /\ a \in 0 .. N /\ m.psize \in Nat /\ a + m.psize <= N
    BY <1>1, Zenon
  <2> QED BY <2>1
<1>5. e \in 1 .. n /\ next[e] \in Nat
  <2>1. e \in 1 .. n
    BY <1>1, <1>4, Zenon
  <2>2. next[e] \in 0 .. n
    BY <1>1, <2>1, Zenon
  <2> QED BY <1>1, <2>1, <2>2
<1>6. /\ rest \in MergeState /\ rest.out = m.out /\ rest.cmp = m.cmp /\ rest.then = m.then
      /\ rest.p = next[e] /\ rest.q = m.q /\ rest.psize = m.psize - 1 /\ rest.qsize = m.qsize
      /\ rest.insize = m.insize /\ rest.nmerges = m.nmerges
  BY <1>1, <1>3, <1>4, <1>5 DEF MergeState
<1>7. Emit(e, rest)
  BY <1>3, Zenon DEF FromP
<1> HIDE DEF rest, e
<1>8. /\ Emitted(n, s, a, e)
      /\ m'.tail = e /\ m'.out = (IF a = 0 THEN e ELSE s[1]) /\ m' \in MergeState
      /\ m'.cmp = rest.cmp /\ m'.then = rest.then /\ m'.p = rest.p /\ m'.q = rest.q
      /\ m'.psize = rest.psize /\ m'.qsize = rest.qsize
      /\ m'.insize = rest.insize /\ m'.nmerges = rest.nmerges
  <2>1. Emitting(n, N, s, a, e, rest)
    BY <1>1, <1>3, <1>5, <1>6, <1>7, Zenon DEF Emitting
  <2>2. Emitted(n, s, a, e) /\ EmittedFields(s, a, e, rest)
    BY <2>1, EmitIs, Zenon
  <2> QED BY <2>2, Zenon DEF EmittedFields
<1> DEFINE l == m.psize
<1>8a. a \in Nat /\ l \in Nat /\ N \in Nat /\ N >= 2 /\ l > 0 /\ a + l <= N
  BY <1>1
<1> HIDE DEF l
<1>8b. (a + 1) + (l - 1) = a + l
  BY <1>8a
<1>9. /\ next' \in [1 .. n -> 0 .. n]
      /\ a # 0 => next'[s[a]] = e
      /\ \A c \in 1 .. n : a = 0 \/ c # s[a] => next'[c] = next[c]
  BY <1>8, Zenon DEF Emitted
<1>10. \A k \in 1 .. N : k # a => next'[s[k]] = next[s[k]]
  <2> SUFFICES ASSUME NEW k \in 1 .. N, k # a PROVE next'[s[k]] = next[s[k]]
    OBVIOUS
  <2>1. s[k] \in 1 .. n /\ (a # 0 => a \in 1 .. N)
    <3>1. a \in 0 .. N /\ N \in Nat
      BY <1>1, Zenon
    <3>2. a # 0 => a \in 1 .. N
      BY <3>1
    <3> QED BY <1>1, <3>2, Zenon
  <2>2. a # 0 => s[k] # s[a]
    BY <1>2, <2>1
  <2> QED BY <1>9, <2>1, <2>2
<1>11. m.psize - 1 > 0 => next[e] = s[(a + 1) + 1]
  <2> SUFFICES ASSUME m.psize - 1 > 0 PROVE next[e] = s[(a + 1) + 1]
    OBVIOUS
  <2>1. a + 1 \in 1 .. N - 1 /\ a + 1 # a /\ a + 1 # a + m.psize
    <3>1. l - 1 > 0
      BY DEF l
    <3>2. a + 1 \in 1 .. N - 1 /\ a + 1 # a /\ a + 1 # a + l
      BY <1>8a, <3>1
    <3> QED BY <3>2 DEF l
  <2> QED BY <1>3, <2>1 DEF e
<1>12. \A k \in 1 .. N - 1 : k # a + 1 /\ k # (a + 1) + (m.psize - 1) => next'[s[k]] = s[k + 1]
  <2> SUFFICES ASSUME NEW k \in 1 .. N - 1, k # a + 1, k # (a + 1) + (m.psize - 1)
               PROVE  next'[s[k]] = s[k + 1]
    OBVIOUS
  <2>1. k # a + m.psize /\ k \in 1 .. N
    <3>1. k # (a + 1) + (l - 1)
      BY DEF l
    <3>2. k # a + l /\ k \in 1 .. N
      BY <1>8a, <3>1
    <3> QED BY <3>2 DEF l
  <2>2. CASE k = a
    <3>1. a # 0
      BY <2>2
    <3> QED BY <1>9, <2>2, <3>1 DEF e
  <2>3. CASE k # a
    BY <1>3, <1>10, <2>1, <2>3
  <2> QED BY <2>2, <2>3
<1>13. (a + 1) + (m.psize - 1) # N => next'[s[N]] = Null
  <2>1. N # a /\ N \in 1 .. N /\ (a + 1) + (m.psize - 1) = a + m.psize
    <3>1. N # a /\ N \in 1 .. N
      BY <1>8a
    <3> QED BY <1>8b, <3>1 DEF l
  <2> QED BY <1>3, <1>10, <2>1
<1>14. TakeShape(N, s, a + 1)'
  <2>1. a + 1 \in 0 .. N /\ (a + 1) + (m.psize - 1) <= N /\ a + 1 # 0
        /\ (a + 1) + (m.psize - 1) = a + m.psize
    <3>1. a + 1 \in 0 .. N /\ a + 1 # 0
      BY <1>8a
    <3> QED BY <1>8a, <1>8b, <3>1 DEF l
  <2>2. m'.out = s[1]
    BY <1>8 DEF e
  <2>3. m'.tail = s[a + 1]
    BY <1>8 DEF e
  <2>4. m'.q = (IF (a + 1) + (m.psize - 1) = N THEN Null ELSE s[(a + 1) + (m.psize - 1) + 1])
    BY <1>3, <1>6, <1>8, <2>1
  <2>5. m'.psize > 0 => m'.p = s[(a + 1) + 1]
    BY <1>6, <1>8, <1>11
  <2>6. m'.psize = m.psize - 1 /\ m'.qsize = m.qsize
    BY <1>6, <1>8
  <2> QED BY <1>1, <1>4, <1>12, <1>13, <2>1, <2>2, <2>3, <2>4, <2>5, <2>6, Zenon DEF TakeShape
<1> QED BY <1>6, <1>8, <1>9, <1>14

(* From the second run: its first cell moves to where the first run was.    *)
ToFront(N, a, l) ==
  [k \in 1 .. N |-> IF k = a + 1 THEN a + l + 1
                    ELSE IF a + 1 < k /\ k <= a + l + 1 THEN k - 1 ELSE k]

FromFront(N, a, l) ==
  [k \in 1 .. N |-> IF k = a + l + 1 THEN a + 1
                    ELSE IF a < k /\ k <= a + l THEN k + 1 ELSE k]

LEMMA FrontIs ==
  ASSUME NEW N \in Nat, NEW a \in Nat, NEW l \in Nat, a + l < N
  PROVE  Permutes(N, ToFront(N, a, l), FromFront(N, a, l)) /\ Permutes(N, FromFront(N, a, l), ToFront(N, a, l))
<1> DEFINE p == ToFront(N, a, l)
           q == FromFront(N, a, l)
<1>1. p \in [1 .. N -> 1 .. N] /\ q \in [1 .. N -> 1 .. N]
  BY DEF ToFront, FromFront
<1>2. /\ \A k \in 1 .. N : p[k] = IF k = a + 1 THEN a + l + 1
                                  ELSE IF a + 1 < k /\ k <= a + l + 1 THEN k - 1 ELSE k
      /\ \A k \in 1 .. N : q[k] = IF k = a + l + 1 THEN a + 1
                                  ELSE IF a < k /\ k <= a + l THEN k + 1 ELSE k
  BY DEF ToFront, FromFront
<1> HIDE DEF p, q
<1>3. ASSUME NEW k \in 1 .. N PROVE p[q[k]] = k
  <2>1. q[k] \in 1 .. N
    BY <1>1
  <2>2. CASE k = a + l + 1
    <3>1. q[k] = a + 1
      BY <1>2, <2>2
    <3> QED BY <1>2, <2>1, <2>2, <3>1
  <2>3. CASE a < k /\ k <= a + l
    <3>1. q[k] = k + 1
      BY <1>2, <2>3
    <3> QED BY <1>2, <2>1, <2>3, <3>1
  <2>4. CASE ~ (k = a + l + 1) /\ ~ (a < k /\ k <= a + l)
    <3>1. q[k] = k
      BY <1>2, <2>4
    <3> QED BY <1>2, <2>1, <2>4, <3>1
  <2> QED BY <2>2, <2>3, <2>4
<1>4. ASSUME NEW k \in 1 .. N PROVE q[p[k]] = k
  <2>1. p[k] \in 1 .. N
    BY <1>1
  <2>2. CASE k = a + 1
    <3>1. p[k] = a + l + 1
      BY <1>2, <2>2
    <3> QED BY <1>2, <2>1, <2>2, <3>1
  <2>3. CASE a + 1 < k /\ k <= a + l + 1
    <3>1. p[k] = k - 1
      BY <1>2, <2>3
    <3> QED BY <1>2, <2>1, <2>3, <3>1
  <2>4. CASE ~ (k = a + 1) /\ ~ (a + 1 < k /\ k <= a + l + 1)
    <3>1. p[k] = k
      BY <1>2, <2>4
    <3> QED BY <1>2, <2>1, <2>4, <3>1
  <2> QED BY <2>2, <2>3, <2>4
<1> QED BY <1>1, <1>3, <1>4 DEF Permutes, p, q

LEMMA PermutedBack ==
  ASSUME NEW n, NEW N, NEW s \in [1 .. N -> 1 .. n], NEW p, NEW q, Permutes(N, p, q)
  PROVE  Permuted(N, Permuted(N, s, p), q) = s
BY DEF Permuted, Permutes

LEMMA FrontCells ==
  ASSUME NEW n, NEW N, NEW s, Ring(n, N, s), NEW a \in Nat, NEW l \in Nat, a + l < N,
         NEW t, t = Permuted(N, s, ToFront(N, a, l))
  PROVE  Ring(n, N, t) /\ SameCells(N, s, t) /\ SameCells(N, t, s)
<1> DEFINE p == ToFront(N, a, l)
           q == FromFront(N, a, l)
<1>1. N \in Nat /\ s \in [1 .. N -> 1 .. n]
  BY Zenon DEF Ring
<1>2. Permutes(N, p, q) /\ Permutes(N, q, p)
  BY <1>1, FrontIs
<1> HIDE DEF p, q
<1>3. Ring(n, N, Permuted(N, s, p)) /\ SameCells(N, s, Permuted(N, s, p))
  BY <1>2, Reordered, Zenon
<1>4. Ring(n, N, t) /\ SameCells(N, s, t) /\ t = Permuted(N, s, p)
  BY <1>3, Zenon DEF p
<1>5. SameCells(N, t, Permuted(N, t, q))
  BY <1>2, <1>4, Reordered, Zenon
<1>6. Permuted(N, t, q) = s
  <2>1. Permuted(N, Permuted(N, s, p), q) = s
    BY <1>1, <1>2, PermutedBack
  <2> QED BY <1>4, <2>1
<1> QED BY <1>4, <1>5, <1>6

Fronted(N, s, a, l, t) ==
  /\ t[a + 1] = s[a + l + 1]
  /\ \A k \in 1 .. N : a + 1 < k /\ k <= a + l + 1 => t[k] = s[k - 1]
  /\ \A k \in 1 .. N : k <= a \/ k > a + l + 1 => t[k] = s[k]

LEMMA FrontAt ==
  ASSUME NEW N \in Nat, NEW s, NEW a \in Nat, NEW l \in Nat, a + l < N,
         NEW t, t = Permuted(N, s, ToFront(N, a, l))
  PROVE  Fronted(N, s, a, l, t)
<1> DEFINE p == ToFront(N, a, l)
<1>1. \A k \in 1 .. N : p[k] = IF k = a + 1 THEN a + l + 1
                               ELSE IF a + 1 < k /\ k <= a + l + 1 THEN k - 1 ELSE k
  BY DEF ToFront
<1>2. \A k \in 1 .. N : t[k] = s[p[k]]
  BY DEF Permuted
<1> HIDE DEF p
<1>3. t[a + 1] = s[a + l + 1]
  <2>1. a + 1 \in 1 .. N
    OBVIOUS
  <2> QED BY <1>1, <1>2, <2>1
<1>4. /\ \A k \in 1 .. N : a + 1 < k /\ k <= a + l + 1 => t[k] = s[k - 1]
      /\ \A k \in 1 .. N : k <= a \/ k > a + l + 1 => t[k] = s[k]
  BY <1>1, <1>2
<1> QED BY <1>3, <1>4, Zenon DEF Fronted

LEMMA FromQShape ==
  ASSUME NEW n, NEW N, NEW s, NEW a, Taking(n, N, s, a), TakeShape(N, s, a),
         m.qsize > 0, m.q # Null, FromQ,
         NEW t, t = Permuted(N, s, ToFront(N, a, m.psize))
  PROVE  /\ TakeShape(N, t, a + 1)' /\ next' \in [1 .. n -> 0 .. n] /\ m' \in MergeState
         /\ m'.cmp = m.cmp /\ m'.then = m.then /\ m'.insize = m.insize /\ m'.nmerges = m.nmerges
         /\ m'.psize = m.psize /\ m'.qsize = m.qsize - 1
         /\ a + m.psize < N
<1>1. /\ N \in Nat /\ N >= 2 /\ n \in Nat /\ s \in [1 .. N -> 1 .. n]
      /\ next \in [1 .. n -> 0 .. n] /\ m \in MergeState
      /\ a \in 0 .. N /\ m.psize \in Nat /\ m.qsize \in Nat /\ a + m.psize <= N
  BY Zenon DEF Taking
<1>2. \A j, k \in 1 .. N : s[j] = s[k] => j = k
  BY Zenon DEF Taking
<1>3. /\ m.out = (IF a = 0 THEN Null ELSE s[1])
      /\ m.tail = (IF a = 0 THEN Null ELSE s[a])
      /\ m.psize > 0 => m.p = s[a + 1]
      /\ m.q = (IF a + m.psize = N THEN Null ELSE s[a + m.psize + 1])
      /\ \A k \in 1 .. N - 1 : k # a /\ k # a + m.psize => next[s[k]] = s[k + 1]
      /\ a + m.psize # N => next[s[N]] = Null
  BY Zenon DEF TakeShape
<1> DEFINE l == m.psize
           b == a + l
           e == s[b + 1]
           rest == [m EXCEPT !.q = next[m.q], !.qsize = m.qsize - 1]
<1>4. b # N
  BY <1>3
<1>5. a \in Nat /\ l \in Nat /\ N \in Nat /\ N >= 2 /\ b \in Nat /\ b <= N /\ a <= b /\ b = a + l
  <2>1. a \in 0 .. N /\ l \in Nat /\ N \in Nat /\ N >= 2 /\ b = a + l /\ b <= N
    BY <1>1, Zenon
  <2> QED BY <2>1
<1>6. /\ m.q = e
      /\ l > 0 => m.p = s[a + 1]
      /\ \A k \in 1 .. N - 1 : k # a /\ k # b => next[s[k]] = s[k + 1]
      /\ next[s[N]] = Null
  BY <1>3, <1>4
<1>7. m.qsize - 1 \in Nat
  BY <1>1, SMTT(30)
<1> HIDE DEF l, b
<1>8. b + 1 \in 1 .. N /\ b < N /\ a < N
  BY <1>4, <1>5
<1>9. e \in 1 .. n /\ next[e] \in Nat
  <2>1. e \in 1 .. n
    BY <1>1, <1>8, Zenon
  <2>2. next[e] \in 0 .. n
    BY <1>1, <2>1, Zenon
  <2> QED BY <1>1, <2>1, <2>2
<1>10. /\ rest \in MergeState /\ rest.out = m.out /\ rest.cmp = m.cmp /\ rest.then = m.then
       /\ rest.p = m.p /\ rest.q = next[e] /\ rest.psize = m.psize /\ rest.qsize = m.qsize - 1
       /\ rest.insize = m.insize /\ rest.nmerges = m.nmerges
  BY <1>1, <1>6, <1>7, <1>9 DEF MergeState
<1>11. Emit(e, rest)
  BY <1>6, Zenon DEF FromQ
<1> HIDE DEF rest, e
<1>12. Emitted(n, s, a, e) /\ EmittedFields(s, a, e, rest)
  <2>1. Emitting(n, N, s, a, e, rest)
    BY <1>1, <1>3, <1>9, <1>10, <1>11, Zenon DEF Emitting
  <2> QED BY <2>1, EmitIs, Zenon
<1>13. /\ m'.tail = e /\ m'.out = (IF a = 0 THEN e ELSE s[1]) /\ m' \in MergeState
       /\ m'.cmp = m.cmp /\ m'.then = m.then /\ m'.p = m.p /\ m'.q = next[e]
       /\ m'.psize = m.psize /\ m'.qsize = m.qsize - 1
       /\ m'.insize = m.insize /\ m'.nmerges = m.nmerges
  BY <1>10, <1>12, Zenon DEF EmittedFields
<1>14. /\ next' \in [1 .. n -> 0 .. n]
       /\ a # 0 => next'[s[a]] = e
       /\ \A c \in 1 .. n : a = 0 \/ c # s[a] => next'[c] = next[c]
  BY <1>12, Zenon DEF Emitted
<1>15. \A k \in 1 .. N : k # a => next'[s[k]] = next[s[k]]
  <2> SUFFICES ASSUME NEW k \in 1 .. N, k # a PROVE next'[s[k]] = next[s[k]]
    OBVIOUS
  <2>1. s[k] \in 1 .. n /\ (a # 0 => a \in 1 .. N)
    <3>1. a \in 0 .. N /\ N \in Nat
      BY <1>1, Zenon
    <3>2. a # 0 => a \in 1 .. N
      BY <3>1
    <3> QED BY <1>1, <3>2, Zenon
  <2>2. a # 0 => s[k] # s[a]
    BY <1>2, <2>1
  <2> QED BY <1>14, <2>1, <2>2
<1>16. /\ t[a + 1] = s[b + 1]
       /\ \A k \in 1 .. N : a + 1 < k /\ k <= b + 1 => t[k] = s[k - 1]
       /\ \A k \in 1 .. N : k <= a \/ k > b + 1 => t[k] = s[k]
  <2>1. /\ t[a + 1] = s[a + l + 1]
        /\ \A k \in 1 .. N : a + 1 < k /\ k <= a + l + 1 => t[k] = s[k - 1]
        /\ \A k \in 1 .. N : k <= a \/ k > a + l + 1 => t[k] = s[k]
    <3>1. t = Permuted(N, s, ToFront(N, a, l)) /\ a + l < N
      BY <1>5, <1>8 DEF l
    <3>2. Fronted(N, s, a, l, t)
      BY <1>5, <3>1, FrontAt, Zenon
    <3> QED BY <3>2, Zenon DEF Fronted
  <2> QED BY <1>5, <2>1
<1>17. \A k \in 1 .. N - 1 : k # a + 1 /\ k # (a + 1) + l => next'[t[k]] = t[k + 1]
  <2> SUFFICES ASSUME NEW k \in 1 .. N - 1, k # a + 1, k # (a + 1) + l
               PROVE  next'[t[k]] = t[k + 1]
    OBVIOUS
  <2>1. k # b + 1 /\ k \in 1 .. N /\ k + 1 \in 1 .. N
    BY <1>5
  <2>2. CASE k < a
    <3>1. t[k] = s[k] /\ t[k + 1] = s[k + 1] /\ k # a /\ k # b
      BY <1>5, <1>16, <2>1, <2>2
    <3> QED BY <1>6, <1>15, <2>1, <3>1
  <2>3. CASE k = a
    <3>1. t[k] = s[k] /\ t[k + 1] = s[b + 1] /\ a # 0
      BY <1>16, <2>1, <2>3
    <3> QED BY <1>14, <2>3, <3>1 DEF e
  <2>4. CASE a + 1 < k /\ k < b + 1
    <3>1. t[k] = s[k - 1] /\ t[k + 1] = s[k]
      <4>1. a + 1 < k + 1 /\ k + 1 <= b + 1 /\ k <= b + 1 /\ (k + 1) - 1 = k
        BY <1>5, <2>4
      <4> QED BY <1>16, <2>1, <2>4, <4>1
    <3>2. k - 1 \in 1 .. N - 1 /\ k - 1 \in 1 .. N /\ k - 1 # a /\ k - 1 # b /\ (k - 1) + 1 = k
      BY <1>5, <2>4
    <3>3. next[s[k - 1]] = s[(k - 1) + 1]
      BY <1>6, <3>2
    <3>4. next'[s[k - 1]] = next[s[k - 1]]
      BY <1>15, <3>2
    <3> QED BY <3>1, <3>2, <3>3, <3>4
  <2>5. CASE k > b + 1
    <3>1. t[k] = s[k] /\ t[k + 1] = s[k + 1] /\ k # a /\ k # b
      BY <1>5, <1>16, <2>1, <2>5
    <3> QED BY <1>6, <1>15, <2>1, <3>1
  <2> QED BY <1>5, <2>1, <2>2, <2>3, <2>4, <2>5
<1>18. b + 1 # N => next'[t[N]] = Null
  <2> SUFFICES ASSUME b + 1 # N PROVE next'[t[N]] = Null
    OBVIOUS
  <2>1. N \in 1 .. N /\ N > b + 1 /\ N # a
    BY <1>5, <1>8
  <2>2. t[N] = s[N]
    BY <1>16, <2>1
  <2> QED BY <1>6, <1>15, <2>1, <2>2
<1>19. next[e] = (IF b + 1 = N THEN Null ELSE t[b + 2])
  <2>1. CASE b + 1 = N
    BY <1>6, <2>1 DEF e
  <2>2. CASE b + 1 # N
    <3>1. b + 1 \in 1 .. N - 1 /\ b + 1 # a /\ b + 1 # b /\ (b + 1) + 1 = b + 2
          /\ b + 2 \in 1 .. N /\ b + 2 > b + 1
      BY <1>5, <1>8, <2>2
    <3>2. next[s[b + 1]] = s[(b + 1) + 1]
      BY <1>6, <3>1
    <3>3. t[b + 2] = s[b + 2]
      BY <1>16, <3>1
    <3> QED BY <2>2, <3>1, <3>2, <3>3 DEF e
  <2> QED BY <2>1, <2>2
<1>20. l > 0 => m.p = t[(a + 1) + 1]
  <2> SUFFICES ASSUME l > 0 PROVE m.p = t[(a + 1) + 1]
    OBVIOUS
  <2>1. (a + 1) + 1 \in 1 .. N /\ a + 1 < (a + 1) + 1 /\ (a + 1) + 1 <= b + 1
        /\ ((a + 1) + 1) - 1 = a + 1
    BY <1>5, <1>8
  <2>2. t[(a + 1) + 1] = s[((a + 1) + 1) - 1]
    BY <1>16, <2>1
  <2> QED BY <1>6, <2>1, <2>2
<1>21. a # 0 => t[1] = s[1]
  <2>1. 1 \in 1 .. N /\ (a # 0 => 1 <= a)
    BY <1>5
  <2> QED BY <1>16, <2>1
<1>22. TakeShape(N, t, a + 1)'
  <2>1. a + 1 \in 0 .. N /\ a + 1 # 0 /\ (a + 1) + l = b + 1 /\ b + 1 <= N
        /\ (a + 1) + l + 1 = b + 2
    BY <1>5, <1>8
  <2>2. m'.out = t[1]
    <3>1. a = 0 => a + 1 = 1
      OBVIOUS
    <3> QED BY <1>13, <1>16, <1>21, <3>1 DEF e
  <2>3. m'.tail = t[a + 1]
    BY <1>13, <1>16 DEF e
  <2>4. m'.psize = l /\ m'.psize \in Nat /\ m'.qsize \in Nat
    BY <1>5, <1>7, <1>13 DEF l
  <2>5. m'.q = (IF (a + 1) + l = N THEN Null ELSE t[(a + 1) + l + 1])
    BY <1>13, <1>19, <2>1
  <2>6. l > 0 => m'.p = t[(a + 1) + 1]
    BY <1>13, <1>20
  <2>7. (a + 1) + l # N => next'[t[N]] = Null
    BY <1>18, <2>1
  <2>8. (a + 1) + l <= N
    BY <2>1
  <2> HIDE DEF b, l
  <2> QED BY <1>17, <2>1, <2>2, <2>3, <2>4, <2>5, <2>6, <2>7, <2>8, Zenon DEF TakeShape
<1> QED BY <1>8, <1>13, <1>14, <1>22 DEF b, l

(* Where the two runs of a merge end.                                       *)
MergeTo(N, a0) == IF a0 + 2 * m.insize < N THEN a0 + 2 * m.insize ELSE N

(* What a sort by index has compared is restored; the rest is not reached   *)
(* yet, or has nothing to be compared with.                                 *)
Reached(N, s, a, a0) ==
  a = a0 /\ a + m.psize < MergeTo(N, a0) =>
    \A k : k = a + 1 \/ k = a + m.psize + 1 => Regular(s[k])'

Restoring(N, s, a0) ==
  m.cmp = "cmp_idx" => \A j \in 1 .. N :
    \/ Regular(s[j])'
    \/ a0 < j /\ j <= MergeTo(N, a0) /\ j = N /\ N = a0 + 1
    \/ a0 < j /\ j > MergeTo(N, a0) /\ (m.insize = 1 \/ (j = N /\ N - 1 \in Times(m.insize)))

LEMMA RestoringIs ==
  ASSUME NEW n, NEW N, NEW s, NEW a, NEW a0, Taking(n, N, s, a), TakeOrder(N, s, a, a0),
         Kept(n, m.cmp, data, data'), m.cmp = "cmp_idx" => Reached(N, s, a, a0)
  PROVE  Restoring(N, s, a0)
<1>1. /\ N \in Nat /\ N >= 2 /\ n \in Nat /\ s \in [1 .. N -> 1 .. n] /\ m \in MergeState
      /\ a \in 0 .. N /\ m.psize \in Nat /\ a + m.psize <= N
  BY Zenon DEF Taking
<1> DEFINE w == m.insize
           h == IF a0 + 2 * w < N THEN a0 + 2 * w ELSE N
           l == m.psize
           b == a + l
<1>2. /\ a0 \in Times(2 * w) /\ a0 <= a /\ a0 < N
      /\ l <= w /\ b <= a0 + 2 * w
      /\ a = a0 => l > 0 /\ (b < N => l = w)
  BY Zenon DEF TakeOrder, w, l, b
<1>3. m.cmp = "cmp_idx" => \A k \in 1 .. N :
        \/ Regular(s[k])
        \/ a0 < k /\ k <= h /\ a > a0 /\ k = N /\ N = a0 + 1
        \/ a0 < k /\ (a = a0 \/ k > h) /\ (w = 1 \/ (k = N /\ N - 1 \in Times(w)))
  BY Zenon DEF TakeOrder, w, h
<1>4. MergeTo(N, a0) = h
  BY Zenon DEF MergeTo, h, w
<1>5. \A k : (k = a + 1 \/ k = b + 1) /\ m.cmp = "cmp_idx" /\ a = a0 /\ b < h => Regular(s[k])'
  BY <1>4, Zenon DEF Reached, b, l
<1>6. Positive(w)
  BY <1>1 DEF MergeState, Positive
<1>7. \A k \in 1 .. N : m.cmp = "cmp_idx" /\ Regular(s[k]) => Regular(s[k])'
  <2>1. \A k \in 1 .. N : s[k] \in 1 .. n
    BY <1>1
  <2> QED BY <2>1, Zenon DEF Kept, Regular
<1>8. a0 \in Nat /\ a0 \in Times(w) /\ a0 + w \in Times(w)
  BY <1>2, <1>6, TimesDouble
<1>9. a \in Nat /\ l \in Nat /\ b = a + l /\ b \in Nat /\ b <= N /\ w \in Nat /\ w > 0
  BY <1>1, <1>6 DEF Positive
<1>10. h = IF a0 + 2 * w < N THEN a0 + 2 * w ELSE N
  OBVIOUS
<1> HIDE DEF w, h, l, b, Regular
<1>10a. h \in Nat /\ N \in Nat
  BY <1>1, <1>8, <1>9, <1>10
<1>11. ASSUME m.cmp = "cmp_idx", NEW j \in 1 .. N
       PROVE  \/ Regular(s[j])'
              \/ a0 < j /\ j <= h /\ j = N /\ N = a0 + 1
              \/ a0 < j /\ j > h /\ (w = 1 \/ (j = N /\ N - 1 \in Times(w)))
  <2>1. CASE Regular(s[j])
    BY <1>7, <1>11, <2>1
  <2>2. CASE a0 < j /\ j <= h /\ a > a0 /\ j = N /\ N = a0 + 1
    BY <2>2
  <2>3. CASE a0 < j /\ j > h /\ (w = 1 \/ (j = N /\ N - 1 \in Times(w)))
    BY <2>3
  <2>4. CASE a0 < j /\ j <= h /\ a = a0 /\ (w = 1 \/ (j = N /\ N - 1 \in Times(w)))
    <3>1. CASE b < h
      <4>1. l = w /\ b = a0 + w /\ h <= a0 + 2 * w /\ h <= N
        BY <1>1, <1>2, <1>8, <1>9, <1>10, <2>4, <3>1
      <4>2. CASE w = 1
        <5>1. j = a + 1 \/ j = b + 1
          BY <1>8, <1>9, <1>10a, <2>4, <4>1, <4>2
        <5> QED BY <1>5, <1>11, <2>4, <3>1, <5>1, Zenon
      <4>3. CASE j = N /\ N - 1 \in Times(w)
        <5>1. ~ (a0 + w < N - 1)
          <6> SUFFICES ASSUME a0 + w < N - 1 PROVE FALSE
            OBVIOUS
          <6>1. (a0 + w) + w <= N - 1
            BY <1>6, <1>8, <4>3, TimesGap
          <6> QED BY <1>8, <1>9, <1>10a, <2>4, <4>1, <4>3, <6>1
        <5>2. j = b + 1
          BY <1>8, <1>9, <1>10a, <2>4, <3>1, <4>1, <4>3, <5>1
        <5> QED BY <1>5, <1>11, <2>4, <3>1, <5>2, Zenon
      <4> QED BY <2>4, <4>2, <4>3
    <3>2. CASE ~ (b < h)
      <4>1. h = N /\ b = N /\ N <= a0 + w
        BY <1>1, <1>2, <1>8, <1>9, <1>10, <2>4, <3>2
      <4>2. CASE w = 1
        BY <1>1, <1>8, <1>9, <2>4, <4>1, <4>2
      <4>3. CASE j = N /\ N - 1 \in Times(w)
        <5>1. ~ (a0 < N - 1)
          <6> SUFFICES ASSUME a0 < N - 1 PROVE FALSE
            OBVIOUS
          <6>1. a0 + w <= N - 1
            BY <1>6, <1>8, <4>3, TimesGap
          <6> QED BY <1>1, <1>8, <1>9, <4>1, <6>1
        <5>2. N = a0 + 1
          BY <1>1, <1>2, <1>8, <5>1
        <5> QED BY <2>4, <4>3, <5>2
      <4> QED BY <2>4, <4>2, <4>3
    <3> QED BY <3>1, <3>2
  <2> QED BY <1>3, <1>9, <1>10, <1>8, <1>1, <1>11, <2>1, <2>2, <2>3, <2>4
<1> QED BY <1>4, <1>11, Zenon DEF Restoring, w

Ranked(N, s) == \A k \in 1 .. N : Rank(before, s[k]) \in Nat

LEMMA RankedIs ==
  ASSUME NEW n, NEW N, NEW s, InSort(n, N, s)
  PROVE  Ranked(N, s)
<1>1. N \in Nat /\ before \in [1 .. N -> 1 .. n] /\ \A k \in 1 .. N : \E j \in 1 .. N : before[j] = s[k]
  BY Zenon DEF InSort, Ring, Sorting
<1>2. \A k \in 1 .. N : Rank(before, s[k]) \in 1 .. N
  BY <1>1, RankType
<1>3. 1 .. N \subseteq Nat
  BY <1>1
<1> QED BY <1>2, <1>3, Zenon DEF Ranked

(* What is put out is lower than what stays at the head of the other run.   *)
Lowest(N, s, a, a0) ==
  a + m.psize < MergeTo(N, a0) => Lower(m.cmp, data', before, s[a + 1], s[a + m.psize + 1])

LEMMA FromPOrder ==
  ASSUME NEW n, NEW N, NEW s, NEW a, NEW a0, Taking(n, N, s, a), TakeOrder(N, s, a, a0),
         m.psize > 0, Kept(n, m.cmp, data, data'), Lowest(N, s, a, a0), Restoring(N, s, a0), Ranked(N, s),
         m'.cmp = m.cmp, m'.insize = m.insize, m'.nmerges = m.nmerges,
         m'.psize = m.psize - 1, m'.qsize = m.qsize, before' = before
  PROVE  TakeOrder(N, s, a + 1, a0)'
<1>1. /\ N \in Nat /\ N >= 2 /\ n \in Nat /\ s \in [1 .. N -> 1 .. n] /\ m \in MergeState
      /\ a \in 0 .. N /\ m.psize \in Nat /\ m.qsize \in Nat /\ a + m.psize <= N
  BY Zenon DEF Taking
<1> DEFINE w == m.insize
           h == IF a0 + 2 * w < N THEN a0 + 2 * w ELSE N
           l == m.psize
           u == m.qsize
           b == a + l
           v == m'.psize
           rank(k) == Rank(before, s[k])
           lower(j, k) == Lower(m.cmp, data, before, s[j], s[k])
           new(j, k) == Lower(m.cmp, data', before, s[j], s[k])
<1>2. /\ a0 \in Times(2 * w) /\ a0 <= a /\ a0 < N
      /\ l <= w /\ b <= a0 + 2 * w
      /\ b < N => b + u = a0 + 2 * w
      /\ m.nmerges > 0 /\ (m.nmerges = 1 => a0 = 0)
  BY Zenon DEF TakeOrder, w, l, b, u
<1>3. /\ \A k \in 1 .. N - 1 :
           \/ k < a0 /\ k \notin Times(2 * w)
           \/ a0 < k /\ k < h /\ k # a /\ k # b
           \/ k > h /\ k \notin Times(w)
           => lower(k, k + 1)
      /\ a > a0 /\ l > 0 => lower(a, a + 1)
  BY Zenon DEF TakeOrder, w, h, l, b, lower
<1>4. \A k \in 1 .. N :
        /\ k <= a0 => InBlock(k, rank(k), 2 * w)
        /\ a0 < k /\ k <= a => a0 < rank(k) /\ rank(k) <= a0 + 2 * w
        /\ a < k /\ k <= b => a0 < rank(k) /\ rank(k) <= a0 + w
        /\ b < k /\ k <= h => a0 + w < rank(k) /\ rank(k) <= a0 + 2 * w
        /\ k > h => InBlock(k, rank(k), w)
  BY Zenon DEF TakeOrder, w, h, l, b, rank
<1>5. m.cmp = "cmp_idx" => \A j \in 1 .. N :
        \/ Regular(s[j])'
        \/ a0 < j /\ j <= h /\ j = N /\ N = a0 + 1
        \/ a0 < j /\ j > h /\ (w = 1 \/ (j = N /\ N - 1 \in Times(w)))
  BY Zenon DEF Restoring, MergeTo, h, w
<1>6. b < h => new(a + 1, b + 1)
  BY Zenon DEF Lowest, MergeTo, h, w, b, l, new
<1>7. Positive(w)
  BY <1>1 DEF MergeState, Positive
<1>8. a0 \in Nat
  BY <1>2, <1>7, TimesDouble
<1>9. /\ a \in Nat /\ l \in Nat /\ l > 0 /\ b = a + l /\ b \in Nat /\ b <= N
      /\ w \in Nat /\ w > 0 /\ u \in Nat /\ N \in Nat /\ N >= 2 /\ v = l - 1
  BY <1>1, <1>7, SMTT(30) DEF Positive
<1>10. h = IF a0 + 2 * w < N THEN a0 + 2 * w ELSE N
  OBVIOUS
<1>11. \A j, k \in 1 .. N : lower(j, k) => new(j, k)
  <2> SUFFICES ASSUME NEW j \in 1 .. N, NEW k \in 1 .. N, lower(j, k) PROVE new(j, k)
    OBVIOUS
  <2>1. s[j] \in 1 .. n /\ s[k] \in 1 .. n
    BY <1>1
  <2>2. Lower(m.cmp, data, before, s[j], s[k])
    BY Zenon DEF lower
  <2>3. Lower(m.cmp, data', before, s[j], s[k])
    BY <2>1, <2>2, KeptLower, Zenon
  <2> QED BY <2>3, Zenon DEF new
<1>12. \A k \in 1 .. N : rank(k)' = rank(k)
  OBVIOUS
<1> HIDE DEF w, h, l, b, u, v, rank, lower, new, Regular
<1>13. h \in Nat /\ h <= N /\ h <= a0 + 2 * w /\ a0 < h /\ b <= h /\ (a + 1) + v = b
  BY <1>2, <1>8, <1>9, <1>10
<1>14. ASSUME NEW k \in 1 .. N - 1,
              \/ k < a0 /\ k \notin Times(2 * w)
              \/ a0 < k /\ k < h /\ k # a + 1 /\ k # (a + 1) + v
              \/ k > h /\ k \notin Times(w)
       PROVE  new(k, k + 1)
  <2>1. k \in 1 .. N /\ k + 1 \in 1 .. N
    BY <1>9
  <2>2. lower(k, k + 1)
    <3>1. CASE k = a
      BY <1>2, <1>3, <1>8, <1>9, <1>13, <1>14, <3>1
    <3>2. CASE k # a
      BY <1>3, <1>13, <1>14, <3>2
    <3> QED BY <3>1, <3>2
  <2> QED BY <1>11, <2>1, <2>2
<1>15. v > 0 => new(a + 1, (a + 1) + 1)
  <2> SUFFICES ASSUME v > 0 PROVE new(a + 1, (a + 1) + 1)
    OBVIOUS
  <2>1. a + 1 \in 1 .. N - 1 /\ a + 1 \in 1 .. N /\ (a + 1) + 1 \in 1 .. N
        /\ a0 < a + 1 /\ a + 1 < h /\ a + 1 # a /\ a + 1 # b
    BY <1>2, <1>8, <1>9, <1>13
  <2>2. lower(a + 1, (a + 1) + 1)
    BY <1>3, <2>1
  <2> QED BY <1>11, <2>1, <2>2
<1>16. (a + 1) + v < h => new(a + 1, (a + 1) + v + 1)
  BY <1>6, <1>13
<1>17. ASSUME NEW k \in 1 .. N
       PROVE  /\ k <= a0 => InBlock(k, rank(k), 2 * w)
              /\ a0 < k /\ k <= a + 1 => a0 < rank(k) /\ rank(k) <= a0 + 2 * w
              /\ a + 1 < k /\ k <= (a + 1) + v => a0 < rank(k) /\ rank(k) <= a0 + w
              /\ (a + 1) + v < k /\ k <= h => a0 + w < rank(k) /\ rank(k) <= a0 + 2 * w
              /\ k > h => InBlock(k, rank(k), w)
  <2>1. a0 < k /\ k <= a + 1 => a0 < rank(k) /\ rank(k) <= a0 + 2 * w
    <3>1. CASE k = a + 1
      <4>1. a < k /\ k <= b
        BY <1>9, <3>1
      <4>2. a0 < rank(k) /\ rank(k) <= a0 + w
        BY <1>4, <4>1
      <4>3. rank(k) \in Nat
        BY Zenon DEF Ranked, rank
      <4> QED BY <1>8, <1>9, <4>2, <4>3
    <3>2. CASE k # a + 1
      BY <1>4, <1>9, <3>2
    <3> QED BY <3>1, <3>2
  <2>2. a + 1 < k => a < k
    BY <1>9
  <2> QED BY <1>4, <1>13, <2>1, <2>2
<1>18. m.cmp = "cmp_idx" => \A j \in 1 .. N :
        \/ Regular(s[j])'
        \/ a0 < j /\ j <= h /\ a + 1 > a0 /\ j = N /\ N = a0 + 1
        \/ a0 < j /\ (a + 1 = a0 \/ j > h) /\ (w = 1 \/ (j = N /\ N - 1 \in Times(w)))
  <2>1. a + 1 > a0
    BY <1>2, <1>8, <1>9
  <2> QED BY <1>5, <2>1, Zenon
<1>19. TakeOrder(N, s, a + 1, a0)'
  <2>1. a0 <= a + 1 /\ v <= w /\ (a + 1) + v <= a0 + 2 * w /\ ~ (a + 1 = a0)
    BY <1>2, <1>8, <1>9, <1>13
  <2>2. (a + 1) + v < N => (a + 1) + v + u = a0 + 2 * w
    BY <1>2, <1>13
  <2>3. m'.cmp = m.cmp /\ m'.insize = w /\ m'.nmerges = m.nmerges /\ m'.psize = v /\ m'.qsize = u
    BY DEF w, v, u
  <2> QED BY <1>2, <1>14, <1>15, <1>16, <1>17, <1>18, <2>1, <2>2, <2>3, Zenon
      DEF TakeOrder, h, rank, new
<1> QED BY <1>19

Higher(N, s, a, a0) ==
  m.psize > 0 => Lower(m.cmp, data', before, s[a + m.psize + 1], s[a + 1])

LEMMA FromQOrder ==
  ASSUME NEW n, NEW N, NEW s, NEW a, NEW a0, Taking(n, N, s, a), TakeOrder(N, s, a, a0),
         a + m.psize < N, m.qsize > 0,
         Kept(n, m.cmp, data, data'), Higher(N, s, a, a0), Restoring(N, s, a0), Ranked(N, s),
         m'.cmp = m.cmp, m'.insize = m.insize, m'.nmerges = m.nmerges,
         m'.psize = m.psize, m'.qsize = m.qsize - 1, before' = before,
         NEW t, t = Permuted(N, s, ToFront(N, a, m.psize))
  PROVE  TakeOrder(N, t, a + 1, a0)'
<1>1. /\ N \in Nat /\ N >= 2 /\ n \in Nat /\ s \in [1 .. N -> 1 .. n] /\ m \in MergeState
      /\ a \in 0 .. N /\ m.psize \in Nat /\ m.qsize \in Nat /\ a + m.psize <= N
  BY Zenon DEF Taking
<1> DEFINE w == m.insize
           h == IF a0 + 2 * w < N THEN a0 + 2 * w ELSE N
           l == m.psize
           u == m.qsize
           b == a + l
           v == m'.qsize
           rank(k) == Rank(before, s[k])
           moved(k) == Rank(before, t[k])
           lower(j, k) == Lower(m.cmp, data, before, s[j], s[k])
           new(j, k) == Lower(m.cmp, data', before, s[j], s[k])
           low(j, k) == Lower(m.cmp, data', before, t[j], t[k])
<1>2. /\ a0 \in Times(2 * w) /\ a0 <= a /\ a0 < N
      /\ l <= w /\ b <= a0 + 2 * w
      /\ a = a0 => l > 0
      /\ b < N => b + u = a0 + 2 * w
      /\ m.nmerges > 0 /\ (m.nmerges = 1 => a0 = 0)
  BY Zenon DEF TakeOrder, w, l, b, u
<1>3. /\ \A k \in 1 .. N - 1 :
           \/ k < a0 /\ k \notin Times(2 * w)
           \/ a0 < k /\ k < h /\ k # a /\ k # b
           \/ k > h /\ k \notin Times(w)
           => lower(k, k + 1)
      /\ a > a0 /\ b < h => lower(a, b + 1)
  BY Zenon DEF TakeOrder, w, h, l, b, lower
<1>4. \A k \in 1 .. N :
        /\ k <= a0 => InBlock(k, rank(k), 2 * w)
        /\ a0 < k /\ k <= a => a0 < rank(k) /\ rank(k) <= a0 + 2 * w
        /\ a < k /\ k <= b => a0 < rank(k) /\ rank(k) <= a0 + w
        /\ b < k /\ k <= h => a0 + w < rank(k) /\ rank(k) <= a0 + 2 * w
        /\ k > h => InBlock(k, rank(k), w)
  BY Zenon DEF TakeOrder, w, h, l, b, rank
<1>5. m.cmp = "cmp_idx" => \A j \in 1 .. N :
        \/ Regular(s[j])'
        \/ a0 < j /\ j <= h /\ j = N /\ N = a0 + 1
        \/ a0 < j /\ j > h /\ (w = 1 \/ (j = N /\ N - 1 \in Times(w)))
  BY Zenon DEF Restoring, MergeTo, h, w
<1>6. l > 0 => new(b + 1, a + 1)
  BY Zenon DEF Higher, b, l, new
<1>7. Positive(w)
  BY <1>1 DEF MergeState, Positive
<1>8. a0 \in Nat
  BY <1>2, <1>7, TimesDouble
<1>9. /\ a \in Nat /\ l \in Nat /\ b = a + l /\ b \in Nat /\ b < N
      /\ w \in Nat /\ w > 0 /\ u \in Nat /\ u > 0 /\ N \in Nat /\ N >= 2 /\ v = u - 1
  BY <1>1, <1>7 DEF Positive
<1>10. h = IF a0 + 2 * w < N THEN a0 + 2 * w ELSE N
  OBVIOUS
<1>11. \A j, k \in 1 .. N : lower(j, k) => new(j, k)
  <2> SUFFICES ASSUME NEW j \in 1 .. N, NEW k \in 1 .. N, lower(j, k) PROVE new(j, k)
    OBVIOUS
  <2>1. s[j] \in 1 .. n /\ s[k] \in 1 .. n
    BY <1>1
  <2>2. Lower(m.cmp, data, before, s[j], s[k])
    BY Zenon DEF lower
  <2>3. Lower(m.cmp, data', before, s[j], s[k])
    BY <2>1, <2>2, KeptLower, Zenon
  <2> QED BY <2>3, Zenon DEF new
<1>12. \A k \in 1 .. N : rank(k) \in Nat
  BY Zenon DEF Ranked, rank
<1>13. t = Permuted(N, s, ToFront(N, a, l))
  BY Zenon DEF l
<1>14. \A j, k, x, y : t[j] = s[x] /\ t[k] = s[y] /\ new(x, y) => low(j, k)
  BY Zenon DEF new, low
<1>15. \A k, x : t[k] = s[x] => moved(k) = rank(x)
  BY Zenon DEF rank, moved
<1>15a. \A k, x : t[k] = s[x] /\ Regular(s[x])' => Regular(t[k])'
  BY Zenon DEF Regular
<1> HIDE DEF w, h, l, b, u, v, rank, moved, lower, new, low, Regular
<1>16. h \in Nat /\ h <= N /\ h <= a0 + 2 * w /\ a0 < h /\ b + 1 <= h /\ (a + 1) + l = b + 1 /\ a0 < b
  BY <1>2, <1>8, <1>9, <1>10
<1>17. /\ t[a + 1] = s[b + 1]
       /\ \A k \in 1 .. N : a + 1 < k /\ k <= b + 1 => t[k] = s[k - 1]
       /\ \A k \in 1 .. N : k <= a \/ k > b + 1 => t[k] = s[k]
  <2>1. /\ t[a + 1] = s[a + l + 1]
        /\ \A k \in 1 .. N : a + 1 < k /\ k <= a + l + 1 => t[k] = s[k - 1]
        /\ \A k \in 1 .. N : k <= a \/ k > a + l + 1 => t[k] = s[k]
    <3>1. a + l < N
      BY <1>9
    <3>2. Fronted(N, s, a, l, t)
      BY <1>9, <1>13, <3>1, FrontAt, Zenon
    <3> QED BY <3>2, Zenon DEF Fronted
  <2> QED BY <1>9, <2>1
<1>18. ASSUME NEW k \in 1 .. N - 1,
              \/ k < a0 /\ k \notin Times(2 * w)
              \/ a0 < k /\ k < h /\ k # a + 1 /\ k # (a + 1) + l
              \/ k > h /\ k \notin Times(w)
       PROVE  low(k, k + 1)
  <2>1. k \in 1 .. N /\ k + 1 \in 1 .. N /\ k # b + 1
    <3>1. k # b + 1
      BY <1>8, <1>9, <1>16, <1>18
    <3> QED BY <1>9, <3>1
  <2>2. CASE k = a
    <3>1. a > a0 /\ b < h /\ a \in 1 .. N /\ b + 1 \in 1 .. N
      BY <1>2, <1>8, <1>9, <1>16, <1>18, <2>1, <2>2
    <3>2. new(a, b + 1)
      BY <1>3, <1>11, <3>1
    <3>3. t[k] = s[a] /\ t[k + 1] = s[b + 1]
      BY <1>17, <2>1, <2>2
    <3> QED BY <1>14, <3>2, <3>3, Zenon
  <2>3. CASE k < a \/ k > b + 1
    <3>1. k # a /\ k # b /\ (k + 1 <= a \/ k + 1 > b + 1) /\ (k <= a \/ k > b + 1)
      BY <1>9, <2>3
    <3>2. t[k] = s[k] /\ t[k + 1] = s[k + 1]
      BY <1>17, <2>1, <3>1
    <3>3. lower(k, k + 1)
      BY <1>3, <1>18, <3>1
    <3>4. new(k, k + 1)
      BY <1>11, <2>1, <3>3
    <3> QED BY <1>14, <3>2, <3>4, Zenon
  <2>4. CASE a + 1 < k /\ k < b + 1
    <3>1. /\ k - 1 \in 1 .. N - 1 /\ k - 1 \in 1 .. N /\ (k - 1) + 1 = k /\ (k + 1) - 1 = k
          /\ a0 < k - 1 /\ k - 1 < h /\ k - 1 # a /\ k - 1 # b
          /\ a + 1 < k + 1 /\ k + 1 <= b + 1 /\ k <= b + 1
      BY <1>2, <1>8, <1>9, <1>16, <2>4
    <3>2. t[k] = s[k - 1] /\ t[k + 1] = s[k]
      BY <1>17, <2>1, <2>4, <3>1
    <3>3. lower(k - 1, (k - 1) + 1)
      BY <1>3, <3>1
    <3>4. new(k - 1, k)
      BY <1>11, <2>1, <3>1, <3>3
    <3> QED BY <1>14, <3>2, <3>4, Zenon
  <2>5. k # a + 1
    BY <1>2, <1>8, <1>9, <1>16, <1>18
  <2> QED BY <1>9, <2>1, <2>2, <2>3, <2>4, <2>5
<1>19. l > 0 => low(a + 1, (a + 1) + 1)
  <2> SUFFICES ASSUME l > 0 PROVE low(a + 1, (a + 1) + 1)
    OBVIOUS
  <2>1. (a + 1) + 1 \in 1 .. N /\ a + 1 < (a + 1) + 1 /\ (a + 1) + 1 <= b + 1
        /\ ((a + 1) + 1) - 1 = a + 1
    BY <1>9
  <2>2. t[(a + 1) + 1] = s[a + 1]
    BY <1>17, <2>1
  <2> QED BY <1>6, <1>14, <1>17, <2>2, Zenon
<1>20. (a + 1) + l < h => low(a + 1, (a + 1) + l + 1)
  <2> SUFFICES ASSUME b + 1 < h PROVE low(a + 1, b + 2)
    BY <1>9, <1>16
  <2>1. b + 1 \in 1 .. N - 1 /\ b + 1 \in 1 .. N /\ b + 2 \in 1 .. N /\ (b + 1) + 1 = b + 2
        /\ a0 < b + 1 /\ b + 1 # a /\ b + 1 # b /\ b + 2 > b + 1
    BY <1>8, <1>9, <1>16
  <2>2. lower(b + 1, b + 2)
    BY <1>3, <2>1
  <2>3. new(b + 1, b + 2)
    BY <1>11, <2>1, <2>2
  <2>4. t[a + 1] = s[b + 1] /\ t[b + 2] = s[b + 2]
    BY <1>17, <2>1
  <2> QED BY <1>14, <2>3, <2>4, Zenon
<1>21. ASSUME NEW k \in 1 .. N
       PROVE  \E x \in 1 .. N : /\ t[k] = s[x]
                                /\ k <= a \/ k > b + 1 => x = k
                                /\ k = a + 1 => x = b + 1
                                /\ a + 1 < k /\ k <= b + 1 => x = k - 1
  <2>1. CASE k <= a \/ k > b + 1
    BY <1>9, <1>17, <2>1
  <2>2. CASE k = a + 1
    <3>1. b + 1 \in 1 .. N
      BY <1>9
    <3> QED BY <1>9, <1>17, <2>2, <3>1
  <2>3. CASE a + 1 < k /\ k <= b + 1
    <3>1. k - 1 \in 1 .. N
      BY <1>9, <2>3
    <3> QED BY <1>9, <1>17, <2>3, <3>1
  <2> QED BY <1>9, <2>1, <2>2, <2>3
<1>22. ASSUME NEW k \in 1 .. N
       PROVE  /\ k <= a0 => InBlock(k, moved(k), 2 * w)
              /\ a0 < k /\ k <= a + 1 => a0 < moved(k) /\ moved(k) <= a0 + 2 * w
              /\ a + 1 < k /\ k <= (a + 1) + l => a0 < moved(k) /\ moved(k) <= a0 + w
              /\ (a + 1) + l < k /\ k <= h => a0 + w < moved(k) /\ moved(k) <= a0 + 2 * w
              /\ k > h => InBlock(k, moved(k), w)
  <2>1. PICK x \in 1 .. N : /\ t[k] = s[x]
                            /\ k <= a \/ k > b + 1 => x = k
                            /\ k = a + 1 => x = b + 1
                            /\ a + 1 < k /\ k <= b + 1 => x = k - 1
    BY <1>21
  <2>2. moved(k) = rank(x) /\ rank(x) \in Nat
    BY <1>12, <1>15, <2>1, Zenon
  <2>3. /\ x <= a0 => InBlock(x, rank(x), 2 * w)
        /\ a0 < x /\ x <= a => a0 < rank(x) /\ rank(x) <= a0 + 2 * w
        /\ a < x /\ x <= b => a0 < rank(x) /\ rank(x) <= a0 + w
        /\ b < x /\ x <= h => a0 + w < rank(x) /\ rank(x) <= a0 + 2 * w
        /\ x > h => InBlock(x, rank(x), w)
    BY <1>4
  <2>4. CASE k <= a \/ k > b + 1
    <3>1. x = k
      BY <2>1, <2>4
    <3> QED BY <1>2, <1>8, <1>9, <1>16, <2>2, <2>3, <2>4, <3>1
  <2>5. CASE k = a + 1
    <3>1. x = b + 1
      BY <2>1, <2>5
    <3>2. b < x /\ x <= h
      BY <1>9, <1>16, <3>1
    <3>3. a0 + w < rank(x) /\ rank(x) <= a0 + 2 * w
      BY <2>3, <3>2
    <3> QED BY <1>2, <1>8, <1>9, <1>16, <2>2, <2>5, <3>3
  <2>6. CASE a + 1 < k /\ k <= b + 1
    <3>1. x = k - 1
      BY <2>1, <2>6
    <3>2. a < x /\ x <= b
      BY <1>9, <2>6, <3>1
    <3>3. a0 < rank(x) /\ rank(x) <= a0 + w
      BY <2>3, <3>2
    <3> QED BY <1>2, <1>8, <1>9, <1>16, <2>2, <2>6, <3>3
  <2> QED BY <1>9, <2>4, <2>5, <2>6
<1>23. m.cmp = "cmp_idx" => \A k \in 1 .. N :
        \/ Regular(t[k])'
        \/ a0 < k /\ k <= h /\ a + 1 > a0 /\ k = N /\ N = a0 + 1
        \/ a0 < k /\ (a + 1 = a0 \/ k > h) /\ (w = 1 \/ (k = N /\ N - 1 \in Times(w)))
  <2> SUFFICES ASSUME m.cmp = "cmp_idx", NEW k \in 1 .. N
               PROVE  Regular(t[k])' \/ (a0 < k /\ k > h /\ (w = 1 \/ (k = N /\ N - 1 \in Times(w))))
    BY Zenon
  <2>1. PICK x \in 1 .. N : /\ t[k] = s[x]
                            /\ k <= a \/ k > b + 1 => x = k
                            /\ k = a + 1 => x = b + 1
                            /\ a + 1 < k /\ k <= b + 1 => x = k - 1
    BY <1>21
  <2>2. CASE Regular(s[x])'
    BY <1>15a, <2>1, <2>2, Zenon
  <2>3. CASE ~ Regular(s[x])'
    <3>1. \/ a0 < x /\ x <= h /\ x = N /\ N = a0 + 1
          \/ a0 < x /\ x > h /\ (w = 1 \/ (x = N /\ N - 1 \in Times(w)))
      BY <1>5, <2>3, Zenon
    <3>2. ~ (N = a0 + 1)
      BY <1>8, <1>9, <1>16
    <3>3. x > h => x = k
      BY <1>9, <1>16, <2>1
    <3> QED BY <3>1, <3>2, <3>3, Zenon
  <2> QED BY <2>2, <2>3
<1>24. TakeOrder(N, t, a + 1, a0)'
  <2>1. a0 <= a + 1 /\ l <= w /\ (a + 1) + l <= a0 + 2 * w /\ ~ (a + 1 = a0)
    BY <1>2, <1>8, <1>9, <1>16
  <2>2. (a + 1) + l < N => (a + 1) + l + v = a0 + 2 * w
    BY <1>2, <1>9, <1>16
  <2>3. m'.cmp = m.cmp /\ m'.insize = w /\ m'.nmerges = m.nmerges /\ m'.psize = l /\ m'.qsize = v
    BY DEF w, v, l
  <2> QED BY <1>2, <1>18, <1>19, <1>20, <1>22, <1>23, <2>1, <2>2, <2>3, Zenon
      DEF TakeOrder, h, moved, low
<1> QED BY <1>24

(* What a comparison, or none, leaves of the rest of the state.             *)
Running(n) ==
  /\ at = "take"
  /\ Kept(n, m.cmp, data, data')
  /\ mem' \in [Blk -> Byte] /\ mat' = Matrix0 /\ res' \in Results /\ res'.list = res.list
  /\ call = 0 \/ Undoes => mem' = Text0
  /\ UNCHANGED <<input, info, at, call, list, retval, remover, before, origin>>

InMerge(n, N, s, a, a0) ==
  InSort(n, N, s) /\ Ring(n, N, s) /\ TakeShape(N, s, a) /\ TakeOrder(N, s, a, a0) /\ Taking(n, N, s, a)
    /\ Ranked(N, s)

LEMMA InMergeIs ==
  ASSUME NEW n, NEW N, NEW s, NEW a, NEW a0, ListInv(n, N, s, a, a0), at = "take"
  PROVE  InMerge(n, N, s, a, a0)
<1>1. InSort(n, N, s) /\ TakeShape(N, s, a) /\ TakeOrder(N, s, a, a0)
  BY SortFacts
<1>2. Taking(n, N, s, a)
  BY <1>1, TakingIs, Zenon
<1>3. Ranked(N, s)
  BY <1>1, RankedIs, Zenon
<1> QED BY <1>1, <1>2, <1>3, Zenon DEF InMerge, InSort

LEMMA SameCell == \A N, s : SameCells(N, s, s)
BY Zenon DEF SameCells

LEMMA RunSort ==
  ASSUME NEW n, NEW N, NEW s, NEW t, InSort(n, N, s), Ring(n, N, t), SameCells(N, s, t),
         SameCells(N, t, s), Running(n),
         next' \in [1 .. n -> 0 .. n], m' \in MergeState, m'.cmp = m.cmp, m'.then = m.then
  PROVE  InSort(n, N, t)'
BY KeptSort DEF Running

LEMMA TakeFirst ==
  ASSUME NEW n, NEW N, NEW s, NEW a, NEW a0, InMerge(n, N, s, a, a0), Running(n),
         m.psize > 0, FromP, Lowest(N, s, a, a0), m.cmp = "cmp_idx" => Reached(N, s, a, a0)
  PROVE  ListInv(n, N, s, a + 1, a0)'
<1> USE DEF InMerge
<1>1. /\ TakeShape(N, s, a + 1)' /\ next' \in [1 .. n -> 0 .. n] /\ m' \in MergeState
      /\ m'.cmp = m.cmp /\ m'.then = m.then /\ m'.insize = m.insize /\ m'.nmerges = m.nmerges
      /\ m'.psize = m.psize - 1 /\ m'.qsize = m.qsize
  BY FromPShape
<1>2. Kept(n, m.cmp, data, data') /\ before' = before /\ at = "take" /\ at' = "take"
  BY Zenon DEF Running
<1>3. Restoring(N, s, a0)
  BY <1>2, RestoringIs, Zenon
<1>4. TakeOrder(N, s, a + 1, a0)'
  BY <1>1, <1>2, <1>3, FromPOrder
<1>5. InSort(n, N, s)'
  BY <1>1, SameCell, RunSort, Zenon
<1> QED BY <1>1, <1>2, <1>4, <1>5, TakeOn, Zenon

LEMMA TakeSecond ==
  ASSUME NEW n, NEW N, NEW s, NEW a, NEW a0, InMerge(n, N, s, a, a0), Running(n),
         m.qsize > 0, m.q # Null, FromQ, Higher(N, s, a, a0),
         m.cmp = "cmp_idx" => Reached(N, s, a, a0)
  PROVE  ListIInv'
<1> USE DEF InMerge
<1>1. PICK t : t = Permuted(N, s, ToFront(N, a, m.psize))
  BY Zenon
<1>2. /\ TakeShape(N, t, a + 1)' /\ next' \in [1 .. n -> 0 .. n] /\ m' \in MergeState
      /\ m'.cmp = m.cmp /\ m'.then = m.then /\ m'.insize = m.insize /\ m'.nmerges = m.nmerges
      /\ m'.psize = m.psize /\ m'.qsize = m.qsize - 1
      /\ a + m.psize < N
  BY <1>1, FromQShape
<1>3. Kept(n, m.cmp, data, data') /\ before' = before /\ at = "take" /\ at' = "take"
  BY Zenon DEF Running
<1>4. Restoring(N, s, a0)
  BY <1>3, RestoringIs, Zenon
<1>5. TakeOrder(N, t, a + 1, a0)'
  BY <1>1, <1>2, <1>3, <1>4, FromQOrder
<1>6. Ring(n, N, t) /\ SameCells(N, s, t) /\ SameCells(N, t, s)
  <2> DEFINE l == m.psize
  <2>1. l \in Nat /\ a \in Nat
    BY DEF Taking
  <2>2. a + l < N
    BY <1>2
  <2>3. t = Permuted(N, s, ToFront(N, a, l))
    BY <1>1
  <2> HIDE DEF l
  <2> QED BY <2>1, <2>2, <2>3, FrontCells, Zenon
<1>7. InSort(n, N, t)'
  BY <1>2, <1>6, RunSort, Zenon
<1>8. ListInv(n, N, t, a + 1, a0)'
  BY <1>2, <1>3, <1>5, <1>7, TakeOn, Zenon
<1> QED BY <1>8, Zenon DEF ListIInv

LEMMA KeyType ==
  ASSUME NEW n, NEW cmp, NEW x \in [1 .. n -> Datum], NEW c \in 1 .. n
  PROVE  Key(cmp, c, x) \in Int
<1>1. x[c].idx \in Number /\ x[c].data16 \in Half
  BY DEF Datum
<1>2. x[c].idx \in Int
  <2>1. Number \subseteq Int
    BY SMT DEF Number
  <2> QED BY <1>1, <2>1, Zenon
<1>3. x[c].data16 % 128 \in Int
  BY <1>1, HalfInt
<1> QED BY <1>2, <1>3, Zenon DEF Key

(* A merge that has not come to the end of its second run.                  *)
LEMMA NotAtEnd ==
  ASSUME NEW n, NEW N, NEW s, NEW a, NEW a0, InMerge(n, N, s, a, a0)
  PROVE  /\ a + m.psize < MergeTo(N, a0) <=> m.qsize > 0 /\ m.q # Null
         /\ m.psize > 0 /\ a + m.psize < MergeTo(N, a0) =>
              Rank(before, s[a + 1]) < Rank(before, s[a + m.psize + 1])
<1> DEFINE l == m.psize
           u == m.qsize
           w == m.insize
           h == MergeTo(N, a0)
           b == a + l
           rank(k) == Rank(before, s[k])
<1>1. /\ m \in MergeState /\ a \in 0 .. N /\ l \in Nat /\ u \in Nat /\ b <= N
      /\ N \in Nat /\ N >= 2 /\ n \in Nat /\ s \in [1 .. N -> 1 .. n]
  BY Zenon DEF InMerge, Taking, l, u, b
<1>2. m.q = (IF b = N THEN Null ELSE s[b + 1])
  BY Zenon DEF InMerge, TakeShape, l, b
<1>3. /\ a0 \in Times(2 * w) /\ a0 <= a /\ a0 < N /\ l <= w
      /\ b < N => b + u = a0 + 2 * w
  BY Zenon DEF InMerge, TakeOrder, l, b, u, w
<1>4. h = IF a0 + 2 * w < N THEN a0 + 2 * w ELSE N
  BY Zenon DEF MergeTo, h, w
<1>5. \A k \in 1 .. N :
        /\ a < k /\ k <= b => a0 < rank(k) /\ rank(k) <= a0 + w
        /\ b < k /\ k <= h => a0 + w < rank(k) /\ rank(k) <= a0 + 2 * w
  BY Zenon DEF InMerge, TakeOrder, MergeTo, w, h, l, b, rank
<1>6. \A k \in 1 .. N : rank(k) \in Nat
  BY Zenon DEF InMerge, Ranked, rank
<1>7. Positive(w)
  BY <1>1 DEF MergeState, Positive
<1>8. a0 \in Nat
  BY <1>3, <1>7, TimesDouble
<1>9. /\ a \in Nat /\ l \in Nat /\ b = a + l /\ b \in Nat /\ b <= N /\ w \in Nat /\ w > 0
      /\ u \in Nat /\ N \in Nat /\ N >= 2
  BY <1>1, <1>7 DEF Positive
<1> HIDE DEF l, u, w, h, b, rank
<1>10. h \in Nat /\ h <= N /\ h <= a0 + 2 * w
  BY <1>4, <1>8, <1>9
<1>11. b < h <=> u > 0 /\ m.q # Null
  <2>1. CASE b = N
    BY <1>2, <1>9, <1>10, <2>1
  <2>2. CASE b < N
    <3>1. s[b + 1] \in 1 .. n
      BY <1>1, <1>9, <2>2
    <3>2. m.q # Null
      BY <1>1, <1>2, <2>2, <3>1 DEF Null
    <3>3. b < h <=> u > 0
      BY <1>3, <1>4, <1>8, <1>9, <2>2
    <3> QED BY <3>2, <3>3
  <2> QED BY <1>9, <2>1, <2>2
<1>12. l > 0 /\ b < h => rank(a + 1) < rank(b + 1)
  <2> SUFFICES ASSUME l > 0, b < h PROVE rank(a + 1) < rank(b + 1)
    OBVIOUS
  <2>1. /\ a + 1 \in 1 .. N /\ b + 1 \in 1 .. N /\ a < a + 1 /\ a + 1 <= b
        /\ b < b + 1 /\ b + 1 <= h
    BY <1>9, <1>10
  <2>2. rank(a + 1) <= a0 + w /\ a0 + w < rank(b + 1)
    BY <1>5, <2>1
  <2> QED BY <1>6, <1>8, <1>9, <2>1, <2>2
<1> QED BY <1>11, <1>12, Zenon DEF l, u, h, b, rank

LEMMA MergeStep ==
  ASSUME NEW n, NEW N, NEW s, NEW a, NEW a0, ListInv(n, N, s, a, a0), Merge
  PROVE  ListIInv'
<1>1. /\ at = "take" /\ Mergeable
      /\ UNCHANGED <<input, info, at, call, list, retval, remover, before, origin>>
  BY Zenon DEF Merge, locals
<1>2. InMerge(n, N, s, a, a0)
  BY <1>1, InMergeIs, Zenon
<1>3. /\ InSort(n, N, s) /\ Taking(n, N, s, a)
      /\ Kernels /\ Heap(n) /\ Sorting(n, N, s)
  BY <1>2, Zenon DEF InMerge, InSort
<1>4. data \in [1 .. n -> Datum] /\ \A c \in 1 .. n : info[c] = c
  BY <1>1, <1>3, Zenon DEF Heap
<1>5. UNCHANGED <<data, kernels>> => Running(n)
  <2>1. /\ mem \in [Blk -> Byte] /\ mat = Matrix0 /\ res \in Results
        /\ call = 0 \/ Undoes => mem = Text0
    BY <1>3, Zenon DEF Kernels, Blk
  <2>2. Kept(n, m.cmp, data, data)
    BY <1>4, KeptIs, Zenon
  <2> QED BY <1>1, <2>1, <2>2, Zenon DEF Running, kernels
<1> DEFINE l == m.psize
<1>6. /\ m \in MergeState /\ a \in 0 .. N /\ l \in Nat /\ m.qsize \in Nat /\ a + l <= N
      /\ N \in Nat /\ n \in Nat /\ s \in [1 .. N -> 1 .. n]
  BY <1>3, Zenon DEF Taking, l
<1>7. /\ l > 0 => m.p = s[a + 1]
      /\ m.q = (IF a + l = N THEN Null ELSE s[a + l + 1])
  BY <1>2, Zenon DEF InMerge, TakeShape, l
<1>8. CASE m.psize = 0 /\ FromQ /\ UNCHANGED <<data, kernels>>
  <2>1. m.qsize > 0 /\ m.q # Null
    BY <1>1, <1>8 DEF Mergeable
  <2>2. Higher(N, s, a, a0)
    BY <1>8 DEF Higher
  <2>3. Reached(N, s, a, a0)
    <3>1. a = a0 => l > 0
      BY <1>2, Zenon DEF InMerge, TakeOrder, l
    <3> QED BY <1>8, <3>1 DEF Reached
  <2> QED BY <1>2, <1>5, <1>8, <2>1, <2>2, <2>3, TakeSecond, Zenon
<1>9. CASE m.psize > 0 /\ (m.qsize = 0 \/ m.q = Null) /\ FromP /\ UNCHANGED <<data, kernels>>
  <2>1. ~ (a + l < MergeTo(N, a0))
    <3>1. a + l < MergeTo(N, a0) <=> m.qsize > 0 /\ m.q # Null
      BY <1>2, NotAtEnd, Zenon
    <3> QED BY <1>9, <3>1
  <2>2. Lowest(N, s, a, a0) /\ Reached(N, s, a, a0)
    BY <2>1, Zenon DEF Lowest, Reached, l
  <2>3. ListInv(n, N, s, a + 1, a0)'
    BY <1>2, <1>5, <1>9, <2>2, TakeFirst, Zenon
  <2> QED BY <2>3, Zenon DEF ListIInv
<1>10. CASE /\ m.psize > 0 /\ m.qsize > 0 /\ m.q # Null
            /\ \E t \in {Compare(info[m.p], info[m.q])} :
               /\ IF FirstOfP(t.data) THEN FromP ELSE FromQ
               /\ data' = t.data /\ mem' = t.mem /\ mat' = t.mat /\ res' = t.res
  <2> DEFINE c == s[a + 1]
             d == s[a + l + 1]
  <2>1. PICK t : /\ t = Compare(info[m.p], info[m.q])
                 /\ IF FirstOfP(t.data) THEN FromP ELSE FromQ
                 /\ data' = t.data /\ mem' = t.mem /\ mat' = t.mat /\ res' = t.res
    BY <1>10, Zenon
  <2>2. /\ a + l < MergeTo(N, a0)
        /\ Rank(before, c) < Rank(before, d)
    <3>1. /\ a + l < MergeTo(N, a0) <=> m.qsize > 0 /\ m.q # Null
          /\ m.psize > 0 /\ a + l < MergeTo(N, a0) => Rank(before, c) < Rank(before, d)
      BY <1>2, NotAtEnd, Zenon DEF l, c, d
    <3> QED BY <1>10, <3>1
  <2>3. m.p = c /\ m.q = d /\ c \in 1 .. n /\ d \in 1 .. n
    <3> HIDE DEF l
    <3>1. l > 0
      BY <1>10 DEF l
    <3>2. a + l # N
      BY <1>7, <1>10
    <3>3. a + 1 \in 1 .. N /\ a + l + 1 \in 1 .. N
      BY <1>6, <3>1, <3>2
    <3> QED BY <1>6, <1>7, <3>1, <3>2, <3>3
  <2>4. info[m.p] = c /\ info[m.q] = d
    BY <1>4, <2>3, Zenon
  <2> HIDE DEF c, d
  <2>5. Compared(n, t) /\ Effect(n, m.cmp, data, data', c, d)
    <3>1. t = Compare(c, d)
      BY <2>1, <2>4
    <3>2. Compared(n, t) /\ Effect(n, m.cmp, data, t.data, c, d)
      BY <1>3, <2>3, <3>1, CompareIs, Zenon
    <3> QED BY <2>1, <3>2, Zenon
  <2>6. Running(n)
    <3>1. Kept(n, m.cmp, data, data')
      BY <1>4, <2>5, KeptIs, Zenon
    <3> QED BY <1>1, <2>1, <2>5, <3>1, Zenon DEF Running, Compared
  <2>7. /\ data' \in [1 .. n -> Datum]
        /\ Settled(m.cmp, data', c) /\ Settled(m.cmp, data', d)
        /\ m.cmp = "cmp_idx" => /\ data'[c].data16 = Fresh(data'[c].data16)
                                /\ data'[d].data16 = Fresh(data'[d].data16)
    BY <2>5, Zenon DEF Effect
  <2>8. Key(m.cmp, c, data') \in Int /\ Key(m.cmp, d, data') \in Int
    BY <2>3, <2>7, KeyType, Zenon
  <2>9. FirstOfP(t.data) <=> Key(m.cmp, c, data') <= Key(m.cmp, d, data')
    BY <2>1, <2>4, Zenon DEF FirstOfP
  <2>10. m.cmp = "cmp_idx" => Reached(N, s, a, a0)
    <3>1. ASSUME m.cmp = "cmp_idx", NEW k, k = a + 1 \/ k = a + m.psize + 1
          PROVE  Regular(s[k])'
      <4>1. s[k] = c \/ s[k] = d
        BY <3>1 DEF c, d
      <4>2. data'[s[k]].data16 = Fresh(data'[s[k]].data16)
        BY <2>7, <3>1, <4>1, Zenon
      <4> QED BY <4>2, Zenon DEF Regular
    <3> QED BY <3>1, Zenon DEF Reached
  <2>11. CASE FirstOfP(t.data)
    <3>1. Key(m.cmp, c, data') < Key(m.cmp, d, data') \/ Key(m.cmp, c, data') = Key(m.cmp, d, data')
      BY <2>8, <2>9, <2>11
    <3>2. Lower(m.cmp, data', before, c, d)
      BY <2>2, <2>7, <3>1, Zenon DEF Lower
    <3>3. Lowest(N, s, a, a0)
      BY <3>2, Zenon DEF Lowest, c, d, l
    <3>4. ListInv(n, N, s, a + 1, a0)'
      BY <1>2, <1>10, <2>1, <2>6, <2>10, <2>11, <3>3, TakeFirst, Zenon
    <3> QED BY <3>4, Zenon DEF ListIInv
  <2>12. CASE ~ FirstOfP(t.data)
    <3>1. Key(m.cmp, d, data') < Key(m.cmp, c, data')
      BY <2>8, <2>9, <2>12
    <3>2. Lower(m.cmp, data', before, d, c)
      BY <2>7, <3>1, Zenon DEF Lower
    <3>3. Higher(N, s, a, a0)
      BY <3>2, Zenon DEF Higher, c, d, l
    <3> QED BY <1>2, <1>10, <2>1, <2>6, <2>10, <2>12, <3>3, TakeSecond, Zenon
  <2> QED BY <2>11, <2>12
<1> QED BY <1>8, <1>9, <1>10, Zenon DEF Merge

-----------------------------------------------------------------------------
(* The invariant.                                                           *)

LEMMA InitHolds ==
  ASSUME ListInit
  PROVE  ListInv(2, 2, <<1, 2>>, 0, 0)
<1> DEFINE s == <<1, 2>>
<1>1. /\ input \in Inputs /\ next = <<2, Null>> /\ info = <<1, 2>>
      /\ res = [crc |-> 0, crclist |-> 0, crcmatrix |-> 0, crcstate |-> 0, list |-> Null]
      /\ at = "insert" /\ call = 0 /\ list = 1 /\ retval = 0 /\ i = 0 /\ remover = Null
  BY SMT DEF ListInit
<1>1a. data = <<[idx |-> 0, data16 |-> 32896], [idx |-> 32767, data16 |-> 65535]>>
  BY SMT DEF ListInit
<1>1b. mem = Text0 /\ mat = Matrix0
  BY SMT DEF ListInit, Text0, Matrix0
<1>2. /\ input.size \in Nat /\ input.seed1 \in Int
  BY <1>1, InputsAssumption
<1>3. 0 \in Half
  BY Halves, SMT
<1>4. Kernels
  <2>1. mem \in [1 .. input.size -> Byte]
    BY <1>1b, <1>2, InitStateType DEF Text0
  <2>2. res \in Results
    BY <1>1, <1>3 DEF Results, Null
  <2> QED BY <1>1, <1>1b, <1>3, <2>1, <2>2, SMT DEF Kernels
<1>5. /\ 1 .. 2 = {1, 2} /\ 2 \in Nat /\ 2 >= 2 /\ 2 <= 2 /\ 1 .. 2 - 1 = {1}
      /\ next \in [1 .. 2 -> 0 .. 2] /\ info \in [1 .. 2 -> 1 .. 2]
      /\ s \in [1 .. 2 -> 1 .. 2] /\ s[1] = 1 /\ s[2] = 2 /\ next[1] = 2 /\ next[2] = 0
      /\ info[1] = 1 /\ info[2] = 2
  BY <1>1, SMT DEF Null
<1>6. data[1] = [idx |-> 0, data16 |-> 32896] /\ data[2] = [idx |-> 32767, data16 |-> 65535]
  BY <1>1a, SMT
<1>7. data \in [1 .. 2 -> Datum]
  <2>1. 32896 \in Half /\ 65535 \in Half
    BY Halves, SMT
  <2>2. 0 \in Number /\ 32767 \in Number
    BY SMT DEF Number, Largest
  <2>3. data[1] \in Datum /\ data[2] \in Datum
    BY <1>6, <2>1, <2>2, SMT DEF Datum
  <2> QED BY <1>1a, <1>6, <2>3, SMT
<1>8. Heap(2)
  BY <1>1, <1>5, <1>7, SMT DEF Heap, Null
<1>9. Ring(2, 2, s)
  BY <1>5, SMT DEF Ring
<1>10. Member(2, 2, s)
  BY <1>5, SMT DEF Member
<1>11. Inserting(2, 2, s)
  BY <1>1, <1>5, <1>6, SMT DEF Inserting, Largest
<1>12. Whole(2, s)
  BY <1>1, <1>5, SMT DEF Whole, Null
<1>13. Phase(2, 2, s, 0, 0)
  BY <1>1, <1>11, <1>12, SMT DEF Phase
<1> QED BY <1>4, <1>8, <1>9, <1>10, <1>13, Zenon DEF ListInv

LEMMA InvStutters ==
  ASSUME ListIInv, UNCHANGED listVars
  PROVE  ListIInv'
<1>1. UNCHANGED <<input, next, info, data, mem, mat, res, at, call, list, i, retval, remover,
                  m, before, origin>>
  BY Zenon DEF listVars
<1>2. PICK n, N, s, a, a0 : ListInv(n, N, s, a, a0)
  BY Zenon DEF ListIInv
<1>3. Kernels /\ Heap(n) /\ Ring(n, N, s) /\ Member(n, N, s) /\ Phase(n, N, s, a, a0)
  BY <1>2, Zenon DEF ListInv
<1>4. Kernels' /\ Heap(n)' /\ Ring(n, N, s)' /\ Member(n, N, s)'
  BY <1>1, <1>3, KernelTypes, SameKernels, SameMember DEF Ring, Heap
<1>5. Indexed(n) => Indexed(n)'
  BY <1>1, SameIndexed
<1>6. Origin(n) => Origin(n)'
  BY <1>1, SameOrigin
<1>7. Whole(N, s) => Whole(N, s)'
  BY <1>1, SameWhole
<1>8. Sorted(N, s) => Sorted(N, s)'
  BY <1>1, Zenon DEF Sorted, Rising, Ascending, Regular
<1>9. Inserting(n, N, s) => Inserting(n, N, s)'
  BY <1>1, SMT DEF Inserting
<1>10. Removed(n, N, s) => Removed(n, N, s)'
  BY <1>1, SMT DEF Removed
<1>11. Sorting(n, N, s) => Sorting(n, N, s)'
  BY <1>1, Zenon DEF Sorting
<1>12. SplitShape(N, s, a) => SplitShape(N, s, a)'
  BY <1>1, Zenon DEF SplitShape
<1>13. TakeShape(N, s, a) => TakeShape(N, s, a)'
  BY <1>1, Zenon DEF TakeShape
<1>14. \A k : Regular(s[k])' <=> Regular(s[k])
  BY <1>1, SMT DEF Regular
<1>15. SplitOrder(N, s, a) => SplitOrder(N, s, a)'
  <2> HIDE DEF Regular
  <2> QED BY <1>1, <1>14, Zenon DEF SplitOrder
<1>16. TakeOrder(N, s, a, a0) => TakeOrder(N, s, a, a0)'
  <2> HIDE DEF Regular
  <2> QED BY <1>1, <1>14, Zenon DEF TakeOrder
<1>17. Phase(n, N, s, a, a0)'
  BY <1>1, <1>3, <1>5, <1>6, <1>7, <1>8, <1>9, <1>10, <1>11, <1>12, <1>13, <1>15, <1>16, Zenon DEF Phase
<1>18. ListInv(n, N, s, a, a0)'
  BY <1>4, <1>17, Zenon DEF ListInv
<1> QED BY <1>18, Zenon DEF ListIInv

LEMMA InvNext ==
  ASSUME ListIInv, [ListNext]_listVars
  PROVE  ListIInv'
<1>1. PICK n, N, s, a, a0 : ListInv(n, N, s, a, a0)
  BY Zenon DEF ListIInv
<1>2. ASSUME NEW b, ListInv(n, N, s, b, 0)' PROVE ListIInv'
  BY <1>2, Zenon DEF ListIInv
<1>3. CASE Insert
  BY <1>1, <1>3, InsertStep, Zenon
<1>4. CASE IndexAndSort
  BY <1>1, <1>2, <1>4, IndexStep, Zenon
<1>5. CASE Initialized
  BY <1>1, <1>2, <1>5, InitializedStep, Zenon
<1>6. CASE Split
  <2>1. ListInv(n, N, s, a, a)'
    BY <1>1, <1>6, SplitStep, Zenon
  <2> QED BY <2>1, Zenon DEF ListIInv
<1>7. CASE Merge
  BY <1>1, <1>7, MergeStep, Zenon
<1>8. CASE Merged
  BY <1>1, <1>2, <1>8, MergedStep, Zenon
<1>9. CASE EndPass
  BY <1>1, <1>2, <1>9, EndPassStep, Zenon
<1>10. CASE Call
  BY <1>1, <1>10, CallStep, Zenon
<1>11. CASE Find
  BY <1>1, <1>11, FindStep, Zenon
<1>12. CASE Sort
  BY <1>1, <1>2, <1>12, SortStep, Zenon
<1>13. CASE RemoveItem
  BY <1>1, <1>13, RemoveStep, Zenon
<1>14. CASE Crc
  BY <1>1, <1>2, <1>14, CrcStep, Zenon
<1>15. CASE Undo
  BY <1>1, <1>15, UndoStep, Zenon
<1>16. CASE SortBack
  BY <1>1, <1>2, <1>16, SortBackStep, Zenon
<1>17. CASE Return
  BY <1>1, <1>2, <1>17, ReturnStep, Zenon
<1>18. CASE Ended \/ UNCHANGED listVars
  BY <1>18, InvStutters, Zenon DEF Ended
<1> QED BY <1>3, <1>4, <1>5, <1>6, <1>7, <1>8, <1>9, <1>10, <1>11, <1>12, <1>13, <1>14, <1>15,
    <1>16, <1>17, <1>18, Zenon DEF ListNext

(* In every state there is a list of cells that the heap links as the       *)
(* statement in progress needs it.                                          *)
THEOREM ListHolds == ListSpec => []ListIInv
<1>1. ListInit => ListIInv
  <2>1. ASSUME ListInit PROVE \E n, N, s, a, a0 : ListInv(n, N, s, a, a0)
    BY <2>1, InitHolds, Zenon
  <2> QED BY <2>1, Zenon DEF ListIInv
<1>2. ListIInv /\ [ListNext]_listVars => ListIInv'
  BY InvNext, Zenon
<1> QED BY <1>1, <1>2, PTL DEF ListSpec

Statements ==
  {"insert", "split", "take", "init", "call", "find", "remove", "crc", "undo", "undone", "return"}

LEMMA StatementNext ==
  ASSUME at \in Statements, ListIInv, [ListNext]_listVars
  PROVE  (at \in Statements)'
<1> USE DEF Statements
<1>1. CASE EndPass
  <2>1. PICK n, N, s, a, a0 : ListInv(n, N, s, a, a0)
    BY Zenon DEF ListIInv
  <2>2. at = "split"
    BY <1>1, Zenon DEF EndPass
  <2>3. InSort(n, N, s)
    BY <2>1, <2>2, SortFacts
  <2>4. m \in MergeState
    BY <2>3, Zenon DEF InSort, Sorting
  <2>5. m.then \in {"init", "remove", "return"}
    BY <2>4 DEF MergeState
  <2>6. at' = m.then \/ at' = at
    BY <1>1, Zenon DEF EndPass
  <2> QED BY <2>2, <2>5, <2>6
<1>2. CASE UNCHANGED listVars \/ Ended
  BY <1>2, Zenon DEF listVars, Ended
<1>3. CASE Insert \/ Find \/ Merge
  BY <1>3, Zenon DEF Insert, Find, Merge
<1>4. CASE IndexAndSort \/ Initialized \/ Split \/ Merged \/ Call \/ RemoveItem \/ Crc \/ Undo
           \/ SortBack \/ Return
  BY <1>4, Zenon DEF IndexAndSort, Initialized, Split, Merged, Call, RemoveItem, Crc, Undo,
     SortBack, Return, StartSort
<1>5. CASE Sort
  BY <1>5, Zenon DEF Sort, StartSort
<1> QED BY <1>1, <1>2, <1>3, <1>4, <1>5, Zenon DEF ListNext

Held == ListIInv /\ at \in Statements

(* The same, and the statement is one of those of core_bench_list.           *)
THEOREM HeldAlways == ListSpec => []Held
<1>1. ListInit => at \in Statements
  BY SMT DEF ListInit, Statements
<1>2. at \in Statements /\ ListIInv /\ [ListNext]_listVars => (at \in Statements)'
  BY StatementNext, Zenon
<1>3. ListIInv /\ at \in Statements => Held
  BY Zenon DEF Held
<1> QED BY <1>1, <1>2, <1>3, ListHolds, PTL DEF ListSpec

-----------------------------------------------------------------------------
(* The parts of the list are the cells of the invariant.                    *)

PartsOf(s) == Parts = s

LEMMA SplitParts ==
  ASSUME NEW n, NEW N, NEW s, NEW a, Heap(n), Ring(n, N, s), SplitShape(N, s, a), at = "split"
  PROVE  PartsOf(s)
<1>1. ListIn(n, next, N, s)
  BY HeapList
<1>2. /\ a \in 0 .. N
      /\ m.out = (IF a = 0 THEN Null ELSE s[1])
      /\ m.tail = (IF a = 0 THEN Null ELSE s[a])
      /\ m.p = (IF a = N THEN Null ELSE s[a + 1])
      /\ \A k \in 1 .. N - 1 : k # a => next[s[k]] = s[k + 1]
      /\ a # N => next[s[N]] = Null
  BY Zenon DEF SplitShape
<1>3. N \in Nat /\ n \in Nat /\ s \in [1 .. N -> 1 .. n]
  BY <1>1 DEF ListIn
<1> DEFINE out == m.out
           tail == m.tail
           p == m.p
           L == N - a
<1>4. out = (IF a = 0 THEN Null ELSE s[1]) /\ tail = (IF a = 0 THEN Null ELSE s[a])
      /\ p = (IF a = N THEN Null ELSE s[a + 1])
  BY <1>2
<1>5. Parts = (IF tail = Null THEN <<>> ELSE Upto(Chain(next, out), tail)) \o Chain(next, p)
  BY Zenon DEF Parts
<1> HIDE DEF out, tail, p
<1>6. (IF tail = Null THEN <<>> ELSE Upto(Chain(next, out), tail)) = From(s, 0, a)
  <2>1. Links(next, s, 1, a)
    BY <1>2, <1>3 DEF Links
  <2>2. OutOf(n, next, N, s, a, out, tail)
    BY <1>1, <1>2, <1>4, <2>1, Zenon DEF OutOf
  <2>3. OutIn(next, s, a, out, tail)
    BY <2>2, OutIs, Zenon
  <2> QED BY <2>3, Zenon DEF OutIn
<1>7. Chain(next, p) = From(s, a, L)
  <2>1. Links(next, s, a + 1, N)
    BY <1>2, <1>3 DEF Links
  <2>2. Rest(n, next, N, s, a, p)
    BY <1>1, <1>2, <1>4, <2>1, Zenon DEF Rest
  <2>3. RestIn(next, p, s, a, N)
    BY <2>2, RestIs, Zenon
  <2> QED BY <2>3, Zenon DEF RestIn
<1>8. Stretch(n, N, s, a, L) /\ a + L = N
  BY <1>2, <1>3 DEF Stretch
<1> HIDE DEF L
<1>9. From(s, 0, a) \o From(s, a, L) = From(s, 0, a + L)
  <2>1. JoinedAt(s, a, L)
    BY <1>8, Joined, Zenon
  <2> QED BY <2>1, Zenon DEF JoinedAt
<1>10. From(s, 0, N) = s
  BY <1>3, FromAll
<1> QED BY <1>5, <1>6, <1>7, <1>8, <1>9, <1>10 DEF PartsOf

LEMMA TakeParts ==
  ASSUME NEW n, NEW N, NEW s, NEW a, Heap(n), Ring(n, N, s), TakeShape(N, s, a), at = "take"
  PROVE  PartsOf(s)
<1>1. ListIn(n, next, N, s)
  BY HeapList
<1> DEFINE out == m.out
           tail == m.tail
           p == m.p
           q == m.q
           l == m.psize
           b == a + l
           L == N - b
<1>2. /\ a \in 0 .. N /\ l \in Nat /\ b <= N
      /\ out = (IF a = 0 THEN Null ELSE s[1])
      /\ tail = (IF a = 0 THEN Null ELSE s[a])
      /\ l > 0 => p = s[a + 1]
      /\ q = (IF b = N THEN Null ELSE s[b + 1])
      /\ \A k \in 1 .. N - 1 : k # a /\ k # b => next[s[k]] = s[k + 1]
      /\ b # N => next[s[N]] = Null
  BY Zenon DEF TakeShape, out, tail, p, q, l, b
<1>3. N \in Nat /\ n \in Nat /\ s \in [1 .. N -> 1 .. n]
  BY <1>1 DEF ListIn
<1>5. Parts = (IF tail = Null THEN <<>> ELSE Upto(Chain(next, out), tail))
                 \o SubSeq(Chain(next, p), 1, l) \o Chain(next, q)
  BY Zenon DEF Parts
<1> HIDE DEF out, tail, p, q, l
<1>4. b = a + l /\ b \in 0 .. N
  BY <1>2, <1>3
<1> HIDE DEF b
<1>6. (IF tail = Null THEN <<>> ELSE Upto(Chain(next, out), tail)) = From(s, 0, a)
  <2>1. Links(next, s, 1, a)
    <3>1. \A k \in 1 .. a - 1 : k \in 1 .. N - 1 /\ k # a /\ k # b
      BY <1>2, <1>3, <1>4
    <3> QED BY <1>2, <3>1, Zenon DEF Links
  <2>2. OutOf(n, next, N, s, a, out, tail)
    BY <1>1, <1>2, <2>1, Zenon DEF OutOf
  <2>3. OutIn(next, s, a, out, tail)
    BY <2>2, OutIs, Zenon
  <2> QED BY <2>3, Zenon DEF OutIn
<1>7. SubSeq(Chain(next, p), 1, l) = From(s, a, l)
  <2>1. Links(next, s, a + 1, a + l)
    BY <1>2, <1>3, <1>4 DEF Links
  <2>2. Stretch(n, N, s, a, l)
    BY <1>2, <1>3, <1>4 DEF Stretch
  <2>3. RunOf(n, next, N, s, a, l, p)
    BY <1>1, <1>2, <2>1, <2>2, Zenon DEF RunOf
  <2>4. RunIn(next, s, a, l, p)
    BY <2>3, RunIs, Zenon
  <2> QED BY <2>4, Zenon DEF RunIn
<1>8. Chain(next, q) = From(s, b, L)
  <2>1. Links(next, s, b + 1, N)
    BY <1>2, <1>3, <1>4 DEF Links
  <2>2. Rest(n, next, N, s, b, q)
    BY <1>1, <1>2, <1>4, <2>1, Zenon DEF Rest
  <2>3. RestIn(next, q, s, b, N)
    BY <2>2, RestIs, Zenon
  <2> QED BY <2>3, Zenon DEF RestIn
<1>9. Stretch(n, N, s, b, L) /\ b + L = N /\ Stretch(n, N, s, a, l)
  BY <1>2, <1>3, <1>4 DEF Stretch
<1> HIDE DEF L
<1>10. From(s, 0, a) \o From(s, a, l) = From(s, 0, a + l)
  <2>1. JoinedAt(s, a, l)
    BY <1>9, Joined, Zenon
  <2> QED BY <2>1, Zenon DEF JoinedAt
<1>11. From(s, 0, b) \o From(s, b, L) = From(s, 0, b + L)
  <2>1. JoinedAt(s, b, L)
    BY <1>9, Joined, Zenon
  <2> QED BY <2>1, Zenon DEF JoinedAt
<1>12. From(s, 0, N) = s
  BY <1>3, FromAll
<1> QED BY <1>4, <1>5, <1>6, <1>7, <1>8, <1>9, <1>10, <1>11, <1>12 DEF PartsOf

LEMMA RemovedParts ==
  ASSUME NEW n, NEW N, NEW s, Heap(n), Ring(n, N, s), Removed(n, N, s), at \in {"crc", "undo"}
  PROVE  PartsOf(s)
<1>1. ListIn(n, next, N, s)
  BY HeapList
<1>2. /\ N >= 3 /\ list = s[1] /\ remover = s[N]
      /\ \A k \in 1 .. N - 2 : next[s[k]] = s[k + 1]
      /\ next[s[N - 1]] = Null
  BY Zenon DEF Removed
<1>3. N \in Nat /\ n \in Nat /\ s \in [1 .. N -> 1 .. n] /\ next \in [1 .. n -> 0 .. n]
  BY <1>1 DEF ListIn
<1> DEFINE L == N - 1
<1>4. L \in 1 .. n /\ L \in Nat /\ L # 0 /\ 0 + L = L /\ L + 1 = N /\ 0 + 1 = 1
  BY <1>1, <1>2, <1>3 DEF ListIn
<1>5. Parts = Append(Chain(next, list), remover)
  BY Zenon DEF Parts
<1> HIDE DEF L
<1>6. Chain(next, list) = From(s, 0, L)
  <2>1. Links(next, s, 0 + 1, 0 + L)
    <3>1. \A x \in 0 + 1 .. (0 + L) - 1 : x \in 1 .. N - 2
      BY <1>3, <1>4 DEF L
    <3> QED BY <1>2, <3>1, Zenon DEF Links
  <2>2. Stretch(n, N, s, 0, L)
    BY <1>3, <1>4 DEF Stretch
  <2>3. next[s[0 + L]] = Null
    BY <1>2, <1>4 DEF L
  <2>4. next[s[0 + L]] = Null => Chain(next, s[0 + 1]) = From(s, 0, L)
    BY <1>1, <1>4, <2>1, <2>2, ChainFrom
  <2> QED BY <1>2, <1>4, <2>3, <2>4
<1>7. /\ From(s, 0, L) \in Seq(1 .. n) /\ Len(From(s, 0, L)) = L
      /\ \A k \in 1 .. L : From(s, 0, L)[k] = s[k]
  <2>1. Stretch(n, N, s, 0, L)
    BY <1>3, <1>4 DEF Stretch
  <2> QED BY <2>1, FromStart
<1> DEFINE x == From(s, 0, L)
<1> HIDE DEF x
<1>8. x \in Seq(1 .. n) /\ Len(x) = L /\ \A k \in 1 .. L : x[k] = s[k]
  BY <1>7 DEF x
<1>9. remover \in 1 .. n /\ remover = s[L + 1]
  BY <1>2, <1>3, <1>4
<1>10. /\ Append(x, remover) \in Seq(1 .. n) /\ Len(Append(x, remover)) = N
       /\ \A k \in 1 .. N : Append(x, remover)[k] = s[k]
  <2>1. /\ Append(x, remover) \in Seq(1 .. n) /\ Len(Append(x, remover)) = L + 1
        /\ \A k \in 1 .. L : Append(x, remover)[k] = x[k]
        /\ Append(x, remover)[L + 1] = remover
    BY <1>8, <1>9, SeqFacts
  <2>2. \A k \in 1 .. N : k \in 1 .. L \/ k = L + 1
    BY <1>3, <1>4
  <2> QED BY <1>4, <1>8, <1>9, <2>1, <2>2
<1>11. s \in Seq(1 .. n) /\ Len(s) = N
  BY <1>3, FunIsSeq
<1>12. Append(x, remover) = s
  <2> DEFINE y == Append(x, remover)
  <2> HIDE DEF y
  <2>1. y \in Seq(1 .. n) /\ Len(y) = N /\ \A k \in 1 .. N : y[k] = s[k]
    BY <1>10 DEF y
  <2>2. y = s
    BY <1>3, <1>11, <2>1
  <2> QED BY <2>2 DEF y
<1> QED BY <1>5, <1>6, <1>12 DEF PartsOf, x

LEMMA PartsAre ==
  ASSUME NEW n, NEW N, NEW s, NEW a, NEW a0, ListInv(n, N, s, a, a0), at \in Statements
  PROVE  PartsOf(s)
<1>1. Heap(n) /\ Ring(n, N, s) /\ Phase(n, N, s, a, a0)
  BY Zenon DEF ListInv
<1>2. CASE at = "split"
  BY <1>1, <1>2, SplitParts, Zenon DEF Phase
<1>3. CASE at = "take"
  BY <1>1, <1>3, TakeParts, Zenon DEF Phase
<1>4. CASE at \in {"crc", "undo"}
  BY <1>1, <1>4, RemovedParts, Zenon DEF Phase
<1>5. CASE at \notin {"split", "take", "crc", "undo"}
  <2>1. Whole(N, s)
    BY <1>1, <1>5 DEF Phase, Statements
  <2>2. Chain(next, list) = s
    BY <1>1, <2>1, WholeChain
  <2>3. Parts = Chain(next, list)
    BY <1>5 DEF Parts
  <2> QED BY <2>2, <2>3 DEF PartsOf
<1> QED BY <1>2, <1>3, <1>4, <1>5

LEMMA TypesAre ==
  ASSUME NEW n, NEW N, NEW s, NEW a, NEW a0, ListInv(n, N, s, a, a0)
  PROVE  ListTypeOK
<1>1. Kernels /\ Heap(n)
  BY Zenon DEF ListInv
<1>2. /\ n \in Nat /\ next \in [1 .. n -> 0 .. n] /\ info \in [1 .. n -> 1 .. n]
      /\ data \in [1 .. n -> Datum] /\ list \in 1 .. n /\ remover \in 0 .. n
  BY <1>1, Zenon DEF Heap
<1>3. input \in Inputs /\ mem \in [1 .. input.size -> Byte] /\ res \in Results /\ retval \in Half
  BY <1>1, Zenon DEF Kernels
<1>4. Cell = 1 .. n /\ Cell \union {Null} = 0 .. n /\ DOMAIN data = 1 .. n
  BY <1>2 DEF Cell, Null
<1>5. \A d \in DOMAIN data : data[d].idx \in SignedHalf /\ data[d].data16 \in Half
  <2>1. \A d \in 1 .. n : data[d] \in Datum
    BY <1>2
  <2>2. \A x \in Datum : x.idx \in Number /\ x.data16 \in Half
    BY DEF Datum
  <2>3. Number \subseteq SignedHalf
    <3>1. Largest \in Int /\ EE_S16_MAX \in Int /\ Largest = EE_S16_MAX /\ 0 <= EE_S16_MAX
      BY SMT DEF Largest, EE_S16_MAX
    <3> QED BY <3>1, SMT DEF Number, SignedHalf
  <2> QED BY <1>4, <2>1, <2>2, <2>3, Zenon
<1>6. mem \in Seq(Byte)
  <2>1. input.size \in Nat
    BY <1>3, InputsAssumption
  <2> QED BY <1>3, <2>1, FunIsSeq
<1>7. res.crc \in Half
  BY <1>3 DEF Results
<1> QED BY <1>2, <1>3, <1>4, <1>5, <1>6, <1>7, Zenon DEF ListTypeOK

(* Every item that the benchmark's searches can tell from another is in the *)
(* list, and with it every cell.                                            *)
Everyone(n, N, s) == N = n /\ \A c \in 1 .. n : \E k \in 1 .. N : s[k] = c

LEMMA AllIn ==
  ASSUME NEW n, NEW N, NEW s, NEW a, NEW a0, ListInv(n, N, s, a, a0), call <= 1 \/ DistinctIdx
  PROVE  Everyone(n, N, s)
<1>1. /\ Heap(n) /\ Ring(n, N, s) /\ Member(n, N, s) /\ Phase(n, N, s, a, a0)
  BY Zenon DEF ListInv
<1>2. /\ n \in Nat /\ n >= 2 /\ data \in [1 .. n -> Datum]
  BY <1>1, Zenon DEF Heap
<1>3. N \in Nat /\ N <= n /\ s \in [1 .. N -> 1 .. n]
  BY <1>1, Zenon DEF Ring
<1>4. data[1].idx = 0
  BY <1>1, Zenon DEF Phase, Indexed, Inserting
<1>5. \A c \in 1 .. n : \E k \in 1 .. N : s[k] = c
  <2>1. CASE call <= 1
    BY <1>1, <2>1, Zenon DEF Member
  <2>2. CASE DistinctIdx
    <3>1. 1 \in DOMAIN data /\ DOMAIN data = 1 .. n
      BY <1>2
    <3>2. \A c \in 1 .. n : c = 1 \/ data[c].idx # 0
      BY <1>4, <2>2, <3>1, Zenon DEF DistinctIdx
    <3> QED BY <1>1, <3>2, Zenon DEF Member
  <2> QED BY <2>1, <2>2
<1>6. N = n
  BY <1>2, <1>3, <1>5, Onto, Zenon
<1> QED BY <1>5, <1>6, Zenon DEF Everyone

(* Every datum is in a cell, although core_list_remove swaps two of them.   *)
LEMMA AllData ==
  ASSUME NEW n, NEW N, NEW s, NEW a, NEW a0, ListInv(n, N, s, a, a0), at \in Statements
  PROVE  \A d \in 1 .. n : \E c \in 1 .. n : info[c] = d
<1>1. /\ Heap(n) /\ Ring(n, N, s) /\ Phase(n, N, s, a, a0)
  BY Zenon DEF ListInv
<1>2. CASE at \in {"crc", "undo"}
  <2>1. /\ N >= 3
        /\ info[s[2]] = s[N] /\ info[s[N]] = s[2]
        /\ \A c \in 1 .. n : c # s[2] /\ c # s[N] => info[c] = c
    BY <1>1, <1>2, Zenon DEF Phase, Removed
  <2>2. N \in Nat /\ s \in [1 .. N -> 1 .. n]
    BY <1>1, Zenon DEF Ring
  <2>3. s[2] \in 1 .. n /\ s[N] \in 1 .. n
    BY <2>1, <2>2
  <2> QED BY <2>1, <2>3, Zenon
<1>3. CASE at \notin {"crc", "undo"}
  BY <1>1, <1>3, Zenon DEF Heap
<1> QED BY <1>2, <1>3

(* No cell and no datum is lost.                                            *)
THEOREM NothingIsLost == ListSpec => []NothingLost
<1>1. ASSUME Held PROVE NothingLost
  <2>1. PICK n, N, s, a, a0 : ListInv(n, N, s, a, a0)
    BY <1>1, Zenon DEF Held, ListIInv
  <2>2. ListTypeOK
    BY <2>1, TypesAre, Zenon
  <2>3. at \in Statements
    BY <1>1, Zenon DEF Held
  <2>4. ASSUME call <= 1 \/ DistinctIdx
        PROVE  /\ Len(Parts) = Len(next) /\ ToSet(Parts) = Cell
               /\ \A d \in DOMAIN data : \E c \in Cell : info[c] = d
    <3>1. Parts = s
      BY <2>1, <2>3, PartsAre, Zenon DEF PartsOf
    <3>2. N = n /\ \A c \in 1 .. n : \E k \in 1 .. N : s[k] = c
      <4>1. Everyone(n, N, s)
        BY <2>1, <2>4, AllIn, Zenon
      <4> QED BY <4>1, Zenon DEF Everyone
    <3>3. Heap(n) /\ Ring(n, N, s)
      BY <2>1, Zenon DEF ListInv
    <3>4. /\ n \in Nat /\ next \in [1 .. n -> 0 .. n] /\ data \in [1 .. n -> Datum]
      BY <3>3, Zenon DEF Heap
    <3>5. N \in Nat /\ s \in [1 .. N -> 1 .. n]
      BY <3>3, Zenon DEF Ring
    <3>6. Len(s) = N /\ DOMAIN s = 1 .. N
      BY <3>5, FunIsSeq
    <3>7. Len(next) = n /\ Cell = 1 .. n /\ DOMAIN data = 1 .. n
      BY <3>4, FunIsSeq DEF Cell
    <3>8. ToSet(s) = Cell
      <4>1. ToSet(s) = {s[k] : k \in 1 .. N}
        BY <3>6 DEF ToSet
      <4> QED BY <3>2, <3>5, <3>7, <4>1
    <3>9. \A d \in 1 .. n : \E c \in 1 .. n : info[c] = d
      BY <2>1, <2>3, AllData, Zenon
    <3> QED BY <3>1, <3>2, <3>6, <3>7, <3>8, <3>9
  <2> QED BY <2>2, <2>4, Zenon DEF NothingLost
<1>2. Held => NothingLost
  BY <1>1
<1> QED BY <1>2, HeldAlways, PTL

-----------------------------------------------------------------------------
(* A sort is stable.                                                        *)

LEMMA EndsOrdered ==
  ASSUME Held, Held', EndPass, at' # "split"
  PROVE  EndsInOrder
<1>1. PICK n, N, s, a, a0 : ListInv(n, N, s, a, a0)
  BY Zenon DEF Held, ListIInv
<1>2. ListInv(n, N, s, 0, 0)' /\ Finished(N, s)
  BY <1>1, EndPassStep, Zenon
<1>3. at = "split" /\ info' = info
  BY Zenon DEF EndPass
<1>4. InSort(n, N, s)
  BY <1>1, <1>3, SortFacts
<1>5. at' \in {"init", "remove", "return"}
  <2>1. m \in MergeState
    BY <1>4, Zenon DEF InSort, Sorting
  <2>2. m.then \in {"init", "remove", "return"}
    BY <2>1 DEF MergeState
  <2> QED BY <1>3, <2>2, Zenon DEF EndPass
<1>6. Heap(n)' /\ Ring(n, N, s)' /\ Phase(n, N, s, 0, 0)'
  BY <1>2, Zenon DEF ListInv
<1>7. /\ list' = s[1]
      /\ \A k \in 1 .. N - 1 : next'[s[k]] = s[k + 1]
      /\ next'[s[N]] = Null
  BY <1>5, <1>6, Zenon DEF Phase, Whole
<1>8. Chain(next', list') = s /\ Len(s) = N /\ N \in Nat /\ s \in [1 .. N -> 1 .. n]
  <2>1. /\ n \in Nat /\ next' \in [1 .. n -> 0 .. n]
    BY <1>6, Zenon DEF Heap
  <2>2. /\ N \in Nat /\ N >= 2 /\ N <= n /\ s \in [1 .. N -> 1 .. n]
        /\ \A j, k \in 1 .. N : s[j] = s[k] => j = k
    BY <1>6, Zenon DEF Ring
  <2>3. ListIn(n, next', N, s)
    BY <2>1, <2>2 DEF ListIn
  <2>4. Links(next', s, 0 + 1, N) /\ 0 \in 0 .. N /\ 0 # N /\ 0 + 1 = 1 /\ N - 0 = N
    BY <1>7, <2>2 DEF Links
  <2>5. Rest(n, next', N, s, 0, list')
    BY <1>7, <2>3, <2>4, Zenon DEF Rest
  <2>6. RestIn(next', list', s, 0, N)
    BY <2>5, RestIs, Zenon
  <2>7. Chain(next', list') = From(s, 0, N)
    BY <2>4, <2>6 DEF RestIn
  <2>8. From(s, 0, N) = s
    BY <2>1, <2>2, FromAll
  <2>9. Len(s) = N
    BY <2>2, FunIsSeq
  <2> QED BY <2>2, <2>7, <2>8, <2>9
<1>9. \A c \in 1 .. n : info[c] = c
  BY <1>3, <1>4, Zenon DEF InSort, Heap
<1>10. ASSUME NEW k \in 1 .. N - 1
       PROVE  \/ Key(m.cmp, info[s[k]], data) < Key(m.cmp, info[s[k + 1]], data)
              \/ /\ Key(m.cmp, info[s[k]], data) = Key(m.cmp, info[s[k + 1]], data)
                 /\ (CHOOSE j \in DOMAIN before : before[j] = info[s[k]])
                      < (CHOOSE j \in DOMAIN before : before[j] = info[s[k + 1]])
  <2>1. s[k] \in 1 .. n /\ s[k + 1] \in 1 .. n
    BY <1>8
  <2>2. info[s[k]] = s[k] /\ info[s[k + 1]] = s[k + 1]
    BY <1>9, <2>1
  <2>3. Lower(m.cmp, data, before, s[k], s[k + 1])
    BY <1>2, Zenon DEF Finished
  <2>4. \/ Key(m.cmp, s[k], data) < Key(m.cmp, s[k + 1], data)
        \/ /\ Key(m.cmp, s[k], data) = Key(m.cmp, s[k + 1], data)
           /\ Rank(before, s[k]) < Rank(before, s[k + 1])
    BY <2>3, Zenon DEF Lower
  <2> QED BY <2>2, <2>4, Zenon DEF Rank
<1> QED BY <1>8, <1>10, Zenon DEF EndsInOrder

(* A sort ends with the data in the order of their keys, and keeps the      *)
(* order of equal ones.                                                     *)
THEOREM SortsAreStable == ListSpec => SortIsStable
<1>1. Held /\ Held' /\ [ListNext]_listVars => [EndsInOrder]_listVars
  <2> SUFFICES ASSUME Held, Held', ListNext, at = "split", at' \notin {"split", "take"}
               PROVE  EndsInOrder
    BY Zenon DEF EndsInOrder
  <2>1. EndPass
    BY SMT DEF ListNext, Insert, IndexAndSort, Initialized, Split, Merge, Merged, Call, Find, Sort,
       RemoveItem, Crc, Undo, SortBack, Return, Ended, Returned
  <2> QED BY <2>1, EndsOrdered
<1> QED BY <1>1, HeldAlways, PTL DEF ListSpec, SortIsStable

-----------------------------------------------------------------------------
(* The benchmark leaves its data as it found them.                          *)

(* Items with different indexes have one order.                             *)
Covers(n, s) == \A c \in 1 .. n : \E k \in 1 .. n : s[k] = c

LEMMA CoversAll ==
  ASSUME NEW n, NEW s, Ring(n, n, s), n \in Nat
  PROVE  Covers(n, s)
<1>1. /\ s \in [1 .. n -> 1 .. n]
      /\ \A j, k \in 1 .. n : s[j] = s[k] => j = k
  BY Zenon DEF Ring
<1> QED BY <1>1, AllOf DEF Covers

LEMMA OneOrder ==
  ASSUME NEW n, NEW s, NEW r, Heap(n), Ring(n, n, s), Ring(n, n, r), Rising(n, s), Rising(n, r),
         DistinctIdx
  PROVE  r = s
<1>1. /\ n \in Nat /\ data \in [1 .. n -> Datum] /\ DOMAIN data = 1 .. n
  BY DEF Heap
<1>2. /\ s \in [1 .. n -> 1 .. n] /\ r \in [1 .. n -> 1 .. n]
      /\ \A j, k \in 1 .. n : s[j] = s[k] => j = k
      /\ \A j, k \in 1 .. n : r[j] = r[k] => j = k
  BY Zenon DEF Ring
<1>3. /\ \A j, k \in 1 .. n : j <= k => data[s[j]].idx <= data[s[k]].idx
      /\ \A j, k \in 1 .. n : j <= k => data[r[j]].idx <= data[r[k]].idx
  BY AscendingOn
<1>4. /\ \A c \in 1 .. n : \E k \in 1 .. n : s[k] = c
      /\ \A c \in 1 .. n : \E k \in 1 .. n : r[k] = c
  <2>1. Covers(n, s) /\ Covers(n, r)
    BY <1>1, CoversAll, Zenon
  <2> QED BY <2>1, Zenon DEF Covers
<1>5. \A c, d \in 1 .. n : data[c].idx = data[d].idx => c = d
  BY <1>1, Zenon DEF DistinctIdx
<1>6. \A c \in 1 .. n : data[c].idx \in Int
  BY <1>1, DatumIs
<1> DEFINE S == {k \in 1 .. n : r[k] # s[k]}
<1>7. S = {}
  <2> SUFFICES ASSUME S # {} PROVE FALSE
    OBVIOUS
  <2>1. PICK k \in S : \A j \in S : k <= j
    <3>1. S \subseteq Nat
      BY <1>1
    <3> HIDE DEF S
    <3> QED BY <3>1, Least
  <2>2. k \in 1 .. n /\ r[k] # s[k] /\ \A j \in 1 .. n : j < k => r[j] = s[j]
    BY <1>1, <2>1
  <2>3. PICK j \in 1 .. n : r[j] = s[k]
    BY <1>2, <1>4, <2>2
  <2>4. PICK x \in 1 .. n : s[x] = r[k]
    BY <1>2, <1>4, <2>2
  <2>5. ~ (j < k) /\ j # k
    BY <1>2, <2>2, <2>3
  <2>6. ~ (x < k) /\ x # k
    BY <1>2, <2>2, <2>4
  <2>7. k <= j /\ k <= x
    BY <1>1, <2>2, <2>5, <2>6
  <2>8. data[r[k]].idx <= data[s[k]].idx /\ data[s[k]].idx <= data[r[k]].idx
    BY <1>3, <2>2, <2>3, <2>4, <2>7
  <2>9. r[k] \in 1 .. n /\ s[k] \in 1 .. n
    BY <1>2, <2>2
  <2>10. data[r[k]].idx = data[s[k]].idx
    BY <1>6, <2>8, <2>9
  <2> QED BY <1>5, <2>2, <2>9, <2>10
<1>8. \A k \in 1 .. n : r[k] = s[k]
  BY <1>7, Zenon
<1>9. PICK D : D = 1 .. n
  OBVIOUS
<1>10. s \in [D -> D] /\ r \in [D -> D] /\ \A k \in D : r[k] = s[k]
  BY <1>2, <1>8, <1>9, Zenon
<1> QED BY <1>10

LEMMA RestoredList ==
  ASSUME NEW n, NEW N, NEW s, NEW a, NEW a0, ListInv(n, N, s, a, a0), at = "call", DistinctIdx
  PROVE  list = res.list /\ Contents(res.list) = origin.list
<1>1. /\ Heap(n) /\ Ring(n, N, s) /\ Whole(N, s) /\ Sorted(N, s) /\ Indexed(n) /\ Origin(n)
  BY Zenon DEF ListInv, Phase
<1>2. Everyone(n, N, s)
  BY AllIn, Zenon
<1>3. N = n
  BY <1>2, Zenon DEF Everyone
<1>4. res.list = 1 /\ Copied(n, data, origin.list)
  BY <1>1, Zenon DEF Origin
<1>5. PICK r \in [1 .. n -> 1 .. n] :
        /\ \A j, k \in 1 .. n : r[j] = r[k] => j = k
        /\ Ascending(data, n, r)
        /\ origin.list = Values(data, n, r)
  BY <1>4, Zenon DEF Copied
<1>6. r = s
  <2>1. Ring(n, n, s) /\ Rising(n, s) /\ Rising(n, r)
    BY <1>1, <1>3, <1>5, Zenon DEF Sorted, Rising
  <2>2. Ring(n, n, r)
    BY <1>5, <2>1, Zenon DEF Ring
  <2> QED BY <1>1, <2>1, <2>2, OneOrder, Zenon
<1>7. Contents(list) = Values(data, N, s)
  BY <1>1, ContentsIs
<1>8. list = 1
  <2>1. /\ n \in Nat /\ n >= 2 /\ data \in [1 .. n -> Datum] /\ data[1].idx = 0
    BY <1>1, Zenon DEF Heap, Indexed
  <2>2. s \in [1 .. n -> 1 .. n] /\ list = s[1]
    BY <1>1, <1>3, Zenon DEF Ring, Whole
  <2>3. 1 \in 1 .. n /\ DOMAIN data = 1 .. n
    BY <2>1
  <2>4. PICK k \in 1 .. n : s[k] = 1
    BY <1>2, <1>3, <2>3, Zenon DEF Everyone
  <2>5. data[s[1]].idx <= data[s[k]].idx
    <3>1. \A j, x \in 1 .. N : j <= x => data[s[j]].idx <= data[s[x]].idx
      BY <1>1, AscendingOn, Zenon DEF Sorted
    <3> QED BY <1>3, <2>3, <2>4, <3>1
  <2>6. s[1] \in 1 .. n /\ data[s[1]] \in Datum
    BY <2>1, <2>2, <2>3
  <2>7. data[s[1]].idx \in Int /\ 0 <= data[s[1]].idx
    BY <2>6, DatumIs
  <2>8. data[s[1]].idx = data[1].idx
    <3>1. data[s[1]].idx <= 0
      BY <2>1, <2>4, <2>5, Zenon
    <3>2. data[s[1]].idx = 0
      BY <2>7, <3>1
    <3> QED BY <2>1, <3>2, Zenon
  <2> QED BY <2>2, <2>3, <2>6, <2>8, Zenon DEF DistinctIdx
<1> QED BY <1>3, <1>4, <1>5, <1>6, <1>7, <1>8

(* Between two calls the list is in its first order, as long as no two of   *)
(* its items share an index, and the blocks of the other kernels are as     *)
(* they were.                                                               *)
THEOREM IsRestored == ListSpec => []Restored
<1>1. ASSUME Held PROVE Restored
  <2> SUFFICES ASSUME at = "call"
               PROVE  /\ DistinctIdx => list = res.list /\ Contents(res.list) = origin.list
                      /\ mat.A = origin.A
                      /\ Undoable => mem = origin.mem
    BY Zenon DEF Restored
  <2>1. PICK n, N, s, a, a0 : ListInv(n, N, s, a, a0)
    BY <1>1, Zenon DEF Held, ListIInv
  <2>2. Origin(n) /\ Kernels
    BY <2>1, Zenon DEF ListInv, Phase
  <2>3. origin.mem = Text0 /\ origin.A = mat.A
    BY <2>2, Zenon DEF Origin
  <2>4. input \in Inputs /\ (Undoes => mem = Text0)
    BY <2>2, Zenon DEF Kernels
  <2>5. DOMAIN Text0 = 1 .. input.size
    <3>1. input.size \in Nat /\ input.seed1 \in Int
      BY <2>4, InputsAssumption
    <3>2. Text0 \in [1 .. input.size -> Byte]
      BY <3>1, InitStateType DEF Text0
    <3> QED BY <3>2
  <2>6. Undoable => Undoes
    BY <2>3, <2>5, Zenon DEF Undoable, Undoes
  <2> QED BY <2>1, <2>3, <2>4, <2>6, RestoredList
<1>2. Held => Restored
  BY <1>1
<1> QED BY <1>2, HeldAlways, PTL

=============================================================================
