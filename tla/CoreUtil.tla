------------------------------ MODULE CoreUtil ------------------------------
(***************************************************************************)
(* The service functions of core_util.c: the 16-bit CRC every kernel folds *)
(* its results into, and the reading of a number from an argument.         *)
(***************************************************************************)
EXTENDS Integers, Sequences, SequencesExt

EE_U8_MAX == 255
EE_U16_MAX == 65535
EE_S16_MAX == 32767
Byte == 0 .. EE_U8_MAX
Half == 0 .. EE_U16_MAX
SignedHalf == -EE_S16_MAX - 1 .. EE_S16_MAX
U16(x) == x % 65536

(* step[n][... step[2][step[1][x]]]: a loop that runs n times.              *)
Loop(n, step, x) ==
  LET after[k \in 0 .. n] == IF k = 0 THEN x ELSE step[k][after[k - 1]]
  IN  after[n]

(* The bit of weight w, and exclusive and inclusive or, of bytes and of     *)
(* halves, whatever lies above them.                                        *)
BitAt(x, w) == (x \div w) % 2

Xor8(x, y) ==
  LET bit(w) == IF BitAt(x, w) = BitAt(y, w) THEN 0 ELSE w
  IN  bit(1) + bit(2) + bit(4) + bit(8) + bit(16) + bit(32) + bit(64) + bit(128)

Or8(x, y) ==
  LET bit(w) == IF BitAt(x, w) = 0 /\ BitAt(y, w) = 0 THEN 0 ELSE w
  IN  bit(1) + bit(2) + bit(4) + bit(8) + bit(16) + bit(32) + bit(64) + bit(128)

Xor16(x, y) == Xor8(x \div 256, y \div 256) * 256 + Xor8(x, y)

Flip(x, w) == IF BitAt(x, w) = 1 THEN x - w ELSE x + w

(* One round of the loop of crcu8: crc ^ 0x4002 flips two bits, and the     *)
(* carry comes in at the top.                                               *)
CrcRound(crc, bit) ==
  IF bit # crc % 2 THEN Flip(Flip(crc, 2), 16384) \div 2 + 32768 ELSE crc \div 2

crcu8(data, crc) ==
  Loop(8, [k \in 1 .. 8 |-> [c \in Half |-> CrcRound(c, BitAt(data, 2 ^ (k - 1)))]], crc)

crcu16(newval, crc) == crcu8(newval \div 256, crcu8(newval % 256, crc))

(* newval is the bit pattern of the ee_s16.                                 *)
crc16(newval, crc) == crcu16(newval, crc)

crcu32(newval, crc) == crc16(newval \div 65536, crc16(U16(newval), crc))

-----------------------------------------------------------------------------
(* parseval.  A string is a sequence of characters, and ends where the code *)
(* finds its 0.                                                             *)
CharAt(s, k) == IF k <= Len(s) THEN s[k] ELSE "0 byte"

Decimal == <<"0", "1", "2", "3", "4", "5", "6", "7", "8", "9">>
HexDigits == Decimal \o <<"a", "b", "c", "d", "e", "f">>

DigitValue(c, digits) == (CHOOSE k \in DOMAIN digits : digits[k] = c) - 1

(* The digits from position first on, and the first character after them;   *)
(* there are no more than the string has characters.                        *)
Digits(s, first, digits) ==
  LET Read == [k \in 1 .. Len(s) |-> [r \in [value : Nat, place : Nat] |->
        LET c == CharAt(s, r.place)
        IN  IF c \in ToSet(digits)
            THEN [value |-> r.value * Len(digits) + DigitValue(c, digits), place |-> r.place + 1]
            ELSE r]]
      end == Loop(Len(s), Read, [value |-> 0, place |-> first])
  IN  [value |-> end.value, next |-> CharAt(s, end.place)]

Qualifier(c) == CASE c = "K" -> 1024 [] c = "M" -> 1024 * 1024 [] OTHER -> 1

parseval(s) ==
  LET neg == CharAt(s, 1) = "-"
      k == IF neg THEN 2 ELSE 1
      hex == CharAt(s, k) = "0" /\ CharAt(s, k + 1) = "x"
      d == IF hex THEN Digits(s, k + 2, HexDigits) ELSE Digits(s, k, Decimal)
  IN  (IF neg THEN -1 ELSE 1) * d.value * Qualifier(d.next)

(* A missing argument is 0.                                                 *)
get_seed_args(i, argv) == IF i <= Len(argv) THEN parseval(argv[i]) ELSE 0
=============================================================================
