------------------------------ MODULE EePrintf ------------------------------
(***************************************************************************)
(* ee_printf.c and cvt.c of the barebones port: what a format and its      *)
(* arguments are turned into.  A string is a sequence of characters; flags *)
(* are a set of the code's names for them; a double is its exact decimal   *)
(* value, [digits, scale] for digits / 10^scale, and is not negative where *)
(* it is converted.                                                        *)
(***************************************************************************)
EXTENDS CoreUtil

Lower == HexDigits
Upper == Decimal \o <<"A", "B", "C", "D", "E", "F">>
DigitsFor(type) == IF "UPPERCASE" \in type THEN Upper ELSE Lower

Times(c, n) == [k \in 1 .. n |-> c]
Larger(a, b) == IF a > b THEN a ELSE b

Numeral(n, base, digits) ==
  LET From[x \in Nat] ==
        Append(IF x < base THEN <<>> ELSE From[x \div base], digits[(x % base) + 1])
  IN  From[n]

(* sign, prefix and body in a field of size characters: blanks in front, or *)
(* zeros behind the prefix, or blanks at the end.                           *)
Field(sign, prefix, body, size, type) ==
  LET room == size - Len(sign) - Len(prefix) - Len(body)
  IN  CASE "LEFT" \in type -> sign \o prefix \o body \o Times(" ", room)
        [] "LEFT" \notin type /\ "ZEROPAD" \in type -> sign \o prefix \o Times("0", room) \o body
        [] OTHER -> Times(" ", room) \o sign \o prefix \o body

SignOf(negative, type) ==
  CASE "SIGN" \notin type -> <<>>
    [] "SIGN" \in type /\ negative -> <<"-">>
    [] OTHER -> IF "PLUS" \in type THEN <<"+">> ELSE IF "SPACE" \in type THEN <<" ">> ELSE <<>>

(* The x of the prefix is digits[33], in lower case whatever the flags say. *)
number(num, base, size, precision, type) ==
  LET tmp == Numeral(IF num < 0 THEN -num ELSE num, base, DigitsFor(type))
      prefix == CASE "HEX_PREP" \in type /\ base = 16 -> <<"0", "x">>
                  [] "HEX_PREP" \in type /\ base = 8 -> <<"0">>
                  [] OTHER -> <<>>
  IN  Field(SignOf(num < 0, type), prefix, Times("0", precision - Len(tmp)) \o tmp, size, type)

(* Six bytes in hexadecimal; four in decimal.                               *)
Joined(parts, sep) ==
  LET Upto[k \in 1 .. Len(parts)] == IF k = 1 THEN parts[1] ELSE Upto[k - 1] \o <<sep>> \o parts[k]
  IN  Upto[Len(parts)]

eaddr(addr, size, type) ==
  Field(<<>>, <<>>,
        Joined([k \in 1 .. 6 |-> <<DigitsFor(type)[(addr[k] \div 16) + 1], DigitsFor(type)[(addr[k] % 16) + 1]>>], ":"),
        size, type \ {"ZEROPAD"})

iaddr(addr, size, type) ==
  Field(<<>>, <<>>, Joined([k \in 1 .. 4 |-> Numeral(addr[k], 10, Decimal)], "."),
        size, type \ {"ZEROPAD"})

-----------------------------------------------------------------------------
(* fcvtbuf: the digits of a number up to ndigits behind its point, and how  *)
(* many of them stand before it.                                            *)

(* The k-th digit of the fraction.                                          *)
FractionDigit(v, k) ==
  IF k > v.scale THEN 0 ELSE (v.digits \div 10 ^ (v.scale - k)) % 10

(* Zeros a fraction with nothing in front of it begins with.                *)
LeadingZeros(v) ==
  CHOOSE n \in 0 .. v.scale : (\A k \in 1 .. n : FractionDigit(v, k) = 0) /\ FractionDigit(v, n + 1) # 0

(* Mutant: rounded towards zero.                                            *)
Rounded_Down(s) == [digits |-> SubSeq(s, 1, Len(s) - 1), more |-> 0]

(* s counts as a decimal number: 5 is added to its last digit, which is then*)
(* dropped.  A carry out of the first digit leaves a 1 there and makes the  *)
(* number one digit longer.                                                 *)
Rounded(s) ==
  LET carry == {k \in 1 .. Len(s) - 1 : \A j \in k + 1 .. Len(s) - 1 : s[j] = 9}
      up(k) == s[Len(s)] >= 5 /\ k \in carry
      out == \A k \in 1 .. Len(s) - 1 : s[k] = 9
      digits == [k \in 1 .. Len(s) - 1 |-> IF up(k) THEN (s[k] + 1) % 10 ELSE s[k]]
  IN  IF s[Len(s)] >= 5 /\ out THEN [digits |-> <<1>> \o digits, more |-> 1]
      ELSE [digits |-> digits, more |-> 0]

fcvtbuf(v, ndigits) ==
  LET fi == v.digits \div 10 ^ v.scale
      whole == IF fi = 0 THEN <<>>
               ELSE [k \in DOMAIN Numeral(fi, 10, Decimal) |-> DigitValue(Numeral(fi, 10, Decimal)[k], Decimal)]
      r2 == IF fi # 0 THEN Len(whole)
            ELSE IF v.digits = 0 THEN 0 ELSE -LeadingZeros(v)
      p1 == ndigits + r2
      skipped == IF fi = 0 THEN -r2 ELSE 0
      buf == whole \o [k \in 1 .. p1 + 1 - Len(whole) |-> FractionDigit(v, k + skipped)]
  IN  IF p1 < 0 THEN [digits |-> <<>>, decpt |-> r2]
      ELSE [digits |-> Rounded(buf).digits, decpt |-> r2 + Rounded(buf).more]

(* The format f: the digits with the point among them, or zeros in front.   *)
Pointed(d, precision) ==
  LET text == [k \in DOMAIN d.digits |-> Decimal[d.digits[k] + 1]]
  IN  CASE text = <<>> -> IF precision > 0 THEN <<"0", ".">> \o Times("0", precision) ELSE <<"0">>
        [] text # <<>> /\ d.decpt <= 0 -> <<"0", ".">> \o Times("0", -d.decpt) \o text
        [] OTHER -> IF Len(text) <= d.decpt THEN text
                    ELSE SubSeq(text, 1, d.decpt) \o <<".">> \o SubSeq(text, d.decpt + 1, Len(text))

parse_float(v, precision) == Pointed(fcvtbuf(v, precision), precision)

decimal_point(text, places, flags) ==
  IF "HEX_PREP" \in flags /\ places = 0 THEN Append(text, ".") ELSE text

flt(v, negative, size, precision, flags) ==
  LET places == IF precision < 0 THEN 6 ELSE precision
      body == decimal_point(parse_float(v, places), places, flags)
  IN  Field(SignOf(negative, flags), <<>>, body, size, flags)

-----------------------------------------------------------------------------
(* ee_vsprintf.                                                             *)

FlagOf(c) ==
  CASE c = "-" -> "LEFT" [] c = "+" -> "PLUS" [] c = " " -> "SPACE"
    [] c = "#" -> "HEX_PREP" [] c = "0" -> "ZEROPAD" [] OTHER -> "none"

IsDigit(c) == c \in ToSet(Decimal)

(* A number in the format from position k on, or that of the next argument  *)
(* at a star, or none: its value, and where it and the arguments go on.     *)
skip_atoi(fmt, k) ==
  LET To[j \in Nat] == IF IsDigit(CharAt(fmt, j)) THEN To[j + 1] ELSE j
  IN  To[k]

Count(fmt, k, args, none) ==
  CASE IsDigit(CharAt(fmt, k)) ->
         [value |-> Digits(fmt, k, Decimal).value, k |-> skip_atoi(fmt, k), args |-> args]
    [] CharAt(fmt, k) = "*" -> [value |-> Head(args), k |-> k + 1, args |-> Tail(args)]
    [] OTHER -> [value |-> none, k |-> k, args |-> args]

(* The specification behind the percent sign at k - 1.                      *)
Directive(fmt, first, args) ==
  LET From[k \in Nat] == IF FlagOf(CharAt(fmt, k)) = "none" THEN k ELSE From[k + 1]
      k1 == From[first]
      flags == {FlagOf(fmt[k]) : k \in first .. k1 - 1}
      width == Count(fmt, k1, args, -1)
      dot == CharAt(fmt, width.k) = "."
      prec == IF dot THEN Count(fmt, width.k + 1, width.args, 0)
              ELSE [value |-> -1, k |-> width.k, args |-> width.args]
      long == CharAt(fmt, prec.k) \in {"l", "L"}
      left == CharAt(fmt, k1) = "*" /\ width.value < 0
  IN  [flags |-> IF left THEN flags \union {"LEFT"} ELSE flags,
       width |-> IF left THEN -width.value ELSE width.value,
       precision |-> IF dot THEN Larger(prec.value, 0) ELSE -1,
       qualifier |-> IF long THEN CharAt(fmt, prec.k) ELSE "none",
       k |-> IF long THEN prec.k + 1 ELSE prec.k,
       args |-> prec.args]

(* What conversion c makes of an argument.  A null pointer is "<NULL>".     *)
Converted(c, d, arg) ==
  CASE c = "c" -> Field(<<>>, <<>>, <<arg>>, d.width, d.flags \ {"ZEROPAD"})
    [] c = "s" -> Field(<<>>, <<>>,
                        IF d.precision >= 0 /\ d.precision < Len(arg) THEN SubSeq(arg, 1, d.precision) ELSE arg,
                        d.width, d.flags \ {"ZEROPAD"})
    [] c = "p" -> IF d.width = -1 THEN number(arg, 16, 8, d.precision, d.flags \union {"ZEROPAD"})
                  ELSE number(arg, 16, d.width, d.precision, d.flags)
    [] c \in {"A", "a"} ->
         LET flags == IF c = "A" THEN d.flags \union {"UPPERCASE"} ELSE d.flags
         IN  IF d.qualifier = "l" THEN eaddr(arg, d.width, flags) ELSE iaddr(arg, d.width, flags)
    [] c = "o" -> number(arg, 8, d.width, d.precision, d.flags)
    [] c = "x" -> number(arg, 16, d.width, d.precision, d.flags)
    [] c = "X" -> number(arg, 16, d.width, d.precision, d.flags \union {"UPPERCASE"})
    [] c \in {"d", "i"} -> number(arg, 10, d.width, d.precision, d.flags \union {"SIGN"})
    [] c = "u" -> number(arg, 10, d.width, d.precision, d.flags)
    [] c = "f" -> flt(arg.value, arg.negative, d.width, d.precision, d.flags \union {"SIGN"})

Conversions == {"c", "s", "p", "A", "a", "o", "x", "X", "d", "i", "u", "f"}

ee_vsprintf(fmt, args) ==
  LET Rest(n) == SubSeq(args, n + 1, Len(args))
      From[k \in Nat, n \in Nat, out \in Seq(STRING)] ==
        LET d == Directive(fmt, k + 1, Rest(n))
            c == CharAt(fmt, d.k)
            taken == Len(args) - Len(d.args)
        IN  IF k > Len(fmt) THEN out
            ELSE IF fmt[k] # "%" THEN From[k + 1, n, Append(out, fmt[k])]
            ELSE IF c \in Conversions
                 THEN From[d.k + 1, taken + 1, out \o Converted(c, d, Head(d.args))]
            ELSE From[d.k + 1, taken,
                      out \o (IF c = "%" THEN <<>> ELSE <<"%">>)
                          \o (IF d.k <= Len(fmt) THEN <<c>> ELSE <<>>)]
  IN  From[1, 0, <<>>]
=============================================================================
