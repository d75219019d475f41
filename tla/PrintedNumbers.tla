--------------------------- MODULE PrintedNumbers ---------------------------
(***************************************************************************)
(* Calls of ee_printf with one number, as main makes them for its report,  *)
(* and with the flags, widths and precisions the function accepts besides. *)
(***************************************************************************)
EXTENDS EePrintf, FiniteSets

CONSTANTS
  Numbers,     \* what is printed with %d, %u, %x and %o
  Decimals,    \* what is printed with %f
  Widths,      \* field widths, as texts; <<>> for none
  Precisions   \* precisions of %f, -1 for none

VARIABLE printed   \* the last call: directive, argument and text

printedVars == <<printed>>

Idle == [conv |-> "none", flags |-> <<>>, width |-> <<>>, precision |-> -1, arg |-> 0, text |-> <<>>]

PrintedInit == printed = Idle

Format(flags, width, precision, conv) ==
  <<"%">> \o flags \o width \o (IF precision = -1 THEN <<>> ELSE <<".", Decimal[precision + 1]>>) \o <<conv>>

ee_printf(flags, width, precision, conv, arg) ==
  /\ printed.conv = "none"
  /\ printed' = [conv |-> conv, flags |-> flags, width |-> width, precision |-> precision,
                 arg |-> arg,
                 text |-> ee_vsprintf(Format(flags, width, precision, conv), <<arg>>)]

PrintInteger(n) ==
  \E conv \in {"d", "u", "x", "X", "o"}, width \in Widths,
     flags \in {<<>>, <<"0">>, <<"-">>, <<"+">>, <<"#">>, <<"#", "0">>, <<"-", "+">>} :
    /\ conv # "d" => n >= 0
    /\ ee_printf(flags, width, -1, conv, n)

PrintDecimal(v) ==
  \E precision \in Precisions, width \in Widths, flags \in {<<>>, <<"0">>, <<"-">>} :
    ee_printf(flags, width, precision, "f", [value |-> v, negative |-> FALSE])

(* The buffer has gone out, character by character, and ee_printf returns.  *)
Sent == printed.conv # "none" /\ printed' = Idle

PrintedNext ==
  \/ Sent
  \/ \E n \in Numbers : PrintInteger(n)
  \/ \E v \in Decimals : PrintDecimal(v)

PrintedSpec == PrintedInit /\ [][PrintedNext]_printedVars

-----------------------------------------------------------------------------
(* Properties.                                                              *)

Base == [c \in {"d", "u", "x", "X", "o"} |-> CASE c \in {"d", "u"} -> 10 [] c = "o" -> 8 [] OTHER -> 16]

(* A reader that knows nothing of fields: blanks are skipped, a sign and a  *)
(* prefix are read over.                                                    *)
ValueOf(chars, base) ==
  FoldLeft(LAMBDA total, c : IF c \in ToSet(HexDigits) THEN total * base + DigitValue(c, HexDigits)
                             ELSE IF c \in ToSet(Upper) THEN total * base + DigitValue(c, Upper)
                             ELSE total, 0, chars)

Negative(chars) == \E k \in DOMAIN chars : chars[k] = "-"

WidthOf(width) == IF width = <<>> THEN 0 ELSE Digits(width, 1, Decimal).value

(* The text of a number, whatever the flags, is at least as wide as asked   *)
(* for, has its blanks on the side the flags say, and stands for the number *)
(* (ee_printf.c:121-182, 404-557).                                          *)
IntegersReadBack ==
  printed.conv \in DOMAIN Base =>
    LET text == printed.text
        size == IF printed.arg < 0 THEN -printed.arg ELSE printed.arg
    IN  /\ ValueOf(text, Base[printed.conv]) = size
        /\ Negative(text) <=> printed.arg < 0
        /\ Len(text) >= WidthOf(printed.width)
        /\ text[1] # " " \/ text[Len(text)] # " "
        /\ (\E k \in DOMAIN text : text[k] = " ") =>
             /\ Len(text) = WidthOf(printed.width)
             /\ IF "-" \in ToSet(printed.flags) THEN text[1] # " " ELSE text[Len(text)] # " "

Places == IF printed.precision = -1 THEN 6 ELSE printed.precision

(* The text of a fraction has as many places as asked for and is the        *)
(* nearest such number, the greater of two, also when the rounding carries  *)
(* through nines into a new first digit (cvt.c:27-108).                     *)
DecimalsRounded ==
  printed.conv = "f" =>
    LET v == printed.arg.value
        text == SelectSeq(printed.text, LAMBDA c : c # " ")
        points == {k \in DOMAIN text : text[k] = "."}
        places == IF Places > 3 THEN 3 ELSE Places
        kept == SubSeq(text, 1, Len(text) - (Places - places))
    IN  /\ Cardinality(points) = (IF Places = 0 THEN 0 ELSE 1)
        /\ \A k \in points : Len(text) - k = Places
        /\ ValueOf(kept, 10) = (2 * v.digits * 10 ^ places + 10 ^ v.scale) \div (2 * 10 ^ v.scale)
        /\ Len(printed.text) >= WidthOf(printed.width)

(* Both: what main reports can be read back.                                *)
NumbersPrinted == IntegersReadBack /\ DecimalsRounded
=============================================================================
