----------------------------- MODULE CoreState -----------------------------
(***************************************************************************)
(* core_state.c: an automaton that tells integers, decimals and scientific *)
(* numbers apart in a block of comma-separated text, run over the text, a  *)
(* corrupted copy made in place, and once more after the corruption.       *)
(* A byte is its code, since the corruption is an exclusive or; a block is *)
(* a sequence of bytes, 1 for the first.                                   *)
(***************************************************************************)
EXTENDS CoreUtil

Code(c) ==
  CASE c = "." -> 46 [] c = "+" -> 43 [] c = "-" -> 45 [] c = "e" -> 101 [] c = "E" -> 69
    [] c = "T" -> 84 [] c = "F" -> 70 [] c = "q" -> 113 [] c = "z" -> 122 [] c = "^" -> 94
    [] OTHER -> 48 + DigitValue(c, Decimal)

Comma == 44

Text(s) == [k \in DOMAIN s |-> Code(s[k])]

intpat == <<Text(<<"5","0","1","2">>), Text(<<"1","2","3","4">>),
            Text(<<"-","8","7","4">>), Text(<<"+","1","2","2">>)>>
floatpat == <<Text(<<"3","5",".","5","4","4","0","0">>), Text(<<".","1","2","3","4","5","0","0">>),
              Text(<<"-","1","1","0",".","7","0","0">>), Text(<<"+","0",".","6","4","4","0","0">>)>>
scipat == <<Text(<<"5",".","5","0","0","e","+","3">>), Text(<<"-",".","1","2","3","e","-","2">>),
            Text(<<"-","8","7","e","+","8","3","2">>), Text(<<"+","0",".","6","e","-","1","2">>)>>
errpat == <<Text(<<"T","0",".","3","e","-","1","F">>), Text(<<"-","T",".","T","+","+","T","q">>),
            Text(<<"1","T","3",".","4","e","4","z">>), Text(<<"3","4",".","0","e","-","T","^">>)>>

Pattern(seed) ==
  LET k == ((seed \div 8) % 4) + 1
  IN  CASE seed % 8 <= 2 -> intpat[k]
        [] seed % 8 \in {3, 4} -> floatpat[k]
        [] seed % 8 \in {5, 6} -> scipat[k]
        [] seed % 8 = 7 -> errpat[k]

(* The patterns are written while the next one still fits in size - 1 bytes *)
(* (with its comma it takes 5 at least, which bounds the loop); the last    *)
(* one chosen is not written, and zeros fill the rest.                      *)
Written(size, seed) ==
  LET times == (size \div 5) + 1
      Fill == [k \in 1 .. times |-> [s \in [text : Seq(Byte), chosen : Seq(Byte)] |->
                 IF Len(s.text) + Len(s.chosen) + 1 >= size - 1 THEN s
                 ELSE [text |-> IF s.chosen = <<>> THEN <<>> ELSE s.text \o Append(s.chosen, Comma),
                       chosen |-> Pattern(U16(seed + k))]]]
  IN  Loop(times, Fill, [text |-> <<>>, chosen |-> <<>>]).text

core_init_state(size, seed) ==
  LET text == Written(size, seed)
  IN  [k \in 1 .. size |-> IF k <= Len(text) THEN text[k] ELSE 0]

-----------------------------------------------------------------------------
(* The automaton.                                                           *)

States == <<"START", "INVALID", "S1", "S2", "INT", "FLOAT", "EXPONENT", "SCIENTIFIC">>
StateSet == ToSet(States)

Digit == 48 .. 57
Sign == {43, 45}
Dot == {46}
Exp == {69, 101}

(* Where a character leads, by state; whatever is not listed is invalid.    *)
Arcs ==
  {<<"START", Digit, "INT">>, <<"START", Sign, "S1">>, <<"START", Dot, "FLOAT">>,
   <<"S1", Digit, "INT">>, <<"S1", Dot, "FLOAT">>,
   <<"INT", Digit, "INT">>, <<"INT", Dot, "FLOAT">>,
   <<"FLOAT", Digit, "FLOAT">>, <<"FLOAT", Exp, "S2">>,
   <<"S2", Sign, "EXPONENT">>,
   <<"EXPONENT", Digit, "SCIENTIFIC">>, <<"SCIENTIFIC", Digit, "SCIENTIFIC">>}

NextState(state, c) ==
  IF \E a \in Arcs : a[1] = state /\ c \in a[2]
  THEN (CHOOSE a \in Arcs : a[1] = state /\ c \in a[2])[3]
  ELSE "INVALID"

(* The transition_counts a change of state increments: the state it leaves, *)
(* except that a bad first character counts twice and a bad character in an *)
(* exponent's digits counts as INVALID.                                     *)
Counted(state, next) ==
  CASE state = "START" -> {"START"} \union (IF next = "INVALID" THEN {"INVALID"} ELSE {})
    [] state = "SCIENTIFIC" -> IF next = "INVALID" THEN {"INVALID"} ELSE {}
    [] state = next -> {}
    [] OTHER -> {state}

NoCounts == [s \in StateSet |-> 0]
Tally(counts, T) == [s \in StateSet |-> IF s \in T THEN counts[s] + 1 ELSE counts[s]]

(* One token from position p on: the state it ends in, the position after   *)
(* it and the transitions counted.  Past the block there is no byte.        *)
ByteAt(mem, p) == IF p \in DOMAIN mem THEN mem[p] ELSE -1

core_state_transition(mem, p, counts) ==
  LET Scan[q \in Nat, state \in StateSet, n \in [StateSet -> Nat]] ==
        IF ByteAt(mem, q) \in {0, -1} \/ state = "INVALID"
          THEN [state |-> state, p |-> q, counts |-> n]
        ELSE IF mem[q] = Comma
          THEN [state |-> state, p |-> q + 1, counts |-> n]
        ELSE LET next == NextState(state, mem[q])
             IN  Scan[q + 1, next, Tally(n, Counted(state, next))]
  IN  Scan[p, "START", counts]

-----------------------------------------------------------------------------
(* The benchmark.                                                           *)

(* The tokens of the block, up to its 0.                                    *)
Tokens(mem, final, track) ==
  LET From[p \in Nat, f \in [StateSet -> Nat], t \in [StateSet -> Nat]] ==
        IF ByteAt(mem, p) \in {0, -1} THEN [p |-> p, final |-> f, track |-> t]
        ELSE LET token == core_state_transition(mem, p, t)
             IN  From[token.p, Tally(f, {token.state}), token.counts]
  IN  From[1, final, track]

Corrupt(mem, blksize, step, seed) ==
  [k \in DOMAIN mem |->
     IF k <= blksize /\ (k - 1) % step = 0 /\ mem[k] # Comma
     THEN Xor8(mem[k], seed) ELSE mem[k]]

(* The counts fit in 16 bits, so that the upper halves folded are zero.     *)
FoldCounts(final, track, crc) ==
  LET Fold == [k \in DOMAIN States |-> [c \in Half |->
                 crcu32(track[States[k]], crcu32(final[States[k]], c))]]
  IN  Loop(Len(States), Fold, crc)

(* The block as it is left, and the CRC.                                    *)
core_bench_state(blksize, mem, seed1, seed2, step, crc) ==
  LET first == Tokens(mem, NoCounts, NoCounts)
      bad == Corrupt(mem, blksize, step, seed1)
      second == Tokens(bad, first.final, first.track)
  IN  [mem |-> Corrupt(bad, blksize, step, seed2),
       crc |-> FoldCounts(second.final, second.track, crc)]
=============================================================================
