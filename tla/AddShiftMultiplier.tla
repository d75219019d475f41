------------------------- MODULE AddShiftMultiplier -------------------------
(***************************************************************************)
(* mp1/multiplier/hdl/add_shift_multiplier.sv: a product in width_p rounds *)
(* of an addition and a shift, started and reset by its user at any edge.  *)
(***************************************************************************)
EXTENDS Integers

CONSTANT width_p

ASSUME MultiplierAssumption == width_p \in Nat \ {0}

VARIABLES
  ms,       \* the registers, mstate_s
  accepted  \* history: the operands of the last accepted start

multiplierVars == <<ms, accepted>>

Operand == 0 .. 2 ^ width_p - 1

mstate_s ==
  [ready : BOOLEAN, done : BOOLEAN, iteration : 0 .. width_p,
   op : {"NONE", "ADD", "SHIFT", "DONE"},
   M : Operand, C : {0, 1}, A : Operand, Q : Operand]

ms_reset ==
  [ready |-> TRUE, done |-> FALSE, iteration |-> 0, op |-> "NONE", M |-> 0, C |-> 0, A |-> 0, Q |-> 0]

ms_init(multiplicand, multiplier) ==
  [ready |-> FALSE, done |-> FALSE, iteration |-> 0, op |-> "ADD",
   M |-> multiplicand, C |-> 0, A |-> 0, Q |-> multiplier]

(* The sum has a ninth bit, C.  Mutant: it has not.                         *)
CarryOut_Lost(cur) == 0
CarryOut(cur) == (cur.A + cur.M) \div 2 ^ width_p

ms_add(cur) ==
  IF cur.Q % 2 = 1
  THEN [cur EXCEPT !.op = "SHIFT", !.C = CarryOut(cur),
                   !.A = (cur.A + cur.M) % 2 ^ width_p]
  ELSE [cur EXCEPT !.op = "SHIFT", !.C = 0]

(* C, A and Q move one bit to the right; C itself stays.                    *)
ms_shift(cur) ==
  LET last == cur.iteration + 1 = width_p
  IN  [cur EXCEPT !.A = (cur.C * 2 ^ width_p + cur.A) \div 2,
                  !.Q = (cur.A % 2) * 2 ^ (width_p - 1) + cur.Q \div 2,
                  !.iteration = cur.iteration + 1,
                  !.op = IF last THEN "DONE" ELSE "ADD",
                  !.done = last \/ cur.done,
                  !.ready = last \/ cur.ready]

product_o == ms.A * 2 ^ width_p + ms.Q

-----------------------------------------------------------------------------
MultiplierInit == ms = ms_reset /\ accepted = <<0, 0>>

(* reset_n_i is low at the edge.                                            *)
MultiplierReset == ms' = ms_reset /\ UNCHANGED accepted

(* start_i & ready_o.                                                       *)
Start(multiplicand, multiplier) ==
  /\ ms.ready
  /\ ms' = ms_init(multiplicand, multiplier)
  /\ accepted' = <<multiplicand, multiplier>>

(* Any other edge of a running multiplication, whatever start_i is.         *)
Round ==
  /\ \/ ms.op = "ADD" /\ ms' = ms_add(ms)
     \/ ms.op = "SHIFT" /\ ms' = ms_shift(ms)
  /\ ~ms.ready
  /\ UNCHANGED accepted

MultiplierNext ==
  MultiplierReset \/ Round \/ \E a, b \in Operand : Start(a, b)

MultiplierSpec == MultiplierInit /\ [][MultiplierNext]_multiplierVars

(* The clock keeps running.                                                 *)
MultiplierFairness == WF_multiplierVars(Round)

-----------------------------------------------------------------------------
(* Properties.                                                              *)

MultiplierTypeOK == ms \in mstate_s /\ accepted \in Operand \X Operand

Partial == (ms.C * 2 ^ width_p + ms.A) * 2 ^ width_p + ms.Q

PartialProduct ==
  LET a == accepted[1]
      b == accepted[2]
      n == ms.iteration
      seen == b % 2 ^ n
      rest == b \div 2 ^ n
      unit == 2 ^ (width_p - n)
  IN  /\ ms.op = "ADD" => ms.A * 2 ^ width_p + ms.Q = a * seen * unit + rest
      /\ ms.op = "SHIFT" => Partial = a * (seen + (rest % 2) * 2 ^ n) * unit + rest
      /\ ms.done => product_o = a * b

(* What A and Q hold after a number of rounds: the product of the           *)
(* multiplicand and the bits of the multiplier that were shifted out,       *)
(* above the bits that were not, the carry of an addition included.  When   *)
(* done_o is raised this is the product, for every pair of operands and     *)
(* whatever was interrupted before (add_shift_multiplier.sv:63-83).         *)
MultiplierInv == MultiplierTypeOK /\ PartialProduct

(* The user sees ready again and again: after a start the multiplier is     *)
(* done or reset, never in a round that does not end.                       *)
ReadyAgain == []<>ms.ready
=============================================================================
