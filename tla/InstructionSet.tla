--------------------------- MODULE InstructionSet ---------------------------
(***************************************************************************)
(* The instructions of control_word.sv, one for each way a value can reach *)
(* a register or the PC: "imm" stands for the op_imm and "reg" for the     *)
(* op_reg arithmetic, "slt" for the comparisons, "br" for the branches,    *)
(* "lb" for the loads that take a part of the word and "lw" for the one    *)
(* that takes all of it; "none" is a word that is no instruction.  The     *)
(* CSR instructions are left out.                                          *)
(*                                                                         *)
(* Words, addresses and the PC are numbers modulo Size; an address names a *)
(* word, an instruction is one word.                                       *)
(***************************************************************************)
EXTENDS Integers

CONSTANTS
  Size,      \* number of words, and of addresses
  Regs,      \* register names, 0 among them
  Narrow     \* the part of a word a narrow load takes

Word == 0 .. Size - 1

Loads == {"lw", "lb"}
Writers == {"imm", "reg", "slt", "lui", "auipc", "jal", "jalr"} \union Loads
Ops == Writers \union {"br", "sw", "none"}

(* Every format has bits where another has rs1, rs2 or rd: an instruction   *)
(* that does not use a register still names one.                            *)
Instruction == [op : Ops, rd : Regs, rs1 : Regs, rs2 : Regs, imm : Word]

ASSUME InstructionAssumption ==
  /\ Size \in Nat \ {0, 1}
  /\ 0 \in Regs
  /\ Narrow \in [Word -> Word]

UsesRs1(ins) == ins.op \in {"imm", "reg", "slt", "jalr", "br", "sw"} \union Loads
UsesRs2(ins) == ins.op \in {"reg", "slt", "br", "sw"}

Plus(a, b) == (a + b) % Size
NextPC(a) == Plus(a, 1)

(* The ALU, for the instruction at address p with a in rs1 and b in rs2.    *)
Alu(ins, p, a, b) ==
  CASE ins.op = "reg"                                -> Plus(a, b)
    [] ins.op \in {"auipc", "jal", "br"}             -> Plus(p, ins.imm)
    [] ins.op \in {"imm", "jalr", "sw"} \union Loads -> Plus(a, ins.imm)
    [] ins.op \in {"slt", "lui", "none"}             -> 0

(* The comparator.                                                          *)
Compare(ins, a, b) ==
  CASE ins.op = "slt" -> IF a < b THEN 1 ELSE 0
    [] ins.op = "br"  -> IF a = b THEN 1 ELSE 0
    [] OTHER          -> 0

Jumps(ins, br_en) == ins.op \in {"jal", "jalr"} \/ (ins.op = "br" /\ br_en = 1)

(* The part of a word in memory that a load is after.                       *)
Extend(ins, word) == IF ins.op = "lb" THEN Narrow[word] ELSE word

(* regfilemux, fed by the ALU, the comparator and the memory.               *)
RegfileMux(ins, p, alu_out, br_en, rdata) ==
  CASE ins.op = "slt"             -> br_en
    [] ins.op = "lui"             -> ins.imm
    [] ins.op \in {"jal", "jalr"} -> NextPC(p)
    [] ins.op \in Loads           -> Extend(ins, rdata)
    [] OTHER                      -> alu_out

(* regfile.sv: register 0 is never written.                                 *)
Put(regs, ins, value) ==
  IF ins.op \in Writers /\ ins.rd # 0 THEN [regs EXCEPT ![ins.rd] = value] ELSE regs
=============================================================================
