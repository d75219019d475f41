-------------------------------- MODULE Isa --------------------------------
(***************************************************************************)
(* The processor Final promises to be: one instruction at a time, in       *)
(* program order, as the RVFI monitor (hvl/top.sv, hvl/rvfimon.v)          *)
(* recomputes it at every commit.                                          *)
(***************************************************************************)
EXTENDS InstructionSet

CONSTANTS
  Programs,   \* the programs of interest
  Boot,       \* address of the first instruction
  Data        \* the data memory before it

VARIABLES
  imem,   \* the program
  dmem,
  pc,     \* the next instruction to execute
  regs

isaVars == <<imem, dmem, pc, regs>>

Init ==
  /\ imem \in Programs
  /\ dmem = Data
  /\ pc = Boot
  /\ regs = [r \in Regs |-> 0]

Execute ==
  LET ins     == imem[pc]
      a       == regs[ins.rs1]
      b       == regs[ins.rs2]
      alu_out == Alu(ins, pc, a, b)
      br_en   == Compare(ins, a, b)
  IN  /\ regs' = Put(regs, ins, RegfileMux(ins, pc, alu_out, br_en, dmem[alu_out]))
      /\ dmem' = IF ins.op = "sw" THEN [dmem EXCEPT ![alu_out] = b] ELSE dmem
      /\ pc' = IF Jumps(ins, br_en) THEN alu_out ELSE NextPC(pc)
      /\ UNCHANGED imem

Spec == Init /\ [][Execute]_isaVars
=============================================================================
