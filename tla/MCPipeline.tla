----------------------------- MODULE MCPipeline -----------------------------
(* Two registers besides x0, four words, and programs of four instructions  *)
(* that fill the four stages in which values are passed on; past its end a  *)
(* program starts again.                                                    *)
EXTENDS Pipeline

MCRegs == 0 .. 2
MCNarrow == [w \in Word |-> w % 2]
MCData == [a \in Word |-> (a + 2) % Size]

I(op, rd, rs1, rs2, imm) == [op |-> op, rd |-> rd, rs1 |-> rs1, rs2 |-> rs2, imm |-> imm]

(* Producers and consumers of both registers; the immediate instructions    *)
(* name a register in the bits of rs2.                                      *)
Arithmetic == {I("imm", 1, 1, 2, 1), I("reg", 2, 1, 2, 0), I("slt", 1, 2, 1, 0), I("imm", 0, 1, 1, 1)}
Memory == {I("lw", 1, 2, 1, 0), I("lw", 2, 1, 0, 1), I("lb", 1, 2, 1, 3), I("sw", 2, 1, 2, 0)}
Control == {I("br", 1, 1, 2, 2), I("jalr", 2, 1, 2, 0), I("jal", 1, 0, 1, 3)}
Upper == {I("lui", 2, 1, 2, 3), I("auipc", 1, 2, 0, 1)}

(* What the code does not get right has runs of its own.                    *)
MCPrograms ==
  {p \in [Word -> Arithmetic \union Memory \union Control \union Upper] : Sound(p)}

(* A load into register 0.                                                  *)
MCZeroPrograms ==
  [Word -> {I("lw", 0, 1, 2, 1), I("imm", 1, 0, 2, 1), I("sw", 1, 2, 0, 2)}]

(* A load whose base is the result of a narrow load.                        *)
MCNarrowPrograms ==
  [Word -> {I("lb", 1, 0, 0, 0), I("imm", 2, 2, 0, 1), I("lw", 2, 1, 0, 0)}]
=============================================================================
