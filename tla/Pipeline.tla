------------------------------ MODULE Pipeline ------------------------------
(***************************************************************************)
(* The five-stage pipeline of Final/hdl: datapath.sv, forwarding_unit.sv,  *)
(* control_word.sv, regfile.sv.  A step is one rising clock edge.  The     *)
(* variables are the registers between the stages; the combinational logic *)
(* of a stage is operators of them.                                        *)
(*                                                                         *)
(* The two cache ports are as their users see them: the fetch port shows   *)
(* the program, the data port one flat memory, and each answers in the     *)
(* cycles it likes.  A control word is a function of the instruction, so   *)
(* the stages carry the instruction.  A register is kept only where a      *)
(* later stage reads it: alu_out, br_en, the data address, the store data  *)
(* and the loaded word are 0 under instructions that do not use them, and  *)
(* what only the RVFI monitor looks at is left out.                        *)
(***************************************************************************)
EXTENDS InstructionSet

CONSTANTS
  Programs, Boot, Data,   \* Isa
  NoPC                    \* the address 0 that flushed stages carry

ASSUME PipelineAssumption ==
  /\ Programs \subseteq [Word -> Instruction]
  /\ Boot \in Word
  /\ Data \in [Word -> Word]
  /\ NoPC \notin Word

VARIABLES
  imem, dmem,   \* behind the two ports
  PC, IMAR,     \* next fetch address, address at the instruction port
  IR, id_pc,    \* the instruction in ID, IF_pc_out
  ex,           \* ID/EX registers
  mem,          \* EX/MEM registers
  wb,           \* MEM/WB registers
  regfile

vars == <<imem, dmem, PC, IMAR, IR, id_pc, ex, mem, wb, regfile>>

Address == Word \union {NoPC}

TypeOK ==
  /\ imem \in Programs
  /\ dmem \in [Word -> Word]
  /\ PC \in Word
  /\ IMAR \in Address
  /\ IR \in Instruction
  /\ id_pc \in Address
  /\ ex \in [ins : Instruction, pc : Address, rs1_out : Word, rs2_out : Word]
  /\ mem \in [ins : Instruction, pc : Address, alu_out : Word, br_en : {0, 1},
              branch : BOOLEAN, address : Word, wdata : Word]
  /\ wb \in [ins : Instruction, pc : Address, alu_out : Word, br_en : {0, 1},
             branch : BOOLEAN, rdata : Word]
  /\ regfile \in [Regs -> Word]

(* A flushed stage holds an addition to register 0 (opcode 0010011).        *)
Nop == [op |-> "imm", rd |-> 0, rs1 |-> 0, rs2 |-> 0, imm |-> 0]

(* rst clears the registers; a cleared control word does nothing.           *)
Cleared == [Nop EXCEPT !.op = "none"]

(* What is at address 0, where no program is: IMAR is reset to 0 although   *)
(* the PC is reset to the first instruction.                                *)
Fetched == IF IMAR = NoPC THEN Cleared ELSE imem[IMAR]

Init ==
  /\ imem \in Programs
  /\ dmem = Data
  /\ PC = Boot
  /\ IMAR = NoPC
  /\ IR = Cleared
  /\ id_pc = NoPC
  /\ ex = [ins |-> Cleared, pc |-> NoPC, rs1_out |-> 0, rs2_out |-> 0]
  /\ mem = [ins |-> Cleared, pc |-> NoPC, alu_out |-> 0, br_en |-> 0,
            branch |-> FALSE, address |-> 0, wdata |-> 0]
  /\ wb = [ins |-> Cleared, pc |-> NoPC, alu_out |-> 0, br_en |-> 0,
           branch |-> FALSE, rdata |-> 0]
  /\ regfile = [r \in Regs |-> 0]

-----------------------------------------------------------------------------
(* The ports.                                                               *)

data_read == mem.ins.op \in Loads
data_write == mem.ins.op = "sw"

stall(instr_mem_resp, data_mem_resp) ==
  ~instr_mem_resp \/ ((data_read \/ data_write) /\ ~data_mem_resp)

(* A store is performed in every cycle that answers it.                     *)
Written == IF data_write THEN [dmem EXCEPT ![mem.address] = mem.wdata] ELSE dmem

mem_rdata == dmem[mem.address]
mem_load_data == Extend(mem.ins, mem_rdata)

-----------------------------------------------------------------------------
(* EX.                                                                      *)

(* The address registers of bubbles are 0.                                  *)
At(p) == IF p = NoPC THEN 0 ELSE p

ex_alu_out == Alu(ex.ins, At(ex.pc), ex.rs1_out, ex.rs2_out)
(* Mutant: br_en wired to the ALU.                                          *)
ex_br_en_Alu == ex_alu_out
ex_br_en == Compare(ex.ins, ex.rs1_out, ex.rs2_out)

(* Mutant: the second operand is forgotten.                                 *)
load_hazard_Rs1 == data_read /\ mem.ins.rd = ex.ins.rs1

(* The instruction in EX names the register that a load in MEM has just     *)
(* read.                                                                    *)
load_hazard == data_read /\ mem.ins.rd \in {ex.ins.rs1, ex.ins.rs2}

ex_branch == Jumps(ex.ins, ex_br_en) /\ ~load_hazard
(* Mutant: one slot too few is flushed.                                     *)
branch_taken_Short == ex_branch \/ mem.branch
branch_taken == ex_branch \/ mem.branch \/ wb.branch

wb_regfilemux_out == RegfileMux(wb.ins, At(wb.pc), wb.alu_out, wb.br_en, wb.rdata)

-----------------------------------------------------------------------------
(* ID: the forwarding unit.                                                 *)

(* What a stage offers: no load data, and the ALU's output where it knows   *)
(* no better.                                                               *)
Offered(ins, p, alu_out, br_en) ==
  CASE ins.op = "slt"             -> br_en
    [] ins.op = "lui"             -> ins.imm
    [] ins.op \in {"jal", "jalr"} -> NextPC(p)
    [] OTHER                      -> alu_out

(* A stage holds a later value of register r.                               *)
Supplies(ins, r) == ins.op \in Writers /\ ins.rd = r /\ r # 0

(* Mutant: the older producer wins.                                         *)
forward_OldFirst(i, r) ==
  IF data_read /\ mem.ins.rd = r THEN mem_load_data
  ELSE IF Supplies(mem.ins, r) THEN Offered(mem.ins, At(mem.pc), mem.alu_out, mem.br_en)
  ELSE IF Supplies(ex.ins, r) THEN Offered(ex.ins, At(ex.pc), ex_alu_out, ex_br_en)
  ELSE IF Supplies(wb.ins, r) THEN wb_regfilemux_out
  ELSE regfile[r]

(* Instruction i in ID reads register r, in a cycle without a stall.  The   *)
(* youngest instruction ahead of it supplies the value; the load in MEM has *)
(* two ways, of which the first does not look for register 0 and the second *)
(* does not extend.                                                         *)
forward(i, r) ==
  IF Supplies(ex.ins, r) THEN Offered(ex.ins, At(ex.pc), ex_alu_out, ex_br_en)
  ELSE IF data_read /\ mem.ins.rd = r /\ i.op \notin Loads THEN mem_load_data
  ELSE IF Supplies(mem.ins, r) THEN
    IF data_read THEN mem_rdata ELSE Offered(mem.ins, At(mem.pc), mem.alu_out, mem.br_en)
  ELSE IF Supplies(wb.ins, r) THEN
    IF wb.ins.op \in Loads \union {"jal", "jalr"} THEN wb_regfilemux_out
    ELSE Offered(wb.ins, At(wb.pc), wb.alu_out, wb.br_en)
  ELSE regfile[r]

-----------------------------------------------------------------------------
(* One clock edge.                                                          *)

(* The register file is written in every cycle an instruction spends in WB. *)
RegisterWrite == regfile' = Put(regfile, wb.ins, wb_regfilemux_out)

Stall(instr_mem_resp, data_mem_resp) ==
  /\ stall(instr_mem_resp, data_mem_resp)
  /\ RegisterWrite
  /\ dmem' = IF data_mem_resp THEN Written ELSE dmem
  /\ UNCHANGED <<imem, PC, IMAR, IR, id_pc, ex, mem, wb>>

MemToWb ==
  wb' = [ins |-> mem.ins, pc |-> mem.pc, alu_out |-> mem.alu_out, br_en |-> mem.br_en,
         branch |-> mem.branch, rdata |-> IF data_read THEN mem_rdata ELSE 0]

(* Mutant: the load stays in MEM.                                           *)
Hazard_NoBubble(instr_mem_resp, data_mem_resp) ==
  /\ ~stall(instr_mem_resp, data_mem_resp)
  /\ load_hazard
  /\ ex' = [ex EXCEPT !.rs1_out = IF ex.ins.rs1 = mem.ins.rd THEN mem_load_data ELSE @,
                      !.rs2_out = IF ex.ins.rs2 = mem.ins.rd THEN mem_load_data ELSE @]
  /\ MemToWb
  /\ RegisterWrite
  /\ UNCHANGED <<imem, dmem, PC, IMAR, IR, id_pc, mem>>

(* A load hazard: the front stages wait, EX takes the loaded word and MEM   *)
(* gets a bubble.                                                           *)
Hazard(instr_mem_resp, data_mem_resp) ==
  /\ ~stall(instr_mem_resp, data_mem_resp)
  /\ load_hazard
  /\ ex' = [ex EXCEPT
       !.rs1_out = IF branch_taken THEN 0
                   ELSE IF ex.ins.rs1 = mem.ins.rd THEN mem_load_data ELSE @,
       !.rs2_out = IF branch_taken THEN 0
                   ELSE IF ex.ins.rs2 = mem.ins.rd THEN mem_load_data ELSE @]
  /\ mem' = [ins |-> Nop, pc |-> NoPC, alu_out |-> 0, br_en |-> 0,
             branch |-> FALSE, address |-> 0, wdata |-> 0]
  /\ MemToWb
  /\ RegisterWrite
  /\ dmem' = Written
  /\ UNCHANGED <<imem, PC, IMAR, IR, id_pc>>

ExToMem ==
  LET accesses == ex.ins.op \in Loads \union {"sw"}
  IN  mem' = [ins     |-> ex.ins,
              pc      |-> ex.pc,
              alu_out |-> IF ex.ins.rd # 0 /\ ~accesses THEN ex_alu_out ELSE 0,
              br_en   |-> ex_br_en,
              branch  |-> ex_branch,
              address |-> IF accesses THEN ex_alu_out ELSE 0,
              wdata   |-> IF ex.ins.op = "sw" THEN ex.rs2_out ELSE 0]

(* A taken branch in EX, MEM or WB: what is in ID was fetched before the    *)
(* target, and is dropped.                                                  *)
IdToEx ==
  ex' = IF branch_taken
        THEN [ins |-> Nop, pc |-> NoPC, rs1_out |-> 0, rs2_out |-> 0]
        ELSE [ins |-> IR, pc |-> id_pc,
              rs1_out |-> forward(IR, IR.rs1), rs2_out |-> forward(IR, IR.rs2)]

Fetch ==
  /\ PC' = IF ex_branch THEN ex_alu_out ELSE NextPC(PC)
  /\ IMAR' = PC
  /\ IR' = Fetched
  /\ id_pc' = IMAR

Advance(instr_mem_resp, data_mem_resp) ==
  /\ ~stall(instr_mem_resp, data_mem_resp)
  /\ ~load_hazard
  /\ Fetch
  /\ IdToEx
  /\ ExToMem
  /\ MemToWb
  /\ RegisterWrite
  /\ dmem' = Written
  /\ UNCHANGED imem

Next ==
  \E instr_mem_resp, data_mem_resp \in BOOLEAN :
    \/ Stall(instr_mem_resp, data_mem_resp)
    \/ Hazard(instr_mem_resp, data_mem_resp)
    \/ Advance(instr_mem_resp, data_mem_resp)

Spec == Init /\ [][Next]_vars

(* Both ports answer in the same cycle again and again (MemSystem,          *)
(* PipelineMoves), and the clock does not stop.                             *)
FairSpec == Spec /\ WF_vars(Hazard(TRUE, TRUE) \/ Advance(TRUE, TRUE))

-----------------------------------------------------------------------------
(* Properties.                                                              *)

(* An instruction has happened when it leaves EX: from there nothing stops  *)
(* it.  So the abstract registers are the register file with the results in *)
(* WB and MEM added, and the abstract memory has the store in MEM.          *)
RegsAhead ==
  Put(Put(regfile, wb.ins, wb_regfilemux_out),
      mem.ins, RegfileMux(mem.ins, At(mem.pc), mem.alu_out, mem.br_en, mem_rdata))

(* The next instruction to happen: the one in EX; else the one in ID unless *)
(* it is about to be dropped; else the one whose address is on its way.     *)
NextAhead ==
  IF ex.pc # NoPC THEN ex.pc
  ELSE IF mem.branch THEN PC
  ELSE IF wb.branch THEN IMAR
  ELSE IF id_pc # NoPC THEN id_pc
  ELSE IF IMAR # NoPC THEN IMAR
  ELSE PC

Machine == INSTANCE Isa
             WITH imem <- imem, dmem <- Written, pc <- NextAhead, regs <- RegsAhead

(* The pipeline executes the program: every instruction gets the operands,  *)
(* leaves the result and is followed by the instruction that the sequential *)
(* machine says, whatever is forwarded, held or flushed, and however the    *)
(* ports delay it (the checks of rvfimon.v).                                *)
ImplementsIsa == Machine!Spec

(* The instruction in EX has the operands of the sequential machine, unless *)
(* it waits for the load ahead of it: forwarding_unit.sv finds the youngest *)
(* value wherever it is.                                                    *)
Awaits(r) == data_read /\ mem.ins.rd = r
ForwardedOperands ==
  ex.pc # NoPC =>
    /\ UsesRs1(ex.ins) /\ ~Awaits(ex.ins.rs1) => ex.rs1_out = RegsAhead[ex.ins.rs1]
    /\ UsesRs2(ex.ins) /\ ~Awaits(ex.ins.rs2) => ex.rs2_out = RegsAhead[ex.ins.rs2]

(* Every address the front end holds is on the right path, except behind a  *)
(* branch while branch_taken drops it: the three terms of branch_taken      *)
(* (datapath.sv:89) cover exactly the instructions fetched too many.        *)
RightPath ==
  /\ IMAR # NoPC /\ ~mem.branch => PC = NextPC(IMAR)
  /\ id_pc # NoPC /\ ~mem.branch /\ ~wb.branch => IMAR = NextPC(id_pc)
  /\ ex.pc # NoPC => id_pc = NextPC(ex.pc) /\ ~mem.branch /\ ~wb.branch
  /\ wb.branch => mem.pc = NoPC /\ ~mem.branch

(* The induction of the proofs: an instruction in a stage is the one at its *)
(* address, a bubble does nothing, and until the first instruction is in ID *)
(* nothing is behind it.                                                    *)
Bubble == {Nop, Cleared}
InStage(ins, p) == IF p = NoPC THEN ins \in Bubble ELSE ins = imem[p]
Stages ==
  /\ IR = IF id_pc = NoPC THEN Cleared ELSE imem[id_pc]
  /\ InStage(ex.ins, ex.pc)
  /\ InStage(mem.ins, mem.pc)
  /\ mem.branch => mem.ins.op \notin Loads
  /\ id_pc = NoPC => ex.pc = NoPC /\ ~mem.branch /\ ~wb.branch
  /\ id_pc # NoPC => IMAR # NoPC
  /\ IMAR = NoPC => PC = Boot
  /\ IMAR # NoPC /\ id_pc = NoPC => IMAR = Boot
IInv == TypeOK /\ Stages /\ RightPath /\ ForwardedOperands

(* Programs without the two things the forwarding unit gets wrong: a load   *)
(* into register 0, and a narrow load whose result another load uses as its *)
(* base.                                                                    *)
Sound(p) ==
  \A a, b \in Word :
    p[a].op \in Loads =>
      /\ p[a].rd # 0
      /\ p[a].op = "lb" /\ p[b].op \in Loads => p[b].rs1 # p[a].rd

(* The program goes on for ever: no sequence of hazards, flushes and stalls *)
(* keeps instructions from leaving EX.                                      *)
ProgramGoesOn == []<><<Advance(TRUE, TRUE) /\ ex.pc # NoPC>>_vars

(* Register 0 reads as zero: Final/README.rst:324 wants no forwarding for   *)
(* it.                                                                      *)
ZeroRegister ==
  ex.pc # NoPC =>
    /\ UsesRs1(ex.ins) /\ ex.ins.rs1 = 0 => ex.rs1_out = 0
    /\ UsesRs2(ex.ins) /\ ex.ins.rs2 = 0 => ex.rs2_out = 0
=============================================================================
