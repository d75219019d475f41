--------------------------- MODULE PipelineProofs ---------------------------
(***************************************************************************)
(* The pipeline implements the sequential machine, for every number of     *)
(* registers, every word size and every set of sound programs.             *)
(***************************************************************************)
EXTENDS Pipeline, TLAPS

-----------------------------------------------------------------------------
(* The instruction set.                                                     *)

(* Sums of words are words: the PC and the ALU wrap around.                 *)
LEMMA PlusType ==
  ASSUME NEW a \in Word, NEW b \in Word
  PROVE  Plus(a, b) \in Word /\ NextPC(a) \in Word
<1>1. Size \in Nat /\ Size > 1
  BY InstructionAssumption
<1>2. \A n \in Nat : n % Size \in Word
  BY <1>1 DEF Word
<1>3. a + b \in Nat /\ a + 1 \in Nat
  BY <1>1 DEF Word
<1> QED BY <1>2, <1>3 DEF Plus, NextPC

(* 0 and 1 are words.                                                       *)
LEMMA SmallWords == 0 \in Word /\ 1 \in Word
BY InstructionAssumption DEF Word

(* The ALU and the comparator deliver words.                                *)
LEMMA AluType ==
  ASSUME NEW ins \in Instruction, NEW p \in Word, NEW a \in Word, NEW b \in Word
  PROVE  /\ Alu(ins, p, a, b) \in Word
         /\ Compare(ins, a, b) \in {0, 1}
<1>1. ins.op \in Ops /\ ins.imm \in Word
  BY DEF Instruction
<1>2. /\ Plus(a, b) \in Word
      /\ Plus(p, ins.imm) \in Word
      /\ Plus(a, ins.imm) \in Word
  BY <1>1, PlusType
<1>3. Alu(ins, p, a, b) \in Word
  BY <1>1, <1>2, SmallWords DEF Alu, Ops, Writers, Loads
<1>4. Compare(ins, a, b) \in {0, 1}
  BY DEF Compare
<1> QED BY <1>3, <1>4

(* Operands an instruction does not use do not matter.                      *)
LEMMA AluAgree ==
  ASSUME NEW ins \in Instruction, NEW p, NEW a, NEW b, NEW c, NEW d,
         UsesRs1(ins) => a = c,
         UsesRs2(ins) => b = d
  PROVE  /\ Alu(ins, p, a, b) = Alu(ins, p, c, d)
         /\ Compare(ins, a, b) = Compare(ins, c, d)
<1>1. ins.op \in Ops
  BY DEF Instruction
<1>2. Alu(ins, p, a, b) = Alu(ins, p, c, d)
  BY <1>1 DEF Alu, UsesRs1, UsesRs2, Ops, Writers, Loads
<1>3. Compare(ins, a, b) = Compare(ins, c, d)
  BY <1>1 DEF Compare, UsesRs1, UsesRs2, Ops, Writers, Loads
<1> QED BY <1>2, <1>3

(* What goes to the register file is a word.                                *)
LEMMA MuxType ==
  ASSUME NEW ins \in Instruction, NEW p \in Word, NEW alu \in Word,
         NEW br \in {0, 1}, NEW rdata \in Word
  PROVE  /\ RegfileMux(ins, p, alu, br, rdata) \in Word
         /\ Offered(ins, p, alu, br) \in Word
         /\ Extend(ins, rdata) \in Word
<1>1. ins.imm \in Word /\ NextPC(p) \in Word /\ br \in Word
  BY PlusType, SmallWords DEF Instruction
<1>2. Extend(ins, rdata) \in Word
  BY InstructionAssumption DEF Extend
<1> QED BY <1>1, <1>2 DEF RegfileMux, Offered

(* Only a load looks at the memory, and only an instruction that writes     *)
(* looks at the ALU; the forwarding unit offers what will be written unless *)
(* that comes from memory.                                                  *)
LEMMA MuxAgree ==
  ASSUME NEW ins, NEW p, NEW alu, NEW br, NEW x
  PROVE  /\ ins.op \notin Loads =>
              \A y : RegfileMux(ins, p, alu, br, x) = RegfileMux(ins, p, alu, br, y)
         /\ ins.op \notin Loads => Offered(ins, p, alu, br) = RegfileMux(ins, p, alu, br, x)
         /\ ins.op \in Loads => RegfileMux(ins, p, alu, br, x) = Extend(ins, x)
BY DEF RegfileMux, Offered, Loads

-----------------------------------------------------------------------------
(* The register file.                                                       *)

(* Writing a register changes that one, and never register 0.               *)
LEMMA PutType ==
  ASSUME NEW R \in [Regs -> Word], NEW ins \in Instruction, NEW v \in Word
  PROVE  Put(R, ins, v) \in [Regs -> Word]
BY DEF Put, Instruction

(* What is in a register after a write.                                     *)
LEMMA PutAt ==
  ASSUME NEW R \in [Regs -> Word], NEW ins \in Instruction, NEW v, NEW r \in Regs
  PROVE  Put(R, ins, v)[r] = IF Supplies(ins, r) THEN v ELSE R[r]
BY DEF Put, Supplies, Instruction

(* Writing the same twice is writing it once.                               *)
LEMMA PutTwice ==
  ASSUME NEW R \in [Regs -> Word], NEW ins \in Instruction, NEW v \in Word
  PROVE  Put(Put(R, ins, v), ins, v) = Put(R, ins, v)
BY DEF Put, Instruction

(* A bubble writes nothing and does not touch the memory or the PC.         *)
LEMMA BubbleIdle ==
  ASSUME NEW ins \in Bubble
  PROVE  /\ \A R, v : Put(R, ins, v) = R
         /\ ins.op \notin Loads
         /\ ins.op # "sw"
         /\ \A br : ~Jumps(ins, br)
BY DEF Bubble, Nop, Cleared, Put, Jumps, Loads, Writers

LEMMA BubbleType == Bubble \subseteq Instruction /\ Nop \in Bubble /\ Cleared \in Bubble
BY InstructionAssumption, SmallWords
   DEF Bubble, Nop, Cleared, Instruction, Ops, Writers, Loads

(* A load is neither a store nor a jump.                                    *)
LEMMA LoadsOnlyLoad ==
  ASSUME NEW ins, ins.op \in Loads
  PROVE  ins.op # "sw" /\ ins.op \in Writers /\ \A br : ~Jumps(ins, br)
BY DEF Loads, Writers, Jumps

-----------------------------------------------------------------------------
(* The signals of a cycle.                                                  *)

(* The programs the theorems are about.                                     *)
AllSound == \A p \in Programs : Sound(p)

(* What MEM is about to hand on.                                            *)
MemResult == RegfileMux(mem.ins, At(mem.pc), mem.alu_out, mem.br_en, mem_rdata)

(* What EX computes, for an instruction that is not a load.                 *)
ExResult == RegfileMux(ex.ins, At(ex.pc), ex_alu_out, ex_br_en, 0)

(* Every signal carries a word.                                             *)
LEMMA SignalType ==
  ASSUME TypeOK
  PROVE  /\ At(ex.pc) \in Word /\ At(mem.pc) \in Word /\ At(wb.pc) \in Word
         /\ ex_alu_out \in Word /\ ex_br_en \in {0, 1}
         /\ mem_rdata \in Word /\ mem_load_data \in Word /\ MemResult \in Word
         /\ wb_regfilemux_out \in Word
         /\ Written \in [Word -> Word]
         /\ Put(regfile, wb.ins, wb_regfilemux_out) \in [Regs -> Word]
         /\ RegsAhead \in [Regs -> Word]
<1> USE SmallWords
<1>1. \A p \in Address : At(p) \in Word
  BY DEF Address, At
<1>2. At(ex.pc) \in Word /\ At(mem.pc) \in Word /\ At(wb.pc) \in Word
  BY <1>1 DEF TypeOK
<1>3. ex_alu_out \in Word /\ ex_br_en \in {0, 1}
  BY <1>2, AluType DEF TypeOK, ex_alu_out, ex_br_en
<1>4. mem_rdata \in Word
  BY DEF TypeOK, mem_rdata
<1>5. mem_load_data \in Word /\ MemResult \in Word
  BY <1>2, <1>4, MuxType DEF TypeOK, mem_load_data, MemResult
<1>6. wb_regfilemux_out \in Word
  BY <1>2, MuxType DEF TypeOK, wb_regfilemux_out
<1>7. Written \in [Word -> Word]
  BY DEF TypeOK, Written
<1>8. Put(regfile, wb.ins, wb_regfilemux_out) \in [Regs -> Word]
  BY <1>6, PutType DEF TypeOK
<1>9. RegsAhead \in [Regs -> Word]
  BY <1>5, <1>8, PutType DEF TypeOK, RegsAhead, MemResult
<1> QED BY <1>2, <1>3, <1>4, <1>5, <1>6, <1>7, <1>8, <1>9

(* The abstract value of a register is the youngest behind EX.              *)
LEMMA AheadAt ==
  ASSUME TypeOK, NEW r \in Regs
  PROVE  RegsAhead[r] = IF Supplies(mem.ins, r) THEN MemResult
                        ELSE IF Supplies(wb.ins, r) THEN wb_regfilemux_out
                        ELSE regfile[r]
<1>1. regfile \in [Regs -> Word] /\ wb.ins \in Instruction /\ mem.ins \in Instruction
  BY DEF TypeOK
<1>2. Put(regfile, wb.ins, wb_regfilemux_out)[r]
        = IF Supplies(wb.ins, r) THEN wb_regfilemux_out ELSE regfile[r]
  BY <1>1, PutAt
<1>3. RegsAhead[r] = IF Supplies(mem.ins, r) THEN MemResult
                     ELSE Put(regfile, wb.ins, wb_regfilemux_out)[r]
  BY <1>1, SignalType, PutAt DEF RegsAhead, MemResult
<1> QED BY <1>2, <1>3

(* A load in MEM is an instruction of the program, writes its register, and *)
(* nothing in flight is a taken branch.                                     *)
LEMMA LoadInMem ==
  ASSUME IInv, AllSound, data_read
  PROVE  /\ mem.pc \in Word /\ mem.ins = imem[mem.pc]
         /\ mem.ins.rd # 0
         /\ Supplies(mem.ins, mem.ins.rd)
         /\ MemResult = mem_load_data
         /\ ~mem.branch /\ ~wb.branch
<1>1. mem.ins \notin Bubble
  BY BubbleIdle DEF data_read
<1>2. mem.pc \in Word /\ mem.ins = imem[mem.pc]
  BY <1>1 DEF IInv, TypeOK, Stages, InStage, Address
<1>3. mem.ins.rd # 0
  BY <1>2 DEF IInv, TypeOK, AllSound, Sound, data_read
<1>4. Supplies(mem.ins, mem.ins.rd)
  BY <1>3 DEF Supplies, data_read, Writers
<1>5. MemResult = mem_load_data
  BY MuxAgree DEF MemResult, mem_load_data, data_read
<1>6. ~mem.branch /\ ~wb.branch
  BY <1>2, PipelineAssumption DEF IInv, Stages, RightPath, data_read
<1> QED BY <1>2, <1>3, <1>4, <1>5, <1>6

(* An instruction in EX is on the right path, and the one at its address.   *)
LEMMA InEx ==
  ASSUME IInv, ex.pc # NoPC
  PROVE  /\ ex.pc \in Word /\ At(ex.pc) = ex.pc /\ ex.ins = imem[ex.pc]
         /\ id_pc = NextPC(ex.pc) /\ id_pc \in Word
         /\ ~mem.branch /\ ~wb.branch
         /\ branch_taken = ex_branch
<1>1. ex.pc \in Word /\ At(ex.pc) = ex.pc /\ ex.ins = imem[ex.pc]
  BY DEF IInv, TypeOK, Stages, InStage, Address, At
<1>2. id_pc = NextPC(ex.pc) /\ ~mem.branch /\ ~wb.branch
  BY DEF IInv, RightPath
<1>3. id_pc \in Word
  BY <1>1, <1>2, PlusType
<1>4. branch_taken = ex_branch
  BY <1>2 DEF branch_taken, ex_branch, Jumps, load_hazard, data_read
<1> QED BY <1>1, <1>2, <1>3, <1>4

(* A bubble in EX does nothing.                                             *)
LEMMA NoneInEx ==
  ASSUME IInv, ex.pc = NoPC
  PROVE  ex.ins \in Bubble /\ ex.ins \in Instruction /\ ~ex_branch
<1>1. ex.ins \in Bubble
  BY DEF IInv, Stages, InStage
<1>2. ~ex_branch
  BY <1>1, BubbleIdle DEF ex_branch
<1> QED BY <1>1, <1>2, BubbleType

-----------------------------------------------------------------------------
(* Forwarding.                                                              *)

(* A register that the instruction in ID reads, unless it is the target of  *)
(* a load in EX, comes with the value it will have behind EX.               *)
LEMMA ForwardRight ==
  ASSUME IInv, AllSound, id_pc # NoPC, NEW r \in Regs,
         r = IR.rs1 \/ IR.op \notin Loads,
         ~(ex.ins.op \in Loads /\ ex.ins.rd = r)
  PROVE  forward(IR, r) = IF Supplies(ex.ins, r) THEN ExResult ELSE RegsAhead[r]
<1> DEFINE ahead == IF Supplies(wb.ins, r) THEN wb_regfilemux_out ELSE regfile[r]
<1>1. RegsAhead[r] = IF Supplies(mem.ins, r) THEN MemResult ELSE ahead
  BY AheadAt DEF IInv
<1>2. CASE Supplies(ex.ins, r)
  <2>1. ex.ins.op \notin Loads
    BY <1>2 DEF Supplies
  <2>2. Offered(ex.ins, At(ex.pc), ex_alu_out, ex_br_en) = ExResult
    BY <2>1, MuxAgree DEF ExResult
  <2> QED BY <1>2, <2>2 DEF forward
<1>3. CASE ~Supplies(ex.ins, r) /\ data_read /\ mem.ins.rd = r /\ IR.op \notin Loads
  BY <1>1, <1>3, LoadInMem DEF forward
<1>4. CASE /\ ~Supplies(ex.ins, r) /\ Supplies(mem.ins, r)
           /\ ~(data_read /\ mem.ins.rd = r /\ IR.op \notin Loads)
  <2>1. CASE data_read
    <3>1. IR.op \in Loads /\ r = IR.rs1 /\ mem.ins.rd = r
      BY <1>4, <2>1 DEF Supplies
    <3>2. mem.pc \in Word /\ mem.ins = imem[mem.pc] /\ MemResult = mem_load_data
      BY <2>1, LoadInMem
    <3>3. id_pc \in Word /\ IR = imem[id_pc]
      BY DEF IInv, TypeOK, Stages, Address
    <3>4. mem.ins.op # "lb"
      BY <2>1, <3>1, <3>2, <3>3 DEF IInv, TypeOK, AllSound, Sound, data_read
    <3>5. mem_load_data = mem_rdata
      BY <3>4 DEF mem_load_data, Extend
    <3> QED BY <1>1, <1>4, <2>1, <3>1, <3>2, <3>5 DEF forward
  <2>2. CASE ~data_read
    <3>1. Offered(mem.ins, At(mem.pc), mem.alu_out, mem.br_en) = MemResult
      BY <2>2, MuxAgree DEF data_read, MemResult
    <3> QED BY <1>1, <1>4, <2>2, <3>1 DEF forward
  <2> QED BY <2>1, <2>2
<1>5. CASE /\ ~Supplies(ex.ins, r) /\ ~Supplies(mem.ins, r)
           /\ ~(data_read /\ mem.ins.rd = r /\ IR.op \notin Loads)
  <2>1. wb.ins.op \notin Loads =>
          Offered(wb.ins, At(wb.pc), wb.alu_out, wb.br_en) = wb_regfilemux_out
    BY MuxAgree DEF wb_regfilemux_out
  <2>2. forward(IR, r) = ahead
    BY <1>5, <2>1 DEF forward
  <2> QED BY <1>1, <1>5, <2>2
<1> QED BY <1>2, <1>3, <1>4, <1>5

-----------------------------------------------------------------------------
(* What a clock edge does to the abstract state.                            *)

(* A stalled edge shows nothing: the register of WB and the store of MEM    *)
(* are written again.                                                       *)
LEMMA StallAhead ==
  ASSUME TypeOK, NEW i \in BOOLEAN, NEW d \in BOOLEAN, Stall(i, d)
  PROVE  RegsAhead' = RegsAhead /\ Written' = Written /\ NextAhead' = NextAhead
<1>1. /\ mem' = mem /\ wb' = wb /\ ex' = ex
      /\ PC' = PC /\ IMAR' = IMAR /\ id_pc' = id_pc
      /\ regfile' = Put(regfile, wb.ins, wb_regfilemux_out)
      /\ dmem' = dmem \/ dmem' = Written
  BY DEF Stall, RegisterWrite
<1>2. Written' = Written
  BY <1>1 DEF Written, data_write, TypeOK
<1>3. mem.ins.op \in Loads => dmem' = dmem
  BY <1>1, LoadsOnlyLoad DEF Written, data_write
<1>4. RegfileMux(mem.ins, At(mem.pc), mem.alu_out, mem.br_en, dmem'[mem.address])
        = RegfileMux(mem.ins, At(mem.pc), mem.alu_out, mem.br_en, dmem[mem.address])
  BY <1>3, MuxAgree
<1>5. wb_regfilemux_out' = wb_regfilemux_out
  BY <1>1 DEF wb_regfilemux_out
<1>6. Put(regfile', wb.ins, wb_regfilemux_out) = Put(regfile, wb.ins, wb_regfilemux_out)
  BY <1>1, SignalType, PutTwice DEF TypeOK
<1>7. RegsAhead' = RegsAhead
  BY <1>1, <1>4, <1>5, <1>6 DEF RegsAhead, mem_rdata
<1>8. NextAhead' = NextAhead
  BY <1>1 DEF NextAhead
<1> QED BY <1>2, <1>7, <1>8

(* What MEM hands to WB is what WB will write.                              *)
LEMMA HandOn ==
  ASSUME TypeOK, MemToWb, RegisterWrite
  PROVE  Put(regfile', wb'.ins, wb_regfilemux_out') = RegsAhead
<1>1. /\ wb'.ins = mem.ins /\ wb'.pc = mem.pc
      /\ wb'.alu_out = mem.alu_out /\ wb'.br_en = mem.br_en
      /\ wb'.rdata = IF data_read THEN mem_rdata ELSE 0
  BY DEF MemToWb
<1>2. wb_regfilemux_out' = RegfileMux(mem.ins, At(mem.pc), mem.alu_out, mem.br_en, wb'.rdata)
  BY <1>1 DEF wb_regfilemux_out
<1>3. wb_regfilemux_out' = MemResult
  BY <1>1, <1>2, MuxAgree DEF MemResult, data_read
<1>4. regfile' = Put(regfile, wb.ins, wb_regfilemux_out)
  BY DEF RegisterWrite
<1> QED BY <1>1, <1>3, <1>4 DEF RegsAhead, MemResult

(* A load hazard shows nothing either.                                      *)
LEMMA HazardAhead ==
  ASSUME IInv, AllSound, NEW i \in BOOLEAN, NEW d \in BOOLEAN, Hazard(i, d)
  PROVE  RegsAhead' = RegsAhead /\ Written' = Written /\ NextAhead' = NextAhead
<1> USE DEF IInv
<1>1. /\ mem'.ins = Nop /\ mem'.branch = FALSE /\ MemToWb /\ RegisterWrite /\ dmem' = Written
      /\ PC' = PC /\ IMAR' = IMAR /\ id_pc' = id_pc /\ ex'.pc = ex.pc
      /\ wb'.branch = mem.branch
      /\ data_read
  BY DEF Hazard, MemToWb, load_hazard, TypeOK
<1>2. ~mem.branch /\ ~wb.branch
  BY <1>1, LoadInMem
<1>3. RegsAhead' = Put(regfile', wb'.ins, wb_regfilemux_out')
  BY <1>1, BubbleType, BubbleIdle DEF RegsAhead
<1>4. RegsAhead' = RegsAhead
  BY <1>1, <1>3, HandOn
<1>5. Written' = Written
  BY <1>1, BubbleType, BubbleIdle DEF Written, data_write
<1>6. NextAhead' = NextAhead
  BY <1>1, <1>2 DEF NextAhead
<1> QED BY <1>4, <1>5, <1>6

(* An edge without stall and hazard adds the result of the instruction that *)
(* leaves EX.                                                               *)
LEMMA AdvanceAhead ==
  ASSUME TypeOK, NEW i \in BOOLEAN, NEW d \in BOOLEAN, Advance(i, d)
  PROVE  /\ RegsAhead' = Put(RegsAhead, ex.ins,
               RegfileMux(ex.ins, At(ex.pc), ex_alu_out, ex_br_en, Written[ex_alu_out]))
         /\ Written' = IF ex.ins.op = "sw" THEN [Written EXCEPT ![ex_alu_out] = ex.rs2_out]
                       ELSE Written
<1>1. /\ mem'.ins = ex.ins /\ mem'.pc = ex.pc /\ mem'.br_en = ex_br_en
      /\ mem'.alu_out = IF ex.ins.rd # 0 /\ ~(ex.ins.op \in Loads \union {"sw"})
                        THEN ex_alu_out ELSE 0
      /\ mem'.address = IF ex.ins.op \in Loads \union {"sw"} THEN ex_alu_out ELSE 0
      /\ mem'.wdata = IF ex.ins.op = "sw" THEN ex.rs2_out ELSE 0
      /\ MemToWb /\ RegisterWrite /\ dmem' = Written
  BY DEF Advance, ExToMem
<1>2. Written' = IF ex.ins.op = "sw" THEN [Written EXCEPT ![ex_alu_out] = ex.rs2_out]
                 ELSE Written
  BY <1>1 DEF Written, data_write
<1> DEFINE new == RegfileMux(ex.ins, At(ex.pc), mem'.alu_out, ex_br_en, Written[mem'.address])
           old == RegfileMux(ex.ins, At(ex.pc), ex_alu_out, ex_br_en, Written[ex_alu_out])
<1>3. RegsAhead' = Put(RegsAhead, ex.ins, new)
  <2>1. mem_rdata' = Written[mem'.address]
    BY <1>1 DEF mem_rdata
  <2> QED BY <1>1, <2>1, HandOn DEF RegsAhead
<1>4. ex.ins.op \in Writers /\ ex.ins.rd # 0 => new = old
  <2>1. CASE ex.ins.op \in Loads
    <3>1. mem'.address = ex_alu_out
      BY <1>1, <2>1
    <3> QED BY <2>1, <3>1, MuxAgree
  <2>2. CASE ex.ins.op \notin Loads
    <3>1. ex.ins.op \in Writers /\ ex.ins.rd # 0 => mem'.alu_out = ex_alu_out
      BY <1>1, <2>2 DEF Writers, Loads
    <3> QED BY <2>2, <3>1, MuxAgree
  <2> QED BY <2>1, <2>2
<1>5. Put(RegsAhead, ex.ins, new) = Put(RegsAhead, ex.ins, old)
  BY <1>4 DEF Put
<1> QED BY <1>2, <1>3, <1>5

-----------------------------------------------------------------------------
(* The induction.                                                           *)

(* Reset establishes the induction.                                         *)
LEMMA InitInv ==
  ASSUME Init
  PROVE  IInv
<1> USE DEF Init
<1>1. TypeOK
  BY PipelineAssumption, SmallWords, BubbleType DEF TypeOK, Address
<1>2. Stages
  BY BubbleType, BubbleIdle DEF Stages, InStage
<1>3. RightPath
  BY DEF RightPath
<1>4. ForwardedOperands
  BY DEF ForwardedOperands
<1> QED BY <1>1, <1>2, <1>3, <1>4 DEF IInv

(* A stalled edge keeps the induction: only WB and the store are repeated.  *)
LEMMA StallInv ==
  ASSUME IInv, NEW i \in BOOLEAN, NEW d \in BOOLEAN, Stall(i, d)
  PROVE  IInv'
<1> USE DEF IInv
<1>1. /\ imem' = imem /\ mem' = mem /\ wb' = wb /\ ex' = ex
      /\ PC' = PC /\ IMAR' = IMAR /\ id_pc' = id_pc /\ IR' = IR
      /\ regfile' = Put(regfile, wb.ins, wb_regfilemux_out)
      /\ dmem' = dmem \/ dmem' = Written
  BY DEF Stall, RegisterWrite
<1>2. TypeOK'
  BY <1>1, SignalType DEF TypeOK
<1>3. Stages'
  BY <1>1 DEF Stages, InStage
<1>4. RightPath'
  BY <1>1 DEF RightPath
<1>5. RegsAhead' = RegsAhead
  BY StallAhead
<1>6. ForwardedOperands'
  BY <1>1, <1>5 DEF ForwardedOperands, Awaits, data_read
<1> QED BY <1>2, <1>3, <1>4, <1>6

(* An edge with a load hazard keeps it: EX takes the loaded word.           *)
LEMMA HazardInv ==
  ASSUME IInv, AllSound, NEW i \in BOOLEAN, NEW d \in BOOLEAN, Hazard(i, d)
  PROVE  IInv'
<1> USE DEF IInv
<1> DEFINE rs1_out == IF branch_taken THEN 0
                      ELSE IF ex.ins.rs1 = mem.ins.rd THEN mem_load_data ELSE ex.rs1_out
           rs2_out == IF branch_taken THEN 0
                      ELSE IF ex.ins.rs2 = mem.ins.rd THEN mem_load_data ELSE ex.rs2_out
<1>1. /\ ex' = [ins |-> ex.ins, pc |-> ex.pc, rs1_out |-> rs1_out, rs2_out |-> rs2_out]
      /\ mem' = [ins |-> Nop, pc |-> NoPC, alu_out |-> 0, br_en |-> 0,
                 branch |-> FALSE, address |-> 0, wdata |-> 0]
      /\ MemToWb /\ RegisterWrite /\ dmem' = Written
      /\ imem' = imem /\ PC' = PC /\ IMAR' = IMAR /\ id_pc' = id_pc /\ IR' = IR
      /\ data_read
  BY DEF Hazard, load_hazard, TypeOK
<1>2. wb' = [ins |-> mem.ins, pc |-> mem.pc, alu_out |-> mem.alu_out, br_en |-> mem.br_en,
             branch |-> mem.branch, rdata |-> mem_rdata]
  BY <1>1 DEF MemToWb
<1>3. ~mem.branch /\ ~wb.branch
  BY <1>1, LoadInMem
<1>4. rs1_out \in Word /\ rs2_out \in Word
  BY SignalType, SmallWords DEF TypeOK
<1>5. TypeOK'
  <2>1. ex' \in [ins : Instruction, pc : Address, rs1_out : Word, rs2_out : Word]
    BY <1>1, <1>4 DEF TypeOK
  <2>2. mem' \in [ins : Instruction, pc : Address, alu_out : Word, br_en : {0, 1},
                  branch : BOOLEAN, address : Word, wdata : Word]
    BY <1>1, SmallWords, BubbleType DEF Address
  <2>3. wb' \in [ins : Instruction, pc : Address, alu_out : Word, br_en : {0, 1},
                 branch : BOOLEAN, rdata : Word]
    BY <1>2, SignalType DEF TypeOK
  <2>4. regfile' \in [Regs -> Word] /\ dmem' \in [Word -> Word]
    BY <1>1, SignalType DEF RegisterWrite
  <2> QED BY <1>1, <2>1, <2>2, <2>3, <2>4 DEF TypeOK
<1>6. Stages'
  BY <1>1, <1>2, <1>3, BubbleType, BubbleIdle DEF Stages, InStage
<1>7. RightPath'
  BY <1>1, <1>2, <1>3 DEF RightPath
<1>8. ForwardedOperands'
  <2>1. RegsAhead' = RegsAhead
    BY HazardAhead
  <2>2. ASSUME ex.pc # NoPC PROVE ~branch_taken
    BY <2>2, InEx DEF Hazard, ex_branch
  <2>3. RegsAhead[mem.ins.rd] = mem_load_data
    BY <1>1, LoadInMem, AheadAt DEF TypeOK, Instruction
  <2>4. ASSUME ex.pc # NoPC
        PROVE  /\ UsesRs1(ex.ins) => rs1_out = RegsAhead[ex.ins.rs1]
               /\ UsesRs2(ex.ins) => rs2_out = RegsAhead[ex.ins.rs2]
    BY <2>2, <2>3, <2>4 DEF ForwardedOperands, Awaits
  <2> QED BY <1>1, <2>1, <2>4 DEF ForwardedOperands
<1> QED BY <1>5, <1>6, <1>7, <1>8

(* The forwarding unit delivers words.                                      *)
LEMMA ForwardType ==
  ASSUME TypeOK, NEW r \in Regs
  PROVE  forward(IR, r) \in Word
<1>1. /\ Offered(ex.ins, At(ex.pc), ex_alu_out, ex_br_en) \in Word
      /\ Offered(mem.ins, At(mem.pc), mem.alu_out, mem.br_en) \in Word
      /\ Offered(wb.ins, At(wb.pc), wb.alu_out, wb.br_en) \in Word
  BY SignalType, SmallWords, MuxType DEF TypeOK
<1> QED BY <1>1, SignalType DEF forward, TypeOK

(* What is at the fetch address.                                            *)
LEMMA FetchedType ==
  ASSUME TypeOK
  PROVE  Fetched \in Instruction
BY BubbleType, PipelineAssumption DEF TypeOK, Fetched, Address

(* An edge that moves every stage keeps it.                                 *)
LEMMA AdvanceInv ==
  ASSUME IInv, AllSound, NEW i \in BOOLEAN, NEW d \in BOOLEAN, Advance(i, d)
  PROVE  IInv'
<1> USE DEF IInv
<1> DEFINE accesses == ex.ins.op \in Loads \union {"sw"}
           alu_out == IF ex.ins.rd # 0 /\ ~accesses THEN ex_alu_out ELSE 0
           address == IF accesses THEN ex_alu_out ELSE 0
           wdata == IF ex.ins.op = "sw" THEN ex.rs2_out ELSE 0
           rdata == IF data_read THEN mem_rdata ELSE 0
<1>1. /\ PC' = IF ex_branch THEN ex_alu_out ELSE NextPC(PC)
      /\ IMAR' = PC /\ IR' = Fetched /\ id_pc' = IMAR /\ imem' = imem
      /\ MemToWb /\ RegisterWrite /\ dmem' = Written
  BY DEF Advance, Fetch
<1>2. mem' = [ins |-> ex.ins, pc |-> ex.pc, alu_out |-> alu_out, br_en |-> ex_br_en,
              branch |-> ex_branch, address |-> address, wdata |-> wdata]
  BY DEF Advance, ExToMem
<1>3. wb' = [ins |-> mem.ins, pc |-> mem.pc, alu_out |-> mem.alu_out, br_en |-> mem.br_en,
             branch |-> mem.branch, rdata |-> rdata]
  BY <1>1 DEF MemToWb
<1>4. ex_branch \in BOOLEAN /\ (ex_branch => Jumps(ex.ins, ex_br_en))
  BY DEF ex_branch, Jumps
<1>5. branch_taken = (ex_branch \/ mem.branch \/ wb.branch)
  BY DEF branch_taken
<1>6. ex' = IF branch_taken
             THEN [ins |-> Nop, pc |-> NoPC, rs1_out |-> 0, rs2_out |-> 0]
             ELSE [ins |-> IR, pc |-> id_pc,
                   rs1_out |-> forward(IR, IR.rs1), rs2_out |-> forward(IR, IR.rs2)]
  BY DEF Advance, IdToEx
<1>7. /\ PC' \in Word /\ PC # NoPC
      /\ IR.rs1 \in Regs /\ IR.rs2 \in Regs
  BY <1>1, SignalType, PlusType, PipelineAssumption DEF TypeOK, Instruction
<1>8. TypeOK'
  <2>1. ex' \in [ins : Instruction, pc : Address, rs1_out : Word, rs2_out : Word]
    <3>1. forward(IR, IR.rs1) \in Word /\ forward(IR, IR.rs2) \in Word
      BY <1>7, ForwardType
    <3> QED BY <1>6, <3>1, SmallWords, BubbleType DEF TypeOK, Address
  <2>2. mem' \in [ins : Instruction, pc : Address, alu_out : Word, br_en : {0, 1},
                  branch : BOOLEAN, address : Word, wdata : Word]
    <3>1. alu_out \in Word /\ address \in Word /\ wdata \in Word /\ ex_br_en \in {0, 1}
      BY SignalType, SmallWords DEF TypeOK
    <3> HIDE DEF alu_out, address, wdata
    <3> QED BY <1>2, <1>4, <3>1 DEF TypeOK
  <2>3. wb' \in [ins : Instruction, pc : Address, alu_out : Word, br_en : {0, 1},
                 branch : BOOLEAN, rdata : Word]
    <3>1. rdata \in Word
      BY SignalType, SmallWords
    <3> HIDE DEF rdata
    <3> QED BY <1>3, <3>1 DEF TypeOK
  <2>4. regfile' \in [Regs -> Word] /\ dmem' \in [Word -> Word] /\ imem' \in Programs
    BY <1>1, SignalType DEF RegisterWrite, TypeOK
  <2>5. PC' \in Word /\ IMAR' \in Address /\ id_pc' \in Address /\ IR' \in Instruction
    BY <1>1, <1>7, FetchedType DEF TypeOK, Address
  <2> QED BY <2>1, <2>2, <2>3, <2>4, <2>5 DEF TypeOK
<1> HIDE DEF accesses, alu_out, address, wdata, rdata
<1>9. Stages'
  <2>1. IR' = IF id_pc' = NoPC THEN Cleared ELSE imem'[id_pc']
    BY <1>1 DEF Fetched
  <2>2. InStage(ex.ins, ex.pc)' /\ InStage(mem.ins, mem.pc)'
    BY <1>1, <1>2, <1>6, BubbleType DEF Stages, InStage
  <2>3. mem'.branch => mem'.ins.op \notin Loads
    BY <1>2, <1>4, LoadsOnlyLoad
  <2>4. id_pc' = NoPC => ex'.pc = NoPC /\ ~mem'.branch /\ ~wb'.branch
    <3>1. SUFFICES ASSUME IMAR = NoPC
                   PROVE  ex'.pc = NoPC /\ ~mem'.branch /\ ~wb'.branch
      BY <1>1
    <3>2. id_pc = NoPC /\ ex.pc = NoPC /\ ~mem.branch
      BY <3>1 DEF Stages
    <3>3. ~ex_branch
      BY <3>2, NoneInEx
    <3> QED BY <1>2, <1>3, <1>6, <3>2, <3>3
  <2>5. /\ id_pc' # NoPC => IMAR' # NoPC
        /\ IMAR' = NoPC => PC' = Boot
        /\ IMAR' # NoPC /\ id_pc' = NoPC => IMAR' = Boot
    BY <1>1, <1>7 DEF Stages
  <2> QED BY <2>1, <2>2, <2>3, <2>4, <2>5 DEF Stages
<1>10. RightPath'
  <2>1. IMAR' # NoPC /\ ~mem'.branch => PC' = NextPC(IMAR')
    BY <1>1, <1>2
  <2>2. id_pc' # NoPC /\ ~mem'.branch /\ ~wb'.branch => IMAR' = NextPC(id_pc')
    BY <1>1, <1>2, <1>3 DEF RightPath
  <2>3. ex'.pc # NoPC => id_pc' = NextPC(ex'.pc) /\ ~mem'.branch /\ ~wb'.branch
    BY <1>1, <1>2, <1>3, <1>5, <1>6 DEF RightPath
  <2>4. wb'.branch => mem'.pc = NoPC /\ ~mem'.branch
    <3>1. SUFFICES ASSUME mem.branch
                   PROVE  mem'.pc = NoPC /\ ~mem'.branch
      BY <1>3
    <3>2. ex.pc = NoPC
      BY <3>1 DEF RightPath
    <3> QED BY <1>2, <3>2, NoneInEx
  <2> QED BY <2>1, <2>2, <2>3, <2>4 DEF RightPath
<1>11. ForwardedOperands'
  <2>1. SUFFICES ASSUME ex'.pc # NoPC
                 PROVE  ForwardedOperands'
    BY DEF ForwardedOperands
  <2>2. ~branch_taken /\ id_pc # NoPC
    BY <1>6, <2>1
  <2>3. ex' = [ins |-> IR, pc |-> id_pc,
               rs1_out |-> forward(IR, IR.rs1), rs2_out |-> forward(IR, IR.rs2)]
    BY <1>6, <2>2
  <2>4. ASSUME NEW r \in Regs, r = IR.rs1 \/ IR.op \notin Loads,
               ~(ex.ins.op \in Loads /\ ex.ins.rd = r)
        PROVE  forward(IR, r) = RegsAhead'[r]
    <3> DEFINE result == RegfileMux(ex.ins, At(ex.pc), ex_alu_out, ex_br_en, Written[ex_alu_out])
    <3>1. RegsAhead' = Put(RegsAhead, ex.ins, result)
      BY AdvanceAhead
    <3>2. RegsAhead'[r] = IF Supplies(ex.ins, r) THEN result ELSE RegsAhead[r]
      <4> HIDE DEF result
      <4> QED BY <3>1, SignalType, PutAt DEF TypeOK
    <3>3. Supplies(ex.ins, r) => result = ExResult
      BY <2>4, MuxAgree DEF Supplies, ExResult
    <3> QED BY <2>2, <2>4, <3>2, <3>3, ForwardRight
  <2>5. UsesRs2(IR) => IR.op \notin Loads
    BY DEF UsesRs2, Loads
  <2>6. \A r : Awaits(r)' = (ex.ins.op \in Loads /\ ex.ins.rd = r)
    BY <1>2 DEF Awaits, data_read
  <2> QED BY <1>7, <2>3, <2>4, <2>5, <2>6 DEF ForwardedOperands
<1> QED BY <1>8, <1>9, <1>10, <1>11

(* Nothing outside the registers and the memories is looked at.             *)
LEMMA StutterInv ==
  ASSUME IInv, UNCHANGED vars
  PROVE  IInv'
BY DEF IInv, vars, TypeOK, Stages, InStage, RightPath, ForwardedOperands, Awaits, data_read,
       RegsAhead, mem_rdata, wb_regfilemux_out

(* The inductive invariant holds in every cycle, for programs without the   *)
(* two things the forwarding unit gets wrong.                               *)
THEOREM Invariance == AllSound => (Spec => []IInv)
<1> SUFFICES ASSUME AllSound PROVE Spec => []IInv
  OBVIOUS
<1>1. Init => IInv
  BY InitInv
<1>2. IInv /\ [Next]_vars => IInv'
  <2> SUFFICES ASSUME IInv, [Next]_vars PROVE IInv'
    OBVIOUS
  <2>1. ASSUME NEW i \in BOOLEAN, NEW d \in BOOLEAN, Stall(i, d) PROVE IInv'
    BY <2>1, StallInv
  <2>2. ASSUME NEW i \in BOOLEAN, NEW d \in BOOLEAN, Hazard(i, d) PROVE IInv'
    BY <2>2, HazardInv
  <2>3. ASSUME NEW i \in BOOLEAN, NEW d \in BOOLEAN, Advance(i, d) PROVE IInv'
    BY <2>3, AdvanceInv
  <2>4. CASE UNCHANGED vars
    BY <2>4, StutterInv
  <2> QED BY <2>1, <2>2, <2>3, <2>4 DEF Next
<1> QED BY <1>1, <1>2, PTL DEF Spec

(* Every register of the pipeline keeps to its width.                       *)
THEOREM TypeCorrect == AllSound => (Spec => []TypeOK)
<1>1. IInv => TypeOK
  BY DEF IInv
<1> QED BY <1>1, Invariance, PTL

(* The instruction in EX has the operands of the sequential machine, unless *)
(* it waits for the load ahead of it (forwarding_unit.sv:33-157).           *)
THEOREM OperandsForwarded == AllSound => (Spec => []ForwardedOperands)
<1>1. IInv => ForwardedOperands
  BY DEF IInv
<1> QED BY <1>1, Invariance, PTL

(* The front end is on the right path, except behind a taken branch that    *)
(* branch_taken still drops (datapath.sv:89).                               *)
THEOREM PathRight == AllSound => (Spec => []RightPath)
<1>1. IInv => RightPath
  BY DEF IInv
<1> QED BY <1>1, Invariance, PTL

-----------------------------------------------------------------------------
(* The refinement.                                                          *)

(* Both machines have the same instruction set.                             *)
LEMMA SameInstructions ==
  /\ \A ins, p, a, b : Machine!Alu(ins, p, a, b) = Alu(ins, p, a, b)
  /\ \A ins, a, b : Machine!Compare(ins, a, b) = Compare(ins, a, b)
  /\ \A ins, br : Machine!Jumps(ins, br) = Jumps(ins, br)
  /\ \A a : Machine!NextPC(a) = NextPC(a)
  /\ \A R, ins, v : Machine!Put(R, ins, v) = Put(R, ins, v)
  /\ \A ins, p, alu, br, x :
       Machine!RegfileMux(ins, p, alu, br, x) = RegfileMux(ins, p, alu, br, x)
<1>1. \A a, b : Machine!Plus(a, b) = Plus(a, b)
  BY DEF Machine!Plus, Plus
<1>2. \A a : Machine!NextPC(a) = NextPC(a)
  BY <1>1 DEF Machine!NextPC, NextPC
<1>3. Machine!Loads = Loads /\ Machine!Writers = Writers
  BY DEF Machine!Loads, Loads, Machine!Writers, Writers
<1>4. \A ins, word : Machine!Extend(ins, word) = Extend(ins, word)
  BY DEF Machine!Extend, Extend
<1>5. \A ins, p, a, b : Machine!Alu(ins, p, a, b) = Alu(ins, p, a, b)
  BY <1>1, <1>3 DEF Machine!Alu, Alu
<1>6. \A ins, a, b : Machine!Compare(ins, a, b) = Compare(ins, a, b)
  BY DEF Machine!Compare, Compare
<1>7. \A ins, br : Machine!Jumps(ins, br) = Jumps(ins, br)
  BY DEF Machine!Jumps, Jumps
<1>8. \A R, ins, v : Machine!Put(R, ins, v) = Put(R, ins, v)
  BY <1>3 DEF Machine!Put, Put
<1>9. \A ins, p, alu, br, x :
        Machine!RegfileMux(ins, p, alu, br, x) = RegfileMux(ins, p, alu, br, x)
  BY <1>2, <1>3, <1>4 DEF Machine!RegfileMux, RegfileMux
<1> QED BY <1>2, <1>5, <1>6, <1>7, <1>8, <1>9

(* After reset nothing has been executed.                                   *)
LEMMA InitRefines ==
  ASSUME Init
  PROVE  Machine!Init
<1> USE DEF Init
<1>1. Written = Data
  BY BubbleType, BubbleIdle DEF Written, data_write
<1>2. NextAhead = Boot
  BY DEF NextAhead
<1>3. RegsAhead = [r \in Regs |-> 0]
  BY BubbleType, BubbleIdle DEF RegsAhead
<1> QED BY <1>1, <1>2, <1>3 DEF Machine!Init

(* The instruction that leaves EX is the one the sequential machine         *)
(* executes, and the one after it is next.                                  *)
LEMMA AdvanceExecutes ==
  ASSUME IInv, AllSound, NEW i \in BOOLEAN, NEW d \in BOOLEAN, Advance(i, d), ex.pc # NoPC
  PROVE  Machine!Execute
<1> USE DEF IInv
<1>1. /\ ex.pc \in Word /\ At(ex.pc) = ex.pc /\ ex.ins = imem[ex.pc]
      /\ id_pc = NextPC(ex.pc) /\ id_pc # NoPC
      /\ branch_taken = ex_branch
  BY InEx, PipelineAssumption
<1>2. NextAhead = ex.pc
  BY DEF NextAhead
<1> DEFINE a == RegsAhead[ex.ins.rs1]
           b == RegsAhead[ex.ins.rs2]
<1>3. ~Awaits(ex.ins.rs1) /\ ~Awaits(ex.ins.rs2)
  BY DEF Advance, load_hazard, Awaits
<1>4. (UsesRs1(ex.ins) => ex.rs1_out = a) /\ (UsesRs2(ex.ins) => ex.rs2_out = b)
  BY <1>3 DEF ForwardedOperands
<1>5. Alu(ex.ins, ex.pc, a, b) = ex_alu_out /\ Compare(ex.ins, a, b) = ex_br_en
  <2> HIDE DEF a, b
  <2>1. ex.ins \in Instruction
    BY DEF TypeOK
  <2>2. /\ Alu(ex.ins, ex.pc, ex.rs1_out, ex.rs2_out) = Alu(ex.ins, ex.pc, a, b)
        /\ Compare(ex.ins, ex.rs1_out, ex.rs2_out) = Compare(ex.ins, a, b)
    BY <1>4, <2>1, AluAgree
  <2> QED BY <1>1, <2>2 DEF ex_alu_out, ex_br_en
<1>6. RegsAhead' = Put(RegsAhead, ex.ins,
        RegfileMux(ex.ins, ex.pc, ex_alu_out, ex_br_en, Written[ex_alu_out]))
  BY <1>1, AdvanceAhead
<1>7. Written' = IF ex.ins.op = "sw" THEN [Written EXCEPT ![ex_alu_out] = b] ELSE Written
  <2>1. ex.ins.op = "sw" => ex.rs2_out = b
    BY <1>4 DEF UsesRs2
  <2> QED BY <2>1, AdvanceAhead
<1>8. NextAhead' = IF Jumps(ex.ins, ex_br_en) THEN ex_alu_out ELSE NextPC(ex.pc)
  <2>1. ex_branch = Jumps(ex.ins, ex_br_en)
    BY DEF Advance, ex_branch, Jumps
  <2>2. CASE ex_branch
    <3>1. ex'.pc = NoPC /\ mem'.branch /\ PC' = ex_alu_out
      BY <1>1, <2>2 DEF Advance, Fetch, IdToEx, ExToMem
    <3> QED BY <2>1, <2>2, <3>1 DEF NextAhead
  <2>3. CASE ~ex_branch
    <3>1. ex'.pc = id_pc
      BY <1>1, <2>3 DEF Advance, IdToEx
    <3> QED BY <1>1, <2>1, <2>3, <3>1 DEF NextAhead
  <2> QED BY <2>2, <2>3
<1>9. imem' = imem
  BY DEF Advance
<1> QED BY <1>1, <1>2, <1>5, <1>6, <1>7, <1>8, <1>9, SameInstructions DEF Machine!Execute

(* An edge at which no instruction leaves EX is not seen.                   *)
LEMMA AdvanceIdle ==
  ASSUME IInv, AllSound, NEW i \in BOOLEAN, NEW d \in BOOLEAN, Advance(i, d), ex.pc = NoPC
  PROVE  UNCHANGED Machine!isaVars
<1> USE DEF IInv
<1>1. ex.ins \in Bubble /\ ~ex_branch
  BY NoneInEx
<1>2. RegsAhead' = RegsAhead /\ Written' = Written
  BY <1>1, BubbleIdle, AdvanceAhead
<1>3. /\ mem'.branch = FALSE /\ wb'.branch = mem.branch
      /\ id_pc' = IMAR /\ IMAR' = PC /\ imem' = imem
      /\ ex'.pc = IF mem.branch \/ wb.branch THEN NoPC ELSE id_pc
      /\ PC # NoPC
  <2>1. ex_branch = FALSE
    BY <1>1 DEF ex_branch, Jumps
  <2> QED BY <2>1, PipelineAssumption
          DEF Advance, Fetch, IdToEx, ExToMem, MemToWb, branch_taken, TypeOK
<1>4. NextAhead' = NextAhead
  BY <1>3 DEF NextAhead, Stages
<1> QED BY <1>2, <1>3, <1>4 DEF Machine!isaVars

(* The pipeline executes the program as the sequential machine does, for    *)
(* every set of sound programs (datapath.sv, forwarding_unit.sv).           *)
THEOREM Refinement == AllSound => (Spec => ImplementsIsa)
<1> SUFFICES ASSUME AllSound PROVE Spec => ImplementsIsa
  OBVIOUS
<1>1. Init => Machine!Init
  BY InitRefines
<1>2. IInv /\ [Next]_vars => [Machine!Execute]_(Machine!isaVars)
  <2> SUFFICES ASSUME IInv, [Next]_vars
               PROVE  Machine!Execute \/ UNCHANGED Machine!isaVars
    OBVIOUS
  <2>1. ASSUME NEW i \in BOOLEAN, NEW d \in BOOLEAN, Stall(i, d)
        PROVE  UNCHANGED Machine!isaVars
    BY <2>1, StallAhead DEF Stall, IInv, Machine!isaVars
  <2>2. ASSUME NEW i \in BOOLEAN, NEW d \in BOOLEAN, Hazard(i, d)
        PROVE  UNCHANGED Machine!isaVars
    BY <2>2, HazardAhead DEF Hazard, Machine!isaVars
  <2>3. ASSUME NEW i \in BOOLEAN, NEW d \in BOOLEAN, Advance(i, d)
        PROVE  Machine!Execute \/ UNCHANGED Machine!isaVars
    BY <2>3, AdvanceExecutes, AdvanceIdle
  <2>4. CASE UNCHANGED vars
    BY <2>4 DEF vars, Machine!isaVars, RegsAhead, Written, NextAhead, data_write, mem_rdata,
               wb_regfilemux_out
  <2> QED BY <2>1, <2>2, <2>3, <2>4 DEF Next
<1>3. Spec => []IInv
  BY Invariance
<1> QED BY <1>1, <1>2, <1>3, PTL DEF Spec, ImplementsIsa, Machine!Spec
=============================================================================
