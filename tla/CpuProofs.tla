----------------------------- MODULE CpuProofs -----------------------------
(***************************************************************************)
(* Theorems about Cpu, for every word size, number of registers, ROM,      *)
(* program, ALU and data memory that satisfy the assumptions of Rv32i.     *)
(***************************************************************************)
EXTENDS CpuInvariant, TLAPS

(* The codes of define.v are numbers throughout.                           *)
USE DEF ALU_OP_ADD, ALU_OP_SUB, ALU_OP_SLL, ALU_OP_SLT, ALU_OP_SLTU,
        ALU_OP_XOR, ALU_OP_SRL, ALU_OP_OR, ALU_OP_AND, ALU_OP_SRA,
        ALU_OP_BEQ, ALU_OP_BNE, ALU_OP_BLT, ALU_OP_BGE, ALU_OP_BLTU,
        ALU_OP_BGEU, ALU_OP_XXX, WTR_MEM, WTR_ALU, WTR_PC4, WTR_IMM,
        MEMREAD_NOP, MEMREAD_LB, MEMREAD_LH, MEMREAD_LW, MEMREAD_LBU,
        MEMREAD_LHU, MEMWRITE_NOP, MEMWRITE_SB, MEMWRITE_SH, MEMWRITE_SW

-----------------------------------------------------------------------------
(* Types of the operators of Rv32i and of the decoder.                     *)

LEMMA AdderType == \A a, b \in Word : Adder32(a, b) \in Word
  BY SizesAssumption DEF Adder32, Word

LEMMA ClearBitType == \A a \in Word : ClearBit0(a) \in Word
  BY SizesAssumption DEF ClearBit0, Word

LEMMA SmallWords == 0 \in Word /\ 4 \in Word /\ 0 \in Reg
  BY SizesAssumption DEF Word, Reg

LEMMA RomType ==
  ASSUME NEW m \in Rom, NEW a \in Word PROVE RomAt(m, a) \in Inst
<1>1. (a \div 4) % RomWords \in 0 .. RomWords - 1
  BY SizesAssumption DEF Word
<1> QED BY <1>1 DEF RomAt, Rom

LEMMA ControllerType ==
  ASSUME NEW i \in Inst PROVE Controller(i) \in Control
  BY DEF Controller, Control, Inst, LoadMode, StoreMode, ALU_Ctrl, ALUOp

(* The all-zero word decodes to control signals that do nothing.           *)
LEMMA ZeroDecoded == Controller(ZeroInst) = ZeroCtl
<1>1. ALUOp("NONE", 0) = 0 BY DEF ALUOp
<1>2. ALU_Ctrl(0, 0, FALSE) = 0 BY DEF ALU_Ctrl
<1> DEFINE i == ZeroInst
<1>3. i.opcode = "NONE" /\ i.funct3 = 0 /\ i.funct7b5 = FALSE
  BY DEF ZeroInst
<1>4. (i.opcode \in {"ALUR", "ALUI", "LOAD", "LUI", "AUIPC", "JAL", "JALR"})
        = FALSE
  BY <1>3
<1>5. (i.opcode \in {"ALUI", "LOAD", "STORE", "AUIPC", "JALR"}) = FALSE
  BY <1>3
<1> DEFINE c == Controller(i)
<1>6. c.RegWrite = FALSE /\ c.ALUSrcB = FALSE BY <1>4, <1>5 DEF Controller
<1>7. c.WTR = 0 /\ c.ALU_Ctrl = 0 BY <1>1, <1>2, <1>3 DEF Controller
<1>8. c.MemRead = 0 /\ c.MemWrite = 0 BY <1>3 DEF Controller
<1>9. /\ c.ALUSrcA = FALSE /\ c.Branch = FALSE
      /\ c.JAL = FALSE /\ c.JALR = FALSE
  BY <1>3 DEF Controller
<1>10. c = [RegWrite |-> c.RegWrite, WTR |-> c.WTR, MemRead |-> c.MemRead,
            MemWrite |-> c.MemWrite, ALU_Ctrl |-> c.ALU_Ctrl,
            ALUSrcA |-> c.ALUSrcA, ALUSrcB |-> c.ALUSrcB,
            Branch |-> c.Branch, JAL |-> c.JAL, JALR |-> c.JALR]
  BY DEF Controller
<1> QED BY <1>6, <1>7, <1>8, <1>9, <1>10 DEF ZeroCtl

LEMMA ZeroTypes ==
  /\ ZeroInst \in Inst
  /\ ZeroIfId \in [PC : Word, PC4 : Word, Inst : Inst, pred : BOOLEAN]
  /\ ZeroCtl \in Control
  /\ ZeroIdEx \in [ctl : Control, Imm : Word, Data1 : Word, Data2 : Word,
                   Rs1 : Reg, Rs2 : Reg, Rd : Reg, PC : Word, PC4 : Word,
                   PCImm : Word, pred : BOOLEAN]
  /\ ZeroExMem \in [MemRead : 0 .. 5, MemWrite : 0 .. 3, RegWrite : BOOLEAN,
                    WTR : 0 .. 3, PC4 : Word, Result : Word, Data2 : Word,
                    Imm : Word, Rd : Reg]
  /\ ZeroMemWb \in [RegWrite : BOOLEAN, WTR : 0 .. 3, Rd : Reg, PC4 : Word,
                    Data : Word, Result : Word, Imm : Word]
  /\ ZeroRegs \in [Reg -> Word]
  /\ NoneLive \in [id : BOOLEAN, ex : BOOLEAN, mem : BOOLEAN]
<1>1. ZeroInst \in Inst BY SmallWords DEF ZeroInst, Inst, Opcode
<1>2. ZeroCtl \in Control BY DEF ZeroCtl, Control
<1> QED BY <1>1, <1>2, SmallWords
        DEF ZeroIfId, ZeroIdEx, ZeroExMem, ZeroMemWb, ZeroRegs, NoneLive

-----------------------------------------------------------------------------
(* Type correctness.                                                       *)

(* In a typed state every wire carries a value of its width.               *)
LEMMA WireTypes ==
  ASSUME TypeOK
  PROVE  /\ wb_wdata \in Word
         /\ mem_wdata \in Word
         /\ mem_rdata \in Word
         /\ \A rs \in Reg, d \in Word : Forward(rs, d) \in Word
         /\ forwardA_data \in Word /\ forwardB_data \in Word
         /\ alu_in1 \in Word /\ alu_in2 \in Word
         /\ ex_ALU_Result \in Word
         /\ ex_Branch_cond \in BOOLEAN
         /\ ex_Rs1Imm \in Word
         /\ id_ctl \in Control
         /\ id_PCImm \in Word
         /\ \A rs \in Reg : ReadPort(rs) \in Word
         /\ if_PC4 \in Word
         /\ if_Inst \in Inst
         /\ hazard \in {REDIRECT, STALL, JALJUMP, ADVANCE}
<1> USE DEF TypeOK
<1>1. wb_wdata \in Word BY DEF wb_wdata
<1>2. mem_wdata \in Word BY SmallWords DEF mem_wdata
<1>3. mem_rdata \in Word BY RamAssumption DEF mem_rdata
<1>4. \A rs \in Reg, d \in Word : Forward(rs, d) \in Word
  BY <1>1, <1>2 DEF Forward
<1>5. forwardA_data \in Word /\ forwardB_data \in Word
  BY <1>4 DEF forwardA_data, forwardB_data
<1>6. alu_in1 \in Word /\ alu_in2 \in Word BY <1>5 DEF alu_in1, alu_in2
<1>7. id_ex.ctl.ALU_Ctrl \in 0 .. 15 BY DEF Control
<1>8. ex_ALU_Result \in Word /\ ex_Branch_cond \in BOOLEAN
  BY <1>6, <1>7, AluAssumption DEF ex_ALU_Result, ex_Branch_cond
<1>9. ex_Rs1Imm \in Word BY <1>8, ClearBitType DEF ex_Rs1Imm
<1>10. id_ctl \in Control BY ControllerType DEF id_ctl
<1>11. id_PCImm \in Word BY AdderType DEF id_PCImm, Inst
<1>12. \A rs \in Reg : ReadPort(rs) \in Word
  BY <1>1, SmallWords DEF ReadPort
<1>13. if_PC4 \in Word /\ if_Inst \in Inst
  BY AdderType, RomType, SmallWords DEF if_PC4, if_Inst
<1>14. hazard \in {REDIRECT, STALL, JALJUMP, ADVANCE} BY DEF hazard
<1> QED BY <1>1, <1>2, <1>3, <1>4, <1>5, <1>6, <1>8, <1>9, <1>10, <1>11,
           <1>12, <1>13, <1>14

LEMMA PredictionType ==
  ASSUME TypeOK, NEW p \in Predictions
  PROVE  p.taken \in BOOLEAN /\ p.target \in Word
<1>1. Adder32(pc, if_Inst.imm) \in Word
  BY WireTypes, AdderType DEF TypeOK, Inst
<1>2. p = NotTaken \/ p = Taken BY DEF Predictions
<1>3. CASE p = NotTaken BY <1>3, SmallWords DEF NotTaken
<1>4. CASE p = Taken BY <1>4, <1>1 DEF Taken
<1> QED BY <1>2, <1>3, <1>4

LEMMA ClockType ==
  ASSUME TypeOK, NEW p \in Predictions, Clock(p) PROVE TypeOK'
<1> USE WireTypes, PredictionType
<1>1. rom' \in Rom BY DEF Clock, TypeOK
<1>2. pc' \in Word BY DEF Clock, TypeOK, next_PC
<1>3. if_id' \in [PC : Word, PC4 : Word, Inst : Inst, pred : BOOLEAN]
  BY ZeroTypes DEF Clock, TypeOK, IfIdRegister
<1>4. id_ex' \in [ctl : Control, Imm : Word, Data1 : Word, Data2 : Word,
                  Rs1 : Reg, Rs2 : Reg, Rd : Reg, PC : Word, PC4 : Word,
                  PCImm : Word, pred : BOOLEAN]
  BY ZeroTypes DEF Clock, TypeOK, IdExRegister, Inst
<1>5. ex_mem' \in [MemRead : 0 .. 5, MemWrite : 0 .. 3, RegWrite : BOOLEAN,
                   WTR : 0 .. 3, PC4 : Word, Result : Word, Data2 : Word,
                   Imm : Word, Rd : Reg]
  BY DEF Clock, TypeOK, ExMemRegister, Control
<1>6. mem_wb' \in [RegWrite : BOOLEAN, WTR : 0 .. 3, Rd : Reg, PC4 : Word,
                   Data : Word, Result : Word, Imm : Word]
  BY DEF Clock, TypeOK, MemWbRegister
<1>7. reg_Data' \in [Reg -> Word] BY DEF Clock, TypeOK, RegisterFile
<1>8. ram' \in RamStates
  BY RamAssumption DEF Clock, TypeOK, DataRam
<1>9. live' \in [id : BOOLEAN, ex : BOOLEAN, mem : BOOLEAN]
  BY DEF Clock, TypeOK, REDIRECT, STALL, JALJUMP, ADVANCE
<1> QED BY <1>1, <1>2, <1>3, <1>4, <1>5, <1>6, <1>7, <1>8, <1>9 DEF TypeOK

LEMMA InitType == Init => TypeOK
  BY ZeroTypes, SmallWords, ImagesAssumption DEF Init, TypeOK

LEMMA ResetType == TypeOK /\ Reset => TypeOK'
  BY ZeroTypes, SmallWords, RamAssumption DEF Reset, TypeOK

(* Whatever the program and the predictions, the registers of the pipeline *)
(* hold values of their widths: nothing that a flush, a forwarded value or *)
(* a wrapped address produces leaves them.                                 *)
THEOREM TypeCorrect == Spec => []TypeOK
<1>1. TypeOK /\ [Next]_vars => TypeOK'
  <2> SUFFICES ASSUME TypeOK, [Next]_vars PROVE TypeOK'
    OBVIOUS
  <2>1. CASE Tick
    <3>1. PICK p \in Predictions : Clock(p)
      BY <2>1 DEF Tick, Redirect, LoadUseStall, JalJump, Advance
    <3> QED BY <3>1, ClockType
  <2>2. CASE Reset BY <2>2, ResetType
  <2>3. CASE UNCHANGED vars BY <2>3 DEF vars, TypeOK
  <2> QED BY <2>1, <2>2, <2>3 DEF Next
<1> QED BY <1>1, InitType, PTL DEF Spec

-----------------------------------------------------------------------------
(* The registers as the architecture sees them.                            *)

(* The write-first read port delivers the architectural value.             *)
LEMMA ReadPortValue ==
  ASSUME TypeOK, ZeroInv, NEW rs \in Reg PROVE ReadPort(rs) = AbsRegs[rs]
  BY DEF TypeOK, ZeroInv, ReadPort, AbsRegs, wb_writes

(* A clock edge completes the pending write-back and makes the result of   *)
(* MEM the pending one.                                                    *)
LEMMA RegsNext ==
  ASSUME TypeOK, NEW p \in Predictions, Clock(p)
  PROVE  reg_Data' = AbsRegs /\ AbsRegs' = RegsAfterMEM
<1>1. reg_Data' = AbsRegs BY DEF Clock, RegisterFile, AbsRegs
<1>2. wb_writes' = mem_writes /\ mem_wb'.Rd = ex_mem.Rd
  BY DEF Clock, MemWbRegister, wb_writes, mem_writes
<1>3. wb_wdata' = mem_result
  BY DEF Clock, MemWbRegister, wb_wdata, mem_result, mem_wdata, TypeOK
<1> QED BY <1>1, <1>2, <1>3 DEF AbsRegs, RegsAfterMEM

(* Forwarding delivers the architectural value, unless it would have to    *)
(* come from a load that is still in MEM.                                  *)
LEMMA ForwardValue ==
  ASSUME TypeOK, NEW rs \in Reg,
         ex_mem.MemRead # MEMREAD_NOP => ex_mem.Rd # rs
  PROVE  Forward(rs, reg_Data[rs]) = RegsAfterMEM[rs]
<1>1. CASE mem_writes /\ ex_mem.Rd = rs
  <2>1. ex_mem.WTR = WTR_MEM => mem_rdata = 0
    BY <1>1, RamAssumption DEF mem_rdata, TypeOK
  <2>2. mem_result = mem_wdata BY <2>1 DEF mem_result, mem_wdata
  <2>3. AbsRegs \in [Reg -> Word] BY WireTypes DEF AbsRegs, TypeOK
  <2> QED BY <1>1, <2>2, <2>3 DEF Forward, RegsAfterMEM
<1>2. CASE ~(mem_writes /\ ex_mem.Rd = rs)
  <2>1. RegsAfterMEM[rs] = AbsRegs[rs]
    BY <1>2, WireTypes DEF RegsAfterMEM, AbsRegs, TypeOK
  <2>2. Forward(rs, reg_Data[rs]) = AbsRegs[rs]
    BY <1>2 DEF Forward, AbsRegs, wb_writes, TypeOK
  <2> QED BY <2>1, <2>2
<1> QED BY <1>1, <1>2

LEMMA FreshLemma ==
  ASSUME TypeOK, ExecuteInv, LoadUseInv PROVE OperandsFresh
<1> SUFFICES ASSUME live.ex
    PROVE  /\ forwardA_data = RegsAfterMEM[id_ex.Rs1]
           /\ forwardB_data = RegsAfterMEM[id_ex.Rs2]
  BY DEF OperandsFresh
<1>1. id_ex.Rs1 \in Reg /\ id_ex.Rs2 \in Reg BY DEF TypeOK
<1>2. /\ id_ex.Data1 = reg_Data[id_ex.Rs1]
      /\ id_ex.Data2 = reg_Data[id_ex.Rs2]
  BY DEF ExecuteInv
<1>3. ex_mem.MemRead # MEMREAD_NOP =>
        ex_mem.Rd # id_ex.Rs1 /\ ex_mem.Rd # id_ex.Rs2
  BY DEF LoadUseInv
<1> QED BY <1>1, <1>2, <1>3, ForwardValue DEF forwardA_data, forwardB_data

-----------------------------------------------------------------------------
(* What a clock edge does, by the decision of the hazard detector.         *)

LEMMA RedirectEdge ==
  ASSUME NEW p, Clock(p), hazard = REDIRECT
  PROVE  /\ id_ex.ctl.JALR \/ ex_pred_fail
         /\ pc' = next_PC(p) /\ if_id' = ZeroIfId /\ id_ex' = ZeroIdEx
         /\ live' = [id |-> FALSE, ex |-> FALSE, mem |-> live.ex]
         /\ rom' = rom
<1>1. id_ex.ctl.JALR \/ ex_pred_fail
  BY DEF hazard, REDIRECT, STALL, JALJUMP, ADVANCE
<1> QED BY <1>1 DEF Clock, IfIdRegister, IdExRegister, REDIRECT

LEMMA StallEdge ==
  ASSUME TypeOK, NEW p, Clock(p), hazard = STALL
  PROVE  /\ ~id_ex.ctl.JALR /\ ~ex_pred_fail /\ load_use_hazard
         /\ pc' = pc /\ if_id' = if_id /\ id_ex' = ZeroIdEx
         /\ live' = [id |-> live.id, ex |-> FALSE, mem |-> live.ex]
         /\ rom' = rom
<1>1. ~id_ex.ctl.JALR /\ ~ex_pred_fail /\ load_use_hazard
  BY DEF hazard, REDIRECT, STALL, JALJUMP, ADVANCE
<1> QED BY <1>1 DEF Clock, IfIdRegister, IdExRegister, STALL, TypeOK

LEMMA JalJumpEdge ==
  ASSUME TypeOK, NEW p, Clock(p), hazard = JALJUMP
  PROVE  /\ ~id_ex.ctl.JALR /\ ~ex_pred_fail /\ ~load_use_hazard
         /\ id_ctl.JAL /\ ~if_id.pred
         /\ pc' = id_PCImm /\ if_id' = ZeroIfId
         /\ live' = [id |-> FALSE, ex |-> live.id, mem |-> live.ex]
         /\ rom' = rom
<1>1. /\ ~id_ex.ctl.JALR /\ ~ex_pred_fail /\ ~load_use_hazard
      /\ id_ctl.JAL /\ ~if_id.pred
  BY DEF hazard, REDIRECT, STALL, JALJUMP, ADVANCE
<1> QED BY <1>1 DEF Clock, IfIdRegister, IdExRegister, JALJUMP, TypeOK,
                    next_PC

LEMMA AdvanceEdge ==
  ASSUME TypeOK, NEW p, Clock(p), hazard = ADVANCE
  PROVE  /\ ~id_ex.ctl.JALR /\ ~ex_pred_fail /\ ~load_use_hazard
         /\ ~(id_ctl.JAL /\ ~if_id.pred)
         /\ pc' = IF p.taken THEN p.target ELSE if_PC4
         /\ if_id' = [PC |-> pc, PC4 |-> if_PC4, Inst |-> if_Inst,
                      pred |-> p.taken]
         /\ live' = [id |-> TRUE, ex |-> live.id, mem |-> live.ex]
         /\ rom' = rom
<1>1. /\ ~id_ex.ctl.JALR /\ ~ex_pred_fail /\ ~load_use_hazard
      /\ ~(id_ctl.JAL /\ ~if_id.pred)
  BY DEF hazard, REDIRECT, STALL, JALJUMP, ADVANCE
<1> QED BY <1>1 DEF Clock, IfIdRegister, IdExRegister, ADVANCE, TypeOK,
                    next_PC

(* Whenever EX takes something over from ID, it takes all of it.           *)
LEMMA DecodeEdge ==
  ASSUME TypeOK, NEW p, Clock(p), hazard \in {JALJUMP, ADVANCE}
  PROVE  id_ex' = [ctl |-> id_ctl, Imm |-> if_id.Inst.imm,
                   Data1 |-> ReadPort(if_id.Inst.rs1),
                   Data2 |-> ReadPort(if_id.Inst.rs2),
                   Rs1 |-> if_id.Inst.rs1, Rs2 |-> if_id.Inst.rs2,
                   Rd |-> if_id.Inst.rd, PC |-> if_id.PC, PC4 |-> if_id.PC4,
                   PCImm |-> id_PCImm, pred |-> if_id.pred]
  BY DEF Clock, IdExRegister, JALJUMP, ADVANCE

-----------------------------------------------------------------------------
(* Preservation of the inductive invariant by a clock edge, stage by stage.*)

LEMMA MemPCWord == TypeOK => MemPC \in Word
  BY SizesAssumption DEF TypeOK, MemPC, Word

(* The address of an instruction is recovered from its PC + 4.             *)
LEMMA MemPCNext ==
  ASSUME TypeOK, ExecuteInv, live.ex, NEW p, Clock(p)
  PROVE  MemPC' = id_ex.PC
<1>1. ex_mem'.PC4 = Adder32(id_ex.PC, 4)
  BY DEF Clock, ExMemRegister, ExecuteInv
<1>2. id_ex.PC \in Word BY DEF TypeOK
<1> QED BY <1>1, <1>2, SizesAssumption DEF MemPC, Adder32, Word

LEMMA DecodeNext ==
  ASSUME TypeOK, DecodeInv, NEW p \in Predictions, Clock(p)
  PROVE  DecodeInv'
<1>1. CASE hazard = REDIRECT BY <1>1, RedirectEdge DEF DecodeInv
<1>2. CASE hazard = STALL BY <1>2, StallEdge DEF DecodeInv, id_PCImm
<1>3. CASE hazard = JALJUMP BY <1>3, JalJumpEdge DEF DecodeInv
<1>4. CASE hazard = ADVANCE
  <2>1. p.taken => /\ Predictable(if_Inst)
                   /\ p.target = Adder32(pc, if_Inst.imm)
    BY DEF Predictions, Taken, NotTaken, Predictable
  <2> QED BY <1>4, <2>1, AdvanceEdge
          DEF DecodeInv, id_PCImm, if_PC4, if_Inst
<1> QED BY <1>1, <1>2, <1>3, <1>4, WireTypes

LEMMA ExecuteNext ==
  ASSUME TypeOK, ZeroInv, DecodeInv, NEW p \in Predictions, Clock(p)
  PROVE  ExecuteInv'
<1>1. CASE hazard \in {REDIRECT, STALL}
  BY <1>1, RedirectEdge, StallEdge DEF ExecuteInv
<1>2. CASE hazard \in {JALJUMP, ADVANCE}
  <2>1. live'.ex = live.id /\ rom' = rom
    BY <1>2, JalJumpEdge, AdvanceEdge
  <2>2. CASE live.id
    <3>1. /\ if_id.Inst = RomAt(rom, if_id.PC)
          /\ if_id.PC4 = Adder32(if_id.PC, 4)
          /\ if_id.pred => Predictable(if_id.Inst)
      BY <2>2 DEF DecodeInv
    <3>2. if_id.Inst.rs1 \in Reg /\ if_id.Inst.rs2 \in Reg
      BY DEF TypeOK, Inst
    <3>3. /\ ReadPort(if_id.Inst.rs1) = reg_Data'[if_id.Inst.rs1]
          /\ ReadPort(if_id.Inst.rs2) = reg_Data'[if_id.Inst.rs2]
      BY <3>2, ReadPortValue, RegsNext
    <3>4. ex_Inst' = if_id.Inst
      BY <1>2, <2>1, <3>1, DecodeEdge DEF ex_Inst
    <3> QED BY <1>2, <2>1, <2>2, <3>1, <3>3, <3>4, DecodeEdge
            DEF ExecuteInv, id_ctl, id_PCImm
  <2>3. CASE ~live.id
    <3>1. if_id = ZeroIfId BY <2>3 DEF DecodeInv
    <3>2. ReadPort(0) = 0 BY DEF ReadPort
    <3>3. id_ctl = ZeroCtl BY <3>1, ZeroDecoded DEF id_ctl, ZeroIfId
    <3>4. id_PCImm = 0
      BY <3>1, SizesAssumption DEF id_PCImm, ZeroIfId, ZeroInst, Adder32
    <3>5. id_ex' = ZeroIdEx
      BY <1>2, <3>1, <3>2, <3>3, <3>4, DecodeEdge
         DEF ZeroIdEx, ZeroIfId, ZeroInst
    <3> QED BY <2>1, <2>3, <3>5 DEF ExecuteInv
  <2> QED BY <2>2, <2>3
<1> QED BY <1>1, <1>2, WireTypes

LEMMA SpeculationNext ==
  ASSUME TypeOK, DecodeInv, NEW p \in Predictions, Clock(p)
  PROVE  SpeculationInv'
<1> SUFFICES ASSUME live'.ex, ~id_ex'.ctl.JALR
    PROVE  FrontPC' = IF id_ex'.ctl.JAL \/ id_ex'.pred THEN id_ex'.PCImm
                      ELSE id_ex'.PC4
  BY DEF SpeculationInv
<1>1. hazard \in {JALJUMP, ADVANCE}
  BY WireTypes, RedirectEdge, StallEdge
<1>2. live.id BY <1>1, JalJumpEdge, AdvanceEdge
<1>3. pc = IF if_id.pred THEN id_PCImm ELSE if_id.PC4
  BY <1>2 DEF DecodeInv
<1>4. CASE hazard = JALJUMP
  BY <1>4, JalJumpEdge, DecodeEdge DEF FrontPC
<1>5. CASE hazard = ADVANCE
  BY <1>3, <1>5, AdvanceEdge, DecodeEdge DEF FrontPC
<1> QED BY <1>1, <1>4, <1>5

LEMMA LoadUseNext ==
  ASSUME TypeOK, NEW p \in Predictions, Clock(p)
  PROVE  LoadUseInv'
<1> SUFFICES ASSUME live'.ex, ex_mem'.MemRead # MEMREAD_NOP
    PROVE  ex_mem'.Rd # id_ex'.Rs1 /\ ex_mem'.Rd # id_ex'.Rs2
  BY DEF LoadUseInv
<1>1. hazard \in {JALJUMP, ADVANCE}
  BY WireTypes, RedirectEdge, StallEdge
<1>2. ~load_use_hazard BY <1>1, JalJumpEdge, AdvanceEdge
<1> QED BY <1>1, <1>2, DecodeEdge DEF Clock, ExMemRegister, load_use_hazard

LEMMA MemoryNext ==
  ASSUME TypeOK, ExecuteInv, LoadUseInv, NEW p \in Predictions, Clock(p)
  PROVE  MemoryInv'
<1>1. live'.mem = live.ex /\ rom' = rom BY DEF Clock
<1>2. CASE live.ex
  <2>1. MemPC' = id_ex.PC BY <1>2, MemPCNext
  <2>2. mem_Inst' = ex_Inst BY <1>1, <2>1 DEF mem_Inst, ex_Inst
  <2>3. /\ forwardA_data = AbsRegs'[ex_Inst.rs1]
        /\ forwardB_data = AbsRegs'[ex_Inst.rs2]
    BY <1>2, FreshLemma, RegsNext DEF OperandsFresh, ExecuteInv
  <2>4. ex_ALU_Result = ResultOf(ex_Inst, id_ex.PC, AbsRegs'[ex_Inst.rs1],
                                 AbsRegs'[ex_Inst.rs2])
    BY <1>2, <2>3
       DEF ex_ALU_Result, ResultOf, alu_in1, alu_in2, ExecuteInv
  <2> QED BY <1>1, <1>2, <2>1, <2>2, <2>3, <2>4
          DEF MemoryInv, Clock, ExMemRegister, ExecuteInv, ResultOf
<1>3. CASE ~live.ex
  BY <1>1, <1>3
     DEF MemoryInv, Clock, ExMemRegister, ExecuteInv, ZeroIdEx, ZeroCtl
<1> QED BY <1>2, <1>3

LEMMA ZeroNext ==
  ASSUME TypeOK, ZeroInv, NEW p \in Predictions, Clock(p) PROVE ZeroInv'
  BY SmallWords DEF ZeroInv, TypeOK, Clock, RegisterFile, wb_writes

-----------------------------------------------------------------------------
(* The path of control.                                                    *)

(* The decoder selects the operation the architecture asks for.            *)
LEMMA DecodesBranch ==
  ASSUME NEW i \in Inst, i.opcode = "BRANCH"
  PROVE  Controller(i).ALU_Ctrl =
           CASE i.funct3 = 0 -> ALU_OP_BEQ
             [] i.funct3 = 1 -> ALU_OP_BNE
             [] i.funct3 = 4 -> ALU_OP_BLT
             [] i.funct3 = 5 -> ALU_OP_BGE
             [] i.funct3 = 6 -> ALU_OP_BLTU
             [] i.funct3 = 7 -> ALU_OP_BGEU
             [] OTHER        -> ALU_OP_XXX
<1>1. ALUOp(i.opcode, i.funct3) = 1 BY DEF ALUOp
<1>2. i.funct3 \in 0 .. 7 BY DEF Inst
<1> QED BY <1>1, <1>2 DEF Controller, ALU_Ctrl

(* The flags of EX, each on its own.                                       *)
LEMMA Flags ==
  ASSUME NEW i \in Inst
  PROVE  LET c == Controller(i)
         IN /\ c.Branch <=> i.opcode = "BRANCH"
            /\ c.JAL <=> i.opcode = "JAL"
            /\ c.JALR <=> i.opcode = "JALR"
            /\ c.ALUSrcA <=> i.opcode = "AUIPC"
            /\ c.ALUSrcB <=>
                 i.opcode \in {"ALUI", "LOAD", "STORE", "AUIPC", "JALR"}
<1> DEFINE c == Controller(i)
<1>1. c.Branch <=> i.opcode = "BRANCH" BY DEF Controller
<1>2. c.JAL <=> i.opcode = "JAL" BY DEF Controller
<1>3. c.JALR <=> i.opcode = "JALR" BY DEF Controller
<1>4. c.ALUSrcA <=> i.opcode = "AUIPC" BY DEF Controller
<1>5. c.ALUSrcB <=> i.opcode \in {"ALUI", "LOAD", "STORE", "AUIPC", "JALR"}
  BY DEF Controller
<1> QED BY <1>1, <1>2, <1>3, <1>4, <1>5

LEMMA ArchInst == Arch!inst = RomAt(rom, AbsPC)
  BY DEF Arch!inst, Arch!RomAt, RomAt

LEMMA ArchNextPc ==
  ASSUME Arch!inst \in Inst
  PROVE  Arch!NextPc = Successor(Arch!inst, AbsPC, AbsRegs[Arch!inst.rs1],
                                 AbsRegs[Arch!inst.rs2])
<1> DEFINE i == Arch!inst
<1> HIDE DEF i
<1>1. i.opcode = "BRANCH" => Controller(i).ALU_Ctrl = Arch!Comparison
  BY DecodesBranch DEF Arch!Comparison, i, Arch!ALU_OP_BEQ, Arch!ALU_OP_BNE,
     Arch!ALU_OP_BLT, Arch!ALU_OP_BGE, Arch!ALU_OP_BLTU, Arch!ALU_OP_BGEU,
     Arch!ALU_OP_XXX
<1> QED BY <1>1 DEF Arch!NextPc, Successor, Arch!Adder32, Adder32,
                    Arch!ClearBit0, ClearBit0, i

LEMMA MemInstType ==
  TypeOK => mem_Inst \in Inst /\ (live.mem => mem_Inst = Arch!inst)
  BY MemPCWord, RomType, ArchInst DEF TypeOK, mem_Inst, AbsPC

(* PathInv says of the pipeline what CommittedPath says of the             *)
(* architecture.                                                           *)
LEMMA PathLemma == TypeOK /\ PathInv => CommittedPath
<1> SUFFICES ASSUME TypeOK, PathInv, live.mem PROVE BehindMEM = Arch!NextPc
  BY DEF CommittedPath
<1>1. mem_Inst \in Inst /\ mem_Inst = Arch!inst BY MemInstType
<1> QED BY <1>1, ArchNextPc DEF PathInv, AbsPC

(* The instruction in EX leads where the hazard detector takes the front   *)
(* end: to next_PC on a redirection, else to the instruction behind it.    *)
LEMMA Resolution ==
  ASSUME TypeOK, ExecuteInv, SpeculationInv, LoadUseInv, live.ex, NEW p
  PROVE  LET s == Successor(ex_Inst, id_ex.PC, RegsAfterMEM[id_ex.Rs1],
                            RegsAfterMEM[id_ex.Rs2])
         IN IF id_ex.ctl.JALR \/ ex_pred_fail THEN next_PC(p) = s
            ELSE FrontPC = s
<1> DEFINE a == RegsAfterMEM[id_ex.Rs1]
           b == RegsAfterMEM[id_ex.Rs2]
           s == Successor(ex_Inst, id_ex.PC, a, b)
<1>1. forwardA_data = a /\ forwardB_data = b
  BY FreshLemma DEF OperandsFresh
<1>2. a \in Word /\ b \in Word BY <1>1, WireTypes
<1>3. /\ ex_Inst \in Inst
      /\ id_ex.ctl = Controller(ex_Inst)
      /\ id_ex.Imm = ex_Inst.imm
      /\ id_ex.PC4 = Adder32(id_ex.PC, 4)
      /\ id_ex.PCImm = Adder32(id_ex.PC, id_ex.Imm)
      /\ id_ex.pred => Predictable(ex_Inst)
      /\ id_ex.pred \in BOOLEAN
  BY RomType DEF ExecuteInv, ex_Inst, TypeOK
<1> HIDE DEF a, b
<1>4. CASE ex_Inst.opcode = "JALR"
  <2>1. id_ex.ctl.JALR /\ id_ex.ctl.ALUSrcB /\ ~id_ex.ctl.ALUSrcA
    BY <1>3, <1>4, Flags
  <2>2. id_ex.ctl.ALU_Ctrl = ALU_OP_ADD
    <3>1. ALUOp(ex_Inst.opcode, ex_Inst.funct3) = 0 BY <1>4 DEF ALUOp
    <3> QED BY <1>3, <3>1 DEF Controller, ALU_Ctrl
  <2>3. ex_ALU_Result = Adder32(a, ex_Inst.imm)
    BY <1>1, <1>2, <1>3, <2>1, <2>2, AluAddAssumption
       DEF ex_ALU_Result, alu_in1, alu_in2, Inst
  <2> QED BY <1>4, <2>1, <2>3 DEF next_PC, ex_Rs1Imm, Successor, a
<1>5. CASE ex_Inst.opcode = "BRANCH"
  <2>1. /\ id_ex.ctl.Branch /\ ~id_ex.ctl.JALR /\ ~id_ex.ctl.JAL
        /\ ~id_ex.ctl.ALUSrcA /\ ~id_ex.ctl.ALUSrcB
    BY <1>3, <1>5, Flags
  <2>2. ex_Branch_taken = BranchCond(Controller(ex_Inst).ALU_Ctrl, a, b)
    BY <1>1, <1>3, <2>1, WireTypes
       DEF ex_Branch_taken, ex_Branch_cond, alu_in1, alu_in2
  <2>3. s = IF ex_Branch_taken THEN id_ex.PCImm ELSE id_ex.PC4
    BY <1>3, <1>5, <2>2 DEF Successor
  <2>4. CASE ex_pred_fail
    BY <2>1, <2>3, <2>4 DEF next_PC, a, b
  <2>5. CASE ~ex_pred_fail
    <3>1. ex_Branch_taken = id_ex.pred
      BY <2>1, <2>5 DEF ex_pred_fail
    <3> QED BY <2>1, <2>3, <2>5, <3>1 DEF SpeculationInv, a, b
  <2> QED BY <2>4, <2>5
<1>6. CASE ex_Inst.opcode = "JAL"
  <2>1. ~id_ex.ctl.Branch /\ ~id_ex.ctl.JALR /\ id_ex.ctl.JAL
    BY <1>3, <1>6, Flags
  <2> QED BY <1>3, <1>6, <2>1
          DEF Successor, SpeculationInv, ex_pred_fail
<1>7. CASE ex_Inst.opcode \notin {"JALR", "BRANCH", "JAL"}
  <2>1. ~id_ex.ctl.Branch /\ ~id_ex.ctl.JALR /\ ~id_ex.ctl.JAL
    BY <1>3, <1>7, Flags
  <2>2. ~id_ex.pred BY <1>3, <1>7 DEF Predictable
  <2> QED BY <1>3, <1>7, <2>1, <2>2
          DEF Successor, SpeculationInv, ex_pred_fail
<1> QED BY <1>4, <1>5, <1>6, <1>7

(* The front end keeps its place unless it is redirected.                  *)
LEMMA FrontKept ==
  ASSUME TypeOK, DecodeInv, NEW p \in Predictions, Clock(p),
         hazard # REDIRECT
  PROVE  BehindMEM' = FrontPC
<1>1. CASE hazard = STALL BY <1>1, StallEdge DEF BehindMEM, FrontPC
<1>2. CASE hazard = JALJUMP
  <2>1. live.id
    <3>1. SUFFICES ASSUME ~live.id PROVE FALSE OBVIOUS
    <3>2. id_ctl = ZeroCtl
      BY <3>1, ZeroDecoded DEF DecodeInv, id_ctl, ZeroIfId
    <3> QED BY <1>2, <3>2, JalJumpEdge DEF ZeroCtl
  <2> QED BY <1>2, <2>1, JalJumpEdge, DecodeEdge DEF BehindMEM, FrontPC
<1>3. CASE hazard = ADVANCE
  BY <1>3, AdvanceEdge, DecodeEdge DEF BehindMEM, FrontPC
<1> QED BY <1>1, <1>2, <1>3, WireTypes

LEMMA PathNext ==
  ASSUME TypeOK, DecodeInv, ExecuteInv, SpeculationInv, LoadUseInv,
         NEW p \in Predictions, Clock(p)
  PROVE  PathInv'
<1>1. live'.mem = live.ex /\ rom' = rom BY DEF Clock
<1> SUFFICES ASSUME live.ex
    PROVE  BehindMEM' = Successor(mem_Inst', MemPC', AbsRegs'[mem_Inst'.rs1],
                                  AbsRegs'[mem_Inst'.rs2])
  BY <1>1 DEF PathInv
<1>2. MemPC' = id_ex.PC /\ mem_Inst' = ex_Inst
  BY <1>1, MemPCNext DEF mem_Inst, ex_Inst
<1>3. /\ AbsRegs' = RegsAfterMEM
      /\ id_ex.Rs1 = ex_Inst.rs1 /\ id_ex.Rs2 = ex_Inst.rs2
  BY RegsNext DEF ExecuteInv
<1>4. CASE hazard = REDIRECT
  <2>1. BehindMEM' = next_PC(p) BY <1>4, RedirectEdge DEF BehindMEM, FrontPC
  <2> QED BY <1>2, <1>3, <1>4, <2>1, Resolution, RedirectEdge
<1>5. CASE hazard # REDIRECT
  <2>1. ~(id_ex.ctl.JALR \/ ex_pred_fail) BY <1>5 DEF hazard
  <2> QED BY <1>2, <1>3, <1>5, <2>1, Resolution, FrontKept
<1> QED BY <1>4, <1>5

-----------------------------------------------------------------------------
(* The invariant holds of every reachable state.                           *)

LEMMA EmptyPipeline ==
  ASSUME live = NoneLive, if_id = ZeroIfId, id_ex = ZeroIdEx,
         ex_mem = ZeroExMem, reg_Data = ZeroRegs
  PROVE  /\ ZeroInv /\ DecodeInv /\ ExecuteInv /\ SpeculationInv
         /\ MemoryInv /\ LoadUseInv /\ PathInv
  BY SmallWords
     DEF NoneLive, ZeroExMem, ZeroRegs, ZeroInv, DecodeInv, ExecuteInv,
         SpeculationInv, MemoryInv, LoadUseInv, PathInv

LEMMA InitIInv == Init => IInv
  BY InitType, EmptyPipeline DEF Init, IInv

LEMMA ResetIInv == TypeOK /\ Reset => IInv'
<1> SUFFICES ASSUME TypeOK, Reset PROVE IInv'
  OBVIOUS
<1>1. ZeroInv' BY SmallWords DEF Reset, ZeroRegs, ZeroInv
<1>2. DecodeInv' /\ ExecuteInv' /\ SpeculationInv'
  BY DEF Reset, NoneLive, DecodeInv, ExecuteInv, SpeculationInv
<1>3. MemoryInv' /\ LoadUseInv' /\ PathInv'
  BY DEF Reset, NoneLive, ZeroExMem, MemoryInv, LoadUseInv, PathInv
<1> QED BY <1>1, <1>2, <1>3, ResetType DEF IInv

LEMMA StutterIInv == IInv /\ UNCHANGED vars => IInv'
<1> SUFFICES ASSUME IInv, UNCHANGED vars PROVE IInv'
  OBVIOUS
<1> USE DEF vars
<1>1. TypeOK' /\ ZeroInv' /\ LoadUseInv' BY DEF IInv, TypeOK, ZeroInv, LoadUseInv
<1>2. DecodeInv' BY DEF IInv, DecodeInv, id_PCImm
<1>3. FrontPC' = FrontPC /\ BehindMEM' = BehindMEM /\ MemPC' = MemPC
  BY DEF FrontPC, BehindMEM, MemPC
<1>4. ex_Inst' = ex_Inst /\ mem_Inst' = mem_Inst
  BY <1>3 DEF ex_Inst, mem_Inst
<1>5. AbsRegs' = AbsRegs BY DEF AbsRegs, wb_writes, wb_wdata
<1>6. ExecuteInv' BY <1>4 DEF IInv, ExecuteInv
<1>7. SpeculationInv' BY <1>3 DEF IInv, SpeculationInv
<1>8. MemoryInv' BY <1>3, <1>4, <1>5 DEF IInv, MemoryInv
<1>9. PathInv' BY <1>3, <1>4, <1>5 DEF IInv, PathInv
<1> QED BY <1>1, <1>2, <1>6, <1>7, <1>8, <1>9 DEF IInv

LEMMA TickClock ==
  ASSUME Tick PROVE \E p \in Predictions : Clock(p)
  BY DEF Tick, Redirect, LoadUseStall, JalJump, Advance

LEMMA ClockIInv ==
  ASSUME IInv, NEW p \in Predictions, Clock(p) PROVE IInv'
  BY ClockType, DecodeNext, ExecuteNext, SpeculationNext, LoadUseNext,
     MemoryNext, PathNext, ZeroNext
     DEF IInv

(* The inductive invariant: it starts true and every clock edge and every  *)
(* reset preserves it.                                                     *)
THEOREM Inductive == Spec => []IInv
<1>1. IInv /\ [Next]_vars => IInv'
  BY TickClock, ClockIInv, ResetIInv, StutterIInv DEF Next, IInv
<1> QED BY <1>1, InitIInv, PTL DEF Spec

(* Forwarding, the write-first register file and the load-use stall        *)
(* together never give EX a stale operand, for any program.                *)
THEOREM FreshOperands == Spec => []OperandsFresh
<1>1. IInv => OperandsFresh BY FreshLemma DEF IInv
<1> QED BY <1>1, Inductive, PTL

(* No wrong-path instruction ever completes: behind the instruction in MEM *)
(* comes the one it leads to, whatever was predicted and flushed.          *)
THEOREM RightPath == Spec => []CommittedPath
<1>1. IInv => CommittedPath BY PathLemma DEF IInv
<1> QED BY <1>1, Inductive, PTL

LEMMA BubblesLemma == IInv => BubblesInert
<1> SUFFICES ASSUME IInv PROVE BubblesInert
  OBVIOUS
<1>1. ~live.mem => ~mem_writes /\ ex_mem.MemWrite = MEMWRITE_NOP
  BY DEF IInv, MemoryInv, mem_writes
<1>2. ~live.ex => hazard \notin {REDIRECT, STALL}
  BY DEF IInv, ExecuteInv, ZeroIdEx, ZeroCtl, hazard, load_use_hazard,
         ex_pred_fail, REDIRECT, STALL, JALJUMP, ADVANCE
<1>3. ~live.id => ~id_ctl.JAL
  BY ZeroDecoded DEF IInv, DecodeInv, ZeroIfId, id_ctl, ZeroCtl
<1>4. ~live.id => hazard # JALJUMP
  BY <1>3 DEF hazard, REDIRECT, STALL, JALJUMP, ADVANCE
<1> QED BY <1>1, <1>2, <1>4 DEF BubblesInert

(* A flushed or never fetched slot writes nothing, never stalls and never  *)
(* redirects.                                                              *)
THEOREM InertBubbles == Spec => []BubblesInert
BY BubblesLemma, Inductive, PTL

(* A stall lasts one cycle: it puts a bubble into EX, which cannot be a    *)
(* load.                                                                   *)
THEOREM StallOnce == Spec => NoStallRepeat
<1>1. IInv /\ [Next]_vars => (hazard = STALL => hazard' # STALL \/ UNCHANGED vars)
  <2> SUFFICES ASSUME IInv, Next, hazard = STALL PROVE hazard' # STALL
    OBVIOUS
  <2>1. id_ex' = ZeroIdEx
    BY TickClock, StallEdge DEF Next, Reset, IInv
  <2> QED BY <2>1 DEF hazard, load_use_hazard, ZeroIdEx, ZeroCtl,
                      REDIRECT, STALL, JALJUMP, ADVANCE
<1> QED BY <1>1, Inductive, PTL DEF Spec, NoStallRepeat

-----------------------------------------------------------------------------
(* The pipeline implements the architecture.                               *)

USE DEF Arch!ALU_OP_ADD, Arch!ALU_OP_SUB, Arch!ALU_OP_SLL, Arch!ALU_OP_SLT,
        Arch!ALU_OP_SLTU, Arch!ALU_OP_XOR, Arch!ALU_OP_SRL, Arch!ALU_OP_OR,
        Arch!ALU_OP_AND, Arch!ALU_OP_SRA

(* The decoder selects the arithmetic the architecture asks for.           *)
LEMMA DecodesOperation ==
  ASSUME Arch!inst \in Inst, Arch!inst.opcode \in {"ALUR", "ALUI"}
  PROVE  Controller(Arch!inst).ALU_Ctrl = Arch!Operation
<1> DEFINE i == Arch!inst
<1>1. i.funct3 \in 0 .. 7 BY DEF Inst
<1>2. CASE i.opcode = "ALUI" /\ i.funct3 = 0
  <2>1. ALUOp(i.opcode, i.funct3) = 0 BY <1>2 DEF ALUOp
  <2>2. Controller(i).ALU_Ctrl = ALU_OP_ADD
    BY <2>1 DEF Controller, ALU_Ctrl
  <2> QED BY <1>2, <2>2 DEF Arch!Operation
<1>3. CASE ~(i.opcode = "ALUI" /\ i.funct3 = 0)
  <2>1. ALUOp(i.opcode, i.funct3) = 2 BY <1>3 DEF ALUOp
  <2>2. Controller(i).ALU_Ctrl = ALU_Ctrl(2, i.funct3, i.funct7b5)
    BY <2>1 DEF Controller
  <2> HIDE DEF i
  <2>3. i.funct3 = 0 => i.opcode = "ALUR" BY <1>3 DEF i
  <2> QED BY <1>1, <2>2, <2>3 DEF ALU_Ctrl, Arch!Operation, i
<1> QED BY <1>2, <1>3

(* For every other opcode with a result from the ALU, it adds.             *)
LEMMA DecodesAdd ==
  ASSUME NEW i \in Inst,
         i.opcode \in {"LOAD", "STORE", "AUIPC", "JALR"}
  PROVE  Controller(i).ALU_Ctrl = ALU_OP_ADD
<1>1. ALUOp(i.opcode, i.funct3) = 0 BY DEF ALUOp
<1> QED BY <1>1 DEF Controller, ALU_Ctrl

(* Where the architecture goes on after a clock edge.                      *)
LEMMA AbsPCNext ==
  ASSUME IInv, NEW p \in Predictions, Clock(p) PROVE AbsPC' = BehindMEM
<1>1. live'.mem = live.ex BY DEF Clock
<1>2. CASE live.ex
  BY <1>1, <1>2, MemPCNext DEF IInv, AbsPC, BehindMEM
<1>3. CASE ~live.ex
  <2>1. hazard # REDIRECT
    BY <1>3 DEF IInv, ExecuteInv, ZeroIdEx, ZeroCtl, hazard, ex_pred_fail,
                REDIRECT, STALL, JALJUMP, ADVANCE
  <2>2. BehindMEM' = FrontPC BY <2>1, FrontKept DEF IInv
  <2> QED BY <1>1, <1>3, <2>2 DEF AbsPC, BehindMEM
<1> QED BY <1>2, <1>3

(* Without a store in MEM the data memory keeps its contents.              *)
LEMMA RamKept ==
  ASSUME TypeOK, ex_mem.MemWrite = MEMWRITE_NOP, NEW p, Clock(p)
  PROVE  ram' = ram
<1>1. /\ ram \in RamStates
      /\ ex_mem.Result \in Word /\ ex_mem.Data2 \in Word
  BY DEF TypeOK
<1>2. RamWrite(ram, MEMWRITE_NOP, ex_mem.Result, ex_mem.Data2) = ram
  BY <1>1, RamAssumption
<1> QED BY <1>2 DEF Clock, DataRam

(* A clock edge with a bubble in MEM changes nothing architectural.        *)
LEMMA BubbleStutters ==
  ASSUME IInv, ~live.mem, NEW p \in Predictions, Clock(p)
  PROVE  UNCHANGED Arch!vars
<1>1. AbsPC' = AbsPC BY AbsPCNext DEF AbsPC
<1>2. AbsRegs' = AbsRegs
  BY RegsNext DEF IInv, MemoryInv, RegsAfterMEM, mem_writes
<1>3. ram' = ram
  BY RamKept DEF IInv, MemoryInv
<1>4. rom' = rom BY DEF Clock
<1> QED BY <1>1, <1>2, <1>3, <1>4 DEF Arch!vars

(* A clock edge with an instruction in MEM completes that instruction.     *)
LEMMA InstructionCompletes ==
  ASSUME IInv, live.mem, NEW p \in Predictions, Clock(p)
  PROVE  Arch!Step
<1> DEFINE i == Arch!inst
           a == AbsRegs[i.rs1]
           b == AbsRegs[i.rs2]
           c == Controller(i)
<1>1. i \in Inst /\ i = mem_Inst /\ MemPC = AbsPC
  BY MemInstType DEF IInv, AbsPC
<1>2. AbsRegs \in [Reg -> Word] /\ a \in Word /\ b \in Word
  <2>1. AbsRegs \in [Reg -> Word]
    BY WireTypes DEF IInv, TypeOK, AbsRegs
  <2> QED BY <1>1, <2>1 DEF Inst
<1> HIDE DEF i, a, b, c
<1>3. /\ ex_mem.RegWrite = c.RegWrite /\ ex_mem.WTR = c.WTR
      /\ ex_mem.MemRead = c.MemRead /\ ex_mem.MemWrite = c.MemWrite
      /\ ex_mem.Imm = i.imm /\ ex_mem.Rd = i.rd
      /\ ex_mem.Data2 = b
      /\ ex_mem.Result = Alu(c.ALU_Ctrl, IF c.ALUSrcA THEN AbsPC ELSE a,
                             IF c.ALUSrcB THEN i.imm ELSE b)
  BY <1>1 DEF IInv, MemoryInv, ResultOf, a, b, c
<1>4. /\ c.Branch <=> i.opcode = "BRANCH"
      /\ c.ALUSrcA <=> i.opcode = "AUIPC"
      /\ c.ALUSrcB <=>
           i.opcode \in {"ALUI", "LOAD", "STORE", "AUIPC", "JALR"}
  BY <1>1, Flags DEF c
<1>5. AbsPC' = Arch!NextPc
  BY AbsPCNext, PathLemma DEF IInv, CommittedPath
<1>6. rom' = rom BY DEF Clock
<1>7. AbsRegs' = RegsAfterMEM BY RegsNext DEF IInv
<1>8. ASSUME c.RegWrite, NEW v, mem_result = v PROVE Arch!SetReg(v)
  BY <1>3, <1>7, <1>8 DEF RegsAfterMEM, mem_writes, Arch!SetReg, i
<1>9. ~c.RegWrite => AbsRegs' = AbsRegs
  BY <1>3, <1>7 DEF RegsAfterMEM, mem_writes
<1>10. ram' = RamWrite(ram, c.MemWrite, ex_mem.Result, b)
  BY <1>3 DEF Clock, DataRam
<1>11. i.opcode # "STORE" => ram' = ram
  <2> SUFFICES ASSUME i.opcode # "STORE" PROVE ram' = ram
    OBVIOUS
  <2>1. c.MemWrite = MEMWRITE_NOP BY DEF c, Controller
  <2> QED BY <1>3, <2>1, RamKept DEF IInv
<1>12. CASE i.opcode = "ALUR"
  <2>1. c.RegWrite /\ c.WTR = WTR_ALU BY <1>12 DEF c, Controller
  <2>2. mem_result = Alu(Arch!Operation, a, b)
    BY <1>1, <1>3, <1>4, <1>12, <2>1, DecodesOperation
       DEF mem_result, mem_wdata, i, c
  <2>3. Arch!SetReg(Alu(Arch!Operation, a, b)) BY <1>8, <2>1, <2>2
  <2> QED BY <1>5, <1>6, <1>11, <1>12, <2>3
          DEF Arch!Step, Arch!AluReg, i, a, b
<1>13. CASE i.opcode = "ALUI"
  <2>1. c.RegWrite /\ c.WTR = WTR_ALU BY <1>13 DEF c, Controller
  <2>2. mem_result = Alu(Arch!Operation, a, i.imm)
    BY <1>1, <1>3, <1>4, <1>13, <2>1, DecodesOperation
       DEF mem_result, mem_wdata, i, c
  <2>3. Arch!SetReg(Alu(Arch!Operation, a, i.imm)) BY <1>8, <2>1, <2>2
  <2> QED BY <1>5, <1>6, <1>11, <1>13, <2>3
          DEF Arch!Step, Arch!AluImm, i, a
<1>14. CASE i.opcode = "LUI"
  <2>1. c.RegWrite /\ c.WTR = WTR_IMM BY <1>14 DEF c, Controller
  <2>2. mem_result = i.imm BY <1>3, <2>1 DEF mem_result, mem_wdata
  <2>3. Arch!SetReg(i.imm) BY <1>8, <2>1, <2>2
  <2> QED BY <1>5, <1>6, <1>11, <1>14, <2>3 DEF Arch!Step, Arch!Lui, i
<1>15. i.imm \in Word /\ AbsPC \in Word
  BY <1>1, MemPCWord DEF Inst, IInv
<1>16. CASE i.opcode = "AUIPC"
  <2>1. c.RegWrite /\ c.WTR = WTR_ALU BY <1>16 DEF c, Controller
  <2>2. ex_mem.Result = Alu(ALU_OP_ADD, AbsPC, i.imm)
    BY <1>1, <1>3, <1>4, <1>16, DecodesAdd DEF c
  <2>3. mem_result = Adder32(AbsPC, i.imm)
    BY <1>15, <2>1, <1>3, <2>2, AluAddAssumption DEF mem_result, mem_wdata
  <2>4. Arch!SetReg(Arch!Adder32(AbsPC, i.imm))
    BY <1>8, <2>1, <2>3 DEF Arch!Adder32, Adder32
  <2> QED BY <1>5, <1>6, <1>11, <1>16, <2>4 DEF Arch!Step, Arch!Auipc, i
<1>17. CASE i.opcode = "LOAD"
  <2>1. c.RegWrite BY <1>17 DEF c, Controller
  <2>2. c.WTR = WTR_MEM /\ c.MemRead = LoadMode(i.funct3)
    BY <1>17 DEF c, Controller
  <2>3. ex_mem.Result = Adder32(a, i.imm)
    BY <1>1, <1>2, <1>3, <1>4, <1>15, <1>17, DecodesAdd, AluAddAssumption
       DEF c
  <2>4. mem_result = RamRead(ram, LoadMode(i.funct3), Adder32(a, i.imm))
    BY <1>3, <2>2, <2>3 DEF mem_result, mem_rdata
  <2>5. Arch!SetReg(RamRead(ram, LoadMode(i.funct3), Adder32(a, i.imm)))
    BY <1>8, <2>1, <2>4
  <2>6. LoadMode(i.funct3) = Arch!LoadMode(i.funct3)
    BY DEF LoadMode, Arch!LoadMode, Arch!MEMREAD_LB, Arch!MEMREAD_LH,
           Arch!MEMREAD_LW, Arch!MEMREAD_LBU, Arch!MEMREAD_LHU,
           Arch!MEMREAD_NOP
  <2>7. Adder32(a, i.imm) = Arch!Adder32(a, i.imm)
    BY DEF Adder32, Arch!Adder32
  <2> QED BY <1>5, <1>6, <1>11, <1>17, <2>5, <2>6, <2>7
          DEF Arch!Step, Arch!Load, i, a
<1>18. CASE i.opcode = "STORE"
  <2>1. ~c.RegWrite BY <1>18 DEF c, Controller
  <2>2. c.MemWrite = StoreMode(i.funct3) BY <1>18 DEF c, Controller
  <2>3. ex_mem.Result = Adder32(a, i.imm)
    BY <1>1, <1>2, <1>3, <1>4, <1>15, <1>18, DecodesAdd, AluAddAssumption
       DEF c
  <2>4. ram' = RamWrite(ram, StoreMode(i.funct3), Adder32(a, i.imm), b)
    BY <1>10, <2>2, <2>3
  <2>5. StoreMode(i.funct3) = Arch!StoreMode(i.funct3)
    BY DEF StoreMode, Arch!StoreMode, Arch!MEMWRITE_SB, Arch!MEMWRITE_SH,
           Arch!MEMWRITE_SW, Arch!MEMWRITE_NOP
  <2>6. Adder32(a, i.imm) = Arch!Adder32(a, i.imm)
    BY DEF Adder32, Arch!Adder32
  <2> QED BY <1>5, <1>6, <1>9, <1>18, <2>1, <2>4, <2>5, <2>6
          DEF Arch!Step, Arch!Store, i, a, b
<1>19. CASE i.opcode = "BRANCH"
  <2>1. ~c.RegWrite BY <1>19 DEF c, Controller
  <2> QED BY <1>5, <1>6, <1>9, <1>11, <1>19, <2>1
          DEF Arch!Step, Arch!Branch, i
<1>20. CASE i.opcode \in {"JAL", "JALR"}
  <2>1. c.RegWrite BY <1>20 DEF c, Controller
  <2>2. c.WTR = WTR_PC4 BY <1>20 DEF c, Controller
  <2>3. ex_mem.PC4 = Adder32(AbsPC, 4)
    <3>1. ex_mem.PC4 \in Word BY DEF IInv, TypeOK
    <3> QED BY <1>1, <3>1, SizesAssumption DEF MemPC, Adder32, Word
  <2>4. mem_result = Adder32(AbsPC, 4)
    BY <1>3, <2>2, <2>3 DEF mem_result, mem_wdata
  <2>5. Arch!SetReg(Arch!Adder32(AbsPC, 4))
    BY <1>8, <2>1, <2>4 DEF Arch!Adder32, Adder32
  <2> QED BY <1>5, <1>6, <1>11, <1>20, <2>5
          DEF Arch!Step, Arch!Jal, Arch!Jalr, i
<1>21. CASE i.opcode \in {"SYSTEM", "NONE"}
  <2>1. ~c.RegWrite BY <1>21 DEF c, Controller
  <2> QED BY <1>5, <1>6, <1>9, <1>11, <1>21, <2>1
          DEF Arch!Step, Arch!NoEffect, i
<1>22. i.opcode \in Opcode BY <1>1 DEF Inst
<1> QED BY <1>12, <1>13, <1>14, <1>16, <1>17, <1>18, <1>19, <1>20, <1>21,
           <1>22 DEF Opcode

LEMMA ResetImplements == IInv /\ Reset => Arch!Reset
<1> SUFFICES ASSUME IInv, Reset PROVE Arch!Reset
  OBVIOUS
<1>1. AbsPC' = 0 BY DEF Reset, NoneLive, AbsPC, BehindMEM, FrontPC
<1>2. AbsRegs' = ZeroRegs
  BY DEF Reset, AbsRegs, ZeroMemWb, wb_writes
<1> QED BY <1>1, <1>2 DEF Arch!Reset, Reset, ZeroRegs, Reg, Arch!Reg

LEMMA InitImplements == Init => Arch!Init
<1> SUFFICES ASSUME Init PROVE Arch!Init
  OBVIOUS
<1>1. AbsPC = 0 BY DEF Init, NoneLive, AbsPC, BehindMEM, FrontPC
<1>2. AbsRegs = ZeroRegs BY DEF Init, AbsRegs, ZeroMemWb, wb_writes
<1> QED BY <1>1, <1>2 DEF Arch!Init, Init, ZeroRegs, Reg, Arch!Reg

(* The pipelined processor implements the architecture: under the mapping  *)
(* AbsPC, AbsRegs every clock edge is one instruction or no instruction,   *)
(* for every program, every datapath and every admissible prediction.      *)
THEOREM Implementation == Spec => ImplementsIsa
<1>1. IInv /\ [Next]_vars => [Arch!Next]_(Arch!vars)
  <2> SUFFICES ASSUME IInv, [Next]_vars PROVE [Arch!Next]_(Arch!vars)
    OBVIOUS
  <2>1. CASE Tick
    <3>1. PICK p \in Predictions : Clock(p) BY <2>1, TickClock
    <3> QED BY <3>1, BubbleStutters, InstructionCompletes DEF Arch!Next
  <2>2. CASE Reset BY <2>2, ResetImplements DEF Arch!Next
  <2>3. CASE UNCHANGED vars
    BY <2>3 DEF vars, Arch!vars, AbsPC, BehindMEM, FrontPC, MemPC, AbsRegs,
                wb_writes, wb_wdata
  <2> QED BY <2>1, <2>2, <2>3 DEF Next
<1> QED BY <1>1, InitImplements, Inductive, PTL
        DEF Spec, ImplementsIsa, Arch!Spec
=============================================================================
