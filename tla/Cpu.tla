-------------------------------- MODULE Cpu --------------------------------
(***************************************************************************)
(* The five-stage pipeline of rtl/core/cpu.v with the components it wires  *)
(* together, one step per rising clock edge.  The variables are the        *)
(* registers of the RTL (pc, the four pipeline registers, the register     *)
(* file, the data memory); its wires are the state functions below, under  *)
(* their own names.  The branch predictor is abstract: at every fetch it   *)
(* may predict anything the pipeline is able to repair.                    *)
(*                                                                         *)
(* An operator named Bug... is a faulty variant of the definition below    *)
(* it.  Nothing uses it; put in the place of that definition, it breaks    *)
(* one of the properties, which shows that the property is not vacuous.    *)
(***************************************************************************)
EXTENDS Rv32i

CONSTANTS Programs, RamImages   \* the ROM and RAM images considered

ASSUME ImagesAssumption == Programs \subseteq Rom /\ RamImages \subseteq RamStates

VARIABLES
  rom,      \* inst_rom.rom_data
  pc,       \* pc.inst_addr
  if_id,    \* the IF/ID register
  id_ex,    \* the ID/EX register; id_ex.ctl are the controller's outputs
  ex_mem,   \* the EX/MEM register
  mem_wb,   \* the MEM/WB register
  reg_Data, \* reg_file.reg_Data
  ram,      \* data_ram.rom_Data
  live      \* history: which of ID, EX and MEM hold a fetched instruction,
            \* as opposed to the bubble a reset or a flush put there

vars == <<rom, pc, if_id, id_ex, ex_mem, mem_wb, reg_Data, ram, live>>

-----------------------------------------------------------------------------
(* The decoder: controller.v and alu_ctrl.v.                               *)

BugAddiIsOp2(opcode, funct3) ==      \* bit 30 of an addi means subtract
  CASE opcode \in {"ALUR", "ALUI", "LUI", "SYSTEM"} -> 2
    [] opcode = "BRANCH"                            -> 1
    [] OTHER                                        -> 0

ALUOp(opcode, funct3) ==
  CASE opcode \in {"ALUR", "LUI", "SYSTEM"} -> 2
    [] opcode = "ALUI" /\ funct3 # 0        -> 2
    [] opcode = "BRANCH"                    -> 1
    [] OTHER                                -> 0

ALU_Ctrl(ALU_Op, funct3, funct7b5) ==
  CASE ALU_Op = 0 -> ALU_OP_ADD
    [] ALU_Op = 1 /\ funct3 = 0 -> ALU_OP_BEQ
    [] ALU_Op = 1 /\ funct3 = 1 -> ALU_OP_BNE
    [] ALU_Op = 1 /\ funct3 = 4 -> ALU_OP_BLT
    [] ALU_Op = 1 /\ funct3 = 5 -> ALU_OP_BGE
    [] ALU_Op = 1 /\ funct3 = 6 -> ALU_OP_BLTU
    [] ALU_Op = 1 /\ funct3 = 7 -> ALU_OP_BGEU
    [] ALU_Op = 2 /\ funct3 = 0 -> IF funct7b5 THEN ALU_OP_SUB ELSE ALU_OP_ADD
    [] ALU_Op = 2 /\ funct3 = 1 -> ALU_OP_SLL
    [] ALU_Op = 2 /\ funct3 = 2 -> ALU_OP_SLT
    [] ALU_Op = 2 /\ funct3 = 3 -> ALU_OP_SLTU
    [] ALU_Op = 2 /\ funct3 = 4 -> ALU_OP_XOR
    [] ALU_Op = 2 /\ funct3 = 5 -> IF funct7b5 THEN ALU_OP_SRA ELSE ALU_OP_SRL
    [] ALU_Op = 2 /\ funct3 = 6 -> ALU_OP_OR
    [] ALU_Op = 2 /\ funct3 = 7 -> ALU_OP_AND
    [] OTHER -> ALU_OP_XXX

(* The control signals of an instruction.  ALUSrcA: the ALU's first operand *)
(* is the PC; ALUSrcB: its second operand is the immediate.                 *)
Controller(i) ==
  [RegWrite |-> i.opcode \in {"ALUR", "ALUI", "LOAD", "LUI", "AUIPC",
                              "JAL", "JALR"},
   WTR      |-> CASE i.opcode \in {"ALUR", "ALUI", "AUIPC"} -> WTR_ALU
                  [] i.opcode \in {"JAL", "JALR"}           -> WTR_PC4
                  [] i.opcode = "LUI"                       -> WTR_IMM
                  [] OTHER                                  -> WTR_MEM,
   MemRead  |-> IF i.opcode = "LOAD" THEN LoadMode(i.funct3)
                ELSE MEMREAD_NOP,
   MemWrite |-> IF i.opcode = "STORE" THEN StoreMode(i.funct3)
                ELSE MEMWRITE_NOP,
   ALU_Ctrl |-> ALU_Ctrl(ALUOp(i.opcode, i.funct3), i.funct3, i.funct7b5),
   ALUSrcA  |-> i.opcode = "AUIPC",
   ALUSrcB  |-> i.opcode \in {"ALUI", "LOAD", "STORE", "AUIPC", "JALR"},
   Branch   |-> i.opcode = "BRANCH",
   JAL      |-> i.opcode = "JAL",
   JALR     |-> i.opcode = "JALR"]

(* What a reset or a flush leaves in a pipeline register: zeros.           *)
ZeroIfId == [PC |-> 0, PC4 |-> 0, Inst |-> ZeroInst, pred |-> FALSE]

ZeroCtl == [RegWrite |-> FALSE, WTR |-> 0, MemRead |-> 0, MemWrite |-> 0,
            ALU_Ctrl |-> 0, ALUSrcA |-> FALSE, ALUSrcB |-> FALSE,
            Branch |-> FALSE, JAL |-> FALSE, JALR |-> FALSE]

ZeroIdEx == [ctl |-> ZeroCtl, Imm |-> 0, Data1 |-> 0, Data2 |-> 0,
             Rs1 |-> 0, Rs2 |-> 0, Rd |-> 0,
             PC |-> 0, PC4 |-> 0, PCImm |-> 0, pred |-> FALSE]

ZeroExMem == [MemRead |-> 0, MemWrite |-> 0, RegWrite |-> FALSE, WTR |-> 0,
              PC4 |-> 0, Result |-> 0, Data2 |-> 0, Imm |-> 0, Rd |-> 0]

ZeroMemWb == [RegWrite |-> FALSE, WTR |-> 0, Rd |-> 0, PC4 |-> 0,
              Data |-> 0, Result |-> 0, Imm |-> 0]

-----------------------------------------------------------------------------
(* WB: what is written back, and whether anything is.                      *)
wb_wdata ==
  CASE mem_wb.WTR = WTR_MEM -> mem_wb.Data
    [] mem_wb.WTR = WTR_ALU -> mem_wb.Result
    [] mem_wb.WTR = WTR_PC4 -> mem_wb.PC4
    [] mem_wb.WTR = WTR_IMM -> mem_wb.Imm

wb_writes == mem_wb.RegWrite /\ mem_wb.Rd # 0

(* The value MEM can forward: none yet for a load.                         *)
mem_wdata ==
  CASE ex_mem.WTR = WTR_ALU -> ex_mem.Result
    [] ex_mem.WTR = WTR_PC4 -> ex_mem.PC4
    [] ex_mem.WTR = WTR_IMM -> ex_mem.Imm
    [] OTHER                -> 0

mem_writes == ex_mem.RegWrite /\ ex_mem.Rd # 0

(* MEM: the data memory's read port.                                       *)
mem_rdata == RamRead(ram, ex_mem.MemRead, ex_mem.Result)

(* forward_unit.v: the youngest older instruction that writes rs wins.     *)
BugOldestWins(rs, data) ==
  IF wb_writes /\ mem_wb.Rd = rs THEN wb_wdata
  ELSE IF mem_writes /\ ex_mem.Rd = rs THEN mem_wdata
  ELSE data

Forward(rs, data) ==
  IF mem_writes /\ ex_mem.Rd = rs THEN mem_wdata
  ELSE IF wb_writes /\ mem_wb.Rd = rs THEN wb_wdata
  ELSE data

(* EX: operands, ALU and branch resolution.                                *)
forwardA_data == Forward(id_ex.Rs1, id_ex.Data1)
forwardB_data == Forward(id_ex.Rs2, id_ex.Data2)
alu_in1 == IF id_ex.ctl.ALUSrcA THEN id_ex.PC ELSE forwardA_data
alu_in2 == IF id_ex.ctl.ALUSrcB THEN id_ex.Imm ELSE forwardB_data
ex_ALU_Result == Alu(id_ex.ctl.ALU_Ctrl, alu_in1, alu_in2)
ex_Branch_cond == BranchCond(id_ex.ctl.ALU_Ctrl, alu_in1, alu_in2)
ex_Branch_taken == id_ex.ctl.Branch /\ ex_Branch_cond
ex_pred_fail == id_ex.ctl.Branch /\ (ex_Branch_taken # id_ex.pred)
ex_Rs1Imm == ClearBit0(ex_ALU_Result)

(* ID: decoding and the register file's read ports, which see the value    *)
(* being written back in the same cycle.                                   *)
id_ctl == Controller(if_id.Inst)
id_PCImm == Adder32(if_id.PC, if_id.Inst.imm)

BugReadFirst(rs) == IF rs = 0 THEN 0 ELSE reg_Data[rs]

ReadPort(rs) ==
  IF rs = 0 THEN 0
  ELSE IF wb_writes /\ rs = mem_wb.Rd THEN wb_wdata
  ELSE reg_Data[rs]

(* IF: pc + 4 and the ROM's read port.                                     *)
if_PC4 == Adder32(pc, 4)
if_Inst == RomAt(rom, pc)

-----------------------------------------------------------------------------
(* hazard_detector.v: one of four decisions, in this priority.             *)
REDIRECT == [PCWrite |-> TRUE, if_id_Write |-> FALSE,
             if_id_Flush |-> TRUE, id_ex_Flush |-> TRUE]
STALL    == [PCWrite |-> FALSE, if_id_Write |-> FALSE,
             if_id_Flush |-> FALSE, id_ex_Flush |-> TRUE]
JALJUMP  == [PCWrite |-> TRUE, if_id_Write |-> FALSE,
             if_id_Flush |-> TRUE, id_ex_Flush |-> FALSE]
ADVANCE  == [PCWrite |-> TRUE, if_id_Write |-> TRUE,
             if_id_Flush |-> FALSE, id_ex_Flush |-> FALSE]

BugAnyUse == id_ex.Rd = if_id.Inst.rs1 \/ id_ex.Rd = if_id.Inst.rs2

load_use_hazard ==
  /\ id_ex.ctl.MemRead # MEMREAD_NOP
  /\ id_ex.Rd = if_id.Inst.rs1 \/ id_ex.Rd = if_id.Inst.rs2

BugJalFirst ==
  IF id_ctl.JAL /\ ~if_id.pred THEN JALJUMP
  ELSE IF id_ex.ctl.JALR \/ ex_pred_fail THEN REDIRECT
  ELSE IF load_use_hazard THEN STALL
  ELSE ADVANCE

hazard ==
  IF id_ex.ctl.JALR \/ ex_pred_fail THEN REDIRECT
  ELSE IF load_use_hazard THEN STALL
  ELSE IF id_ctl.JAL /\ ~if_id.pred THEN JALJUMP
  ELSE ADVANCE

(* next_pc.v, given what the predictor says of pc.                         *)
BugRepairToTarget(prediction) ==
  IF id_ex.ctl.JALR THEN ex_Rs1Imm
  ELSE IF ex_pred_fail THEN id_ex.PCImm
  ELSE IF id_ctl.JAL /\ ~if_id.pred THEN id_PCImm
  ELSE IF prediction.taken THEN prediction.target
  ELSE if_PC4

next_PC(prediction) ==
  IF id_ex.ctl.JALR THEN ex_Rs1Imm
  ELSE IF ex_pred_fail THEN IF ex_Branch_taken THEN id_ex.PCImm ELSE id_ex.PC4
  ELSE IF id_ctl.JAL /\ ~if_id.pred THEN id_PCImm
  ELSE IF prediction.taken THEN prediction.target
  ELSE if_PC4

(* What the predictor may answer.  cpu.v repairs a conditional branch that *)
(* was predicted the wrong way, and nothing else: it never compares a      *)
(* predicted target with the computed one and it never revokes a taken     *)
(* prediction of another instruction.  So this is what it relies on.       *)
NotTaken == [taken |-> FALSE, target |-> 0]
Taken    == [taken |-> TRUE, target |-> Adder32(pc, if_Inst.imm)]

Predictions ==
  IF if_Inst.opcode \in {"BRANCH", "JAL"} THEN {NotTaken, Taken}
  ELSE {NotTaken}

-----------------------------------------------------------------------------
(* A rising clock edge: every register takes its next value at once.       *)

BugPredictionLost(prediction) ==
  if_id' = CASE hazard.if_id_Flush -> ZeroIfId
             [] hazard.if_id_Write -> [PC |-> pc, PC4 |-> if_PC4,
                                       Inst |-> if_Inst, pred |-> FALSE]
             [] OTHER              -> if_id

IfIdRegister(prediction) ==
  if_id' = CASE hazard.if_id_Flush -> ZeroIfId
             [] hazard.if_id_Write -> [PC |-> pc, PC4 |-> if_PC4,
                                       Inst |-> if_Inst,
                                       pred |-> prediction.taken]
             [] OTHER              -> if_id

IdExRegister ==
  id_ex' = IF hazard.id_ex_Flush THEN ZeroIdEx
           ELSE [ctl |-> id_ctl, Imm |-> if_id.Inst.imm,
                 Data1 |-> ReadPort(if_id.Inst.rs1),
                 Data2 |-> ReadPort(if_id.Inst.rs2),
                 Rs1 |-> if_id.Inst.rs1, Rs2 |-> if_id.Inst.rs2,
                 Rd |-> if_id.Inst.rd, PC |-> if_id.PC, PC4 |-> if_id.PC4,
                 PCImm |-> id_PCImm, pred |-> if_id.pred]

ExMemRegister ==
  ex_mem' = [MemRead |-> id_ex.ctl.MemRead, MemWrite |-> id_ex.ctl.MemWrite,
             RegWrite |-> id_ex.ctl.RegWrite, WTR |-> id_ex.ctl.WTR,
             PC4 |-> id_ex.PC4, Result |-> ex_ALU_Result,
             Data2 |-> forwardB_data, Imm |-> id_ex.Imm, Rd |-> id_ex.Rd]

MemWbRegister ==
  mem_wb' = [RegWrite |-> ex_mem.RegWrite, WTR |-> ex_mem.WTR,
             Rd |-> ex_mem.Rd, PC4 |-> ex_mem.PC4, Data |-> mem_rdata,
             Result |-> ex_mem.Result, Imm |-> ex_mem.Imm]

RegisterFile ==
  reg_Data' = IF wb_writes THEN [reg_Data EXCEPT ![mem_wb.Rd] = wb_wdata]
              ELSE reg_Data

DataRam ==
  ram' = RamWrite(ram, ex_mem.MemWrite, ex_mem.Result, ex_mem.Data2)

Clock(prediction) ==
  /\ pc' = IF hazard.PCWrite THEN next_PC(prediction) ELSE pc
  /\ IfIdRegister(prediction)
  /\ IdExRegister
  /\ ExMemRegister
  /\ MemWbRegister
  /\ RegisterFile
  /\ DataRam
  /\ live' = [id  |-> hazard.if_id_Write \/ (live.id /\ ~hazard.if_id_Flush),
              ex  |-> live.id /\ ~hazard.id_ex_Flush,
              mem |-> live.ex]
  /\ rom' = rom

(* A clock edge, by what the hazard detector decides.                      *)
Redirect == hazard = REDIRECT /\ \E p \in Predictions : Clock(p)
LoadUseStall == hazard = STALL /\ \E p \in Predictions : Clock(p)
JalJump == hazard = JALJUMP /\ \E p \in Predictions : Clock(p)
Advance(p) == hazard = ADVANCE /\ Clock(p)

NoneLive == [id |-> FALSE, ex |-> FALSE, mem |-> FALSE]
ZeroRegs == [r \in Reg |-> 0]

(* A clock edge with rstn low: every register but the ROM is cleared.      *)
Reset ==
  /\ pc' = 0
  /\ if_id' = ZeroIfId
  /\ id_ex' = ZeroIdEx
  /\ ex_mem' = ZeroExMem
  /\ mem_wb' = ZeroMemWb
  /\ reg_Data' = ZeroRegs
  /\ ram' = RamZero
  /\ live' = NoneLive
  /\ rom' = rom

(* The test bench resets the processor, then loads the two memories.       *)
Init ==
  /\ rom \in Programs
  /\ pc = 0
  /\ if_id = ZeroIfId
  /\ id_ex = ZeroIdEx
  /\ ex_mem = ZeroExMem
  /\ mem_wb = ZeroMemWb
  /\ reg_Data = ZeroRegs
  /\ ram \in RamImages
  /\ live = NoneLive

Tick == \/ Redirect
        \/ LoadUseStall
        \/ JalJump
        \/ \E p \in Predictions : Advance(p)

Next == Tick \/ Reset

Spec == Init /\ [][Next]_vars

-----------------------------------------------------------------------------
(* Properties.                                                             *)

Control == [RegWrite : BOOLEAN, WTR : 0 .. 3, MemRead : 0 .. 5,
            MemWrite : 0 .. 3, ALU_Ctrl : 0 .. 15, ALUSrcA : BOOLEAN,
            ALUSrcB : BOOLEAN, Branch : BOOLEAN, JAL : BOOLEAN,
            JALR : BOOLEAN]

(* The registers hold values of their widths.                              *)
TypeOK ==
  /\ rom \in Rom
  /\ pc \in Word
  /\ if_id \in [PC : Word, PC4 : Word, Inst : Inst, pred : BOOLEAN]
  /\ id_ex \in [ctl : Control, Imm : Word, Data1 : Word, Data2 : Word,
                Rs1 : Reg, Rs2 : Reg, Rd : Reg, PC : Word, PC4 : Word,
                PCImm : Word, pred : BOOLEAN]
  /\ ex_mem \in [MemRead : 0 .. 5, MemWrite : 0 .. 3, RegWrite : BOOLEAN,
                 WTR : 0 .. 3, PC4 : Word, Result : Word, Data2 : Word,
                 Imm : Word, Rd : Reg]
  /\ mem_wb \in [RegWrite : BOOLEAN, WTR : 0 .. 3, Rd : Reg, PC4 : Word,
                 Data : Word, Result : Word, Imm : Word]
  /\ reg_Data \in [Reg -> Word]
  /\ ram \in RamStates
  /\ live \in [id : BOOLEAN, ex : BOOLEAN, mem : BOOLEAN]

(* The architectural state the pipeline is in: the instruction in MEM is   *)
(* the next to complete; a write-back that is pending has completed.       *)
AbsRegs == IF wb_writes THEN [reg_Data EXCEPT ![mem_wb.Rd] = wb_wdata]
           ELSE reg_Data

MemPC == IF ex_mem.PC4 >= 4 THEN ex_mem.PC4 - 4
         ELSE ex_mem.PC4 + WordSize - 4

(* The address of the oldest instruction in IF and ID, and behind MEM.     *)
FrontPC    == IF live.id THEN if_id.PC ELSE pc
BehindMEM  == IF live.ex THEN id_ex.PC ELSE FrontPC
AbsPC      == IF live.mem THEN MemPC ELSE BehindMEM

Arch == INSTANCE Isa WITH pc <- AbsPC, regs <- AbsRegs

(* Every clock edge completes the instruction in MEM exactly as the        *)
(* architecture prescribes, or completes none and changes nothing that a   *)
(* program can see: forwarding, stalls, flushes and predictions never show.*)
ImplementsIsa == Arch!Spec

(* The registers as the instruction in EX should see them: those of the    *)
(* architecture once the instruction in MEM has completed.                 *)
mem_result == IF ex_mem.WTR = WTR_MEM THEN mem_rdata ELSE mem_wdata

RegsAfterMEM == IF mem_writes THEN [AbsRegs EXCEPT ![ex_mem.Rd] = mem_result]
                ELSE AbsRegs

(* The operands in EX are never stale: forwarding, the write-first read    *)
(* port and the load-use stall together deliver the youngest older value   *)
(* of both source registers, x0 included.                                  *)
OperandsFresh ==
  live.ex => /\ forwardA_data = RegsAfterMEM[id_ex.Rs1]
             /\ forwardB_data = RegsAfterMEM[id_ex.Rs2]

(* No wrong-path instruction gets behind the one in MEM: whatever was      *)
(* predicted, the instruction that will complete next is the one that      *)
(* control flow leads to.                                                  *)
CommittedPath == live.mem => BehindMEM = Arch!NextPc

(* A flush never swallows an instruction or lets one in twice: what was    *)
(* flushed cannot write a register or memory later, and a bubble cannot    *)
(* stall, redirect, or write.                                              *)
BubblesInert ==
  /\ ~live.mem => ~mem_writes /\ ex_mem.MemWrite = MEMWRITE_NOP
  /\ ~live.ex => hazard \notin {REDIRECT, STALL}
  /\ ~live.id => hazard # JALJUMP

(* A load-use stall lasts one cycle: the hazard detector never stalls      *)
(* twice in a row, so no instruction can be held in ID for ever.           *)
NoStallRepeat == [][hazard = STALL => hazard' # STALL]_vars

(* The processor completes instructions for ever.                          *)
CompletesForever == []<>live.mem
=============================================================================
