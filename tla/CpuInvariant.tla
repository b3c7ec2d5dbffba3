---------------------------- MODULE CpuInvariant ----------------------------
(***************************************************************************)
(* The inductive invariant of Cpu: what each stage holds, stated of the    *)
(* instruction in it and of the architectural state (AbsPC, AbsRegs).      *)
(***************************************************************************)
EXTENDS Cpu

(* The instructions in EX and MEM, read again from the ROM.                *)
ex_Inst  == RomAt(rom, id_ex.PC)
mem_Inst == RomAt(rom, MemPC)

(* The value alu.v computes for instruction i at address a.                *)
ResultOf(i, a, rdata1, rdata2) ==
  Alu(Controller(i).ALU_Ctrl,
      IF Controller(i).ALUSrcA THEN a ELSE rdata1,
      IF Controller(i).ALUSrcB THEN i.imm ELSE rdata2)

(* Only branches and JAL are predicted taken.                              *)
Predictable(i) == i.opcode \in {"BRANCH", "JAL"}

(* ID holds an instruction as it was fetched, and the fetch that followed  *)
(* went where the prediction said; or it holds zeros.                      *)
DecodeInv ==
  /\ live.id =>
       /\ if_id.Inst = RomAt(rom, if_id.PC)
       /\ if_id.PC4 = Adder32(if_id.PC, 4)
       /\ if_id.pred => Predictable(if_id.Inst)
       /\ pc = IF if_id.pred THEN id_PCImm ELSE if_id.PC4
  /\ ~live.id => if_id = ZeroIfId

(* EX holds a decoded instruction with the operands the register file has  *)
(* now; or it holds zeros.                                                 *)
ExecuteInv ==
  /\ live.ex =>
       /\ id_ex.ctl = Controller(ex_Inst)
       /\ id_ex.Imm = ex_Inst.imm
       /\ id_ex.Rs1 = ex_Inst.rs1
       /\ id_ex.Rs2 = ex_Inst.rs2
       /\ id_ex.Rd = ex_Inst.rd
       /\ id_ex.PC4 = Adder32(id_ex.PC, 4)
       /\ id_ex.PCImm = Adder32(id_ex.PC, id_ex.Imm)
       /\ id_ex.Data1 = reg_Data[id_ex.Rs1]
       /\ id_ex.Data2 = reg_Data[id_ex.Rs2]
       /\ id_ex.pred => Predictable(ex_Inst)
  /\ ~live.ex => id_ex = ZeroIdEx

(* What follows EX is where EX leads, or where it was predicted to lead.   *)
SpeculationInv ==
  live.ex /\ ~id_ex.ctl.JALR =>
    FrontPC = IF id_ex.ctl.JAL \/ id_ex.pred THEN id_ex.PCImm ELSE id_ex.PC4

(* MEM holds an executed instruction, computed from architectural values;  *)
(* or it has no effect.                                                    *)
MemoryInv ==
  /\ live.mem =>
       /\ ex_mem.RegWrite = Controller(mem_Inst).RegWrite
       /\ ex_mem.WTR = Controller(mem_Inst).WTR
       /\ ex_mem.MemRead = Controller(mem_Inst).MemRead
       /\ ex_mem.MemWrite = Controller(mem_Inst).MemWrite
       /\ ex_mem.Imm = mem_Inst.imm
       /\ ex_mem.Rd = mem_Inst.rd
       /\ ex_mem.Result = ResultOf(mem_Inst, MemPC, AbsRegs[mem_Inst.rs1],
                                   AbsRegs[mem_Inst.rs2])
       /\ ex_mem.Data2 = AbsRegs[mem_Inst.rs2]
  /\ ~live.mem => /\ ~ex_mem.RegWrite
                  /\ ex_mem.MemRead = MEMREAD_NOP
                  /\ ex_mem.MemWrite = MEMWRITE_NOP

(* A load in MEM has no consumer in EX.                                    *)
LoadUseInv ==
  live.ex /\ ex_mem.MemRead # MEMREAD_NOP =>
    ex_mem.Rd # id_ex.Rs1 /\ ex_mem.Rd # id_ex.Rs2

(* Where instruction i at address a leads, given its operands.             *)
Successor(i, a, rdata1, rdata2) ==
  CASE /\ i.opcode = "BRANCH"
       /\ BranchCond(Controller(i).ALU_Ctrl, rdata1, rdata2)
                           -> Adder32(a, i.imm)
    [] i.opcode = "JAL"    -> Adder32(a, i.imm)
    [] i.opcode = "JALR"   -> ClearBit0(Adder32(rdata1, i.imm))
    [] OTHER               -> Adder32(a, 4)

(* Behind MEM comes what the instruction in MEM leads to.                  *)
PathInv ==
  live.mem => BehindMEM = Successor(mem_Inst, MemPC, AbsRegs[mem_Inst.rs1],
                                    AbsRegs[mem_Inst.rs2])

ZeroInv == reg_Data[0] = 0

IInv == /\ TypeOK
        /\ ZeroInv
        /\ DecodeInv
        /\ ExecuteInv
        /\ SpeculationInv
        /\ MemoryInv
        /\ LoadUseInv
        /\ PathInv
=============================================================================
