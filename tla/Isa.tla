-------------------------------- MODULE Isa --------------------------------
(***************************************************************************)
(* The architecture the processor implements: RV32I one instruction at a   *)
(* time, as the reference simulator of the differential tests runs it.     *)
(* Each action fetches the instruction at pc and completes it at once.     *)
(* There is no pipeline, no prediction and no hazard here.                 *)
(***************************************************************************)
EXTENDS Rv32i

CONSTANTS
  Programs,           \* the ROM images considered
  RamImages           \* the initial RAM images considered

VARIABLES
  rom,                \* the program: never written
  pc,                 \* address of the next instruction
  regs,               \* the register file, x0 included
  ram                 \* data memory

vars == <<rom, pc, regs, ram>>

inst == RomAt(rom, pc)

SetReg(v) ==
  regs' = IF inst.rd = 0 THEN regs ELSE [regs EXCEPT ![inst.rd] = v]

(* The operation of a register-register or register-immediate instruction: *)
(* only the former has a subtraction, both have two right shifts.          *)
Operation ==
  CASE inst.funct3 = 0 -> IF inst.opcode = "ALUR" /\ inst.funct7b5
                          THEN ALU_OP_SUB ELSE ALU_OP_ADD
    [] inst.funct3 = 1 -> ALU_OP_SLL
    [] inst.funct3 = 2 -> ALU_OP_SLT
    [] inst.funct3 = 3 -> ALU_OP_SLTU
    [] inst.funct3 = 4 -> ALU_OP_XOR
    [] inst.funct3 = 5 -> IF inst.funct7b5 THEN ALU_OP_SRA ELSE ALU_OP_SRL
    [] inst.funct3 = 6 -> ALU_OP_OR
    [] inst.funct3 = 7 -> ALU_OP_AND

Comparison ==
  CASE inst.funct3 = 0 -> ALU_OP_BEQ
    [] inst.funct3 = 1 -> ALU_OP_BNE
    [] inst.funct3 = 4 -> ALU_OP_BLT
    [] inst.funct3 = 5 -> ALU_OP_BGE
    [] inst.funct3 = 6 -> ALU_OP_BLTU
    [] inst.funct3 = 7 -> ALU_OP_BGEU
    [] OTHER           -> ALU_OP_XXX

(* Where execution goes after the instruction at pc.                       *)
NextPc ==
  CASE /\ inst.opcode = "BRANCH"
       /\ BranchCond(Comparison, regs[inst.rs1], regs[inst.rs2])
                              -> Adder32(pc, inst.imm)
    [] inst.opcode = "JAL"    -> Adder32(pc, inst.imm)
    [] inst.opcode = "JALR"   -> ClearBit0(Adder32(regs[inst.rs1], inst.imm))
    [] OTHER                  -> Adder32(pc, 4)

AluReg ==
  /\ inst.opcode = "ALUR"
  /\ SetReg(Alu(Operation, regs[inst.rs1], regs[inst.rs2]))
  /\ pc' = NextPc
  /\ UNCHANGED <<rom, ram>>

AluImm ==
  /\ inst.opcode = "ALUI"
  /\ SetReg(Alu(Operation, regs[inst.rs1], inst.imm))
  /\ pc' = NextPc
  /\ UNCHANGED <<rom, ram>>

Lui ==
  /\ inst.opcode = "LUI"
  /\ SetReg(inst.imm)
  /\ pc' = NextPc
  /\ UNCHANGED <<rom, ram>>

Auipc ==
  /\ inst.opcode = "AUIPC"
  /\ SetReg(Adder32(pc, inst.imm))
  /\ pc' = NextPc
  /\ UNCHANGED <<rom, ram>>

Load ==
  /\ inst.opcode = "LOAD"
  /\ SetReg(RamRead(ram, LoadMode(inst.funct3),
                    Adder32(regs[inst.rs1], inst.imm)))
  /\ pc' = NextPc
  /\ UNCHANGED <<rom, ram>>

Store ==
  /\ inst.opcode = "STORE"
  /\ ram' = RamWrite(ram, StoreMode(inst.funct3),
                     Adder32(regs[inst.rs1], inst.imm), regs[inst.rs2])
  /\ pc' = NextPc
  /\ UNCHANGED <<rom, regs>>

Branch ==
  /\ inst.opcode = "BRANCH"
  /\ pc' = NextPc
  /\ UNCHANGED <<rom, regs, ram>>

Jal ==
  /\ inst.opcode = "JAL"
  /\ SetReg(Adder32(pc, 4))
  /\ pc' = NextPc
  /\ UNCHANGED <<rom, ram>>

Jalr ==
  /\ inst.opcode = "JALR"
  /\ SetReg(Adder32(pc, 4))
  /\ pc' = NextPc
  /\ UNCHANGED <<rom, ram>>

(* ecall, ebreak, fence and unsupported words have no effect.              *)
NoEffect ==
  /\ inst.opcode \in {"SYSTEM", "NONE"}
  /\ pc' = NextPc
  /\ UNCHANGED <<rom, regs, ram>>

Reset ==
  /\ pc' = 0
  /\ regs' = [r \in Reg |-> 0]
  /\ ram' = RamZero
  /\ UNCHANGED rom

Init ==
  /\ rom \in Programs
  /\ pc = 0
  /\ regs = [r \in Reg |-> 0]
  /\ ram \in RamImages

Step == \/ AluReg \/ AluImm \/ Lui \/ Auipc \/ Load \/ Store
        \/ Branch \/ Jal \/ Jalr \/ NoEffect

Next == Step \/ Reset

Spec == Init /\ [][Next]_vars
=============================================================================
