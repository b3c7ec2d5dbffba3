------------------------------- MODULE Rv32i -------------------------------
(***************************************************************************)
(* What the pipeline and the architecture it implements have in common:    *)
(* words, registers, instruction words split into their fields, and the    *)
(* codes of rtl/component/define.v.  The datapath is a parameter: Alu,     *)
(* BranchCond, RamRead and RamWrite stand for alu.v and data_ram.v, which  *)
(* AluOps and RamOps define and the model-checking modules plug in.        *)
(***************************************************************************)
EXTENDS Integers

CONSTANTS
  WordSize,           \* number of values of a word (2^32 in the RTL)
  NRegs,              \* number of registers (32 in the RTL)
  RomWords,           \* words in inst_rom (4096 in the RTL)
  Alu(_, _, _),       \* Alu(ALU_Ctrl, A, B): the Result output of alu.v
  BranchCond(_, _, _),\* BranchCond(ALU_Ctrl, A, B): its Branch_cond output
  RamStates,          \* the contents data_ram can have
  RamZero,            \* the contents after a reset
  RamRead(_, _, _),   \* RamRead(ram, MemRead, Addr): the r_Data output
  RamWrite(_, _, _, _)\* RamWrite(ram, MemWrite, Addr, w_Data)

Word == 0 .. WordSize - 1
Reg  == 0 .. NRegs - 1

(* ALU_Ctrl codes.  SRA and BLTU share the code 13, as in define.v. *)
ALU_OP_ADD == 0
ALU_OP_SLL == 1
ALU_OP_SLT == 2
ALU_OP_SLTU == 3
ALU_OP_XOR == 4
ALU_OP_SRL == 5
ALU_OP_OR == 6
ALU_OP_AND == 7
ALU_OP_SUB == 8
ALU_OP_BEQ == 9
ALU_OP_BNE == 10
ALU_OP_BLT == 11
ALU_OP_BGE == 12
ALU_OP_SRA == 13
ALU_OP_BLTU == 13
ALU_OP_BGEU == 14
ALU_OP_XXX == 15

WTR_MEM == 0
WTR_ALU == 1
WTR_PC4 == 2
WTR_IMM == 3

MEMREAD_NOP == 0
MEMREAD_LB == 1
MEMREAD_LH == 2
MEMREAD_LW == 3
MEMREAD_LBU == 4
MEMREAD_LHU == 5

MEMWRITE_NOP == 0
MEMWRITE_SB == 1
MEMWRITE_SH == 2
MEMWRITE_SW == 3

(* "NONE" stands for every opcode without a case of its own in the         *)
(* controller: FENCE, an unsupported opcode, and the all-zero word.        *)
Opcode == {"ALUR", "ALUI", "LOAD", "STORE", "BRANCH", "LUI", "AUIPC",
           "JAL", "JALR", "SYSTEM", "NONE"}

(* An instruction word: the fields the decoder slices out of it, with imm  *)
(* the immediate that imm_gen.v extends from it.  Where the encoding lets  *)
(* an immediate overlap rd, rs1 or rs2, those fields hold any value.       *)
Inst == [opcode : Opcode, funct3 : 0 .. 7, funct7b5 : BOOLEAN,
         rd : Reg, rs1 : Reg, rs2 : Reg, imm : Word]

ZeroInst == [opcode |-> "NONE", funct3 |-> 0, funct7b5 |-> FALSE,
             rd |-> 0, rs1 |-> 0, rs2 |-> 0, imm |-> 0]

Rom == [0 .. RomWords - 1 -> Inst]

(* adder32.v: addition of two words, the carry out of the word is lost.    *)
Adder32(a, b) == IF a + b < WordSize THEN a + b ELSE a + b - WordSize

(* inst_rom.v: the word at addr[13:2]; higher address bits alias.          *)
RomAt(rom, addr) == rom[(addr \div 4) % RomWords]

(* cpu.v: a JALR target has bit 0 cleared (& ~32'b1).                      *)
ClearBit0(a) == a - (a % 2)

(* Which loads and stores a funct3 selects; a reserved funct3 selects none *)
LoadMode(funct3) ==
  CASE funct3 = 0 -> MEMREAD_LB
    [] funct3 = 1 -> MEMREAD_LH
    [] funct3 = 2 -> MEMREAD_LW
    [] funct3 = 4 -> MEMREAD_LBU
    [] funct3 = 5 -> MEMREAD_LHU
    [] OTHER      -> MEMREAD_NOP

StoreMode(funct3) ==
  CASE funct3 = 0 -> MEMWRITE_SB
    [] funct3 = 1 -> MEMWRITE_SH
    [] funct3 = 2 -> MEMWRITE_SW
    [] OTHER      -> MEMWRITE_NOP

(* The constant 4 is a word, and the register x0 and a ROM word exist.     *)
ASSUME SizesAssumption ==
  /\ WordSize \in Nat /\ WordSize > 4
  /\ NRegs \in Nat /\ NRegs > 0
  /\ RomWords \in Nat /\ RomWords > 0

(* alu.v drives Result and Branch_cond for every control code.             *)
ASSUME AluAssumption ==
  \A c \in 0 .. 15, a, b \in Word :
    Alu(c, a, b) \in Word /\ BranchCond(c, a, b) \in BOOLEAN

(* The code of an add gives the 32-bit sum, and the reserved branch code   *)
(* XXX never takes the branch.                                             *)
ASSUME AluAddAssumption ==
  \A a, b \in Word :
    /\ Alu(ALU_OP_ADD, a, b) = Adder32(a, b)
    /\ BranchCond(ALU_OP_XXX, a, b) = FALSE

(* data_ram.v reads a word in every mode, 0 when it reads nothing, and     *)
(* keeps its contents when it writes nothing.                              *)
ASSUME RamAssumption ==
  /\ RamZero \in RamStates
  /\ \A m \in RamStates, a \in Word :
       /\ \A k \in 0 .. 5 : RamRead(m, k, a) \in Word
       /\ RamRead(m, MEMREAD_NOP, a) = 0
       /\ \A d \in Word :
            /\ \A k \in 0 .. 3 : RamWrite(m, k, a, d) \in RamStates
            /\ RamWrite(m, MEMWRITE_NOP, a, d) = m
=============================================================================
