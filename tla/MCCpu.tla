------------------------------- MODULE MCCpu -------------------------------
(***************************************************************************)
(* Instances of Cpu for TLC: words of 4 bits made of four 1-bit bytes, so  *)
(* that every loop of additions wraps and every load mode is distinct, a   *)
(* ROM of four words and three registers.  The datapath is that of AluOps  *)
(* and RamOps.  Many programs are explored at once: they are initial       *)
(* states.                                                                 *)
(***************************************************************************)
EXTENDS CpuInvariant, AluOps, RamOps

(* What the RAM holds initially.                                           *)
Image == [c \in Cells |-> IF c \in {0, 3} THEN 1 ELSE 0]
MCRamImages == {Image}

R(f3, f7, d, a, b) == [opcode |-> "ALUR", funct3 |-> f3, funct7b5 |-> f7,
                       rd |-> d, rs1 |-> a, rs2 |-> b, imm |-> 0]
I(op, f3, d, a, n) == [opcode |-> op, funct3 |-> f3, funct7b5 |-> FALSE,
                       rd |-> d, rs1 |-> a, rs2 |-> n % NRegs, imm |-> n]
S(op, f3, a, b, n) == [opcode |-> op, funct3 |-> f3, funct7b5 |-> FALSE,
                       rd |-> n % NRegs, rs1 |-> a, rs2 |-> b, imm |-> n]
U(op, d, n)        == [opcode |-> op, funct3 |-> 0, funct7b5 |-> FALSE,
                       rd |-> d, rs1 |-> 0, rs2 |-> n % NRegs, imm |-> n]

(* Data hazards: loads, stores, and arithmetic on two registers and x0.    *)
DataAlphabet ==
  {R(0, FALSE, 2, 1, 1),        \* add  x2, x1, x1
   R(0, TRUE, 1, 2, 0),         \* sub  x1, x2, x0
   I("ALUI", 0, 1, 1, 1),       \* addi x1, x1, 1
   I("ALUI", 0, 0, 1, 3),       \* addi x0, x1, 3
   I("LOAD", 2, 1, 1, 3),       \* lw   x1, 3(x1)
   I("LOAD", 0, 2, 1, 0),       \* lb   x2, 0(x1)
   I("LOAD", 2, 0, 2, 0),       \* lw   x0, 0(x2)
   S("STORE", 0, 1, 2, 1),      \* sb   x2, 1(x1)
   S("STORE", 2, 2, 1, 0)}      \* sw   x1, 0(x2)

(* Control hazards: branches both ways, jumps, a load and an add to feed   *)
(* them.                                                                   *)
ControlAlphabet ==
  {S("BRANCH", 0, 1, 2, 12),    \* beq  x1, x2, -4
   S("BRANCH", 1, 1, 0, 8),     \* bne  x1, x0, +8
   U("JAL", 1, 8),              \* jal  x1, +8
   U("JAL", 2, 12),             \* jal  x2, -4
   I("JALR", 0, 1, 2, 4),       \* jalr x1, 4(x2)
   I("ALUI", 0, 2, 1, 1),       \* addi x2, x1, 1
   I("LOAD", 2, 1, 0, 0),       \* lw   x1, 0(x0)
   U("LUI", 2, 12),             \* lui  x2, 12
   U("AUIPC", 1, 0)}            \* auipc x1, 0

(* The whole instruction set, reserved codes included: two instructions    *)
(* that fill the registers, then any two.                                  *)
Op(op, f3, f7, d, a, b, n) ==
  [opcode |-> op, funct3 |-> f3, funct7b5 |-> f7,
   rd |-> d, rs1 |-> a, rs2 |-> b, imm |-> n]

EveryInst ==
  {Op(op, f3, f7, 1, 1, 2, 12) :
     op \in {"ALUR", "ALUI"}, f3 \in 0 .. 7, f7 \in BOOLEAN}
    \cup {Op(op, f3, FALSE, 1, 1, 2, 12) :
            op \in {"LOAD", "STORE", "BRANCH"}, f3 \in 0 .. 7}
    \cup {Op(op, 0, FALSE, 1, 2, 1, 12) :
            op \in {"LUI", "AUIPC", "JAL", "JALR", "SYSTEM", "NONE"}}

Fill(r, n) == Op("LUI", 0, FALSE, r, 0, 0, n)

EveryProgram ==
  {<<a, b, i, j>> : a \in {Fill(1, 13), Fill(1, 2)}, b \in {Fill(2, 6)},
                    i \in EveryInst, j \in EveryInst}

(* Three instructions of an alphabet, and one of a few; or any two.        *)
Over(alphabet, last) ==
  {p \in [0 .. RomWords - 1 -> alphabet] : p[RomWords - 1] \in last}

MCPrograms ==
  Over(DataAlphabet, {R(0, FALSE, 2, 1, 1), I("LOAD", 2, 1, 1, 3)})
    \cup Over(ControlAlphabet, {S("BRANCH", 1, 1, 0, 8), U("JAL", 2, 12)})
    \cup {[k \in 0 .. RomWords - 1 |-> p[k + 1]] : p \in EveryProgram}
=============================================================================
