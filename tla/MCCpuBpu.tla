------------------------------ MODULE MCCpuBpu ------------------------------
(***************************************************************************)
(* Instances of CpuBpu for TLC: every program over small alphabets whose   *)
(* targets are whole words, in a ROM of four words.  Either the addresses  *)
(* are as many as the ways of the one set of the target buffer, or the     *)
(* address space repeats the ROM 16 times and many more addresses branch.  *)
(***************************************************************************)
EXTENDS CpuBpu, AluOps, RamOps

CONSTANT Alphabet      \* the instructions programs are made of

MCRamImages == {ZeroRam}
MCPrograms == [0 .. RomWords - 1 -> Alphabet]
MCXor(a, b) == a ^^ b

Op(op, f3, d, a, b, n) ==
  [opcode |-> op, funct3 |-> f3, funct7b5 |-> FALSE,
   rd |-> d, rs1 |-> a, rs2 |-> b, imm |-> n]

(* Branches that change direction, jumps, and what feeds or stalls them.   *)
MixedAlphabet ==
  {Op("BRANCH", 4, 0, 1, 2, 12),    \* blt  x1, x2, +12
   Op("BRANCH", 1, 0, 1, 0, 248),   \* bne  x1, x0, -8
   Op("JAL", 0, 1, 0, 2, 8),        \* jal  x1, +8
   Op("JALR", 0, 0, 1, 1, 4),       \* jalr x0, 4(x1)
   Op("LOAD", 2, 1, 1, 0, 0),       \* lw   x1, 0(x1)
   Op("ALUI", 0, 1, 1, 1, 4)}       \* addi x1, x1, 4

(* Branches that never change direction, and jumps; and what redirects or  *)
(* stalls for ever.                                                        *)
SteadyAlphabet ==
  {Op("BRANCH", 0, 0, 0, 0, 8),     \* beq  x0, x0, +8
   Op("BRANCH", 0, 0, 0, 0, 12),    \* beq  x0, x0, -4
   Op("BRANCH", 1, 0, 0, 0, 12),    \* bne  x0, x0, -4
   Op("JAL", 0, 1, 0, 0, 12),       \* jal  x1, -4
   Op("JAL", 0, 1, 0, 0, 8),        \* jal  x1, +8
   Op("ALUI", 0, 1, 1, 1, 4),       \* addi x1, x1, 4
   Op("LOAD", 2, 1, 1, 0, 0),       \* lw   x1, 0(x1)
   Op("BRANCH", 0, 0, 1, 0, 12),    \* beq  x1, x0, -4
   Op("JALR", 0, 0, 1, 0, 0)}       \* jalr x0, 0(x1)
=============================================================================
