---------------------------- MODULE MCTestbench ----------------------------
(***************************************************************************)
(* Instances of Testbench for TLC: every program of two or three words     *)
(* over a small alphabet, followed by a terminal loop of either kind, or   *)
(* by none.                                                                *)
(***************************************************************************)
EXTENDS Testbench, AluOps, RamOps, Sequences

MCRamImages == {[c \in Cells |-> IF c = 0 THEN 1 ELSE 0]}

Op(op, f3, d, a, b, n) ==
  [opcode |-> op, funct3 |-> f3, funct7b5 |-> FALSE,
   rd |-> d, rs1 |-> a, rs2 |-> b, imm |-> n]

(* What stalls, redirects and jumps, to both sides of the loop.            *)
Alphabet ==
  {Op("BRANCH", 1, 0, 1, 2, 8),     \* bne  x1, x2, +8
   Op("BRANCH", 0, 0, 1, 0, 12),    \* beq  x1, x0, -4
   Op("JAL", 0, 2, 0, 1, 8),        \* jal  x2, +8
   Op("JALR", 0, 0, 1, 1, 3),       \* jalr x0, 3(x1)
   Op("LOAD", 2, 1, 0, 0, 0),       \* lw   x1, 0(x0)
   Op("LUI", 0, 2, 0, 1, 8),        \* lui  x2, 8
   Op("ALUI", 0, 1, 1, 1, 1)}       \* addi x1, x1, 1

Jump(n) == [ZeroInst EXCEPT !.opcode = "JAL", !.imm = n]

(* j .  or  nop; j .-4  or an ordinary instruction, and zeros up to the    *)
(* end of the ROM.                                                         *)
Endings ==
  {<<Jump(0)>>, <<Nop, Jump(WordSize - 4)>>, <<Jump(0), ZeroInst>>,
   <<Op("ALUI", 0, 1, 1, 1, 1)>>}

MCPrograms ==
  {image \in [0 .. RomWords - 1 -> Alphabet \cup UNION {{e[i] : i \in DOMAIN e} : e \in Endings}] :
     \E e \in Endings :
       LET first == RomWords - Len(e)
       IN /\ \A k \in 0 .. first - 1 : image[k] \in Alphabet
          /\ \A i \in DOMAIN e : image[first + i - 1] = e[i]}
=============================================================================
