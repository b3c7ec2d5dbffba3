------------------------------- MODULE AluOps -------------------------------
(***************************************************************************)
(* alu.v at a word of XLen bits: Result and Branch_cond as functions of    *)
(* ALU_Ctrl and the two operands.  The two case statements of the RTL are  *)
(* separate, so that the code 13, which define.v gives to both SRA and     *)
(* BLTU, shifts in the one and compares in the other.                      *)
(***************************************************************************)
EXTENDS Integers, Bitwise

CONSTANT XLen          \* 32 in the RTL

Modulus == 2 ^ XLen

Signed(a) == IF a < Modulus \div 2 THEN a ELSE a - Modulus

ToWord(n) == n % Modulus

Flag(b) == IF b THEN 1 ELSE 0

(* The low log2(XLen) bits of B.                                           *)
Shamt(b) == b % XLen

(* Flooring division by a power of two is the arithmetic shift.            *)
AluResult(ctrl, a, b) ==
  CASE ctrl = 7  -> a & b
    [] ctrl = 6  -> a | b
    [] ctrl = 0  -> ToWord(a + b)
    [] ctrl = 8  -> ToWord(a - b)
    [] ctrl = 1  -> ToWord(a * 2 ^ Shamt(b))
    [] ctrl = 2  -> Flag(Signed(a) < Signed(b))
    [] ctrl = 3  -> Flag(a < b)
    [] ctrl = 4  -> a ^^ b
    [] ctrl = 5  -> a \div 2 ^ Shamt(b)
    [] ctrl = 13 -> ToWord(Signed(a) \div 2 ^ Shamt(b))
    [] OTHER     -> 0

AluBranchCond(ctrl, a, b) ==
  CASE ctrl = 9  -> a = b
    [] ctrl = 10 -> a # b
    [] ctrl = 11 -> Signed(a) < Signed(b)
    [] ctrl = 12 -> Signed(a) >= Signed(b)
    [] ctrl = 13 -> a < b
    [] ctrl = 14 -> a >= b
    [] OTHER     -> FALSE
=============================================================================
