------------------------------ MODULE Runtime ------------------------------
(***************************************************************************)
(* benchmark/runtime.c: the routines a compiler for RV32I calls for the    *)
(* operations the processor has no instructions for, multiplication and    *)
(* unsigned division.  A call is a behaviour, an iteration of a loop a     *)
(* step.  The parameters are changed in place, as in C: x is a or num, y   *)
(* is b or den.  Words have WordSize values, in C 2^32; "the top bit is    *)
(* set" is y >= WordSize \div 2.                                           *)
(***************************************************************************)
EXTENDS Integers

CONSTANT WordSize

(* What the proofs use of the word size.                                   *)
WordSizeIsEven == WordSize \in Nat /\ WordSize > 0 /\ WordSize % 2 = 0

Word == 0 .. WordSize - 1

VARIABLES
  call,      \* the routine and its arguments, as called
  x, y,      \* its parameters now
  bit,       \* the bit of the quotient that is to be decided
  result,
  loop       \* "multiply", "grow", "subtract", or "returned"

vars == <<call, x, y, bit, result, loop>>

Divisions == {"udivsi3", "umodsi3"}

Calls == [routine : {"mulsi3"} \cup Divisions, x : Word, y : Word]

(* A division by zero returns before the first loop.                       *)
Init ==
  /\ call \in Calls
  /\ x = call.x /\ y = call.y
  /\ bit = 1
  /\ result = IF call.routine = "udivsi3" /\ y = 0 THEN WordSize - 1 ELSE 0
  /\ loop = CASE call.routine = "mulsi3" -> "multiply"
              [] call.routine # "mulsi3" /\ y = 0 -> "returned"
              [] OTHER -> "grow"

ShiftLeft(word) == (2 * word) % WordSize

ShiftRight(word) == word \div 2

(* word | bit, for a power of two.                                         *)
SetBit(word) == IF (word \div bit) % 2 = 0 THEN word + bit ELSE word

Multiply ==
  /\ loop = "multiply" /\ y # 0
  /\ result' = IF y % 2 = 1 THEN (result + x) % WordSize ELSE result
  /\ x' = ShiftLeft(x)
  /\ y' = ShiftRight(y)
  /\ UNCHANGED <<call, bit, loop>>

MayGrow == y < x /\ y < WordSize \div 2

Grow ==
  /\ loop = "grow" /\ MayGrow
  /\ y' = ShiftLeft(y)
  /\ bit' = ShiftLeft(bit)
  /\ UNCHANGED <<call, x, result, loop>>

Grown ==
  /\ loop = "grow" /\ ~MayGrow
  /\ loop' = "subtract"
  /\ UNCHANGED <<call, x, y, bit, result>>

(* umodsi3 keeps no quotient.                                              *)
Subtract ==
  /\ loop = "subtract" /\ bit # 0
  /\ x' = IF x >= y THEN x - y ELSE x
  /\ result' = IF x >= y /\ call.routine = "udivsi3" THEN SetBit(result)
               ELSE result
  /\ y' = ShiftRight(y)
  /\ bit' = ShiftRight(bit)
  /\ UNCHANGED <<call, loop>>

Return ==
  /\ \/ loop = "multiply" /\ y = 0
     \/ loop = "subtract" /\ bit = 0
  /\ loop' = "returned"
  /\ UNCHANGED <<call, x, y, bit, result>>

Next == Multiply \/ Grow \/ Grown \/ Subtract \/ Return

Spec == Init /\ [][Next]_vars

value == IF call.routine = "umodsi3" THEN x ELSE result

(* The value returned is the product modulo the word size, the quotient or *)
(* the remainder; a division by zero returns what RISC-V prescribes, all   *)
(* ones and the dividend.  A divisor shifted past its top bit, a quotient  *)
(* bit set twice or a loop left an iteration early would break it.         *)
RightValue ==
  loop = "returned" =>
    value = CASE call.routine = "mulsi3" -> (call.x * call.y) % WordSize
              [] call.routine = "udivsi3" ->
                   IF call.y = 0 THEN WordSize - 1 ELSE call.x \div call.y
              [] call.routine = "umodsi3" ->
                   IF call.y = 0 THEN call.x ELSE call.x % call.y

-----------------------------------------------------------------------------
(* The inductive invariant.                                                *)

PowerOfTwo(p) == \A d \in 2 .. p : p % d = 0 => d % 2 = 0

RuntimeTypeOK ==
  /\ call \in Calls
  /\ x \in Word /\ y \in Word /\ bit \in Word /\ result \in Word
  /\ loop \in {"multiply", "grow", "subtract", "returned"}
  /\ loop = "multiply" => call.routine = "mulsi3"
  /\ loop \in {"grow", "subtract"} => call.routine \in Divisions /\ call.y # 0

(* What is left to multiply, with the sum so far, is the product.          *)
ProductInv ==
  loop = "multiply" =>
    \E k \in Int : result + x * y = call.x * call.y + k * WordSize

(* The divisor is the original one, at the place of bit.                   *)
PlaceInv ==
  /\ loop = "grow" => bit # 0
  /\ loop \in {"grow", "subtract"} /\ bit # 0 =>
       /\ PowerOfTwo(bit)
       /\ y = call.y * bit

(* The bits of the quotient above bit are decided, the rest is in x.       *)
QuotientInv ==
  /\ loop = "grow" => x = call.x /\ result = 0
  /\ loop = "subtract" =>
       \E q \in Nat :
         /\ q * call.y + x = call.x
         /\ bit # 0 => x < 2 * y /\ \E h \in Nat : q = 2 * bit * h
         /\ bit = 0 => x < call.y
         /\ result = IF call.routine = "udivsi3" THEN q ELSE 0

RuntimeInv ==
  RuntimeTypeOK /\ ProductInv /\ PlaceInv /\ QuotientInv /\ RightValue
=============================================================================
