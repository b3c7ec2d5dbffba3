-------------------------- MODULE ArithmeticProofs --------------------------
(***************************************************************************)
(* The theorems about the two parts that only compute: imm_gen.v gives     *)
(* back the immediate that was encoded, and in runtime.c multiplication    *)
(* keeps the sum modulo the word size, division keeps the dividend.  The   *)
(* lemmas before the latter are about quotients and powers of two, which   *)
(* the provers only know as terms.                                         *)
(***************************************************************************)
EXTENDS Runtime, ImmGen, TLAPS

-----------------------------------------------------------------------------
(* The immediate generator gives back every immediate that an instruction  *)
(* of its format can hold, whatever the other fields of the word are.      *)
THEOREM ImmediatesDecoded ==
  ASSUME NEW opcode \in Opcodes, NEW inst \in Bits32,
         NEW n \in Immediates(opcode), Encodes(opcode, inst, n)
  PROVE  imm_gen(opcode, inst) = n
<1> DEFINE m == imm_gen(opcode, inst)
<1>1. /\ n \in Bits32
      /\ \A i \in Position : i > SignBit(opcode) => n[i] = n[SignBit(opcode)]
      /\ \A i \in Position : i < FirstBit(opcode) => n[i] = 0
  BY DEF Immediates
<1> SUFFICES \A i \in Position : m[i] = n[i]
  <2>1. m = [i \in Position |-> m[i]] BY DEF imm_gen
  <2>2. n = [i \in Position |-> n[i]] BY <1>1 DEF Bits32
  <2> QED BY <2>1, <2>2
<1>2. CASE opcode \in IFormat
  <2>1. SignBit(opcode) = 11 BY <1>2 DEF SignBit, IFormat
  <2>2. \A i \in Position : m[i] = inst[IF i < 12 THEN i + 20 ELSE 31]
    BY <1>2 DEF imm_gen, IFormat, UFormat
  <2>3. (\A i \in 0 .. 11 : inst[i + 20] = n[i]) BY <1>2 DEF Encodes, Holds, IFormat, UFormat
  <2>4. ASSUME NEW i \in Position PROVE m[i] = n[i]
    <3>1. CASE i < 12
      <4>1. i \in 0 .. 11 /\ i + 20 = i + 20 BY <3>1 DEF Position
      <4> QED BY <2>2, <2>3, <3>1, <4>1
    <3>2. CASE ~(i < 12)
      <4>1. inst[31] = n[11] BY <2>3
      <4>2. n[i] = n[11] BY <1>1, <2>1, <3>2 DEF Position
      <4> QED BY <2>2, <3>2, <4>1, <4>2
    <3> QED BY <3>1, <3>2
  <2> QED BY <2>4
<1>3. CASE opcode = "STORE"
  <2>1. SignBit(opcode) = 11 BY <1>3 DEF SignBit, IFormat
  <2>2. \A i \in Position : m[i] = inst[FromStore(i)]
    BY <1>3 DEF imm_gen, IFormat, UFormat
  <2>3. (\A i \in 0 .. 4 : inst[i + 7] = n[i]) /\ (\A i \in 5 .. 11 : inst[i + 20] = n[i])
    BY <1>3 DEF Encodes, Holds, IFormat, UFormat
  <2>4. ASSUME NEW i \in Position PROVE m[i] = n[i]
    <3>1. CASE i < 5
      <4>1. i \in 0 .. 4 /\ FromStore(i) = i + 7 BY <3>1 DEF Position, FromStore
      <4> QED BY <2>2, <2>3, <4>1
    <3>2. CASE i >= 5 /\ i < 12
      <4>1. i \in 5 .. 11 /\ FromStore(i) = i + 20 BY <3>2 DEF Position, FromStore
      <4> QED BY <2>2, <2>3, <4>1
    <3>3. CASE i >= 12
      <4>1. inst[31] = n[11] BY <2>3
      <4>2. n[i] = n[11] BY <1>1, <2>1, <3>3 DEF Position
      <4>3. FromStore(i) = 31 BY <3>3 DEF FromStore, Position
      <4> QED BY <2>2, <4>1, <4>2, <4>3
    <3> QED BY <3>1, <3>2, <3>3 DEF Position
  <2> QED BY <2>4
<1>4. CASE opcode = "BRANCH"
  <2>1. SignBit(opcode) = 12 /\ FirstBit(opcode) = 1
    BY <1>4 DEF SignBit, FirstBit, IFormat, UFormat
  <2>2. \A i \in Position : m[i] = IF i = 0 THEN 0 ELSE inst[FromBranch(i)]
    BY <1>4 DEF imm_gen, IFormat, UFormat
  <2>3. /\ (\A i \in 1 .. 4 : inst[i + 7] = n[i]) /\ (\A i \in 5 .. 10 : inst[i + 20] = n[i])
        /\ (\A i \in 11 .. 11 : inst[i - 4] = n[i]) /\ (\A i \in 12 .. 12 : inst[i + 19] = n[i])
    BY <1>4 DEF Encodes, Holds, IFormat, UFormat
  <2>4. ASSUME NEW i \in Position PROVE m[i] = n[i]
    <3>1. CASE i = 0
      <4>1. n[i] = 0 BY <1>1, <2>1, <3>1
      <4> QED BY <2>2, <3>1, <4>1
    <3>2. CASE i > 0 /\ i < 5
      <4>1. i \in 1 .. 4 /\ FromBranch(i) = i + 7 BY <3>2 DEF Position, FromBranch
      <4> QED BY <2>2, <2>3, <3>2, <4>1
    <3>3. CASE i >= 5 /\ i < 11
      <4>1. i \in 5 .. 10 /\ FromBranch(i) = i + 20 BY <3>3 DEF Position, FromBranch
      <4> QED BY <2>2, <2>3, <3>3, <4>1
    <3>4. CASE i = 11
      <4>1. i \in 11 .. 11 /\ FromBranch(i) = i - 4 BY <3>4 DEF FromBranch
      <4> QED BY <2>2, <2>3, <3>4, <4>1
    <3>5. CASE i >= 12
      <4>1. inst[31] = n[12] BY <2>3
      <4>2. n[i] = n[12] BY <1>1, <2>1, <3>5 DEF Position
      <4>3. FromBranch(i) = 31 BY <3>5 DEF FromBranch, Position
      <4> QED BY <2>2, <3>5, <4>1, <4>2, <4>3
    <3> QED BY <3>1, <3>2, <3>3, <3>4, <3>5 DEF Position
  <2> QED BY <2>4
<1>5. CASE opcode \in UFormat
  <2>1. FirstBit(opcode) = 12 BY <1>5 DEF FirstBit, UFormat
  <2>2. \A i \in Position : m[i] = IF i < 12 THEN 0 ELSE inst[i]
    BY <1>5 DEF imm_gen, IFormat, UFormat
  <2>3. (\A i \in 12 .. 31 : inst[i + 0] = n[i]) BY <1>5 DEF Encodes, Holds, IFormat, UFormat
  <2>4. ASSUME NEW i \in Position PROVE m[i] = n[i]
    <3>1. CASE i < 12
      <4>1. n[i] = 0 BY <1>1, <2>1, <3>1
      <4> QED BY <2>2, <3>1, <4>1
    <3>2. CASE i >= 12
      <4>1. i \in 12 .. 31 /\ i = i + 0 BY <3>2 DEF Position
      <4> QED BY <2>2, <2>3, <3>2, <4>1
    <3> QED BY <3>1, <3>2 DEF Position
  <2> QED BY <2>4
<1>6. CASE opcode = "JAL"
  <2>1. SignBit(opcode) = 20 /\ FirstBit(opcode) = 1
    BY <1>6 DEF SignBit, FirstBit, IFormat, UFormat
  <2>2. \A i \in Position : m[i] = IF i = 0 THEN 0 ELSE inst[FromJal(i)]
    BY <1>6 DEF imm_gen, IFormat, UFormat
  <2>3. /\ (\A i \in 1 .. 10 : inst[i + 20] = n[i]) /\ (\A i \in 11 .. 11 : inst[i + 9] = n[i])
        /\ (\A i \in 12 .. 19 : inst[i + 0] = n[i]) /\ (\A i \in 20 .. 20 : inst[i + 11] = n[i])
    BY <1>6 DEF Encodes, Holds, IFormat, UFormat
  <2>4. ASSUME NEW i \in Position PROVE m[i] = n[i]
    <3>1. CASE i = 0
      <4>1. n[i] = 0 BY <1>1, <2>1, <3>1
      <4> QED BY <2>2, <3>1, <4>1
    <3>2. CASE i > 0 /\ i < 11
      <4>1. i \in 1 .. 10 /\ FromJal(i) = i + 20 BY <3>2 DEF Position, FromJal
      <4> QED BY <2>2, <2>3, <3>2, <4>1
    <3>3. CASE i = 11
      <4>1. i \in 11 .. 11 /\ FromJal(i) = i + 9 BY <3>3 DEF FromJal
      <4> QED BY <2>2, <2>3, <3>3, <4>1
    <3>4. CASE i > 11 /\ i < 20
      <4>1. i \in 12 .. 19 /\ FromJal(i) = i + 0 BY <3>4 DEF Position, FromJal
      <4> QED BY <2>2, <2>3, <3>4, <4>1
    <3>5. CASE i >= 20
      <4>1. inst[31] = n[20] BY <2>3
      <4>2. n[i] = n[20] BY <1>1, <2>1, <3>5 DEF Position
      <4>3. FromJal(i) = 31 BY <3>5 DEF FromJal, Position
      <4> QED BY <2>2, <3>5, <4>1, <4>2, <4>3
    <3> QED BY <3>1, <3>2, <3>3, <3>4, <3>5 DEF Position
  <2> QED BY <2>4
<1> QED BY <1>2, <1>3, <1>4, <1>5, <1>6 DEF Opcodes

-----------------------------------------------------------------------------
LEMMA Halves ==
  ASSUME NEW n \in Nat
  PROVE  /\ n \div 2 \in Nat
         /\ n % 2 \in {0, 1}
         /\ n = 2 * (n \div 2) + (n % 2)
         /\ n > 0 => n \div 2 < n
  OBVIOUS

LEMMA Quotients ==
  ASSUME NEW n \in Nat, NEW d \in Nat \ {0}
  PROVE  /\ n \div d \in Nat
         /\ n % d \in 0 .. d - 1
         /\ n = d * (n \div d) + (n % d)
  OBVIOUS

(* A number is at most its product with a positive one.                    *)
LEMMA ProductAtLeast ==
  ASSUME NEW d \in Nat, NEW k \in Nat, k > 0
  PROVE  d <= d * k
<1>1. PICK j \in Nat : k = j + 1
  <2>1. k - 1 \in Nat /\ k = (k - 1) + 1
    OBVIOUS
  <2> QED BY <2>1
<1>2. d * k = d * j + d
  BY <1>1
<1>3. d * j >= 0
  OBVIOUS
<1> QED BY <1>2, <1>3

(* Division with remainder has one result.                                 *)
LEMMA DivisionUnique ==
  ASSUME NEW n \in Nat, NEW d \in Nat \ {0}, NEW q \in Nat, NEW r \in Nat,
         n = q * d + r, r < d
  PROVE  q = n \div d /\ r = n % d
<1> DEFINE s == n \div d
           t == n % d
<1>1. s \in Nat /\ t \in 0 .. d - 1 /\ n = d * s + t
  BY Quotients
<1> HIDE DEF s, t
<1>2. ~(q < s)
  <2>1. SUFFICES ASSUME q < s PROVE FALSE
    OBVIOUS
  <2>2. s - q \in Nat /\ s - q > 0
    BY <1>1, <2>1
  <2>3. d * (s - q) >= d
    BY <2>2, ProductAtLeast
  <2>4. d * (s - q) = d * s - d * q
    BY <1>1
  <2>5. d * q = q * d
    OBVIOUS
  <2> QED BY <1>1, <2>3, <2>4, <2>5
<1>3. ~(s < q)
  <2>1. SUFFICES ASSUME s < q PROVE FALSE
    OBVIOUS
  <2>2. q - s \in Nat /\ q - s > 0
    BY <1>1, <2>1
  <2>3. d * (q - s) >= d
    BY <2>2, ProductAtLeast
  <2>4. d * (q - s) = d * q - d * s
    BY <1>1
  <2>5. d * q = q * d
    OBVIOUS
  <2> QED BY <1>1, <2>3, <2>4, <2>5
<1>4. q = s
  BY <1>1, <1>2, <1>3
<1>5. q * d = d * s
  BY <1>4, <1>1
<1>6. r = t
  BY <1>1, <1>5
<1> QED BY <1>4, <1>6 DEF s, t

(* A remainder of a number does not change when multiples are added.       *)
LEMMA SameRemainder ==
  ASSUME NEW m \in Nat \ {0}, NEW n \in Nat, NEW r \in 0 .. m - 1,
         NEW k \in Int, r = n + k * m
  PROVE  r = n % m
<1>1. k <= 0
  <2>1. SUFFICES ASSUME k > 0 PROVE FALSE
    OBVIOUS
  <2>2. m <= m * k
    BY <2>1, ProductAtLeast
  <2>3. m * k = k * m
    OBVIOUS
  <2> QED BY <2>2, <2>3
<1>2. PICK q \in Nat : q = 0 - k
  BY <1>1
<1>3. n = q * m + r
  BY <1>2
<1>4. r \in Nat /\ r < m
  OBVIOUS
<1> QED BY <1>3, <1>4, DivisionUnique

(* Twice a power of two is one: an odd divisor of it divides the half.     *)
LEMMA DoublePower ==
  ASSUME NEW p \in Nat \ {0}, PowerOfTwo(p)
  PROVE  PowerOfTwo(2 * p)
<1>1. SUFFICES ASSUME NEW d \in 2 .. 2 * p, (2 * p) % d = 0, d % 2 # 0
               PROVE  FALSE
  BY DEF PowerOfTwo
<1>2. PICK e \in Nat : d = 2 * e + 1
  <2>1. d \in Nat /\ d \div 2 \in Nat /\ d = 2 * (d \div 2) + 1
    BY <1>1, Halves
  <2> QED BY <2>1
<1>3. PICK m \in Nat : 2 * p = d * m
  <2>1. PICK n \in Nat : n = 2 * p
    OBVIOUS
  <2>2. d \in Nat \ {0}
    OBVIOUS
  <2>3. n \div d \in Nat /\ n = d * (n \div d) + (n % d)
    BY <2>2, Quotients
  <2>4. n = d * (n \div d)
    BY <2>1, <2>3, <1>1
  <2> QED BY <2>1, <2>3, <2>4
<1>4. PICK f \in Nat : m = 2 * f \/ m = 2 * f + 1
  <2>1. /\ m \div 2 \in Nat
        /\ m = 2 * (m \div 2) \/ m = 2 * (m \div 2) + 1
    BY Halves
  <2> QED BY <2>1
<1>5. CASE m = 2 * f
  <2>1. p = d * f
    BY <1>3, <1>5
  <2>2. f > 0
    BY <2>1
  <2>3. d <= p
    BY <2>1, <2>2, ProductAtLeast
  <2>4. p = f * d + 0
    BY <2>1
  <2>5. p % d = 0
    BY <2>4, DivisionUnique
  <2> QED BY <2>3, <2>5, <1>1 DEF PowerOfTwo
<1>6. CASE m = 2 * f + 1
  <2>1. d * m = 2 * (d * f) + d
    BY <1>6
  <2>2. d * f \in Int
    OBVIOUS
  <2> QED BY <2>1, <2>2, <1>2, <1>3
<1> QED BY <1>4, <1>5, <1>6

LEMMA HalfPower ==
  ASSUME NEW p \in Nat, p > 1, PowerOfTwo(p)
  PROVE  /\ p \div 2 \in Nat \ {0}
         /\ p = 2 * (p \div 2)
         /\ PowerOfTwo(p \div 2)
<1>1. p % p = 0
  <2>1. p = 1 * p + 0
    OBVIOUS
  <2> QED BY <2>1, DivisionUnique
<1>2. p % 2 = 0
  BY <1>1 DEF PowerOfTwo
<1>3. PICK h \in Nat : h = p \div 2 /\ p = 2 * h
  BY <1>2, Halves
<1>4. PowerOfTwo(h)
  <2>1. SUFFICES ASSUME NEW d \in 2 .. h, h % d = 0 PROVE d % 2 = 0
    BY DEF PowerOfTwo
  <2>2. PICK m \in Nat : h = d * m
    <3>1. d \in Nat \ {0}
      OBVIOUS
    <3>2. h \div d \in Nat /\ h = d * (h \div d) + (h % d)
      BY <3>1, Quotients
    <3>3. h = d * (h \div d)
      BY <3>2, <2>1
    <3> QED BY <3>2, <3>3
  <2>3. p = (2 * m) * d + 0
    BY <2>2, <1>3
  <2>4. p % d = 0
    BY <2>3, DivisionUnique
  <2> QED BY <2>4, <1>3 DEF PowerOfTwo
<1> QED BY <1>3, <1>4

-----------------------------------------------------------------------------
(* The steps.                                                              *)

LEMMA RuntimeInit ==
  ASSUME WordSizeIsEven, Init
  PROVE  RuntimeInv
<1>1. WordSize \in Nat /\ WordSize >= 2
  BY DEF WordSizeIsEven
<1>2. /\ call \in Calls
      /\ call.routine \in {"mulsi3"} \cup Divisions
      /\ call.x \in Word /\ call.y \in Word
  BY DEF Init, Calls
<1>3. RuntimeTypeOK
  BY <1>1, <1>2 DEF Init, RuntimeTypeOK, Word, Divisions
<1>4. ProductInv
  <2>1. SUFFICES ASSUME loop = "multiply"
                 PROVE  result + x * y = call.x * call.y + 0 * WordSize
    BY DEF ProductInv
  <2>2. result = 0
    BY <2>1, <1>2 DEF Init, Divisions
  <2>3. x = call.x /\ y = call.y
    BY DEF Init
  <2>4. call.x * call.y \in Int
    BY <1>2 DEF Word
  <2> QED BY <2>2, <2>3, <2>4, <1>1
<1>5. PlaceInv
  <2>1. PowerOfTwo(1)
    BY DEF PowerOfTwo
  <2>2. y = call.y * 1
    BY <1>2 DEF Init, Word
  <2> QED BY <2>1, <2>2 DEF Init, PlaceInv
<1>6. QuotientInv
  <2>1. loop # "subtract"
    BY DEF Init
  <2>2. loop = "grow" => result = 0
    BY DEF Init
  <2> QED BY <2>1, <2>2 DEF Init, QuotientInv
<1>7. RightValue
  BY <1>2 DEF Init, RightValue, value, Divisions
<1> QED BY <1>3, <1>4, <1>5, <1>6, <1>7 DEF RuntimeInv

(* Shifting, when the top bit is not set.                                  *)
LEMMA NoOverflow ==
  ASSUME WordSizeIsEven, NEW w \in Word, w < WordSize \div 2
  PROVE  ShiftLeft(w) = 2 * w /\ 2 * w \in Word
<1>1. PICK n \in Nat : n = 2 * w
  BY DEF Word
<1>2. n < WordSize
  BY <1>1 DEF WordSizeIsEven, Word
<1>3. WordSize \in Nat \ {0}
  BY DEF WordSizeIsEven
<1>4. n = 0 * WordSize + n
  BY <1>1, <1>3
<1>5. n = n % WordSize
  BY <1>1, <1>2, <1>3, <1>4, DivisionUnique
<1>6. ShiftLeft(w) = n
  BY <1>1, <1>5 DEF ShiftLeft
<1>7. n \in Word
  BY <1>2, <1>3 DEF Word
<1> QED BY <1>1, <1>6, <1>7

LEMMA ShiftRightWord ==
  ASSUME WordSizeIsEven, NEW w \in Word
  PROVE  ShiftRight(w) \in Word
BY Halves DEF ShiftRight, Word, WordSizeIsEven

(* Adding one bit of the product keeps the sum, modulo the word size.      *)
LEMMA MultiplyKeeps ==
  ASSUME WordSizeIsEven, RuntimeInv, Multiply
  PROVE  RuntimeInv'
<1>1. WordSize \in Nat \ {0}
  BY DEF WordSizeIsEven
<1>2. /\ x \in Nat /\ y \in Nat /\ result \in Nat
      /\ call.x \in Nat /\ call.y \in Nat
      /\ loop = "multiply" /\ call.routine = "mulsi3"
  BY DEF RuntimeInv, RuntimeTypeOK, Multiply, Calls, Word
<1>3. PICK c \in Nat : 2 * x = c * WordSize + x' /\ x' \in Word
  <2>1. PICK n \in Nat : n = 2 * x
    BY <1>2
  <2>2. /\ n \div WordSize \in Nat
        /\ n % WordSize \in Word
        /\ n = WordSize * (n \div WordSize) + (n % WordSize)
    BY <1>1, Quotients DEF Word
  <2>3. x' = n % WordSize
    BY <2>1 DEF Multiply, ShiftLeft
  <2>4. PICK c \in Nat : c = n \div WordSize
    BY <2>2
  <2>5. n = c * WordSize + x'
    BY <1>1, <2>1, <2>2, <2>3, <2>4 DEF Word
  <2> QED BY <2>1, <2>2, <2>3, <2>5
<1>4. PICK h \in Nat : y' = h /\ (y = 2 * h \/ y = 2 * h + 1)
                        /\ (y % 2 = 1 => y = 2 * h + 1)
                        /\ (y % 2 # 1 => y = 2 * h)
  BY <1>2, Halves DEF Multiply, ShiftRight
<1>5. PICK k \in Int : result + x * y = call.x * call.y + k * WordSize
  BY <1>2 DEF RuntimeInv, ProductInv
<1>6. PICK e \in Nat :
        /\ result' \in Word
        /\ result' + e * WordSize = result + x * (y - 2 * h)
  <2>1. CASE y % 2 = 1
    <3>1. PICK n \in Nat : n = result + x
      BY <1>2
    <3>2. /\ n \div WordSize \in Nat
          /\ n % WordSize \in Word
          /\ n = WordSize * (n \div WordSize) + (n % WordSize)
      BY <1>1, Quotients DEF Word
    <3>3. result' = n % WordSize
      BY <2>1, <3>1 DEF Multiply
    <3>4. x * (y - 2 * h) = x
      <4>1. y - 2 * h = 1
        BY <1>4, <2>1
      <4> QED BY <4>1, <1>2
    <3>5. PICK e \in Nat : e = n \div WordSize
      BY <3>2
    <3>6. n = result' + e * WordSize
      BY <1>1, <3>1, <3>2, <3>3, <3>5 DEF Word
    <3> QED BY <3>1, <3>2, <3>3, <3>4, <3>6
  <2>2. CASE y % 2 # 1
    <3>1. result' = result /\ result' \in Word
      BY <2>2 DEF Multiply, RuntimeInv, RuntimeTypeOK
    <3>2. x * (y - 2 * h) = 0
      BY <1>2, <1>4, <2>2
    <3>3. result' + 0 * WordSize = result + x * (y - 2 * h)
      BY <1>1, <1>2, <3>1, <3>2
    <3> QED BY <3>1, <3>3
  <2> QED BY <2>1, <2>2
<1>7. result' + x' * y' = call.x * call.y + (k - e - c * h) * WordSize
  <2>1. x' \in Nat /\ result' \in Nat
    BY <1>3, <1>6 DEF Word
  <2>2. x' * y' = (2 * x - c * WordSize) * h
    <3>1. y' = h
      BY <1>4
    <3>2. x' = 2 * x - c * WordSize
      <4>1. c * WordSize \in Int
        BY <1>1
      <4>2. 2 * x = c * WordSize + x'
        BY <1>3
      <4> QED BY <4>1, <4>2, <2>1, <1>2
    <3> QED BY <3>1, <3>2
  <2>3. (2 * x - c * WordSize) * h = 2 * (x * h) - (c * h) * WordSize
    BY <1>1, <1>2
  <2>4. x * (y - 2 * h) = x * y - 2 * (x * h)
    BY <1>2
  <2>5. (k - e - c * h) * WordSize
          = k * WordSize - e * WordSize - (c * h) * WordSize
    BY <1>1
  <2>6. /\ k * WordSize \in Int /\ e * WordSize \in Int
        /\ (c * h) * WordSize \in Int /\ x * h \in Int /\ x * y \in Int
        /\ call.x * call.y \in Int
    BY <1>1, <1>2
  <2>7. result' = result + x * y - 2 * (x * h) - e * WordSize
    BY <1>2, <1>6, <2>1, <2>4, <2>6
  <2>8. result + x * y = call.x * call.y + k * WordSize
    BY <1>5
  <2>9. x' * y' = 2 * (x * h) - (c * h) * WordSize
    BY <2>2, <2>3
  <2>10. result' + x' * y'
           = result + x * y - e * WordSize - (c * h) * WordSize
    BY <1>2, <2>1, <2>6, <2>7, <2>9
  <2> QED BY <1>2, <2>5, <2>6, <2>8, <2>10
<1>8. ProductInv'
  <2>1. k - e - c * h \in Int
    OBVIOUS
  <2> QED BY <1>7, <2>1 DEF ProductInv, Multiply
<1>9. RuntimeTypeOK'
  BY <1>3, <1>6, ShiftRightWord DEF RuntimeInv, RuntimeTypeOK, Multiply
<1>10. PlaceInv' /\ QuotientInv' /\ RightValue'
  BY <1>2 DEF PlaceInv, QuotientInv, RightValue, Multiply
<1> QED BY <1>8, <1>9, <1>10 DEF RuntimeInv

(* Neither the divisor nor bit is shifted out: bit is at most the divisor, *)
(* whose top bit is clear.                                                 *)
LEMMA GrowKeeps ==
  ASSUME WordSizeIsEven, RuntimeInv, Grow
  PROVE  RuntimeInv'
<1>1. /\ x \in Word /\ y \in Word /\ bit \in Word /\ call.y \in Word
      /\ call.y # 0 /\ loop = "grow" /\ call.routine \in Divisions
      /\ x = call.x /\ result = 0
  BY DEF RuntimeInv, RuntimeTypeOK, QuotientInv, Grow, Calls
<1>2. /\ bit \in Nat \ {0} /\ call.y \in Nat \ {0}
      /\ PowerOfTwo(bit) /\ y = call.y * bit
  BY <1>1 DEF RuntimeInv, PlaceInv, Word
<1>3. y < WordSize \div 2
  BY DEF Grow, MayGrow
<1>4. y' = 2 * y /\ y' \in Word
  BY <1>1, <1>3, NoOverflow DEF Grow
<1>5. bit <= y
  <2>1. call.y * bit = bit * call.y
    BY <1>2
  <2>2. bit <= bit * call.y
    BY <1>2, ProductAtLeast
  <2> QED BY <2>1, <2>2, <1>2
<1>6. bit < WordSize \div 2
  BY <1>1, <1>3, <1>5 DEF Word, WordSizeIsEven
<1>7. bit' = 2 * bit /\ bit' \in Word
  BY <1>1, <1>6, NoOverflow DEF Grow
<1>8. RuntimeTypeOK'
  BY <1>1, <1>4, <1>7 DEF RuntimeInv, RuntimeTypeOK, Grow
<1>9. PlaceInv'
  <2>1. PowerOfTwo(2 * bit)
    BY <1>2, DoublePower
  <2>2. call.y * (2 * bit) = 2 * (call.y * bit)
    BY <1>2
  <2>3. 2 * bit # 0
    BY <1>2
  <2> QED BY <2>1, <2>2, <2>3, <1>2, <1>4, <1>7 DEF PlaceInv, Grow
<1>10. ProductInv' /\ QuotientInv' /\ RightValue'
  BY <1>1 DEF ProductInv, QuotientInv, RightValue, Grow
<1> QED BY <1>8, <1>9, <1>10 DEF RuntimeInv

(* When the divisor is no more shifted, twice of it is above the dividend. *)
LEMMA GrownKeeps ==
  ASSUME WordSizeIsEven, RuntimeInv, Grown
  PROVE  RuntimeInv'
<1>1. /\ x \in Word /\ y \in Word /\ bit \in Word /\ call.y \in Word
      /\ call.y # 0 /\ loop = "grow" /\ call.routine \in Divisions
      /\ x = call.x /\ result = 0
  BY DEF RuntimeInv, RuntimeTypeOK, QuotientInv, Grown, Calls
<1>2. /\ bit \in Nat \ {0} /\ call.y \in Nat \ {0} /\ y = call.y * bit
  BY <1>1 DEF RuntimeInv, PlaceInv, Word
<1>3. y > 0
  <2>1. call.y <= call.y * bit
    BY <1>2, ProductAtLeast
  <2> QED BY <2>1, <1>1, <1>2 DEF Word
<1>4. x < 2 * y
  <2>1. y >= x \/ y >= WordSize \div 2
    BY <1>1 DEF Grown, MayGrow, Word, WordSizeIsEven
  <2> QED BY <2>1, <1>1, <1>3 DEF Word, WordSizeIsEven
<1>5. QuotientInv'
  <2>1. 0 * call.y + x = call.x
    BY <1>1 DEF Word
  <2>2. 0 = 2 * bit * 0
    BY <1>2
  <2>3. x < 2 * y /\ \E h \in Nat : 0 = 2 * bit * h
    BY <2>2, <1>4
  <2>4. result = IF call.routine = "udivsi3" THEN 0 ELSE 0
    BY <1>1
  <2> QED BY <2>1, <2>3, <2>4, <1>2 DEF QuotientInv, Grown
<1>6. RuntimeTypeOK' /\ PlaceInv' /\ ProductInv' /\ RightValue'
  BY <1>1 DEF RuntimeInv, RuntimeTypeOK, PlaceInv, ProductInv, RightValue,
              Grown
<1> QED BY <1>5, <1>6 DEF RuntimeInv

(* The dividend left stays below twice the divisor, and every bit set is   *)
(* one that was clear.                                                     *)
LEMMA SubtractKeeps ==
  ASSUME WordSizeIsEven, RuntimeInv, Subtract
  PROVE  RuntimeInv'
<1>1. /\ x \in Word /\ y \in Word /\ bit \in Word /\ call.y \in Word
      /\ call.x \in Word /\ result \in Word
      /\ call.y # 0 /\ loop = "subtract" /\ call.routine \in Divisions
      /\ bit # 0
  BY DEF RuntimeInv, RuntimeTypeOK, Subtract, Calls
<1>2. /\ bit \in Nat \ {0} /\ call.y \in Nat \ {0}
      /\ PowerOfTwo(bit) /\ y = call.y * bit /\ x \in Nat /\ y \in Nat
  BY <1>1 DEF RuntimeInv, PlaceInv, Word
<1>3. PICK q \in Nat :
        /\ q * call.y + x = call.x
        /\ x < 2 * y /\ \E h \in Nat : q = 2 * bit * h
        /\ result = IF call.routine = "udivsi3" THEN q ELSE 0
  BY <1>1 DEF RuntimeInv, QuotientInv
<1>4. PICK h \in Nat : q = 2 * bit * h
  BY <1>3
<1>5. SetBit(q) = q + bit
  <2>1. q = (2 * h) * bit + 0
    BY <1>2, <1>4
  <2>2. q \div bit = 2 * h
    BY <2>1, <1>2, DivisionUnique
  <2>3. (2 * h) % 2 = 0
    OBVIOUS
  <2> QED BY <2>2, <2>3 DEF SetBit
(* The quotient so far, with the bit decided by this iteration.            *)
<1>6. PICK p \in Nat :
        /\ p = IF x >= y THEN q + bit ELSE q
        /\ p * call.y + x' = call.x
        /\ x' \in Nat /\ x' < y
        /\ \E g \in Nat : p = bit * g
        /\ result' = IF call.routine = "udivsi3" THEN p ELSE 0
  <2>1. CASE x >= y
    <3>1. (q + bit) * call.y = q * call.y + y
      BY <1>2
    <3>2. q * call.y \in Nat
      BY <1>2
    <3>3. x' = x - y /\ x' \in Nat /\ x' < y
      BY <2>1, <1>2, <1>3 DEF Subtract
    <3>4. (q + bit) * call.y + x' = call.x
      BY <1>2, <1>3, <3>1, <3>2, <3>3
    <3>5. q + bit = bit * (2 * h + 1)
      BY <1>2, <1>4
    <3>6. result' = IF call.routine = "udivsi3" THEN q + bit ELSE 0
      BY <2>1, <1>3, <1>5 DEF Subtract
    <3>7. q + bit \in Nat /\ 2 * h + 1 \in Nat
      BY <1>2
    <3> QED BY <2>1, <3>3, <3>4, <3>5, <3>6, <3>7
  <2>2. CASE ~(x >= y)
    <3>1. x' = x /\ x' \in Nat /\ x' < y
      BY <2>2, <1>2 DEF Subtract
    <3>2. q = bit * (2 * h)
      BY <1>2, <1>4
    <3>3. result' = IF call.routine = "udivsi3" THEN q ELSE 0
      BY <2>2, <1>3 DEF Subtract
    <3>4. 2 * h \in Nat
      OBVIOUS
    <3> QED BY <2>2, <1>3, <3>1, <3>2, <3>3, <3>4
  <2> QED BY <2>1, <2>2
<1>7. PICK g \in Nat : p = bit * g
  BY <1>6
<1>8. bit' = bit \div 2 /\ y' = y \div 2 /\ call' = call /\ loop' = loop
  BY DEF Subtract, ShiftRight
<1>9. RuntimeTypeOK'
  <2>1. x' \in Word
    BY <1>1, <1>6 DEF Word, WordSizeIsEven
  <2>2. y' \in Word /\ bit' \in Word
    BY <1>1, ShiftRightWord DEF Subtract
  <2>3. p <= call.x
    <3>1. p <= p * call.y
      BY <1>2, ProductAtLeast
    <3>2. p * call.y \in Nat
      BY <1>2
    <3> QED BY <3>1, <3>2, <1>1, <1>6 DEF Word
  <2>4. result' \in Word
    BY <2>3, <1>1, <1>6 DEF Word, WordSizeIsEven
  <2> QED BY <2>1, <2>2, <2>4, <1>1 DEF RuntimeInv, RuntimeTypeOK, Subtract
<1>10. CASE bit = 1
  <2>1. bit' = 0
    BY <1>8, <1>10
  <2>2. x' < call.y
    BY <1>2, <1>6, <1>10
  <2>3. PlaceInv'
    BY <2>1, <1>1, <1>8 DEF PlaceInv
  <2>4. QuotientInv'
    BY <2>1, <2>2, <1>1, <1>6, <1>8 DEF QuotientInv
  <2> QED BY <2>3, <2>4, <1>1, <1>8, <1>9
         DEF RuntimeInv, ProductInv, RightValue
<1>11. CASE bit # 1
  <2>1. /\ bit' \in Nat \ {0}
        /\ bit = 2 * bit'
        /\ PowerOfTwo(bit')
    BY <1>2, <1>8, <1>11, HalfPower
  <2>2. y = 2 * (call.y * bit')
    BY <2>1, <1>2
  <2>3. y' = call.y * bit'
    <3>1. PICK n \in Nat : n = call.y * bit'
      BY <2>1, <1>2
    <3>2. y = 2 * n
      BY <2>2, <3>1
    <3> QED BY <3>1, <3>2, <1>8
  <2>4. PlaceInv'
    BY <2>1, <2>3, <1>1, <1>8 DEF PlaceInv
  <2>5. x' < 2 * y'
    BY <2>2, <2>3, <1>6
  <2>6. p = 2 * bit' * g
    BY <2>1, <1>7
  <2>7. QuotientInv'
    BY <2>1, <2>5, <2>6, <1>1, <1>6, <1>8 DEF QuotientInv
  <2> QED BY <2>4, <2>7, <1>1, <1>8, <1>9
         DEF RuntimeInv, ProductInv, RightValue
<1> QED BY <1>10, <1>11

LEMMA ReturnKeeps ==
  ASSUME WordSizeIsEven, RuntimeInv, Return
  PROVE  RuntimeInv'
<1>1. /\ call \in Calls /\ call.x \in Nat /\ call.y \in Nat
      /\ x \in Word /\ result \in Word /\ y \in Word
      /\ WordSize \in Nat \ {0}
  BY DEF RuntimeInv, RuntimeTypeOK, Calls, Word, WordSizeIsEven
<1>2. CASE loop = "multiply"
  <2>1. y = 0 /\ call.routine = "mulsi3"
    BY <1>2 DEF Return, RuntimeInv, RuntimeTypeOK
  <2>2. PICK k \in Int : result + x * y = call.x * call.y + k * WordSize
    BY <1>2 DEF RuntimeInv, ProductInv
  <2>3. x * y = 0
    BY <2>1, <1>1 DEF Word
  <2>4. PICK n \in Nat : n = call.x * call.y
    BY <1>1
  <2>5. result = n + k * WordSize
    <3>1. k * WordSize \in Int /\ result \in Int
      BY <1>1 DEF Word
    <3>2. result + 0 = n + k * WordSize
      BY <2>2, <2>3, <2>4
    <3> QED BY <3>1, <3>2
  <2>6. result = n % WordSize
    BY <2>5, <1>1, SameRemainder DEF Word
  <2>7. RightValue'
    BY <2>1, <2>4, <2>6 DEF RightValue, value, Return
  <2> QED BY <2>7 DEF Return, RuntimeInv, RuntimeTypeOK, ProductInv, PlaceInv,
                      QuotientInv
<1>3. CASE loop = "subtract"
  <2>1. bit = 0 /\ call.routine \in Divisions /\ call.y # 0
    BY <1>3 DEF Return, RuntimeInv, RuntimeTypeOK
  <2>2. PICK q \in Nat :
          /\ q * call.y + x = call.x
          /\ x < call.y
          /\ result = IF call.routine = "udivsi3" THEN q ELSE 0
    BY <1>3, <2>1 DEF RuntimeInv, QuotientInv
  <2>3. x \in Nat /\ call.x = q * call.y + x /\ call.y \in Nat \ {0}
    BY <2>1, <2>2, <1>1 DEF Word
  <2>4. q = call.x \div call.y /\ x = call.x % call.y
    BY <2>2, <2>3, <1>1, DivisionUnique
  <2>5. RightValue'
    <3>1. call.routine = "udivsi3" => result = call.x \div call.y
      BY <2>2, <2>4
    <3>2. call.routine = "umodsi3" => x = call.x % call.y
      BY <2>4
    <3> QED BY <2>1, <3>1, <3>2 DEF RightValue, value, Return, Divisions
  <2> QED BY <2>5 DEF Return, RuntimeInv, RuntimeTypeOK, ProductInv, PlaceInv,
                      QuotientInv
<1> QED BY <1>2, <1>3 DEF Return

(* The routines return what the operators of C mean, for every even word   *)
(* size, and no variable leaves its word.                                  *)
THEOREM RuntimeRight ==
  ASSUME WordSizeIsEven
  PROVE  Spec => []RightValue
<1>1. Init => RuntimeInv
  BY RuntimeInit
<1>2. RuntimeInv /\ [Next]_vars => RuntimeInv'
  <2>1. CASE Next
    BY <2>1, MultiplyKeeps, GrowKeeps, GrownKeeps, SubtractKeeps, ReturnKeeps
       DEF Next
  <2>2. CASE UNCHANGED vars
    BY <2>2 DEF vars, RuntimeInv, RuntimeTypeOK, ProductInv, PlaceInv,
                QuotientInv, RightValue, value
  <2> QED BY <2>1, <2>2
<1>3. RuntimeInv => RightValue
  BY DEF RuntimeInv
<1> QED BY <1>1, <1>2, <1>3, PTL DEF Spec
=============================================================================
