--------------------------- MODULE DiffTestProofs ---------------------------
(***************************************************************************)
(* Theorems about DiffTest, for any programs, any number of tests in one   *)
(* build directory, and any failures, kills and surviving children.        *)
(***************************************************************************)
EXTENDS DiffTest, NaturalsInduction, SequenceTheorems, WellFoundedInduction, TLAPS

-----------------------------------------------------------------------------
(* Counting.                                                               *)

(* A set of numbers that is not empty has a least one.                     *)
LEMMA LeastNumber ==
  ASSUME NEW U, U \subseteq Nat, U # {}
  PROVE  \E k \in U : \A j \in U : k <= j
<1>1. \E k \in U : \A j \in U : ~(<<j, k>> \in OpToRel(<, Nat))
  BY NatLessThanWellFounded, WFMin
<1>2. PICK k \in U : \A j \in U : ~(j < k)
  BY <1>1 DEF OpToRel
<1> QED BY <1>2

(* A set of places in a sequence that is not empty has a last one.         *)
LEMMA LastPlace ==
  ASSUME NEW n \in Nat, NEW s, s \subseteq 1 .. n, s # {}
  PROVE  /\ Max(s) \in s
         /\ \A y \in s : y <= Max(s)
<1> DEFINE U == {k \in Nat : n - k \in s}
<1>1. U # {}
  <2>1. PICK x \in s : TRUE OBVIOUS
  <2>2. n - x \in Nat /\ n - (n - x) = x BY <2>1
  <2> QED BY <2>1, <2>2
<1>2. PICK k \in U : \A j \in U : k <= j
  <2> HIDE DEF U
  <2>1. U \subseteq Nat BY DEF U
  <2> QED BY <1>1, <2>1, LeastNumber
<1>3. \A y \in s : n - k >= y
  <2> TAKE y \in s
  <2>1. n - y \in Nat /\ n - (n - y) = y OBVIOUS
  <2>2. n - y \in U BY <2>1
  <2>3. k \in Nat /\ y \in 1 .. n /\ k <= n - y BY <1>2, <2>2
  <2> QED BY <2>3
<1>4. \E x \in s : \A y \in s : x >= y
  BY <1>2, <1>3
<1>5. Max(s) \in s /\ \A y \in s : Max(s) >= y
  BY <1>4 DEF Max
<1> QED BY <1>5

(* A set of numbers that holds 1 and with every k < n its successor holds  *)
(* all of 1 .. n.                                                          *)
LEMMA CountUp ==
  ASSUME NEW n \in Nat, NEW T, n > 0 => 1 \in T,
         \A k \in 1 .. n - 1 : k \in T => k + 1 \in T
  PROVE  1 .. n \subseteq T
<1> DEFINE U == {k \in Nat : k \in 1 .. n /\ k \notin T}
<1> SUFFICES ASSUME U # {} PROVE FALSE
  OBVIOUS
<1>1. PICK k \in U : \A j \in U : k <= j
  <2> HIDE DEF U
  <2>1. U \subseteq Nat BY DEF U
  <2> QED BY <2>1, LeastNumber
<1>2. k > 1 /\ k - 1 \in 1 .. n - 1
  BY <1>1
<1>3. k - 1 \in T
  BY <1>1, <1>2
<1>4. (k - 1) + 1 \in T
  BY <1>2, <1>3
<1> QED BY <1>1, <1>4

-----------------------------------------------------------------------------
(* The registers that extract_qemu.py writes.                              *)

LastWrite(trace, s, r) ==
  LET writes == {i \in s : reg_index(trace[i].name) = r}
  IN IF writes = {} THEN 0 ELSE trace[Max(writes)].value % WordSize

LastWrites(trace) ==
  [s \in SUBSET DOMAIN trace |-> [r \in Reg |-> LastWrite(trace, s, r)]]

(* One more line of the trace.                                             *)
LEMMA LastStep ==
  ASSUME NEW trace \in Seq(TraceLine), NEW s \in SUBSET DOMAIN trace, s # {}
  PROVE  LastWrites(trace)[s] =
           IF reg_index(trace[Max(s)].name) = NoReg
           THEN LastWrites(trace)[s \ {Max(s)}]
           ELSE [LastWrites(trace)[s \ {Max(s)}] EXCEPT
                   ![reg_index(trace[Max(s)].name)] = trace[Max(s)].value % WordSize]
<1> DEFINE x == Max(s)
           t == s \ {Max(s)}
           k == reg_index(trace[Max(s)].name)
           Writes(places, r) == {i \in places : reg_index(trace[i].name) = r}
<1>1. Len(trace) \in Nat /\ DOMAIN trace = 1 .. Len(trace) BY LenProperties
<1>2. x \in s /\ \A y \in s : y <= x BY <1>1, LastPlace
<1>3. ASSUME NEW r \in Reg, r = k
      PROVE  LastWrite(trace, s, r) = trace[x].value % WordSize
  <2>1. x \in Writes(s, r) BY <1>2, <1>3
  <2>2. Writes(s, r) \subseteq 1 .. Len(trace) BY <1>1
  <2>3. Max(Writes(s, r)) \in Writes(s, r) /\ x <= Max(Writes(s, r))
    <3> HIDE DEF Writes, x
    <3> QED BY <1>1, <2>1, <2>2, LastPlace
  <2>4. Max(Writes(s, r)) \in s /\ Max(Writes(s, r)) <= x BY <1>2, <2>3
  <2>5. Max(Writes(s, r)) \in 1 .. Len(trace) /\ x \in 1 .. Len(trace)
    BY <1>1, <1>2, <2>4
  <2>6. Max(Writes(s, r)) = x BY <1>1, <2>3, <2>4, <2>5
  <2> QED BY <2>1, <2>6 DEF LastWrite
<1>4. ASSUME NEW r \in Reg, r # k
      PROVE  LastWrite(trace, s, r) = LastWrite(trace, t, r)
  <2>1. Writes(s, r) = Writes(t, r) BY <1>4
  <2> QED BY <2>1 DEF LastWrite
<1>5. NoReg \notin Reg BY TestSizesAssumption DEF NoReg, Reg
<1>6. /\ LastWrites(trace)[s] = [r \in Reg |-> LastWrite(trace, s, r)]
      /\ LastWrites(trace)[t] = [r \in Reg |-> LastWrite(trace, t, r)]
  BY DEF LastWrites
<1> HIDE DEF k, t, x
<1>7. CASE k = NoReg
  <2>1. \A r \in Reg : r # k BY <1>5, <1>7
  <2>2. \A r \in Reg : LastWrite(trace, s, r) = LastWrite(trace, t, r) BY <1>4, <2>1
  <2>3. LastWrites(trace)[s] = LastWrites(trace)[t] BY <1>6, <2>2
  <2> QED BY <1>7, <2>3 DEF k, t
<1>8. CASE k # NoReg
  <2> DEFINE new == [LastWrites(trace)[t] EXCEPT ![k] = trace[x].value % WordSize]
  <2>1. \A r \in Reg : LastWrite(trace, s, r) =
          IF r = k THEN trace[x].value % WordSize ELSE LastWrite(trace, t, r)
    BY <1>3, <1>4
  <2>2. new = [r \in Reg |-> IF r = k THEN trace[x].value % WordSize
                            ELSE LastWrite(trace, t, r)]
    BY <1>6
  <2>3. LastWrites(trace)[s] = new BY <1>6, <2>1, <2>2
  <2> QED BY <1>8, <2>3 DEF k, t, x
<1> QED BY <1>7, <1>8

(* Where a set of places ends, and what is left without its last place.    *)
TopPlace(s) == IF s = {} THEN 0 ELSE Max(s)

LEMMA TopDrops ==
  ASSUME NEW n \in Nat, NEW s, s \subseteq 1 .. n
  PROVE  /\ TopPlace(s) \in Nat
         /\ s # {} => TopPlace(s \ {Max(s)}) \in Nat /\ TopPlace(s \ {Max(s)}) < TopPlace(s)
<1> DEFINE t == s \ {Max(s)}
<1>1. CASE s = {} BY <1>1 DEF TopPlace
<1>2. CASE s # {}
  <2>1. Max(s) \in s /\ \A y \in s : y <= Max(s) BY <1>2, LastPlace
  <2>2. Max(s) \in 1 .. n /\ TopPlace(s) = Max(s) BY <1>2, <2>1 DEF TopPlace
  <2>3. CASE t = {}
    <3>1. TopPlace(t) = 0 BY <2>3 DEF TopPlace
    <3> QED BY <2>2, <3>1
  <2>4. CASE t # {}
    <3>1. t \subseteq 1 .. n /\ t \subseteq s /\ Max(s) \notin t OBVIOUS
    <3>2. TopPlace(t) = Max(t) BY <2>4 DEF TopPlace
    <3> HIDE DEF t
    <3>3. Max(t) \in t BY <2>4, <3>1, LastPlace
    <3>4. Max(t) \in 1 .. n /\ Max(t) <= Max(s) /\ Max(t) # Max(s) BY <2>1, <3>1, <3>3
    <3>5. Max(t) < Max(s) BY <2>2, <3>4
    <3> QED BY <2>2, <3>2, <3>4, <3>5 DEF t
  <2> QED BY <2>3, <2>4
<1> QED BY <1>1, <1>2

(* The fold over the trace leaves the last value written to each register. *)
LEMMA TracedRegs ==
  ASSUME NEW trace \in Seq(TraceLine)
  PROVE  traced_regs(trace) = [r \in Reg |-> LastWrite(trace, DOMAIN trace, r)]
<1> DEFINE n == Len(trace)
           After(regs, line) ==
             IF reg_index(line.name) = NoReg THEN regs
             ELSE [regs EXCEPT ![reg_index(line.name)] = line.value % WordSize]
           Step(f, s) == IF s = {} THEN [r \in Reg |-> 0]
                         ELSE After(f[s \ {Max(s)}], trace[Max(s)])
           D == DOMAIN trace
           iter == CHOOSE f : f = [s \in SUBSET D |-> Step(f, s)]
           last == LastWrites(trace)
<1>1. n \in Nat /\ D = 1 .. n BY LenProperties
<1>2. traced_regs(trace) = iter[D]
  BY DEF traced_regs, FoldLeft, MapThenFoldSet
<1>3. ASSUME NEW s \in SUBSET D PROVE last[s] = Step(last, s)
  <2>1. CASE s = {}
    <3>1. \A r \in Reg : LastWrite(trace, {}, r) = 0 BY DEF LastWrite
    <3>2. last[{}] = [r \in Reg |-> LastWrite(trace, {}, r)] BY DEF LastWrites
    <3>3. last[{}] = [r \in Reg |-> 0] BY <3>1, <3>2
    <3> QED BY <2>1, <3>3
  <2>2. CASE s # {} BY <2>2, LastStep
  <2> QED BY <2>1, <2>2
<1>4. iter = [s \in SUBSET D |-> Step(iter, s)]
  <2>1. last = [s \in SUBSET D |-> last[s]] BY DEF LastWrites
  <2>2. last = [s \in SUBSET D |-> Step(last, s)] BY <1>3, <2>1
  <2> HIDE DEF last, Step
  <2> QED BY <2>2
<1>5. iter[D] = last[D]
  <2> SUFFICES ASSUME iter[D] # last[D] PROVE FALSE
    OBVIOUS
  <2> HIDE DEF iter, last
  <2> DEFINE U == {k \in Nat : \E s \in SUBSET D : TopPlace(s) = k /\ iter[s] # last[s]}
  <2>1. TopPlace(D) \in Nat BY <1>1, TopDrops
  <2>2. U # {} /\ U \subseteq Nat BY <2>1
  <2>3. PICK k \in U : \A j \in U : k <= j
    <3> HIDE DEF U
    <3> QED BY <2>2, LeastNumber
  <2>4. PICK s \in SUBSET D : TopPlace(s) = k /\ iter[s] # last[s] BY <2>3
  <2> DEFINE t == s \ {Max(s)}
  <2>5. iter[s] = Step(iter, s) /\ last[s] = Step(last, s) BY <1>3, <1>4
  <2>6. s # {} BY <2>4, <2>5
  <2>7. iter[t] # last[t] BY <2>4, <2>5, <2>6
  <2>8. t \in SUBSET D /\ TopPlace(t) \in Nat /\ TopPlace(t) < TopPlace(s)
    BY <1>1, <2>6, TopDrops
  <2>9. TopPlace(t) \in U BY <2>7, <2>8
  <2>10. k <= TopPlace(t) /\ k \in Nat BY <2>3, <2>9
  <2> QED BY <2>4, <2>8, <2>10
<1>6. last[D] = [r \in Reg |-> LastWrite(trace, D, r)] BY DEF LastWrites
<1> QED BY <1>2, <1>5, <1>6

-----------------------------------------------------------------------------
(* What a sequence is.                                                     *)
LEMMA FunctionIsSeq ==
  ASSUME NEW S, NEW n \in Nat, NEW f \in [1 .. n -> S]
  PROVE  f \in Seq(S) /\ Len(f) = n /\ DOMAIN f = 1 .. n
<1>1. f \in Seq(S) BY SeqDef
<1>2. DOMAIN f = 1 .. Len(f) /\ Len(f) \in Nat BY <1>1, LenProperties
<1>3. DOMAIN f = 1 .. n OBVIOUS
<1>4. Len(f) = n BY <1>2, <1>3
<1> QED BY <1>1, <1>3, <1>4

LEMMA ConcatIs ==
  ASSUME NEW S, NEW s \in Seq(S), NEW t \in Seq(S)
  PROVE  s \o t = [i \in 1 .. Len(s) + Len(t) |->
                     IF i <= Len(s) THEN s[i] ELSE t[i - Len(s)]]
<1>1. s \o t \in Seq(S) /\ Len(s \o t) = Len(s) + Len(t)
  BY ConcatProperties
<1>2. \A i \in 1 .. Len(s) + Len(t) :
        (s \o t)[i] = IF i <= Len(s) THEN s[i] ELSE t[i - Len(s)]
  BY ConcatProperties
<1>3. s \o t = [i \in 1 .. Len(s) + Len(t) |-> (s \o t)[i]]
  BY <1>1, LenProperties
<1> QED BY <1>2, <1>3

(* FlattenSeq appends one sequence after another.                          *)
LEMMA Flattened ==
  ASSUME NEW n \in Nat, n > 0, NEW seqs, Len(seqs) = n, NEW whole,
         whole[1] = seqs[1],
         \A k \in 1 .. n - 1 : whole[k + 1] = whole[k] \o seqs[k + 1]
  PROVE  FlattenSeq(seqs) = whole[n]
<1> DEFINE Step(f, i) == IF i = 1 THEN seqs[i] ELSE f[i - 1] \o seqs[i]
           f == [i \in 1 .. n |-> whole[i]]
           flatten == CHOOSE g : g = [i \in 1 .. n |-> Step(g, i)]
<1>1. \A i \in 1 .. n : whole[i] = Step(f, i)
  <2> TAKE i \in 1 .. n
  <2>1. CASE i = 1 BY <2>1
  <2>2. CASE i # 1
    <3>1. i - 1 \in 1 .. n - 1 /\ (i - 1) + 1 = i /\ i - 1 \in 1 .. n BY <2>2
    <3>2. whole[(i - 1) + 1] = whole[i - 1] \o seqs[(i - 1) + 1] BY <3>1
    <3>3. f[i - 1] = whole[i - 1] BY <3>1
    <3> QED BY <2>2, <3>1, <3>2, <3>3
  <2> QED BY <2>1, <2>2
<1>2. f = [i \in 1 .. n |-> Step(f, i)] BY <1>1
<1>3. flatten = [i \in 1 .. n |-> Step(flatten, i)]
  <2> HIDE DEF f, Step
  <2> QED BY <1>2
<1>4. FlattenSeq(seqs) = flatten[n] BY DEF FlattenSeq
<1> HIDE DEF flatten
<1> DEFINE T == {k \in 1 .. n : flatten[k] = whole[k]}
<1>5. 1 \in T BY <1>3
<1>6. ASSUME NEW k \in 1 .. n - 1, k \in T PROVE k + 1 \in T
  <2>1. k + 1 \in 1 .. n /\ k + 1 # 1 /\ (k + 1) - 1 = k OBVIOUS
  <2>2. flatten[k + 1] = flatten[k] \o seqs[k + 1] BY <1>3, <2>1
  <2> QED BY <1>6, <2>1, <2>2
<1>7. n \in T
  <2> HIDE DEF T
  <2>1. 1 .. n \subseteq T BY <1>5, <1>6, CountUp
  <2> QED BY <2>1
<1> QED BY <1>4, <1>7

-----------------------------------------------------------------------------
(* The image that word2byte.py writes for the ROM.                         *)
Words == Seq([1 .. 4 -> Byte])

(* The bytes of a program, the lowest of each word first.                  *)
BytesOf(words) ==
  [b \in 1 .. 4 * Len(words) |-> words[(b - 1) \div 4 + 1][4 - ((b - 1) % 4)]]

(* A byte is one of four.                                                  *)
LEMMA Quarters ==
  ASSUME NEW b \in Nat, b > 0
  PROVE  /\ (b - 1) \div 4 \in Nat /\ (b - 1) % 4 \in 0 .. 3
         /\ b - 1 = 4 * ((b - 1) \div 4) + ((b - 1) % 4)
  OBVIOUS

LEMMA WordAt ==
  ASSUME NEW words \in Words
  PROVE  /\ Len(words) \in Nat /\ DOMAIN words = 1 .. Len(words)
         /\ \A i \in 1 .. Len(words) :
              /\ words[i] \in [1 .. 4 -> Byte]
              /\ words[i] \in Seq(Byte) /\ Len(words[i]) = 4
<1>1. \A i \in 1 .. Len(words) : words[i] \in [1 .. 4 -> Byte]
  BY ElementOfSeq DEF Words
<1>2. \A i \in 1 .. Len(words) : words[i] \in Seq(Byte) /\ Len(words[i]) = 4
  BY <1>1, FunctionIsSeq
<1> QED BY <1>1, <1>2, LenProperties DEF Words

LEMMA BytesType ==
  ASSUME NEW words \in Words
  PROVE  /\ BytesOf(words) \in Seq(Byte)
         /\ Len(BytesOf(words)) = 4 * Len(words)
<1>1. Len(words) \in Nat BY WordAt
<1>2. \A b \in 1 .. 4 * Len(words) :
        (b - 1) \div 4 + 1 \in 1 .. Len(words) /\ 4 - ((b - 1) % 4) \in 1 .. 4
  <2> TAKE b \in 1 .. 4 * Len(words)
  <2>1. b \in Nat /\ b > 0 /\ b <= 4 * Len(words) BY <1>1
  <2> QED BY <1>1, <2>1, Quarters
<1>3. BytesOf(words) \in [1 .. 4 * Len(words) -> Byte]
  BY <1>2, WordAt DEF BytesOf
<1>4. 4 * Len(words) \in Nat BY <1>1
<1> QED BY <1>3, <1>4, FunctionIsSeq

(* objcopy writes them.                                                    *)
LEMMA HexBytes ==
  ASSUME NEW words \in Words
  PROVE  FlattenSeq([i \in DOMAIN words |-> Reverse(words[i])]) = BytesOf(words)
<1> DEFINE n == Len(words)
           seqs == [i \in DOMAIN words |-> Reverse(words[i])]
           First(k) == [i \in 1 .. k |-> words[i]]
           whole == [k \in 1 .. n |-> BytesOf(First(k))]
<1>1. /\ n \in Nat /\ DOMAIN words = 1 .. n
      /\ \A i \in 1 .. n : words[i] \in [1 .. 4 -> Byte] /\ Len(words[i]) = 4
  BY WordAt
<1>2. ASSUME NEW i \in 1 .. n
      PROVE  /\ seqs[i] = [j \in 1 .. 4 |-> words[i][4 - j + 1]]
             /\ seqs[i] \in [1 .. 4 -> Byte]
  <2>1. seqs[i] = [j \in 1 .. 4 |-> words[i][4 - j + 1]] BY <1>1 DEF Reverse
  <2>2. words[i] \in [1 .. 4 -> Byte] BY <1>1
  <2>3. \A j \in 1 .. 4 : 4 - j + 1 \in 1 .. 4 OBVIOUS
  <2> HIDE DEF seqs
  <2> QED BY <2>1, <2>2, <2>3
<1>3. ASSUME NEW i \in 1 .. n PROVE seqs[i] \in Seq(Byte) /\ Len(seqs[i]) = 4
  <2>1. seqs[i] \in [1 .. 4 -> Byte] BY <1>2
  <2> HIDE DEF seqs
  <2> QED BY <2>1, FunctionIsSeq
<1>4. Len(seqs) = n
  <2>1. seqs \in [1 .. n -> Seq(Byte)] BY <1>1, <1>3
  <2> HIDE DEF seqs
  <2> QED BY <1>1, <2>1, FunctionIsSeq
<1>5. ASSUME NEW k \in 1 .. n
      PROVE  /\ First(k) \in Words /\ Len(First(k)) = k
             /\ BytesOf(First(k)) \in Seq(Byte) /\ Len(BytesOf(First(k))) = 4 * k
             /\ \A b \in 1 .. 4 * k :
                  BytesOf(First(k))[b] = words[(b - 1) \div 4 + 1][4 - ((b - 1) % 4)]
  <2>1. k \in Nat /\ 1 .. k \subseteq 1 .. n BY <1>1
  <2>2. First(k) \in [1 .. k -> [1 .. 4 -> Byte]] BY <1>1, <2>1
  <2>3. First(k) \in Words /\ Len(First(k)) = k
    <3> HIDE DEF First
    <3> QED BY <2>1, <2>2, FunctionIsSeq DEF Words
  <2>4. BytesOf(First(k)) \in Seq(Byte) /\ Len(BytesOf(First(k))) = 4 * k
    <3> HIDE DEF First
    <3> QED BY <2>3, BytesType
  <2>5. ASSUME NEW b \in 1 .. 4 * k
        PROVE  BytesOf(First(k))[b] = words[(b - 1) \div 4 + 1][4 - ((b - 1) % 4)]
    <3>1. (b - 1) \div 4 + 1 \in 1 .. k
      <4>1. b \in Nat /\ b > 0 /\ b <= 4 * k BY <2>1
      <4> QED BY <2>1, <4>1, Quarters
    <3>2. BytesOf(First(k))[b] = First(k)[(b - 1) \div 4 + 1][4 - ((b - 1) % 4)]
      <4> HIDE DEF First
      <4> QED BY <2>3 DEF BytesOf
    <3> QED BY <3>1, <3>2
  <2> QED BY <2>3, <2>4, <2>5
<1> HIDE DEF First
<1>6. CASE n > 0
  <2>1. whole[1] = seqs[1]
    <3>1. 1 \in 1 .. n BY <1>1, <1>6
    <3>2. ASSUME NEW b \in 1 .. 4 PROVE BytesOf(First(1))[b] = seqs[1][b]
      <4>1. (b - 1) \div 4 + 1 = 1 /\ 4 - ((b - 1) % 4) = 4 - b + 1
        <5>1. b \in Nat /\ b > 0 /\ b <= 4 OBVIOUS
        <5> QED BY <5>1, Quarters
      <4>2. BytesOf(First(1))[b] = words[(b - 1) \div 4 + 1][4 - ((b - 1) % 4)]
        BY <1>5, <3>1
      <4>3. seqs[1][b] = words[1][4 - b + 1]
        <5>1. seqs[1] = [j \in 1 .. 4 |-> words[1][4 - j + 1]] BY <1>2, <3>1
        <5> HIDE DEF seqs
        <5> QED BY <5>1
      <4> QED BY <4>1, <4>2, <4>3
    <3>3. /\ BytesOf(First(1)) \in Seq(Byte) /\ Len(BytesOf(First(1))) = 4
          /\ seqs[1] \in Seq(Byte) /\ Len(seqs[1]) = 4
      <4>1. BytesOf(First(1)) \in Seq(Byte) /\ Len(BytesOf(First(1))) = 4 * 1
        BY <1>5, <3>1
      <4>2. seqs[1] \in Seq(Byte) /\ Len(seqs[1]) = 4
        <5> HIDE DEF seqs
        <5> QED BY <1>3, <3>1
      <4> HIDE DEF seqs
      <4> QED BY <4>1, <4>2
    <3>4. BytesOf(First(1)) = seqs[1]
      <4> HIDE DEF seqs
      <4> QED BY <3>2, <3>3, SeqEqual
    <3> HIDE DEF seqs
    <3> QED BY <3>1, <3>4
  <2>2. ASSUME NEW k \in 1 .. n - 1 PROVE whole[k + 1] = whole[k] \o seqs[k + 1]
    <3>1. k \in Nat /\ k \in 1 .. n /\ k + 1 \in 1 .. n BY <1>1
    <3> DEFINE s == BytesOf(First(k))
               t == seqs[k + 1]
    <3>2. s \in Seq(Byte) /\ Len(s) = 4 * k /\ t \in Seq(Byte) /\ Len(t) = 4
      BY <1>3, <1>5, <3>1
    <3>3. s \o t = [b \in 1 .. 4 * k + 4 |-> IF b <= 4 * k THEN s[b] ELSE t[b - 4 * k]]
      <4> HIDE DEF s, t
      <4>1. s \o t = [b \in 1 .. Len(s) + Len(t) |->
                        IF b <= Len(s) THEN s[b] ELSE t[b - Len(s)]]
        BY <3>2, ConcatIs
      <4> QED BY <3>2, <4>1
    <3>4. ASSUME NEW b \in 1 .. 4 * k + 4
          PROVE  BytesOf(First(k + 1))[b] = IF b <= 4 * k THEN s[b] ELSE t[b - 4 * k]
      <4>0. BytesOf(First(k + 1))[b] = words[(b - 1) \div 4 + 1][4 - ((b - 1) % 4)]
        BY <1>5, <3>1
      <4>1. CASE b <= 4 * k
        <5>1. b \in 1 .. 4 * k BY <3>1, <4>1
        <5> QED BY <1>5, <3>1, <4>0, <4>1, <5>1
      <4>2. CASE ~(b <= 4 * k)
        <5>1. b - 4 * k \in 1 .. 4 /\ (b - 1) \div 4 + 1 = k + 1
              /\ 4 - ((b - 1) % 4) = 4 - (b - 4 * k) + 1
          <6>1. b \in Nat /\ b > 4 * k /\ b <= 4 * k + 4 BY <3>1, <4>2
          <6> QED BY <3>1, <6>1, Quarters
        <5>2. t[b - 4 * k] = words[k + 1][4 - (b - 4 * k) + 1]
          <6>1. t = [j \in 1 .. 4 |-> words[k + 1][4 - j + 1]]
            <7> HIDE DEF seqs
            <7> QED BY <1>2, <3>1
          <6> HIDE DEF t
          <6> QED BY <5>1, <6>1
        <5> QED BY <4>0, <4>2, <5>1, <5>2
      <4> QED BY <4>1, <4>2
    <3>5. BytesOf(First(k + 1)) = [b \in 1 .. 4 * k + 4 |-> BytesOf(First(k + 1))[b]]
      <4>1. Len(First(k + 1)) = k + 1 /\ 4 * (k + 1) = 4 * k + 4 BY <1>5, <3>1
      <4> QED BY <4>1 DEF BytesOf
    <3>6. BytesOf(First(k + 1)) = s \o t
      <4> HIDE DEF s, t
      <4> QED BY <3>3, <3>4, <3>5
    <3> QED BY <3>1, <3>6
  <2>3. FlattenSeq(seqs) = whole[n]
    <3> HIDE DEF seqs, whole
    <3> QED BY <1>1, <1>4, <1>6, <2>1, <2>2, Flattened
  <2>4. First(n) = words
    <3>1. words = [i \in DOMAIN words |-> words[i]] BY DEF Words
    <3> QED BY <1>1, <3>1 DEF First
  <2>5. whole[n] = BytesOf(words) BY <1>1, <1>6, <2>4
  <2> QED BY <2>3, <2>5
<1>7. CASE n = 0
  <2>1. FlattenSeq(seqs) = seqs
    <3> HIDE DEF seqs
    <3> QED BY <1>4, <1>7 DEF FlattenSeq
  <2>2. seqs = BytesOf(words)
    <3>1. DOMAIN words = {} /\ 1 .. 4 * n = {} BY <1>1, <1>7
    <3> QED BY <3>1 DEF BytesOf
  <2> QED BY <2>1, <2>2
<1> QED BY <1>1, <1>6, <1>7

(* The rows of c words after the address line.                             *)
RowsOf(words, c) ==
  [r \in 1 .. c + 1 |-> IF r = 1 THEN AtLine(0) ELSE ByteLine(words[r - 1])]

LineSet == [at : BOOLEAN, addr : {0}, bytes : Seq(Byte)]

LEMMA RowsType ==
  ASSUME NEW words \in Words, NEW c \in 0 .. Len(words)
  PROVE  RowsOf(words, c) \in Seq(LineSet) /\ Len(RowsOf(words, c)) = c + 1
<1>1. Len(words) \in Nat /\ \A i \in 1 .. Len(words) : words[i] \in Seq(Byte)
  BY WordAt
<1>2. <<>> \in Seq(Byte) OBVIOUS
<1>3. \A r \in 1 .. c + 1 : (IF r = 1 THEN AtLine(0) ELSE ByteLine(words[r - 1])) \in LineSet
  <2> TAKE r \in 1 .. c + 1
  <2>1. CASE r = 1 BY <1>2, <2>1 DEF AtLine, LineSet
  <2>2. CASE r # 1
    <3>1. r - 1 \in 1 .. Len(words) BY <1>1, <2>2
    <3>2. words[r - 1] \in Seq(Byte) BY <1>1, <3>1
    <3> QED BY <2>2, <3>2 DEF ByteLine, LineSet
  <2> QED BY <2>1, <2>2
<1>4. RowsOf(words, c) \in [1 .. c + 1 -> LineSet] BY <1>3 DEF RowsOf
<1>5. c + 1 \in Nat BY <1>1
<1> QED BY <1>4, <1>5, FunctionIsSeq

LEMMA LineType ==
  ASSUME NEW words \in Words, NEW a \in Nat, NEW c \in 0 .. Len(words)
  PROVE  ByteLine(SubSeq(BytesOf(words), 4 * a + 1, 4 * c)) \in LineSet
<1> DEFINE bytes == BytesOf(words)
<1>1. Len(words) \in Nat BY WordAt
<1>2. bytes \in Seq(Byte) /\ Len(bytes) = 4 * Len(words) BY BytesType
<1>3. 4 * a + 1 \in Int /\ 4 * c \in Int BY <1>1
<1> HIDE DEF bytes
<1>4. \A i \in 4 * a + 1 .. 4 * c : bytes[i] \in Byte
  <2> TAKE i \in 4 * a + 1 .. 4 * c
  <2>1. i \in 1 .. Len(bytes) BY <1>1, <1>2
  <2> QED BY <1>2, <2>1, ElementOfSeq
<1>5. SubSeq(bytes, 4 * a + 1, 4 * c) \in Seq(Byte) BY <1>3, <1>4, SubSeqProperties
<1> QED BY <1>5 DEF ByteLine, LineSet, bytes

(* A line that holds the words after the a-th up to the c-th.              *)
RowsAfter(words, a, c) == [j \in 1 .. c - a |-> ByteLine(words[a + j])]

LEMMA LineRows ==
  ASSUME NEW words \in Words, NEW a \in Nat, NEW c \in 0 .. Len(words), a <= c
  PROVE  Rows(ByteLine(SubSeq(BytesOf(words), 4 * a + 1, 4 * c)))
           = RowsAfter(words, a, c)
<1> DEFINE bytes == BytesOf(words)
           part == SubSeq(bytes, 4 * a + 1, 4 * c)
<1>1. /\ Len(words) \in Nat
      /\ \A i \in 1 .. Len(words) : words[i] \in [1 .. 4 -> Byte]
  BY WordAt
<1>2. bytes \in Seq(Byte) /\ Len(bytes) = 4 * Len(words) BY BytesType
<1>3. \A i \in 4 * a + 1 .. 4 * c : bytes[i] \in Byte
  <2> TAKE i \in 4 * a + 1 .. 4 * c
  <2>1. i \in 1 .. Len(bytes) BY <1>1, <1>2
  <2> HIDE DEF bytes
  <2> QED BY <1>2, <2>1, ElementOfSeq
<1>4. /\ Len(part) = 4 * (c - a)
      /\ \A i \in 1 .. 4 * (c - a) : part[i] = bytes[4 * a + i]
  <2>1. 4 * a + 1 \in Int /\ 4 * c \in Int /\ 4 * c - (4 * a + 1) + 1 = 4 * (c - a)
        /\ c \in Nat
    BY <1>1
  <2> HIDE DEF bytes
  <2>2. /\ Len(part) = IF 4 * a + 1 <= 4 * c THEN 4 * c - (4 * a + 1) + 1 ELSE 0
        /\ \A i \in 1 .. 4 * c - (4 * a + 1) + 1 : part[i] = bytes[(4 * a + 1) + i - 1]
    BY <1>3, <2>1, SubSeqProperties
  <2> HIDE DEF part
  <2>3. Len(part) = 4 * (c - a) BY <2>1, <2>2
  <2>4. ASSUME NEW i \in 1 .. 4 * (c - a) PROVE part[i] = bytes[4 * a + i]
    <3>1. (4 * a + 1) + i - 1 = 4 * a + i BY <2>1
    <3> QED BY <2>1, <2>2, <3>1
  <2> QED BY <2>3, <2>4
<1> HIDE DEF part
<1>5. ASSUME NEW j \in 1 .. c - a PROVE datrow(part, j) = words[a + j]
  <2>1. /\ j \in Nat /\ c - a \in Nat /\ j >= 1 /\ j <= c - a /\ a + j \in 1 .. Len(words)
    BY <1>1
  <2>2. ASSUME NEW i \in 0 .. 3 PROVE part[4 * j - i] = words[a + j][1 + i]
    <3>1. 4 * j - i \in 1 .. 4 * (c - a) BY <2>1
    <3> DEFINE b == 4 * a + (4 * j - i)
    <3>2. part[4 * j - i] = bytes[b] BY <1>4, <3>1
    <3>3. b \in Nat /\ b > 0 /\ b <= 4 * Len(words) BY <1>1, <2>1, <3>1
    <3>4. (b - 1) \div 4 + 1 = a + j /\ 4 - ((b - 1) % 4) = 1 + i
      <4>1. b = 4 * (a + j) - i /\ a + j \in Nat BY <2>1
      <4>2. PICK q : q = (b - 1) \div 4 OBVIOUS
      <4>3. PICK r : r = (b - 1) % 4 OBVIOUS
      <4> HIDE DEF b
      <4>4. q \in Nat /\ r \in 0 .. 3 /\ b - 1 = 4 * q + r
        BY <3>3, <4>2, <4>3, Quarters
      <4>5. b - 1 = 4 * (a + j - 1) + (3 - i) BY <4>1
      <4>6. q + 1 = a + j /\ 4 - r = 1 + i BY <2>1, <4>4, <4>5
      <4> QED BY <4>2, <4>3, <4>6
    <3>5. bytes[b] = words[(b - 1) \div 4 + 1][4 - ((b - 1) % 4)]
      <4>1. b \in 1 .. 4 * Len(words) BY <1>1, <3>3
      <4> HIDE DEF b
      <4> QED BY <4>1 DEF BytesOf
    <3> HIDE DEF b
    <3> QED BY <3>2, <3>4, <3>5
  <2>3. /\ part[4 * j] = words[a + j][1] /\ part[4 * j - 1] = words[a + j][2]
        /\ part[4 * j - 2] = words[a + j][3] /\ part[4 * j - 3] = words[a + j][4]
    <3>1. 0 \in 0 .. 3 /\ 1 \in 0 .. 3 /\ 2 \in 0 .. 3 /\ 3 \in 0 .. 3 OBVIOUS
    <3>2. part[4 * j - 0] = words[a + j][1 + 0] BY <2>2, <3>1
    <3>3. part[4 * j - 1] = words[a + j][1 + 1] BY <2>2, <3>1
    <3>4. part[4 * j - 2] = words[a + j][1 + 2] BY <2>2, <3>1
    <3>5. part[4 * j - 3] = words[a + j][1 + 3] BY <2>2, <3>1
    <3> QED BY <2>1, <3>2, <3>3, <3>4, <3>5
  <2>4. words[a + j] \in [1 .. 4 -> Byte] BY <1>1, <2>1
  <2>5. datrow(part, j) = <<words[a + j][1], words[a + j][2], words[a + j][3], words[a + j][4]>>
    BY <2>3 DEF datrow
  <2> QED BY <2>4, <2>5
<1>6. Len(part) \div 4 = c - a BY <1>1, <1>4
<1>7. Rows(ByteLine(part)) = [j \in 1 .. Len(part) \div 4 |-> ByteLine(datrow(part, j))]
  BY DEF Rows, ByteLine
<1> QED BY <1>5, <1>6, <1>7 DEF part, RowsAfter

(* Its rows follow those of the words before.                              *)
LEMMA MoreRows ==
  ASSUME NEW words \in Words, NEW a \in Nat, NEW c \in 0 .. Len(words), a <= c
  PROVE  /\ RowsAfter(words, a, c) \in Seq(LineSet)
         /\ RowsOf(words, a) \o RowsAfter(words, a, c) = RowsOf(words, c)
<1>0. PICK more : more = RowsAfter(words, a, c) OBVIOUS
<1>1. Len(words) \in Nat /\ \A i \in 1 .. Len(words) : words[i] \in Seq(Byte)
  BY WordAt
<1>2. c - a \in Nat /\ a \in 0 .. Len(words) BY <1>1
<1>3. more \in [1 .. c - a -> LineSet]
  <2>1. ASSUME NEW j \in 1 .. c - a PROVE ByteLine(words[a + j]) \in LineSet
    <3>1. a + j \in 1 .. Len(words) BY <1>1
    <3>2. words[a + j] \in Seq(Byte) BY <1>1, <3>1
    <3> QED BY <3>2 DEF ByteLine, LineSet
  <2> QED BY <1>0, <2>1 DEF RowsAfter
<1>4. more \in Seq(LineSet) /\ Len(more) = c - a BY <1>2, <1>3, FunctionIsSeq
<1>5. RowsOf(words, a) \in Seq(LineSet) /\ Len(RowsOf(words, a)) = a + 1
  BY <1>2, RowsType
<1>6. RowsOf(words, a) \o more =
        [r \in 1 .. (a + 1) + (c - a) |->
           IF r <= a + 1 THEN RowsOf(words, a)[r] ELSE more[r - (a + 1)]]
  <2>1. PICK s : s = RowsOf(words, a) OBVIOUS
  <2>3. s \in Seq(LineSet) /\ more \in Seq(LineSet) BY <1>4, <1>5, <2>1
  <2>2. s \o more = [r \in 1 .. Len(s) + Len(more) |->
                       IF r <= Len(s) THEN s[r] ELSE more[r - Len(s)]]
    BY <2>3, ConcatIs
  <2> QED BY <1>4, <1>5, <2>1, <2>2
<1>7. (a + 1) + (c - a) = c + 1 BY <1>1
<1>8. ASSUME NEW r \in 1 .. c + 1
      PROVE  (IF r <= a + 1 THEN RowsOf(words, a)[r] ELSE more[r - (a + 1)]) = RowsOf(words, c)[r]
  <2>1. CASE r <= a + 1
    <3>1. r \in 1 .. a + 1 BY <2>1
    <3> QED BY <2>1, <3>1 DEF RowsOf
  <2>2. CASE ~(r <= a + 1)
    <3>1. r - (a + 1) \in 1 .. c - a /\ a + (r - (a + 1)) = r - 1 /\ r # 1 BY <1>1, <2>2
    <3>2. more[r - (a + 1)] = ByteLine(words[r - 1]) BY <1>0, <3>1 DEF RowsAfter
    <3> QED BY <2>2, <3>1, <3>2 DEF RowsOf
  <2> QED BY <2>1, <2>2
<1>9. RowsOf(words, c) = [r \in 1 .. c + 1 |-> RowsOf(words, c)[r]] BY DEF RowsOf
<1> QED BY <1>0, <1>4, <1>6, <1>7, <1>8, <1>9

(* The lines of a hex file: how many, and that they hold all words.        *)
LEMMA LineCount ==
  ASSUME NEW n \in Nat, NEW g \in Nat, g > 0,
         NEW l, l = (4 * n + 4 * g - 1) \div (4 * g)
  PROVE  /\ l \in Nat /\ g * l >= n
         /\ \A k \in 1 .. l : g * (k - 1) \in Nat /\ g * (k - 1) < n
<1> DEFINE m == 4 * n + 4 * g - 1
           d == 4 * g
           rest == m % d
<1>1. m \in Nat /\ d \in Nat /\ d > 0 OBVIOUS
<1>2. l \in Nat /\ rest \in 0 .. d - 1 /\ m = d * l + rest
  <2> HIDE DEF m, d
  <2>1. l = m \div d BY DEF m, d
  <2>2. m \div d \in Nat BY <1>1
  <2>3. m % d \in 0 .. d - 1 BY <1>1
  <2>4. m = d * (m \div d) + (m % d) BY <1>1
  <2> QED BY <2>1, <2>2, <2>3, <2>4
<1>3. PICK p : p = g * l OBVIOUS
<1>4. p \in Int BY <1>2, <1>3
<1>5. d * l = 4 * p BY <1>2, <1>3
<1>6. 4 * p >= 4 * n /\ 4 * p <= 4 * n + 4 * g - 1 BY <1>2, <1>4, <1>5
<1>7. ASSUME NEW k \in 1 .. l PROVE g * (k - 1) \in Nat /\ g * (k - 1) < n
  <2>1. k \in Nat /\ k - 1 \in Nat /\ l - k \in Nat BY <1>2
  <2>2. g * (k - 1) \in Nat /\ g * (l - k) \in Nat BY <2>1
  <2>3. g * l = g * (k - 1) + g + g * (l - k) BY <1>2, <2>1
  <2> QED BY <1>3, <1>4, <1>6, <2>2, <2>3
<1> QED BY <1>2, <1>3, <1>4, <1>6, <1>7

(* The file for the ROM has the words of the program in their order.       *)
LEMMA DatRows ==
  ASSUME NEW words \in Words
  PROVE  word2byte(HexFile(words)) = RowsOf(words, Len(words))
<1> DEFINE n == Len(words)
           g == LineBytes \div 4
           l == (4 * n + 4 * g - 1) \div (4 * g)
           End(k) == IF g * k < n THEN g * k ELSE n
           Line(k) == ByteLine(SubSeq(BytesOf(words), 4 * (g * (k - 1)) + 1, 4 * End(k)))
           hex == [k \in 1 .. l + 1 |-> IF k = 1 THEN AtLine(0) ELSE Line(k - 1)]
           seqs == [k \in 1 .. l + 1 |-> Rows(hex[k])]
           whole == [k \in 1 .. l + 1 |-> RowsOf(words, End(k - 1))]
<1>1. n \in Nat BY WordAt
<1>2. g \in Nat /\ g > 0 /\ LineBytes = 4 * g BY TestSizesAssumption
<1> HIDE DEF g
<1>3. /\ l \in Nat /\ g * l >= n
      /\ \A k \in 1 .. l : g * (k - 1) \in Nat /\ g * (k - 1) < n
  BY <1>1, <1>2, LineCount
<1>4. \A k \in Nat : g * k \in Nat /\ g * k <= g * (k + 1) BY <1>2
<1>5. ASSUME NEW k \in 1 .. l
      PROVE  /\ g * (k - 1) \in Nat /\ End(k - 1) = g * (k - 1)
             /\ End(k) \in 0 .. n /\ End(k - 1) <= End(k)
  <2>1. g * (k - 1) \in Nat /\ g * (k - 1) < n BY <1>3
  <2>2. k \in Nat /\ k - 1 \in Nat /\ (k - 1) + 1 = k BY <1>3
  <2>3. g * k \in Nat BY <1>4, <2>2
  <2>4. g * (k - 1) <= g * ((k - 1) + 1) BY <1>4, <2>2
  <2>5. g * (k - 1) <= g * k BY <2>2, <2>4
  <2> QED BY <1>1, <2>1, <2>3, <2>5
<1> HIDE DEF l
<1>6. HexFile(words) = hex
  <2> DEFINE bytes == BytesOf(words)
  <2>1. bytes \in Seq(Byte) /\ Len(bytes) = 4 * n BY BytesType
  <2>2. l = (Len(bytes) + LineBytes - 1) \div LineBytes BY <1>2, <2>1 DEF l
  <2> DEFINE Part(k) == SubSeq(bytes, k * LineBytes + 1,
                               IF (k + 1) * LineBytes < Len(bytes)
                               THEN (k + 1) * LineBytes ELSE Len(bytes))
             lines == [k \in 1 .. l |-> ByteLine(Part(k - 1))]
  <2>3. HexFile(words) = <<AtLine(0)>> \o lines
    <3>1. FlattenSeq([i \in DOMAIN words |-> Reverse(words[i])]) = bytes BY HexBytes
    <3> HIDE DEF bytes
    <3> QED BY <2>2, <3>1 DEF HexFile
  <2>4. ASSUME NEW k \in 1 .. l PROVE lines[k] = Line(k)
    <3>1. k \in Int /\ (k - 1) + 1 = k BY <1>3
    <3>2. PICK p : p = g * (k - 1) OBVIOUS
    <3>3. PICK q : q = g * k OBVIOUS
    <3>4. p \in Int /\ q \in Int BY <1>2, <3>1, <3>2, <3>3
    <3>5. (k - 1) * LineBytes = 4 * p /\ ((k - 1) + 1) * LineBytes = 4 * q
      <4>1. (k - 1) * (4 * g) = 4 * p BY <1>2, <3>1, <3>2
      <4>2. k * (4 * g) = 4 * q BY <1>2, <3>1, <3>3
      <4> QED BY <1>2, <3>1, <4>1, <4>2
    <3>6. (IF ((k - 1) + 1) * LineBytes < Len(bytes)
           THEN ((k - 1) + 1) * LineBytes ELSE Len(bytes)) = 4 * End(k)
      BY <1>1, <2>1, <3>3, <3>4, <3>5
    <3> HIDE DEF bytes
    <3>7. Part(k - 1) = SubSeq(bytes, 4 * p + 1, 4 * End(k)) BY <3>5, <3>6
    <3> QED BY <3>2, <3>7 DEF bytes
  <2>5. ASSUME NEW k \in 1 .. l PROVE lines[k] \in LineSet
    <3>1. Line(k) \in LineSet BY <1>5, LineType DEF Line
    <3> QED BY <2>4, <3>1
  <2>6. lines \in Seq(LineSet) /\ Len(lines) = l
    <3>1. lines \in [1 .. l -> LineSet] BY <2>5
    <3> HIDE DEF lines
    <3> QED BY <1>3, <3>1, FunctionIsSeq
  <2>7. PICK first : first = <<AtLine(0)>> OBVIOUS
  <2>8. first \in Seq(LineSet) /\ Len(first) = 1 /\ first[1] = AtLine(0)
    <3>1. <<>> \in Seq(Byte) OBVIOUS
    <3>2. AtLine(0) \in LineSet BY <3>1 DEF AtLine, LineSet
    <3> QED BY <2>7, <3>2
  <2>9. first \o lines = [k \in 1 .. 1 + l |-> IF k <= 1 THEN first[k] ELSE lines[k - 1]]
    <3> HIDE DEF lines
    <3>1. first \o lines = [k \in 1 .. Len(first) + Len(lines) |->
                              IF k <= Len(first) THEN first[k] ELSE lines[k - Len(first)]]
      BY <2>6, <2>8, ConcatIs
    <3> QED BY <2>6, <2>8, <3>1
  <2>10. ASSUME NEW k \in 1 .. l + 1
         PROVE  (IF k <= 1 THEN first[k] ELSE lines[k - 1]) = hex[k]
    <3>1. CASE k = 1 BY <2>8, <3>1
    <3>2. CASE k # 1
      <4>1. ~(k <= 1) /\ k - 1 \in 1 .. l BY <1>3, <3>2
      <4> HIDE DEF lines, Line
      <4> QED BY <2>4, <3>2, <4>1
    <3> QED BY <3>1, <3>2
  <2>11. 1 + l = l + 1 BY <1>3
  <2>12. first \o lines = hex
    <3>1. hex = [k \in 1 .. l + 1 |-> hex[k]] OBVIOUS
    <3> HIDE DEF lines, hex
    <3> QED BY <2>9, <2>10, <2>11, <3>1
  <2> QED BY <2>3, <2>7, <2>12
<1>7. ASSUME NEW k \in 1 .. l
      PROVE  /\ seqs[k + 1] \in Seq(LineSet)
             /\ whole[k + 1] = whole[k] \o seqs[k + 1]
  <2>1. k \in 1 .. l + 1 /\ k + 1 \in 1 .. l + 1 /\ k + 1 # 1 /\ (k + 1) - 1 = k
    BY <1>3
  <2>2. PICK a : a = g * (k - 1) OBVIOUS
  <2>3. PICK c : c = End(k) OBVIOUS
  <2>4. a \in Nat /\ End(k - 1) = a /\ c \in 0 .. n /\ a <= c BY <1>5, <2>2, <2>3
  <2>5. seqs[k + 1] = Rows(ByteLine(SubSeq(BytesOf(words), 4 * a + 1, 4 * c)))
    BY <2>1, <2>2, <2>3
  <2>6. Rows(ByteLine(SubSeq(BytesOf(words), 4 * a + 1, 4 * c)))
          = RowsAfter(words, a, c)
    BY <2>4, LineRows
  <2>7. PICK more : more = RowsAfter(words, a, c) OBVIOUS
  <2>8. seqs[k + 1] = more BY <2>5, <2>6, <2>7
  <2>9. more \in Seq(LineSet) /\ RowsOf(words, a) \o more = RowsOf(words, c)
    BY <2>4, <2>7, MoreRows
  <2>10. whole[k] = RowsOf(words, a)
    <3> HIDE DEF End
    <3> QED BY <2>1, <2>4
  <2>11. whole[k + 1] = RowsOf(words, c)
    <3> HIDE DEF End
    <3> QED BY <2>1, <2>3
  <2> HIDE DEF seqs, whole
  <2> QED BY <2>8, <2>9, <2>10, <2>11
<1>8. whole[1] = seqs[1] /\ seqs[1] \in Seq(LineSet)
  <2>1. 1 \in 1 .. l + 1 /\ 1 - 1 = 0 BY <1>3
  <2>2. End(0) = 0 BY <1>1, <1>2
  <2>3. whole[1] = RowsOf(words, 0)
    <3> HIDE DEF End
    <3> QED BY <2>1, <2>2
  <2>4. seqs[1] = <<AtLine(0)>>
    <3>1. seqs[1] = Rows(AtLine(0)) BY <2>1
    <3> HIDE DEF seqs
    <3> QED BY <3>1 DEF Rows, AtLine
  <2>5. RowsOf(words, 0) = <<AtLine(0)>> BY DEF RowsOf
  <2>6. RowsOf(words, 0) \in Seq(LineSet)
    <3>1. 0 \in 0 .. Len(words) BY <1>1
    <3> QED BY <3>1, RowsType
  <2> HIDE DEF seqs, whole
  <2> QED BY <2>3, <2>4, <2>5, <2>6
<1>9. Len(seqs) = l + 1
  <2>1. ASSUME NEW k \in 1 .. l + 1 PROVE seqs[k] \in Seq(LineSet)
    <3>1. CASE k = 1 BY <1>8, <3>1
    <3>2. CASE k # 1
      <4>1. k - 1 \in 1 .. l /\ (k - 1) + 1 = k BY <1>3, <3>2
      <4>2. seqs[(k - 1) + 1] \in Seq(LineSet)
        <5> HIDE DEF seqs, whole
        <5> QED BY <1>7, <4>1
      <4> HIDE DEF seqs
      <4> QED BY <4>1, <4>2
    <3> QED BY <3>1, <3>2
  <2>2. seqs = [k \in 1 .. l + 1 |-> seqs[k]] OBVIOUS
  <2> HIDE DEF seqs
  <2>3. seqs \in [1 .. l + 1 -> Seq(LineSet)] BY <2>1, <2>2
  <2>4. l + 1 \in Nat BY <1>3
  <2> QED BY <2>3, <2>4, FunctionIsSeq
<1>10. word2byte(HexFile(words)) = FlattenSeq(seqs)
  <2>1. word2byte(hex) = FlattenSeq([i \in DOMAIN hex |-> Rows(hex[i])]) BY DEF word2byte
  <2>2. DOMAIN hex = 1 .. l + 1 OBVIOUS
  <2>3. [i \in DOMAIN hex |-> Rows(hex[i])] = seqs
    <3> HIDE DEF hex
    <3> QED BY <2>2
  <2> HIDE DEF hex, seqs
  <2> QED BY <1>6, <2>1, <2>3
<1>11. FlattenSeq(seqs) = whole[l + 1]
  <2>1. l + 1 \in Nat /\ l + 1 > 0 /\ (l + 1) - 1 = l BY <1>3
  <2> HIDE DEF seqs, whole
  <2>2. \A k \in 1 .. (l + 1) - 1 : whole[k + 1] = whole[k] \o seqs[k + 1]
    BY <1>7, <2>1
  <2>3. PICK lines : lines = l + 1 OBVIOUS
  <2> QED BY <1>8, <1>9, <2>1, <2>2, <2>3, Flattened
<1>12. whole[l + 1] = RowsOf(words, n)
  <2>1. l + 1 \in 1 .. l + 1 /\ (l + 1) - 1 = l BY <1>3
  <2>2. End(l) = n
    <3>1. PICK p : p = g * l OBVIOUS
    <3>2. p \in Int BY <1>2, <1>3, <3>1
    <3>3. p >= n BY <1>3, <3>1
    <3> QED BY <1>1, <3>1, <3>2, <3>3
  <2> HIDE DEF End
  <2> QED BY <2>1, <2>2
<1> HIDE DEF seqs, whole
<1> QED BY <1>10, <1>11, <1>12

(* The ROM then holds the program.                                         *)
LEMMA RomHoldsProgram ==
  ASSUME NEW words \in Words
  PROVE  RomWords(word2byte(HexFile(words))) = words
<1> DEFINE n == Len(words)
           dat_rows == RowsOf(words, n)
           Step(f, m) == IF m = 0 THEN <<>>
                         ELSE IF dat_rows[m].at THEN f[m - 1]
                         ELSE Append(f[m - 1], dat_rows[m].bytes)
           rom == CHOOSE f : f = [m \in 0 .. n + 1 |-> Step(f, m)]
           First == [m \in 0 .. n + 1 |-> [i \in 1 .. m - 1 |-> words[i]]]
<1>1. n \in Nat /\ DOMAIN words = 1 .. n BY WordAt
<1>2. Len(dat_rows) = n + 1
  <2>1. n \in 0 .. n BY <1>1
  <2> QED BY <2>1, RowsType
<1>3. RomWords(dat_rows) = rom[n + 1]
  <2> HIDE DEF dat_rows
  <2> QED BY <1>2 DEF RomWords
<1>4. ASSUME NEW m \in 0 .. n + 1 PROVE First[m] = Step(First, m)
  <2>1. CASE m = 0 BY <1>1, <2>1
  <2>2. CASE m = 1
    <3>1. dat_rows[1].at BY <1>1 DEF RowsOf, AtLine
    <3>2. First[1] = <<>> /\ First[0] = <<>> /\ 1 - 1 = 0 BY <1>1
    <3> HIDE DEF First, dat_rows
    <3> QED BY <2>2, <3>1, <3>2
  <2>3. CASE m > 1
    <3>1. m \in Nat /\ m - 1 \in Nat /\ m - 1 \in 1 .. n /\ m - 1 \in 0 .. n + 1
          /\ (m - 1) - 1 \in Nat /\ ((m - 1) - 1) + 1 = m - 1
      BY <1>1, <2>3
    <3>2. ~dat_rows[m].at /\ dat_rows[m].bytes = words[m - 1]
      BY <1>1, <2>3 DEF RowsOf, ByteLine
    <3> DEFINE s == [i \in 1 .. (m - 1) - 1 |-> words[i]]
               t == [i \in 1 .. m - 1 |-> words[i]]
    <3>3. First[m - 1] = s /\ First[m] = t BY <3>1
    <3>4. s \in [1 .. (m - 1) - 1 -> [1 .. 4 -> Byte]] BY <1>1, <3>1, WordAt
    <3>5. t \in [1 .. m - 1 -> [1 .. 4 -> Byte]] BY <1>1, <3>1, WordAt
    <3>6. words[m - 1] \in [1 .. 4 -> Byte] BY <1>1, <3>1, WordAt
    <3>7. \A i \in 1 .. (m - 1) - 1 : s[i] = words[i] OBVIOUS
    <3>8. \A i \in 1 .. m - 1 : t[i] = words[i] OBVIOUS
    <3>9. Append(s, words[m - 1]) = t
      <4> HIDE DEF s, t
      <4>1. s \in Words /\ Len(s) = (m - 1) - 1 BY <3>1, <3>4, FunctionIsSeq DEF Words
      <4>2. t \in Words /\ Len(t) = m - 1 BY <3>1, <3>5, FunctionIsSeq DEF Words
      <4>3. /\ Append(s, words[m - 1]) \in Words /\ Len(Append(s, words[m - 1])) = m - 1
            /\ \A i \in 1 .. (m - 1) - 1 : Append(s, words[m - 1])[i] = s[i]
            /\ Append(s, words[m - 1])[m - 1] = words[m - 1]
        BY <3>1, <3>6, <4>1, AppendProperties DEF Words
      <4>4. \A i \in 1 .. m - 1 : Append(s, words[m - 1])[i] = t[i]
        <5> TAKE i \in 1 .. m - 1
        <5>1. i = m - 1 \/ i \in 1 .. (m - 1) - 1 BY <3>1
        <5> QED BY <3>7, <3>8, <4>3, <5>1
      <4> QED BY <4>2, <4>3, <4>4, SeqEqual DEF Words
    <3>10. m # 0 BY <2>3
    <3> HIDE DEF First, dat_rows, s, t
    <3> QED BY <3>2, <3>3, <3>9, <3>10
  <2> QED BY <1>1, <2>1, <2>2, <2>3
<1>5. rom = [m \in 0 .. n + 1 |-> Step(rom, m)]
  <2>1. First = [m \in 0 .. n + 1 |-> First[m]] OBVIOUS
  <2> HIDE DEF Step, First
  <2>2. First = [m \in 0 .. n + 1 |-> Step(First, m)] BY <1>4, <2>1
  <2> QED BY <2>2
<1> HIDE DEF rom, First, dat_rows
<1> DEFINE T == {k \in 1 .. n + 1 : rom[k] = First[k] /\ rom[k - 1] = First[k - 1]}
<1>6. 0 \in 0 .. n + 1 /\ 1 \in 0 .. n + 1 /\ n + 1 \in Nat BY <1>1
<1>7. 1 \in T
  <2>1. rom[0] = First[0] BY <1>4, <1>5, <1>6
  <2>2. rom[1] = Step(rom, 1) /\ First[1] = Step(First, 1) BY <1>4, <1>5, <1>6
  <2>3. rom[1] = First[1] BY <2>1, <2>2
  <2> QED BY <1>1, <2>1, <2>3
<1>8. ASSUME NEW k \in 1 .. (n + 1) - 1, k \in T PROVE k + 1 \in T
  <2>1. k + 1 \in 1 .. n + 1 /\ k + 1 \in 0 .. n + 1 /\ (k + 1) - 1 = k BY <1>1
  <2>2. rom[k + 1] = Step(rom, k + 1) /\ First[k + 1] = Step(First, k + 1)
    BY <1>4, <1>5, <2>1
  <2>3. rom[k + 1] = First[k + 1] BY <1>8, <2>1, <2>2
  <2> QED BY <1>8, <2>1, <2>3
<1>9. rom[n + 1] = First[n + 1]
  <2> HIDE DEF T
  <2>1. 1 .. n + 1 \subseteq T BY <1>6, <1>7, <1>8, CountUp
  <2>2. n + 1 \in T BY <1>1, <2>1
  <2> QED BY <2>2 DEF T
<1>10. First[n + 1] = words
  <2>1. n + 1 \in 0 .. n + 1 /\ (n + 1) - 1 = n BY <1>1
  <2>2. words = [i \in 1 .. n |-> words[i]]
    <3>1. words = [i \in DOMAIN words |-> words[i]] BY DEF Words
    <3> QED BY <1>1, <3>1
  <2> QED BY <2>1, <2>2 DEF First
<1> QED BY <1>3, <1>9, <1>10, DatRows DEF dat_rows

-----------------------------------------------------------------------------
(* The programs.                                                           *)

(* A name of the trace that belongs to a register.                         *)
NameOf(name, r) ==
  \/ name = <<"x", r>>
  \/ name[1] \in DOMAIN ABI_TO_X /\ ABI_TO_X[name[1]] = r

LEMMA NameOfRegister ==
  ASSUME NEW name \in STRING \X Nat, NEW r \in Reg
  PROVE  reg_index(name) = r <=> NameOf(name, r)
<1> USE DEF NameOf
<1>1. "x" \notin DOMAIN ABI_TO_X BY DEF ABI_TO_X
<1>2. r # NoReg BY TestSizesAssumption DEF NoReg, Reg
<1>3. name = <<name[1], name[2]>> OBVIOUS
<1>4. CASE name[1] = "x"
  <2>1. reg_index(name) = name[2] BY <1>4 DEF reg_index
  <2>2. (name = <<"x", r>>) = (name[2] = r) BY <1>3, <1>4
  <2>3. name[1] \notin DOMAIN ABI_TO_X BY <1>1, <1>4
  <2> QED BY <2>1, <2>2, <2>3
<1>5. CASE name[1] # "x"
  <2>1. name # <<"x", r>> BY <1>5
  <2> QED BY <1>2, <1>5, <2>1 DEF reg_index
<1> QED BY <1>4, <1>5

(* The architectural registers are what extract_qemu.py writes.            *)
LEMMA TracedIsArchitectural ==
  ASSUME program \in Programs
  PROVE  traced_regs(program.trace) = [r \in Reg |-> Architectural(r)]
<1>0. PICK trace : trace = program.trace OBVIOUS
<1> DEFINE Writes(r) == {i \in DOMAIN trace : reg_index(trace[i].name) = r}
<1>1. trace \in Seq(TraceLine) BY <1>0, ProgramsAssumption
<1>2. Len(trace) \in Nat /\ DOMAIN trace = 1 .. Len(trace) BY <1>1, LenProperties
<1>3. ASSUME NEW r \in Reg PROVE Architectural(r) = LastWrite(trace, DOMAIN trace, r)
  <2>1. ASSUME NEW i \in DOMAIN trace PROVE trace[i].name \in STRING \X Nat
    <3>1. trace[i] \in TraceLine BY <1>1, <1>2, ElementOfSeq
    <3> QED BY <3>1 DEF TraceLine
  <2>2. WritesTo(r) = Writes(r)
    <3>1. ASSUME NEW i \in DOMAIN trace
          PROVE  reg_index(trace[i].name) = r <=> NameOf(trace[i].name, r)
      BY <2>1, NameOfRegister
    <3>2. WritesTo(r) = {i \in DOMAIN trace : NameOf(trace[i].name, r)}
      BY <1>0 DEF WritesTo, NameOf
    <3> QED BY <3>1, <3>2
  <2>3. CASE Writes(r) = {} BY <1>0, <2>2, <2>3 DEF Architectural, LastWrite
  <2>4. CASE Writes(r) # {}
    <3>1. PICK W : W = Writes(r) OBVIOUS
    <3>2. W \subseteq 1 .. Len(trace) /\ W # {} BY <1>2, <2>4, <3>1
    <3>3. Max(W) \in W /\ \A j \in W : j <= Max(W) BY <1>2, <3>2, LastPlace
    <3>4. ASSUME NEW i \in W, \A j \in W : j <= i PROVE i = Max(W)
      <4>1. i <= Max(W) /\ Max(W) <= i BY <3>3, <3>4
      <4>2. i \in 1 .. Len(trace) /\ Max(W) \in 1 .. Len(trace) BY <3>2, <3>3
      <4> QED BY <1>2, <4>1, <4>2
    <3>5. (CHOOSE i \in W : \A j \in W : j <= i) = Max(W) BY <3>3, <3>4
    <3>6. Architectural(r) = trace[Max(W)].value % WordSize
      <4>1. WritesTo(r) = W BY <2>2, <3>1
      <4>2. Architectural(r) = trace[CHOOSE i \in W : \A j \in W : j <= i].value % WordSize
        BY <1>0, <3>2, <4>1 DEF Architectural
      <4> QED BY <3>5, <4>2
    <3>7. LastWrite(trace, DOMAIN trace, r) = trace[Max(W)].value % WordSize
      BY <3>1, <3>2 DEF LastWrite
    <3> QED BY <3>6, <3>7
  <2> QED BY <2>3, <2>4
<1> QED BY <1>0, <1>1, <1>3, TracedRegs

(* They are numbers, so that no X is among them.                           *)
LEMMA ArchitecturalValue ==
  ASSUME program \in Programs, NEW r \in Reg
  PROVE  Architectural(r) \in Nat
<1>0. PICK trace : trace = program.trace OBVIOUS
<1> DEFINE W == {i \in DOMAIN trace : reg_index(trace[i].name) = r}
<1>1. trace \in Seq(TraceLine) BY <1>0, ProgramsAssumption
<1>2. Len(trace) \in Nat /\ DOMAIN trace = 1 .. Len(trace) BY <1>1, LenProperties
<1>3. Architectural(r) = LastWrite(trace, DOMAIN trace, r)
  <2>1. traced_regs(trace)[r] = Architectural(r) BY <1>0, TracedIsArchitectural
  <2>2. traced_regs(trace)[r] = LastWrite(trace, DOMAIN trace, r) BY <1>1, TracedRegs
  <2> QED BY <2>1, <2>2
<1>4. CASE W = {} BY <1>3, <1>4 DEF LastWrite
<1>5. CASE W # {}
  <2>1. W \subseteq 1 .. Len(trace) BY <1>2
  <2>2. Max(W) \in W
    <3> HIDE DEF W
    <3> QED BY <1>2, <1>5, <2>1, LastPlace
  <2>3. trace[Max(W)].value \in Nat
    <3>1. trace[Max(W)] \in TraceLine BY <1>1, <1>2, <2>2, ElementOfSeq
    <3> QED BY <3>1 DEF TraceLine
  <2>4. trace[Max(W)].value % WordSize \in Nat BY <2>3, TestSizesAssumption
  <2> QED BY <1>3, <1>5, <2>4 DEF LastWrite
<1> QED BY <1>4, <1>5

-----------------------------------------------------------------------------
(* The invariant.                                                          *)

Steps == {"build", "convert", "reference", "clean", "simulate", "check", "compare", "end"}

Judged == verdict \in {"PASS", "FAIL"}

TestTypeOK ==
  /\ program \in Programs
  /\ at \in Steps
  /\ verdict \in {"NONE", "ERROR", "PASS", "FAIL"}
  /\ verdict # "NONE" => at = "end"
  /\ runs \in Nat \ {0}
  /\ elf.run \in 0 .. runs
  /\ dat.run \in 0 .. runs
  /\ qemu_state.run \in 0 .. runs
  /\ sim_log.run \in 0 .. runs
  /\ metrics.run \in 0 .. runs
  /\ cpu_state.run \in 0 .. runs

(* A killed child is of an earlier test, and was there when this started,  *)
(* or it is of the test that has just been killed.                         *)
OrphanInv ==
  \A o \in orphans :
    /\ o.file.run \in 0 .. runs
    /\ o.file.run = runs => at = "end" /\ verdict = "NONE" /\ o.file.text = program
    /\ \/ at = "end" /\ verdict = "NONE"
       \/ [step |-> o.step, run |-> o.file.run] \in survivors

(* What a file of this very test holds.                                    *)
ContentsInv ==
  /\ elf.run = runs => elf.text = program
  /\ dat.run = runs => dat.text = word2byte(HexFile(program.words))
  /\ qemu_state.run = runs => qemu_state.text = traced_regs(program.trace)
  /\ cpu_state.run = runs => cpu_state.text \in [Reg -> CpuValues]

(* Which files are of this very test, or a survivor's, when the script     *)
(* comes to a step: what it would read of an earlier one has been written  *)
(* anew or removed.                                                        *)
FreshInv ==
  /\ at \in {"convert", "reference"} => Own(elf, {"build"})
  /\ at \in {"reference", "clean", "simulate", "check", "compare"} \/ Judged =>
       Own(dat, {"build", "convert"})
  /\ at \in {"clean", "simulate", "check", "compare"} \/ Judged =>
       Own(qemu_state, {"build", "reference"})
  /\ at \in {"simulate", "check"} => cpu_state = Absent \/ Own(cpu_state, {"simulate"})
  /\ at \in {"check", "compare"} \/ Judged => Own(sim_log, {"simulate"})
  /\ at = "compare" \/ Judged => Own(cpu_state, {"simulate"}) /\ Own(metrics, {"simulate"})

(* What a verdict rests on, as long as no survivor has written over it.    *)
Undisturbed == cpu_state.run = runs /\ qemu_state.run = runs

VerdictInv ==
  /\ verdict = "PASS" /\ Undisturbed => mismatches(cpu_state.text, qemu_state.text) = {}
  /\ named # {} => verdict = "FAIL"
  /\ named # {} /\ Undisturbed => named = mismatches(cpu_state.text, qemu_state.text)

TestInv == TestTypeOK /\ OrphanInv /\ ContentsInv /\ FreshInv /\ VerdictInv

LEMMA TestStarts == TestInit => TestInv
<1> SUFFICES ASSUME TestInit PROVE TestInv
  OBVIOUS
<1> QED BY DEF TestInit, TestInv, TestTypeOK, OrphanInv, ContentsInv, FreshInv, VerdictInv,
               Undisturbed, Judged, Own, Steps, Absent

(* The script goes on.                                                     *)
LEMMA ScriptKeeps == TestInv /\ Script => TestInv'
<1> SUFFICES ASSUME TestInv, Script PROVE TestInv'
  OBVIOUS
<1> USE DEF TestInv, TestTypeOK, OrphanInv, ContentsInv, FreshInv, Judged, Undisturbed, Own,
            Steps, File, kept
<1>1. CASE Build BY <1>1 DEF Build, Stop, VerdictInv
<1>2. CASE Convert BY <1>2 DEF Convert, RomImage, Stop, VerdictInv
<1>3. CASE Reference BY <1>3 DEF Reference, RefState, Stop, VerdictInv
<1>4. CASE Clean BY <1>4 DEF Clean, Absent, VerdictInv
<1>5. CASE StartSimulation BY <1>5 DEF StartSimulation, Stop, VerdictInv
<1>6. CASE SimulationEnds BY <1>6 DEF SimulationEnds, Stop, VerdictInv
<1>7. CASE SimulationTimesOut BY <1>7 DEF SimulationTimesOut, Stop, files, VerdictInv
<1>8. CASE Check BY <1>8 DEF Check, Exists, Stop, VerdictInv
<1>9. CASE Compare
  <2>1. verdict' \in {"PASS", "FAIL"} /\ at' = "end" BY <1>9 DEF Compare, Stop
  <2>2. VerdictInv' BY <1>9 DEF Compare, Stop, files, VerdictInv
  <2> QED BY <1>9, <2>1, <2>2 DEF Compare, files
<1> QED BY <1>1, <1>2, <1>3, <1>4, <1>5, <1>6, <1>7, <1>8, <1>9 DEF Script

(* It is killed, and its child may go on.                                  *)
LEMMA KillKeeps == TestInv /\ Kill => TestInv'
<1> SUFFICES ASSUME TestInv, Kill PROVE TestInv'
  OBVIOUS
<1> USE DEF TestInv, TestTypeOK, Undisturbed, Own, Steps
<1>1. /\ at # "end" /\ at' = "end" /\ verdict' = "NONE"
      /\ UNCHANGED <<program, elf, dat, qemu_state, sim_log, metrics, cpu_state,
                     named, survivors, runs>>
      /\ orphans' \subseteq orphans \cup {Child}
  BY DEF Kill, Stop, files
<1>2. Child.file.run \in 0 .. runs /\ (Child.file.run = runs => Child.file.text = program)
  BY DEF Child, File, ContentsInv
<1>3. OrphanInv' BY <1>1, <1>2 DEF OrphanInv
<1>4. TestTypeOK' /\ ContentsInv' /\ FreshInv' BY <1>1 DEF ContentsInv, FreshInv, Judged
<1>5. VerdictInv' BY <1>1 DEF VerdictInv
<1> QED BY <1>3, <1>4, <1>5

(* A child of a killed script writes its file, or ends without.            *)
LEMMA OrphanKeeps == TestInv /\ Orphan => TestInv'
<1> SUFFICES ASSUME TestInv, NEW o \in orphans, OrphanWrites(o) \/ OrphanEnds(o)
             PROVE  TestInv'
  BY DEF Orphan
<1> USE DEF TestInv, TestTypeOK, OrphanInv, ContentsInv, FreshInv, Judged, Undisturbed, Own,
            Steps, VerdictInv
<1>1. CASE OrphanEnds(o) BY <1>1 DEF OrphanEnds, files
<1>2. CASE OrphanWrites(o)
  <2> USE DEF RomImage, RefState
  <2>1. CASE o.step = "build" BY <1>2, <2>1 DEF OrphanWrites
  <2>2. CASE o.step = "convert" BY <1>2, <2>2 DEF OrphanWrites
  <2>3. CASE o.step = "reference" BY <1>2, <2>3 DEF OrphanWrites
  <2>4. CASE o.step = "simulate" BY <1>2, <2>4 DEF OrphanWrites
  <2> QED BY <1>2, <2>1, <2>2, <2>3, <2>4 DEF OrphanWrites
<1> QED BY <1>1, <1>2

(* The next test: everything is of earlier ones now.                       *)
LEMMA AgainKeeps == TestInv /\ Again => TestInv'
<1> SUFFICES ASSUME TestInv, Again PROVE TestInv'
  OBVIOUS
<1> USE DEF TestInv, TestTypeOK, Undisturbed, Own, Steps
<1>1. /\ runs' = runs + 1 /\ program' \in Programs /\ at' = "build"
      /\ verdict' = "NONE" /\ named' = {} /\ orphans' = orphans
      /\ survivors' = {[step |-> o.step, run |-> o.file.run] : o \in orphans}
      /\ UNCHANGED files
  BY DEF Again
<1>2. TestTypeOK' BY <1>1 DEF files
<1>3. OrphanInv'
  <2> SUFFICES ASSUME NEW o \in orphans
               PROVE  /\ o.file.run \in 0 .. runs' /\ o.file.run # runs'
                      /\ [step |-> o.step, run |-> o.file.run] \in survivors'
    BY <1>1, Zenon DEF OrphanInv
  <2>1. o.file.run \in 0 .. runs BY DEF OrphanInv
  <2>2. o.file.run \in 0 .. runs' /\ o.file.run # runs' BY <1>1, <2>1
  <2>3. [step |-> o.step, run |-> o.file.run] \in survivors' BY <1>1, Zenon
  <2> QED BY <2>2, <2>3
<1>4. ContentsInv' /\ FreshInv' BY <1>1 DEF ContentsInv, FreshInv, Judged, files
<1>5. VerdictInv' BY <1>1 DEF VerdictInv
<1> QED BY <1>2, <1>3, <1>4, <1>5

LEMMA TestSteps == TestInv /\ [TestNext]_testVars => TestInv'
<1> SUFFICES ASSUME TestInv, UNCHANGED testVars PROVE TestInv'
  BY ScriptKeeps, KillKeeps, OrphanKeeps, AgainKeeps DEF TestNext
<1> QED BY DEF TestInv, TestTypeOK, OrphanInv, ContentsInv, FreshInv, VerdictInv, Undisturbed,
               Judged, Own, testVars, files, kept

(* The inductive invariant of run_single.sh.                               *)
THEOREM TestInductive == TestSpec => []TestInv
<1> QED BY TestStarts, TestSteps, PTL DEF TestSpec

(* A register differs exactly where the processor left a number other than *)
(* the architectural one, or nothing and the architectural one is not 0.   *)
LEMMA MismatchesAre ==
  ASSUME TestInv, cpu_state.run = runs, qemu_state.run = runs, NEW r \in Reg
  PROVE  (r \in mismatches(cpu_state.text, qemu_state.text)) =
           IF cpu_state.text[r] = X THEN Architectural(r) # 0
           ELSE cpu_state.text[r] # Architectural(r)
<1>1. program \in Programs BY DEF TestInv, TestTypeOK
<1>2. qemu_state.text = [q \in Reg |-> Architectural(q)]
  BY <1>1, TracedIsArchitectural DEF TestInv, ContentsInv
<1>3. cpu_state.text \in [Reg -> CpuValues] BY DEF TestInv, ContentsInv
<1>4. \A q \in Reg : Architectural(q) # X
  <2> TAKE q \in Reg
  <2>1. Architectural(q) \in Nat BY <1>1, ArchitecturalValue
  <2> QED BY <2>1 DEF X
<1>5. Get(parse_state(qemu_state.text), r) = Architectural(r)
  BY <1>2, <1>4 DEF Get, parse_state
<1>6. Get(parse_state(cpu_state.text), r) =
        IF cpu_state.text[r] = X THEN 0 ELSE cpu_state.text[r]
  BY <1>3 DEF Get, parse_state
<1> QED BY <1>5, <1>6 DEF mismatches

(* A PASS is about this program and compares files of this very test,      *)
(* whatever an earlier test of the name left behind: only a child of a     *)
(* killed test that was still running when this one started can have       *)
(* written one of them.                                                    *)
THEOREM PassesAreFresh == TestSpec => []PassIsFresh
<1>1. TestInv => PassIsFresh
  <2> SUFFICES ASSUME TestInv, verdict = "PASS" PROVE PassIsFresh
    BY DEF PassIsFresh
  <2>1. /\ Own(dat, {"build", "convert"})
        /\ Own(qemu_state, {"build", "reference"})
        /\ Own(sim_log, {"simulate"}) /\ Own(metrics, {"simulate"})
        /\ Own(cpu_state, {"simulate"})
    BY DEF TestInv, FreshInv, Judged
  <2>2. ASSUME Undisturbed, NEW r \in Reg PROVE cpu_state.text[r] \in {X, Architectural(r)}
    <3>1. mismatches(cpu_state.text, qemu_state.text) = {}
      BY <2>2 DEF TestInv, VerdictInv
    <3> QED BY <2>2, <3>1, MismatchesAre DEF Undisturbed
  <2> QED BY <2>1, <2>2 DEF PassIsFresh, Undisturbed
<1> QED BY <1>1, TestInductive, PTL

(* Every register that a FAIL names, the processor really has wrong, if no *)
(* survivor has written one of the two states.                             *)
THEOREM FailsAreReal == TestSpec => []FailIsReal
<1>1. TestInv => FailIsReal
  <2> SUFFICES ASSUME TestInv, named # {} PROVE FailIsReal
    BY DEF FailIsReal
  <2>1. verdict = "FAIL" BY DEF TestInv, VerdictInv
  <2>2. Own(qemu_state, {"build", "reference"}) /\ Own(cpu_state, {"simulate"})
    BY <2>1 DEF TestInv, FreshInv, Judged
  <2>3. ASSUME Undisturbed, NEW r \in named PROVE cpu_state.text[r] # Architectural(r)
    <3>1. r \in mismatches(cpu_state.text, qemu_state.text)
      BY <2>3 DEF TestInv, VerdictInv
    <3>2. r \in Reg BY <3>1 DEF mismatches
    <3>3. Architectural(r) # X
      <4>1. Architectural(r) \in Nat BY <3>2, ArchitecturalValue DEF TestInv, TestTypeOK
      <4> QED BY <4>1 DEF X
    <3> QED BY <2>3, <3>1, <3>2, <3>3, MismatchesAre DEF Undisturbed
  <2> QED BY <2>1, <2>2, <2>3 DEF FailIsReal, Undisturbed
<1> QED BY <1>1, TestInductive, PTL

(* The reference registers and the ROM image of a test are those of its    *)
(* program: both simulators ran the same one, whatever the lines, the byte *)
(* order and the register names in between.                                *)
THEOREM TestsOneProgram == TestSpec => []SameProgram
<1>1. TestInv => SameProgram
  <2> SUFFICES ASSUME TestInv PROVE SameProgram
    OBVIOUS
  <2>1. PICK p \in Programs : program = p BY DEF TestInv, TestTypeOK
  <2>2. /\ dat.run = runs => dat.text = word2byte(HexFile(p.words))
        /\ qemu_state.run = runs => qemu_state.text = traced_regs(p.trace)
    BY <2>1 DEF TestInv, ContentsInv
  <2>3. qemu_state.run = runs => \A r \in Reg : qemu_state.text[r] = Architectural(r)
    <3>1. traced_regs(program.trace) = [r \in Reg |-> Architectural(r)]
      BY <2>1, TracedIsArchitectural
    <3> QED BY <2>1, <2>2, <3>1
  <2>4. dat.run = runs => RomWords(dat.text) = program.words
    <3>1. p.words \in Words BY ProgramsAssumption DEF Words
    <3>2. RomWords(word2byte(HexFile(p.words))) = p.words BY <3>1, RomHoldsProgram
    <3> QED BY <2>1, <2>2, <3>2
  <2> QED BY <2>3, <2>4 DEF SameProgram
<1> QED BY <1>1, TestInductive, PTL
=============================================================================
