--------------------------- MODULE PredictorProofs --------------------------
(***************************************************************************)
(* Theorems about Btb and Bpu, for every number of sets, addresses,        *)
(* histories and counters.                                                 *)
(***************************************************************************)
EXTENDS BpuSettling, BtbLatest, NaturalsInduction, WellFoundedInduction, TLAPS

LEMMA AddressTypes ==
  ASSUME NEW a \in Pc PROVE Index(a) \in Set /\ Tag(a) \in Nat
<1>1. a \in Nat BY BtbSizes DEF Pc
<1>2. a \div 4 \in Nat BY <1>1
<1>3. (a \div 4) % SetSize \in 0 .. SetSize - 1 BY <1>2, BtbSizes
<1>4. (a \div 4) \div SetSize \in Nat BY <1>2, BtbSizes
<1> QED BY <1>3, <1>4 DEF Index, Tag, Set

(* Index and tag together identify an instruction address.                 *)
LEMMA AddressIdentity ==
  ASSUME NEW a \in Pc, NEW b \in Pc, Index(a) = Index(b), Tag(a) = Tag(b)
  PROVE  a = b
<1>1. a \in Nat /\ b \in Nat /\ a % 4 = 0 /\ b % 4 = 0 BY BtbSizes DEF Pc
<1> DEFINE p == a \div 4
           q == b \div 4
<1>2. p \in Nat /\ q \in Nat /\ a = 4 * p /\ b = 4 * q BY <1>1
<1>3. p % SetSize = q % SetSize /\ p \div SetSize = q \div SetSize
  BY DEF Index, Tag
<1> HIDE DEF p, q
<1>4. /\ p = SetSize * (p \div SetSize) + (p % SetSize)
      /\ q = SetSize * (q \div SetSize) + (q % SetSize)
  BY <1>2, BtbSizes
<1> QED BY <1>2, <1>3, <1>4

LEMMA StoredType == \A t \in 0 .. WordSize - 1 : Stored(t) \in Pc
  BY BtbSizes DEF Stored, Pc

LEMMA PlruTypes ==
  ASSUME NEW bits \in [0 .. 2 -> Bit], NEW w \in Way
  PROVE  PlruVictim(bits) \in Way /\ PlruAfterAccess(bits, w) \in [0 .. 2 -> Bit]
  BY DEF PlruVictim, PlruAfterAccess, Way, Bit

LEMMA WriteType ==
  ASSUME BtbTypeOK, NEW pc \in Pc, NEW target \in 0 .. WordSize - 1,
         NEW type \in Type, NEW w \in Way, Write(pc, w, target, type)
  PROVE  BtbTypeOK'
<1>1. Index(pc) \in Set /\ Tag(pc) \in Nat BY AddressTypes
<1>2. Stored(target) \in Pc BY StoredType
<1>3. [valid |-> TRUE, tag |-> Tag(pc), target |-> Stored(target),
       type |-> type] \in Entry
  BY <1>1, <1>2 DEF Entry, Type
<1>4. way_r' \in [Set -> [Way -> Entry]]
  BY <1>1, <1>3 DEF BtbTypeOK, Write
<1>5. plru_r' \in [Set -> [0 .. 2 -> Bit]]
  BY <1>1, PlruTypes DEF BtbTypeOK, Write
<1> QED BY <1>4, <1>5 DEF BtbTypeOK

LEMMA EmptyType ==
  /\ [s \in Set |-> [w \in Way |-> Empty]] \in [Set -> [Way -> Entry]]
  /\ [s \in Set |-> [b \in 0 .. 2 |-> 0]] \in [Set -> [0 .. 2 -> Bit]]
<1>1. Empty \in Entry BY BtbSizes DEF Empty, Entry, Pc
<1> QED BY <1>1 DEF Bit

(* A training writes one way: one that already held the address, or, if no *)
(* way did, the victim.                                                    *)
LEMMA TrainWrites ==
  ASSUME BtbTypeOK, NEW pc \in Pc, NEW target, NEW type,
         TrainHit(pc, target, type) \/ TrainMiss(pc, target, type)
  PROVE  \E w \in Way :
           /\ Write(pc, w, target, type)
           /\ w \in Matches(Index(pc), Tag(pc))
                \/ Matches(Index(pc), Tag(pc)) = {}
<1>1. Index(pc) \in Set BY AddressTypes
<1>2. PlruVictim(plru_r[Index(pc)]) \in Way
  BY <1>1, PlruTypes DEF BtbTypeOK, Way
<1>3. Matches(Index(pc), Tag(pc)) \subseteq Way BY DEF Matches
<1> QED BY <1>2, <1>3 DEF TrainHit, TrainMiss

LEMMA WriteUnique ==
  ASSUME BtbTypeOK, UniqueEntry, NEW pc \in Pc, NEW target, NEW type \in Type,
         NEW w \in Way, Write(pc, w, target, type),
         w \in Matches(Index(pc), Tag(pc)) \/ Matches(Index(pc), Tag(pc)) = {}
  PROVE  UniqueEntry'
<1> DEFINE new == [valid |-> TRUE, tag |-> Tag(pc), target |-> Stored(target),
                   type |-> type]
<1>1. Index(pc) \in Set BY AddressTypes
<1>2. \A s \in Set, v \in Way :
        way_r'[s][v] = IF s = Index(pc) /\ v = w THEN new ELSE way_r[s][v]
  BY <1>1 DEF Write, BtbTypeOK
<1>3. \A v \in Way : way_r[Index(pc)][v].valid
                       /\ way_r[Index(pc)][v].tag = Tag(pc) => v = w
  BY <1>1 DEF Matches, UniqueEntry
<1>4. ASSUME NEW s \in Set, NEW u \in Way, NEW v \in Way,
             way_r'[s][u].valid, way_r'[s][v].valid,
             way_r'[s][u].tag = way_r'[s][v].tag
      PROVE  u = v
  BY <1>2, <1>3, <1>4 DEF UniqueEntry
<1>5. \A s \in Set, v \in Way : way_r'[s][v].valid => way_r'[s][v].type # 0
  BY <1>2 DEF UniqueEntry, Type
<1> QED BY <1>4, <1>5 DEF UniqueEntry

(* The fields keep their widths, and no address ever occupies two ways of  *)
(* its set: the last match that training rewrites is the first match that  *)
(* a lookup answers with.                                                  *)
BtbInv == BtbTypeOK /\ UniqueEntry

LEMMA BtbInductive == BtbSpec => []BtbInv
<1>1. BtbInit => BtbInv
  BY EmptyType DEF BtbInit, BtbInv, BtbTypeOK, UniqueEntry, Empty
<1>2. BtbInv /\ [BtbNext]_btbVars => BtbInv'
  <2> SUFFICES ASSUME BtbInv, [BtbNext]_btbVars PROVE BtbInv'
    OBVIOUS
  <2>1. ASSUME NEW pc \in Pc, NEW target \in 0 .. WordSize - 1,
               NEW type \in Type,
               TrainHit(pc, target, type) \/ TrainMiss(pc, target, type)
        PROVE  BtbInv'
    BY <2>1, TrainWrites, WriteType, WriteUnique DEF BtbInv
  <2>2. CASE BtbReset
    BY <2>2, EmptyType DEF BtbReset, BtbInv, BtbTypeOK, UniqueEntry, Empty
  <2>3. CASE UNCHANGED btbVars
    BY <2>3 DEF btbVars, BtbInv, BtbTypeOK, UniqueEntry
  <2> QED BY <2>1, <2>2, <2>3 DEF BtbNext
<1> QED BY <1>1, <1>2, PTL DEF BtbSpec

(* Whatever is trained in whatever order, the buffer's fields keep their   *)
(* widths.                                                                 *)
THEOREM BtbTypeCorrect == BtbSpec => []BtbTypeOK
  BY BtbInductive, PTL DEF BtbInv

(* No address ever has two entries, in any number of sets.                 *)
THEOREM EntriesUnique == BtbSpec => []UniqueEntry
  BY BtbInductive, PTL DEF BtbInv

-----------------------------------------------------------------------------
(* The buffer implements the lossy map.                                    *)

(* Way w of the set of a holds a.                                          *)
Holds(w, a) == /\ way_r[Index(a)][w].valid
               /\ way_r[Index(a)][w].tag = Tag(a)

Content(w, a) == [target |-> way_r[Index(a)][w].target,
                  type |-> way_r[Index(a)][w].type]

(* A lookup answers with the only way that holds the address, if any.      *)
AnswerIsContent ==
  \A a \in Pc :
    /\ \A w \in Way : Holds(w, a) => Answer(a) = Content(w, a)
    /\ (\A w \in Way : ~Holds(w, a)) => Answer(a) = NoEntry

LEMMA LookupLemma == BtbInv => AnswerIsContent
<1> SUFFICES ASSUME BtbInv, NEW a \in Pc
    PROVE  /\ \A w \in Way : Holds(w, a) => Answer(a) = Content(w, a)
           /\ (\A w \in Way : ~Holds(w, a)) => Answer(a) = NoEntry
  BY DEF AnswerIsContent
<1>1. Index(a) \in Set BY AddressTypes
<1>2. Hits(a) = {w \in Way : Holds(w, a)}
  BY <1>1 DEF Hits, Matches, Holds, BtbInv, UniqueEntry
<1>3. ASSUME NEW w \in Way, Holds(w, a) PROVE Answer(a) = Content(w, a)
  <2>1. Hits(a) = {w}
    BY <1>1, <1>2, <1>3 DEF Holds, BtbInv, UniqueEntry
  <2>2. LookupWay(a) = w BY <2>1 DEF LookupWay, Way
  <2> QED BY <2>1, <2>2
          DEF Answer, Content, BranchHit, LookupTarget, LookupType
<1>4. ASSUME \A w \in Way : ~Holds(w, a) PROVE Answer(a) = NoEntry
  BY <1>2, <1>4 DEF Answer, BranchHit
<1> QED BY <1>3, <1>4

(* Writing the way of pc changes the answers as the lossy map says.        *)
Recorded(pc, value) ==
  \E e \in {x \in Pc : x = pc \/ SameSet(pc, x)} :
    answers' = [answers EXCEPT ![e] = NoEntry, ![pc] = value]

LEMMA WriteRecords ==
  ASSUME BtbInv, BtbInv', NEW pc \in Pc,
         NEW target \in 0 .. WordSize - 1, NEW type \in Type, NEW w \in Way,
         Write(pc, w, target, type),
         w \in Matches(Index(pc), Tag(pc)) \/ Matches(Index(pc), Tag(pc)) = {}
  PROVE  Recorded(pc, [target |-> Stored(target), type |-> type])
<1>1. AnswerIsContent /\ AnswerIsContent'
  <2>1. AnswerIsContent BY LookupLemma
  <2>2. AnswerIsContent' BY LookupLemma, PTL
  <2> QED BY <2>1, <2>2
<1>2. \A a \in Pc : Index(a) \in Set BY AddressTypes
<1> DEFINE new == [valid |-> TRUE, tag |-> Tag(pc), target |-> Stored(target),
                   type |-> type]
<1>3. \A s \in Set, v \in Way :
        way_r'[s][v] = IF s = Index(pc) /\ v = w THEN new ELSE way_r[s][v]
  BY <1>2 DEF Write, BtbInv, BtbTypeOK
<1>4. \A v \in Way \ {w} : ~Holds(v, pc)
  BY <1>2 DEF Matches, Holds, BtbInv, UniqueEntry
(* The trained address hits with what it was trained with.                 *)
<1>5. Answer(pc)' = [target |-> Stored(target), type |-> type]
  <2>1. way_r'[Index(pc)][w] = new BY <1>2, <1>3
  <2>2. Holds(w, pc)' BY <2>1 DEF Holds
  <2>3. Answer(pc)' = Content(w, pc)' BY <1>1, <2>2 DEF AnswerIsContent
  <2> QED BY <2>1, <2>3 DEF Content
(* The other addresses keep their answers, but for the one way w held.     *)
<1>6. ASSUME NEW a \in Pc, a # pc
      PROVE  Answer(a)' = IF Index(a) = Index(pc) /\ Holds(w, a) THEN NoEntry
                          ELSE Answer(a)
  <2>1. Index(a) = Index(pc) => Tag(a) # Tag(pc)
    BY <1>6, AddressIdentity
  <2>2. \A v \in Way : Holds(v, a)' <=>
          Holds(v, a) /\ ~(Index(a) = Index(pc) /\ v = w)
    BY <1>2, <1>3, <2>1 DEF Holds
  <2>3. \A v \in Way : Holds(v, a)' => Content(v, a)' = Content(v, a)
    BY <1>2, <1>3, <2>2 DEF Content
  <2>4. CASE Index(a) = Index(pc) /\ Holds(w, a)
    <3>1. \A v \in Way : Holds(v, a) => v = w
      BY <1>2, <2>4 DEF Holds, BtbInv, UniqueEntry
    <3> QED BY <1>1, <2>2, <2>4, <3>1 DEF AnswerIsContent
  <2>5. CASE ~(Index(a) = Index(pc) /\ Holds(w, a))
    <3>1. \A v \in Way : Holds(v, a)' <=> Holds(v, a) BY <2>2, <2>5
    <3> QED BY <1>1, <2>3, <2>5, <3>1 DEF AnswerIsContent
  <2> QED BY <2>4, <2>5
<1>7. PICK e \in Pc :
        /\ e = pc \/ SameSet(pc, e)
        /\ \A a \in Pc \ {pc, e} : Answer(a)' = Answer(a)
        /\ e # pc => Answer(e)' = NoEntry
  <2>1. CASE \E a \in Pc \ {pc} : Index(a) = Index(pc) /\ Holds(w, a)
    <3>1. PICK a \in Pc \ {pc} : Index(a) = Index(pc) /\ Holds(w, a)
      BY <2>1
    <3>2. ASSUME NEW c \in Pc \ {pc}, Index(c) = Index(pc), Holds(w, c)
          PROVE  c = a
      BY <3>1, <3>2, AddressIdentity DEF Holds
    <3> QED BY <1>6, <3>1, <3>2 DEF SameSet
  <2>2. CASE ~\E a \in Pc \ {pc} : Index(a) = Index(pc) /\ Holds(w, a)
    BY <1>6, <2>2
  <2> QED BY <2>1, <2>2
<1>8. answers' = [answers EXCEPT ![e] = NoEntry,
                   ![pc] = [target |-> Stored(target), type |-> type]]
  BY <1>5, <1>7 DEF answers
<1> QED BY <1>7, <1>8 DEF Recorded

LEMMA ResetForgets ==
  (BtbInv' /\ \A s \in Set, w \in Way : ~way_r'[s][w].valid)
    => answers' = [pc \in Pc |-> NoEntry]
<1> SUFFICES ASSUME BtbInv', \A s \in Set, w \in Way : ~way_r'[s][w].valid
    PROVE  answers' = [pc \in Pc |-> NoEntry]
  OBVIOUS
<1>1. AnswerIsContent' BY LookupLemma, PTL
<1>2. ASSUME NEW a \in Pc PROVE Answer(a)' = NoEntry
  BY <1>1, AddressTypes DEF AnswerIsContent, Holds
<1> QED BY <1>2 DEF answers

LEMMA InitMisses == LatestInit => Abstract!Init
<1> SUFFICES ASSUME LatestInit PROVE Abstract!Init
  OBVIOUS
<1>1. ASSUME NEW a \in Pc PROVE Answer(a) = NoEntry
  BY AddressTypes DEF LatestInit, RecentInit, BtbInit, Answer, BranchHit, Hits,
                      Matches, Empty
<1> QED BY <1>1 DEF Abstract!Init, answers, LatestInit

(* The trainings explored are trainings of the buffer.                     *)
LEMMA LatestRefinesBtb == LatestSpec => BtbSpec
<1>1. LatestInit => BtbInit
  BY DEF LatestInit, RecentInit
<1>2. [LatestNext]_latestVars => [BtbNext]_btbVars
  <2> SUFFICES ASSUME [LatestNext]_latestVars PROVE [BtbNext]_btbVars
    OBVIOUS
  <2>1. ASSUME NEW t \in Trainings,
               \/ LatestTrainHit(t[1], t[2], t[3])
               \/ LatestTrainMiss(t[1], t[2], t[3])
        PROVE  BtbNext
    <3>1. t[1] \in Pc /\ t[2] \in 0 .. WordSize - 1 /\ t[3] \in Type
      BY TrainingsAssumption
    <3>2. TrainHit(t[1], t[2], t[3]) \/ TrainMiss(t[1], t[2], t[3])
      BY <2>1 DEF LatestTrainHit, LatestTrainMiss, RecentTrainHit,
                  RecentTrainMiss
    <3> QED BY <3>1, <3>2 DEF BtbNext
  <2>2. CASE LatestReset
    BY <2>2 DEF LatestReset, RecentReset, BtbNext
  <2>3. CASE UNCHANGED latestVars
    BY <2>3 DEF latestVars, btbVars
  <2> QED BY <2>1, <2>2, <2>3 DEF LatestNext
<1> QED BY <1>1, <1>2, PTL DEF LatestSpec, BtbSpec

(* After a training of any address with any target and type, a lookup of   *)
(* that address answers with that target and type; the buffer never        *)
(* answers with the record of another address or with an outdated one, and *)
(* forgets at most one other address of the same set at a time, for every  *)
(* number of sets and every set of trainings.                              *)
THEOREM BtbImplementation == LatestSpec => ImplementsLossyMap
<1>1. BtbInv /\ BtbInv' /\ [LatestNext]_latestVars
        => [Abstract!Next]_<<latest, answers>>
  <2> SUFFICES ASSUME BtbInv, BtbInv', [LatestNext]_latestVars
      PROVE  Abstract!Next \/ UNCHANGED <<latest, answers>>
    OBVIOUS
  <2>1. ASSUME NEW t \in Trainings,
               \/ LatestTrainHit(t[1], t[2], t[3])
               \/ LatestTrainMiss(t[1], t[2], t[3])
        PROVE  Abstract!Next
    <3> DEFINE value == [target |-> Stored(t[2]), type |-> t[3]]
    <3>1. t[1] \in Pc /\ t[2] \in 0 .. WordSize - 1 /\ t[3] \in Type
      BY TrainingsAssumption
    <3>2. TrainHit(t[1], t[2], t[3]) \/ TrainMiss(t[1], t[2], t[3])
      BY <2>1 DEF LatestTrainHit, LatestTrainMiss, RecentTrainHit,
                  RecentTrainMiss
    <3>3. Recorded(t[1], value)
      BY <3>1, <3>2, TrainWrites, WriteRecords DEF BtbInv
    <3>4. latest' = <<t[1], value>>
      BY <2>1 DEF LatestTrainHit, LatestTrainMiss, Request
    <3>5. value \in [target : Pc, type : Type]
      BY <3>1, StoredType
    <3>6. Abstract!Record(t[1], value)
      BY <3>3, <3>4 DEF Abstract!Record, Recorded
    <3> QED BY <3>1, <3>5, <3>6 DEF Abstract!Next
  <2>2. CASE LatestReset
    <3>1. answers' = [pc \in Pc |-> NoEntry]
      BY <2>2, ResetForgets DEF LatestReset, RecentReset, BtbReset, Empty
    <3> QED BY <2>2, <3>1 DEF LatestReset, Abstract!Next, Abstract!Forget
  <2>3. CASE UNCHANGED latestVars
    <3>1. \A a \in Pc : Answer(a)' = Answer(a)
      BY <2>3 DEF latestVars, Answer, BranchHit, LookupTarget, LookupType,
                  LookupWay, Hits, Matches
    <3> QED BY <2>3, <3>1 DEF answers, latestVars
  <2> QED BY <2>1, <2>2, <2>3 DEF LatestNext
<1> QED BY <1>1, InitMisses, LatestRefinesBtb, BtbInductive, PTL
        DEF LatestSpec, ImplementsLossyMap, Abstract!Spec

-----------------------------------------------------------------------------
(* The replacement policy.                                                 *)

(* What the tree does, for all its bits and ways.                          *)
LEMMA TreeLemma ==
  ASSUME NEW bits \in [0 .. 2 -> Bit], NEW w \in Way, NEW v \in Way
  PROVE  /\ Protected(PlruAfterAccess(bits, w), w)
         /\ Protected(bits, w) => PlruVictim(bits) # w
         /\ Kept(bits, w, v) => PlruVictim(bits) \notin {w, v}
         /\ Protected(bits, w) /\ v # w =>
              Kept(PlruAfterAccess(bits, v), v, w)
         /\ Kept(bits, w, v) => Kept(PlruAfterAccess(bits, w), w, v)
<1>1. bits[0] \in {0, 1} /\ bits[1] \in {0, 1} /\ bits[2] \in {0, 1}
  BY DEF Bit
<1>2. w \in {0, 1, 2, 3} /\ v \in {0, 1, 2, 3}
  BY DEF Way
<1>3. \A x \in {0, 1, 2, 3} :
        /\ PlruAfterAccess(bits, x)[2] = IF x \in {0, 1} THEN 1 ELSE 0
        /\ PlruAfterAccess(bits, x)[1] = IF x \in {0, 1} THEN 1 - x
                                         ELSE bits[1]
        /\ PlruAfterAccess(bits, x)[0] = IF x \in {0, 1} THEN bits[0]
                                         ELSE 3 - x
  <2> SUFFICES ASSUME NEW x \in {0, 1, 2, 3}
               PROVE  /\ PlruAfterAccess(bits, x)[2]
                            = IF x \in {0, 1} THEN 1 ELSE 0
                      /\ PlruAfterAccess(bits, x)[1]
                            = IF x \in {0, 1} THEN 1 - x ELSE bits[1]
                      /\ PlruAfterAccess(bits, x)[0]
                            = IF x \in {0, 1} THEN bits[0] ELSE 3 - x
    OBVIOUS
  <2>1. CASE x = 0
    BY <2>1 DEF PlruAfterAccess
  <2>2. CASE x = 1
    BY <2>2 DEF PlruAfterAccess
  <2>3. CASE x = 2
    BY <2>3 DEF PlruAfterAccess
  <2>4. CASE x = 3
    BY <2>4 DEF PlruAfterAccess
  <2> QED BY <2>1, <2>2, <2>3, <2>4
<1>4. Protected(PlruAfterAccess(bits, w), w)
  BY <1>2, <1>3 DEF Protected, LeafAway, Side
<1>5. Protected(bits, w) => PlruVictim(bits) # w
  BY <1>1, <1>2 DEF PlruVictim, Protected, LeafAway, Side
<1>6. Kept(bits, w, v) => PlruVictim(bits) \notin {w, v}
  BY <1>1, <1>2 DEF PlruVictim, Kept, Protected, LeafAway, Side
<1>7. Protected(bits, w) /\ v # w => Kept(PlruAfterAccess(bits, v), v, w)
  BY <1>1, <1>2, <1>3 DEF Kept, Protected, LeafAway, Side
<1>8. Kept(bits, w, v) => Kept(PlruAfterAccess(bits, w), w, v)
  BY <1>1, <1>2, <1>3 DEF Kept, Protected, LeafAway, Side
<1> QED BY <1>4, <1>5, <1>6, <1>7, <1>8

(* A training keeps the history true: the way written is the one that held *)
(* the address, or one that neither of the last two is in.                 *)
LEMMA TrainingKeepsRecent ==
  ASSUME BtbInv, RecentInv, NEW pc \in Pc, NEW target, NEW type,
         TrainHit(pc, target, type) \/ TrainMiss(pc, target, type),
         Remember(pc)
  PROVE  RecentInv'
<1> DEFINE s == Index(pc)
           Held(a, w) == HeldAt(s, a, w)
<1>0. PICK bits, first, second, third :
        /\ plru_r[s] = bits
        /\ recent[s].first = first /\ recent[s].second = second
        /\ recent[s].third = third
  OBVIOUS
<1>1. s \in Set /\ bits \in [0 .. 2 -> Bit]
  BY <1>0, AddressTypes DEF BtbInv, BtbTypeOK
<1>2. PICK x \in Way :
        /\ Write(pc, x, target, type)
        /\ \/ Held(pc, x)
           \/ x = PlruVictim(bits) /\ \A w \in Way : ~Held(pc, w)
  <2>1. PlruVictim(bits) \in Way
    BY <1>1, PlruTypes DEF Way
  <2>2. Matches(s, Tag(pc)) = {w \in Way : Held(pc, w)}
    BY DEF Matches, HeldAt
  <2> QED BY <1>0, <2>1, <2>2 DEF TrainHit, TrainMiss
<1>3. /\ \A r \in Set \ {s} : /\ recent'[r] = recent[r]
                              /\ way_r'[r] = way_r[r]
                              /\ plru_r'[r] = plru_r[r]
      /\ recent'[s] = Push(pc, recent[s])
      /\ plru_r'[s] = PlruAfterAccess(bits, x)
      /\ \A w \in Way \ {x} : way_r'[s][w] = way_r[s][w]
      /\ way_r'[s][x].valid /\ way_r'[s][x].tag = Tag(pc)
      /\ DOMAIN recent' = Set
  BY <1>0, <1>1, <1>2 DEF Remember, Write, BtbInv, BtbTypeOK, RecentInv
<1>4. HeldAt(s, pc, x)'
  BY <1>3 DEF HeldAt
<1>5. \A a, w : w \in Way \ {x} /\ Held(a, w) => HeldAt(s, a, w)'
  BY <1>3 DEF HeldAt
(* A way that held the address of the training held no other.              *)
<1>6. \A a : Held(pc, x) /\ Held(a, x) => a = pc
  BY AddressIdentity DEF HeldAt
<1>7. \A w, v \in Way : \A a : Held(a, w) /\ Held(a, v) => w = v
  BY <1>1 DEF HeldAt, BtbInv, UniqueEntry
<1>8. FirstInv(s) /\ SecondInv(s) /\ ThirdInv(s)
  BY <1>1 DEF RecentInv
<1>9. pc # NoPc
  BY BtbSizes DEF Pc, NoPc
<1> HIDE DEF s
<1>10. FirstInv(s)'
  <2>1. Protected(PlruAfterAccess(bits, x), x)
    BY <1>1, TreeLemma
  <2> QED BY <1>3, <1>4, <2>1 DEF FirstInv, Push, s
<1>11. SecondInv(s)'
  <2>1. CASE pc = first
    <3> SUFFICES ASSUME second # NoPc
                 PROVE  \E w, v \in Way :
                          /\ HeldAt(s, pc, w)' /\ HeldAt(s, second, v)'
                          /\ Kept(PlruAfterAccess(bits, x), w, v)
      BY <1>0, <1>3, <2>1 DEF SecondInv, Push, s
    <3>1. PICK w, v \in Way :
            Held(pc, w) /\ Held(second, v) /\ Kept(bits, w, v)
      BY <1>0, <1>8, <2>1 DEF SecondInv
    <3>2. x = w
      BY <1>2, <1>7, <3>1
    <3>3. v # x
      BY <3>1, <3>2 DEF Kept
    <3> QED BY <1>1, <1>4, <1>5, <3>1, <3>2, <3>3, TreeLemma
  <2>2. CASE pc # first
    <3> SUFFICES ASSUME first # NoPc
                 PROVE  \E w, v \in Way :
                          /\ HeldAt(s, pc, w)' /\ HeldAt(s, first, v)'
                          /\ Kept(PlruAfterAccess(bits, x), w, v)
      BY <1>0, <1>3, <2>2 DEF SecondInv, Push, s
    <3>1. PICK w \in Way : Held(first, w) /\ Protected(bits, w)
      BY <1>0, <1>8 DEF FirstInv
    <3>2. x # w
      BY <1>1, <1>2, <1>6, <2>2, <3>1, TreeLemma
    <3> QED BY <1>1, <1>4, <1>5, <3>1, <3>2, TreeLemma
  <2> QED BY <2>1, <2>2
<1>12. ThirdInv(s)'
  <2>1. CASE pc \in {first, second}
    <3> SUFFICES ASSUME third # NoPc
                 PROVE  \E u \in Way : HeldAt(s, third, u)'
      BY <1>0, <1>3, <2>1 DEF ThirdInv, Push, s
    <3>1. PICK u \in Way : Held(third, u)
      BY <1>0, <1>8 DEF ThirdInv
    <3>2. \E w \in Way : Held(pc, w)
      BY <1>0, <1>8, <1>9, <2>1 DEF FirstInv, SecondInv
    <3>3. Held(pc, x)
      BY <1>2, <3>2
    <3> QED BY <1>4, <1>5, <1>6, <3>1, <3>3
  <2>2. CASE pc \notin {first, second}
    <3> SUFFICES ASSUME second # NoPc
                 PROVE  \E u \in Way : HeldAt(s, second, u)'
      BY <1>0, <1>3, <2>2 DEF ThirdInv, Push, s
    <3>1. PICK w, v \in Way :
            Held(first, w) /\ Held(second, v) /\ Kept(bits, w, v)
      BY <1>0, <1>8 DEF SecondInv
    <3>2. x # v
      BY <1>1, <1>2, <1>6, <2>2, <3>1, TreeLemma
    <3> QED BY <1>5, <3>1, <3>2
  <2> QED BY <2>1, <2>2
<1>13. \A r \in Set \ {s} : FirstInv(r)' /\ SecondInv(r)' /\ ThirdInv(r)'
  <2> SUFFICES ASSUME NEW r \in Set \ {s}
               PROVE  FirstInv(r)' /\ SecondInv(r)' /\ ThirdInv(r)'
    OBVIOUS
  <2>1. FirstInv(r) /\ SecondInv(r) /\ ThirdInv(r)
    BY DEF RecentInv
  <2>2. \A a, w : HeldAt(r, a, w)' <=> HeldAt(r, a, w)
    BY <1>3 DEF HeldAt
  <2> QED BY <1>3, <2>1, <2>2 DEF FirstInv, SecondInv, ThirdInv
<1> QED BY <1>3, <1>10, <1>11, <1>12, <1>13 DEF RecentInv

LEMMA HeldHits ==
  ASSUME BtbInv, NEW s \in Set, NEW pc, NEW w \in Way, HeldAt(s, pc, w)
  PROVE  BranchHit(pc)
BY DEF HeldAt, BtbInv, UniqueEntry, BranchHit, Hits, Matches

LEMMA RecentInductive == RecentSpec => [](BtbInv /\ RecentInv)
<1>1. RecentInit => BtbInv /\ RecentInv
  BY EmptyType
     DEF RecentInit, BtbInit, BtbInv, BtbTypeOK, UniqueEntry, Empty,
         RecentInv, FirstInv, SecondInv, ThirdInv, NoneRecent
<1>2. BtbInv /\ RecentInv /\ [RecentNext]_<<way_r, plru_r, recent>>
        => (BtbInv /\ RecentInv)'
  <2> SUFFICES ASSUME BtbInv, RecentInv,
                      [RecentNext]_<<way_r, plru_r, recent>>
               PROVE  BtbInv' /\ RecentInv'
    OBVIOUS
  <2>1. ASSUME NEW t \in Trainings,
               \/ RecentTrainHit(t[1], t[2], t[3])
               \/ RecentTrainMiss(t[1], t[2], t[3])
        PROVE  BtbInv' /\ RecentInv'
    <3>1. t[1] \in Pc /\ t[2] \in 0 .. WordSize - 1 /\ t[3] \in Type
      BY TrainingsAssumption
    <3>2. /\ TrainHit(t[1], t[2], t[3]) \/ TrainMiss(t[1], t[2], t[3])
          /\ Remember(t[1])
      BY <2>1 DEF RecentTrainHit, RecentTrainMiss
    <3> QED BY <3>1, <3>2, TrainWrites, WriteType, WriteUnique,
               TrainingKeepsRecent DEF BtbInv
  <2>2. CASE RecentReset
    BY <2>2, EmptyType
       DEF RecentReset, BtbReset, BtbInv, BtbTypeOK, UniqueEntry, Empty,
           RecentInv, FirstInv, SecondInv, ThirdInv, NoneRecent
  <2>3. CASE UNCHANGED <<way_r, plru_r, recent>>
    BY <2>3 DEF BtbInv, BtbTypeOK, UniqueEntry, RecentInv, FirstInv, SecondInv,
                ThirdInv, HeldAt
  <2> QED BY <2>1, <2>2, <2>3 DEF RecentNext
<1> QED BY <1>1, <1>2, PTL DEF RecentSpec

(* The three addresses of a set that were trained last are never evicted,  *)
(* for every number of sets and addresses.                                 *)
THEOREM RecentAlwaysHit == RecentSpec => []RecentHit
<1>1. BtbInv /\ RecentInv => RecentHit
  <2> SUFFICES ASSUME BtbInv, RecentInv, NEW s \in Set,
                      NEW pc \in {recent[s].first, recent[s].second,
                                  recent[s].third},
                      pc # NoPc
               PROVE  BranchHit(pc)
    BY DEF RecentHit
  <2>1. \E w \in Way : HeldAt(s, pc, w)
    BY DEF RecentInv, FirstInv, SecondInv, ThirdInv
  <2> QED BY <2>1, HeldHits
<1> QED BY <1>1, RecentInductive, PTL

-----------------------------------------------------------------------------
(* A branch that keeps its direction.                                      *)

Powers ==
  {power \in [0 .. HistoryBits -> 1 .. GhrSize] :
     /\ power[0] = 1 /\ power[HistoryBits] = GhrSize
     /\ \A k \in 0 .. HistoryBits - 1 : power[k + 1] = 2 * power[k]}

(* 2^k, for every k up to HistoryBits.                                     *)
Power == CHOOSE power \in Powers : TRUE

LEMMA PowerFacts ==
  /\ HistoryBits \in Nat /\ HistoryBits > 0 /\ GhrSize \in Nat /\ GhrSize > 1
  /\ Power \in [0 .. HistoryBits -> 1 .. GhrSize]
  /\ Power[0] = 1 /\ Power[HistoryBits] = GhrSize
  /\ \A k \in 0 .. HistoryBits - 1 : Power[k + 1] = 2 * Power[k]
<1>1. Powers # {} BY WidthAssumption DEF Powers
<1>2. Power \in Powers BY <1>1 DEF Power
<1> QED BY <1>2, WidthAssumption, BpuSizes DEF Powers

(* Every smaller power divides the number of histories.                    *)
LEMMA PowersDivide ==
  ASSUME NEW k \in 0 .. HistoryBits
  PROVE  \E m \in Nat : GhrSize = m * Power[k]
<1> DEFINE Divides(j) == \E m \in Nat : GhrSize = m * Power[HistoryBits - j]
           U == {j \in Nat : j <= HistoryBits /\ ~Divides(j)}
<1>1. SUFFICES U = {}
  <2>1. HistoryBits - k \in Nat /\ HistoryBits - k <= HistoryBits
        /\ HistoryBits - (HistoryBits - k) = k
    BY PowerFacts
  <2> QED BY <1>1, <2>1
<1> SUFFICES ASSUME U # {} PROVE FALSE
  OBVIOUS
<1>2. \E j \in U : \A i \in U : ~(<<i, j>> \in OpToRel(<, Nat))
  BY NatLessThanWellFounded, WFMin
<1>3. PICK j \in U : \A i \in U : ~(i < j)
  BY <1>2 DEF OpToRel
<1>4. j # 0
  <2>1. GhrSize = 1 * Power[HistoryBits - 0] BY PowerFacts
  <2> QED BY <1>3, <2>1
<1>5. j - 1 \in Nat /\ j - 1 <= HistoryBits /\ j - 1 < j BY <1>3, <1>4, PowerFacts
<1>6. Divides(j - 1) BY <1>3, <1>5
<1>7. PICK m \in Nat : GhrSize = m * Power[HistoryBits - (j - 1)] BY <1>6
<1>8. HistoryBits - j \in 0 .. HistoryBits - 1 /\ HistoryBits - (j - 1) = (HistoryBits - j) + 1
  BY <1>3, <1>4, PowerFacts
<1>9. Power[HistoryBits - (j - 1)] = 2 * Power[HistoryBits - j] BY <1>8, PowerFacts
<1>10. PICK p \in Nat : p = Power[HistoryBits - j] BY <1>8, PowerFacts
<1>11. GhrSize = (2 * m) * p /\ 2 * m \in Nat BY <1>7, <1>9, <1>10
<1> QED BY <1>3, <1>10, <1>11

Outcome(taken) == IF taken THEN 1 ELSE 0

Ones(taken, power) == IF taken THEN power - 1 ELSE 0

(* The latest k outcomes in history g are all taken.                       *)
LastOutcomes(g, k, taken) ==
  \E q \in Nat : g = q * Power[k] + Ones(taken, Power[k])

LEMMA NoOutcomes ==
  ASSUME NEW g \in History, NEW taken \in BOOLEAN
  PROVE  LastOutcomes(g, 0, taken)
<1>1. g \in Nat /\ g = g * 1 + 0 BY PowerFacts DEF History
<1> QED BY <1>1, PowerFacts DEF LastOutcomes, Ones

LEMMA MoreOutcomes ==
  ASSUME NEW g \in History, NEW k \in 0 .. HistoryBits, NEW taken \in BOOLEAN,
         LastOutcomes(g, k, taken),
         NEW h, h = (2 * g + Outcome(taken)) % GhrSize
  PROVE  /\ h \in History
         /\ k < HistoryBits => LastOutcomes(h, k + 1, taken)
         /\ k = HistoryBits => h = g
<1>1. g \in Nat /\ g < GhrSize /\ Outcome(taken) \in {0, 1} /\ GhrSize \in Nat \ {0}
  BY PowerFacts DEF History, Outcome
<1> DEFINE n == 2 * g + Outcome(taken)
<1>2. n \in Nat /\ n < 2 * GhrSize BY <1>1
<1>3. h \in History /\ h = (IF n < GhrSize THEN n ELSE n - GhrSize)
  <2> HIDE DEF n
  <2>1. CASE n < GhrSize BY <1>1, <1>2, <2>1 DEF History, n
  <2>2. CASE ~(n < GhrSize)
    <3>1. n - GhrSize \in 0 .. GhrSize - 1 BY <1>1, <1>2, <2>2
    <3>2. n % GhrSize = n - GhrSize
      <4>1. PICK d \in Int, r \in 0 .. GhrSize - 1 :
              n = GhrSize * d + r /\ n % GhrSize = r
        <5>1. n \in Nat /\ GhrSize \in Nat /\ GhrSize > 0 BY <1>1, <1>2
        <5>2. n \div GhrSize \in Int BY <5>1
        <5>3. n % GhrSize \in 0 .. GhrSize - 1 BY <5>1
        <5>4. n = GhrSize * (n \div GhrSize) + (n % GhrSize) BY <5>1
        <5> QED BY <5>2, <5>3, <5>4
      <4>2. CASE d <= 0
        <5>1. GhrSize * d <= 0 BY <1>1, <4>2
        <5> QED BY <1>1, <2>2, <4>1, <5>1
      <4>3. CASE d >= 2
        <5>1. GhrSize * d >= 2 * GhrSize BY <1>1, <4>3
        <5> QED BY <1>1, <1>2, <4>1, <5>1
      <4>4. CASE d = 1 BY <1>1, <4>1, <4>4
      <4> QED BY <4>2, <4>3, <4>4
    <3> QED BY <2>2, <3>1, <3>2 DEF History, n
  <2> QED BY <2>1, <2>2
<1>4. PICK q \in Nat : g = q * Power[k] + Ones(taken, Power[k])
  BY DEF LastOutcomes
<1>5. PICK p \in Nat : p = Power[k] /\ p > 0 BY PowerFacts
<1>6. n = q * (2 * p) + Ones(taken, 2 * p)
  <2>1. PICK z \in Nat : z = q * p OBVIOUS
  <2>2. q * (2 * p) = 2 * z BY <2>1
  <2>3. g = z + Ones(taken, p) BY <1>4, <1>5, <2>1
  <2> QED BY <1>5, <2>2, <2>3 DEF Ones, Outcome
<1>7. ASSUME k < HistoryBits PROVE LastOutcomes(h, k + 1, taken)
  <2>1. Power[k + 1] = 2 * p /\ k + 1 \in 0 .. HistoryBits BY <1>5, <1>7, PowerFacts
  <2>2. PICK r \in Nat : r = 2 * p /\ r > 0 /\ Power[k + 1] = r BY <1>5, <2>1
  <2>3. PICK m \in Nat : GhrSize = m * r BY <2>1, <2>2, PowersDivide
  <2>4. CASE n < GhrSize BY <1>3, <1>6, <2>2, <2>4 DEF LastOutcomes
  <2>5. CASE ~(n < GhrSize)
    <3>1. h = (q - m) * r + Ones(taken, r)
      BY <1>3, <1>6, <2>2, <2>3, <2>5 DEF Ones
    <3>2. q - m \in Nat
      <4> SUFFICES ASSUME q < m PROVE FALSE
        OBVIOUS
      <4>1. (q + 1) * r <= m * r BY <2>2
      <4>2. n < (q + 1) * r BY <1>6, <2>2 DEF Ones
      <4> QED BY <1>2, <2>3, <2>5, <4>1, <4>2
    <3> QED BY <2>2, <3>1, <3>2 DEF LastOutcomes
  <2> QED BY <2>4, <2>5
<1>8. ASSUME k = HistoryBits PROVE h = g
  <2>1. p = GhrSize BY <1>5, <1>8, PowerFacts
  <2>2. q = 0
    <3> SUFFICES ASSUME q >= 1 PROVE FALSE
      OBVIOUS
    <3>1. q * p >= p BY <1>5
    <3> QED BY <1>1, <1>4, <1>5, <2>1, <3>1 DEF Ones
  <2>3. g = Ones(taken, p) BY <1>4, <1>5, <2>2 DEF Ones
  <2> QED BY <1>1, <1>3, <1>5, <2>1, <2>3 DEF Ones, Outcome
<1> QED BY <1>3, <1>7, <1>8

(* The entry of an address has the type of its instruction.                *)
TypesInv ==
  \A t \in Trainings, w \in Way :
    HeldAt(Index(t[1]), t[1], w) => way_r[Index(t[1])][w].type = t[3]

(* The history fills with the outcomes of the branch.  From then on it     *)
(* stays as it is, so every outcome moves one and the same counter.        *)
Age == IF streak < HistoryBits THEN streak ELSE HistoryBits

CounterMoved ==
  LET count == branch_counter_r[BhtIndexOf(same.pc)]
  IN IF same.taken THEN count >= streak - HistoryBits
     ELSE count <= CounterSize - 1 - (streak - HistoryBits)

SettlingTypeOK ==
  /\ ghr_r \in History
  /\ branch_counter_r \in [BhtIndex -> Counter]
  /\ streak \in 0 .. Settling
  /\ streak > 0 => /\ same.taken \in BOOLEAN
                   /\ \E t \in Trainings : t[1] = same.pc /\ t[3] = 1

SettlingInv ==
  /\ BtbInv /\ RecentInv /\ TypesInv /\ SettlingTypeOK
  /\ streak > 0 => LastOutcomes(ghr_r, Age, same.taken)
  /\ streak >= HistoryBits => CounterMoved

LEMMA TrainingFacts ==
  ASSUME NEW t \in Trainings
  PROVE  /\ t[1] \in Pc /\ t[2] \in 0 .. WordSize - 1 /\ t[3] \in Type
         /\ Index(t[1]) \in Set /\ t[1] # NoPc
<1>1. t[1] \in Pc /\ t[2] \in 0 .. WordSize - 1 /\ t[3] \in Type
  BY TrainingsAssumption
<1> QED BY <1>1, AddressTypes, BtbSizes DEF Pc, NoPc

LEMMA BhtIndexType ==
  ASSUME ghr_r \in History, NEW pc \in Pc
  PROVE  BhtIndexOf(pc) \in BhtIndex
<1>1. PICK word \in BhtIndex : word = (pc \div 4) % BhtSize
  <2>1. pc \in Nat BY BtbSizes DEF Pc
  <2>2. pc \div 4 \in Nat BY <2>1
  <2>3. (pc \div 4) % BhtSize \in 0 .. BhtSize - 1 BY <2>2, BpuSizes
  <2> QED BY <2>3 DEF BhtIndex
<1>2. CASE ~GHR_ON BY <1>1, <1>2 DEF BhtIndexOf
<1>3. CASE GHR_ON
  <2>1. BhtSize % GhrSize = 0 /\ BhtSize \in Nat /\ GhrSize \in Nat /\ GhrSize > 0
    BY <1>3, BpuSizes
  <2>2. PICK m \in Int : BhtSize = GhrSize * m
    <3>1. BhtSize \div GhrSize \in Int BY <2>1
    <3>2. BhtSize = GhrSize * (BhtSize \div GhrSize) + (BhtSize % GhrSize) BY <2>1
    <3> QED BY <2>1, <3>1, <3>2
  <2>3. PICK q \in Int, r \in History : word = GhrSize * q + r /\ r = word % GhrSize
    <3>1. word \in Nat BY <1>1 DEF BhtIndex
    <3>2. word \div GhrSize \in Int BY <2>1, <3>1
    <3>3. word % GhrSize \in 0 .. GhrSize - 1 BY <2>1, <3>1
    <3>4. word = GhrSize * (word \div GhrSize) + (word % GhrSize) BY <2>1, <3>1
    <3> QED BY <3>2, <3>3, <3>4 DEF History
  <2>4. q + 1 <= m /\ q >= 0
    <3>1. CASE q >= m
      <4>1. GhrSize * q >= GhrSize * m BY <2>1, <3>1
      <4> QED BY <1>1, <2>1, <2>2, <2>3, <4>1 DEF BhtIndex, History
    <3>2. CASE q <= -1
      <4>1. GhrSize * q <= -GhrSize BY <2>1, <3>2
      <4> QED BY <1>1, <2>1, <2>3, <4>1 DEF BhtIndex, History
    <3> QED BY <3>1, <3>2
  <2>5. GhrSize * (q + 1) <= GhrSize * m /\ GhrSize * q >= 0 BY <2>1, <2>4
  <2>6. PICK x \in History : x = HistoryXor(ghr_r, r) BY XorAssumption
  <2>7. BhtIndexOf(pc) = word - r + x
    <3>1. BhtIndexOf(pc) = word - (word % GhrSize) + HistoryXor(ghr_r, word % GhrSize)
      BY <1>1, <1>3 DEF BhtIndexOf
    <3> QED BY <2>3, <2>6, <3>1
  <2>8. word - r + x = GhrSize * q + x
    <3>1. PICK z \in Int : z = GhrSize * q BY <2>1
    <3> QED BY <2>1, <2>3, <2>6, <3>1 DEF BhtIndex, History
  <2>9. GhrSize * q + x <= BhtSize - 1 /\ GhrSize * q + x >= 0
    BY <2>1, <2>2, <2>5, <2>6 DEF History
  <2> QED BY <2>1, <2>6, <2>7, <2>8, <2>9 DEF BhtIndex, History
<1> QED BY <1>2, <1>3

(* A training keeps what the buffer promises.                              *)
LEMMA TrainingKeepsTypes ==
  ASSUME BtbInv, RecentInv, TypesInv, NEW t \in Trainings,
         Train(t[1], t[2], t[3]), Remember(t[1])
  PROVE  BtbInv' /\ RecentInv' /\ TypesInv'
<1>1. PICK w \in Way : /\ Write(t[1], w, t[2], t[3])
                       /\ \/ w \in Matches(Index(t[1]), Tag(t[1]))
                          \/ Matches(Index(t[1]), Tag(t[1])) = {}
  BY TrainingFacts, TrainWrites DEF Train, BtbInv
<1>2. BtbInv' BY <1>1, TrainingFacts, WriteType, WriteUnique DEF BtbInv
<1>3. RecentInv' BY TrainingFacts, TrainingKeepsRecent DEF Train
<1>4. TypesInv'
  <2> SUFFICES ASSUME NEW u \in Trainings, NEW v \in Way,
                      HeldAt(Index(u[1]), u[1], v)'
               PROVE  way_r'[Index(u[1])][v].type = u[3]
    BY DEF TypesInv
  <2>1. \A s \in Set, x \in Way :
          way_r'[s][x] = IF s = Index(t[1]) /\ x = w
                         THEN [valid |-> TRUE, tag |-> Tag(t[1]),
                               target |-> Stored(t[2]), type |-> t[3]]
                         ELSE way_r[s][x]
    BY <1>1, TrainingFacts DEF Write, BtbInv, BtbTypeOK
  <2>2. Index(u[1]) \in Set BY TrainingFacts
  <2>3. CASE Index(u[1]) = Index(t[1]) /\ v = w
    <3>1. Tag(u[1]) = Tag(t[1]) BY <2>1, <2>2, <2>3 DEF HeldAt
    <3>2. u[1] = t[1] BY <2>3, <3>1, AddressIdentity, TrainingFacts
    <3> QED BY <2>1, <2>2, <2>3, <3>2, OneInstruction
  <2>4. CASE ~(Index(u[1]) = Index(t[1]) /\ v = w)
    BY <2>1, <2>2, <2>4 DEF HeldAt, TypesInv
  <2> QED BY <2>3, <2>4
<1> QED BY <1>2, <1>3, <1>4

LEMMA SizeFacts ==
  /\ HistoryBits \in Nat /\ HistoryBits > 0 /\ CounterSize \in Nat
  /\ CounterSize = 2 * (CounterSize \div 2) /\ CounterSize \div 2 \in Nat
  /\ CounterSize \div 2 > 0
  /\ Settling = HistoryBits + CounterSize \div 2 /\ Settling \in Nat
<1>1. CounterSize \in Nat /\ CounterSize > 1 BY BpuSizes
<1>2. CounterSize % 2 = 0 /\ HistoryBits \in Nat /\ HistoryBits > 0 BY WidthAssumption
<1>3. CounterSize = 2 * (CounterSize \div 2) /\ CounterSize \div 2 \in Nat BY <1>1, <1>2
<1> QED BY <1>1, <1>2, <1>3 DEF Settling

(* The same of the next state.                                             *)
LEMMA IndexTypeLater ==
  (ghr_r \in History)' => (\A pc \in Pc : BhtIndexOf(pc) \in BhtIndex)'
<1>1. ghr_r \in History => \A pc \in Pc : BhtIndexOf(pc) \in BhtIndex
  BY BhtIndexType
<1> QED BY <1>1, PTL

LEMMA BranchSettles ==
  ASSUME SettlingInv, NEW t \in Trainings, NEW taken \in BOOLEAN,
         t[3] = 1, ResolveBranch(t[1], t[2], taken)
  PROVE  SettlingInv'
<1> DEFINE i == BhtIndexOf(t[1])
           c == branch_counter_r[i]
<1>1. /\ BtbInv /\ RecentInv /\ TypesInv /\ SettlingTypeOK
      /\ ghr_r \in History /\ branch_counter_r \in [BhtIndex -> Counter]
      /\ streak \in 0 .. Settling
      /\ t[1] \in Pc
  BY TrainingFacts DEF SettlingInv, SettlingTypeOK
<1>2. BtbInv' /\ RecentInv' /\ TypesInv'
  BY <1>1, TrainingKeepsTypes DEF ResolveBranch, TrainBranch
<1>3. /\ i \in BhtIndex /\ c \in Counter
      /\ branch_counter_r' \in [BhtIndex -> Counter]
      /\ branch_counter_r'[i] = IF taken THEN IF c < CounterSize - 1 THEN c + 1 ELSE c
                                ELSE IF c > 0 THEN c - 1 ELSE c
  <2>1. i \in BhtIndex /\ c \in Counter BY <1>1, BhtIndexType
  <2> DEFINE n == IF taken THEN IF c < CounterSize - 1 THEN c + 1 ELSE c
                  ELSE IF c > 0 THEN c - 1 ELSE c
  <2>2. branch_counter_r' = [branch_counter_r EXCEPT ![i] = n]
    BY DEF ResolveBranch, TrainBranch, CountBranch
  <2> HIDE DEF i, c
  <2>3. n \in Counter BY <2>1, BpuSizes DEF Counter
  <2> HIDE DEF n
  <2>4. branch_counter_r' \in [BhtIndex -> Counter] /\ branch_counter_r'[i] = n
    BY <1>1, <2>1, <2>2, <2>3
  <2> QED BY <2>1, <2>4 DEF n
<1>4. ghr_r' = (2 * ghr_r + Outcome(taken)) % GhrSize
  BY DEF ResolveBranch, TrainBranch, ShiftHistory, Outcome
<1>5. /\ same' = [pc |-> t[1], taken |-> taken]
      /\ same'.pc = t[1] /\ same'.taken = taken
      /\ streak' = IF streak = 0 \/ same' # same THEN 1
                   ELSE IF streak < Settling THEN streak + 1 ELSE streak
  BY DEF ResolveBranch
<1>6. LastOutcomes(ghr_r, 0, taken) BY <1>1, NoOutcomes
<1>7. ghr_r' \in History BY <1>1, <1>4, <1>6, SizeFacts, MoreOutcomes
<1>8. streak' \in 1 .. Settling
  BY <1>1, <1>5, SizeFacts
<1>9. SettlingTypeOK' BY <1>3, <1>5, <1>7, <1>8 DEF SettlingTypeOK
<1> HIDE DEF c
<1>10. CASE streak = 0 \/ same' # same
  <2>1. streak' = 1 BY <1>5, <1>10
  <2>2. LastOutcomes(ghr_r', 0 + 1, taken)
    BY <1>1, <1>4, <1>6, SizeFacts, MoreOutcomes
  <2>3. Age' = 0 + 1 BY <2>1, SizeFacts DEF Age
  <2>4. ASSUME streak' >= HistoryBits PROVE CounterMoved'
    <3>1. streak' - HistoryBits = 0 BY <2>1, <2>4, SizeFacts
    <3>2. branch_counter_r'[BhtIndexOf(same.pc)'] \in Counter
      <4>1. BhtIndexOf(t[1])' \in BhtIndex BY <1>1, <1>7, IndexTypeLater
      <4>2. BhtIndexOf(same.pc)' = BhtIndexOf(t[1])' BY <1>5 DEF BhtIndexOf
      <4> QED BY <1>3, <4>1, <4>2
    <3> QED BY <3>1, <3>2, SizeFacts DEF CounterMoved, Counter
  <2> QED BY <1>2, <1>5, <1>9, <2>2, <2>3, <2>4 DEF SettlingInv
<1>11. CASE streak # 0 /\ same' = same /\ streak < HistoryBits
  <2>1. streak' = streak + 1 /\ Age = streak /\ Age' = streak + 1
    BY <1>1, <1>5, <1>11, SizeFacts DEF Age
  <2>2. LastOutcomes(ghr_r, streak, taken) BY <1>1, <1>5, <1>11, <2>1 DEF SettlingInv
  <2>3. LastOutcomes(ghr_r', streak + 1, taken)
    BY <1>1, <1>4, <1>11, <2>2, SizeFacts, MoreOutcomes
  <2>4. ASSUME streak' >= HistoryBits PROVE CounterMoved'
    <3>1. streak' - HistoryBits = 0 BY <1>1, <1>11, <2>1, <2>4, SizeFacts
    <3>2. branch_counter_r'[BhtIndexOf(same.pc)'] \in Counter
      <4>1. BhtIndexOf(t[1])' \in BhtIndex BY <1>1, <1>7, IndexTypeLater
      <4>2. BhtIndexOf(same.pc)' = BhtIndexOf(t[1])' BY <1>5 DEF BhtIndexOf
      <4> QED BY <1>3, <4>1, <4>2
    <3> QED BY <3>1, <3>2, SizeFacts DEF CounterMoved, Counter
  <2> QED BY <1>2, <1>5, <1>9, <2>1, <2>3, <2>4 DEF SettlingInv
<1>12. CASE streak # 0 /\ same' = same /\ ~(streak < HistoryBits)
  <2>1. /\ streak' = IF streak < Settling THEN streak + 1 ELSE streak
        /\ streak >= HistoryBits /\ Age = HistoryBits /\ Age' = HistoryBits
    BY <1>1, <1>5, <1>12, SizeFacts DEF Age
  <2>2. LastOutcomes(ghr_r, HistoryBits, taken)
    BY <1>1, <1>5, <1>12, <2>1 DEF SettlingInv
  <2>3. ghr_r' = ghr_r BY <1>1, <1>4, <2>2, SizeFacts, MoreOutcomes
  <2>4. BhtIndexOf(same.pc)' = i /\ BhtIndexOf(same.pc) = i
    BY <1>5, <1>12, <2>3 DEF BhtIndexOf
  <2>5. CounterMoved BY <2>1 DEF SettlingInv
  <2>6. IF taken THEN c >= streak - HistoryBits
        ELSE c <= CounterSize - 1 - (streak - HistoryBits)
    BY <1>5, <1>12, <2>4, <2>5 DEF CounterMoved, c
  <2>7. CounterMoved'
    <3> DEFINE d == branch_counter_r'[i]
    <3>1. IF taken THEN d >= streak' - HistoryBits
          ELSE d <= CounterSize - 1 - (streak' - HistoryBits)
      <4>1. c \in Nat /\ c <= CounterSize - 1 BY <1>3, SizeFacts DEF Counter
      <4> HIDE DEF d, i
      <4>2. d = IF taken THEN IF c < CounterSize - 1 THEN c + 1 ELSE c
                ELSE IF c > 0 THEN c - 1 ELSE c
        BY <1>3 DEF d
      <4> QED BY <1>1, <2>1, <2>6, <4>1, <4>2, SizeFacts
    <3> QED BY <1>5, <2>4, <3>1 DEF CounterMoved
  <2> QED BY <1>2, <1>5, <1>9, <2>1, <2>2, <2>3, <2>7 DEF SettlingInv
<1> QED BY <1>10, <1>11, <1>12

LEMMA JalSettles ==
  ASSUME SettlingInv, NEW t \in Trainings, t[3] = 2, ResolveJal(t[1], t[2])
  PROVE  SettlingInv'
<1>1. /\ BtbInv' /\ RecentInv' /\ TypesInv'
  BY TrainingKeepsTypes DEF SettlingInv, ResolveJal, TrainJal
<1>2. UNCHANGED <<ghr_r, branch_counter_r, same, streak>>
  BY DEF ResolveJal, TrainJal
<1>3. SettlingTypeOK' BY <1>2 DEF SettlingInv, SettlingTypeOK
<1>4. Age' = Age /\ CounterMoved' = CounterMoved
  BY <1>2 DEF Age, CounterMoved, BhtIndexOf
<1> QED BY <1>1, <1>2, <1>3, <1>4 DEF SettlingInv

LEMMA FreshSettles == SettlingInit => SettlingInv
<1> SUFFICES ASSUME SettlingInit PROVE SettlingInv
  OBVIOUS
<1>1. BtbInv /\ RecentInv
  BY EmptyType
     DEF SettlingInit, BpuInit, BtbInit, BtbInv, BtbTypeOK, UniqueEntry, Empty,
         RecentInv, FirstInv, SecondInv, ThirdInv, NoneRecent
<1>2. TypesInv
  BY TrainingFacts DEF TypesInv, HeldAt, SettlingInit, BpuInit, BtbInit, Empty
<1>3. ghr_r \in History /\ branch_counter_r \in [BhtIndex -> Counter] /\ streak = 0
  BY BpuSizes DEF SettlingInit, BpuInit, History, Counter
<1> QED BY <1>1, <1>2, <1>3, SizeFacts DEF SettlingInv, SettlingTypeOK

LEMMA ResetSettles ==
  ASSUME SettlingReset
  PROVE  SettlingInv'
<1>1. BtbInv' /\ RecentInv'
  BY EmptyType
     DEF SettlingReset, BpuReset, BtbReset, BtbInv, BtbTypeOK, UniqueEntry, Empty,
         RecentInv, FirstInv, SecondInv, ThirdInv, NoneRecent
<1>2. TypesInv'
  BY TrainingFacts DEF TypesInv, HeldAt, SettlingReset, BpuReset, BtbReset, Empty
<1>3. /\ ghr_r' \in History /\ branch_counter_r' \in [BhtIndex -> Counter]
      /\ streak' = 0
  BY BpuSizes DEF SettlingReset, BpuReset, History, Counter
<1> QED BY <1>1, <1>2, <1>3, SizeFacts DEF SettlingInv, SettlingTypeOK

LEMMA SettlingInductive == SettlingSpec => []SettlingInv
<1>1. SettlingInv /\ [SettlingNext]_settlingVars => SettlingInv'
  <2> SUFFICES ASSUME SettlingInv, [SettlingNext]_settlingVars PROVE SettlingInv'
    OBVIOUS
  <2>1. CASE \E t \in Trainings, taken \in BOOLEAN :
               t[3] = 1 /\ ResolveBranch(t[1], t[2], taken)
    BY <2>1, BranchSettles
  <2>2. CASE \E t \in Trainings : t[3] = 2 /\ ResolveJal(t[1], t[2])
    BY <2>2, JalSettles
  <2>3. CASE SettlingReset BY <2>3, ResetSettles
  <2>4. CASE UNCHANGED settlingVars
    <3>1. UNCHANGED <<way_r, plru_r, ghr_r, branch_counter_r, recent, same, streak>>
      BY <2>4 DEF settlingVars, bpuVars
    <3>2. BtbInv' BY <3>1 DEF SettlingInv, BtbInv, BtbTypeOK, UniqueEntry
    <3>3. \A s, pc, w : HeldAt(s, pc, w)' <=> HeldAt(s, pc, w) BY <3>1 DEF HeldAt
    <3>4. RecentInv'
      BY <3>1, <3>3 DEF SettlingInv, RecentInv, FirstInv, SecondInv, ThirdInv
    <3>5. TypesInv' BY <3>1, <3>3 DEF SettlingInv, TypesInv
    <3>6. SettlingTypeOK' BY <3>1 DEF SettlingInv, SettlingTypeOK
    <3>7. Age' = Age /\ CounterMoved' = CounterMoved
      BY <3>1 DEF Age, CounterMoved, BhtIndexOf
    <3> QED BY <3>1, <3>2, <3>4, <3>5, <3>6, <3>7 DEF SettlingInv
  <2> QED BY <2>1, <2>2, <2>3, <2>4 DEF SettlingNext
<1> QED BY <1>1, FreshSettles, PTL DEF SettlingSpec

(* A branch that keeps its direction for as many outcomes as the history   *)
(* has bits and half a counter has values is predicted right from then on, *)
(* whatever the tables held before and whichever JALs are trained between, *)
(* for every number of sets, histories and counters, with the history on   *)
(* or off.                                                                 *)
THEOREM BranchesSettle == SettlingSpec => []Settled
<1>1. SettlingInv => Settled
  <2> SUFFICES ASSUME SettlingInv, DYNAMIC_PREDICTION, streak = Settling,
                      Recent(same.pc)
               PROVE  pred_branch_taken(same.pc) = same.taken
    BY DEF Settled
  <2>1. /\ BtbInv /\ RecentInv /\ TypesInv /\ SettlingTypeOK
        /\ streak > 0 /\ streak >= HistoryBits /\ same.taken \in BOOLEAN
        /\ CounterMoved
    BY SizeFacts DEF SettlingInv, SettlingTypeOK
  <2>2. PICK t \in Trainings : t[1] = same.pc /\ t[3] = 1
    BY <2>1 DEF SettlingTypeOK
  <2> DEFINE pc == same.pc
  <2>3. pc \in Pc /\ Index(pc) \in Set /\ pc # NoPc BY <2>2, TrainingFacts
  <2>4. PICK w \in Way : HeldAt(Index(pc), pc, w)
    <3>1. FirstInv(Index(pc)) /\ SecondInv(Index(pc)) /\ ThirdInv(Index(pc))
      BY <2>1, <2>3 DEF RecentInv
    <3>2. CASE pc = recent[Index(pc)].first BY <2>3, <3>1, <3>2 DEF FirstInv
    <3>3. CASE pc = recent[Index(pc)].second BY <2>3, <3>1, <3>3 DEF SecondInv
    <3>4. CASE pc = recent[Index(pc)].third BY <2>3, <3>1, <3>4 DEF ThirdInv
    <3> QED BY <3>2, <3>3, <3>4 DEF Recent
  <2>5. way_r[Index(pc)][w].type = 1 BY <2>1, <2>2, <2>4 DEF TypesInv
  <2>6. Hits(pc) = {w}
    BY <2>1, <2>3, <2>4 DEF Hits, Matches, HeldAt, BtbInv, UniqueEntry
  <2>7. BranchHit(pc) /\ LookupType(pc) = 1
    <3>1. LookupWay(pc) = w BY <2>6 DEF LookupWay, Way
    <3> QED BY <2>5, <2>6, <3>1 DEF BranchHit, LookupType
  <2>8. pred_branch_taken(pc) = BhtTaken(pc)
    <3>1. BhtTaken(pc) \in BOOLEAN BY DEF BhtTaken
    <3>2. pred_branch_taken(pc) \in BOOLEAN /\ (pred_branch_taken(pc) <=> BhtTaken(pc))
      BY <2>7 DEF pred_branch_taken
    <3> QED BY <3>1, <3>2
  <2>9. BhtTaken(pc) = same.taken
    <3> DEFINE c == branch_counter_r[BhtIndexOf(pc)]
    <3>1. c \in Nat BY <2>1, <2>3, BhtIndexType DEF SettlingTypeOK, Counter
    <3>2. IF same.taken THEN c >= streak - HistoryBits
          ELSE c <= CounterSize - 1 - (streak - HistoryBits)
      BY <2>1 DEF CounterMoved
    <3> HIDE DEF c
    <3>3. IF same.taken THEN c >= CounterSize \div 2 ELSE c < CounterSize \div 2
      BY <3>1, <3>2, SizeFacts
    <3>4. BhtTaken(pc) <=> c >= CounterSize \div 2 BY DEF BhtTaken, c
    <3>5. BhtTaken(pc) \in BOOLEAN BY DEF BhtTaken
    <3> QED BY <2>1, <3>1, <3>3, <3>4, <3>5, SizeFacts
  <2> QED BY <2>8, <2>9
<1> QED BY <1>1, SettlingInductive, PTL
=============================================================================
