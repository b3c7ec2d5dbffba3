---------------------------- MODULE CpuBpuProofs ----------------------------
(***************************************************************************)
(* Theorems about CpuBpu: the real predictor keeps the contract of Cpu,    *)
(* for every size of its tables, every hash of the history and every       *)
(* program whose branches and jumps aim at whole words.                    *)
(***************************************************************************)
EXTENDS CpuBpu, CpuProofs

(* Every address that is fetched or in flight is that of a whole word.     *)
AlignedInv == /\ pc % 4 = 0
              /\ live.id => if_id.PC % 4 = 0
              /\ live.ex => id_ex.PC % 4 = 0

WaysOK == way_r \in [Predictor!Set -> [Predictor!Way -> Predictor!Entry]]

PInv == /\ IInv
        /\ rom \in Programs
        /\ AlignedInv
        /\ WaysOK
        /\ EntriesTrue

-----------------------------------------------------------------------------
(* Whole words.                                                            *)

LEMMA AlignedSum ==
  ASSUME NEW a \in Word, NEW b \in Word, a % 4 = 0, b % 4 = 0
  PROVE  Adder32(a, b) % 4 = 0
<1>1. WordSize \in Nat /\ WordSize % 4 = 0
  BY AlignedPrograms, SizesAssumption
<1> QED BY <1>1 DEF Adder32, Word

LEMMA AlignedNext4 ==
  ASSUME NEW a \in Word, a % 4 = 0 PROVE Adder32(a, 4) % 4 = 0
<1>1. 4 \in Word /\ 4 % 4 = 0 BY SmallWords
<1> QED BY <1>1, AlignedSum

(* The immediate of a branch or a JAL of the program.                      *)
LEMMA AlignedImm ==
  ASSUME rom \in Programs, NEW a \in Word,
         RomAt(rom, a).opcode \in {"BRANCH", "JAL"}
  PROVE  RomAt(rom, a).imm \in Word /\ RomAt(rom, a).imm % 4 = 0
<1>1. rom \in Rom BY ImagesAssumption
<1>2. RomAt(rom, a) \in Inst BY <1>1, RomType
<1> DEFINE k == (a \div 4) % RomWords
<1>3. k \in 0 .. RomWords - 1 BY SizesAssumption DEF Word
<1>4. k \in DOMAIN rom BY <1>1, <1>3 DEF Rom
<1>5. Aligned(rom) BY AlignedPrograms
<1>6. RomAt(rom, a) = rom[k] BY DEF RomAt
<1> HIDE DEF k
<1> QED BY <1>2, <1>4, <1>5, <1>6 DEF Aligned, Inst

-----------------------------------------------------------------------------
(* Lookup.                                                                 *)

LEMMA IndexType ==
  ASSUME NEW a \in Word
  PROVE  Predictor!Index(a) \in Predictor!Set /\ Predictor!Tag(a) \in Nat
<1>1. a \in Nat /\ a \div 4 \in Nat BY SizesAssumption DEF Word
<1>2. (a \div 4) % SetSize \in 0 .. SetSize - 1 BY <1>1, PredictorSizes
<1>3. (a \div 4) \div SetSize \in Nat BY <1>1, PredictorSizes
<1> QED BY <1>2, <1>3 DEF Predictor!Index, Predictor!Tag, Predictor!Set

(* An entry stands for the address whose index and tag it has.             *)
LEMMA AddressBack ==
  ASSUME NEW a \in Word, a % 4 = 0
  PROVE  4 * (Predictor!Tag(a) * SetSize + Predictor!Index(a)) = a
<1> DEFINE p == a \div 4
<1>1. a \in Nat /\ p \in Nat /\ a = 4 * p
  BY SizesAssumption DEF Word
<1>2. Predictor!Tag(a) = p \div SetSize /\ Predictor!Index(a) = p % SetSize
  BY DEF Predictor!Tag, Predictor!Index
<1> HIDE DEF p
<1>3. SetSize * (p \div SetSize) + (p % SetSize) = p
  BY <1>1, PredictorSizes
<1>4. (p \div SetSize) * SetSize = SetSize * (p \div SetSize)
  BY <1>1, PredictorSizes
<1> QED BY <1>1, <1>2, <1>3, <1>4

LEMMA LookupWayHits ==
  ASSUME NEW a, Predictor!BranchHit(a)
  PROVE  Predictor!LookupWay(a) \in Predictor!Hits(a)
<1> DEFINE H == Predictor!Hits(a)
<1>1. H # {} /\ H \subseteq 0 .. 3
  BY DEF Predictor!BranchHit, Predictor!Hits, Predictor!Matches, Predictor!Way
<1> HIDE DEF H
<1>2. \E w \in H : \A v \in H : w <= v
  <2>1. CASE 0 \in H BY <1>1, <2>1
  <2>2. CASE 0 \notin H /\ 1 \in H BY <1>1, <2>2
  <2>3. CASE 0 \notin H /\ 1 \notin H /\ 2 \in H BY <1>1, <2>3
  <2>4. CASE 0 \notin H /\ 1 \notin H /\ 2 \notin H
    <3>1. \A v \in H : v = 3 BY <1>1, <2>4
    <3>2. PICK w \in H : TRUE BY <1>1
    <3> QED BY <3>1, <3>2
  <2> QED BY <2>1, <2>2, <2>3, <2>4
<1> QED BY <1>2 DEF H, Predictor!LookupWay

(* The tables answer with what the fetched instruction is: the contract.   *)
LEMMA ContractKept == PInv => prediction \in Predictions
<1> SUFFICES ASSUME PInv, Predictor!pred_branch_taken(pc)
    PROVE  prediction \in Predictions
  BY DEF prediction, Predictions
<1> DEFINE s == Predictor!Index(pc)
           w == Predictor!LookupWay(pc)
<1>1. pc \in Word /\ pc % 4 = 0 BY DEF PInv, IInv, TypeOK, AlignedInv
<1>2. w \in Predictor!Hits(pc)
  BY LookupWayHits DEF Predictor!pred_branch_taken
<1>3. s \in Predictor!Set /\ w \in Predictor!Way
  BY <1>1, <1>2, IndexType DEF Predictor!Hits, Predictor!Matches
<1>4. way_r[s][w].valid /\ way_r[s][w].tag = Predictor!Tag(pc)
  BY <1>2 DEF Predictor!Hits, Predictor!Matches
<1>5. EntryAddress(s, w) = pc
  BY <1>1, <1>4, AddressBack DEF EntryAddress
<1>6. /\ way_r[s][w].target = Adder32(pc, if_Inst.imm)
      /\ way_r[s][w].type = (CASE if_Inst.opcode = "BRANCH" -> 1
                               [] if_Inst.opcode = "JAL"    -> 2
                               [] OTHER                     -> 0)
  BY <1>3, <1>4, <1>5 DEF PInv, EntriesTrue, if_Inst
<1>7. Predictor!LookupTarget(pc) = Adder32(pc, if_Inst.imm)
  BY <1>6 DEF Predictor!LookupTarget
<1>8. way_r[s][w].type \in {1, 2}
  BY DEF Predictor!pred_branch_taken, Predictor!LookupType
<1>9. if_Inst.opcode \in {"BRANCH", "JAL"} BY <1>6, <1>8
<1> QED BY <1>7, <1>9 DEF prediction, Predictions, Taken

-----------------------------------------------------------------------------
(* Training.                                                               *)

(* A branch or a JAL in EX is the instruction of the program at its        *)
(* address, and its target is the one the program gives it.                *)
LEMMA ExTrained ==
  ASSUME PInv, id_ex.ctl.Branch \/ id_ex.ctl.JAL
  PROVE  /\ live.ex
         /\ id_ex.PC \in Word /\ id_ex.PC % 4 = 0
         /\ id_ex.PCImm = Adder32(id_ex.PC, ex_Inst.imm)
         /\ id_ex.PCImm \in Word /\ id_ex.PCImm % 4 = 0
         /\ id_ex.ctl.Branch => ex_Inst.opcode = "BRANCH"
         /\ ~id_ex.ctl.Branch => ex_Inst.opcode = "JAL"
<1>1. live.ex
  BY DEF PInv, IInv, ExecuteInv, ZeroIdEx, ZeroCtl
<1>2. id_ex.PC \in Word /\ rom \in Rom /\ id_ex.PC % 4 = 0
  BY <1>1 DEF PInv, IInv, TypeOK, AlignedInv
<1>3. ex_Inst \in Inst BY <1>2, RomType DEF ex_Inst
<1>4. /\ id_ex.ctl = Controller(ex_Inst)
      /\ id_ex.PCImm = Adder32(id_ex.PC, ex_Inst.imm)
  BY <1>1 DEF PInv, IInv, ExecuteInv
<1>5. /\ id_ex.ctl.Branch <=> ex_Inst.opcode = "BRANCH"
      /\ id_ex.ctl.JAL <=> ex_Inst.opcode = "JAL"
  BY <1>3, <1>4, Flags
<1>6. ex_Inst.imm \in Word /\ ex_Inst.imm % 4 = 0
  BY <1>2, <1>5, AlignedImm DEF ex_Inst, PInv
<1>7. id_ex.PCImm \in Word /\ id_ex.PCImm % 4 = 0
  BY <1>2, <1>4, <1>6, AdderType, AlignedSum
<1> QED BY <1>1, <1>2, <1>4, <1>5, <1>7

LEMMA WriteTrue ==
  ASSUME PInv, rom' = rom, id_ex.ctl.Branch \/ id_ex.ctl.JAL,
         NEW w \in Predictor!Way,
         Predictor!Write(id_ex.PC, w, id_ex.PCImm,
                         IF id_ex.ctl.Branch THEN 1 ELSE 2)
  PROVE  WaysOK' /\ EntriesTrue'
<1> DEFINE a == id_ex.PC
           type == IF id_ex.ctl.Branch THEN 1 ELSE 2
           new == [valid |-> TRUE, tag |-> Predictor!Tag(a),
                   target |-> Predictor!Stored(id_ex.PCImm), type |-> type]
<1>1. a \in Word /\ Predictor!Index(a) \in Predictor!Set
      /\ Predictor!Tag(a) \in Nat
  BY ExTrained, IndexType
<1>2. Predictor!Stored(id_ex.PCImm) = id_ex.PCImm
  BY ExTrained, SizesAssumption DEF Predictor!Stored, Word
<1>3. id_ex.PCImm \in Predictor!Pc
  BY ExTrained DEF Predictor!Pc, Word
<1>4. new \in Predictor!Entry
  BY <1>1, <1>2, <1>3 DEF Predictor!Entry
<1>5. way_r' = [way_r EXCEPT ![Predictor!Index(a)][w] = new]
  BY DEF Predictor!Write
<1> HIDE DEF new
<1>6. WaysOK' BY <1>1, <1>4, <1>5 DEF WaysOK, PInv
<1>7. \A s \in Predictor!Set, v \in Predictor!Way :
        way_r'[s][v] = IF s = Predictor!Index(a) /\ v = w THEN new
                       ELSE way_r[s][v]
  BY <1>1, <1>5 DEF WaysOK, PInv
<1>8. ASSUME NEW s \in Predictor!Set, NEW v \in Predictor!Way,
             way_r'[s][v].valid
      PROVE  LET b == 4 * (way_r'[s][v].tag * SetSize + s)
                 i == RomAt(rom, b)
             IN /\ way_r'[s][v].target = Adder32(b, i.imm)
                /\ way_r'[s][v].type = (CASE i.opcode = "BRANCH" -> 1
                                          [] i.opcode = "JAL"    -> 2
                                          [] OTHER               -> 0)
  <2>1. CASE s = Predictor!Index(a) /\ v = w
    <3>1. way_r'[s][v] = new BY <1>7, <2>1
    <3>2. 4 * (way_r'[s][v].tag * SetSize + s) = a
      BY <2>1, <3>1, ExTrained, AddressBack DEF new
    <3>3. /\ RomAt(rom, a) = ex_Inst
          /\ new.target = Adder32(a, ex_Inst.imm)
      BY <1>2, ExTrained DEF ex_Inst, new
    <3>4. new.type = (CASE ex_Inst.opcode = "BRANCH" -> 1
                        [] ex_Inst.opcode = "JAL"    -> 2
                        [] OTHER                     -> 0)
      BY ExTrained DEF new
    <3> HIDE DEF a
    <3> QED BY <3>1, <3>2, <3>3, <3>4
  <2>2. CASE ~(s = Predictor!Index(a) /\ v = w)
    <3>1. way_r'[s][v] = way_r[s][v] BY <1>7, <2>2
    <3> QED BY <1>8, <3>1 DEF PInv, EntriesTrue, EntryAddress
  <2> QED BY <2>1, <2>2
<1>9. EntriesTrue' BY <1>8 DEF EntriesTrue, EntryAddress
<1> QED BY <1>6, <1>9

(* Training writes a way of the set of the instruction in EX, or nothing.  *)
LEMMA TrainTrue ==
  ASSUME PInv, rom' = rom, TrainFromEx PROVE WaysOK' /\ EntriesTrue'
<1>1. \A bits : Predictor!PlruVictim(bits) \in Predictor!Way
  BY DEF Predictor!PlruVictim, Predictor!Way
<1>2. ASSUME NEW type,
             Predictor!Train(id_ex.PC, id_ex.PCImm, type)
      PROVE  \E w \in Predictor!Way :
               Predictor!Write(id_ex.PC, w, id_ex.PCImm, type)
  BY <1>1, <1>2 DEF Predictor!Train, Predictor!TrainHit, Predictor!TrainMiss,
                    Predictor!Matches
<1>3. CASE id_ex.ctl.Branch
  <2>1. Predictor!Train(id_ex.PC, id_ex.PCImm, 1)
    BY <1>3 DEF TrainFromEx, Predictor!TrainBranch
  <2> QED BY <1>2, <1>3, <2>1, WriteTrue
<1>4. CASE ~id_ex.ctl.Branch /\ id_ex.ctl.JAL
  <2>1. Predictor!Train(id_ex.PC, id_ex.PCImm, 2)
    BY <1>4 DEF TrainFromEx, Predictor!TrainJal
  <2> QED BY <1>2, <1>4, <2>1, WriteTrue
<1>5. CASE ~id_ex.ctl.Branch /\ ~id_ex.ctl.JAL
  <2>1. way_r' = way_r BY <1>5 DEF TrainFromEx, bpuVars
  <2> QED BY <2>1 DEF PInv, WaysOK, EntriesTrue, EntryAddress
<1> QED BY <1>3, <1>4, <1>5

-----------------------------------------------------------------------------
(* Every next address is that of a whole word.                             *)

LEMMA AlignedNext ==
  ASSUME PInv, JalrAligned, NEW p \in Predictions, Clock(p)
  PROVE  AlignedInv'
<1>1. TypeOK /\ DecodeInv /\ ExecuteInv /\ AlignedInv BY DEF PInv, IInv
<1>2. pc \in Word /\ if_id.PC \in Word /\ id_ex.PC \in Word
  BY <1>1 DEF TypeOK
<1>3. CASE hazard = REDIRECT
  <2>1. pc' = next_PC(p) /\ ~live'.id /\ ~live'.ex
    BY <1>1, <1>3, RedirectEdge
  <2>2. id_ex.ctl.JALR \/ ex_pred_fail BY <1>1, <1>3, RedirectEdge
  <2>3. CASE id_ex.ctl.JALR
    BY <2>1, <2>3 DEF next_PC, JalrAligned, AlignedInv
  <2>4. CASE ~id_ex.ctl.JALR /\ ex_pred_fail
    <3>1. id_ex.ctl.Branch BY <2>4 DEF ex_pred_fail
    <3>2. id_ex.PCImm % 4 = 0 /\ live.ex /\ id_ex.PC % 4 = 0
      BY <3>1, ExTrained
    <3>3. id_ex.PC4 % 4 = 0
      BY <1>1, <1>2, <3>2, AlignedNext4 DEF ExecuteInv
    <3> QED BY <2>1, <2>4, <3>2, <3>3 DEF next_PC, AlignedInv
  <2> QED BY <2>2, <2>3, <2>4
<1>4. CASE hazard = STALL BY <1>1, <1>4, StallEdge DEF AlignedInv
<1>5. CASE hazard = JALJUMP
  <2>1. id_ctl.JAL BY <1>1, <1>5, JalJumpEdge
  <2>2. live.id
    BY <1>1, <2>1, ZeroDecoded DEF DecodeInv, id_ctl, ZeroIfId, ZeroCtl
  <2>3. if_id.Inst = RomAt(rom, if_id.PC) /\ if_id.PC % 4 = 0
    BY <1>1, <2>2 DEF DecodeInv, AlignedInv
  <2>4. if_id.Inst.opcode = "JAL"
    BY <1>1, <2>1, Flags DEF id_ctl, TypeOK
  <2>5. id_PCImm % 4 = 0
    BY <1>2, <2>3, <2>4, AlignedImm, AlignedSum DEF id_PCImm, PInv
  <2>6. /\ pc' = id_PCImm /\ ~live'.id
        /\ live'.ex = live.id /\ id_ex'.PC = if_id.PC
    BY <1>1, <1>5, JalJumpEdge, DecodeEdge
  <2> QED BY <2>3, <2>5, <2>6 DEF AlignedInv
<1>6. CASE hazard = ADVANCE
  <2>1. /\ pc' = IF p.taken THEN p.target ELSE if_PC4
        /\ live'.ex = live.id /\ id_ex'.PC = if_id.PC /\ if_id'.PC = pc
    BY <1>1, <1>6, AdvanceEdge, DecodeEdge
  <2>2. if_PC4 % 4 = 0
    BY <1>1, <1>2, AlignedNext4 DEF if_PC4, AlignedInv
  <2>3. ASSUME p.taken PROVE p.target % 4 = 0
    <3>1. /\ if_Inst.opcode \in {"BRANCH", "JAL"}
          /\ p.target = Adder32(pc, if_Inst.imm)
      BY <2>3 DEF Predictions, Taken, NotTaken
    <3>2. if_Inst.imm \in Word /\ if_Inst.imm % 4 = 0
      BY <1>2, <3>1, AlignedImm DEF if_Inst, PInv
    <3> QED BY <1>1, <1>2, <3>1, <3>2, AlignedSum DEF AlignedInv
  <2> QED BY <1>1, <2>1, <2>2, <2>3 DEF AlignedInv
<1> QED BY <1>1, <1>3, <1>4, <1>5, <1>6, WireTypes

-----------------------------------------------------------------------------
(* The invariant, and what follows from it.                                *)

LEMMA EmptyTables ==
  /\ [s \in Predictor!Set |-> [w \in Predictor!Way |-> Predictor!Empty]]
       \in [Predictor!Set -> [Predictor!Way -> Predictor!Entry]]
  /\ ~Predictor!Empty.valid
<1>1. Predictor!Empty \in Predictor!Entry
  BY SmallWords DEF Predictor!Empty, Predictor!Entry, Predictor!Pc, Word
<1> QED BY <1>1 DEF Predictor!Empty

LEMMA PredictedInitInv == PredictedInit => PInv
<1> SUFFICES ASSUME PredictedInit PROVE PInv
  OBVIOUS
<1>1. IInv /\ rom \in Programs /\ AlignedInv
  BY InitIInv DEF PredictedInit, Init, AlignedInv, NoneLive
<1>2. way_r = [s \in Predictor!Set |->
                [w \in Predictor!Way |-> Predictor!Empty]]
  BY DEF PredictedInit, Predictor!BpuInit, Predictor!BtbInit
<1>3. WaysOK /\ EntriesTrue BY <1>2, EmptyTables DEF WaysOK, EntriesTrue
<1> QED BY <1>1, <1>3 DEF PInv

LEMMA PredictedNextInv ==
  ASSUME PInv, JalrAligned, [PredictedNext]_<<vars, bpuVars>> PROVE PInv'
<1>1. CASE PredictedTick
  <2>1. prediction \in Predictions /\ Clock(prediction) /\ rom' = rom
    BY <1>1, ContractKept DEF PredictedTick, Clock
  <2>2. IInv' BY <2>1, ClockIInv DEF PInv
  <2>3. AlignedInv' BY <2>1, AlignedNext
  <2>4. WaysOK' /\ EntriesTrue' BY <1>1, <2>1, TrainTrue DEF PredictedTick
  <2> QED BY <2>1, <2>2, <2>3, <2>4 DEF PInv
<1>2. CASE PredictedReset
  <2>1. Reset BY <1>2 DEF PredictedReset
  <2>2. IInv' BY <2>1, ResetIInv DEF PInv, IInv
  <2>3. (rom \in Programs)' /\ AlignedInv'
    BY <2>1 DEF Reset, AlignedInv, NoneLive, PInv
  <2>4. way_r' = [s \in Predictor!Set |->
                   [w \in Predictor!Way |-> Predictor!Empty]]
    BY <1>2 DEF PredictedReset, Predictor!BpuReset, Predictor!BtbReset
  <2>5. WaysOK' /\ EntriesTrue'
    BY <2>4, EmptyTables DEF WaysOK, EntriesTrue
  <2> QED BY <2>2, <2>3, <2>5 DEF PInv
<1>3. CASE UNCHANGED <<vars, bpuVars>>
  <2>1. IInv' BY <1>3, StutterIInv DEF PInv
  <2>2. (rom \in Programs)' /\ AlignedInv'
    BY <1>3 DEF vars, AlignedInv, PInv
  <2>3. WaysOK' /\ EntriesTrue'
    BY <1>3 DEF vars, bpuVars, WaysOK, EntriesTrue, EntryAddress, PInv
  <2> QED BY <2>1, <2>2, <2>3 DEF PInv
<1> QED BY <1>1, <1>2, <1>3 DEF PredictedNext

LEMMA PredictedInductive == PredictedSpec /\ []JalrAligned => []PInv
  BY PredictedInitInv, PredictedNextInv, PTL DEF PredictedSpec

(* Whatever path trained it, and however often its ways were replaced, an  *)
(* entry of the target buffer names a branch or a JAL of the program with  *)
(* its own target.                                                         *)
THEOREM EntriesStayTrue ==
  PredictedSpec /\ []JalrAligned => []EntriesTrue
<1>1. PInv => EntriesTrue BY DEF PInv
<1> QED BY <1>1, PredictedInductive, PTL

(* The predictor of bpu.v keeps the contract that cpu.v relies on without  *)
(* checking it: every clock edge with the tables' own prediction is one    *)
(* that Cpu allows, for every size of the tables.                          *)
THEOREM PredictorKeepsContract ==
  PredictedSpec /\ []JalrAligned => ImplementsCpu
<1>1. PInv /\ [PredictedNext]_<<vars, bpuVars>> => [Next]_vars
  <2> SUFFICES ASSUME PInv, [PredictedNext]_<<vars, bpuVars>>
      PROVE  [Next]_vars
    OBVIOUS
  <2>1. CASE PredictedTick
    <3>1. prediction \in Predictions /\ Clock(prediction)
      BY <2>1, ContractKept DEF PredictedTick
    <3>2. hazard \in {REDIRECT, STALL, JALJUMP, ADVANCE}
      BY WireTypes DEF PInv, IInv
    <3> QED BY <3>1, <3>2
            DEF Next, Tick, Redirect, LoadUseStall, JalJump, Advance
  <2>2. CASE PredictedReset BY <2>2 DEF PredictedReset, Next
  <2>3. CASE UNCHANGED <<vars, bpuVars>> BY <2>3
  <2> QED BY <2>1, <2>2, <2>3 DEF PredictedNext
<1>2. PredictedInit => Init BY DEF PredictedInit
<1> QED BY <1>1, <1>2, PredictedInductive, PTL
        DEF PredictedSpec, ImplementsCpu, Spec

(* So the whole processor, with its real predictor, implements the         *)
(* architecture.                                                           *)
THEOREM PredictedImplementation ==
  PredictedSpec /\ []JalrAligned => ImplementsIsa
  BY PredictorKeepsContract, Implementation, PTL DEF ImplementsCpu
=============================================================================
