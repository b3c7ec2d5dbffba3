-------------------------- MODULE TestbenchProofs --------------------------
(***************************************************************************)
(* Theorems about Testbench, for every program, prediction and cycle       *)
(* limit: the run ends where the reference simulator ends, not before and  *)
(* not later, and what was counted is what was executed.                   *)
(***************************************************************************)
EXTENDS TestbenchInvariant, CpuProofs

-----------------------------------------------------------------------------
(* The terminal loop.                                                      *)

LEMMA WordSizes ==
  /\ WordSize \in Nat /\ WordSize > 4 /\ RomWords \in Nat /\ RomWords > 0
  /\ 4 * RomWords <= WordSize
  BY SizesAssumption, RomFits

LEMMA LastIsOne ==
  ASSUME NEW j \in NonzeroWords, NEW k \in NonzeroWords, IsLast(j), IsLast(k)
  PROVE  j = k
BY WordSizes DEF IsLast, NonzeroWords

LEMMA HaltPlace ==
  ASSUME halt_pc_valid
  PROVE  \E k \in NonzeroWords :
           /\ IsLast(k)
           /\ \/ JumpsToItself(k) /\ halt_pc = 4 * k
              \/ JumpsToNop(k) /\ halt_pc = 4 * (k - 1)
<1>1. PICK k \in NonzeroWords : IsLast(k) /\ (JumpsToItself(k) \/ JumpsToNop(k))
  BY DEF halt_pc_valid
<1> DEFINE c == CHOOSE j \in NonzeroWords : IsLast(j)
<1>2. c \in NonzeroWords /\ IsLast(c)
  BY <1>1
<1>3. c = k
  BY <1>1, <1>2, LastIsOne
<1>4. halt_pc = IF JumpsToItself(c) THEN 4 * c ELSE 4 * (c - 1)
  BY DEF halt_pc
<1> HIDE DEF c
<1> QED BY <1>1, <1>3, <1>4

LEMMA RomAtWord ==
  ASSUME NEW k \in 0 .. RomWords - 1
  PROVE  RomAt(rom, 4 * k) = rom[k]
<1>1. (4 * k) \div 4 = k
  OBVIOUS
<1>2. k % RomWords = k
  BY WordSizes
<1> QED BY <1>1, <1>2 DEF RomAt

(* A loop is made of a jump back to it and, perhaps, a nop.                *)
LEMMA LoopWord ==
  ASSUME TypeOK, NEW a, LoopAt(a)
  PROVE  /\ a \in Nat /\ halt_pc <= a /\ a <= WordSize - 4
         /\ InLoop(a)
         /\ RomAt(rom, a).rd = 0
         /\ \/ /\ RomAt(rom, a).opcode = "JAL"
               /\ LoopAt(Adder32(a, RomAt(rom, a).imm))
            \/ /\ RomAt(rom, a).opcode = "ALUI"
               /\ LoopAt(Adder32(a, 4))
<1>1. PICK k \in NonzeroWords :
        /\ IsLast(k)
        /\ \/ JumpsToItself(k) /\ a = 4 * k
           \/ JumpsToNop(k) /\ a \in {4 * k - 4, 4 * k}
  BY DEF LoopAt
<1>2. k \in 0 .. RomWords - 1 /\ rom[k] # ZeroInst
  BY DEF NonzeroWords
<1>3. halt_pc_valid
  BY <1>1 DEF halt_pc_valid
<1>4. PICK j \in NonzeroWords :
        /\ IsLast(j)
        /\ \/ JumpsToItself(j) /\ halt_pc = 4 * j
           \/ JumpsToNop(j) /\ halt_pc = 4 * (j - 1)
  BY <1>3, HaltPlace
<1>5. j = k
  BY <1>1, <1>4, LastIsOne
<1>6. JumpsToItself(k) => ~JumpsToNop(k)
  BY WordSizes DEF JumpsToItself, JumpsToNop
<1>7. RomAt(rom, 4 * k) = rom[k]
  BY <1>2, RomAtWord
<1>8. CASE JumpsToItself(k) /\ a = 4 * k
  <2>1. halt_pc = a /\ a \in Nat /\ a <= WordSize - 4 /\ a < 4 * RomWords
    BY <1>2, <1>4, <1>5, <1>6, <1>8, WordSizes
  <2>2. RomAt(rom, a) = rom[k]
    BY <1>7, <1>8
  <2>3. rom[k].opcode = "JAL" /\ rom[k].rd = 0 /\ rom[k].imm = 0
    BY <1>8 DEF JumpsToItself, is_jal_x0
  <2>4. Adder32(a, rom[k].imm) = a
    BY <2>1, <2>3, WordSizes DEF Adder32
  <2>5. InLoop(a)
    BY <1>2, <1>3, <2>1, <2>2 DEF InLoop
  <2> QED BY <2>1, <2>2, <2>3, <2>4, <2>5
<1>9. CASE JumpsToNop(k) /\ a \in {4 * k - 4, 4 * k}
  <2>1. /\ k >= 1 /\ rom[k - 1] = Nop /\ is_jal_x0(rom[k])
        /\ rom[k].imm = WordSize - 4
    BY <1>9 DEF JumpsToNop
  <2>2. halt_pc = 4 * k - 4 /\ 4 * k <= WordSize - 4 /\ 4 * k < 4 * RomWords
    BY <1>2, <1>4, <1>5, <1>6, <1>9, WordSizes
  <2>3. \A b \in {4 * k - 4, 4 * k} : LoopAt(b)
    BY <1>1, <1>9 DEF LoopAt
  <2>4. CASE a = 4 * k
    <3>1. RomAt(rom, a) = rom[k]
      BY <1>7, <2>4
    <3>2. Adder32(a, WordSize - 4) = 4 * k - 4
      BY <1>2, <2>1, <2>4, WordSizes DEF Adder32
    <3>3. InLoop(a)
      BY <1>2, <1>3, <2>2, <2>4, <3>1 DEF InLoop
    <3> QED BY <1>2, <2>1, <2>2, <2>3, <2>4, <3>1, <3>2, <3>3 DEF is_jal_x0
  <2>5. CASE a = 4 * k - 4
    <3>1. k - 1 \in 0 .. RomWords - 1 /\ a = 4 * (k - 1)
      BY <1>2, <2>1, <2>5, WordSizes
    <3>2. RomAt(rom, a) = Nop
      BY <2>1, <3>1, RomAtWord
    <3>3. Nop.opcode = "ALUI" /\ Nop.rd = 0 /\ Nop # ZeroInst
      BY DEF Nop, ZeroInst
    <3>4. Adder32(a, 4) = 4 * k
      BY <1>2, <2>1, <2>2, <2>5, WordSizes DEF Adder32
    <3>5. a \in Nat /\ halt_pc <= a /\ a <= WordSize - 4 /\ a < 4 * RomWords
      BY <1>2, <2>1, <2>2, <2>5, WordSizes
    <3>6. InLoop(a)
      BY <1>3, <3>2, <3>3, <3>5 DEF InLoop
    <3> QED BY <2>3, <3>2, <3>3, <3>4, <3>5, <3>6
  <2> QED BY <1>9, <2>4, <2>5
<1> QED BY <1>1, <1>8, <1>9

LEMMA HaltInLoop ==
  ASSUME TypeOK, halt_pc_valid
  PROVE  LoopAt(halt_pc) /\ halt_pc \in Nat /\ halt_pc <= WordSize - 4
<1>1. LoopAt(halt_pc)
  <2>1. PICK k \in NonzeroWords :
          /\ IsLast(k)
          /\ \/ JumpsToItself(k) /\ halt_pc = 4 * k
             \/ JumpsToNop(k) /\ halt_pc = 4 * (k - 1)
    BY HaltPlace
  <2>2. k \in Int /\ 4 * (k - 1) = 4 * k - 4
    BY WordSizes DEF NonzeroWords
  <2> QED BY <2>1, <2>2 DEF LoopAt
<1> QED BY <1>1, LoopWord

(* The bench tells an instruction before the loop by its pc + 4.           *)
LEMMA BeforeIsBelow ==
  ASSUME halt_pc \in Nat, halt_pc <= WordSize - 4, NEW a \in Word
  PROVE  BeforeLoop(Adder32(a, 4)) <=> a < halt_pc
<1>1. CASE a + 4 < WordSize
  <2>1. Adder32(a, 4) = a + 4
    BY <1>1 DEF Adder32
  <2>2. Adder32(a + 4, WordSize - 4) = a
    BY WordSizes DEF Adder32, Word
  <2> QED BY <2>1, <2>2, WordSizes DEF BeforeLoop, Word
<1>2. CASE ~(a + 4 < WordSize)
  <2>1. Adder32(a, 4) = a + 4 - WordSize /\ a >= WordSize - 4 /\ a < WordSize
    BY <1>2, WordSizes DEF Adder32, Word
  <2>2. Adder32(a + 4 - WordSize, WordSize - 4) = a
    BY <2>1, WordSizes DEF Adder32, Word
  <2> QED BY <2>1, <2>2, WordSizes DEF BeforeLoop, Word
<1> QED BY <1>1, <1>2

LEMMA NotBeforeZero == ~BeforeLoop(0)
  BY DEF BeforeLoop

LEMMA HaltKept ==
  ASSUME rom' = rom
  PROVE  halt_pc' = halt_pc /\ (halt_pc_valid' <=> halt_pc_valid)
BY DEF halt_pc, halt_pc_valid, NonzeroWords, IsLast, JumpsToItself, JumpsToNop

-----------------------------------------------------------------------------
(* The pipeline, as the bench sees it.                                     *)

LEMMA AbsPCWord == TypeOK => AbsPC \in Word
BY MemPCWord DEF TypeOK, AbsPC, BehindMEM, FrontPC

(* The pc + 4 of a stage that holds an instruction.                        *)
LEMMA StagePC4 ==
  ASSUME IInv
  PROVE  /\ live.mem => MemPC \in Word /\ ex_mem.PC4 = Adder32(MemPC, 4)
         /\ live.ex => id_ex.PC \in Word /\ id_ex.PC4 = Adder32(id_ex.PC, 4)
         /\ live.id => if_id.PC \in Word /\ if_id.PC4 = Adder32(if_id.PC, 4)
<1>1. ex_mem.PC4 \in Word
  BY DEF IInv, TypeOK
<1>2. ex_mem.PC4 = Adder32(MemPC, 4)
  BY <1>1, WordSizes DEF MemPC, Adder32, Word
<1>3. MemPC \in Word
  BY MemPCWord DEF IInv
<1>4. id_ex.PC \in Word /\ if_id.PC \in Word
  BY DEF IInv, TypeOK
<1> QED BY <1>2, <1>3, <1>4 DEF IInv, DecodeInv, ExecuteInv

(* A clock edge moves instructions by one stage or drops them; one of them *)
(* is in ID, EX or MEM after it.                                           *)
LEMMA StagesNext ==
  ASSUME IInv, NEW p \in Predictions, Clock(p)
  PROVE  /\ rom' = rom
         /\ AbsPC' = BehindMEM
         /\ live'.mem = live.ex
         /\ live.ex => MemPC' = id_ex.PC /\ mem_Inst' = ex_Inst
         /\ live'.ex => /\ live.id
                        /\ id_ex'.PC = if_id.PC /\ ex_Inst' = if_id.Inst
         /\ live'.id => if_id'.PC = pc \/ (live.id /\ if_id' = if_id)
         /\ live'.id \/ live'.ex \/ live'.mem
         /\ mem_wb'.PC4 = ex_mem.PC4
         /\ mem_wb'.RegWrite = ex_mem.RegWrite /\ mem_wb'.Rd = ex_mem.Rd
         /\ ~live'.mem => ex_mem'.PC4 = 0
<1> USE DEF IInv
<1>1. rom' = rom /\ live'.mem = live.ex
  BY DEF Clock
<1>2. AbsPC' = BehindMEM
  BY AbsPCNext
<1>3. live.ex => MemPC' = id_ex.PC /\ mem_Inst' = ex_Inst
  <2>1. live.ex => MemPC' = id_ex.PC
    BY MemPCNext
  <2> QED BY <2>1, <1>1 DEF mem_Inst, ex_Inst, RomAt
<1>4. live'.ex => /\ live.id
                  /\ id_ex'.PC = if_id.PC /\ ex_Inst' = if_id.Inst
  <2> SUFFICES ASSUME live'.ex
               PROVE  /\ live.id
                      /\ id_ex'.PC = if_id.PC /\ ex_Inst' = if_id.Inst
    OBVIOUS
  <2>1. hazard \in {JALJUMP, ADVANCE} /\ live.id
    BY WireTypes, RedirectEdge, StallEdge DEF Clock, REDIRECT, STALL
  <2>2. id_ex'.PC = if_id.PC
    BY <2>1, DecodeEdge
  <2> QED BY <2>1, <2>2, <1>1 DEF ex_Inst, DecodeInv, RomAt
<1>5. live'.id => if_id'.PC = pc \/ (live.id /\ if_id' = if_id)
  BY WireTypes, RedirectEdge, StallEdge, JalJumpEdge, AdvanceEdge
<1>6. live'.id \/ live'.ex \/ live'.mem
  <2>1. CASE hazard \in {REDIRECT, STALL}
    BY <2>1, <1>1, BubblesLemma DEF BubblesInert
  <2>2. CASE hazard = JALJUMP
    BY <2>2, JalJumpEdge, BubblesLemma DEF BubblesInert
  <2>3. CASE hazard = ADVANCE
    BY <2>3, AdvanceEdge
  <2> QED BY <2>1, <2>2, <2>3, WireTypes
<1>7. /\ mem_wb'.PC4 = ex_mem.PC4
      /\ mem_wb'.RegWrite = ex_mem.RegWrite /\ mem_wb'.Rd = ex_mem.Rd
  BY DEF Clock, MemWbRegister
<1>8. ~live'.mem => ex_mem'.PC4 = 0
  BY <1>1 DEF Clock, ExMemRegister, ExecuteInv, ZeroIdEx
<1> QED BY <1>1, <1>2, <1>3, <1>4, <1>5, <1>6, <1>7, <1>8

(* When the program is in its loop, so is all that follows it: the jump is *)
(* predicted to its target or waits in ID, and the nop is not predicted.   *)
LEMMA LoopBehind ==
  ASSUME IInv, LoopAt(AbsPC)
  PROVE  /\ LoopAt(BehindMEM) /\ LoopAt(FrontPC)
         /\ live.ex => LoopAt(id_ex.PC)
         /\ live.id => LoopAt(if_id.PC)
<1>1. TypeOK
  BY DEF IInv
<1>2. LoopAt(BehindMEM)
  <2>1. CASE live.mem
    <3>1. AbsPC = MemPC /\ LoopAt(MemPC)
      BY <2>1 DEF AbsPC
    <3>2. BehindMEM = Successor(mem_Inst, MemPC, AbsRegs[mem_Inst.rs1],
                                AbsRegs[mem_Inst.rs2])
      BY <2>1 DEF IInv, PathInv
    <3>3. \/ /\ mem_Inst.opcode = "JAL"
             /\ LoopAt(Adder32(MemPC, mem_Inst.imm))
          \/ /\ mem_Inst.opcode = "ALUI"
             /\ LoopAt(Adder32(MemPC, 4))
      BY <3>1, <1>1, LoopWord DEF mem_Inst
    <3>4. CASE mem_Inst.opcode = "JAL"
      BY <3>2, <3>3, <3>4 DEF Successor
    <3>5. CASE mem_Inst.opcode = "ALUI"
      BY <3>2, <3>3, <3>5 DEF Successor
    <3> QED BY <3>3, <3>4, <3>5
  <2>2. CASE ~live.mem
    BY <2>2 DEF AbsPC
  <2> QED BY <2>1, <2>2
<1>3. live.ex => LoopAt(id_ex.PC)
  BY <1>2 DEF BehindMEM
<1>4. LoopAt(FrontPC)
  <2>1. CASE live.ex
    <3>1. \/ ex_Inst.opcode = "JAL" /\ LoopAt(Adder32(id_ex.PC, ex_Inst.imm))
          \/ ex_Inst.opcode = "ALUI" /\ LoopAt(Adder32(id_ex.PC, 4))
      BY <2>1, <1>1, <1>3, LoopWord DEF ex_Inst
    <3>2. /\ id_ex.ctl = Controller(ex_Inst)
          /\ id_ex.PC4 = Adder32(id_ex.PC, 4)
          /\ id_ex.PCImm = Adder32(id_ex.PC, ex_Inst.imm)
          /\ id_ex.pred => ex_Inst.opcode \in {"BRANCH", "JAL"}
      BY <2>1 DEF IInv, ExecuteInv, Predictable
    <3>3. /\ id_ex.ctl.JAL <=> ex_Inst.opcode = "JAL"
          /\ id_ex.ctl.JALR <=> ex_Inst.opcode = "JALR"
      <4>1. ex_Inst \in Inst
        BY <1>1, RomType DEF TypeOK, ex_Inst
      <4> QED BY <3>2, <4>1, Flags
    <3>4. FrontPC = IF id_ex.ctl.JAL \/ id_ex.pred THEN id_ex.PCImm
                    ELSE id_ex.PC4
      BY <2>1, <3>1, <3>3 DEF IInv, SpeculationInv
    <3>5. CASE ex_Inst.opcode = "JAL"
      BY <3>1, <3>2, <3>3, <3>4, <3>5
    <3>6. CASE ex_Inst.opcode = "ALUI"
      BY <3>1, <3>2, <3>3, <3>4, <3>6
    <3> QED BY <3>1, <3>5, <3>6
  <2>2. CASE ~live.ex
    BY <2>2, <1>2 DEF BehindMEM
  <2> QED BY <2>1, <2>2
<1>5. live.id => LoopAt(if_id.PC)
  BY <1>4 DEF FrontPC
<1> QED BY <1>2, <1>3, <1>4, <1>5

-----------------------------------------------------------------------------
(* A rising edge.                                                          *)

Loops == arch.looped \/ (live.mem /\ InLoop(AbsPC))

Steps == live.mem /\ AbsPC < halt_pc

LEMMA ArchNext ==
  ASSUME Executed
  PROVE  /\ arch'.looped = Loops
         /\ arch'.strayed = (arch.strayed \/ (~Loops /\ AbsPC' > halt_pc))
         /\ arch'.insts = arch.insts + One(Steps)
         /\ arch'.branches
              = arch.branches + One(Steps /\ Arch!inst.opcode = "BRANCH")
         /\ arch'.taken
              = arch.taken
                  + One(Steps /\ Arch!inst.opcode = "BRANCH"
                          /\ BranchCond(Arch!Comparison,
                                        AbsRegs[Arch!inst.rs1],
                                        AbsRegs[Arch!inst.rs2]))
         /\ arch'.jals = arch.jals + One(Steps /\ Arch!inst.opcode = "JAL")
BY DEF Executed, Loops, Steps

(* On track, the instruction in MEM is before the loop or in it.           *)
LEMMA MemOnTrack ==
  ASSUME IInv, TrackInv, OnTrack, live.mem
  PROVE  /\ MemPC = AbsPC /\ mem_Inst = Arch!inst
         /\ halt_pc \in Nat /\ halt_pc <= WordSize - 4
         /\ \/ ~arch.looped /\ MemPC < halt_pc
            \/ LoopAt(MemPC) /\ Loops /\ (arch.looped \/ MemPC = halt_pc)
<1>1. TypeOK /\ MemPC = AbsPC /\ mem_Inst = Arch!inst
  BY MemInstType DEF IInv, AbsPC
<1>2. halt_pc_valid
  BY DEF OnTrack
<1>3. LoopAt(halt_pc) /\ halt_pc \in Nat /\ halt_pc <= WordSize - 4
  BY <1>1, <1>2, HaltInLoop
<1>4. AbsPC \in Nat
  BY <1>1, AbsPCWord, WordSizes DEF Word
<1>5. CASE arch.looped
  BY <1>1, <1>3, <1>5 DEF TrackInv, Loops
<1>6. CASE ~arch.looped /\ AbsPC = halt_pc
  <2>1. InLoop(AbsPC)
    BY <1>1, <1>3, <1>6, LoopWord
  <2> QED BY <2>1, <1>1, <1>3, <1>6 DEF Loops
<1>7. CASE ~arch.looped /\ AbsPC # halt_pc
  <2>1. AbsPC <= halt_pc
    BY <1>7 DEF TrackInv
  <2> QED BY <2>1, <1>1, <1>3, <1>4, <1>7
<1> QED BY <1>5, <1>6, <1>7

(* Where control was and where it goes, while the program is on track.     *)
LEMMA RiseTrack ==
  ASSUME IInv, TrackInv, NEW p \in Predictions, Clock(p), Executed, OnTrack'
  PROVE  /\ OnTrack
         /\ IF Loops THEN LoopAt(AbsPC) /\ LoopAt(BehindMEM)
            ELSE BehindMEM <= halt_pc
<1>1. rom' = rom /\ AbsPC' = BehindMEM
  BY StagesNext
<1>2. OnTrack /\ (Loops \/ ~(AbsPC' > halt_pc))
  BY <1>1, HaltKept, ArchNext DEF OnTrack
<1>3. TypeOK /\ halt_pc_valid
  BY <1>2 DEF IInv, OnTrack
<1>4. halt_pc \in Nat
  BY <1>3, HaltInLoop
<1>5. BehindMEM \in Nat
  BY <1>3, WordSizes DEF TypeOK, BehindMEM, FrontPC, Word
<1>6. CASE ~Loops
  BY <1>1, <1>2, <1>4, <1>5, <1>6
<1>7. CASE Loops
  <2>1. LoopAt(AbsPC)
    <3>1. CASE arch.looped
      BY <3>1, <1>2 DEF TrackInv
    <3>2. CASE ~arch.looped
      <4>1. live.mem /\ InLoop(AbsPC)
        BY <3>2, <1>7 DEF Loops
      <4>2. MemPC = AbsPC /\ (MemPC < halt_pc \/ LoopAt(MemPC))
        BY <4>1, <1>2, MemOnTrack
      <4>3. halt_pc <= AbsPC /\ AbsPC \in Nat
        BY <4>1, <1>3, AbsPCWord, WordSizes DEF InLoop, Word
      <4> QED BY <4>2, <4>3, <1>4
    <3> QED BY <3>1, <3>2
  <2>2. LoopAt(BehindMEM)
    BY <2>1, LoopBehind
  <2> QED BY <2>1, <2>2, <1>2, <1>7
<1> QED BY <1>2, <1>6, <1>7

LEMMA TrackRise ==
  ASSUME IInv, TrackInv, NEW p \in Predictions, Clock(p), Executed
  PROVE  TrackInv'
<1>1. rom' = rom /\ AbsPC' = BehindMEM
  BY StagesNext
<1>2. halt_pc' = halt_pc /\ (halt_pc_valid' <=> halt_pc_valid)
  BY <1>1, HaltKept
<1>3. arch'.looped = Loops
  BY ArchNext
<1>4. arch'.looped => halt_pc_valid'
  BY <1>2, <1>3 DEF TrackInv, Loops, InLoop
<1>5. ASSUME OnTrack'
      PROVE  IF arch'.looped THEN LoopAt(AbsPC)' ELSE AbsPC' <= halt_pc'
  <2>1. IF Loops THEN LoopAt(BehindMEM) ELSE BehindMEM <= halt_pc
    BY <1>5, RiseTrack
  <2>2. LoopAt(BehindMEM) => LoopAt(AbsPC)'
    BY <1>1 DEF LoopAt, NonzeroWords, IsLast, JumpsToItself, JumpsToNop,
                is_jal_x0
  <2> QED BY <2>1, <2>2, <1>1, <1>2, <1>3
<1> QED BY <1>4, <1>5 DEF TrackInv

LEMMA BeforeKept ==
  ASSUME rom' = rom, mem_wb'.PC4 = ex_mem.PC4
  PROVE  BeforeLoop(mem_wb.PC4)' <=> BeforeLoop(ex_mem.PC4)
BY HaltKept DEF BeforeLoop

(* A stage looks busy before the loop if it holds such an instruction.     *)
LEMMA StageBefore ==
  ASSUME IInv, RetiredInv, halt_pc_valid
  PROVE  /\ BeforeLoop(ex_mem.PC4) <=> (live.mem /\ MemPC < halt_pc)
         /\ BeforeLoop(id_ex.PC4) <=> (live.ex /\ id_ex.PC < halt_pc)
         /\ BeforeLoop(if_id.PC4) <=> (live.id /\ if_id.PC < halt_pc)
<1>1. halt_pc \in Nat /\ halt_pc <= WordSize - 4
  BY HaltInLoop DEF IInv
<1>2. ~live.mem => ex_mem.PC4 = 0
  BY DEF RetiredInv
<1>3. ~live.ex => id_ex.PC4 = 0
  BY DEF IInv, ExecuteInv, ZeroIdEx
<1>4. ~live.id => if_id.PC4 = 0
  BY DEF IInv, DecodeInv, ZeroIfId
<1>5. live.mem => (BeforeLoop(ex_mem.PC4) <=> MemPC < halt_pc)
  BY <1>1, StagePC4, BeforeIsBelow
<1>6. live.ex => (BeforeLoop(id_ex.PC4) <=> id_ex.PC < halt_pc)
  BY <1>1, StagePC4, BeforeIsBelow
<1>7. live.id => (BeforeLoop(if_id.PC4) <=> if_id.PC < halt_pc)
  BY <1>1, StagePC4, BeforeIsBelow
<1> QED BY <1>2, <1>3, <1>4, <1>5, <1>6, <1>7, NotBeforeZero

LEMMA RetiredRise ==
  ASSUME IInv, TrackInv, RetiredInv, SeenInv, SIM_END_REASON = "RUNNING",
         NEW p \in Predictions, Clock(p), Executed,
         halt_detected' = halt_detected
  PROVE  RetiredInv'
<1>1. rom' = rom /\ (~live'.mem => ex_mem'.PC4 = 0)
  BY StagesNext
<1> SUFFICES ASSUME OnTrack'
             PROVE  /\ wb_writes' => BeforeLoop(mem_wb.PC4)'
                    /\ arch'.looped => ~BeforeLoop(mem_wb.PC4)'
                    /\ mem_wb'.PC4 # 0 /\ ~halt_detected' =>
                         BeforeLoop(mem_wb.PC4)'
  BY <1>1 DEF RetiredInv
<1>2. /\ OnTrack
      /\ IF Loops THEN LoopAt(AbsPC) /\ LoopAt(BehindMEM)
         ELSE BehindMEM <= halt_pc
  BY RiseTrack
<1>3. TypeOK /\ halt_pc_valid
  BY <1>2 DEF IInv, OnTrack
<1>4. BeforeLoop(mem_wb.PC4)' <=> (live.mem /\ MemPC < halt_pc)
  BY <1>1, <1>3, StagesNext, BeforeKept, StageBefore
<1>5. ASSUME live.mem
      PROVE  \/ ~arch.looped /\ MemPC < halt_pc
             \/ LoopAt(MemPC) /\ Loops /\ (arch.looped \/ MemPC = halt_pc)
  BY <1>2, <1>5, MemOnTrack
<1>6. wb_writes' => BeforeLoop(mem_wb.PC4)'
  <2> SUFFICES ASSUME wb_writes' PROVE live.mem /\ MemPC < halt_pc
    BY <1>4
  <2>1. ex_mem.RegWrite /\ ex_mem.Rd # 0
    BY StagesNext DEF wb_writes
  <2>2. live.mem
    BY <2>1, BubblesLemma DEF BubblesInert, mem_writes
  <2>3. ex_mem.Rd = mem_Inst.rd
    BY <2>2 DEF IInv, MemoryInv
  <2>4. ~LoopAt(MemPC)
    BY <2>1, <2>3, <1>3, LoopWord DEF mem_Inst
  <2> QED BY <2>2, <2>4, <1>5
<1>7. arch'.looped => ~BeforeLoop(mem_wb.PC4)'
  <2> SUFFICES ASSUME Loops, live.mem PROVE ~(MemPC < halt_pc)
    BY <1>4, ArchNext
  <2>1. LoopAt(MemPC)
    BY <1>2 DEF AbsPC
  <2>2. MemPC \in Nat /\ halt_pc <= MemPC /\ halt_pc \in Nat
    BY <2>1, <1>3, LoopWord, HaltInLoop
  <2> QED BY <2>2
<1>8. mem_wb'.PC4 # 0 /\ ~halt_detected' => BeforeLoop(mem_wb.PC4)'
  <2> SUFFICES ASSUME mem_wb'.PC4 # 0, ~halt_detected
               PROVE  live.mem /\ MemPC < halt_pc
    BY <1>4
  <2>1. live.mem
    BY StagesNext DEF RetiredInv
  <2>2. ~arch.looped /\ MemPC # halt_pc
    BY <2>1, <1>2 DEF SeenInv
  <2> QED BY <2>1, <2>2, <1>5
<1> QED BY <1>6, <1>7, <1>8

LEMMA SeenRise ==
  ASSUME IInv, TrackInv, SeenInv, SIM_END_REASON = "RUNNING", clk = 0,
         NEW p \in Predictions, Clock(p), Executed,
         halt_detected' = halt_detected, clk' = 1
  PROVE  SeenInv'
<1>1. /\ rom' = rom
      /\ live'.id \/ live'.ex \/ live'.mem
  BY StagesNext
<1>2. halt_pc' = halt_pc /\ (halt_pc_valid' <=> halt_pc_valid)
  BY <1>1, HaltKept
<1>3. ASSUME OnTrack',
             \/ arch'.looped
             \/ live'.mem /\ MemPC' = halt_pc
             \/ live'.ex /\ id_ex'.PC = halt_pc
             \/ live'.id /\ if_id'.PC = halt_pc
      PROVE  halt_detected
  <2>1. OnTrack /\ (Loops => LoopAt(AbsPC))
    BY <1>3, RiseTrack
  <2>2. TypeOK /\ halt_pc_valid
    BY <2>1 DEF IInv, OnTrack
  <2>3. CASE arch'.looped
    <3>1. Loops
      BY <2>3, ArchNext
    <3>2. CASE live.mem /\ ~arch.looped
      <4>1. halt_pc <= AbsPC /\ AbsPC \in Nat /\ halt_pc \in Nat
        BY <2>1, <2>2, <3>1, LoopWord, HaltInLoop
      <4>2. MemPC = halt_pc
        BY <4>1, <3>2, <2>1, MemOnTrack
      <4> QED BY <4>2, <3>2, <2>1 DEF SeenInv
    <3>3. CASE arch.looped
      BY <3>3, <2>1 DEF SeenInv
    <3> QED BY <3>1, <3>2, <3>3 DEF Loops
  <2>4. CASE live'.mem /\ MemPC' = halt_pc
    <3>1. live.ex /\ id_ex.PC = halt_pc
      BY <2>4, StagesNext
    <3> QED BY <3>1, <2>1 DEF SeenInv
  <2>5. CASE live'.ex /\ id_ex'.PC = halt_pc
    <3>1. live.id /\ if_id.PC = halt_pc
      BY <2>5, StagesNext
    <3> QED BY <3>1, <2>1 DEF SeenInv
  <2>6. CASE live'.id /\ if_id'.PC = halt_pc
    <3>1. pc = halt_pc \/ (live.id /\ if_id.PC = halt_pc)
      BY <2>6, StagesNext
    <3> QED BY <3>1, <2>1 DEF SeenInv
  <2> QED BY <1>3, <2>3, <2>4, <2>5, <2>6
<1>4. halt_detected' => halt_pc_valid'
  BY <1>2 DEF SeenInv
<1> QED BY <1>1, <1>2, <1>3, <1>4 DEF SeenInv

-----------------------------------------------------------------------------
(* A falling edge: the pipeline is as it was.                              *)

LEMMA FallSame ==
  ASSUME UNCHANGED <<vars, arch>>
  PROVE  /\ halt_pc' = halt_pc /\ (halt_pc_valid' <=> halt_pc_valid)
         /\ (OnTrack' <=> OnTrack)
         /\ AbsPC' = AbsPC /\ AbsRegs' = AbsRegs /\ MemPC' = MemPC
         /\ (wb_writes' <=> wb_writes)
         /\ (BeforeLoop(mem_wb.PC4)' <=> BeforeLoop(mem_wb.PC4))
         /\ (InLoop(AbsPC)' <=> InLoop(AbsPC))
<1>1. rom' = rom
  BY DEF vars
<1>2. halt_pc' = halt_pc /\ (halt_pc_valid' <=> halt_pc_valid)
  BY <1>1, HaltKept
<1>3. OnTrack' <=> OnTrack
  BY <1>2 DEF OnTrack
<1>4. AbsPC' = AbsPC /\ MemPC' = MemPC
  BY DEF AbsPC, BehindMEM, FrontPC, MemPC, vars
<1>5. AbsRegs' = AbsRegs /\ (wb_writes' <=> wb_writes)
  BY DEF AbsRegs, wb_writes, wb_wdata, vars
<1>6. BeforeLoop(mem_wb.PC4)' <=> BeforeLoop(mem_wb.PC4)
  BY <1>2 DEF BeforeLoop, vars
<1>7. InLoop(AbsPC)' <=> InLoop(AbsPC)
  BY <1>1, <1>2, <1>4 DEF InLoop, RomAt
<1> QED BY <1>2, <1>3, <1>4, <1>5, <1>6, <1>7

LEMMA TrackFall ==
  ASSUME TrackInv, UNCHANGED <<vars, arch>>
  PROVE  TrackInv'
<1>1. LoopAt(AbsPC) => LoopAt(AbsPC)'
  BY FallSame DEF LoopAt, NonzeroWords, IsLast, JumpsToItself, JumpsToNop,
                  is_jal_x0, vars
<1> QED BY <1>1, FallSame DEF TrackInv

LEMMA RetiredFall ==
  ASSUME RetiredInv, UNCHANGED <<vars, arch>>, halt_detected => halt_detected'
  PROVE  RetiredInv'
BY FallSame DEF RetiredInv, vars

(* The loop is seen in the cycle in which it is fetched.                   *)
LEMMA SeenFall ==
  ASSUME SeenInv, UNCHANGED <<vars, arch>>, SIM_END_REASON = "RUNNING",
         clk = 1, clk' = 0, Sample \/ Timeout
  PROVE  SeenInv'
<1>1. /\ pc' = pc /\ live' = live /\ id_ex' = id_ex /\ if_id' = if_id
      /\ arch' = arch
  BY DEF vars
<1>2. halt_detected => halt_detected'
  BY DEF Sample, Timeout
<1>3. halt_detected' => halt_pc_valid'
  BY FallSame DEF SeenInv, Sample, Timeout
<1>4. ASSUME OnTrack', SIM_END_REASON' = "RUNNING", pc' = halt_pc'
      PROVE  halt_detected'
  <2>1. Sample /\ halt_pc_valid /\ pc = halt_pc
    BY <1>1, <1>4, FallSame DEF Timeout, finalize_simulation, OnTrack
  <2> QED BY <2>1 DEF Sample
<1> QED BY <1>1, <1>2, <1>3, <1>4, FallSame DEF SeenInv

(* When nothing before the loop is left in the pipeline, control is in it. *)
LEMMA DrainedInLoop ==
  ASSUME IInv, TrackInv, RetiredInv, OnTrack, ~useful_pipeline_active,
         live.id \/ live.ex \/ live.mem
  PROVE  LoopAt(AbsPC) /\ InLoop(AbsPC) /\ reg_Data = AbsRegs
<1>1. TypeOK /\ halt_pc_valid
  BY DEF IInv, OnTrack
<1>2. /\ ~BeforeLoop(if_id.PC4) /\ ~BeforeLoop(id_ex.PC4)
      /\ ~BeforeLoop(ex_mem.PC4) /\ ~BeforeLoop(mem_wb.PC4)
  BY DEF useful_pipeline_active
<1>3. /\ halt_pc \in Nat /\ LoopAt(halt_pc)
      /\ AbsPC \in Nat
  BY <1>1, HaltInLoop, AbsPCWord, WordSizes DEF Word
<1>4. ~(AbsPC < halt_pc)
  BY <1>1, <1>2, StageBefore DEF AbsPC, BehindMEM, FrontPC
<1>5. LoopAt(AbsPC)
  BY <1>3, <1>4 DEF TrackInv
<1>6. ~wb_writes
  BY <1>2 DEF RetiredInv
<1> QED BY <1>1, <1>5, <1>6, LoopWord DEF AbsRegs

LEMMA SamePointFall ==
  ASSUME IInv, TrackInv, RetiredInv, SeenInv, UNCHANGED <<vars, arch>>,
         SIM_END_REASON = "RUNNING", clk = 1, Sample \/ Timeout
  PROVE  SamePoint'
<1> SUFFICES ASSUME SIM_END_REASON' = "HALT_LOOP", ~arch'.strayed
             PROVE  reg_Data' = AbsRegs' /\ InLoop(AbsPC)'
  BY DEF SamePoint, Finished
<1>1. halt_detected /\ ~useful_pipeline_active
  BY DEF Sample, Timeout, finalize_simulation
<1>2. OnTrack /\ (live.id \/ live.ex \/ live.mem)
  BY <1>1 DEF SeenInv, OnTrack
<1>3. InLoop(AbsPC) /\ reg_Data = AbsRegs
  BY <1>1, <1>2, DrainedInLoop
<1> QED BY <1>3, FallSame DEF vars

(* Once the loop has been executed, nothing before it is left.             *)
LEMMA StopsFall ==
  ASSUME IInv, TrackInv, RetiredInv, SeenInv, UNCHANGED <<vars, arch>>,
         SIM_END_REASON = "RUNNING", Sample \/ Timeout
  PROVE  StopsInTime'
<1> SUFFICES ASSUME SIM_END_REASON' = "RUNNING", ~arch.strayed, arch.looped
             PROVE  FALSE
  BY DEF StopsInTime, vars
<1>1. OnTrack /\ LoopAt(AbsPC)
  BY DEF TrackInv, OnTrack
<1>2. TypeOK /\ halt_pc_valid /\ halt_pc \in Nat
  BY <1>1, HaltInLoop DEF IInv, OnTrack
<1>3. halt_detected /\ useful_pipeline_active
  BY <1>1 DEF SeenInv, Sample, Timeout, finalize_simulation
<1>4. ~BeforeLoop(mem_wb.PC4)
  BY <1>1 DEF RetiredInv
<1>5. ~(live.mem /\ MemPC < halt_pc)
  <2> SUFFICES ASSUME live.mem PROVE ~(MemPC < halt_pc)
    OBVIOUS
  <2>1. MemPC \in Nat /\ halt_pc <= MemPC
    BY <1>1, <1>2, LoopWord DEF AbsPC
  <2> QED BY <2>1, <1>2
<1>6. ~(live.ex /\ id_ex.PC < halt_pc)
  <2> SUFFICES ASSUME live.ex PROVE ~(id_ex.PC < halt_pc)
    OBVIOUS
  <2>1. id_ex.PC \in Nat /\ halt_pc <= id_ex.PC
    BY <1>1, <1>2, LoopBehind, LoopWord
  <2> QED BY <2>1, <1>2
<1>7. ~(live.id /\ if_id.PC < halt_pc)
  <2> SUFFICES ASSUME live.id PROVE ~(if_id.PC < halt_pc)
    OBVIOUS
  <2>1. if_id.PC \in Nat /\ halt_pc <= if_id.PC
    BY <1>1, <1>2, LoopBehind, LoopWord
  <2> QED BY <2>1, <1>2
<1> QED BY <1>2, <1>3, <1>4, <1>5, <1>6, <1>7, StageBefore
        DEF useful_pipeline_active

-----------------------------------------------------------------------------
(* The counters.                                                           *)

LEMMA InstsRise ==
  ASSUME IInv, TrackInv, RetiredInv, InstsInv, BenchTypeOK,
         SIM_END_REASON = "RUNNING", clk = 0,
         NEW p \in Predictions, Clock(p), Executed, clk' = 1, counts' = counts
  PROVE  InstsInv'
<1> SUFFICES ASSUME OnTrack'
             PROVE  counts.inst_num + One(BeforeLoop(mem_wb.PC4)')
                      = arch'.insts
  BY DEF InstsInv, One
<1>1. OnTrack /\ halt_pc_valid
  BY RiseTrack DEF OnTrack
<1>2. BeforeLoop(mem_wb.PC4)' <=> (live.mem /\ MemPC < halt_pc)
  BY <1>1, StagesNext, BeforeKept, StageBefore
<1>3. BeforeLoop(mem_wb.PC4)' <=> Steps
  BY <1>2 DEF Steps, AbsPC
<1>4. counts.inst_num = arch.insts
  BY <1>1 DEF InstsInv, PrefixCounted, One, BenchTypeOK
<1> QED BY <1>3, <1>4, ArchNext DEF One

LEMMA InstsFall ==
  ASSUME RetiredInv, InstsInv, BenchTypeOK, UNCHANGED <<vars, arch>>,
         SIM_END_REASON = "RUNNING", clk = 1, clk' = 0, Sample \/ Timeout
  PROVE  InstsInv'
<1> SUFFICES ASSUME OnTrack PROVE PrefixCounted'
  BY FallSame DEF InstsInv
<1>1. /\ counts.inst_num + One(BeforeLoop(mem_wb.PC4)) = arch.insts
      /\ counts.inst_num \in Int /\ arch.insts \in Int /\ arch' = arch
  BY DEF InstsInv, BenchTypeOK
<1>2. wb_counts <=> BeforeLoop(mem_wb.PC4)
  BY DEF wb_counts, RetiredInv, BeforeLoop
<1>3. CASE Sample
  <2>1. counts'.inst_num = counts.inst_num + One(BeforeLoop(mem_wb.PC4))
    BY <1>2, <1>3 DEF Sample, Count, One
  <2>2. SIM_END_REASON' # "MAXCYCLES_TIMEOUT"
    BY <1>3 DEF Sample, finalize_simulation
  <2> QED BY <1>1, <2>1, <2>2 DEF PrefixCounted, One
<1>4. CASE Timeout
  <2>1. /\ counts'.inst_num = counts.inst_num
        /\ SIM_END_REASON' = "MAXCYCLES_TIMEOUT"
    BY <1>4 DEF Timeout, finalize_simulation
  <2> QED BY <1>1, <2>1, FallSame DEF PrefixCounted, One
<1> QED BY <1>3, <1>4

(* The signals of EX are those of its instruction.                         *)
LEMMA BranchSignal ==
  ASSUME IInv
  PROVE  /\ id_ex.ctl.Branch <=> (live.ex /\ ex_Inst.opcode = "BRANCH")
         /\ live.ex => ex_Inst \in Inst /\ id_ex.ctl = Controller(ex_Inst)
<1>1. live.ex => ex_Inst \in Inst /\ id_ex.ctl = Controller(ex_Inst)
  BY RomType DEF IInv, TypeOK, ExecuteInv, ex_Inst
<1>2. ~live.ex => ~id_ex.ctl.Branch
  BY DEF IInv, ExecuteInv, ZeroIdEx, ZeroCtl
<1> QED BY <1>1, <1>2, Flags

(* A branch in EX resolves as it will when it completes.                   *)
LEMMA TakenNext ==
  ASSUME IInv, NEW p \in Predictions, Clock(p)
  PROVE  /\ BranchInMem' <=> BranchInEx
         /\ TakenInMem' <=> (BranchInEx /\ ex_Branch_taken)
<1> USE DEF IInv
<1>1. /\ rom' = rom /\ live'.mem = live.ex
      /\ live.ex => MemPC' = id_ex.PC /\ mem_Inst' = ex_Inst
  BY StagesNext
<1>2. BranchInMem' <=> BranchInEx
  BY <1>1, HaltKept DEF BranchInMem, BranchInEx
<1>3. ASSUME BranchInEx
      PROVE  ex_Branch_taken <=>
               BranchCond(Controller(ex_Inst).ALU_Ctrl,
                          AbsRegs'[ex_Inst.rs1], AbsRegs'[ex_Inst.rs2])
  <2>1. live.ex /\ ex_Inst.opcode = "BRANCH"
    BY <1>3 DEF BranchInEx
  <2>2. /\ id_ex.ctl = Controller(ex_Inst) /\ ex_Inst \in Inst
        /\ id_ex.Rs1 = ex_Inst.rs1 /\ id_ex.Rs2 = ex_Inst.rs2
    BY <2>1, BranchSignal DEF ExecuteInv
  <2>3. ~id_ex.ctl.ALUSrcA /\ ~id_ex.ctl.ALUSrcB /\ id_ex.ctl.Branch
    BY <2>1, <2>2, Flags
  <2>4. AbsRegs' = RegsAfterMEM
    BY RegsNext
  <2>5. /\ forwardA_data = RegsAfterMEM[id_ex.Rs1]
        /\ forwardB_data = RegsAfterMEM[id_ex.Rs2]
    BY <2>1, FreshLemma DEF OperandsFresh
  <2> QED BY <2>2, <2>3, <2>4, <2>5
          DEF ex_Branch_taken, ex_Branch_cond, alu_in1, alu_in2
<1>4. TakenInMem' <=> (BranchInEx /\ ex_Branch_taken)
  BY <1>1, <1>2, <1>3 DEF TakenInMem, BranchInEx
<1> QED BY <1>2, <1>4

(* The instruction in MEM, as the architecture executes it.                *)
LEMMA ExecutesMem ==
  ASSUME IInv
  PROVE  /\ BranchInMem <=> (Steps /\ Arch!inst.opcode = "BRANCH")
         /\ JalInMem <=> (Steps /\ Arch!inst.opcode = "JAL")
         /\ TakenInMem <=> /\ Steps /\ Arch!inst.opcode = "BRANCH"
                           /\ BranchCond(Arch!Comparison,
                                         AbsRegs[Arch!inst.rs1],
                                         AbsRegs[Arch!inst.rs2])
<1>1. live.mem => mem_Inst \in Inst /\ mem_Inst = Arch!inst /\ MemPC = AbsPC
  BY MemInstType DEF IInv, AbsPC
<1>2. /\ BranchInMem <=> (Steps /\ Arch!inst.opcode = "BRANCH")
      /\ JalInMem <=> (Steps /\ Arch!inst.opcode = "JAL")
  BY <1>1 DEF BranchInMem, JalInMem, Steps
<1>3. BranchInMem => Controller(mem_Inst).ALU_Ctrl = Arch!Comparison
  <2> DEFINE i == Arch!inst
  <2> HIDE DEF i
  <2>1. i \in Inst /\ i.opcode = "BRANCH" =>
          Controller(i).ALU_Ctrl = Arch!Comparison
    BY DecodesBranch
       DEF i, Arch!Comparison, Arch!ALU_OP_BEQ, Arch!ALU_OP_BNE,
           Arch!ALU_OP_BLT, Arch!ALU_OP_BGE, Arch!ALU_OP_BLTU,
           Arch!ALU_OP_BGEU, Arch!ALU_OP_XXX, ALU_OP_BEQ, ALU_OP_BNE,
           ALU_OP_BLT, ALU_OP_BGE, ALU_OP_BLTU, ALU_OP_BGEU, ALU_OP_XXX
  <2> QED BY <1>1, <2>1 DEF BranchInMem, i
<1> QED BY <1>1, <1>2, <1>3 DEF TakenInMem, BranchInMem

LEMMA NotStraying ==
  ASSUME IInv, TrackInv, NEW p \in Predictions, Clock(p), Executed, OnTrack'
  PROVE  ~Straying
<1> SUFFICES ASSUME Straying PROVE FALSE
  OBVIOUS
<1>1. /\ OnTrack
      /\ IF Loops THEN LoopAt(AbsPC) /\ LoopAt(BehindMEM)
         ELSE BehindMEM <= halt_pc
  BY RiseTrack
<1>2. TypeOK /\ halt_pc_valid /\ halt_pc \in Nat /\ LoopAt(halt_pc)
  BY <1>1, HaltInLoop DEF IInv, OnTrack
<1>3. live.ex /\ ex_Inst.opcode = "BRANCH" /\ id_ex.PC >= halt_pc
  BY DEF Straying
<1>4. BehindMEM = id_ex.PC /\ id_ex.PC \in Nat
  BY <1>2, <1>3, WordSizes DEF BehindMEM, TypeOK, Word
<1>5. ~LoopAt(id_ex.PC)
  BY <1>2, <1>3, LoopWord DEF ex_Inst
<1> QED BY <1>1, <1>2, <1>3, <1>4, <1>5

LEMMA BranchesRise ==
  ASSUME IInv, TrackInv, BranchesInv, BenchTypeOK,
         SIM_END_REASON = "RUNNING", clk = 0,
         NEW p \in Predictions, Clock(p), Executed, clk' = 1, counts' = counts
  PROVE  BranchesInv'
<1> SUFFICES ASSUME OnTrack'
             PROVE  /\ counts.branch_num = arch'.branches + One(BranchInMem')
                    /\ counts.branch_taken_num
                         = arch'.taken + One(TakenInMem')
  BY DEF BranchesInv, One
<1>1. OnTrack /\ ~Straying
  BY RiseTrack, NotStraying
<1>2. /\ counts.branch_num
           = arch.branches + One(BranchInMem) + One(BranchInEx)
      /\ counts.branch_taken_num
           = arch.taken + One(TakenInMem) + One(BranchInEx /\ ex_Branch_taken)
  BY <1>1 DEF BranchesInv
<1>3. /\ arch'.branches = arch.branches + One(BranchInMem)
      /\ arch'.taken = arch.taken + One(TakenInMem)
  BY ArchNext, ExecutesMem DEF One
<1>4. /\ One(BranchInMem') = One(BranchInEx)
      /\ One(TakenInMem') = One(BranchInEx /\ ex_Branch_taken)
  BY TakenNext DEF One
<1> QED BY <1>2, <1>3, <1>4

(* Nothing that the counters depend on but the counters changes.           *)
LEMMA CountedSame ==
  ASSUME UNCHANGED <<vars, arch>>
  PROVE  /\ (BranchInMem' <=> BranchInMem) /\ (BranchInEx' <=> BranchInEx)
         /\ (TakenInMem' <=> TakenInMem)
         /\ (ex_Branch_taken' <=> ex_Branch_taken)
         /\ (JalInMem' <=> JalInMem) /\ (JalInEx' <=> JalInEx)
         /\ (JalInId' <=> JalInId)
         /\ (Straying' <=> Straying)
<1>1. mem_Inst' = mem_Inst /\ ex_Inst' = ex_Inst
  BY FallSame DEF mem_Inst, ex_Inst, RomAt, vars
<1>2. forwardA_data' = forwardA_data /\ forwardB_data' = forwardB_data
  BY DEF forwardA_data, forwardB_data, Forward, mem_writes, mem_wdata,
         wb_writes, wb_wdata, vars
<1>3. ex_Branch_taken' <=> ex_Branch_taken
  BY <1>2 DEF ex_Branch_taken, ex_Branch_cond, alu_in1, alu_in2, vars
<1>4. TakenInMem' <=> TakenInMem
  BY <1>1, FallSame DEF TakenInMem, BranchInMem, vars
<1> QED BY <1>1, <1>3, <1>4, FallSame
        DEF BranchInMem, BranchInEx, JalInMem, JalInEx, JalInId, Straying, vars

LEMMA BranchesFall ==
  ASSUME IInv, BranchesInv, BenchTypeOK, UNCHANGED <<vars, arch>>,
         SIM_END_REASON = "RUNNING", clk = 1, clk' = 0, Sample \/ Timeout
  PROVE  BranchesInv'
<1> SUFFICES ASSUME OnTrack, ~Straying, Sample
             PROVE  /\ counts'.branch_num
                         = arch.branches + One(BranchInMem) + One(BranchInEx)
                    /\ counts'.branch_taken_num
                         = arch.taken + One(TakenInMem)
                             + One(BranchInEx /\ ex_Branch_taken)
  <2>1. SIM_END_REASON' # "MAXCYCLES_TIMEOUT" => Sample
    BY DEF Timeout, finalize_simulation
  <2> QED BY <2>1, FallSame, CountedSame DEF BranchesInv, One
<1>1. /\ counts.branch_num = arch.branches + One(BranchInMem)
      /\ counts.branch_taken_num = arch.taken + One(TakenInMem)
  BY DEF BranchesInv
<1>2. branch_counts <=> BranchInEx
  <2>1. halt_pc \in Nat
    BY HaltInLoop DEF OnTrack, IInv
  <2>2. id_ex.PC \in Nat
    BY WordSizes DEF IInv, TypeOK, Word
  <2> QED BY <2>1, <2>2, BranchSignal DEF branch_counts, BranchInEx, Straying
<1>3. /\ counts'.branch_num = counts.branch_num + One(branch_counts)
      /\ counts'.branch_taken_num
           = counts.branch_taken_num + One(branch_counts /\ ex_Branch_taken)
  BY DEF Sample, Count
<1> QED BY <1>1, <1>2, <1>3 DEF One

LEMMA JalsRise ==
  ASSUME IInv, TrackInv, JalsInv, BenchTypeOK,
         SIM_END_REASON = "RUNNING", clk = 0,
         NEW p \in Predictions, Clock(p), Executed, clk' = 1, counts' = counts
  PROVE  JalsInv'
<1> SUFFICES ASSUME OnTrack'
             PROVE  counts.jal_num >= arch'.jals + One(JalInMem')
                                        + One(JalInEx') + 0
  BY DEF JalsInv, One
<1>1. OnTrack
  BY RiseTrack
<1>2. counts.jal_num >= arch.jals + One(JalInMem) + One(JalInEx)
                          + One(JalInId)
  BY <1>1 DEF JalsInv, One
<1>3. arch'.jals = arch.jals + One(JalInMem)
  BY ArchNext, ExecutesMem DEF One
<1>4. (JalInMem' <=> JalInEx) /\ (JalInEx' => JalInId)
  BY StagesNext, HaltKept DEF JalInMem, JalInEx, JalInId
<1> QED BY <1>2, <1>3, <1>4 DEF One, BenchTypeOK

LEMMA JalsFall ==
  ASSUME IInv, JalsInv, BenchTypeOK, UNCHANGED <<vars, arch>>,
         SIM_END_REASON = "RUNNING", clk = 1, clk' = 0, Sample \/ Timeout
  PROVE  JalsInv'
<1> SUFFICES ASSUME OnTrack, Sample
             PROVE  counts'.jal_num >= arch.jals + One(JalInMem)
                                         + One(JalInEx) + One(JalInId)
  <2>1. SIM_END_REASON' # "MAXCYCLES_TIMEOUT" => Sample
    BY DEF Timeout, finalize_simulation
  <2> QED BY <2>1, FallSame, CountedSame DEF JalsInv, One
<1>1. counts.jal_num >= arch.jals + One(JalInMem) + One(JalInEx)
  BY DEF JalsInv, One, BenchTypeOK
<1>2. JalInId => jal_counts
  <2>1. if_id.Inst \in Inst
    BY DEF IInv, TypeOK
  <2> QED BY <2>1, Flags DEF JalInId, jal_counts, id_ctl
<1>3. counts'.jal_num = counts.jal_num + One(jal_counts)
  BY DEF Sample, Count
<1> QED BY <1>1, <1>2, <1>3 DEF One, BenchTypeOK

LEMMA CountsFall ==
  ASSUME IInv, TrackInv, RetiredInv, SeenInv, UNCHANGED <<vars, arch>>,
         SIM_END_REASON = "RUNNING", clk = 1, clk' = 0, Sample \/ Timeout,
         InstsInv', BranchesInv', JalsInv', BenchTypeOK'
  PROVE  CountsTrue'
<1>1. clk' = 0 /\ halt_pc_valid' /\ ~arch'.strayed => PrefixCounted'
  BY DEF InstsInv, OnTrack
<1>2. ASSUME SIM_END_REASON' = "HALT_LOOP", ~arch'.strayed
      PROVE  BranchesOnce' /\ NoJalMissed'
  <2>1. halt_detected /\ ~useful_pipeline_active
    BY <1>2 DEF Sample, Timeout, finalize_simulation
  <2>2. OnTrack /\ (live.id \/ live.ex \/ live.mem)
    BY <1>2, <2>1 DEF SeenInv, OnTrack
  <2>3. TypeOK /\ halt_pc_valid
    BY <2>2 DEF IInv, OnTrack
  <2>4. /\ ~(live.mem /\ MemPC < halt_pc) /\ ~(live.ex /\ id_ex.PC < halt_pc)
    BY <2>1, <2>3, StageBefore DEF useful_pipeline_active
  <2>5. ~BranchInMem /\ ~BranchInEx /\ ~TakenInMem /\ ~JalInMem /\ ~JalInEx
    BY <2>4 DEF BranchInMem, BranchInEx, TakenInMem, JalInMem, JalInEx
  <2>6. ~Straying
    <3>1. live.ex => LoopAt(id_ex.PC)
      BY <2>1, <2>2, DrainedInLoop, LoopBehind
    <3> QED BY <3>1, <2>3, LoopWord DEF Straying, ex_Inst
  <2>7. OnTrack'
    BY <2>2, FallSame
  <2>8. BranchesOnce'
    BY <1>2, <2>5, <2>6, <2>7, CountedSame
       DEF BranchesInv, BranchesOnce, One, BenchTypeOK
  <2>9. NoJalMissed'
    <3>1. counts'.jal_num >= arch'.jals + 0 + 0 + One(JalInId)
      BY <1>2, <2>5, <2>7, CountedSame DEF JalsInv, One
    <3> QED BY <3>1 DEF NoJalMissed, One, BenchTypeOK
  <2> QED BY <2>8, <2>9
<1> QED BY <1>1, <1>2 DEF CountsTrue, Finished

-----------------------------------------------------------------------------
(* The invariant.                                                          *)

LEMMA TypesRise ==
  ASSUME BenchTypeOK, Executed, clk' = 1, SIM_END_REASON = "RUNNING",
         UNCHANGED <<halt_detected, SIM_END_REASON, counts>>
  PROVE  BenchTypeOK'
<1>1. \A c \in {"inst_num", "branch_num", "branch_taken_num", "jal_num"} :
        counts'[c] \in Int
  BY DEF BenchTypeOK
<1>2. \A c \in {"insts", "branches", "taken", "jals"} : arch'[c] \in Int
  BY ArchNext DEF BenchTypeOK, One
<1> QED BY <1>1, <1>2 DEF BenchTypeOK

LEMMA TypesFall ==
  ASSUME BenchTypeOK, arch' = arch, clk' = 0, Sample \/ Timeout,
         SIM_END_REASON = "RUNNING"
  PROVE  BenchTypeOK'
<1>1. \A c \in {"inst_num", "branch_num", "branch_taken_num", "jal_num"} :
        counts'[c] \in Int
  BY DEF BenchTypeOK, Sample, Timeout, Count, One
<1>2. halt_detected' \in BOOLEAN
  BY DEF BenchTypeOK, Sample, Timeout
<1>3. SIM_END_REASON' \in {"RUNNING", "HALT_LOOP", "MAXCYCLES_TIMEOUT"}
  BY DEF Sample, Timeout, finalize_simulation
<1> QED BY <1>1, <1>2, <1>3 DEF BenchTypeOK

LEMMA RiseKeeps ==
  ASSUME IInv, BenchInv, Rise
  PROVE  BenchInv'
<1> USE DEF BenchInv
<1>1. PICK p \in Predictions : Clock(p)
  BY TickClock DEF Rise
<1>2. /\ SIM_END_REASON = "RUNNING" /\ clk = 0 /\ clk' = 1 /\ Executed
      /\ UNCHANGED <<negedges, halt_detected, SIM_END_REASON, counts>>
  BY DEF Rise
<1>3. BenchTypeOK'
  BY <1>2, TypesRise
<1>4. TrackInv'
  BY <1>1, <1>2, TrackRise
<1>5. RetiredInv'
  BY <1>1, <1>2, RetiredRise
<1>6. SeenInv'
  BY <1>1, <1>2, SeenRise
<1>7. InstsInv'
  BY <1>1, <1>2, InstsRise
<1>8. BranchesInv'
  BY <1>1, <1>2, BranchesRise
<1>9. JalsInv'
  BY <1>1, <1>2, JalsRise
<1>10. SamePoint' /\ StopsInTime' /\ CountsTrue'
  BY <1>2 DEF SamePoint, StopsInTime, CountsTrue, Finished
<1> QED BY <1>3, <1>4, <1>5, <1>6, <1>7, <1>8, <1>9, <1>10

LEMMA FallKeeps ==
  ASSUME IInv, BenchInv, Fall
  PROVE  BenchInv'
<1> USE DEF BenchInv
<1>1. /\ SIM_END_REASON = "RUNNING" /\ clk = 1 /\ clk' = 0
      /\ Sample \/ Timeout
      /\ UNCHANGED <<vars, arch>> /\ arch' = arch
  BY DEF Fall
<1>2. halt_detected => halt_detected'
  BY <1>1 DEF Sample, Timeout
<1>3. BenchTypeOK'
  BY <1>1, TypesFall
<1>4. TrackInv'
  BY <1>1, TrackFall
<1>5. RetiredInv'
  BY <1>1, <1>2, RetiredFall
<1>6. SeenInv'
  BY <1>1, SeenFall
<1>7. InstsInv'
  BY <1>1, InstsFall
<1>8. BranchesInv'
  BY <1>1, BranchesFall
<1>9. JalsInv'
  BY <1>1, JalsFall
<1>10. SamePoint'
  BY <1>1, SamePointFall
<1>11. StopsInTime'
  BY <1>1, StopsFall
<1>12. CountsTrue'
  BY <1>1, <1>3, <1>7, <1>8, <1>9, CountsFall
<1> QED BY <1>3, <1>4, <1>5, <1>6, <1>7, <1>8, <1>9, <1>10, <1>11, <1>12

LEMMA BenchStutters ==
  ASSUME BenchInv, UNCHANGED <<vars, benchVars>>
  PROVE  BenchInv'
<1>1. UNCHANGED <<vars, arch>> /\ clk' = clk /\ halt_detected' = halt_detected
      /\ SIM_END_REASON' = SIM_END_REASON /\ counts' = counts
  BY DEF benchVars
<1>2. BenchTypeOK' /\ TrackInv' /\ RetiredInv'
  BY <1>1, TrackFall, RetiredFall DEF BenchInv, BenchTypeOK
<1>3. SeenInv'
  BY <1>1, FallSame DEF BenchInv, SeenInv, vars
<1>4. PrefixCounted' <=> PrefixCounted
  BY <1>1, FallSame DEF PrefixCounted, One
<1>5. InstsInv' /\ BranchesInv' /\ JalsInv'
  BY <1>1, <1>4, FallSame, CountedSame
     DEF BenchInv, InstsInv, BranchesInv, JalsInv, One
<1>6. SamePoint' /\ StopsInTime' /\ CountsTrue'
  BY <1>1, <1>4, FallSame
     DEF BenchInv, SamePoint, StopsInTime, CountsTrue, Finished, BranchesOnce,
         NoJalMissed, vars
<1> QED BY <1>2, <1>3, <1>5, <1>6 DEF BenchInv

LEMMA BenchStarts ==
  ASSUME BenchInit
  PROVE  BenchInv
<1>1. /\ live = NoneLive /\ ex_mem = ZeroExMem /\ mem_wb = ZeroMemWb
      /\ pc = 0 /\ rom \in Rom
      /\ clk = 1 /\ SIM_END_REASON = "RUNNING" /\ halt_detected = FALSE
      /\ ~arch.looped /\ ~arch.strayed
  BY InitType DEF BenchInit, Init, TypeOK
<1>2. IInv /\ TypeOK
  BY InitIInv DEF BenchInit, IInv
<1>3. ~live.id /\ ~live.ex /\ ~live.mem
  BY <1>1 DEF NoneLive
<1>4. AbsPC = 0 /\ mem_wb.PC4 = 0 /\ ex_mem.PC4 = 0 /\ ~wb_writes
  BY <1>1, <1>3 DEF AbsPC, BehindMEM, FrontPC, ZeroMemWb, ZeroExMem, wb_writes
<1>5. BenchTypeOK
  <2>1. /\ counts.inst_num = 0 /\ counts.branch_num = 0
        /\ counts.branch_taken_num = 0 /\ counts.jal_num = 0
    BY DEF BenchInit
  <2>2. /\ arch.insts = 0 /\ arch.branches = 0 /\ arch.taken = 0
        /\ arch.jals = 0
    BY DEF BenchInit
  <2>3. \A c \in {"inst_num", "branch_num", "branch_taken_num", "jal_num"} :
          counts[c] \in Int
    BY <2>1
  <2>4. \A c \in {"insts", "branches", "taken", "jals"} : arch[c] \in Int
    BY <2>2
  <2>5. clk \in {0, 1} /\ halt_detected \in BOOLEAN
    BY <1>1
  <2> QED BY <1>1, <2>3, <2>4, <2>5 DEF BenchTypeOK
<1>6. TrackInv
  BY <1>1, <1>2, <1>4, HaltInLoop DEF TrackInv, OnTrack
<1>7. RetiredInv
  BY <1>1, <1>4 DEF RetiredInv
<1>8. SeenInv
  BY <1>1, <1>3 DEF SeenInv
<1>9. InstsInv
  BY <1>1, <1>4, NotBeforeZero DEF BenchInit, InstsInv, One
<1>10. BranchesInv /\ JalsInv
  BY <1>1, <1>3
     DEF BenchInit, BranchesInv, JalsInv, BranchInMem, TakenInMem, JalInMem,
         JalInEx, One
<1>11. SamePoint /\ StopsInTime /\ CountsTrue
  BY <1>1 DEF SamePoint, StopsInTime, CountsTrue, Finished
<1> QED BY <1>5, <1>6, <1>7, <1>8, <1>9, <1>10, <1>11 DEF BenchInv

(* The processor in the bench behaves as Cpu allows, and the bench is      *)
(* never wrong about it.                                                   *)
THEOREM BenchInductive == BenchSpec => [](IInv /\ BenchInv)
<1>1. BenchInit => IInv /\ BenchInv
  BY InitIInv, BenchStarts DEF BenchInit
<1>2. IInv /\ BenchInv /\ [BenchNext]_<<vars, benchVars>>
        => (IInv /\ BenchInv)'
  <2>1. CASE Rise
    <3>1. PICK p \in Predictions : Clock(p)
      BY <2>1, TickClock DEF Rise
    <3> QED BY <2>1, <3>1, ClockIInv, RiseKeeps
  <2>2. CASE Fall
    BY <2>2, StutterIInv, FallKeeps DEF Fall
  <2>3. CASE UNCHANGED <<vars, benchVars>>
    BY <2>3, StutterIInv, BenchStutters
  <2> QED BY <2>1, <2>2, <2>3 DEF BenchNext
<1> QED BY <1>1, <1>2, PTL DEF BenchSpec

(* At the end of a run the registers are those of the architecture, and    *)
(* the program is about to run its terminal loop or in it.                 *)
THEOREM EndsAtSamePoint == BenchSpec => []SamePoint
<1>1. BenchInv => SamePoint
  BY DEF BenchInv
<1> QED BY <1>1, BenchInductive, PTL

(* The run has ended when the loop has been executed once.                 *)
THEOREM EndsInTime == BenchSpec => []StopsInTime
<1>1. BenchInv => StopsInTime
  BY DEF BenchInv
<1> QED BY <1>1, BenchInductive, PTL

(* Instructions, branches and taken branches are counted once each, and no *)
(* JAL is missed.                                                          *)
THEOREM CountsAreTrue == BenchSpec => []CountsTrue
<1>1. BenchInv => CountsTrue
  BY DEF BenchInv
<1> QED BY <1>1, BenchInductive, PTL

-----------------------------------------------------------------------------
(* The cycles.                                                             *)

(* What the architecture counts as lost, and what the bench counts.        *)
LEMMA CyclesNext ==
  /\ Executed => arch'.lost = arch.lost + Lost
  /\ Sample => counts'.cycle_num = counts.cycle_num + One(active_cycle)
  BY DEF Executed, Sample, Count

(* EX is followed by an instruction in ID, except behind a jump.           *)
LEMMA FollowedNext ==
  ASSUME IInv, NEW p \in Predictions, Clock(p)
  PROVE  live'.ex /\ ~live'.id => id_ex'.ctl.JAL
<1>1. CASE hazard \in {REDIRECT, STALL}
  BY <1>1, RedirectEdge, StallEdge DEF IInv
<1>2. CASE hazard = JALJUMP
  BY <1>2, JalJumpEdge, DecodeEdge DEF IInv
<1>3. CASE hazard = ADVANCE
  BY <1>3, AdvanceEdge DEF IInv
<1> QED BY <1>1, <1>2, <1>3, WireTypes DEF IInv

(* What stalls the pipeline or redirects it is no jump and in EX.          *)
LEMMA HazardInEx ==
  ASSUME IInv, hazard \in {REDIRECT, STALL}
  PROVE  /\ live.ex /\ ~id_ex.ctl.JAL
         /\ ex_Inst.opcode \in {"JALR", "BRANCH", "LOAD"}
<1>1. live.ex
  BY BubblesLemma DEF BubblesInert
<1>2. ex_Inst \in Inst /\ id_ex.ctl = Controller(ex_Inst)
  BY <1>1, BranchSignal
<1>3. \/ id_ex.ctl.JALR \/ id_ex.ctl.Branch
      \/ id_ex.ctl.MemRead # MEMREAD_NOP
  BY DEF hazard, ex_pred_fail, load_use_hazard,
         REDIRECT, STALL, JALJUMP, ADVANCE
<1>4. ex_Inst.opcode \in {"JALR", "BRANCH", "LOAD"}
  <2>1. id_ex.ctl.MemRead # MEMREAD_NOP => ex_Inst.opcode = "LOAD"
    BY <1>2 DEF Controller
  <2> QED BY <1>2, <1>3, <2>1, Flags
<1>5. ~id_ex.ctl.JAL
  BY <1>2, <1>4, Flags
<1> QED BY <1>1, <1>4, <1>5

(* Before the loop: the bubbles behind MEM move on, those that are made    *)
(* are lost.                                                               *)
LEMMA BubblesNext ==
  ASSUME IInv, live.ex /\ ~live.id => id_ex.ctl.JAL,
         NEW p \in Predictions, Clock(p)
  PROVE  Bubbles' = One(~live.ex /\ FrontPC < halt_pc)
                      + One(~live.id /\ pc < halt_pc) + Lost
<1>1. TypeOK
  BY DEF IInv
<1>2. halt_pc' = halt_pc /\ live'.mem = live.ex
  BY StagesNext, HaltKept
<1>3. Bubbles' = One(~live'.mem /\ BehindMEM' < halt_pc)
                   + One(~live'.ex /\ FrontPC' < halt_pc)
                   + One(~live'.id /\ pc' < halt_pc)
  BY <1>2 DEF Bubbles, One
<1>4. CASE hazard = REDIRECT
  <2>1. live.ex /\ live.id
    BY <1>4, HazardInEx
  <2>2. ~live'.ex /\ ~live'.id /\ live'.mem /\ FrontPC' = pc'
    BY <1>4, <2>1, RedirectEdge DEF FrontPC
  <2>3. Lost = IF pc' < halt_pc THEN 2 ELSE 0
    BY <1>4 DEF Lost, REDIRECT, STALL, JALJUMP
  <2> QED BY <1>3, <2>1, <2>2, <2>3 DEF One
<1>5. CASE hazard = STALL
  <2>1. live.ex /\ live.id
    BY <1>5, HazardInEx
  <2>2. ~live'.ex /\ live'.id /\ live'.mem /\ FrontPC' = if_id.PC
    BY <1>1, <1>5, <2>1, StallEdge DEF FrontPC
  <2>3. Lost = IF if_id.PC < halt_pc THEN 1 ELSE 0
    BY <1>5 DEF Lost, REDIRECT, STALL, JALJUMP
  <2> QED BY <1>3, <2>1, <2>2, <2>3 DEF One
<1>6. CASE hazard = JALJUMP
  <2>1. live.id
    BY <1>6, BubblesLemma DEF BubblesInert
  <2>2. live'.ex /\ ~live'.id /\ id_ex'.PC = if_id.PC
    BY <1>1, <1>6, <2>1, JalJumpEdge, DecodeEdge
  <2>3. BehindMEM' = if_id.PC /\ FrontPC = if_id.PC
    BY <2>1, <2>2 DEF BehindMEM, FrontPC
  <2>4. Lost = IF pc' < halt_pc THEN 1 ELSE 0
    BY <1>6 DEF Lost, REDIRECT, STALL, JALJUMP
  <2> QED BY <1>2, <1>3, <2>1, <2>2, <2>3, <2>4 DEF One
<1>7. CASE hazard = ADVANCE
  <2>1. live'.id /\ live'.ex = live.id /\ if_id'.PC = pc
    BY <1>1, <1>7, AdvanceEdge
  <2>2. live.id => id_ex'.PC = if_id.PC
    BY <1>1, <1>7, DecodeEdge
  <2>3. FrontPC' = pc /\ BehindMEM' = FrontPC
    BY <2>1, <2>2 DEF FrontPC, BehindMEM
  <2>4. Lost = 0
    BY <1>7 DEF Lost, REDIRECT, STALL, JALJUMP, ADVANCE
  <2> QED BY <1>2, <1>3, <2>1, <2>3, <2>4 DEF One
<1> QED BY <1>1, <1>4, <1>5, <1>6, <1>7, WireTypes

(* In the loop, no bubble delays anything before it, and none is made that *)
(* would.                                                                  *)
LEMMA NothingLost ==
  ASSUME IInv, LoopAt(AbsPC), NEW p \in Predictions, Clock(p)
  PROVE  /\ ~(AbsPC < halt_pc) /\ ~(BehindMEM < halt_pc)
         /\ Bubbles = 0 /\ Lost = 0
<1>1. TypeOK
  BY DEF IInv
<1>2. /\ LoopAt(BehindMEM) /\ LoopAt(FrontPC)
      /\ live.ex => LoopAt(id_ex.PC)
      /\ live.id => LoopAt(if_id.PC)
  BY LoopBehind
<1>3. halt_pc \in Nat
  BY <1>1, LoopWord, HaltInLoop DEF InLoop
<1>4. \A a : LoopAt(a) => ~(a < halt_pc)
  <2> SUFFICES ASSUME NEW a, LoopAt(a) PROVE ~(a < halt_pc)
    OBVIOUS
  <2>1. a \in Nat /\ halt_pc <= a
    BY <1>1, LoopWord
  <2> QED BY <1>3, <2>1
<1>5. Bubbles = 0
  BY <1>2, <1>4 DEF Bubbles, One, FrontPC
<1>6. hazard \notin {REDIRECT, STALL}
  <2> SUFFICES ASSUME hazard \in {REDIRECT, STALL} PROVE FALSE
    OBVIOUS
  <2>1. LoopAt(id_ex.PC) /\ ex_Inst.opcode \in {"JALR", "BRANCH", "LOAD"}
    BY <1>2, HazardInEx
  <2> QED BY <1>1, <2>1, LoopWord DEF ex_Inst
<1>7. hazard = JALJUMP => ~(pc' < halt_pc)
  <2> SUFFICES ASSUME hazard = JALJUMP PROVE ~(pc' < halt_pc)
    OBVIOUS
  <2>1. live.id
    BY BubblesLemma DEF BubblesInert
  <2>2. pc' = id_PCImm /\ id_ctl.JAL
    BY <1>1, JalJumpEdge
  <2>3. if_id.Inst \in Inst /\ if_id.Inst = RomAt(rom, if_id.PC)
    BY <2>1 DEF IInv, TypeOK, DecodeInv
  <2>4. if_id.Inst.opcode = "JAL"
    BY <2>2, <2>3, Flags DEF id_ctl
  <2>5. LoopAt(Adder32(if_id.PC, if_id.Inst.imm))
    BY <1>1, <1>2, <2>1, <2>3, <2>4, LoopWord
  <2> QED BY <1>4, <2>2, <2>5 DEF id_PCImm
<1>8. Lost = 0
  BY <1>6, <1>7 DEF Lost
<1> QED BY <1>2, <1>4, <1>5, <1>8

LEMMA CyclesRise ==
  ASSUME IInv, BenchInv, CyclesInv, SIM_END_REASON = "RUNNING", clk = 0,
         NEW p \in Predictions, Clock(p), Executed, clk' = 1,
         UNCHANGED <<halt_detected, SIM_END_REASON, counts>>
  PROVE  CyclesInv'
<1>1. /\ rom' = rom /\ AbsPC' = BehindMEM
      /\ live'.id \/ live'.ex \/ live'.mem
  BY StagesNext
<1>2. halt_pc' = halt_pc
  BY <1>1, HaltKept
<1>3. RomAt(rom', 0) # ZeroInst
  BY <1>1 DEF CyclesInv
<1>4. live'.ex /\ ~live'.id => id_ex'.ctl.JAL
  BY FollowedNext
<1>5. Lost \in Int /\ arch'.lost = arch.lost + Lost
  BY CyclesNext DEF Lost
<1>6. arch'.insts = arch.insts + One(Steps) /\ arch.insts \in Int
  BY ArchNext DEF BenchInv, BenchTypeOK
<1>7. arch'.insts # 0 => halt_pc' > 0
  <2>1. Steps => halt_pc > 0
    <3>1. AbsPC \in Nat
      BY AbsPCWord, WordSizes DEF IInv, Word
    <3>2. halt_pc \in Nat
      BY HaltInLoop DEF IInv, halt_pc
    <3> QED BY <3>1, <3>2 DEF Steps
  <2> QED BY <1>2, <1>6, <2>1 DEF CyclesInv, One
<1>8. ASSUME OnTrack', halt_pc > 0
      PROVE  counts.cycle_num + (IF Drained' THEN 0 ELSE Bubbles' + 1)
               = arch'.insts + arch'.lost + 5
  <2>1. OnTrack /\ halt_pc_valid
    BY <1>8, RiseTrack DEF BenchInv, OnTrack
  <2>2. counts.cycle_num + (IF Drained THEN 0 ELSE Bubbles)
          = arch.insts + arch.lost + 5
    BY <1>8, <2>1 DEF CyclesInv, Bubbles, One
  <2>3. BeforeLoop(mem_wb.PC4)' <=> Steps
    BY <2>1, StagesNext, BeforeKept, StageBefore DEF BenchInv, Steps, AbsPC
  <2>4. Drained' <=> ~(BehindMEM < halt_pc) /\ ~Steps
    BY <1>1, <1>2, <2>3 DEF Drained
  <2>5. CASE AbsPC < halt_pc
    <3>1. ~Drained /\ ~Drained'
      BY <2>4, <2>5 DEF Drained, Steps, AbsPC
    <3>2. One(~live.mem /\ BehindMEM < halt_pc) + One(Steps) = 1
      BY <2>5 DEF Steps, AbsPC, One
    <3>3. Bubbles' = One(~live.ex /\ FrontPC < halt_pc)
                       + One(~live.id /\ pc < halt_pc) + Lost
      BY BubblesNext DEF CyclesInv
    <3>4. Bubbles' + 1 = Bubbles + One(Steps) + Lost
      BY <1>5, <3>2, <3>3 DEF Bubbles, One
    <3> QED BY <1>5, <1>6, <2>2, <3>1, <3>4 DEF CyclesInv, Bubbles, One
  <2>6. CASE ~(AbsPC < halt_pc)
    <3>1. LoopAt(AbsPC)
      <4>1. LoopAt(halt_pc) /\ halt_pc \in Nat /\ AbsPC \in Nat
        BY <2>1, HaltInLoop, AbsPCWord, WordSizes DEF IInv, Word
      <4> QED BY <2>1, <2>6, <4>1 DEF BenchInv, TrackInv
    <3>2. ~(BehindMEM < halt_pc) /\ Bubbles = 0 /\ Lost = 0 /\ ~Steps
      BY <3>1, NothingLost DEF Steps
    <3> QED BY <1>5, <1>6, <2>2, <2>4, <3>2 DEF CyclesInv, One
  <2> QED BY <2>5, <2>6
<1>9. CyclesAccounted'
  BY DEF CyclesAccounted, Finished
<1>10. counts'.cycle_num \in Int /\ arch'.lost \in Int
  BY <1>5 DEF CyclesInv
<1> QED BY <1>1, <1>2, <1>3, <1>4, <1>7, <1>8, <1>9, <1>10 DEF CyclesInv

(* A cycle is counted unless nothing before the loop is left.              *)
LEMMA ActiveLemma ==
  ASSUME IInv, BenchInv, CyclesInv, SIM_END_REASON = "RUNNING", clk = 1,
         OnTrack, halt_pc > 0
  PROVE  active_cycle <=> ~Drained
<1> USE DEF BenchInv
<1>1. TypeOK /\ halt_pc_valid
  BY DEF IInv, OnTrack
<1>2. halt_pc \in Nat /\ LoopAt(halt_pc) /\ AbsPC \in Nat
  BY <1>1, HaltInLoop, AbsPCWord, WordSizes DEF Word
<1>3. /\ BeforeLoop(ex_mem.PC4) <=> (live.mem /\ MemPC < halt_pc)
      /\ BeforeLoop(id_ex.PC4) <=> (live.ex /\ id_ex.PC < halt_pc)
      /\ BeforeLoop(if_id.PC4) <=> (live.id /\ if_id.PC < halt_pc)
  BY <1>1, StageBefore
<1>4. ASSUME AbsPC < halt_pc, live.id \/ live.ex \/ live.mem
      PROVE  useful_pipeline_active
  BY <1>3, <1>4 DEF useful_pipeline_active, AbsPC, BehindMEM, FrontPC
<1>5. useful_pipeline_active =>
        \E pc4 \in {if_id.PC4, id_ex.PC4, ex_mem.PC4, mem_wb.PC4} : pc4 # 0
  BY DEF useful_pipeline_active, BeforeLoop
<1>6. CASE halt_detected
  <2>1. live.id \/ live.ex \/ live.mem
    BY <1>6 DEF SeenInv
  <2>2. ~Drained => useful_pipeline_active
    BY <1>4, <2>1 DEF Drained, useful_pipeline_active
  <2>3. ~useful_pipeline_active => Drained
    BY <2>2
  <2>4. Drained => ~useful_pipeline_active
    <3> SUFFICES ASSUME Drained PROVE ~useful_pipeline_active
      OBVIOUS
    <3>1. LoopAt(AbsPC)
      BY <1>2 DEF Drained, TrackInv
    <3>2. /\ live.mem => LoopAt(MemPC)
          /\ live.ex => LoopAt(id_ex.PC)
          /\ live.id => LoopAt(if_id.PC)
      BY <3>1, LoopBehind DEF AbsPC
    <3>3. \A a : LoopAt(a) => ~(a < halt_pc)
      BY <1>1, <1>2, LoopWord
    <3> QED BY <1>3, <3>2, <3>3 DEF useful_pipeline_active, Drained
  <2> QED BY <1>6, <2>2, <2>4 DEF active_cycle
<1>7. CASE ~halt_detected
  <2>1. AbsPC < halt_pc
    <3> SUFFICES ASSUME ~(AbsPC < halt_pc) PROVE FALSE
      OBVIOUS
    <3>1. ~arch.looped
      BY <1>7 DEF SeenInv
    <3>2. AbsPC = halt_pc
      BY <1>2, <3>1 DEF TrackInv
    <3>3. CASE live.id \/ live.ex \/ live.mem
      BY <1>7, <3>2, <3>3 DEF SeenInv, AbsPC, BehindMEM, FrontPC
    <3>4. CASE ~(live.id \/ live.ex \/ live.mem)
      BY <1>2, <3>2, <3>4 DEF CyclesInv, AbsPC, BehindMEM, FrontPC
    <3> QED BY <3>3, <3>4
  <2>2. CASE live.id \/ live.ex \/ live.mem
    BY <1>4, <1>5, <1>7, <2>1, <2>2 DEF active_cycle, Drained
  <2>3. CASE ~(live.id \/ live.ex \/ live.mem)
    <3>1. if_Inst # ZeroInst
      BY <2>3 DEF CyclesInv, if_Inst
    <3> QED BY <1>7, <2>1, <3>1 DEF active_cycle, Drained
  <2> QED BY <2>2, <2>3
<1> QED BY <1>6, <1>7

(* Nothing but the counters changes.                                       *)
LEMMA CyclesSame ==
  ASSUME UNCHANGED <<vars, arch>>
  PROVE  (Drained' <=> Drained) /\ Bubbles' = Bubbles
<1>1. BehindMEM' = BehindMEM /\ FrontPC' = FrontPC
  BY DEF BehindMEM, FrontPC, vars
<1> QED BY <1>1, FallSame DEF Drained, Bubbles, One, vars

LEMMA CyclesFall ==
  ASSUME IInv, BenchInv, BenchInv', CyclesInv, UNCHANGED <<vars, arch>>,
         SIM_END_REASON = "RUNNING", clk = 1, clk' = 0, Sample \/ Timeout
  PROVE  CyclesInv'
<1>1. /\ RomAt(rom', 0) # ZeroInst
      /\ arch'.lost \in Int
      /\ arch'.insts # 0 => halt_pc' > 0
      /\ live'.ex /\ ~live'.id => id_ex'.ctl.JAL
  BY FallSame DEF CyclesInv, vars
<1>2. counts'.cycle_num \in Int
  BY CyclesNext DEF CyclesInv, Timeout, One
<1>3. ASSUME OnTrack, halt_pc > 0, Sample
      PROVE  counts'.cycle_num + (IF Drained THEN 0 ELSE Bubbles)
               = arch.insts + arch.lost + 5
  <2>1. counts.cycle_num + (IF Drained THEN 0 ELSE Bubbles + 1)
          = arch.insts + arch.lost + 5
    BY <1>3 DEF CyclesInv
  <2>2. counts'.cycle_num = counts.cycle_num + One(~Drained)
    BY <1>3, ActiveLemma, CyclesNext DEF One
  <2>3. Bubbles \in Int /\ counts.cycle_num \in Int
    BY DEF Bubbles, One, CyclesInv
  <2> QED BY <2>1, <2>2, <2>3 DEF One
<1>4. ASSUME SIM_END_REASON' # "MAXCYCLES_TIMEOUT" PROVE Sample
  BY <1>4 DEF Timeout, finalize_simulation
<1>5. OnTrack' /\ SIM_END_REASON' # "MAXCYCLES_TIMEOUT" /\ halt_pc' > 0 =>
        counts'.cycle_num + (IF Drained' THEN 0 ELSE Bubbles' + clk')
          = arch'.insts + arch'.lost + 5
  <2>1. Bubbles + 0 = Bubbles
    BY DEF Bubbles, One
  <2> QED BY <1>3, <1>4, <2>1, FallSame, CyclesSame
<1>6. CyclesAccounted'
  <2> SUFFICES ASSUME SIM_END_REASON' = "HALT_LOOP", ~arch.strayed,
                      arch.insts > 0
               PROVE  counts'.cycle_num = counts'.inst_num + arch.lost + 5
    BY DEF CyclesAccounted, Finished
  <2>1. halt_detected /\ ~useful_pipeline_active /\ Sample
    BY DEF Sample, Timeout, finalize_simulation
  <2>2. OnTrack /\ halt_pc > 0
    BY <2>1 DEF BenchInv, BenchTypeOK, SeenInv, OnTrack, CyclesInv
  <2>3. Drained
    BY <2>1, <2>2, ActiveLemma DEF active_cycle
  <2>4. PrefixCounted'
    BY <2>2, FallSame DEF BenchInv, InstsInv
  <2>5. counts'.inst_num = arch.insts
    BY <2>4 DEF PrefixCounted, One, BenchInv, BenchTypeOK
  <2> QED BY <1>2, <1>3, <2>1, <2>2, <2>3, <2>5
<1> QED BY <1>1, <1>2, <1>5, <1>6 DEF CyclesInv

LEMMA CyclesStart ==
  ASSUME BenchInit, FirstWordUsed
  PROVE  CyclesInv
<1>1. /\ pc = 0 /\ rom \in Programs /\ ~live.id /\ ~live.ex /\ ~live.mem
      /\ clk = 1 /\ SIM_END_REASON = "RUNNING" /\ halt_detected = FALSE
  BY DEF BenchInit, Init, NoneLive
<1>2. counts.cycle_num = One(if_Inst # ZeroInst)
  BY DEF BenchInit
<1>3. arch.insts = 0 /\ arch.lost = 0
  BY DEF BenchInit
<1>4. RomAt(rom, 0) = rom[0]
  BY RomAtWord, WordSizes
<1>5. RomAt(rom, 0) # ZeroInst /\ if_Inst # ZeroInst
  BY <1>1, <1>4 DEF FirstWordUsed, if_Inst
<1>6. halt_pc > 0 => ~Drained /\ Bubbles = 3
  BY <1>1 DEF Drained, Bubbles, One, AbsPC, BehindMEM, FrontPC
<1> QED BY <1>1, <1>2, <1>3, <1>5, <1>6
        DEF CyclesInv, CyclesAccounted, Finished, One

(* For programs that do not begin with an unused word: the cycles reported *)
(* are the instructions, the cycles lost between them, and five.           *)
THEOREM CyclesAreAccounted ==
  ASSUME FirstWordUsed
  PROVE  BenchSpec => []CyclesAccounted
<1>1. BenchInit => CyclesInv
  BY CyclesStart
<1>2. IInv /\ BenchInv /\ (IInv /\ BenchInv)' /\ CyclesInv
        /\ [BenchNext]_<<vars, benchVars>> => CyclesInv'
  <2> SUFFICES ASSUME IInv, BenchInv, BenchInv', CyclesInv,
                      [BenchNext]_<<vars, benchVars>>
               PROVE  CyclesInv'
    OBVIOUS
  <2>1. CASE Rise
    <3>1. PICK p \in Predictions : Clock(p)
      BY <2>1, TickClock DEF Rise
    <3> QED BY <2>1, <3>1, CyclesRise DEF Rise
  <2>2. CASE Fall
    BY <2>2, CyclesFall DEF Fall
  <2>3. CASE UNCHANGED <<vars, benchVars>>
    <3>1. /\ UNCHANGED <<vars, arch>> /\ clk' = clk /\ counts' = counts
          /\ SIM_END_REASON' = SIM_END_REASON
          /\ halt_detected' = halt_detected
      BY <2>3 DEF benchVars
    <3>2. /\ RomAt(rom', 0) = RomAt(rom, 0) /\ live' = live /\ pc' = pc
          /\ id_ex' = id_ex /\ arch' = arch
      BY <3>1 DEF vars
    <3> QED BY <3>1, <3>2, FallSame, CyclesSame
            DEF CyclesInv, CyclesAccounted, Finished
  <2> QED BY <2>1, <2>2, <2>3 DEF BenchNext
<1>3. CyclesInv => CyclesAccounted
  BY DEF CyclesInv
<1> QED BY <1>1, <1>2, <1>3, BenchInductive, PTL DEF BenchSpec
=============================================================================
