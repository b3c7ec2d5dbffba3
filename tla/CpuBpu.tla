------------------------------- MODULE CpuBpu -------------------------------
(***************************************************************************)
(* Cpu with the branch predictor it really has: next_pc.v connects bpu.v   *)
(* to the fetch address and to the instruction in EX.  Where Cpu allows    *)
(* any prediction it can repair, here the prediction is what the tables    *)
(* say, and every branch and JAL that passes EX trains them, in the same   *)
(* clock edge.                                                             *)
(*                                                                         *)
(* An operator named Bug... is a faulty variant of the definition below    *)
(* it: nothing uses it but the tests of the properties.                    *)
(***************************************************************************)
EXTENDS Cpu

CONSTANTS SetSize, GhrSize, BhtSize, CounterSize, DYNAMIC_PREDICTION, GHR_ON,
          HistoryXor(_, _)

VARIABLES way_r, plru_r, ghr_r, branch_counter_r   \* those of Bpu

Predictor == INSTANCE Bpu

bpuVars == <<way_r, plru_r, ghr_r, branch_counter_r>>

(* The target buffer drops bits [1:0] of a target, and a prediction is     *)
(* never compared with the target EX computes: branches and JALs must aim  *)
(* at whole words, and the address space consists of whole words.          *)
Aligned(image) ==
  \A k \in DOMAIN image :
    image[k].opcode \in {"BRANCH", "JAL"} => image[k].imm % 4 = 0

ASSUME AlignedPrograms ==
  WordSize % 4 = 0 /\ \A image \in Programs : Aligned(image)

(* The parameters of the predictor are as Bpu wants them.                  *)
ASSUME PredictorSizes ==
  /\ SetSize \in Nat /\ SetSize > 0
  /\ GhrSize \in Nat /\ GhrSize > 1
  /\ BhtSize \in Nat /\ BhtSize > 0 /\ (GHR_ON => BhtSize % GhrSize = 0)
  /\ CounterSize \in Nat /\ CounterSize > 1
  /\ DYNAMIC_PREDICTION \in BOOLEAN /\ GHR_ON \in BOOLEAN

-----------------------------------------------------------------------------
(* The prediction for the address being fetched.                           *)
prediction ==
  IF Predictor!pred_branch_taken(pc)
  THEN [taken |-> TRUE, target |-> Predictor!LookupTarget(pc)]
  ELSE NotTaken

BugTrainFromId ==
  IF id_ctl.Branch
  THEN Predictor!TrainBranch(if_id.PC, id_ex.PCImm, ex_Branch_taken)
  ELSE IF id_ctl.JAL THEN Predictor!TrainJal(if_id.PC, id_ex.PCImm)
  ELSE UNCHANGED bpuVars

(* Training with the instruction in EX; a bubble there trains nothing.     *)
TrainFromEx ==
  IF id_ex.ctl.Branch
  THEN Predictor!TrainBranch(id_ex.PC, id_ex.PCImm, ex_Branch_taken)
  ELSE IF id_ex.ctl.JAL THEN Predictor!TrainJal(id_ex.PC, id_ex.PCImm)
  ELSE UNCHANGED bpuVars

PredictedTick == Clock(prediction) /\ TrainFromEx

PredictedReset == Reset /\ Predictor!BpuReset

PredictedInit == Init /\ Predictor!BpuInit

PredictedNext == PredictedTick \/ PredictedReset

PredictedSpec == PredictedInit /\ [][PredictedNext]_<<vars, bpuVars>>

PredictedRunSpec ==
  /\ PredictedInit
  /\ [][PredictedTick]_<<vars, bpuVars>>
  /\ WF_<<vars, bpuVars>>(PredictedTick)

-----------------------------------------------------------------------------
(* Properties.                                                             *)

(* A JALR aims at a whole word.  It is the only instruction that may not,  *)
(* with an operand that makes its target odd by two: the architecture      *)
(* raises an exception then, which this processor does not have.           *)
JalrAligned == id_ex.ctl.JALR => ex_Rs1Imm % 4 = 0

(* The predictor keeps the contract of Cpu: with it the processor behaves  *)
(* as Cpu allows, so that what holds of Cpu holds of the real processor.   *)
ImplementsCpu == Spec

(* Whatever path trained it, wrong or right, an entry of the target buffer *)
(* names a branch or a JAL of the program, with its own target: no entry   *)
(* is left by one instruction and answered for another.                    *)
EntryAddress(s, w) == 4 * (way_r[s][w].tag * SetSize + s)

EntriesTrue ==
  \A s \in Predictor!Set, w \in Predictor!Way :
    way_r[s][w].valid =>
      LET a == EntryAddress(s, w)
          i == RomAt(rom, a)
      IN /\ way_r[s][w].target = Adder32(a, i.imm)
         /\ way_r[s][w].type = (CASE i.opcode = "BRANCH" -> 1
                                  [] i.opcode = "JAL"    -> 2
                                  [] OTHER               -> 0)

(* In such a program no instruction moves the fetch address in a way that  *)
(* depends on data.                                                        *)
Steady(image) ==
  \A k \in DOMAIN image :
    /\ image[k].opcode # "JALR"
    /\ image[k].opcode = "BRANCH" => image[k].rs1 = image[k].rs2

(* Where every branch keeps its direction and every address has a counter  *)
(* and an entry of its own, the penalties end: from some time on nothing   *)
(* is fetched that is not executed, whatever loads stall in between.       *)
PenaltiesEnd == Steady(rom) => <>[](hazard \notin {REDIRECT, JALJUMP})
=============================================================================
