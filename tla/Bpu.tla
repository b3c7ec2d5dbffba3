-------------------------------- MODULE Bpu --------------------------------
(***************************************************************************)
(* rtl/component/bpu.v with bht.v: the branch predictor.  A table of       *)
(* saturating counters, indexed by the address hashed with the outcomes of *)
(* the latest branches, gives the direction of a conditional branch; the   *)
(* branch target buffer of Btb gives the target, and knows the JALs.       *)
(*                                                                         *)
(* An operator named Bug... is a faulty variant of the definition below    *)
(* it: nothing uses it but the tests of the properties.                    *)
(***************************************************************************)
EXTENDS Btb

CONSTANTS
  GhrSize,             \* number of histories, 2^GHR_WIDTH: two even when off
  BhtSize,             \* number of counters, 2^BPU_BHT_INDEX_BITS
  CounterSize,         \* values of a counter, 2^BPU_BHT_HISTORY_BITS
  DYNAMIC_PREDICTION,  \* FALSE in the build that predicts nothing
  GHR_ON,              \* FALSE in the build that ignores the history
  HistoryXor(_, _)     \* exclusive or of two histories

History == 0 .. GhrSize - 1
BhtIndex == 0 .. BhtSize - 1
Counter == 0 .. CounterSize - 1

(* bpu.v wants more index bits than history bits when history is on.       *)
ASSUME BpuSizes ==
  /\ GhrSize \in Nat /\ GhrSize > 1
  /\ BhtSize \in Nat /\ BhtSize > 0 /\ (GHR_ON => BhtSize % GhrSize = 0)
  /\ CounterSize \in Nat /\ CounterSize > 1
  /\ DYNAMIC_PREDICTION \in BOOLEAN /\ GHR_ON \in BOOLEAN

ASSUME XorAssumption ==
  \A a, b \in History : HistoryXor(a, b) \in History

VARIABLES
  ghr_r,               \* the global history register
  branch_counter_r     \* the counters of bht.v

bpuVars == <<way_r, plru_r, ghr_r, branch_counter_r>>

-----------------------------------------------------------------------------
(* Prediction, at fetch.                                                   *)

(* With history: {pc[IDX+1 : GHR+2], ghr ^ pc[GHR+1 : 2]}.                 *)
BhtIndexOf(pc) ==
  LET word == (pc \div 4) % BhtSize
  IN IF GHR_ON THEN word - (word % GhrSize) + HistoryXor(ghr_r, word % GhrSize)
     ELSE word

(* The most significant bit of the counter.                                *)
BhtTaken(pc) == branch_counter_r[BhtIndexOf(pc)] >= CounterSize \div 2

pred_branch_taken(pc) ==
  /\ DYNAMIC_PREDICTION
  /\ BranchHit(pc)
  /\ LookupType(pc) = 2 \/ (LookupType(pc) = 1 /\ BhtTaken(pc))

-----------------------------------------------------------------------------
(* Training, at a clock edge, with what EX holds.                          *)

BugWraps(pc, taken) ==
  branch_counter_r' =
    [branch_counter_r EXCEPT ![BhtIndexOf(pc)] =
       IF taken THEN (@ + 1) % CounterSize ELSE IF @ > 0 THEN @ - 1 ELSE @]

CountBranch(pc, taken) ==
  branch_counter_r' =
    [branch_counter_r EXCEPT ![BhtIndexOf(pc)] =
       IF taken THEN IF @ < CounterSize - 1 THEN @ + 1 ELSE @
       ELSE IF @ > 0 THEN @ - 1 ELSE @]

(* The oldest outcome falls out of the register.                           *)
ShiftHistory(taken) ==
  ghr_r' = (2 * ghr_r + IF taken THEN 1 ELSE 0) % GhrSize

TrainBranch(pc, target, taken) ==
  /\ Train(pc, target, 1)
  /\ CountBranch(pc, taken)
  /\ ShiftHistory(taken)

(* A JAL enters the target buffer only.                                    *)
TrainJal(pc, target) ==
  /\ Train(pc, target, 2)
  /\ UNCHANGED <<ghr_r, branch_counter_r>>

BpuReset ==
  /\ BtbReset
  /\ ghr_r' = 0
  /\ branch_counter_r' = [i \in BhtIndex |-> 0]

BpuInit ==
  /\ BtbInit
  /\ ghr_r = 0
  /\ branch_counter_r = [i \in BhtIndex |-> 0]

=============================================================================
