---------------------------- MODULE BpuSettling ----------------------------
(***************************************************************************)
(* Bpu trained with branches and JALs in any order and with any outcomes,  *)
(* with a history of how long one branch has been the only one resolved,   *)
(* with the same outcome, and of the addresses trained last: what the      *)
(* predictor promises a loop.                                              *)
(***************************************************************************)
EXTENDS Bpu, BtbRecent

CONSTANT HistoryBits  \* the width of the history

(* GhrSize = 2^HistoryBits, and a counter has at least one bit.            *)
ASSUME WidthAssumption ==
  /\ HistoryBits \in Nat /\ HistoryBits > 0
  /\ \E power \in [0 .. HistoryBits -> 1 .. GhrSize] :
       /\ power[0] = 1 /\ power[HistoryBits] = GhrSize
       /\ \A k \in 0 .. HistoryBits - 1 : power[k + 1] = 2 * power[k]
  /\ CounterSize % 2 = 0

(* The ROM is not written: an address holds a branch or a JAL, always.     *)
ASSUME OneInstruction ==
  \A t, u \in Trainings : t[1] = u[1] => t[3] = u[3]

VARIABLES
  same,                \* the branch resolved last, and its outcome
  streak               \* how often in a row, up to Settling

settlingVars == <<bpuVars, recent, same, streak>>

(* Shift the outcome through the whole history, then move the counter from *)
(* one end across the middle.                                              *)
Settling == HistoryBits + CounterSize \div 2

Nothing == [pc |-> NoPc, taken |-> FALSE]

SettlingInit ==
  /\ BpuInit
  /\ recent = [s \in Set |-> NoneRecent]
  /\ same = Nothing /\ streak = 0

ResolveBranch(pc, target, taken) ==
  /\ TrainBranch(pc, target, taken)
  /\ Remember(pc)
  /\ same' = [pc |-> pc, taken |-> taken]
  /\ streak' = IF streak = 0 \/ same' # same THEN 1
               ELSE IF streak < Settling THEN streak + 1 ELSE streak

ResolveJal(pc, target) ==
  /\ TrainJal(pc, target)
  /\ Remember(pc)
  /\ UNCHANGED <<same, streak>>

SettlingReset ==
  /\ BpuReset
  /\ recent' = [s \in Set |-> NoneRecent]
  /\ same' = Nothing /\ streak' = 0

SettlingNext ==
  \/ \E t \in Trainings, taken \in BOOLEAN :
       t[3] = 1 /\ ResolveBranch(t[1], t[2], taken)
  \/ \E t \in Trainings : t[3] = 2 /\ ResolveJal(t[1], t[2])
  \/ SettlingReset

SettlingSpec == SettlingInit /\ [][SettlingNext]_settlingVars

Recent(pc) ==
  LET last == recent[Index(pc)]
  IN pc \in {last.first, last.second, last.third}

(* A branch that keeps its direction is predicted right after a bounded    *)
(* number of outcomes, from any state other branches left the tables in,   *)
(* and stays so while JALs come and go, as long as they leave it among the *)
(* three addresses that its set was trained with last.                     *)
Settled ==
  DYNAMIC_PREDICTION /\ streak = Settling /\ Recent(same.pc) =>
    pred_branch_taken(same.pc) = same.taken
=============================================================================
