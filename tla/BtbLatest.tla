----------------------------- MODULE BtbLatest -----------------------------
(***************************************************************************)
(* BtbRecent with a history of the last training, which says what the      *)
(* buffer was asked to record, and the lossy map that the buffer is.       *)
(***************************************************************************)
EXTENDS BtbRecent

VARIABLE latest      \* the address of the last training and what it resolved

NoTraining == <<>>

(* What EX presents to the buffer: the address, the target as far as the   *)
(* buffer keeps targets, and the type.                                     *)
Request(pc, target, type) == <<pc, [target |-> Stored(target), type |-> type]>>

latestVars == <<way_r, plru_r, recent, latest>>

LatestInit == RecentInit /\ latest = NoTraining

LatestTrainHit(pc, target, type) ==
  RecentTrainHit(pc, target, type) /\ latest' = Request(pc, target, type)

LatestTrainMiss(pc, target, type) ==
  RecentTrainMiss(pc, target, type) /\ latest' = Request(pc, target, type)

LatestReset == RecentReset /\ latest' = NoTraining

LatestNext ==
  \/ \E t \in Trainings : \/ LatestTrainHit(t[1], t[2], t[3])
                          \/ LatestTrainMiss(t[1], t[2], t[3])
  \/ LatestReset

LatestSpec == LatestInit /\ [][LatestNext]_latestVars

-----------------------------------------------------------------------------
(* The refinement: a lookup of every address at once.                      *)

answers == [pc \in Pc |-> Answer(pc)]

SameSet(a, b) == Index(a) = Index(b)

Abstract == INSTANCE LossyMap
  WITH Keys <- Pc, Values <- [target : Pc, type : Type], Miss <- NoEntry,
       NoRecord <- NoTraining, Conflict <- SameSet,
       last <- latest, map <- answers

(* After a training the buffer answers the trained address with exactly    *)
(* the target and type of that training; every other address keeps its     *)
(* answer, but at most one of the same set, which is forgotten.  So a hit  *)
(* is always the latest training of exactly that address.                  *)
ImplementsLossyMap == Abstract!Spec
=============================================================================
