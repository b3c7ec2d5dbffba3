----------------------------- MODULE BtbRecent -----------------------------
(***************************************************************************)
(* Btb with a history of what each set was trained with last, for the      *)
(* promise of the replacement policy, and the invariant that proves it.    *)
(***************************************************************************)
EXTENDS Btb

CONSTANT Trainings   \* the <<address, target, type>> triples explored

ASSUME TrainingsAssumption ==
  Trainings \subseteq Pc \X (0 .. WordSize - 1) \X Type

VARIABLE recent      \* per set, its last three distinct addresses

NoPc == -1

NoneRecent == [first |-> NoPc, second |-> NoPc, third |-> NoPc]

(* A new address pushes the others back, up to where it was before.        *)
Push(pc, old) ==
  [first  |-> pc,
   second |-> IF pc = old.first THEN old.second ELSE old.first,
   third  |-> IF pc \in {old.first, old.second} THEN old.third
              ELSE old.second]

Remember(pc) == recent' = [recent EXCEPT ![Index(pc)] = Push(pc, @)]

RecentInit == BtbInit /\ recent = [s \in Set |-> NoneRecent]

RecentTrainHit(pc, target, type) == TrainHit(pc, target, type) /\ Remember(pc)
RecentTrainMiss(pc, target, type) ==
  TrainMiss(pc, target, type) /\ Remember(pc)
RecentReset == BtbReset /\ recent' = [s \in Set |-> NoneRecent]

RecentNext ==
  \/ \E t \in Trainings : \/ RecentTrainHit(t[1], t[2], t[3])
                          \/ RecentTrainMiss(t[1], t[2], t[3])
  \/ RecentReset

RecentSpec == RecentInit /\ [][RecentNext]_<<way_r, plru_r, recent>>

(* The pseudo-LRU tree is not LRU, but it never evicts one of the three    *)
(* addresses of a set that were trained last, however hits and misses      *)
(* alternate: a loop of three branches always hits once it is trained.     *)
RecentHit ==
  \A s \in Set :
    \A pc \in {recent[s].first, recent[s].second, recent[s].third} :
      pc # NoPc => BranchHit(pc)

-----------------------------------------------------------------------------
(* The inductive invariant: where the tree points.                         *)

Side(w) == IF w \in {0, 1} THEN 0 ELSE 1

LeafAway(bits, w) ==
  IF w \in {0, 1} THEN bits[1] = 1 - w ELSE bits[0] = 3 - w

(* Root and leaf point away from w.                                        *)
Protected(bits, w) == bits[2] # Side(w) /\ LeafAway(bits, w)

(* And nothing below the other branch of the root points to v.             *)
Kept(bits, w, v) ==
  /\ Protected(bits, w)
  /\ v # w
  /\ Side(v) = Side(w) \/ LeafAway(bits, v)

HeldAt(s, pc, w) ==
  /\ pc \in Pc /\ Index(pc) = s
  /\ way_r[s][w].valid /\ way_r[s][w].tag = Tag(pc)

FirstInv(s) ==
  recent[s].first # NoPc =>
    \E w \in Way : /\ HeldAt(s, recent[s].first, w)
                   /\ Protected(plru_r[s], w)

SecondInv(s) ==
  recent[s].second # NoPc =>
    \E w, v \in Way : /\ HeldAt(s, recent[s].first, w)
                      /\ HeldAt(s, recent[s].second, v)
                      /\ Kept(plru_r[s], w, v)

ThirdInv(s) ==
  recent[s].third # NoPc => \E u \in Way : HeldAt(s, recent[s].third, u)

RecentInv ==
  /\ DOMAIN recent = Set
  /\ \A s \in Set : FirstInv(s) /\ SecondInv(s) /\ ThirdInv(s)
=============================================================================
