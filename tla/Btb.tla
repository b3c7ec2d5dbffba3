-------------------------------- MODULE Btb --------------------------------
(***************************************************************************)
(* rtl/component/btb.v: the four-way branch target buffer with a tree of   *)
(* three pseudo-LRU bits per set.  EX trains it with the branch or JAL it  *)
(* holds; IF looks the fetch address up at any time.                       *)
(* An operator named Bug... is a faulty variant of the definition below    *)
(* it: nothing uses it but the tests of the properties.                    *)
(***************************************************************************)
EXTENDS Integers

CONSTANTS
  WordSize,      \* number of addresses, 2^32 in the RTL
  SetSize        \* SET_SIZE, 512 in the RTL

ASSUME BtbSizes == /\ SetSize \in Nat /\ SetSize > 0
                   /\ WordSize \in Nat /\ WordSize > 0

VARIABLES
  way_r,         \* valid_r, tag_r, branch_target_r, branch_type_r per way
  plru_r         \* the three PLRU bits of every set

btbVars == <<way_r, plru_r>>

(* Instruction addresses: bits [1:0] of a PC reach neither index nor tag.  *)
Pc   == {a \in 0 .. WordSize - 1 : a % 4 = 0}
Set  == 0 .. SetSize - 1
Way  == 0 .. 3
Bit  == {0, 1}
Type == {1, 2}               \* branch, JAL

Index(a) == (a \div 4) % SetSize
BugShortTag(a) == ((a \div 4) \div SetSize) % 2
Tag(a)   == (a \div 4) \div SetSize

(* The target is stored without its bits [1:0] and read back with zeros.   *)
Stored(target) == target - (target % 4)

(* The fields of a way that is not valid are never looked at, so it does   *)
(* not matter here what a reset leaves in them.                            *)
Empty == [valid |-> FALSE, tag |-> 0, target |-> 0, type |-> 0]

-----------------------------------------------------------------------------
(* The lookup port.                                                        *)

Matches(s, t) == {w \in Way : way_r[s][w].valid /\ way_r[s][w].tag = t}

Hits(pc) == {w \in Matches(Index(pc), Tag(pc)) :
               way_r[Index(pc)][w].type # 0}

BranchHit(pc) == Hits(pc) # {}

(* The first way that matches answers.                                     *)
LookupWay(pc) == CHOOSE w \in Hits(pc) : \A v \in Hits(pc) : w <= v

LookupTarget(pc) == way_r[Index(pc)][LookupWay(pc)].target
LookupType(pc)   == way_r[Index(pc)][LookupWay(pc)].type

-----------------------------------------------------------------------------
(* The pseudo-LRU tree: bit 2 is the root, bit 1 the left pair of ways,    *)
(* bit 0 the right pair.                                                   *)

PlruVictim(bits) ==
  IF bits[2] = 0 THEN IF bits[1] = 0 THEN 0 ELSE 1
                 ELSE IF bits[0] = 0 THEN 2 ELSE 3

BugPointsAtUsed(bits, w) ==
  CASE w = 0 -> [bits EXCEPT ![2] = 1, ![1] = 0]
    [] w = 1 -> [bits EXCEPT ![2] = 1, ![1] = 1]
    [] w = 2 -> [bits EXCEPT ![2] = 0, ![0] = 0]
    [] w = 3 -> [bits EXCEPT ![2] = 0, ![0] = 1]

PlruAfterAccess(bits, w) ==
  CASE w = 0 -> [bits EXCEPT ![2] = 1, ![1] = 1]
    [] w = 1 -> [bits EXCEPT ![2] = 1, ![1] = 0]
    [] w = 2 -> [bits EXCEPT ![2] = 0, ![0] = 1]
    [] w = 3 -> [bits EXCEPT ![2] = 0, ![0] = 0]

-----------------------------------------------------------------------------
(* The training port, at a clock edge with a branch or JAL in EX.          *)

BugKeepsTarget(pc, w, target, type) ==
  /\ way_r' = [way_r EXCEPT ![Index(pc)][w] =
                 [valid |-> TRUE, tag |-> Tag(pc),
                  target |-> IF @.valid /\ @.tag = Tag(pc) THEN @.target
                             ELSE Stored(target),
                  type |-> type]]
  /\ plru_r' = [plru_r EXCEPT ![Index(pc)] = PlruAfterAccess(@, w)]

Write(pc, w, target, type) ==
  /\ way_r' = [way_r EXCEPT ![Index(pc)][w] =
                 [valid |-> TRUE, tag |-> Tag(pc), target |-> Stored(target),
                  type |-> type]]
  /\ plru_r' = [plru_r EXCEPT ![Index(pc)] = PlruAfterAccess(@, w)]

(* The address is known: the last way that matches is rewritten.           *)
TrainHit(pc, target, type) ==
  LET ways == Matches(Index(pc), Tag(pc))
  IN \E w \in ways : /\ \A v \in ways : v <= w
                     /\ Write(pc, w, target, type)

(* It is not: the victim is replaced, even if another way is still empty.  *)
TrainMiss(pc, target, type) ==
  /\ Matches(Index(pc), Tag(pc)) = {}
  /\ Write(pc, PlruVictim(plru_r[Index(pc)]), target, type)

Train(pc, target, type) ==
  TrainHit(pc, target, type) \/ TrainMiss(pc, target, type)

BtbReset ==
  /\ way_r' = [s \in Set |-> [w \in Way |-> Empty]]
  /\ plru_r' = [s \in Set |-> [b \in 0 .. 2 |-> 0]]

BtbInit ==
  /\ way_r = [s \in Set |-> [w \in Way |-> Empty]]
  /\ plru_r = [s \in Set |-> [b \in 0 .. 2 |-> 0]]

BtbNext ==
  \/ \E pc \in Pc, target \in 0 .. WordSize - 1, type \in Type :
       TrainHit(pc, target, type) \/ TrainMiss(pc, target, type)
  \/ BtbReset

BtbSpec == BtbInit /\ [][BtbNext]_btbVars

-----------------------------------------------------------------------------
(* Properties.                                                             *)

Entry == [valid : BOOLEAN, tag : Nat, target : Pc, type : {0, 1, 2}]

(* The registers of the buffer hold values of their widths.                *)
BtbTypeOK == /\ way_r \in [Set -> [Way -> Entry]]
             /\ plru_r \in [Set -> [0 .. 2 -> Bit]]

(* No address is held twice in its set, so that the last match, which      *)
(* training rewrites, and the first match, which a lookup answers with,    *)
(* are the same way; and every entry in use has a type, so that a way      *)
(* training finds is one a lookup finds.                                   *)
UniqueEntry ==
  /\ \A s \in Set, v, w \in Way :
       way_r[s][v].valid /\ way_r[s][w].valid
         /\ way_r[s][v].tag = way_r[s][w].tag => v = w
  /\ \A s \in Set, w \in Way : way_r[s][w].valid => way_r[s][w].type # 0

(* What the fetch stage sees: an answer per address, or a miss.            *)
NoEntry == [target |-> 0, type |-> 0]
Answer(pc) == IF BranchHit(pc)
              THEN [target |-> LookupTarget(pc), type |-> LookupType(pc)]
              ELSE NoEntry
=============================================================================
