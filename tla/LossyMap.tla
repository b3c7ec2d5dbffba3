------------------------------ MODULE LossyMap ------------------------------
(***************************************************************************)
(* What a branch target buffer promises to the fetch stage: it remembers   *)
(* for some addresses what was last recorded for them.  It may forget, but *)
(* only one address at a time, only to make room for another one of the    *)
(* same set, and never the one it just recorded.  It never answers with    *)
(* what was recorded for another address, or with an outdated record.      *)
(* The last request to record is a variable: a buffer that ignores it, or  *)
(* records something else, takes a step that is neither a Record nor a     *)
(* stutter.                                                                *)
(***************************************************************************)
CONSTANTS Keys, Values, Miss, NoRecord,
          Conflict(_, _)    \* which keys compete for the same room

VARIABLES last,             \* the key and the value recorded last
          map               \* what a lookup of a key answers now

Init == last = NoRecord /\ map = [k \in Keys |-> Miss]

(* Value v is recorded for k, and at most one other key of the set goes.   *)
Record(k, v) ==
  /\ last' = <<k, v>>
  /\ \E e \in {x \in Keys : x = k \/ Conflict(k, x)} :
       map' = [map EXCEPT ![e] = Miss, ![k] = v]

Forget == last' = NoRecord /\ map' = [k \in Keys |-> Miss]

Next == (\E k \in Keys, v \in Values : Record(k, v)) \/ Forget

Spec == Init /\ [][Next]_<<last, map>>
=============================================================================
