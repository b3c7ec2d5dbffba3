------------------------------- MODULE MCBpu -------------------------------
(***************************************************************************)
(* An instance of BpuSettling for TLC: two branches and three JALs share a *)
(* set of four ways, so that the JALs may evict a branch.                  *)
(***************************************************************************)
EXTENDS BpuSettling, Bitwise

MCXor(a, b) == a ^^ b

MCTrainings == ({0, 4} \X {8} \X {1}) \cup ({8, 12, 16} \X {4} \X {2})
=============================================================================
