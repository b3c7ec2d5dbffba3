------------------------------- MODULE MCBtb -------------------------------
(***************************************************************************)
(* An instance of BtbLatest for TLC: six addresses for the four ways of a  *)
(* set.                                                                    *)
(***************************************************************************)
EXTENDS BtbLatest

(* Every address with one target, and two of them with another as well.    *)
MCTrainings == (Pc \X {8} \X {1}) \cup ({0, 12} \X {14} \X {2})
=============================================================================
