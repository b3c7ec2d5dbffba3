---------------------------- MODULE MCFuzzRunner ----------------------------
(***************************************************************************)
(* Instances of FuzzRunner for TLC: a run and a smaller one after it, with *)
(* the same names of cases.                                                *)
(***************************************************************************)
EXTENDS FuzzRunner, Sequences

MCLoops == <<3, 2>>
MCJobs == <<2, 1>>

(* One run.                                                                *)
OneLoops == <<3>>
OneJobs == <<2>>
=============================================================================
