------------------------------ MODULE MCSweep ------------------------------
(***************************************************************************)
(* Instances of Sweep for TLC.                                             *)
(***************************************************************************)
EXTENDS Sweep

CommandLine(s, cycles, index, jobs, force, options) ==
  [strategy |-> s, cycles |-> cycles, ghr_bits |-> <<<<1>>>>,
   bht_index_bits |-> index, bht_history_bits |-> <<<<2>>>>,
   default_ghr_bits |-> 8, default_bht_index_bits |-> 10,
   default_bht_history_bits |-> 2, jobs |-> jobs, limit_configs |-> 0,
   limit_cycles |-> 0, force |-> force, options |-> options]

(* One count in two spellings, and the same measurement beside another.    *)
TwinInvocations ==
  {CommandLine("ghr_off", <<<<1, "M">>, <<1000, "K">>>>, <<<<1>>>>, 2, FALSE, "O2"),
   CommandLine("ghr_off", <<<<1, "M">>>>, <<<<1, 2>>>>, 2, FALSE, "O2"),
   CommandLine("ghr_off", <<<<1, "M">>>>, <<<<1, 2>>>>, 2, TRUE, "O3"),
   CommandLine("ghr_off", <<<<1, "M">>>>, <<<<2>>, <<2>>>>, 2, TRUE, "O2")}

(* All strategies, one worker or two, with the command line changed        *)
(* between invocations.                                                    *)
AllInvocations ==
  {CommandLine("all", <<<<1500, "K">>>>, <<<<1, 2>>>>, 2, FALSE, "O2"),
   [CommandLine("all", <<<<1500, "K">>, <<1, "M">>>>, <<<<>>, <<2>>>>, 0, TRUE, "O3")
      EXCEPT !.limit_cycles = 1, !.default_bht_index_bits = 4],
   [CommandLine("ghr_on", <<<<1500, "K">>, <<1501, "">>>>, <<<<1, 3>>>>, 1, FALSE, "O3")
      EXCEPT !.limit_configs = -1]}

MCInvocations == TwinInvocations \cup AllInvocations

MCMeasures == {"m"}

MCCommitted ==
  {Record(t, "O2", "pass", "m") : t \in AllTasks}
=============================================================================
