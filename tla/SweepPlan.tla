----------------------------- MODULE SweepPlan -----------------------------
(***************************************************************************)
(* run_quantification.py, the part without state: which measurements a     *)
(* command line asks for, where each one is kept, and what its record and  *)
(* its row of results.csv hold.                                            *)
(*                                                                         *)
(* Texts are kept in the form they are split into: a cycle count is a      *)
(* number and a unit, an item of an integer list is <<>> (blank), <<n>> or *)
(* <<first, last>>, a file name is the tuple of its parts.                 *)
(***************************************************************************)
EXTENDS Integers, Sequences, SequencesExt

Million == 1000000
Thousand == 1000

(* The strategies in the order of main.                                    *)
strategies == <<"static", "ghr_off", "ghr_on">>

Units == {"M", "K", ""}

parse_cycle(value) ==
  LET unit == value[2]
  IN CASE unit = "M" -> value[1] * Million
       [] unit = "K" -> value[1] * Thousand
       [] OTHER      -> value[1]

cycle_label(cycles) ==
  IF cycles % Million = 0 THEN <<cycles \div Million, "M">>
  ELSE IF cycles % Thousand = 0 THEN <<cycles \div Thousand, "K">>
  ELSE <<cycles, "">>

(* One item of an integer list: a range includes its end.                  *)
IntItem(item) ==
  IF Len(item) = 2 THEN [k \in 1 .. item[2] - item[1] + 1 |-> item[1] + k - 1]
  ELSE item

parse_int_list(text) == FlattenSeq([i \in DOMAIN text |-> IntItem(text[i])])

Config(strategy, dynamic, ghr, ghr_bits, index_bits, history_bits) ==
  [strategy |-> strategy, dynamic_prediction |-> dynamic, ghr_on |-> ghr,
   ghr_bits |-> ghr_bits, bht_index_bits |-> index_bits,
   bht_history_bits |-> history_bits]

(* A table that the history register would index as a whole is skipped.    *)
iter_configs(args, strategy) ==
  LET index   == parse_int_list(args.bht_index_bits)
      history == parse_int_list(args.bht_history_bits)
      ghr     == parse_int_list(args.ghr_bits)
      Histories(dynamic, on, g, i) ==
        [h \in DOMAIN history |-> Config(strategy, dynamic, on, g, i, history[h])]
  IN CASE strategy = "static" ->
            <<Config(strategy, 0, 0, args.default_ghr_bits,
                     args.default_bht_index_bits, args.default_bht_history_bits)>>
       [] strategy = "ghr_off" ->
            FlattenSeq([i \in DOMAIN index |-> Histories(1, 0, 0, index[i])])
       [] strategy = "ghr_on" ->
            FlattenSeq([g \in DOMAIN ghr |->
              FlattenSeq([i \in DOMAIN index |->
                IF index[i] <= ghr[g] THEN <<>>
                ELSE Histories(1, 1, ghr[g], index[i])])])

(* A limit of 0 means none, a negative one leaves out that many at the end.*)
Limited(seq, limit) ==
  LET kept == IF limit < 0 THEN Len(seq) + limit ELSE limit
  IN IF limit = 0 \/ kept >= Len(seq) THEN seq ELSE SubSeq(seq, 1, kept)

(* The tasks of one strategy, in the order they are submitted.             *)
tasks(args, strategy) ==
  LET configs == Limited(iter_configs(args, strategy), args.limit_configs)
      cycles  == Limited([i \in DOMAIN args.cycles |-> parse_cycle(args.cycles[i])],
                         args.limit_cycles)
  IN FlattenSeq([c \in DOMAIN configs |->
       [y \in DOMAIN cycles |-> [config |-> configs[c], cycles |-> cycles[y]]]])

chosen(args) ==
  IF args.strategy = "all" THEN strategies ELSE <<args.strategy>>

config_name(strategy, ghr_bits, index_bits, history_bits) ==
  IF strategy = "static" THEN <<"static">>
  ELSE <<ghr_bits, index_bits, history_bits>>

strategy_root(strategy) ==
  IF strategy = "static" THEN <<"static">> ELSE <<"dynamic", strategy>>

BugRunDirNoIndex(task) ==
  <<strategy_root(task.config.strategy), <<task.config.ghr_bits>>,
    cycle_label(task.cycles)>>

(* The directory of a task: <<strategy root, configuration, cycle label>>. *)
run_dir(task) ==
  <<strategy_root(task.config.strategy),
    config_name(task.config.strategy, task.config.ghr_bits,
                task.config.bht_index_bits, task.config.bht_history_bits),
    cycle_label(task.cycles)>>

BugRunIdNoConfig(task) == <<task.config.strategy, cycle_label(task.cycles)>>

(* The build directory that make benchmark works in.  Every character of   *)
(* the three parts is one that the substitution keeps.                     *)
safe_run_id(task) ==
  <<task.config.strategy,
    config_name(task.config.strategy, task.config.ghr_bits,
                task.config.bht_index_bits, task.config.bht_history_bits),
    cycle_label(task.cycles)>>

(* What argparse and the parsers let through: empty lists and ranges too.  *)
IsCommandLine(args) ==
  /\ args.strategy \in ToSet(strategies) \cup {"all"}
  /\ args.cycles \in Seq(Int \X Units)
  /\ \A list \in {args.ghr_bits, args.bht_index_bits, args.bht_history_bits} :
       list \in Seq(Seq(Int)) /\ \A i \in DOMAIN list : Len(list[i]) <= 2
  /\ args.limit_configs \in Int /\ args.limit_cycles \in Int

(* What the build and the simulation depend on.  With dynamic prediction   *)
(* off the sizes of the tables make no difference, with the history        *)
(* register off its width makes none.                                      *)
Machine(config) ==
  <<config.dynamic_prediction, config.ghr_on,
    IF config.ghr_on = 1 THEN config.ghr_bits ELSE 0,
    IF config.dynamic_prediction = 1
    THEN <<config.bht_index_bits, config.bht_history_bits>> ELSE <<0, 0>> >>
=============================================================================
