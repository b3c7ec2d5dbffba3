----------------------------- MODULE ReportOps ------------------------------
(***************************************************************************)
(* What generate_report.py selects from the tables of the three            *)
(* strategies.  The rows are those of PlotOps; a row that may be missing   *)
(* is a sequence of at most one row.                                       *)
(*                                                                         *)
(* An operator named Bug... is a faulty variant of the definition below    *)
(* it: nothing uses it but the tests of the properties.                    *)
(***************************************************************************)
EXTENDS PlotOps

read_rows(file) ==
  Keep(file, {i \in DOMAIN file :
                file[i].status = "pass" /\ file[i].cycle \in RequestedCycles})

cycle_rows(rows, cycle) == Keep(rows, {i \in DOMAIN rows : rows[i].cycle = cycle})

BugLastOfBest(rows) ==
  IF rows = <<>> THEN <<>>
  ELSE <<rows[CHOOSE i \in DOMAIN rows :
                \A j \in DOMAIN rows :
                  rows[j].acc < rows[i].acc \/ (rows[j].acc = rows[i].acc /\ j <= i)]>>

(* The first of the rows with the best accuracy.                           *)
best_row(rows) ==
  IF rows = <<>> THEN <<>>
  ELSE <<rows[CHOOSE i \in DOMAIN rows :
                \A j \in DOMAIN rows :
                  rows[j].acc < rows[i].acc \/ (rows[j].acc = rows[i].acc /\ i <= j)]>>

(* min with the same key.                                                  *)
worst_row(rows) ==
  IF rows = <<>> THEN <<>>
  ELSE <<rows[CHOOSE i \in DOMAIN rows :
                \A j \in DOMAIN rows :
                  rows[i].acc < rows[j].acc \/ (rows[j].acc = rows[i].acc /\ i <= j)]>>

(* The loop of best_rows_by_cycle.                                         *)
Choose(chosen, row) ==
  IF row.cycle \notin DOMAIN chosen \/ row.acc > chosen[row.cycle].acc
  THEN [c \in DOMAIN chosen \cup {row.cycle} |-> IF c = row.cycle THEN row ELSE chosen[c]]
  ELSE chosen

best_rows_by_cycle(rows) ==
  LET chosen == FoldLeft(Choose, <<>>, rows)
      cycles == Ascending(RequestedCycles \cap DOMAIN chosen)
  IN [i \in DOMAIN cycles |-> chosen[cycles[i]]]

BugByCpi(rows, i, j) ==
  \/ rows[i].cpi < rows[j].cpi
  \/ rows[i].cpi = rows[j].cpi /\ i < j

(* The key of the ranking, and the order of the table for equal keys.      *)
RanksBefore(rows, i, j) ==
  \/ rows[i].acc > rows[j].acc
  \/ rows[i].acc = rows[j].acc /\ rows[i].cpi < rows[j].cpi
  \/ rows[i].acc = rows[j].acc /\ rows[i].cpi = rows[j].cpi /\ i < j

top_table(rows, limit) ==
  LET order == InOrder(DOMAIN rows, {pair \in (DOMAIN rows) \X (DOMAIN rows) :
                                       RanksBefore(rows, pair[1], pair[2])})
  IN [i \in 1 .. (IF Len(rows) < limit THEN Len(rows) ELSE limit) |-> rows[order[i]]]

(* Accuracy won and CPI lost against static prediction.                    *)
gain_line(static, dynamic) ==
  [acc |-> dynamic.acc - static.acc, cpi |-> static.cpi - dynamic.cpi]

NonzeroGhr(rows) == Keep(rows, {i \in DOMAIN rows : rows[i].ghr > 0})

(* The predictor that the report recommends, whatever the tables hold.     *)
Recommended == [ghr |-> 0, idx |-> 9, hist |-> 2]

(* Every number of the report; the tables are the rows that were read.     *)
ReportOf(static, ghr_off, ghr_on) ==
  LET static_1000 == best_row(cycle_rows(static, LastCycle))
      ghr_off_1000 == best_row(cycle_rows(ghr_off, LastCycle))
      ghr_on_1000 == best_row(cycle_rows(ghr_on, LastCycle))
      nonzero_1000 == best_row(NonzeroGhr(cycle_rows(ghr_on, LastCycle)))
  IN [best |-> [static |-> static_1000, ghr_off |-> ghr_off_1000, ghr_on |-> ghr_on_1000],
      nonzero |-> nonzero_1000,
      gain |-> IF static_1000 = <<>> \/ ghr_off_1000 = <<>> THEN <<>>
               ELSE <<gain_line(static_1000[1], ghr_off_1000[1])>>,
      tables |-> [static |-> best_rows_by_cycle(static),
                  ghr_off |-> best_rows_by_cycle(ghr_off),
                  ghr_on |-> best_rows_by_cycle(ghr_on)],
      idx_worst |-> worst_row(cycle_rows(ghr_off, LastCycle)),
      loss |-> IF nonzero_1000 = <<>> \/ ghr_off_1000 = <<>> THEN <<>>
               ELSE <<ghr_off_1000[1].acc - nonzero_1000[1].acc>>,
      top |-> top_table(cycle_rows(ghr_on, LastCycle), 12),
      recommended |-> Recommended]
=============================================================================
