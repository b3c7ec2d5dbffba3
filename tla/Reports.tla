------------------------------ MODULE Reports -------------------------------
(***************************************************************************)
(* quantification/pred/script/run_all.sh: the sweep, the figures and the   *)
(* report.  The three scripts share only files: the table of each          *)
(* strategy, the figures and the report.  They stay when a run ends, so    *)
(* that the next one finds them, whatever it is asked for and wherever it  *)
(* stops.  Sweep models how a table comes about; here it may be any.       *)
(***************************************************************************)
EXTENDS ReportOps

CONSTANTS
  Tables,             \* bound: strategy -> the contents its table may get
  FirstTables,        \* bound: the tables before the first run
  Requests,           \* the strategies of a run: one, or all in their order
  MaxRounds,          \* bound: runs of the pipeline
  MaxInterrupts       \* bound: times it is killed

Strategies == {"static", "ghr_off", "ghr_on"}

(* The parameters are numbers of bits of tables and histories.             *)
TableRow == [status : STRING, cycle : Nat, ghr : 0 .. 64, idx : 0 .. 64, hist : 0 .. 64,
             acc : Nat, cpi : Nat]

ASSUME TablesAssumption ==
  /\ \A s \in Strategies : Tables[s] \subseteq Seq(TableRow)
  /\ \A first \in FirstTables : first \in [Strategies -> Seq(TableRow)]
  /\ \A request \in Requests : request \in Seq(Strategies)

VARIABLES
  tables,             \* strategy -> results.csv
  figures,            \* name -> what the file shows, and the run that drew it
  report,             \* report.md, and the run that wrote it
  at,                 \* the script that runs: sweep, plot or report, or end
  queue,              \* what it has still to write
  plt,                \* matplotlib can be imported
  status,             \* how the run ended
  round,              \* the number of the run
  interrupts          \* counter: runs killed

reportVars == <<tables, figures, report, at, queue, plt, status, round,
                interrupts>>

(* A figure or report that does not exist is of run 0.                     *)
Missing == [round |-> 0]

(* The figures of README.md and the report, and the one they do not name.  *)
Wanted ==
  <<"cycle_branch_accuracy.svg", "cycle_cpi.svg", "ghr_off_idx_accuracy_1000M.svg",
    "ghr_on_best_by_ghr_1000M.svg", "ghr_on_accuracy_heatmap.svg">>
Svgs ==
  <<"cycle_branch_accuracy.svg", "cycle_cpi.svg", "ghr_off_idx_accuracy_1000M.svg",
    "ghr_on_best_by_ghr_1000M.svg", "ghr_on_parameter_accuracy.svg",
    "ghr_on_accuracy_heatmap.svg">>
Pngs ==
  <<"cycle_accuracy_cpi.png", "ghr_on_parameter_accuracy.png",
    "ghr_on_accuracy_heatmap.png">>
Names == Range(Svgs) \cup Range(Pngs)

strategy_rows == [s \in DOMAIN tables |-> read_csv(tables[s])]

Stop(how) == at' = "end" /\ queue' = <<>> /\ status' = how

-----------------------------------------------------------------------------
(* run_quantification.py writes the tables of the strategies in turn, or   *)
(* raises: set -e ends the run.                                            *)
SweepStrategy ==
  /\ at = "sweep"
  /\ queue # <<>>
  /\ \/ /\ \E table \in Tables[Head(queue)] :
             tables' = [tables EXCEPT ![Head(queue)] = table]
        /\ queue' = Tail(queue)
        /\ UNCHANGED <<at, status>>
     \/ Stop("sweep failed") /\ UNCHANGED tables
  /\ UNCHANGED <<figures, report, plt, round, interrupts>>

(* plot_quantification.py draws with matplotlib if there is one, or writes *)
(* the vector graphics itself.                                             *)
StartPlot ==
  /\ at = "sweep"
  /\ queue = <<>>
  /\ at' = "plot"
  /\ plt' \in BOOLEAN
  /\ queue' = IF plt' THEN Pngs ELSE Svgs
  /\ UNCHANGED <<tables, figures, report, status, round, interrupts>>

OfGhrOn ==
  {"ghr_on_parameter_accuracy.png", "ghr_on_accuracy_heatmap.png",
   "ghr_on_parameter_accuracy.svg", "ghr_on_accuracy_heatmap.svg"}

(* Nothing is drawn of ghr_on without a row of it.                         *)
Skips(name) == name \in OfGhrOn /\ strategy_rows.ghr_on = <<>>

Drawing(name, rows) ==
  CASE name = "cycle_branch_accuracy.svg" ->
         line_svg(cycle_series(rows, "acc"), <<20, 100>>, TRUE)
    [] name = "cycle_cpi.svg" -> line_svg(cycle_series(rows, "cpi"), <<0, 2000>>, TRUE)
    [] name = "ghr_off_idx_accuracy_1000M.svg" ->
         line_svg(idx_sweep(rows.ghr_off), <<0, 100>>, FALSE)
    [] name = "ghr_on_best_by_ghr_1000M.svg" ->
         line_svg(best_by_ghr(rows.ghr_on), <<0, 100>>, FALSE)
    [] name = "ghr_on_parameter_accuracy.svg" ->
         line_svg(parameter_series(rows.ghr_on), <<0, 100>>, FALSE)
    [] name = "ghr_on_accuracy_heatmap.svg" -> heatmap(rows.ghr_on)
    [] name = "cycle_accuracy_cpi.png" ->
         [acc |-> cycle_series(rows, "acc"), cpi |-> cycle_series(rows, "cpi")]
    [] name = "ghr_on_parameter_accuracy.png" -> parameter_series(rows.ghr_on)
    [] name = "ghr_on_accuracy_heatmap.png" -> matrix(rows.ghr_on)

(* The axis of the cycle counts is logarithmic.                            *)
Fails(name) ==
  \/ name = "cycle_branch_accuracy.svg" /\ Raises(cycle_series(strategy_rows, "acc"), TRUE)
  \/ name = "cycle_cpi.svg" /\ Raises(cycle_series(strategy_rows, "cpi"), TRUE)

BugGoesOn ==
  /\ at = "plot"
  /\ queue # <<>>
  /\ queue' = Tail(queue)
  /\ figures' = IF Skips(Head(queue)) \/ Fails(Head(queue)) THEN figures
                ELSE [figures EXCEPT ![Head(queue)] =
                        [round |-> round, shows |-> Drawing(Head(queue), strategy_rows)]]
  /\ UNCHANGED <<tables, report, at, plt, status, round, interrupts>>

(* One figure.  The rows are read at the start of the script: nobody       *)
(* writes the tables while it draws.  An exception ends the script and,    *)
(* with set -e, the run.                                                   *)
Draw ==
  /\ at = "plot"
  /\ queue # <<>>
  /\ IF Fails(Head(queue))
     THEN Stop("plot failed") /\ UNCHANGED figures
     ELSE /\ queue' = Tail(queue)
          /\ figures' = IF Skips(Head(queue)) THEN figures
                        ELSE [figures EXCEPT ![Head(queue)] =
                                [round |-> round, shows |-> Drawing(Head(queue), strategy_rows)]]
          /\ UNCHANGED <<at, status>>
  /\ UNCHANGED <<tables, report, plt, round, interrupts>>

image_lines == Keep(Wanted, {i \in DOMAIN Wanted : figures[Wanted[i]].round # 0})

(* generate_report.py: the whole report is written at once.                *)
GenerateReport ==
  /\ at = "plot"
  /\ queue = <<>>
  /\ report' = [round |-> round, images |-> image_lines,
                says |-> ReportOf(read_rows(tables.static), read_rows(tables.ghr_off),
                                  read_rows(tables.ghr_on))]
  /\ Stop("ok")
  /\ UNCHANGED <<tables, figures, plt, round, interrupts>>

(* The user, or the machine, ends the run at any point.                    *)
Interrupt ==
  /\ at # "end"
  /\ interrupts < MaxInterrupts
  /\ interrupts' = interrupts + 1
  /\ Stop("killed")
  /\ UNCHANGED <<tables, figures, report, plt, round>>

Start ==
  /\ at = "end"
  /\ round < MaxRounds
  /\ round' = round + 1
  /\ at' = "sweep"
  /\ status' = "running"
  /\ queue' \in Requests
  /\ UNCHANGED <<tables, figures, report, plt, interrupts>>

ReportsInit ==
  /\ tables \in FirstTables
  /\ figures = [name \in Names |-> Missing]
  /\ report = Missing
  /\ at = "end" /\ queue = <<>> /\ status = "ok"
  /\ plt \in BOOLEAN
  /\ round = 0
  /\ interrupts = 0

ReportsNext == SweepStrategy \/ StartPlot \/ Draw \/ GenerateReport \/ Interrupt \/ Start

ReportsSpec == ReportsInit /\ [][ReportsNext]_reportVars

-----------------------------------------------------------------------------
(* The report tells one story: the row of its summary is the row of its    *)
(* table for the last cycle count, the ranking starts with the accuracy of *)
(* the summary, never with a worse CPI, and no ranked row with global      *)
(* history is better than the row named the best of them.                  *)
SummaryAgrees ==
  report.round # 0 =>
    LET says == report.says
    IN /\ \A s \in DOMAIN says.best :
            cycle_rows(says.tables[s], LastCycle) = says.best[s]
       /\ says.top = <<>> <=> says.best.ghr_on = <<>>
       /\ says.top # <<>> =>
            /\ says.top[1].acc = says.best.ghr_on[1].acc
            /\ says.top[1].cpi <= says.best.ghr_on[1].cpi
       /\ \A i \in DOMAIN says.top :
            says.top[i].ghr > 0 => says.top[i].acc <= says.nonzero[1].acc

-----------------------------------------------------------------------------
(* A figure and the report were made by the last run, of the same tables.  *)
Together(name) == round # 0 /\ report.round = round /\ figures[name].round = round

(* The figures leave out histories of more than 10 bits, the report not.   *)
AllShown == \A row \in Range(read_csv(tables.ghr_on)) : row.ghr <= 10

Heights(points) == {points[i][2] : i \in DOMAIN points}
At(points, x) == {points[i][2] : i \in {j \in DOMAIN points : points[j][1] = x}}

(* The best nonzero history, when the figures show all of them.            *)
NonzeroIn(rows, field) ==
  {rows[i][field] : i \in {j \in DOMAIN rows : rows[j].ghr \in 1 .. 10}}

(* Over the cycle counts: the tables of the report for two strategies, for *)
(* ghr_on the best row with a history.                                     *)
CyclesAgree(series, field) ==
  /\ \A s \in {"static", "ghr_off"} :
       Range(series[s]) = {<<row.cycle, row[field]>> : row \in Range(report.says.tables[s])}
  /\ \A point \in Range(series.ghr_on) :
       \E row \in Range(report.says.tables.ghr_on) :
         row.cycle = point[1] /\ (field = "acc" => point[2] <= row.acc)
  /\ At(series.ghr_on, LastCycle) = NonzeroIn(report.says.nonzero, field)

(* The figures say what the report says: at every cycle count, for the     *)
(* largest and the smallest accuracy of the index sweep, and for the best  *)
(* accuracy with and without a history, whether matplotlib draws or not.   *)
FiguresAgree ==
  AllShown =>
    LET Shown(name) == figures[name].shows
        Best(rows) == {rows[i].acc : i \in DOMAIN rows}
        Most(points) == IF points = <<>> THEN {} ELSE {Greatest(Heights(points))}
        Fewest(points) == IF points = <<>> THEN {} ELSE {Least(Heights(points))}
        Nonzero(points) == Keep(points, {i \in DOMAIN points : points[i][1] > 0})
        says == report.says
    IN /\ Together("cycle_branch_accuracy.svg") =>
            CyclesAgree(Shown("cycle_branch_accuracy.svg").series, "acc")
       /\ Together("cycle_cpi.svg") => CyclesAgree(Shown("cycle_cpi.svg").series, "cpi")
       /\ Together("cycle_accuracy_cpi.png") =>
            /\ CyclesAgree(Shown("cycle_accuracy_cpi.png").acc, "acc")
            /\ CyclesAgree(Shown("cycle_accuracy_cpi.png").cpi, "cpi")
       /\ Together("ghr_off_idx_accuracy_1000M.svg") =>
            LET points == Shown("ghr_off_idx_accuracy_1000M.svg").series.ghr_off
            IN Most(points) = Best(says.best.ghr_off) /\ Fewest(points) = Best(says.idx_worst)
       /\ Together("ghr_on_best_by_ghr_1000M.svg") =>
            LET points == Shown("ghr_on_best_by_ghr_1000M.svg").series.best_per_ghr
            IN Most(points) = Best(says.best.ghr_on) /\ Most(Nonzero(points)) = Best(says.nonzero)
       /\ Together("ghr_on_parameter_accuracy.png") =>
            LET series == Shown("ghr_on_parameter_accuracy.png")
            IN says.best.ghr_on # <<>> =>
                 Most(series.best_by_ghr) = Best(says.best.ghr_on)
                   /\ Most(series.best_by_bht_index) = Best(says.best.ghr_on)

LineCharts == Range(Svgs) \ {"ghr_on_accuracy_heatmap.svg"}

(* A point is drawn above the points of smaller values and right of the    *)
(* points of smaller cycle counts or parameters, of every series of the    *)
(* chart; it is above exactly the grid lines below its value, on the       *)
(* vertical line of its label, and between the left and the right edge.    *)
PlacesInOrder ==
  \A name \in LineCharts :
    figures[name].round # 0 =>
      LET chart == figures[name].shows
          Points == UNION {{<<chart.series[s][i], chart.places[s][i]>> :
                              i \in DOMAIN chart.series[s]} : s \in DOMAIN chart.series}
      IN /\ \A p, q \in Points :
              /\ p[1][1] < q[1][1] => p[2][1] < q[2][1]
              /\ p[1][2] < q[1][2] => p[2][2] > q[2][2]
         /\ \A p \in Points :
              /\ \A tick \in Range(chart.y_ticks) :
                   (tick[1] < 5 * p[1][2]) = (tick[2] > p[2][2])
              /\ <<p[1][1], p[2][1]>> \in Range(chart.x_ticks)
              /\ p[2][1] \in 100 * Pad .. 100 * (Width - Pad)

Greenness(cell) == cell.color.green - cell.color.red

(* Read by its labels, the heat map shows exactly the accuracies of the    *)
(* table, and no cell is redder than a cell of smaller accuracy: not at    *)
(* all when a hundredth of the range of colours is between them, and by no *)
(* more than what rounding to whole shades takes away when less is.        *)
HeatmapTrue ==
  /\ Together("ghr_on_accuracy_heatmap.svg") =>
       LET map == figures["ghr_on_accuracy_heatmap.svg"].shows
           Half == Cell \div 2
           accs == Values(SmallestHistory(read_csv(tables.ghr_on)), "acc")
           Rounding(c, d) ==
             IF 100 * (d.acc - c.acc) >= Greatest(accs) - Least(accs) THEN 0 ELSE 1
       IN /\ matrix(read_csv(tables.ghr_on))
                = {[ghr |-> t[1].ghr, idx |-> t[2].idx, acc |-> t[3].acc] :
                     t \in {u \in map.y_labels \X map.x_labels \X map.cells :
                              u[1].y = u[3].y + Half /\ u[2].x = u[3].x + Half}}
          /\ \A c, d \in map.cells :
               c.acc < d.acc => Greenness(c) <= Greenness(d) + Rounding(c, d)
  /\ figures["ghr_on_accuracy_heatmap.svg"].round # 0 =>
       \A c \in figures["ghr_on_accuracy_heatmap.svg"].shows.cells :
         {c.color.red, c.color.green, c.color.blue} \subseteq 0 .. 255

-----------------------------------------------------------------------------
(* Without matplotlib a run that writes a report has drawn every figure of *)
(* the report, but for the one of ghr_on when there is no row of it: that  *)
(* one is of an earlier run, or not shown.                                 *)
FiguresOfThisRun ==
  report.round = round /\ round # 0 /\ ~plt =>
    \A name \in Range(Wanted) :
      \/ figures[name].round = round /\ name \in Range(report.images)
      \/ Skips(name)

(* The figures only fail to be drawn for want of any point at all.         *)
FailsOnlyEmpty ==
  status = "plot failed" =>
    \A s \in DOMAIN tables :
      \A row \in Range(read_csv(tables[s])) : s = "ghr_on" /\ row.ghr \notin 1 .. 10
=============================================================================
