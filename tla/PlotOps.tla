------------------------------ MODULE PlotOps -------------------------------
(***************************************************************************)
(* What plot_quantification.py selects from a table of measurements, and   *)
(* where it draws it.  A table is a sequence of rows: records with the     *)
(* fields status, cycle, ghr, idx, hist, acc and cpi, a row that passed    *)
(* with all of its numbers.  Cycles are in millions, accuracies in percent *)
(* and CPIs in thousandths; a place in a figure is in hundredths of a      *)
(* pixel, which is how precisely the figures are written.                  *)
(*                                                                         *)
(* An operator named Bug... is a faulty variant of the definition below    *)
(* it: nothing uses it but the tests of the properties.                    *)
(***************************************************************************)
EXTENDS Integers, Sequences, FiniteSets, SequencesExt

CONSTANTS
  RequestedCycles,    \* the cycle counts that are reported
  LastCycle,          \* 1000: the cycle count of the detailed figures
  Log10               \* cycle count -> its logarithm, in thousandths

ASSUME CyclesAssumption ==
  /\ RequestedCycles \subseteq Nat
  /\ LastCycle \in RequestedCycles
  /\ \A c \in RequestedCycles : c <= LastCycle

ASSUME LogAssumption ==
  /\ Log10 \in [RequestedCycles -> Nat]
  /\ \A c \in RequestedCycles : Log10[c] <= 20000
  /\ \A c, d \in RequestedCycles : c < d => Log10[c] < Log10[d]

(* The members of a finite set, each after those that are before it.       *)
InOrder(members, before) ==
  [i \in 1 .. Cardinality(members) |->
     CHOOSE m \in members : Cardinality({k \in members : <<k, m>> \in before}) = i - 1]

(* sorted().                                                               *)
Ascending(numbers) ==
  InOrder(numbers, {pair \in numbers \X numbers : pair[1] < pair[2]})

(* What is left of a sequence when only some places are kept.              *)
Keep(rows, places) ==
  LET order == Ascending(places) IN [i \in DOMAIN order |-> rows[order[i]]]

Values(rows, field) == {rows[i][field] : i \in DOMAIN rows}
Least(numbers) == CHOOSE n \in numbers : \A m \in numbers : n <= m
Greatest(numbers) == CHOOSE n \in numbers : \A m \in numbers : m <= n

-----------------------------------------------------------------------------
read_csv(file) ==
  Keep(file, {i \in DOMAIN file :
                file[i].status = "pass" /\ file[i].cycle \in RequestedCycles})

rows_for_cycle(rows, cycle) == Keep(rows, {i \in DOMAIN rows : rows[i].cycle = cycle})

BugCpi(best, row) ==
  IF row.cycle \notin DOMAIN best \/ row.cpi > best[row.cycle].cpi
  THEN [c \in DOMAIN best \cup {row.cycle} |-> IF c = row.cycle THEN row ELSE best[c]]
  ELSE best

(* The loop of best_per_cycle: the first of the best rows stays.           *)
KeepBetter(best, row) ==
  IF row.cycle \notin DOMAIN best \/ row.acc > best[row.cycle].acc
  THEN [c \in DOMAIN best \cup {row.cycle} |-> IF c = row.cycle THEN row ELSE best[c]]
  ELSE best

best_per_cycle(rows) ==
  LET best == FoldLeft(KeepBetter, <<>>, rows)
      cycles == Ascending(DOMAIN best)
  IN [i \in DOMAIN cycles |-> best[cycles[i]]]

BugWithZero(rows) == rows

nonzero_ghr_rows(rows) == Keep(rows, {i \in DOMAIN rows : rows[i].ghr \in 1 .. 10})

(* The points of a strategy in the figures over the cycle counts.          *)
CyclePoints(rows, field) ==
  LET best == best_per_cycle(rows)
  IN [i \in DOMAIN best |-> <<best[i].cycle, best[i][field]>>]

cycle_series(rows_of, field) ==
  [name \in DOMAIN rows_of |->
     CyclePoints(IF name = "ghr_on" THEN nonzero_ghr_rows(rows_of[name])
                 ELSE rows_of[name], field)]

(* The best accuracy for each value of a parameter.                        *)
BestBy(rows, field) ==
  LET keys == Ascending(Values(rows, field))
  IN [i \in DOMAIN keys |->
        <<keys[i],
          Greatest({rows[j].acc : j \in {k \in DOMAIN rows : rows[k][field] = keys[i]}})>>]

at_max_cycle(rows) == rows_for_cycle(rows, Greatest(Values(rows, "cycle")))

parameter_series(rows) ==
  [best_by_ghr |-> BestBy(at_max_cycle(rows), "ghr"),
   best_by_bht_index |-> BestBy(at_max_cycle(rows), "idx")]

-----------------------------------------------------------------------------
(* Charts of lines.                                                        *)
Width == 900
Height == 520
Pad == 70

Hundredths(n, d) == (200 * n + d) \div (2 * d)

AxisValue(x, log_x) == IF log_x THEN Log10[x] ELSE x

(* A single cycle count or parameter is drawn at the left.                 *)
ScaledX(x, x_range, log_x) ==
  LET X(value) == AxisValue(value, log_x)
  IN 100 * Pad + Hundredths((X(x) - X(x_range[1])) * (Width - 2 * Pad),
                            IF x_range[1] = x_range[2] THEN 1
                            ELSE X(x_range[2]) - X(x_range[1]))

BugUpsideDown(y, y_range) ==
  100 * Pad + Hundredths((y - y_range[1]) * (Height - 2 * Pad), y_range[2] - y_range[1])

ScaledY(y, y_range) ==
  100 * (Height - Pad)
    - Hundredths((y - y_range[1]) * (Height - 2 * Pad), y_range[2] - y_range[1])

(* Where points are drawn.                                                 *)
scale_points_with_ranges(points, x_range, y_range, log_x) ==
  [i \in DOMAIN points |->
     <<ScaledX(points[i][1], x_range, log_x), ScaledY(points[i][2], y_range)>>]

(* Six values over the range, in fifths so that they are whole.            *)
y_ticks(y_range) == [i \in 1 .. 6 |-> 5 * y_range[1] + (y_range[2] - y_range[1]) * (i - 1)]

Xs(series) == UNION {{series[name][i][1] : i \in DOMAIN series[name]} : name \in DOMAIN series}

BugAnyEmpty(series, log_x) == log_x /\ \E name \in DOMAIN series : series[name] = <<>>

(* Without a point the axis is 0 .. 1: the logarithm of 0 raises.          *)
Raises(series, log_x) == log_x /\ Xs(series) = {}

line_svg(series, y_range, log_x) ==
  LET x_values == Xs(series)
      x_range == IF x_values = {} THEN <<0, 1>> ELSE <<Least(x_values), Greatest(x_values)>>
      Place(points) == scale_points_with_ranges(points, x_range, y_range, log_x)
      x_ticks == [i \in 1 .. Cardinality(x_values) |->
                    <<Ascending(x_values)[i], y_range[1]>>]
      ticks == y_ticks(y_range)
  IN [series |-> series,
      places |-> [name \in DOMAIN series |-> Place(series[name])],
      x_ticks |-> [i \in DOMAIN x_ticks |-> <<x_ticks[i][1], Place(x_ticks)[i][1]>>],
      y_ticks |-> [i \in DOMAIN ticks |->
                     <<ticks[i], ScaledY(ticks[i], <<5 * y_range[1], 5 * y_range[2]>>)>>]]

idx_sweep(rows) ==
  LET here == rows_for_cycle(rows, LastCycle)
      sorted == InOrder(DOMAIN here, {pair \in (DOMAIN here) \X (DOMAIN here) :
                  \/ here[pair[1]].idx < here[pair[2]].idx
                  \/ here[pair[1]].idx = here[pair[2]].idx /\ pair[1] < pair[2]})
  IN [ghr_off |-> [i \in DOMAIN sorted |-> <<here[sorted[i]].idx, here[sorted[i]].acc>>]]

best_by_ghr(rows) == [best_per_ghr |-> BestBy(rows_for_cycle(rows, LastCycle), "ghr")]

-----------------------------------------------------------------------------
(* The heat map.                                                           *)
Cell == 44
MapPad == 90

(* The square root of a ratio, in thousandths.                             *)
SquareRoot(n, d) ==
  CHOOSE r \in 0 .. 1000 :
    r * r * d <= n * 1000000 /\ n * 1000000 < (r + 1) * (r + 1) * d

BugOneSlope(value, low, high) ==
  LET ratio == SquareRoot(value - low, high - low)
      l == 2 * ratio
  IN [red |-> 127 + (128 * l) \div 1000, green |-> (224 * l) \div 1000,
      blue |-> (139 * l) \div 1000]

(* From red over yellow to green.                                          *)
heatmap_color(value, low, high) ==
  LET ratio == SquareRoot(value - low, high - low)
      l == IF ratio < 500 THEN 2 * ratio ELSE 2 * (ratio - 500)
  IN IF ratio < 500
     THEN [red |-> 127 + (128 * l) \div 1000, green |-> (224 * l) \div 1000,
           blue |-> (139 * l) \div 1000]
     ELSE [red |-> (255000 - 255 * l) \div 1000, green |-> (224000 - 47 * l) \div 1000,
           blue |-> (139 * (1000 - l)) \div 1000]

SmallestHistory(rows) ==
  LET last == at_max_cycle(rows)
  IN Keep(last, {i \in DOMAIN last : last[i].hist = Least(Values(last, "hist"))})

BugNotFlipped(y_index, count) == MapPad + y_index * Cell

(* The largest number of history bits is the top row.                      *)
CellY(y_index, count) == MapPad + (count - 1 - y_index) * Cell

LabelY(y_index, count) == MapPad + (count - 1 - y_index) * Cell + Cell \div 2

(* The rows of a pair of parameters: the last one gives its value.         *)
RowsOfPair(rows, ghr, idx) == {k \in DOMAIN rows : rows[k].ghr = ghr /\ rows[k].idx = idx}
value_by_pair(rows, ghr, idx) == rows[Greatest(RowsOfPair(rows, ghr, idx))].acc

(* The cells with a value, their place and colour, and the two axes.       *)
heatmap(rows) ==
  LET shown == SmallestHistory(rows)
      ghrs == Ascending(Values(shown, "ghr"))
      idxs == Ascending(Values(shown, "idx"))
      low == Least(Values(shown, "acc"))
      top == Greatest(Values(shown, "acc"))
      high == IF low = top THEN low + 1 ELSE top
      Value(g, i) == value_by_pair(shown, ghrs[g], idxs[i])
      CellOf(g, i) == [x |-> MapPad + (i - 1) * Cell, y |-> CellY(g - 1, Len(ghrs)),
                       acc |-> Value(g, i), color |-> heatmap_color(Value(g, i), low, high)]
  IN [cells |-> {CellOf(p[1], p[2]) :
                   p \in {q \in (DOMAIN ghrs) \X (DOMAIN idxs) :
                            RowsOfPair(shown, ghrs[q[1]], idxs[q[2]]) # {}}},
      x_labels |-> {[x |-> MapPad + (i - 1) * Cell + Cell \div 2, idx |-> idxs[i]] :
                      i \in DOMAIN idxs},
      y_labels |-> {[y |-> LabelY(g - 1, Len(ghrs)), ghr |-> ghrs[g]] : g \in DOMAIN ghrs}]

(* The same with matplotlib: a matrix with its origin at the bottom.       *)
matrix(rows) ==
  LET shown == SmallestHistory(rows)
  IN {[ghr |-> shown[k].ghr, idx |-> shown[k].idx,
       acc |-> value_by_pair(shown, shown[k].ghr, shown[k].idx)] : k \in DOMAIN shown}
=============================================================================
