----------------------------- MODULE MCReports ------------------------------
(***************************************************************************)
(* Instances of Reports for TLC: three cycle counts that are reported and  *)
(* one that is not, and tables of up to four rows.                         *)
(***************************************************************************)
EXTENDS Reports

MCRequestedCycles == {1, 100, 1000}
MCLog10 == [c \in MCRequestedCycles |->
              CASE c = 1 -> 6000 [] c = 100 -> 8000 [] c = 1000 -> 9000]

Row(cycle, ghr, idx, hist, how, acc, cpi) ==
  [cycle |-> cycle, ghr |-> ghr, idx |-> idx, hist |-> hist,
   status |-> how, acc |-> acc, cpi |-> cpi]

(* Absent, failed, or measured: two accuracies with two CPIs.             *)
Outcomes == {<<>>, <<"fail", 99, 900>>, <<"pass", 52, 1100>>, <<"pass", 52, 1080>>,
             <<"pass", 90, 1010>>, <<"pass", 90, 1120>>}

RowOf(key, outcome) ==
  IF outcome = <<>> THEN <<>>
  ELSE <<Row(key[1], key[2], key[3], key[4], outcome[1], outcome[2], outcome[3])>>

(* Every table over some keys, in their order.                             *)
TablesOver(keys, outcomes) ==
  {FlattenSeq([i \in DOMAIN keys |-> RowOf(keys[i], pick[i])]) :
     pick \in [DOMAIN keys -> outcomes]}

Static == <<Row(1000, 8, 10, 2, "pass", 31, 1500), Row(1, 8, 10, 2, "pass", 30, 1282)>>
GhrOff == <<Row(1000, 0, 2, 2, "pass", 70, 1020), Row(1000, 0, 9, 2, "pass", 89, 1000)>>
GhrOn == <<Row(1000, 0, 9, 2, "pass", 89, 1000), Row(1000, 1, 9, 2, "pass", 80, 1010)>>

Base == [static |-> Static, ghr_off |-> GhrOff, ghr_on |-> GhrOn]
NoTables == [static |-> <<>>, ghr_off |-> <<>>, ghr_on |-> <<>>]

-----------------------------------------------------------------------------
(* One strategy is measured anew, with every table over four keys.         *)
WideTables ==
  [static |-> TablesOver(<<<<1000, 8, 10, 2>>, <<1, 8, 10, 2>>>>, Outcomes),
   ghr_off |-> TablesOver(<<<<1000, 0, 2, 2>>, <<1, 0, 2, 2>>, <<1000, 0, 9, 2>>>>, Outcomes),
   ghr_on |-> TablesOver(<<<<1000, 0, 2, 2>>, <<100, 1, 2, 2>>, <<1000, 1, 3, 2>>,
                           <<1000, 2, 3, 2>>>>, Outcomes)]
OneStrategy == {<<"static">>, <<"ghr_off">>, <<"ghr_on">>}

-----------------------------------------------------------------------------
(* Histories of two sizes, a history that the figures leave out, a cycle   *)
(* count that is not reported, and a grid with a hole.                     *)
GridTables ==
  [static |-> {Static}, ghr_off |-> {GhrOff},
   ghr_on |->
     {<<Row(1000, 0, 1, 2, "pass", a, 1100), Row(1000, 0, 2, 2, "pass", b, 1090),
        Row(1000, 1, 2, 2, "pass", c, 1080), Row(1000, 2, 3, h, "pass", d, 1070),
        Row(k, 11, 12, 2, "pass", 95, 1000)>> :
        a \in {0, 47, 100}, b \in {20, 48}, c, d \in {0, 49, 50}, h \in {2, 3},
        k \in {640, 1000}}]

-----------------------------------------------------------------------------
(* Runs for one strategy or all, from nothing.                             *)
FewTables ==
  [static |-> {<<>>, Static, <<Row(640, 8, 10, 2, "pass", 31, 1500)>>},
   ghr_off |-> {<<>>, GhrOff},
   ghr_on |-> {<<>>, GhrOn, <<Row(1, 0, 3, 2, "pass", 60, 1200)>>}]
SomeRequests == {<<"static", "ghr_off", "ghr_on">>, <<"ghr_on">>}

-----------------------------------------------------------------------------
(* Each instance: what the tables may get, the tables at first, what may   *)
(* be asked for, and how often.                                            *)
Instances ==
  {[tables |-> WideTables, first |-> Base, requests |-> OneStrategy,
    round |-> 1, interrupts |-> 0],
   [tables |-> GridTables, first |-> Base, requests |-> {<<"ghr_on">>},
    round |-> 1, interrupts |-> 0],
   [tables |-> FewTables, first |-> NoTables, requests |-> SomeRequests,
    round |-> 2, interrupts |-> 1]}

MCTables == [s \in DOMAIN Base |-> UNION {i.tables[s] : i \in Instances}]
MCFirstTables == {i.first : i \in Instances}
MCRequests == UNION {i.requests : i \in Instances}

VARIABLE instance

MCInit ==
  /\ instance \in Instances
  /\ ReportsInit
  /\ tables = instance.first

MCNext ==
  /\ ReportsNext
  /\ \A s \in DOMAIN tables : tables'[s] \in {tables[s]} \cup instance.tables[s]
  /\ round' # round => queue' \in instance.requests /\ round' <= instance.round
  /\ interrupts' <= instance.interrupts
  /\ UNCHANGED instance

MCSpec == MCInit /\ [][MCNext]_<<reportVars, instance>>
=============================================================================
