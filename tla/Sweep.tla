------------------------------- MODULE Sweep -------------------------------
(***************************************************************************)
(* run_quantification.py at work: a pool of worker threads runs one        *)
(* benchmark per task, and the file metrics.json of a run directory is     *)
(* both the result of the task and the cache that a later invocation       *)
(* reads.  The program may be killed between any two steps and started     *)
(* again with other arguments; the files stay.                             *)
(*                                                                         *)
(* write_text opens its file, which empties it, and writes when it closes  *)
(* it: two steps.  Two workers may be between them on the same file.       *)
(* Not modelled: the logs, which nothing reads back, a file system that    *)
(* fails, and two invocations at the same time.                            *)
(***************************************************************************)
EXTENDS SweepPlan, FiniteSets, Functions

CONSTANTS
  Invocations,        \* the command lines considered
  Measures,           \* what the counters of a simulation may show
  Committed,          \* the rows of the results.csv files at first
  MaxRuns,            \* bound: invocations in a behaviour
  MaxBroken,          \* bound: directories whose make raises, per invocation
  MaxKills            \* bound: times the program is killed

ASSUME InvocationsAssumption == \A a \in Invocations : IsCommandLine(a)

VARIABLES
  argv,               \* the command line of the current invocation
  stage,              \* which of its strategies is being swept
  main,               \* what the main thread does
  worker,             \* what happens to each task of the strategy
  result,             \* what run_one returned or has in hand, per task
  metrics,            \* the metrics.json of each run directory
  csv,                \* the rows of each results.csv, a set
  broken,             \* the directories whose make this invocation could
                      \* not run or read, in any strategy: a history
  runs, kills         \* counters for the bounds

vars == <<argv, stage, main, worker, result, metrics, csv, broken, runs, kills>>

(* The tasks of each command line, and the directory of each task.         *)
Plan == [a \in Invocations |-> [s \in ToSet(chosen(a)) |-> tasks(a, s)]]

AllTasks ==
  UNION {UNION {ToSet(Plan[a][s]) : s \in ToSet(chosen(a))} : a \in Invocations}

DirOf == [t \in AllTasks |-> run_dir(t)]
RunDirs == {DirOf[t] : t \in AllTasks}

strategy == chosen(argv)[stage]
Tasks == Plan[argv][strategy]
TaskIds == DOMAIN Tasks
Dir(i) == DirOf[Tasks[i]]

(* The contents of metrics.json: no file, an empty file, a file in which   *)
(* the ends of two texts overlap, or a record.  made is the build and the  *)
(* simulation the counters come from.                                      *)
Absent == [kind |-> "absent"]
Empty == [kind |-> "empty"]
Mixed == [kind |-> "mixed"]

Record(t, options, status, measure) ==
  [kind |-> "record", config |-> t.config, cycles |-> t.cycles,
   run_dir |-> DirOf[t], status |-> status, measure |-> measure,
   made |-> <<Machine(t.config), t.cycles, options>>]

Readable(d) == metrics[d].kind = "record"
Unreadable(d) == metrics[d] \in {Empty, Mixed}

NoResult == [kind |-> "none"]

(* The command line asks for no measurement twice, in whatever spelling.   *)
Repeats == {a \in Invocations : \E s \in ToSet(chosen(a)) : ~IsInjective(Plan[a][s])}
Distinct(a) == a \notin Repeats

-----------------------------------------------------------------------------
(* The pool: ThreadPoolExecutor starts the tasks in the order submitted,   *)
(* never more than max(1, jobs) at once.                                   *)
Active == {i \in TaskIds : worker[i] \in {"reading", "making", "opening", "writing"}}

BugNoWorker == argv.jobs

max_workers == IF argv.jobs > 1 THEN argv.jobs ELSE 1

MayStart(i) ==
  /\ main = "pool"
  /\ worker[i] = "queued"
  /\ \A j \in TaskIds : j < i => worker[j] # "queued"
  /\ Cardinality(Active) < max_workers

BugCacheForced(i) == metrics[Dir(i)] # Absent
BugNeverCached(i) == FALSE

(* metrics_path.exists() and not args.force                                *)
UseCached(i) == metrics[Dir(i)] # Absent /\ ~argv.force

StartCached(i) ==
  /\ MayStart(i)
  /\ UseCached(i)
  /\ worker' = [worker EXCEPT ![i] = "reading"]
  /\ UNCHANGED <<argv, stage, main, result, metrics, csv, broken, runs, kills>>

StartMake(i) ==
  /\ MayStart(i)
  /\ ~UseCached(i)
  /\ worker' = [worker EXCEPT ![i] = "making"]
  /\ UNCHANGED <<argv, stage, main, result, metrics, csv, broken, runs, kills>>

(* json.loads(metrics_path.read_text()) raises on anything but a record;   *)
(* main prints the exception and goes on.                                  *)
ReadCached(i) ==
  /\ worker[i] = "reading"
  /\ IF Readable(Dir(i))
     THEN /\ worker' = [worker EXCEPT ![i] = "returned"]
          /\ result' = [result EXCEPT ![i] = metrics[Dir(i)]]
     ELSE /\ worker' = [worker EXCEPT ![i] = "raised"]
          /\ UNCHANGED result
  /\ UNCHANGED <<argv, stage, main, metrics, csv, broken, runs, kills>>

(* make benchmark cannot be started, or its output is not text, or a log   *)
(* cannot be written: run_one raises after make and before the record.     *)
(* The file is left as it is, main prints the exception and goes on.       *)
MakeRaises(i) ==
  /\ worker[i] = "making"
  /\ Cardinality(broken) < MaxBroken
  /\ worker' = [worker EXCEPT ![i] = "broke"]
  /\ broken' = broken \cup {Dir(i)}
  /\ UNCHANGED <<argv, stage, main, result, metrics, csv, runs, kills>>

(* make benchmark ends, well or not; the record describes the task.        *)
MakeEnds(i) ==
  /\ worker[i] = "making"
  /\ worker' = [worker EXCEPT ![i] = "opening"]
  /\ \E status \in {"pass", "fail"}, m \in Measures :
       result' = [result EXCEPT ![i] = Record(Tasks[i], argv.options, status, m)]
  /\ UNCHANGED <<argv, stage, main, metrics, csv, broken, runs, kills>>

BugInPlace(i) ==
  /\ worker[i] = "opening"
  /\ worker' = [worker EXCEPT ![i] = "writing"]
  /\ metrics' = [metrics EXCEPT ![Dir(i)] = IF @ = Absent THEN Empty ELSE @]
  /\ UNCHANGED <<argv, stage, main, result, csv, broken, runs, kills>>

OpenMetrics(i) ==
  /\ worker[i] = "opening"
  /\ worker' = [worker EXCEPT ![i] = "writing"]
  /\ metrics' = [metrics EXCEPT ![Dir(i)] = Empty]
  /\ UNCHANGED <<argv, stage, main, result, csv, broken, runs, kills>>

(* The text lands at the start of the file.  If another worker has written *)
(* there since this one emptied it, the end of a longer text stays.        *)
CloseMetrics(i) ==
  /\ worker[i] = "writing"
  /\ worker' = [worker EXCEPT ![i] = "returned"]
  /\ \/ metrics' = [metrics EXCEPT ![Dir(i)] = result[i]]
     \/ /\ metrics[Dir(i)] # Empty
        /\ metrics' = [metrics EXCEPT ![Dir(i)] = Mixed]
  /\ UNCHANGED <<argv, stage, main, result, csv, broken, runs, kills>>

-----------------------------------------------------------------------------
(* The main thread.                                                        *)

Root(s) == {d \in RunDirs : d[1] = strategy_root(s)}

BugNotDrained == TRUE

(* Leaving the with block waits for every task.                            *)
PoolDrained == \A i \in TaskIds : worker[i] \in {"returned", "raised", "broke"}

(* collect_records reads every metrics.json below the root.                *)
Collects(s) == \A d \in Root(s) : ~Unreadable(d)

BugPassedOnly(s) ==
  {metrics[d] : d \in {e \in Root(s) : Readable(e) /\ metrics[e].status = "pass"}}

Collected(s) == {metrics[d] : d \in {e \in Root(s) : Readable(e)}}

(* write_csv opens results.csv only when every record has been read.       *)
OpenCsv ==
  /\ main = "pool"
  /\ PoolDrained
  /\ Collects(strategy)
  /\ main' = "csv"
  /\ csv' = [csv EXCEPT ![strategy] = {}]
  /\ UNCHANGED <<argv, stage, worker, result, metrics, broken, runs, kills>>

(* An unreadable file raises out of main: this results.csv is left as it   *)
(* is and the remaining strategies are not swept.                          *)
CollectRaises ==
  /\ main = "pool"
  /\ PoolDrained
  /\ ~Collects(strategy)
  /\ main' = "aborted"
  /\ UNCHANGED <<argv, stage, worker, result, metrics, csv, broken, runs, kills>>

WriteRow ==
  /\ main = "csv"
  /\ \E row \in Collected(strategy) \ csv[strategy] :
       csv' = [csv EXCEPT ![strategy] = @ \cup {row}]
  /\ UNCHANGED <<argv, stage, main, worker, result, metrics, broken, runs, kills>>

(* The workers and results of stage s of invocation a before it starts.    *)
AllQueued(a, s) == [i \in DOMAIN Plan[a][chosen(a)[s]] |-> "queued"]

NoResults(a, s) == [i \in DOMAIN Plan[a][chosen(a)[s]] |-> NoResult]

NextStrategy ==
  /\ main = "csv"
  /\ Collected(strategy) \subseteq csv[strategy]
  /\ IF stage < Len(chosen(argv))
     THEN /\ stage' = stage + 1
          /\ main' = "pool"
          /\ worker' = AllQueued(argv, stage + 1)
          /\ result' = NoResults(argv, stage + 1)
     ELSE /\ main' = "done"
          /\ UNCHANGED <<stage, worker, result>>
  /\ UNCHANGED <<argv, metrics, csv, broken, runs, kills>>

Running == main \in {"pool", "csv"}

(* The program is killed, with all its threads.                            *)
Kill ==
  /\ Running
  /\ kills < MaxKills
  /\ kills' = kills + 1
  /\ main' = "killed"
  /\ UNCHANGED <<argv, stage, worker, result, metrics, csv, broken, runs>>

Invoke ==
  /\ ~Running
  /\ runs < MaxRuns
  /\ runs' = runs + 1
  /\ argv' \in Invocations
  /\ stage' = 1
  /\ main' = "pool"
  /\ worker' = AllQueued(argv', 1)
  /\ result' = NoResults(argv', 1)
  /\ broken' = {}
  /\ UNCHANGED <<metrics, csv, kills>>

(* The repository holds the tables but not the records (.gitignore): the   *)
(* first invocation after a checkout finds rows without their records.     *)
Init ==
  /\ argv \in Invocations
  /\ stage = 1
  /\ main = "pool"
  /\ worker = AllQueued(argv, 1)
  /\ result = NoResults(argv, 1)
  /\ metrics = [d \in RunDirs |-> Absent]
  /\ csv = [s \in ToSet(strategies) |-> {r \in Committed : r.config.strategy = s}]
  /\ broken = {}
  /\ runs = 1
  /\ kills = 0

Work(i) ==
  \/ StartCached(i) \/ StartMake(i) \/ ReadCached(i)
  \/ MakeRaises(i) \/ MakeEnds(i) \/ OpenMetrics(i) \/ CloseMetrics(i)

Worker == Running /\ \E i \in TaskIds : Work(i)

Main == OpenCsv \/ CollectRaises \/ WriteRow \/ NextStrategy

Next == Worker \/ Main \/ Kill \/ Invoke

Spec == Init /\ [][Next]_vars

(* The threads are scheduled and make ends: run_coremark.sh bounds the     *)
(* simulation by BENCH_MAX_CYCLES and by a time limit.                     *)
FairSpec == Spec /\ WF_vars(Worker) /\ WF_vars(Main)

-----------------------------------------------------------------------------
(* What run_one returns to a task was measured on the machine and for the  *)
(* number of cycles the task asks for, whether it ran make or read a file  *)
(* that any earlier task of any invocation left; with --force it was       *)
(* measured with the options of this command line.                         *)
ResultOfTask ==
  \A i \in TaskIds :
    result[i] # NoResult =>
      /\ result[i].made[1] = Machine(Tasks[i].config)
      /\ result[i].made[2] = Tasks[i].cycles
      /\ argv.force => result[i].made[3] = argv.options

(* metrics.json is empty only while a worker is writing it, or after a     *)
(* kill.                                                                   *)
EmptyExplained ==
  \A d \in RunDirs :
    metrics[d] = Empty =>
      \/ kills > 0
      \/ main = "pool" /\ \E i \in TaskIds : worker[i] = "writing" /\ Dir(i) = d

(* The sweep gives up only because of a file that a kill or an overlap     *)
(* left unreadable, and --force gets past every such file that its own     *)
(* tasks write, unless they overlap too or their make cannot be run.  A    *)
(* task that runs make reports an exception only because make cannot be    *)
(* run; one that reads its file, only because the file is unreadable.      *)
FailureExplained ==
  /\ EmptyExplained
  /\ main = "aborted" =>
       \E d \in Root(strategy) :
         /\ Unreadable(d)
         /\ kills > 0 \/ metrics[d] = Mixed
         /\ argv.force /\ Distinct(argv) =>
              d \in broken \/ \A i \in TaskIds : Dir(i) # d
  /\ \A i \in TaskIds :
       worker[i] = "raised" =>
         ~argv.force /\ (kills > 0 \/ ~Distinct(argv) \/ metrics[Dir(i)] = Mixed)

(* When the program ends well, each table it was asked for holds exactly   *)
(* the records below its root, and every task has its row, but for a task  *)
(* whose make could not be run and that was not measured before: nothing   *)
(* that was measured is missing and no row outlives its record.            *)
DoneHasRows ==
  main = "done" =>
    \A s \in ToSet(chosen(argv)) :
      /\ csv[s] = {metrics[d] : d \in {e \in Root(s) : metrics[e] # Absent}}
      /\ \A t \in ToSet(Plan[argv][s]) :
           \/ \E row \in csv[s] : row.run_dir = DirOf[t]
           \/ DirOf[t] \in broken

(* After a forced sweep that ends well, the rows of its tasks were made    *)
(* with the options of this command line: the only older record left is    *)
(* that of a task whose make could not be run.                             *)
ForcedIsCurrent ==
  main = "done" /\ argv.force =>
    \A s \in ToSet(chosen(argv)) : \A row \in csv[s] :
      (\E t \in ToSet(Plan[argv][s]) : DirOf[t] = row.run_dir) =>
        row.made[3] = argv.options \/ row.run_dir \in broken

(* Both: a table holds what is there, all of it, and what was asked for.   *)
TablesTrue == DoneHasRows /\ ForcedIsCurrent

(* A record stays as it is while no command line asks for --force or for   *)
(* the same measurement twice: nothing is measured again.                  *)
MeasuredOnce ==
  [][\A d \in RunDirs :
       Readable(d) /\ Running /\ ~argv.force /\ Distinct(argv) =>
         metrics'[d] = metrics[d]]_vars

(* Texts mix in a file only when the command line asks for a measurement   *)
(* twice: different tasks never share a file.                              *)
OnlyTwinsMix ==
  [][\A d \in RunDirs :
       metrics'[d] = Mixed /\ metrics[d] # Mixed => ~Distinct(argv)]_vars

(* Two tasks that run make at the same time in one build directory are the *)
(* same measurement.                                                       *)
BuildsApart ==
  \A i, j \in TaskIds :
    worker[i] = "making" /\ worker[j] = "making"
      /\ safe_run_id(Tasks[i]) = safe_run_id(Tasks[j]) => Tasks[i] = Tasks[j]

(* Every invocation ends, by itself or killed.                             *)
EveryRunEnds == Running ~> ~Running
=============================================================================
