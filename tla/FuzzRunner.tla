----------------------------- MODULE FuzzRunner -----------------------------
(***************************************************************************)
(* test_gen/run_fuzz.sh: the script starts one job per case in the         *)
(* background, never more than FUZZ_JOBS at a time.  A job writes a status *)
(* file; the script finds the failures in these files, and in the exit     *)
(* status of the jobs that it happens to wait for at the end.  Jobs run on *)
(* when the script is interrupted, since background jobs of a script       *)
(* ignore the signal; the next run knows nothing of them.  Left out: that  *)
(* such a job finds the directory of the status files removed.             *)
(*                                                                         *)
(* An operator named Bug... is a faulty variant of the definition below    *)
(* it: nothing uses it but the tests of the properties.                    *)
(***************************************************************************)
EXTENDS Integers, FiniteSets

CONSTANTS
  MaxRuns,            \* bound: runs of the script
  FUZZ_LOOPS,         \* cases of each run
  FUZZ_JOBS,          \* jobs at a time of each run
  MaxCases,           \* bound: cases of any run
  Batch               \* the status files that one grep is given by xargs

Runs == 1 .. MaxRuns

ASSUME RunsAssumption == MaxRuns \in Nat \ {0}
ASSUME CasesAssumption == MaxCases \in Nat
ASSUME LoopsAssumption == FUZZ_LOOPS \in [Runs -> 0 .. MaxCases]
ASSUME JobsAssumption == FUZZ_JOBS \in [Runs -> Nat \ {0}]
ASSUME BatchAssumption == Batch \in Nat \ {0}

(* The names of the cases are the same in every run.                       *)
Cases == 0 .. MaxCases - 1

VARIABLES
  at,                 \* where the script is
  idx,                \* the next case to start
  failed,             \* the variable of the script
  shown,              \* the case it reports, or NoCase
  exit,               \* its exit status, or NoExit
  run,                \* the number of this run
  job,                \* run, case -> the state of the job
  reaped,             \* jobs of this run that the script has waited for
  statusFile,         \* case -> its status file, and the run that wrote it
  dir,                \* cases with a build directory
  mismatch            \* run, case -> the test of the program failed

scriptVars == <<at, idx, failed, shown, exit, run, reaped>>
jobVars == <<job, statusFile, dir, mismatch>>
fuzzVars == <<scriptVars, jobVars>>

NoCase == -1
NoExit == -1
NoStatus == [is |-> "none", run |-> 0]

(* The states of a job.  With status 0 or 1 it has ended.                  *)
Live == {"start", "generated", "tested", "passed"}
Ended == {"exit_0", "exit_1"}

CasesOfRun == 0 .. FUZZ_LOOPS[run] - 1

Running == {i \in Cases : job[run][i] \in Live}
Finished == {i \in Cases : job[run][i] \in Ended}

-----------------------------------------------------------------------------
(* run_fuzz_case, a job of run r.                                          *)
MakeDirectory(r, i) ==
  /\ job[r][i] = "start"
  /\ dir' = dir \cup {i}
  /\ \/ job' = [job EXCEPT ![r][i] = "generated"]
     \/ job' = [job EXCEPT ![r][i] = "exit_1"]   \* generate_fuzz.py fails: set -e
  /\ UNCHANGED <<scriptVars, statusFile, mismatch>>

Record(r, i, result) == statusFile' = [statusFile EXCEPT ![i] = [is |-> result, run |-> r]]

BugSilent(r, i) ==
  /\ job[r][i] = "generated"
  /\ \/ /\ job' = [job EXCEPT ![r][i] = "tested"]
        /\ UNCHANGED <<statusFile, mismatch>>
     \/ /\ job' = [job EXCEPT ![r][i] = "tested"]
        /\ mismatch' = [mismatch EXCEPT ![r][i] = TRUE]
        /\ UNCHANGED statusFile
  /\ UNCHANGED <<scriptVars, dir>>

(* run_single.sh.                                                          *)
RunSingle(r, i) ==
  /\ job[r][i] = "generated"
  /\ \/ /\ job' = [job EXCEPT ![r][i] = "tested"]
        /\ UNCHANGED <<statusFile, mismatch>>
     \/ /\ job' = [job EXCEPT ![r][i] = "exit_1"]
        /\ mismatch' = [mismatch EXCEPT ![r][i] = TRUE]
        /\ Record(r, i, "FAIL")
  /\ UNCHANGED <<scriptVars, dir>>

(* The counters are there, or not.                                         *)
ReadMetrics(r, i) ==
  /\ job[r][i] = "tested"
  /\ \/ job' = [job EXCEPT ![r][i] = "passed"] /\ Record(r, i, "PASS")
     \/ job' = [job EXCEPT ![r][i] = "exit_1"] /\ Record(r, i, "FAIL")
  /\ UNCHANGED <<scriptVars, dir, mismatch>>

(* rm -rf fails when another process makes a file at that moment.          *)
RemoveDirectory(r, i) ==
  /\ job[r][i] = "passed"
  /\ \/ dir' = dir \ {i} /\ job' = [job EXCEPT ![r][i] = "exit_0"]
     \/ job' = [job EXCEPT ![r][i] = "exit_1"] /\ UNCHANGED dir
  /\ UNCHANGED <<scriptVars, statusFile, mismatch>>

Job(r, i) ==
  \/ MakeDirectory(r, i) \/ RunSingle(r, i)
  \/ ReadMetrics(r, i) \/ RemoveDirectory(r, i)

-----------------------------------------------------------------------------
(* The script.                                                             *)
Exit(status) == at' = "end" /\ exit' = status

(* The status files of earlier runs go, and the simulator is built.        *)
Prepare ==
  /\ at = "prepare"
  /\ statusFile' = [i \in Cases |-> NoStatus]
  /\ \/ at' = "launch" /\ UNCHANGED exit
     \/ Exit(1)
  /\ UNCHANGED <<idx, failed, shown, run, reaped, job, dir, mismatch>>

Launch ==
  /\ at = "launch"
  /\ IF idx < FUZZ_LOOPS[run]
     THEN /\ job' = [job EXCEPT ![run][idx] = "start"]
          /\ idx' = idx + 1
          /\ at' = "throttle"
     ELSE at' = "drain" /\ UNCHANGED <<job, idx>>
  /\ UNCHANGED <<failed, shown, exit, run, reaped, statusFile, dir, mismatch>>

BugOneMore ==
  /\ at = "throttle"
  /\ at' = IF Cardinality(Running) > FUZZ_JOBS[run] THEN "wait" ELSE "launch"
  /\ UNCHANGED <<idx, failed, shown, exit, run, reaped, jobVars>>

(* jobs -rp | wc -l.                                                       *)
Throttle ==
  /\ at = "throttle"
  /\ at' = IF Cardinality(Running) >= FUZZ_JOBS[run] THEN "wait" ELSE "launch"
  /\ UNCHANGED <<idx, failed, shown, exit, run, reaped, jobVars>>

(* wait -n returns for a job that has ended and was not waited for, or     *)
(* waits for one; without any job it returns at once.                      *)
Reaps(i) == i \in Finished \ reaped /\ reaped' = reaped \cup {i}
NoJobLeft == Running = {} /\ Finished \subseteq reaped

(* The exit status is dropped.                                             *)
WaitToLaunch ==
  /\ at = "wait"
  /\ \/ \E i \in Cases : Reaps(i)
     \/ NoJobLeft /\ UNCHANGED reaped
  /\ at' = "throttle"
  /\ UNCHANGED <<idx, failed, shown, exit, run, jobVars>>

BugNoDrain ==
  /\ at = "drain"
  /\ at' = "collect"
  /\ UNCHANGED <<idx, failed, shown, exit, run, reaped, jobVars>>

BugCountsEnded ==
  /\ at = "drain"
  /\ at' = IF Running \cup Finished # {} THEN "wait_at_end" ELSE "collect"
  /\ UNCHANGED <<idx, failed, shown, exit, run, reaped, jobVars>>

(* Jobs that have ended are not counted, waited for or not.                *)
Drain ==
  /\ at = "drain"
  /\ at' = IF Running # {} THEN "wait_at_end" ELSE "collect"
  /\ UNCHANGED <<idx, failed, shown, exit, run, reaped, jobVars>>

(* The exit status counts.                                                 *)
WaitAtEnd ==
  /\ at = "wait_at_end"
  /\ \/ \E i \in Cases :
          /\ Reaps(i)
          /\ failed' = (failed \/ job[run][i] = "exit_1")
     \/ NoJobLeft /\ failed' = TRUE /\ UNCHANGED reaped
  /\ at' = "drain"
  /\ UNCHANGED <<idx, shown, exit, run, jobVars>>

Written == {i \in Cases : statusFile[i] # NoStatus}
FailList == {i \in Cases : statusFile[i].is = "FAIL"}

(* xargs gives each grep at most Batch files, in the order of find, and    *)
(* succeeds if every grep has found a failure; without files it succeeds.  *)
Batches == {f \in [Written -> 0 .. MaxCases] :
              \A k \in 0 .. MaxCases :
                Cardinality({i \in Written : f[i] = k})
                  = LET left == Cardinality(Written) - k * Batch
                    IN IF left > Batch THEN Batch ELSE IF left > 0 THEN left ELSE 0}

Lists(f) == \A k \in {f[i] : i \in Written} : \E i \in FailList : f[i] = k

(* The failures are listed, and the first of the list is reported.         *)
Collect ==
  /\ at = "collect"
  /\ \E f \in Batches :
       LET fails == failed \/ (Lists(f) /\ FailList # {})
       IN /\ failed' = fails
          /\ IF fails
             THEN /\ Exit(1)
                  /\ shown' = IF FailList = {} THEN NoCase
                              ELSE CHOOSE i \in FailList : \A j \in FailList : i <= j
             ELSE at' = "summary" /\ UNCHANGED <<exit, shown>>
  /\ UNCHANGED <<idx, run, reaped, jobVars>>

(* Every case needs a status file with the counters, which a failure lacks.*)
Summary ==
  /\ at = "summary"
  /\ IF \A i \in CasesOfRun : statusFile[i].is = "PASS"
     THEN Exit(0) /\ statusFile' = [i \in Cases |-> NoStatus]
     ELSE Exit(1) /\ UNCHANGED statusFile
  /\ UNCHANGED <<idx, failed, shown, run, reaped, job, dir, mismatch>>

(* The script is interrupted, or has ended, and is started again.          *)
Again ==
  /\ run < MaxRuns
  /\ run' = run + 1
  /\ at' = "prepare" /\ idx' = 0 /\ failed' = FALSE /\ shown' = NoCase /\ exit' = NoExit
  /\ reaped' = {}
  /\ UNCHANGED jobVars

FuzzInit ==
  /\ at = "prepare" /\ idx = 0 /\ failed = FALSE /\ shown = NoCase /\ exit = NoExit
  /\ run = 1
  /\ reaped = {}
  /\ job = [r \in Runs |-> [i \in Cases |-> "none"]]
  /\ statusFile = [i \in Cases |-> NoStatus]
  /\ dir = {}
  /\ mismatch = [r \in Runs |-> [i \in Cases |-> FALSE]]

Script ==
  \/ Prepare \/ Launch \/ Throttle \/ WaitToLaunch
  \/ Drain \/ WaitAtEnd \/ Collect \/ Summary

FuzzNext == Script \/ (\E r \in Runs, i \in Cases : Job(r, i)) \/ Again

FuzzSpec == FuzzInit /\ [][FuzzNext]_fuzzVars

(* The machine runs every process; REF_TIMEOUT and SIM_TIMEOUT end a test. *)
FairFuzzSpec ==
  FuzzSpec /\ WF_fuzzVars(Script)
    /\ \A r \in Runs, i \in Cases : WF_fuzzVars(Job(r, i))

-----------------------------------------------------------------------------
(* Jobs that end between the count and the wait, and jobs that are waited  *)
(* for late, never let more than FUZZ_JOBS of a run be alive.              *)
JobsBounded == Cardinality(Running) <= FUZZ_JOBS[run]

(* The script ends with 0 only when every job of the run has ended and no  *)
(* case whose status file is of this run had a mismatch, whatever exit     *)
(* statuses the loop that starts the jobs has dropped.  Excepted are cases *)
(* without such a file: their generator failed, or a job that an earlier   *)
(* run left behind wrote over it.                                          *)
ZeroMeansPass ==
  [][at # "end" /\ exit' = 0 =>
       \A i \in CasesOfRun :
         /\ job[run][i] \in Ended
         /\ statusFile[i].run = run => ~mismatch[run][i]]_fuzzVars

(* README.md: after a mismatch the failing seed is printed, and where its  *)
(* artifacts are.  Of a run without others before it, which ended.         *)
FailureReported ==
  at = "end" /\ run = 1 /\ (\E i \in Cases : mismatch[1][i]) =>
    /\ exit = 1
    /\ shown # NoCase
    /\ statusFile[shown].is = "FAIL" /\ shown \in dir

(* A run comes to an end, whatever its jobs do.                            *)
RunEnds == at # "end" ~> at = "end"
=============================================================================
