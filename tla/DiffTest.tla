------------------------------ MODULE DiffTest ------------------------------
(***************************************************************************)
(* test_gen/run_single.sh: one differential test.  The script builds a     *)
(* program, converts it for the processor, lets the reference simulator    *)
(* and then the RTL simulator run it and compares their registers.  The    *)
(* files stay in the build directory: the next test of the same name finds *)
(* them, whether this one ended, gave up or was killed.  A killed script   *)
(* does not take its running child along: that one may write its file into *)
(* the next test.                                                          *)
(*                                                                         *)
(* The tools and the two simulators are external: each may fail, and the   *)
(* processor under test may leave any registers.  Left out: the branch for *)
(* a system without `timeout`, and half-written files (a file changes in   *)
(* one step).                                                              *)
(***************************************************************************)
EXTENDS TestOps

CONSTANTS
  Byte,               \* bound: the bytes of a program
  Programs,           \* bound: what the source file may hold
  CpuValues,          \* bound: values of a register the processor may leave
  MaxRuns,            \* bound: tests in a behaviour
  MaxKills            \* bound: times the script is killed

(* A write that the reference simulator traces.                            *)
TraceLine == [name : STRING \X Nat, value : Nat]

ASSUME ProgramsAssumption ==
  \A p \in Programs :
    p.words \in Seq([1 .. 4 -> Byte]) /\ p.trace \in Seq(TraceLine)

VARIABLES
  program,            \* the source file of the current test
  at,                 \* the step of the script
  sim,                \* the RTL simulator: idle, ends or hangs
  elf, dat, qemu_state, sim_log, metrics, cpu_state,  \* the files
  verdict,            \* what the script reports
  named,              \* the registers whose mismatch is printed
  orphans,            \* children of killed scripts that still run
  survivors,          \* history: those alive when this test started
  runs, kills         \* counters for the bounds

files == <<elf, dat, qemu_state, sim_log, metrics, cpu_state>>
kept == <<named, orphans, survivors, runs, kills>>
testVars == <<program, at, sim, files, verdict, kept>>

(* A file is absent, or has a content and the number of the test it is of: *)
(* of an ELF the test whose source it is built from, and what is made of a *)
(* file is of the same test.                                               *)
Absent == [run |-> 0, text |-> <<>>]
File(text) == [run |-> runs, text |-> text]
Exists(file) == file # Absent

RomImage(file) == [run |-> file.run, text |-> word2byte(HexFile(file.text.words))]
RefState(file) == [run |-> file.run, text |-> traced_regs(file.text.trace)]

Stop(result) == at' = "end" /\ verdict' = result

-----------------------------------------------------------------------------
(* The assembler and the linker, or the assembly file is missing.          *)
Build ==
  /\ at = "build"
  /\ \/ elf' = File(program) /\ at' = "convert" /\ UNCHANGED verdict
     \/ Stop("ERROR") /\ UNCHANGED elf
  /\ UNCHANGED <<program, sim, dat, qemu_state, sim_log, metrics, cpu_state, kept>>

(* objcopy and word2byte.py, or set -e ends the script.                    *)
Convert ==
  /\ at = "convert"
  /\ \/ dat' = RomImage(elf) /\ at' = "reference" /\ UNCHANGED verdict
     \/ Stop("ERROR") /\ UNCHANGED dat
  /\ UNCHANGED <<program, sim, elf, qemu_state, sim_log, metrics, cpu_state, kept>>

(* The reference simulator stops at the loop, with every write traced, or  *)
(* it does something else: it times out or stops for another reason.       *)
Reference ==
  /\ at = "reference"
  /\ \/ /\ find_loop_addr(elf.text.disasm) # NoAddr
        /\ qemu_state' = RefState(elf)
        /\ at' = "clean"
        /\ UNCHANGED verdict
     \/ Stop("ERROR") /\ UNCHANGED qemu_state
  /\ UNCHANGED <<program, sim, elf, dat, sim_log, metrics, cpu_state, kept>>

BugKeepsState ==
  /\ at = "clean"
  /\ sim_log' = Absent
  /\ metrics' = Absent
  /\ at' = "simulate"
  /\ UNCHANGED <<program, sim, elf, dat, qemu_state, cpu_state, verdict, kept>>

(* rm -f, before the simulation.                                           *)
Clean ==
  /\ at = "clean"
  /\ sim_log' = Absent
  /\ metrics' = Absent
  /\ cpu_state' = Absent
  /\ at' = "simulate"
  /\ UNCHANGED <<program, sim, elf, dat, qemu_state, verdict, kept>>

(* iverilog fails, or vvp starts with an empty log.                        *)
StartSimulation ==
  /\ at = "simulate"
  /\ sim = "idle"
  /\ \/ /\ sim' \in {"ends", "hangs"}
        /\ sim_log' = File(<<>>)
        /\ UNCHANGED <<at, verdict>>
     \/ Stop("ERROR") /\ UNCHANGED <<sim, sim_log>>
  /\ UNCHANGED <<program, elf, dat, qemu_state, metrics, cpu_state, kept>>

(* Exit status 0, with the log and perhaps the state, or another one.      *)
SimulationEnds ==
  /\ at = "simulate"
  /\ sim = "ends"
  /\ sim' = "idle"
  /\ \E regs \in [Reg -> CpuValues], dumps, logs \in BOOLEAN :
       /\ cpu_state' = IF dumps THEN File(regs) ELSE cpu_state
       /\ sim_log' = File(IF logs THEN <<"CPI">> ELSE <<>>)
  /\ \/ at' = "check" /\ UNCHANGED verdict
     \/ Stop("ERROR")
  /\ UNCHANGED <<program, elf, dat, qemu_state, metrics, kept>>

BugNoTimeout == FALSE /\ UNCHANGED testVars

(* timeout kills the simulator: status 124.                                *)
SimulationTimesOut ==
  /\ at = "simulate"
  /\ sim = "hangs"
  /\ sim' = "idle"
  /\ Stop("ERROR")
  /\ UNCHANGED <<program, files, kept>>

(* The state file is there, and the log has the counters.                  *)
Check ==
  /\ at = "check"
  /\ IF Exists(cpu_state) /\ sim_log.text # <<>>
     THEN /\ metrics' = sim_log
          /\ at' = "compare"
          /\ UNCHANGED verdict
     ELSE Stop("ERROR") /\ UNCHANGED metrics
  /\ UNCHANGED <<program, sim, elf, dat, qemu_state, sim_log, cpu_state, kept>>

(* compare_state.py prints the registers that differ.  When it fails       *)
(* itself, by an exception or a signal, the script says FAIL as well.      *)
Compare ==
  /\ at = "compare"
  /\ \/ /\ named' = mismatches(cpu_state.text, qemu_state.text)
        /\ Stop(IF named' = {} THEN "PASS" ELSE "FAIL")
     \/ named' = {} /\ Stop("FAIL")
  /\ UNCHANGED <<program, sim, files, orphans, survivors, runs, kills>>

(* The child that a script killed now leaves behind, with what it reads.   *)
Child ==
  [step |-> at, file |-> IF at \in {"convert", "reference"} THEN elf ELSE File(program)]

Kill ==
  /\ at # "end"
  /\ kills < MaxKills
  /\ kills' = kills + 1
  /\ Stop("NONE")
  /\ sim' = "idle"
  /\ \/ UNCHANGED orphans
     \/ /\ at \in {"build", "convert", "reference"} \/ sim # "idle"
        /\ orphans' = orphans \cup {Child}
  /\ UNCHANGED <<program, files, named, survivors, runs>>

(* It writes its file, at any time.  A simulator has its log open, which   *)
(* the next test removes; one that was not yet started opens the new one.  *)
OrphanWrites(o) ==
  /\ orphans' = orphans \ {o}
  /\ \/ /\ o.step = "build"
        /\ elf' = o.file
        /\ UNCHANGED <<dat, qemu_state, sim_log, cpu_state>>
     \/ /\ o.step = "convert"
        /\ dat' = RomImage(o.file)
        /\ UNCHANGED <<elf, qemu_state, sim_log, cpu_state>>
     \/ /\ o.step = "reference"
        /\ find_loop_addr(o.file.text.disasm) # NoAddr
        /\ qemu_state' = RefState(o.file)
        /\ UNCHANGED <<elf, dat, sim_log, cpu_state>>
     \/ /\ o.step = "simulate"
        /\ \E regs \in [Reg -> CpuValues] : cpu_state' = [run |-> o.file.run, text |-> regs]
        /\ sim_log' \in {sim_log, [run |-> o.file.run, text |-> <<"CPI">>]}
        /\ UNCHANGED <<elf, dat, qemu_state>>
  /\ UNCHANGED <<program, at, sim, metrics, verdict, named, survivors, runs, kills>>

(* It fails, or the timeout that survived with it stops it.                *)
OrphanEnds(o) ==
  /\ orphans' = orphans \ {o}
  /\ UNCHANGED <<program, at, sim, files, verdict, named, survivors, runs, kills>>

(* Another test of the same name: the source may have changed.             *)
Again ==
  /\ at = "end"
  /\ runs < MaxRuns
  /\ runs' = runs + 1
  /\ program' \in Programs
  /\ at' = "build"
  /\ verdict' = "NONE"
  /\ named' = {}
  /\ survivors' = {[step |-> o.step, run |-> o.file.run] : o \in orphans}
  /\ UNCHANGED <<sim, files, orphans, kills>>

TestInit ==
  /\ program \in Programs
  /\ at = "build"
  /\ sim = "idle"
  /\ elf = Absent /\ dat = Absent /\ qemu_state = Absent
  /\ sim_log = Absent /\ metrics = Absent /\ cpu_state = Absent
  /\ verdict = "NONE"
  /\ named = {}
  /\ orphans = {} /\ survivors = {}
  /\ runs = 1
  /\ kills = 0

Script ==
  \/ Build \/ Convert \/ Reference \/ Clean \/ StartSimulation
  \/ SimulationEnds \/ SimulationTimesOut \/ Check \/ Compare

Orphan == \E o \in orphans : OrphanWrites(o) \/ OrphanEnds(o)

TestNext == Script \/ Kill \/ Orphan \/ Again

TestSpec == TestInit /\ [][TestNext]_testVars

(* The tools end: REF_TIMEOUT and SIM_TIMEOUT bound both simulators.       *)
FairTestSpec == TestSpec /\ WF_testVars(Script)

-----------------------------------------------------------------------------
(* The registers at the loop, from the writes of the trace directly: the   *)
(* last one to each register, under whatever name.                         *)
WritesTo(r) ==
  {i \in DOMAIN program.trace :
     LET name == program.trace[i].name
     IN \/ name = <<"x", r>>
        \/ name[1] \in DOMAIN ABI_TO_X /\ ABI_TO_X[name[1]] = r}

Architectural(r) ==
  IF WritesTo(r) = {} THEN 0
  ELSE program.trace[CHOOSE i \in WritesTo(r) : \A j \in WritesTo(r) : j <= i].value
         % WordSize

(* The reference state of this test holds the architectural registers, and *)
(* the ROM image the words of the program in their order: both simulators  *)
(* are given the same program.                                             *)
SameProgram ==
  /\ qemu_state.run = runs => \A r \in Reg : qemu_state.text[r] = Architectural(r)
  /\ dat.run = runs => RomWords(dat.text) = program.words

(* A file is of this test, or a child of an earlier one that was killed    *)
(* wrote it, at one of these steps, and was still there when this started. *)
Own(file, steps) ==
  \/ file.run = runs
  \/ \E step \in steps : [step |-> step, run |-> file.run] \in survivors

(* A PASS is about this program: unless a child of a killed test survived, *)
(* both states and the counters come from this very test, and no register  *)
(* that has a value differs.  What an earlier test left in the directory   *)
(* never counts.                                                           *)
PassIsFresh ==
  verdict = "PASS" =>
    /\ Own(dat, {"build", "convert"})
    /\ Own(qemu_state, {"build", "reference"})
    /\ \A f \in {sim_log, metrics, cpu_state} : Own(f, {"simulate"})
    /\ qemu_state.run = runs /\ cpu_state.run = runs =>
         \A r \in Reg : cpu_state.text[r] \in {X, Architectural(r)}

(* A FAIL blames the processor only for registers it really has wrong: of  *)
(* two states of this very test every register that is named differs, and  *)
(* a state is of another test only when a survivor wrote it.  (A FAIL that *)
(* names no register is a comparison that did not end.)                    *)
FailIsReal ==
  named # {} =>
    /\ verdict = "FAIL"
    /\ Own(qemu_state, {"build", "reference"})
    /\ Own(cpu_state, {"simulate"})
    /\ qemu_state.run = runs /\ cpu_state.run = runs =>
         \A r \in named : cpu_state.text[r] # Architectural(r)

(* Every test ends, whatever hangs.                                        *)
VerdictReached == at # "end" ~> at = "end"
=============================================================================
