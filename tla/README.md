# A TLA+ model of ez_cpu_RV32I

`ez_cpu_RV32I` is a five-stage RV32I processor in Verilog with a branch
predictor, a test bench, differential tests against a reference simulator, and
a sweep that measures the predictor. This directory holds its formal model:
TLA+ modules, TLC configurations, and proofs for TLAPS.

The central result: **every clock edge of the pipeline completes one instruction
exactly as the instruction set prescribes, or changes nothing a program can
see** (`ImplementsIsa`). It is model-checked for every program over several
instruction alphabets, and proved for every word size, register count, ROM,
RAM, ALU, program and prediction, under the assumptions listed below. It is
proved too with the predictor the processor really has, of any size, for
programs that jump to whole words. On top of it, the test bench is proved to end
a run where the reference simulator does and to count what it says it counts.

Around the processor, the model covers the programs that judge it: the generator
of random programs, the test that compares two simulators, the runner that
starts such tests in parallel, the sweep that measures the predictor, and the
figures and the report made of it.

## 1. Inventory

| Component | State | Operations | Talks to | Correct when |
|---|---|---|---|---|
| Pipeline (`cpu.v`, `pc.v`, `if_id.v`, `id_ex.v`, `ex_mem.v`, `mem_wb.v`, `next_pc.v`, `forward_unit.v`, `hazard_detector.v`) | pc, four pipeline registers | one step per rising edge; reset | every component below, by wires within a cycle | each instruction completes once, in order, with fresh operands, and only on the path taken |
| Decoder (`controller.v`, `alu_ctrl.v`, `imm_gen.v`) | none | instruction to control signals, immediate | ID stage | signals mean what the instruction means, reserved codes included |
| Register file (`reg_file.v`) | 32 registers | write at the edge, two write-first reads, asynchronous reset | WB writes, ID reads | x0 is 0; a read in the cycle of a write sees it |
| Data memory (`data_ram.v`) | bytes | write at the edge, combinational read, reset | MEM stage | byte, half and word accesses agree |
| Instruction ROM (`inst_rom.v`) | words | combinational read | IF stage, test bench loads it | |
| ALU (`alu.v`) | none | result, branch condition | EX stage | |
| BTB (`btb.v`) | 4 ways and 3 PLRU bits per set | lookup (IF), training (EX), reset | predictor | a hit is the latest training of that address; what was just used stays |
| Predictor (`bpu.v`, `bht.v`) | history register, counters | lookup, training, reset | BTB, `next_pc.v` | predicts only what the pipeline can repair |
| Test bench (`cpu_tb.v`) | halt flags, counters | reset, load, count, detect the end | reads the wires of `cpu` | ends after the last instruction before the terminal loop; counters count each instruction once |
| Program generator (`generate_fuzz.py`) | the program so far, a label counter | one `emit_` function per step, initialisation, terminal loop | writes the source file of a test | every program assembles, stays in its data area and reaches its loop |
| Differential test (`run_single.sh`, `word2byte.py`, `extract_qemu.py`, `compare_state.py`) | files of the build directory | build, convert, two simulations, compare | both simulators, by files | a PASS or FAIL is about this program and these registers |
| Fuzz runner (`run_fuzz.sh`) | background jobs, status files | start, wait, collect, report | starts generator and tests | a failing seed is always reported |
| Predictor sweep (`run_quantification.py`) | worker pool, `metrics.json` caches, `results.csv` | run or reuse, collect | `make benchmark` | no result lost or mixed up by crashes and concurrent workers |
| Reports and plots (`plot_quantification.py`, `generate_report.py`, `run_all.sh`) | figures, `report.md` | select, place, write | read the tables of the sweep | report and figures say the same, of the tables that are there |
| CoreMark port (`benchmark/runtime.c`) | parameters and locals of a call | multiply, divide, remainder | called by compiled code in place of the missing instructions | the value returned is the product, quotient or remainder |
| RAM test bench, build files | | | | |

All components of the processor change state at the same clock edge, so the
concurrency is that of a pipeline: up to five instructions at different stages,
read and written state several cycles apart, and three units (EX, the load-use
check, a JAL in ID) that may claim the front end in the same cycle. The scripts
have processes and files instead: jobs that end at any time, crashes between
two writes, two workers on one directory, files that an earlier run left.

The hazards are listed with their lines in `PROJECT.json`. The ones the model
covers: stale operands, the priority of redirections, flushes that lose or leak
an instruction, stalls that do not end, wrong operation codes, wrap-around,
reset in mid-flight, duplicate BTB entries, eviction of an entry in use, a
buffer that keeps an outdated target, an entry that answers for the wrong instruction, an end of the
simulation detected on a path that is then abandoned, counters that sample
an instruction in a stage it may leave without retiring, a jump by distance, a
verdict from files of another test or of a child of it that outlived it, jobs that end between a count and a wait,
caches that a crash left half written, and figures drawn from other tables than
the report.

## 2. Modules

| Module | What it is |
|---|---|
| `Rv32i` | words, registers, decoded instructions, the codes of `define.v`, the ROM read port and the adder; the datapath as CONSTANT operators (`Alu`, `BranchCond`, `RamRead`, `RamWrite`) with the assumptions the proofs need |
| `Isa` | abstract specification: the instruction set, one instruction per step |
| `Cpu` | the pipeline; its properties; the refinement mapping to `Isa` |
| `CpuInvariant` | the inductive invariant `IInv` |
| `CpuProofs` | the theorems about `Cpu` |
| `AluOps`, `RamOps` | `alu.v` and `data_ram.v` as operators for any width |
| `MCCpu` | instances of `Cpu` for TLC: alphabets, programs, datapath |
| `LossyMap` | abstract specification of a target buffer: what is recorded, and what a lookup answers |
| `Btb` | `btb.v` |
| `BtbRecent` | `Btb` (EXTENDS) with a history of the last addresses per set; the invariant of the replacement policy |
| `BtbLatest` | `BtbRecent` (EXTENDS) with the last training as a history; the refinement mapping to `LossyMap` |
| `MCBtb` | an instance of `BtbLatest` for TLC: six addresses for four ways |
| `Bpu` | `bpu.v` and `bht.v` on top of `Btb` (EXTENDS): history, counters, direction |
| `BpuSettling` | `Bpu` and `BtbRecent` (EXTENDS) with a history of equal outcomes of one branch |
| `MCBpu` | an instance of `BpuSettling` for TLC: two branches and three JALs |
| `PredictorProofs` | the theorems about `Btb`, `BtbRecent`, `BtbLatest` and `BpuSettling` |
| `CpuBpu` | `Cpu` (EXTENDS) with the predictor `Bpu` (INSTANCE) in place of the abstract one; its properties; the refinement to `Cpu` |
| `CpuBpuProofs` | the theorems about `CpuBpu`, from those about `Cpu` |
| `MCCpuBpu` | instances of `CpuBpu` for TLC |
| `Testbench` | `cpu_tb.v` around `Cpu` (EXTENDS): clock, terminal loop, counters, end |
| `TestbenchInvariant` | the inductive invariant `BenchInv`, and `CyclesInv` |
| `TestbenchProofs` | the theorems about `Testbench`, from those about `Cpu` |
| `MCTestbench` | an instance of `Testbench` for TLC: programs with terminal loops |
| `ImmGen` | `imm_gen.v` on the bits of an instruction word, the instruction formats |
| `Runtime` | `runtime.c`: multiplication and division; its inductive invariant |
| `ArithmeticProofs` | the theorems about `ImmGen` and `Runtime` |
| `FuzzGen` | `generate_fuzz.py`: one program, an action per `emit_` function |
| `FuzzRun` | `FuzzGen` (EXTENDS), an assembler, and `Isa` (INSTANCE) that runs the program, over any datapath that adds |
| `MCFuzz` | an instance of `FuzzRun` for TLC, with `AluOps` and `RamOps` |
| `TestOps` | the conversions of `word2byte.py`, `extract_qemu.py`, `compare_state.py` as operators |
| `DiffTest` | `run_single.sh`: one test after another in one build directory, and the children of killed ones |
| `MCDiffTest` | an instance of `DiffTest` for TLC |
| `DiffTestProofs` | the theorems about `DiffTest` |
| `FuzzRunner` | `run_fuzz.sh`: the script, its jobs and its status files |
| `MCFuzzRunner` | instances of `FuzzRunner` for TLC |
| `FuzzProofs` | the theorems about `FuzzGen`, `FuzzRun` and `FuzzRunner` |
| `SweepPlan` | `run_quantification.py`: tasks, directories and names as operators |
| `Sweep` | `run_quantification.py`: worker pool, caches, tables, kills and restarts |
| `MCSweep` | an instance of `Sweep` for TLC: command lines |
| `PlotOps`, `ReportOps` | what `plot_quantification.py` and `generate_report.py` select and where they draw it, as operators |
| `Reports` | `run_all.sh`: tables, figures and report as files |
| `MCReports` | an instance of `Reports` for TLC: tables |
| `QuantificationProofs` | the theorems about `Sweep` and `Reports` |

Operators named `Bug...` are faulty variants of the definition that follows
them, a dropped guard or a swapped priority. No specification uses them.
Substituting one for the original makes the property it is paired with in
`PROJECT.json` fail, which shows that the property depends on that code.

### Correspondence of `Cpu` to the RTL

The variables are the registers of the RTL: `pc` is `pc.inst_addr`, `if_id`,
`id_ex`, `ex_mem`, `mem_wb` are the four pipeline registers as records with the
field names of the RTL, `reg_Data` is the register file, `ram` the bytes of
`data_ram`. `live` is a history variable that no other variable depends on: it
records which stages hold an instruction that was fetched, as opposed to a
bubble.

Wires are state functions with the names of the RTL (`mem_wdata`,
`forwardA_data`, `ex_pred_fail`, `load_use_hazard`, `hazard`, `next_PC`).
`Clock(prediction)` is a rising edge: it assigns every register from the wires
before the edge, as the non-blocking assignments do. The four actions
`Redirect`, `LoadUseStall`, `JalJump`, `Advance` are the same edge split by the
branch of `hazard_detector.v` that applies. `Reset` is an edge with `rstn` low;
it may come at any time and clears everything but the ROM. The registers and
the predictor clear asynchronously and the rest at the edge, but nothing is
written in between, so one step represents both.

An instruction is a record of its fields with the sign-extended immediate. Where
the encoding overlaps the immediate with `rs1`, `rs2` or `rd`, those fields hold
any value, because the hazard and forwarding units look at the raw bits of every
instruction. `"NONE"` is any opcode without a case in `controller.v`.

The predictor is abstract. At each fetch it returns any member of `Predictions`:
not taken, or, for a branch or JAL in IF, taken with target PC + imm. This is
the contract `cpu.v` relies on without checking: it repairs a conditional branch
whose direction was wrong and compares no targets. That the real predictor keeps
the contract is the refinement `ImplementsCpu` of `CpuBpu`.

### Refinement of `Isa`

The pipeline is mapped to an architectural state in which the instruction in
MEM is the next to complete:

- `AbsRegs`: the register file with the pending write-back of WB applied;
- `AbsPC`: the address of the instruction in MEM if there is one, else in EX,
  else in ID, else `pc`;
- `ram` and `rom`: themselves.

An edge with an instruction in MEM maps to one `Isa` step, any other to a
stutter, a reset to a reset.

### Correspondence of `Btb`

`way_r[set][way]` joins `valid_r`, `tag_r`, `branch_target_r`, `branch_type_r`;
`plru_r` is the tree. `TrainHit` and `TrainMiss` are the two branches of the
clocked process for an instruction of type branch or JAL in EX; lookups are
state functions. A hit rewrites the last matching way while a lookup answers
with the first, as in the loops of `btb.v`: that they are the same way is a
property (`UniqueEntry`). A miss replaces the PLRU victim even when another
way is still invalid, as the code does.

`LossyMap` has two variables: `last`, the key and value recorded last, and `map`,
what a lookup of each key answers. `Record(k, v)` leaves `map[k] = v` and may
forget one other key of the same set. `BtbLatest` maps `last` to a history of
the trainings, written by the training and not by the buffer, and `map` to the
answers of lookups: a training that stores nothing, or another target, or under
another address, is no step of `LossyMap`.

### Correspondence of `Bpu` and `CpuBpu`

`ghr_r` and `branch_counter_r` are the registers of the same names. The widths
of the RTL are sizes here: `GhrSize` is 2^GHR_WIDTH, `BhtSize`
2^BPU_BHT_INDEX_BITS, `CounterSize` 2^BPU_BHT_HISTORY_BITS; with the history
off, the RTL keeps a register of one bit that nothing reads. The exclusive or
of the index is a CONSTANT operator, because bit operations are beyond the
prover; the model-checking modules plug in the real one. `BhtIndexOf` is the
index in both forms, and prediction and training compute it from the same
register at different times, as the code does. What that costs is not stated:
`Settled` is about trainings without a pipeline around them, `PenaltiesEnd` about a
predictor without history. That it costs nothing but cycles is `ImplementsCpu`,
which `bpu_mixed` checks with the history on. The two macros that select a build are the constants
`DYNAMIC_PREDICTION` and `GHR_ON`.

`CpuBpu` joins the two: `prediction` is what the tables say of `pc`, and
`TrainFromEx` trains them with the branch or JAL in EX at the same edge
(`next_pc.v`). Everything else is `Cpu`'s `Clock`, unchanged.

Two assumptions on programs. `AlignedPrograms`: branches and JALs have offsets
that are multiples of four. `JalrAligned`: so are the targets of the JALRs that
reach EX. The target buffer stores no bits below bit 2 of a target or tag, and
`cpu.v` never compares a predicted target with the computed one, so without
them a prediction may lead to another address than the branch does. The
architecture raises an exception for such a jump, which this processor does not
have, and compilers for RV32I without compressed instructions produce none.

### Correspondence of `Testbench`

`Rise` is a rising edge, one `Tick` of `Cpu`; `Fall` is what the `always
@(negedge clk)` blocks do, one unit of time later, with the wires settled. The
cycle limit counts falling edges and comes before the sampling. The model starts
where reset ends: two rising edges have cleared the processor and the memories
have been loaded. By then one falling edge has been sampled and counted as a
cycle if the first word of the program is not zero; and the edge from x to 0 at
time 0 counts for the limit or not, depending on the order in which the
simulator starts the processes, so `negedges` starts at 1 or 2.

`halt_pc` and `halt_pc_valid` are the search of the ROM for a terminal loop, a
jump to itself or to a nop before it. The prediction is abstract, so what is
shown of the bench holds with any predictor. `arch` is a history variable: what
the architecture has executed before the loop, the cycles lost between
instructions, and two flags, `looped` when the first instruction of the loop has
completed and `strayed` when control has passed beyond that instruction without
running it. The properties exclude programs that stray: the bench is written for
programs that end in their loop, and stops early on one that jumps over its
beginning, because it takes every address beyond it for the loop.

### Correspondence of `ImmGen` and `Runtime`

In `Cpu` an instruction comes with its immediate as a number. `ImmGen` is about
how `imm_gen.v` finds that number in the 32 bits of the word: `imm_gen` gives
each bit of the immediate the bit of the instruction that the concatenations of
the RTL put there. `Encodes` is the other direction, the formats of the
architecture, a field at a time as the manual prints them.

A call of `Runtime` is a behaviour and an iteration of a loop a step. `x` and `y`
are the parameters, which the C code changes in place (`a` and `b`, or `num` and
`den`), `bit` and `result` its locals. A word has `WordSize` values, 2^32 in C;
the shifts drop the top bit as those of `uint32_t` do. `__umodsi3` is the same
loop as `__udivsi3` without a quotient.

### Correspondence of `FuzzGen` and `FuzzRun`

A line of the program is a record; the random draws are existential choices, so
that every program of the given steps is a behaviour, whatever the seed and the
weights. The steps of a program (`plan.kinds`) are drawn with the program and
not one by one, which gives the same programs. `Emit` is what every `emit_`
function ends with: the lines appended and the label numbers taken.

`FuzzRun` assembles the program at address 0, resolves the labels, rounds the
data area up to its alignment, fills the gap with words of the assembler's
choice (zeros, or nops), and lets `Isa` run it. `LineAt` is the line of an
instruction by its number; `Immediate` resolves its label, or takes one half of
the address of the data area. A label of `emit_jalr` is never
referred to: `auipc`, `addi` and `jalr` find it by a distance of 16 bytes, which
`JalrLands` compares with where the label really is.

### Correspondence of `DiffTest`

One action per command of `run_single.sh` that may fail or that changes a file.
A file carries its text and the number of the test it is of, so that a property
can tell whether a verdict is about this test: an ELF is of the test whose source
it is built from, and what is made of it is of the same test. The toolchain and
both simulators are external: each may fail, the RTL simulator may hang or leave
any registers, and the reference simulator traces register writes under numeric
and ABI names. `Compare` prints the registers that differ (`named`); the script
reports FAIL as well when `compare_state.py` itself fails, and then names none.

`Kill` ends the script anywhere and `Again` runs another program of the same name
over the files that are left. The command that a killed script was waiting for
goes on (`timeout vvp` of line 94 is a process of its own): it is in `orphans`,
with what it reads, and writes its file at any later time or never, also after the
next test has removed or written that file. `survivors` is a history: the orphans
that were alive when the current test started. A simulator that was running has
its log open, and the next test unlinks that file; one that was not yet started
may open the new log, so the model lets an orphan write there too.

### Correspondence of `FuzzRunner`

`job[run][case]` is the state of a background job, `statusFile` the files under
the status directory, `dir` the build directories. `Throttle` counts the jobs as
`jobs -rp` does: those alive, of this run. `wait -n` returns for a job that ended
and was not waited for yet, or waits; the loop that starts the jobs drops its
exit status, the loop that drains them ends the script on a status that is not 0.
`Collect` is the pipeline that lists failures: `xargs` runs `grep` once per
`Batch` files and succeeds only if each of them found one.

`Again` starts the script again after it ended or was interrupted. Background
jobs of a script ignore the interrupt, so jobs of the interrupted run go on,
under the same case names, in the same directories. `FUZZ_JOBS` is at least 1
(`JobsAssumption`): with 0 the script waits for ever in its first throttle, and
nothing in it excludes that.

### Correspondence of `Sweep`

A worker thread runs a task in the steps that another thread or a crash may
separate: read the cache, run `make`, open `metrics.json` (which empties it),
write and close it. `MakeRaises` is an exception while `make` is run: it cannot be
started, its output cannot be decoded, or a log cannot be written. Like one of
`json.loads` (`ReadCached`), it is printed and dropped by `main`; `broken` is a
history of the directories it happened in. `main` submits the tasks of a strategy, waits for all,
collects what is below the strategy's root, and writes the table row by row. A
record carries the machine, the cycles and the options it was made with, whatever it is
filed under. `Kill` ends the program at any step; `Invoke` starts it with another
command line over the files that are left. The results committed in the
repository are rows without records: the first invocation replaces them.

### Correspondence of `Reports`

One action per script that reads or writes files; a figure is written at a time,
as `run_all.sh` may be killed between two. Numbers are integers in the unit that
the scripts round to. `PlotOps` computes where a point, an axis label and a cell
of the heat map are drawn, by the formulas of each of them, and the properties
read the figure back by its labels. When two rows have one pair of parameters the
last one gives the cell its value (`value_by_pair`), in both backends. `InOrder` and `Keep` are Python's `sorted`
and list comprehensions as plain functions: each member comes after those before
it, and what is kept stays in its order. `round` numbers the runs of `run_all.sh`;
`MaxRounds` and `MaxInterrupts` bound runs and kills.

## 3. Runs

| Run | Question | Instance |
|---|---|---|
| `cpu_programs` | Are operands ever stale, is the wrong path flushed and nothing else, does the decoder agree with the instruction set, is `Isa` implemented? | four-word programs over loads, stores and arithmetic; over branches, JAL, JALR and what feeds them, under every prediction; and every pair of instructions of the whole set with all function codes, after two that fill the registers; a reset at any edge |
| `btb_map` | Does each training give its address exactly its target and type, do others keep theirs, is one of the last three ever evicted? | one set, six addresses, two of them with two targets |
| `bpu_settled` | Is a branch that keeps its direction predicted right after a bounded number of outcomes, from any state of the tables? | two branches and three JALs in one set of four ways, one bit of history, 2-bit counters |
| `bpu_mixed` | Does the pipeline with the real predictor behave as `Cpu` allows? | programs whose branches change direction, a ROM repeated 16 times, two sets, history on |
| `bpu_steady` | Do penalties end when branches keep their direction, do instructions complete for ever? | programs of such branches, jumps and loads, one counter and one way per address, history off |
| `bench_end` | Does the bench end at the right instruction and count right? | two or three of 7 instructions before a loop of each form, a loop followed by zeros, or no loop |
| `fuzz_programs` | Do generated programs assemble, keep to their data area, land their computed jump and reach their loop? | one step of every kind with every mnemonic, register and offset; two steps with labels |
| `test_verdict` | Is a verdict about this program, and is there always one? | two tests in one directory, failing tools and comparisons, a hanging simulator, one kill whose child may write into the second test |
| `fuzz_jobs` | Is the number of jobs bounded, is every failure reported, what does 0 mean, does each run end? | three cases two at a time, then two cases, after the first run ended or was interrupted |
| `fuzz_batches` (violation) | Is every failure reported when the status files do not fit one command line? | three cases, two files per `grep` |
| `sweep` | Do results and tables belong to the task they are filed under, when is a file unreadable, does a sweep end? | command lines with one task in three spellings, a task twice, a negative limit, other options; two invocations, one kill, one make that raises in each |
| `reports` | Do report and figures agree, and which figures does a report show? | every table over two to four keys with ties and failures, a grid with a hole, and two runs with one kill from nothing |

Properties of the processor:

- `OperandsFresh`: the operands in EX are the architectural ones after the
  instruction in MEM, for both sources.
- `CommittedPath`: the instruction behind MEM is the one control flow leads to.
- `ImplementsIsa`: the refinement.
- `CompletesForever`: infinitely many instructions reach MEM.
- `IInv`: the inductive invariant of the proofs, types included.
- `RecentHit`: the last three distinct addresses trained in a set hit.
- `ImplementsLossyMap`: after a training, a lookup of that address answers with
  the target (without bits 1 and 0) and type of that very training; all others
  answer as before, but one of the same set may be forgotten.
- `Settled`: after as many equal outcomes of a branch as fill the history and move
  a counter across its middle, the prediction is that outcome, while no other
  branch resolves and as long as JALs leave the branch among the last three
  addresses of its set.
- `EntriesTrue`: an entry of the target buffer names a branch or a JAL of the
  program, with its own target.
- `ImplementsCpu`: `CpuBpu` implements `Cpu!Spec`.
- `PenaltiesEnd`: from some time on no branch and no JAL costs a cycle.

Of the test bench:

- `SamePoint`: at the end the registers are the architectural ones and the next
  instruction is in the terminal loop.
- `StopsInTime`: the bench has ended when the first instruction of the loop has
  completed.
- `CountsTrue`: at the end, branches and taken branches counted are those
  executed and no JAL is missed; at every cycle, and when the limit ends the
  run, `inst_num` is the number of instructions executed before the loop, less
  one if an instruction was in WB in the very cycle of the limit. JALs may be
  more than executed: a JAL is counted in every cycle it is in ID, so twice when
  a stall holds it, and once when a flush follows and it never executes.
- `CyclesAccounted`: `cycle_num` is the instructions, the lost cycles, four to
  fill the pipeline and one counted during reset.

Of the programs around it:

- `LabelsResolve`: labels are unique and every reference has its label.
- `AccessInArea`: loads and stores are aligned and in the zeroed data area.
- `JalrLands`: the computed jump lands on the label of its own step.
- `ReachesLoop`: every program comes to its terminal loop and stays there.
- `SameProgram`: the ROM image and the reference registers are those of the
  program, whatever the byte order and the register names in between.
- `PassIsFresh`: every file behind a PASS is of this very test, or was written by
  a child of a killed test that was running when this one started; when both
  states are of this test, every register known is right. Nothing that lay in the
  directory counts.
- `FailIsReal`: of two states of this test every register named is wrong, and a
  state is of another test only by such a child. A FAIL without a name is a
  comparison that failed.
- `VerdictReached`, `RunEnds`, `EveryRunEnds`: each script ends.
- `JobsBounded`: never more jobs of a run alive than `FUZZ_JOBS`.
- `ZeroMeansPass`: with exit status 0 all jobs that the run launched have ended,
  and no case whose status file is of this run had a mismatch. It says nothing of
  a case without one: a `generate_fuzz.py` that fails in a job that is reaped while
  jobs are still launched goes unnoticed, and a job of an earlier run may have
  written over the file.
- `FailureReported`: a mismatch ends in exit status 1 and a printed seed whose
  artifacts are kept.
- `ResultOfTask`, `BuildsApart`: what a task returns was measured on its
  machine and cycles, and with the options of this command line if forced; two
  tasks in one build directory are the same measurement.
- `FailureExplained`: the sweep gives up only because of a file that a kill or
  an overlap left unreadable, and `--force` gets past every such file of its own
  tasks whose `make` could be run; a task finds its file unreadable only without
  `--force`.
- `TablesTrue`: after a program that ended well, the tables hold exactly the records
  below their roots, and each task has its row, which after `--force` is of this
  command line; but a task whose `make` could not be run has an older row or none,
  without the exit status saying so.
- `MeasuredOnce`, `OnlyTwinsMix`: records stay, and texts mix in a file only
  where a command line asks for one measurement twice.
- `SummaryAgrees`, `FiguresAgree`: the four loops that look for the best row
  agree with each other and with the figures.
- `PlacesInOrder`: the points of a chart stand where their labels say.
- `HeatmapTrue`: read by its labels, the heat map holds what the matrix of the
  other backend holds, and no cell is redder than a cell of smaller accuracy. Two
  accuracies that are nearer than a hundredth of the range may differ by one shade
  the wrong way: `heatmap_color` rounds red and green down, each by itself.
- `FiguresOfThisRun`: which figures of a report may be of an earlier run.
- `FailsOnlyEmpty`: plotting fails only when there is nothing to plot.

`CHECK_DEADLOCK FALSE` stands where a script or `$finish` ends the behaviour.

### Bounds

- Words have 4 bits in four 1-bit bytes. All 16 addresses and values are
  reachable, `pc + 4`, branch targets and `Addr + 3` wrap within four
  instructions, and byte, half and word accesses, signed and unsigned, differ.
- The RAM has 5 of 16 bytes, so accesses fall inside, outside and across its
  end. A byte outside reads as `XByte`; in simulation it is x.
- Four ROM words and addresses of 16 bytes: every program loops, and the
  pipeline always holds instructions of every kind next to each other in every
  order. Five instructions in flight interact over at most three stages, so a
  ROM of four words with backward branches shows each interaction.
- Three registers: x0, and two others, enough for both sources and a
  destination to coincide or differ.
- `bpu_mixed` uses 64 instruction addresses for a ROM of four words, so that
  every word is a branch at 16 addresses and the eight ways are replaced
  constantly, from right and wrong paths. The RAM has one byte.
- `bpu_steady` is the case in which the claim is one the code makes: with the
  history on, or with fewer counters than branches, two branches may fight over
  a counter for ever, and the penalties need not end. Four addresses and four
  ways, so that nothing is evicted.
- `max_cycles` is 18 in `bench_end`: a run of three instructions that stalls and
  redirects at each ends by itself before, and longer loops are timed out.
- `bpu_settled`: `Settling` is 3, one bit of history and two steps of a counter.
  Two branches and three JALs share four ways: a branch is evicted in some
  behaviours and kept in others. The theorem covers every width.
- A set of the BTB with six addresses for its four ways. Sets do not
  interact, and the proofs cover any number.
- `fuzz_programs` has words of 8 bits, immediates of 6, four registers and a
  data area of 8 bytes, so that `%hi`, `%lo` and the alignment matter within 34
  instructions (`RomWords`, the longest program of two steps); immediates that decide nothing have one value each. Steps
  interact by label numbers, registers and addresses only: two steps show each
  of these.
- `test_verdict`: three registers of two bits and programs of three words with
  lines of two, so that a line is short at the end; `MaxRuns` 2 and `MaxKills` 1
  leave files of every age, and a child at every step, to the second test.
- `fuzz_jobs`: three jobs at a limit of two are the least with one that waits,
  and `MaxRuns` 2 is the least with orphans; the proofs cover any number.
- `sweep`: command lines with the same task in three spellings, twice in one
  list, with a negative limit, and under other options, with one to three workers. `MaxRuns` 2,
  `MaxKills` 1: a killed sweep and the one that finds its files. `MaxBroken` 1: one
  directory per invocation whose `make` raises, beside others whose does not.
- `reports`: four keys are enough for a best row, a tie, a failed and a missing
  row; the grid has a row and a column that differ in length.

### Fairness

`PredictedRunSpec`, used for `CompletesForever` and `PenaltiesEnd` only, assumes
weak fairness of `PredictedTick` and has no resets. The test bench drives the
clock with `always #5 clk = !clk` (`cpu_tb.v:207`) and raises `rstn` once
(`cpu_tb.v:201-205`), so rising edges never stop and no reset follows.

The scripts: `FairTestSpec` assumes that the script goes on, since `REF_TIMEOUT`
and `SIM_TIMEOUT` end both simulators where the command `timeout` exists;
`FairFuzzSpec` that the script and each job do, the jobs being such tests;
`Sweep!FairSpec` that worker threads and the main thread do, `make benchmark`
being bounded by `BENCH_MAX_CYCLES` and `BENCH_SIM_TIMEOUT`;
`FuzzRun!FairRunSpec` that the generator emits its fixed number of steps and a
simulator executes instructions. Kills and restarts are never assumed.

## 4. Proofs

Eight modules hold proofs, and TLAPS checks every step of them: `CpuProofs`,
`PredictorProofs`, `CpuBpuProofs`, `TestbenchProofs`, `ArithmeticProofs`,
`FuzzProofs`, `DiffTestProofs` and `QuantificationProofs`. Each theorem about a
specification comes from an inductive invariant, which TLC checked before it was
proved (for `Reports` with the tables there are, see below).

### The pipeline (`CpuProofs`)

`Spec => []IInv` is the core. `IInv` conjoins:

- `DecodeInv`, `ExecuteInv`: ID holds the ROM word of its PC, EX what that word
  decodes to, with the operands the register file has now (forwarding from MEM
  and WB supplies what is newer); where there is no live instruction both hold
  zeros. `DecodeInv` also says that a taken prediction belongs to a branch or
  JAL and that the fetch that followed went where it said;
- `SpeculationInv`: what follows EX is where EX leads if its prediction is
  right;
- `MemoryInv`: the instruction in MEM carries the result, address and store data
  the architecture computes, and a dead slot there cannot write;
- `LoadUseInv`: no consumer of a load is in EX while the load is in MEM;
- `PathInv`: what is behind MEM is the true successor of the instruction in MEM;
- `ZeroInv`: x0 holds 0, and `TypeOK`.

`CommittedPath` and `OperandsFresh` are not inductive by themselves: the
operands in EX depend on what ID read a cycle before, when the producer was in
MEM; the path depends on predictions made two cycles before. From `IInv` follow
`FreshOperands`, `RightPath` and, with a case per opcode of the instruction in
MEM, `Implementation` (`Spec => Arch!Spec`). Two more facts are proved and need
no run: a bubble neither writes nor stalls (`InertBubbles`), and no stall
follows a stall (`StallOnce`).

### The predictor (`PredictorProofs`)

`BtbInductive` proves types and unique entries together (`BtbTypeCorrect`,
`EntriesUnique`); `BtbImplementation` (`LatestSpec => ImplementsLossyMap`) shows
that a training of an address with a target and a type maps to `Record` of exactly
these (`WriteRecords`), and a reset to `Forget`. It uses that no other way answers
for the address (`EntriesUnique`) and that the only other address whose answer can
change is the victim's, which lies in the same set.

`RecentAlwaysHit` is about the replacement policy, over a history of the last
three distinct addresses of a set. `RecentInv` says where the tree points: root
and leaf away from the way of the last address (`Protected`), and the way of the
one before is either in the same pair, or the leaf of its pair points away from
it (`Kept`). So a miss evicts neither, and they and the new address are the last
three. Nothing of the kind holds for the third: it is not protected, and the tree
is not LRU.

`BranchesSettle` is `Settled` for every width of history, index and counters.
`SettlingInv` adds to the two invariants above: the entry of an address has the
type of its instruction (`TypesInv`); the youngest `Age` bits of the history are
the outcome of the branch (`LastOutcomes`), and when the whole history is, every
further outcome moves one and the same counter, which is then as many steps from
its end (`CounterMoved`). Shifting a bit into the history is doubling modulo
`GhrSize`; that this fills it after `HistoryBits` outcomes is `WidthAssumption`,
which says that `GhrSize` is that power of two, and that a counter has at least
one bit. `OneInstruction` says that the ROM is not written: an address holds a
branch or a JAL, always. `Recent` cannot be left out: an evicted branch is
predicted not taken whatever the counter says.

### The pipeline with its predictor (`CpuBpuProofs`)

`PInv` conjoins `IInv`, `EntriesTrue`, the type of the ways, and `AlignedInv`:
every address fetched or in flight is that of a whole word. `EntriesTrue` alone
is not inductive: training writes the address in EX, so one must know that EX
holds the program's instruction of that address (`ExecuteInv`), that its target
is the one the buffer can store, and that index and tag give the address back
(`AddressBack`), which needs a whole word. `ContractKept` turns it into
`prediction \in Predictions`, so every edge of `CpuBpu` is one of `Cpu`, and
`PredictedImplementation` chains that to `Implementation`. The three theorems
have the hypothesis `[]JalrAligned`, which constrains data and not the
processor; counters and history are not mentioned, because a wrong direction
costs cycles only.

### The test bench (`TestbenchProofs`)

`BenchInductive` proves `BenchInv` together with `IInv`. Its parts:

- `TrackInv`: a program that has not strayed is at or before the beginning of
  its loop, or, once it has been there, on an address of the loop. That it stays
  there needs `LoopWord`: from a word of the loop control leads to another, and
  none of them writes a register;
- `RetiredInv`: the write-back that is pending belongs to an instruction before
  the loop, so that nothing is pending when those have gone;
- `SeenInv`: wherever the first word of the loop is in the pipeline, the bench
  has seen it fetched. This is what `SamePoint` hinges on: the bench may have
  seen it on a path that was abandoned since, and then waits for whatever else is
  before the loop, which it must recognise by `pc + 4` (`StageBefore`);
- `InstsInv`, `BranchesInv`, `JalsInv`: the counters are ahead of the
  architecture by what has been counted in WB, EX or ID and not executed yet.
  A branch beyond the loop in EX is the exception (`Straying`): it is counted or
  not, and the program is about to stray.

From it follow `EndsAtSamePoint`, `EndsInTime` and `CountsAreTrue`.
`CyclesAreAccounted` adds `CyclesInv`: in every cycle MEM completes an
instruction before the loop or holds a bubble, and a bubble was either made by a
stall or a redirection, when `lost` counted it, or is one of the three the
pipeline started with. It has the hypothesis `FirstWordUsed`: the cycle in which
the bench fetches a zero word at address 0 is not counted.

### Immediates and arithmetic (`ArithmeticProofs`)

`ImmediatesDecoded` has no state: for every opcode, word and immediate, if the
word encodes the immediate then `imm_gen` returns it. `RuntimeRight` is about
every even word size. The invariant keeps `result + x * y` modulo the word size
(`ProductInv`), the divisor at the place of `bit`, a power of two (`PlaceInv`),
and the quotient found so far times the divisor plus the rest in `x`, the
dividend (`QuotientInv`). TLC checked it for words of 3 and 4 bits and for twelve
values; no run of the project repeats that.

### The generator (`FuzzProofs`)

`GenInv`: labels are numbered below the counter and apart (`Numbered`, `Apart`),
every reference is to a label of its own step or to the data area (`Resolved`),
the end brings the loop and the data area (`Closed`), and accesses stay in that
area (`AccessesConfined`). Every `emit_` function appends lines that fit
(`Fits`), and lines that fit keep `GenInv` (`Appending`).

That is about the lines. `RunInv` is about the program that runs:

- `Layout`: the first two lines load the base register;
  every computed jump has `auipc` and `addi` before it, one instruction and its
  label behind it; only branches and `jal` refer to labels; the terminal jump is
  the last instruction; and what is still to be written has room.
- `MachineInv`: the program counter is at an instruction of the program
  (`SettledAt`); from the third on the base register holds the address of the data
  area; and on the way to a computed jump its register holds the address that the
  jump needs, or the one from which the next instruction makes it.

It is needed in this strength. That an access stays in the area depends on the base
register, and so on control never reaching an instruction that is not of the program;
that depends on where branches and jumps land, which is an address of a label, and on
what follows the label. Between the text and the machine stand the numbers of the
instructions: `InstructionsBefore` is monotone (`Counting`), one number has one line
(`OwnNumber`, `LineOfNumber`), and the image holds at an address the line with its
number. A label of a computed jump is never referred to, so its distance of
16 is compared with the layout alone.

`AccessesInArea` and `ComputedJumpsLand` follow from `RunInv`. They hold for every
program that fits into the memory (`ProgramsFit`), any word size, any immediates, any
padding, and for any arithmetic and any memory, but that an addition adds
(`AddAssumption`): branches may go either way and loads return anything. TLC evaluated
`Layout` and `MachineInv` in every state of `fuzz_programs`; no run repeats that.

### The fuzz runner (`FuzzProofs`)

`RunnerInv`: only jobs that were launched exist (`JobsAreLaunched`), a job is
launched only after a count that left room (`RoomForOne`), the script collects
only when no job of its own is left (`AllOver`), and a mismatch is on file unless
a job of another run wrote over it (`MismatchOnFile`). From it follow
`BoundedJobs` and `ZeroIsPass`. `ReportsFailure` needs the hypothesis
`Batch >= MaxCases`, that all status files fit one command line; without it the
property is false (section 5).

### The differential test (`DiffTestProofs`)

`TestInv` conjoins types; `OrphanInv`: a child of a killed script is of a test that
is over, and was alive when this one started, or it is of the script just killed;
`ContentsInv`: a file of this test holds what its step makes of this program;
`FreshInv`: which files are of this test, or a survivor's, when the script comes to a
step, because it has written or removed them since it began; and `VerdictInv`: while
no survivor has written over the two states, the verdict is that of the files
compared. `PassesAreFresh` and `FailsAreReal` follow from it, for any number of tests,
kills and children. The simulator leaves some registers unknown, so a PASS says only
that each known one is right.

`TestsOneProgram` needs what the conversions compute, for traces and programs of
any length. `traced_regs` is a fold over the trace; that it leaves each register
its last traced value is an induction over the trace, done as a minimal
counterexample: the least place at which the fold is wrong is not the first, and
one step back contradicts that it is the least. `HexFile`, `word2byte` and the
ROM's `$readmemh` cut a program into lines, bytes and rows; the lemmas give each
byte its line and place by quotient and remainder, and back.

### The sweep (`QuantificationProofs`)

`SweepInv` conjoins:

- `RecordsInPlace`, `ResultsInv`: a record lies in the directory it names, and
  what a worker has in hand is of its task, of this command line if forced, and a task
  that is over has its file or raised while it ran `make`;
- `FilesInv`: what each worker may rely on of its file. Nobody else writes it
  unless the command line asks for one measurement twice (`Distinct`), since
  directories tell all measurements apart (`LabelInjective`, `SameDirectory`);
- `EmptyExplained`: a file is empty or mixed only through a kill or such twins;
- `MainInv`, `TablesInv`: the main thread writes a table after all tasks of the
  strategy came back, and the tables of strategies swept before stay true, since
  strategies have different roots.

From it follow `ResultsAreOfTheirTasks`, `BuildDirectoriesApart`,
`FailuresExplained` and `TablesAreTrue`, and with a case per step the two action
properties, `RecordsMeasuredOnce` and `TwinsMix`. Of a command line only its
types are assumed (`InvocationsAssumption`), so limits may be negative and lists
empty or with repetitions. That the nested lists of tasks flatten to lists of
tasks (`FlattenType`) is an induction over the lists, by `CountUp`.

### The reports (`QuantificationProofs`)

The library's operators that sort and select have no definition that the provers
can use, so `InOrder` and `Keep` come with lemmas of their own:
a finite order has each member at the place of its rank (`OrderPlaces`,
`AscendingPlaces`), and selected rows keep their order (`KeepPlaces`, `KeepRows`).
`BestsFold` shows that the loops of both scripts leave the first of the best rows
of each cycle count, again by a minimal counterexample over the rows.

`ReportsInv` conjoins types, `FiguresInv`: a figure shows what its script draws of
some tables, and one of this run what it draws of the tables there are;
`QueueInv`: while figures are drawn each is drawn, skipped or to come;
`ReportInv`: the same for the report, which comes last; `StatusInv`: why plotting
failed. It quantifies over all tables, which lets the provers treat a table as a
variable and not as an expression of the state; TLC cannot enumerate them: it
checked the invariant with the tables of the state in their place, without the two
parts about figures and reports of tables that are gone.

`SummaryTrue`, `OwnFigures` and `PlotFailsOnEmpty` follow from it and the facts
about best rows. `FiguresTellTheSame` compares the two scripts: the figures over
the cycle counts choose the rows of the report's tables, and a figure over a
parameter has its highest point at the best row, because the best of the bests is
the best. `ChartsInOrder` is arithmetic: a place is a division rounded to
hundredths of a pixel, and it is strictly monotone only because no axis is longer
than it has hundredths. The axis of cycle counts has at most 20000 thousandths of
a logarithm (`LogAssumption`), that of parameters at most 64 bits (`TableRow`);
the vertical axes have constant ranges. With longer axes two neighbours would be
drawn at one place, and the property would be false.

`HeatmapIsTrue` has two parts. Labels and cells are at places computed by different
formulas of the same index, equal exactly for equal indices (`CellPlaces`), and every
row is in the cell of its pair, so that the cells read by their labels are the matrix
(`MapReads`). For the colours, the square root of the ratio is the least number whose
successor is too large (`RootIs`), it is monotone, and it grows by 4 to 6 thousandths
over a hundredth of the range (`RootsRise`); green minus red grows within each
half, but for the rounding of two divisions (`LowGreenRises`, `HighGreenRises`), and is
at most -31 in the lower half and at least -31 in the upper one. The proof gave the
tolerance that `HeatmapTrue` states: without it the property is false for accuracies
that are close together.

### Assumptions

On the constants, all evaluated by TLC for the instances: word size above 4, at
least one register and one ROM word (`SizesAssumption`); the ALU returns a word
for every code and a sum for the add code, and the reserved branch code never
branches (`AluAssumption`, `AluAddAssumption`); reads return words, no read
returns 0, no write keeps the memory (`RamAssumption`). Nothing else about the
datapath is used: the pipeline is correct for any ALU and any memory. In `Cpu`
the predictor's contract is built into `Predictions`; `CpuBpuProofs` proves it of
`Bpu`, with `AlignedPrograms` and `PredictorSizes`. The bench adds that the ROM
is not larger than the address space (`RomFits`); the generator, that draws are
from the sets it names and the data area has whole words (`DrawsAssumption`,
`DataSizeAssumption`, `RegistersAssumption`), that its programs fit into the
instruction memory and their data area into the address space (`ProgramsFit`; the
32 steps of `run_fuzz.sh` have at most 400 lines, the memory 4096 words), that an
immediate has values (`ImmSizeAssumption`), and that an addition adds
(`AddAssumption`); the runner, that at least one job
may run at a time (`JobsAssumption`); the predictor, the widths
(`WidthAssumption`) and one instruction per address (`OneInstruction`); the
differential test, that a line has whole words and words have four bytes
(`TestSizesAssumption`, `ProgramsAssumption`); the sweep, the types of command
lines (`InvocationsAssumption`); the reports, the types of tables, with
parameters of 0 to 64 bits (`TablesAssumption`), that the last cycle count is the
largest (`CyclesAssumption`), and that the logarithms of different cycle counts
differ by a thousandth and none is above 20 (`LogAssumption`).

### Model-checked only

- Liveness, which is beyond the prover: `CompletesForever`, `PenaltiesEnd`,
  `ReachesLoop`, `VerdictReached`, `RunEnds`, `EveryRunEnds`.
- That `AluOps` and `RamOps` agree with the decoder (`cpu_programs`).

## 5. Where code and documents disagree

One disagreement has a run. `fuzz_batches`: `README.md:192` says that fuzzing
stops on the first mismatch and prints its seed. With more status files than one
command line holds, `run_fuzz.sh:190` finds no failure in some batch, takes that
for an error, and prints no seed.

The others were met while modelling; the model follows the code.

- `README.md:133`: `FUZZ_STEPS` is the number of randomized instructions. It is
  the number of steps (`generate_fuzz.py:173`), of 1 to 11 lines each.
- `README.md:192`: the run stops immediately on the first mismatch. `run_fuzz.sh`
  launches all cases first and looks at the failures when every job has ended.
- `README.md:171`: the states are compared. A register that the RTL simulator
  leaves unknown is not in the parsed state, and `compare_state.py:36` compares
  it as 0.
- `README.md:180`: each seed has a unique run directory. It has within a run;
  jobs that outlive an interrupted run share theirs with the next run.
- `README.md:271`: the figures are outputs of a sweep. With matplotlib,
  `plot_quantification.py` draws other files, and the report shows the figures of
  the last run without it (`FiguresOfThisRun`).
- `generate_report.py:231`: the recommended predictor has "the highest observed
  branch accuracy in the dataset". The text is fixed, whatever the tables say.
- `plot_quantification.py:333` looks for a least value among none when a table
  has no usable row, and raises an exception (`FailsOnlyEmpty`).

Two limits of the scripts are no disagreement: `FUZZ_JOBS=0` waits for ever, and
the failure of the `rm -rf` of a passed case ends the script or not, depending on
which `wait` collects the job.

## 6. Not modelled

- `ram_tb.v`: connects ports `data_ram.v` does not have.
- x-propagation: an out-of-range byte reads as one arbitrary fixed value. Files
  of the differential test do have unknown registers.
- The printing of the bench, the rates it computes from its counters, its wave
  dump, and the built-in program of `inst_rom.v`.
- Programs with jumps to other than whole words in front of the real predictor.
- A `.balign` of the data area can pad the program after its terminal loop; the
  bench finds the loop only if the padding is zeros. The generator's model covers
  both paddings, the bench's only zeros.
- `extract_cpu.py` (uses `re` without importing it) and `extract_qemu.sh`: called
  by nothing. `write_3d_svg`, `scale_points` and the branch of `y_ticks` without
  a range in `plot_quantification.py`: never reached.
- Seeds and weights of the generator: the model ranges over every draw.
- The branch of `run_single.sh` for a system without `timeout`, where a simulator
  that hangs hangs the test; half-written files of a differential test (a file changes
  in one step); how long a child outlives a killed script.
- A file system that fails while `metrics.json` or a table is written.
- Logs, progress bars, averages and the wording of reports.
- A status directory that someone removes while jobs of an interrupted run write
  to it.
- `coremark_port.c`, `run_coremark.sh`, build files and sample programs: stubs and
  command lines without state. CoreMark itself is vendored.

## 7. What is left

- A run for `Runtime`, to have its theorem on small words beside the proof.
