----------------------------- MODULE Testbench -----------------------------
(***************************************************************************)
(* testbench/cpu_tb.v: the bench that runs the processor on a program.  It *)
(* looks for a terminal loop at the end of the program, counts cycles,     *)
(* instructions, branches and JALs by watching wires of the pipeline after *)
(* every falling clock edge, and ends the simulation when the loop has     *)
(* been fetched and nothing before it is left in the pipeline, or when the *)
(* cycle limit is reached.  The state it dumps then is what differential   *)
(* tests compare, and the counters are what the measurements report.       *)
(*                                                                         *)
(* An operator named Bug... is a faulty variant of the definition below    *)
(* it: nothing uses it but the tests of the properties.                    *)
(***************************************************************************)
EXTENDS Cpu

CONSTANT max_cycles    \* the cycle limit, +MAXCYCLES

ASSUME CycleLimit == max_cycles \in Nat /\ max_cycles > 2

(* No address of the ROM is beyond the largest word.                       *)
ASSUME RomFits == 4 * RomWords <= WordSize

VARIABLES
  clk,
  negedges,            \* falling edges so far, for the cycle limit
  halt_detected,
  SIM_END_REASON,      \* "RUNNING" until simulation_done
  counts,              \* the counters
  arch                 \* history: what the architecture has executed

benchVars == <<clk, negedges, halt_detected, SIM_END_REASON, counts, arch>>

-----------------------------------------------------------------------------
(* The terminal loop, from the ROM image: the last word that is not zero   *)
(* is a jump to itself, or a jump back to a nop before it.                 *)
Nop == [ZeroInst EXCEPT !.opcode = "ALUI"]

is_jal_x0(i) == i.opcode = "JAL" /\ i.rd = 0

NonzeroWords == {k \in 0 .. RomWords - 1 : rom[k] # ZeroInst}

IsLast(k) == k \in NonzeroWords /\ \A j \in NonzeroWords : j <= k

JumpsToItself(k) == is_jal_x0(rom[k]) /\ rom[k].imm = 0

JumpsToNop(k) ==
  /\ k >= 1
  /\ rom[k - 1] = Nop
  /\ is_jal_x0(rom[k])
  /\ rom[k].imm = WordSize - 4

halt_pc_valid == \E k \in NonzeroWords :
                   IsLast(k) /\ (JumpsToItself(k) \/ JumpsToNop(k))

halt_pc ==
  IF halt_pc_valid
  THEN LET k == CHOOSE k \in NonzeroWords : IsLast(k)
       IN IF JumpsToItself(k) THEN 4 * k ELSE 4 * (k - 1)
  ELSE 0

-----------------------------------------------------------------------------
(* What the bench sees after a falling edge.  A stage is recognised by its *)
(* pc + 4, which is zero in a bubble.                                      *)
BeforeLoop(pc4) == pc4 # 0 /\ Adder32(pc4, WordSize - 4) < halt_pc

BugWriteBackForgotten ==
  \E pc4 \in {if_id.PC4, id_ex.PC4, ex_mem.PC4} : BeforeLoop(pc4)

BugLoopIsUseful ==
  \E pc4 \in {if_id.PC4, id_ex.PC4, ex_mem.PC4, mem_wb.PC4} :
    pc4 # 0 /\ Adder32(pc4, WordSize - 4) <= halt_pc

useful_pipeline_active ==
  \E pc4 \in {if_id.PC4, id_ex.PC4, ex_mem.PC4, mem_wb.PC4} : BeforeLoop(pc4)

BugAlwaysActive ==
  \E pc4 \in {if_id.PC4, id_ex.PC4, ex_mem.PC4, mem_wb.PC4} : pc4 # 0

active_cycle ==
  IF halt_detected THEN useful_pipeline_active
  ELSE \/ if_Inst # ZeroInst
       \/ \E pc4 \in {if_id.PC4, id_ex.PC4, ex_mem.PC4, mem_wb.PC4} : pc4 # 0

BugWritersOnly ==
  mem_wb.RegWrite /\ (halt_detected => BeforeLoop(mem_wb.PC4))

wb_counts ==
  IF halt_detected THEN BeforeLoop(mem_wb.PC4) ELSE mem_wb.PC4 # 0

BugBranchInDecode == id_ctl.Branch /\ (halt_detected => if_id.PC < halt_pc)

branch_counts == id_ex.ctl.Branch /\ (halt_detected => id_ex.PC < halt_pc)

BugJalBeforeHalt == id_ctl.JAL /\ ~halt_detected

jal_counts == id_ctl.JAL /\ (halt_detected => if_id.PC < halt_pc)

-----------------------------------------------------------------------------
One(condition) == IF condition THEN 1 ELSE 0

Count ==
  counts' =
    [inst_num |-> counts.inst_num + One(wb_counts),
     cycle_num |-> counts.cycle_num + One(active_cycle),
     branch_num |-> counts.branch_num + One(branch_counts),
     branch_taken_num |->
       counts.branch_taken_num + One(branch_counts /\ ex_Branch_taken),
     branch_pred_taken_num |->
       counts.branch_pred_taken_num + One(branch_counts /\ id_ex.pred),
     branch_pred_wrong |->
       counts.branch_pred_wrong
         + One(branch_counts /\ id_ex.pred # ex_Branch_taken),
     jal_num |-> counts.jal_num + One(jal_counts),
     jal_pred_wrong |-> counts.jal_pred_wrong + One(jal_counts /\ ~if_id.pred)]

(* The state is dumped and the simulation ends.                            *)
finalize_simulation(reason) == SIM_END_REASON' = reason

Sample ==
  /\ Count
  /\ halt_detected' = (halt_detected \/ (halt_pc_valid /\ pc = halt_pc))
  /\ IF halt_detected /\ ~useful_pipeline_active
     THEN finalize_simulation("HALT_LOOP")
     ELSE UNCHANGED SIM_END_REASON

Timeout ==
  /\ finalize_simulation("MAXCYCLES_TIMEOUT")
  /\ UNCHANGED <<counts, halt_detected>>

(* The cycle limit ends the simulation before the wires are sampled.       *)
Fall ==
  /\ SIM_END_REASON = "RUNNING" /\ clk = 1
  /\ clk' = 0
  /\ negedges' = negedges + 1
  /\ IF negedges + 1 = max_cycles THEN Timeout ELSE Sample
  /\ UNCHANGED <<vars, arch>>

-----------------------------------------------------------------------------
(* What the architecture has executed: instructions before the loop, the   *)
(* branches and JALs among them, the cycles lost between them, whether the *)
(* loop was executed, and whether control went beyond its first            *)
(* instruction before it was.                                              *)
InLoop(a) == /\ halt_pc_valid /\ halt_pc <= a /\ a < 4 * RomWords
             /\ RomAt(rom, a) # ZeroInst

Lost ==
  CASE hazard = STALL /\ if_id.PC < halt_pc -> 1
    [] hazard = JALJUMP /\ pc' < halt_pc    -> 1
    [] hazard = REDIRECT /\ pc' < halt_pc   -> 2
    [] OTHER                                -> 0

Executed ==
  LET i     == Arch!inst
      step  == live.mem /\ AbsPC < halt_pc
      br    == step /\ i.opcode = "BRANCH"
      cond  == BranchCond(Arch!Comparison, AbsRegs[i.rs1], AbsRegs[i.rs2])
      loops == arch.looped \/ (live.mem /\ InLoop(AbsPC))
  IN arch' = [insts    |-> arch.insts + One(step),
              branches |-> arch.branches + One(br),
              taken    |-> arch.taken + One(br /\ cond),
              jals     |-> arch.jals + One(step /\ i.opcode = "JAL"),
              lost     |-> arch.lost + Lost,
              looped   |-> loops,
              strayed  |-> arch.strayed \/ (~loops /\ AbsPC' > halt_pc)]

Rise ==
  /\ SIM_END_REASON = "RUNNING" /\ clk = 0
  /\ clk' = 1
  /\ Tick
  /\ Executed
  /\ UNCHANGED <<negedges, halt_detected, SIM_END_REASON, counts>>

(* Two clock edges have reset the processor, and the memories are loaded.  *)
(* The first falling edge has sampled the first word of the program; the   *)
(* edge from x to 0 when clk is initialised counts too, if the block that  *)
(* counts cycles was already waiting for it.                               *)
BenchInit ==
  /\ Init
  /\ clk = 1
  /\ negedges \in {1, 2}
  /\ halt_detected = FALSE
  /\ SIM_END_REASON = "RUNNING"
  /\ counts = [inst_num |-> 0, cycle_num |-> One(if_Inst # ZeroInst),
               branch_num |-> 0, branch_taken_num |-> 0,
               branch_pred_taken_num |-> 0, branch_pred_wrong |-> 0,
               jal_num |-> 0, jal_pred_wrong |-> 0]
  /\ arch = [insts |-> 0, branches |-> 0, taken |-> 0, jals |-> 0, lost |-> 0,
             looped |-> FALSE, strayed |-> FALSE]

BenchNext == Rise \/ Fall

BenchSpec == BenchInit /\ [][BenchNext]_<<vars, benchVars>>

-----------------------------------------------------------------------------
(* Properties.                                                             *)

Finished == SIM_END_REASON = "HALT_LOOP" /\ ~arch.strayed

(* The simulation stops at the same architectural point as the reference   *)
(* simulator: the program is about to run its terminal loop, or is in it,  *)
(* and the registers dumped are those of the architecture, with nothing    *)
(* older still to be written.  That the loop was first fetched on a path   *)
(* that was abandoned makes no difference.                                 *)
SamePoint == Finished => reg_Data = AbsRegs /\ InLoop(AbsPC)

(* It stops no later than when the first instruction of the loop has       *)
(* completed, so that only a program that did not get there is timed out.  *)
StopsInTime ==
  SIM_END_REASON = "RUNNING" /\ clk = 0 /\ ~arch.strayed => ~arch.looped

(* Each executed branch is counted once, with its outcome, though it is    *)
(* counted in EX, before it retires.                                       *)
BranchesOnce ==
  /\ counts.branch_num = arch.branches
  /\ counts.branch_taken_num = arch.taken

(* A JAL may be counted twice: it is counted in every cycle it is in ID,   *)
(* whether a stall holds it there or a flush follows.                      *)
NoJalMissed == counts.jal_num >= arch.jals

(* A run that the cycle limit ended has counted the instructions retired   *)
(* so far but the one of the cycle that ended it; and so it is at every    *)
(* cycle before.                                                           *)
PrefixCounted ==
  counts.inst_num =
    arch.insts - One(SIM_END_REASON = "MAXCYCLES_TIMEOUT"
                       /\ BeforeLoop(mem_wb.PC4))

(* The counters agree with what the architecture executed: branches and    *)
(* JALs once the loop is reached, instructions also when the cycle limit   *)
(* ended the run, as it did every recorded measurement.                    *)
CountsTrue ==
  /\ Finished => BranchesOnce /\ NoJalMissed
  /\ clk = 0 /\ halt_pc_valid /\ ~arch.strayed => PrefixCounted

(* The reported cycles are the instructions, the cycles lost by stalls and *)
(* redirections, four to fill the pipeline and one counted during reset.   *)
CyclesAccounted ==
  Finished /\ arch.insts > 0 =>
    counts.cycle_num = counts.inst_num + arch.lost + 5
=============================================================================
