------------------------ MODULE TestbenchInvariant ------------------------
(***************************************************************************)
(* The inductive invariant of Testbench: where the program is, what the    *)
(* bench has seen of its loop, and what it has counted of the instructions *)
(* that are still in the pipeline.  It is about programs that have a loop  *)
(* and have not strayed beyond its beginning.                              *)
(***************************************************************************)
EXTENDS Testbench, CpuInvariant

(* The addresses of the terminal loop.                                     *)
LoopAt(a) ==
  \E k \in NonzeroWords :
    /\ IsLast(k)
    /\ \/ JumpsToItself(k) /\ a = 4 * k
       \/ JumpsToNop(k) /\ a \in {4 * k - 4, 4 * k}

OnTrack == halt_pc_valid /\ ~arch.strayed

(* The program is in its loop, or before it.                               *)
TrackInv ==
  /\ arch.looped => halt_pc_valid
  /\ OnTrack => IF arch.looped THEN LoopAt(AbsPC) ELSE AbsPC <= halt_pc

(* The instruction retired last: a register write that is pending is that  *)
(* of an instruction before the loop, and a bubble has no address.         *)
RetiredInv ==
  /\ ~live.mem => ex_mem.PC4 = 0
  /\ OnTrack =>
       /\ wb_writes => BeforeLoop(mem_wb.PC4)
       /\ arch.looped => ~BeforeLoop(mem_wb.PC4)
       /\ mem_wb.PC4 # 0 /\ ~halt_detected => BeforeLoop(mem_wb.PC4)

(* The bench has seen the loop fetched before it is anywhere in the        *)
(* pipeline; when it has, the pipeline is not empty.                       *)
SeenInv ==
  /\ halt_detected => halt_pc_valid
  /\ halt_detected /\ clk = 1 => live.id \/ live.ex \/ live.mem
  /\ OnTrack /\ SIM_END_REASON = "RUNNING" =>
       /\ \/ arch.looped
          \/ live.mem /\ MemPC = halt_pc
          \/ live.ex /\ id_ex.PC = halt_pc
          \/ live.id /\ if_id.PC = halt_pc
          \/ clk = 0 /\ pc = halt_pc
          => halt_detected

BranchInMem == live.mem /\ mem_Inst.opcode = "BRANCH" /\ MemPC < halt_pc
BranchInEx  == live.ex /\ ex_Inst.opcode = "BRANCH" /\ id_ex.PC < halt_pc

TakenInMem ==
  BranchInMem /\ BranchCond(Controller(mem_Inst).ALU_Ctrl,
                            AbsRegs[mem_Inst.rs1], AbsRegs[mem_Inst.rs2])

JalInMem == live.mem /\ mem_Inst.opcode = "JAL" /\ MemPC < halt_pc
JalInEx  == live.ex /\ ex_Inst.opcode = "JAL" /\ id_ex.PC < halt_pc
JalInId  == live.id /\ if_id.Inst.opcode = "JAL" /\ if_id.PC < halt_pc

(* A branch in EX beyond the loop means that the program will stray.       *)
Straying == live.ex /\ ex_Inst.opcode = "BRANCH" /\ id_ex.PC >= halt_pc

(* Instructions are counted in WB, branches in EX, JALs in ID: what has    *)
(* passed that stage and has not been executed yet is ahead of the         *)
(* architecture.                                                           *)
InstsInv ==
  OnTrack =>
    /\ clk = 1 => counts.inst_num + One(BeforeLoop(mem_wb.PC4)) = arch.insts
    /\ clk = 0 => PrefixCounted

BranchesInv ==
  OnTrack /\ SIM_END_REASON # "MAXCYCLES_TIMEOUT" =>
    /\ clk = 1 =>
         /\ counts.branch_num = arch.branches + One(BranchInMem)
         /\ counts.branch_taken_num = arch.taken + One(TakenInMem)
    /\ clk = 0 /\ ~Straying =>
         /\ counts.branch_num
              = arch.branches + One(BranchInMem) + One(BranchInEx)
         /\ counts.branch_taken_num
              = arch.taken + One(TakenInMem)
                  + One(BranchInEx /\ ex_Branch_taken)

JalsInv ==
  OnTrack /\ SIM_END_REASON # "MAXCYCLES_TIMEOUT" =>
    counts.jal_num >= arch.jals + One(JalInMem) + One(JalInEx)
                        + One(clk = 0 /\ JalInId)

BenchTypeOK ==
  /\ clk \in {0, 1}
  /\ halt_detected \in BOOLEAN
  /\ SIM_END_REASON \in {"RUNNING", "HALT_LOOP", "MAXCYCLES_TIMEOUT"}
  /\ SIM_END_REASON # "RUNNING" => clk = 0
  /\ \A c \in {"inst_num", "branch_num", "branch_taken_num", "jal_num"} :
       counts[c] \in Int
  /\ \A c \in {"insts", "branches", "taken", "jals"} : arch[c] \in Int

BenchInv ==
  /\ BenchTypeOK
  /\ TrackInv
  /\ RetiredInv
  /\ SeenInv
  /\ InstsInv
  /\ BranchesInv
  /\ JalsInv
  /\ SamePoint
  /\ StopsInTime
  /\ CountsTrue

-----------------------------------------------------------------------------
(* The cycles.  In every cycle an instruction before the loop completes in *)
(* MEM, or a bubble that was counted as lost when it was made is there, or *)
(* one of the three with which the pipeline started.                       *)

(* The bubbles in MEM, EX and ID that delay an instruction before the loop. *)
Bubbles == One(~live.mem /\ BehindMEM < halt_pc)
             + One(~live.ex /\ FrontPC < halt_pc)
             + One(~live.id /\ pc < halt_pc)

Drained == ~(AbsPC < halt_pc) /\ ~BeforeLoop(mem_wb.PC4)

(* No program begins with an unused word: its cycle would not be counted.  *)
FirstWordUsed == \A image \in Programs : image[0] # ZeroInst

CyclesInv ==
  /\ RomAt(rom, 0) # ZeroInst
  /\ counts.cycle_num \in Int /\ arch.lost \in Int
  /\ arch.insts # 0 => halt_pc > 0
  /\ live.ex /\ ~live.id => id_ex.ctl.JAL
  /\ clk = 1 => \/ live.id \/ live.ex \/ live.mem
                \/ pc = 0 /\ ~halt_detected
  /\ OnTrack /\ SIM_END_REASON # "MAXCYCLES_TIMEOUT" /\ halt_pc > 0 =>
       counts.cycle_num + (IF Drained THEN 0 ELSE Bubbles + clk)
         = arch.insts + arch.lost + 5
  /\ CyclesAccounted
=============================================================================
