------------------------------ MODULE FuzzRun ------------------------------
(***************************************************************************)
(* A program of FuzzGen, assembled at address 0 and run by the             *)
(* architecture of Isa, the way the reference simulator and the processor  *)
(* both run it.  The assembler is external: it resolves the labels, and    *)
(* fills the alignment before the data area with words of its choice.      *)
(***************************************************************************)
EXTENDS FuzzGen, FiniteSetsExt

CONSTANTS
  WordSize,           \* number of values of a word (2^32)
  RomWords,           \* words of the instruction memory
  Paddings,           \* bound: the words the alignment may be filled with
  Alu(_, _, _),       \* the operations of the processor and its memory, as
  BranchCond(_, _, _),\* in Isa
  RamStates, RamZero, RamRead(_, _, _), RamWrite(_, _, _, _)

(* The longest program of a plan, in lines: the first two, an instruction  *)
(* per register, a loop at every step and the last six.                    *)
MaxLines(p) == 2 + NGeneral + 11 * Len(p.kinds) + 6

Kinds == {"imm", "shift", "reg", "uop", "mem", "branch", "jal", "jalr", "loop"}

(* Programs are short: they fit into the instruction memory, and the data  *)
(* area behind them has addresses (the test bench has 4096 words, and      *)
(* run_fuzz.sh asks for 32 steps unless it is told otherwise).             *)
ASSUME ProgramsFit ==
  /\ WordSize \in Nat /\ RomWords \in Nat
  /\ \A p \in Plans : /\ p.kinds \in Seq(Kinds)
                      /\ MaxLines(p) <= RomWords
                      /\ 4 * MaxLines(p) + 2 * DataSize <= WordSize

ASSUME ImmSizeAssumption == ImmSize \in Nat \ {0}

ASSUME AddAssumption ==
  \A a, b \in 0 .. WordSize - 1 : Alu(0, a, b) = (a + b) % WordSize

VARIABLES rom, pc, regs, ram

machine == <<rom, pc, regs, ram>>
runVars == <<genVars, machine>>

Isa32 == INSTANCE Isa
  WITH NRegs <- BASE_REG + 1, Programs <- {}, RamImages <- {}

-----------------------------------------------------------------------------
(* The assembler.                                                          *)
IsCode(line) == line.op \notin {"label", "align", "space"}

InstructionsBefore(i) == Cardinality({j \in 1 .. i - 1 : IsCode(lines[j])})

(* The line of the instruction with this number.                           *)
LineAt(k) ==
  CHOOSE i \in DOMAIN lines : IsCode(lines[i]) /\ InstructionsBefore(i) = k

CodeEnd == 4 * InstructionsBefore(Len(lines) + 1)

(* Rounded up to the alignment.                                            *)
data_base ==
  ((CodeEnd + DataSize - 1) \div DataSize) * DataSize

AddressOf(name) ==
  IF name = DataBase THEN data_base
  ELSE 4 * InstructionsBefore(CHOOSE i \in LabelsAt(name) : TRUE)

(* %hi and %lo: the upper part is rounded so that the lower one, which is  *)
(* sign-extended, completes it.                                            *)
Hi(address) == ((address + ImmSize \div 2) \div ImmSize) * ImmSize
Lo(address) == address - Hi(address)

Funct3(op) ==
  CASE op \in {"addi", "add", "sub", "beq", "lb", "sb", "jalr"} -> 0
    [] op \in {"slli", "sll", "bne", "lh", "sh"}                -> 1
    [] op \in {"slti", "slt", "lw", "sw"}                       -> 2
    [] op \in {"sltiu", "sltu"}                                 -> 3
    [] op \in {"xori", "xor", "blt", "lbu"}                     -> 4
    [] op \in {"srli", "srai", "srl", "sra", "bge", "lhu"}      -> 5
    [] op \in {"ori", "or", "bltu"}                             -> 6
    [] op \in {"andi", "and", "bgeu"}                           -> 7
    [] OTHER                                                    -> 0

OpcodeOf(op) ==
  CASE op \in {"addi", "slti", "sltiu", "xori", "ori", "andi",
               "slli", "srli", "srai"}                  -> "ALUI"
    [] op \in {"add", "sub", "sll", "slt", "sltu", "xor", "srl", "sra",
               "or", "and"}                             -> "ALUR"
    [] op \in {"lb", "lbu", "lh", "lhu", "lw"}          -> "LOAD"
    [] op \in {"sb", "sh", "sw"}                        -> "STORE"
    [] op \in {"beq", "bne", "blt", "bge", "bltu", "bgeu"} -> "BRANCH"
    [] op = "jal"   -> "JAL"
    [] op = "jalr"  -> "JALR"
    [] op = "lui"   -> "LUI"
    [] op = "auipc" -> "AUIPC"

Immediate(line, address) ==
  CASE line.to = DataBase -> IF line.op = "lui" THEN Hi(data_base) ELSE Lo(data_base)
    [] line.to = Nowhere  -> IF line.op \in {"lui", "auipc"}
                             THEN line.imm * ImmSize ELSE line.imm
    [] OTHER              -> AddressOf(line.to) - address

Encode(line, address) ==
  [opcode |-> OpcodeOf(line.op), funct3 |-> Funct3(line.op),
   funct7b5 |-> line.op \in {"sub", "sra", "srai"},
   rd |-> line.rd, rs1 |-> line.rs1, rs2 |-> line.rs2,
   imm |-> Immediate(line, address) % WordSize]

Nop == [Isa32!ZeroInst EXCEPT !.opcode = "ALUI"]

Image(pad) ==
  [k \in 0 .. RomWords - 1 |->
     IF 4 * k < CodeEnd THEN Encode(lines[LineAt(k)], 4 * k)
     ELSE IF 4 * k < data_base THEN pad
     ELSE Isa32!ZeroInst]

-----------------------------------------------------------------------------
Generate == GenNext /\ UNCHANGED machine

(* Both simulators start with the registers and the memory at zero.        *)
Assemble ==
  /\ written
  /\ rom = <<>>
  /\ \E pad \in Paddings : rom' = Image(pad)
  /\ UNCHANGED <<genVars, pc, regs, ram>>

Assembled == rom # <<>>

(* No generated program holds a word without effect: there is no step for  *)
(* one, and a program that ran into its padding or its data would stop.    *)
Execute ==
  /\ Assembled
  /\ \/ Isa32!AluReg \/ Isa32!AluImm \/ Isa32!Lui \/ Isa32!Auipc
     \/ Isa32!Load \/ Isa32!Store \/ Isa32!Branch \/ Isa32!Jal \/ Isa32!Jalr
  /\ UNCHANGED genVars

RunInit ==
  /\ GenInit
  /\ rom = <<>>
  /\ pc = 0
  /\ regs = [r \in 0 .. BASE_REG |-> 0]
  /\ ram = RamZero

RunNext == Generate \/ Assemble \/ Execute

RunSpec == RunInit /\ [][RunNext]_runVars

(* The generator emits a fixed number of steps and the simulators go on.   *)
FairRunSpec == RunSpec /\ WF_runVars(RunNext)

-----------------------------------------------------------------------------
loop_addr == AddressOf(Loop)

AtLoop == Assembled /\ pc \in {loop_addr, loop_addr + 4}

(* Every program reaches its terminal loop and stays in it: both           *)
(* simulators stop.                                                        *)
ReachesLoop == <>[]AtLoop

Width(op) == CASE op \in {0, 4} -> 1 [] op \in {1, 5} -> 2 [] OTHER -> 4

(* Every access is aligned and inside the data area, where both memories   *)
(* are zero at first: the instructions, which only the reference simulator *)
(* has in its data memory, are never read or written as data.              *)
AccessInArea ==
  Assembled /\ Isa32!inst.opcode \in {"LOAD", "STORE"} =>
    LET address == (regs[Isa32!inst.rs1] + Isa32!inst.imm) % WordSize
        width   == Width(Isa32!inst.funct3)
    IN /\ address >= data_base
       /\ address + width <= data_base + DataSize
       /\ address % width = 0

JalrLabels == {AddressOf(lines[i].to) : i \in {j \in DOMAIN lines :
                 lines[j].op = "label" /\ lines[j].to[1] = "jalr"}}

(* The computed jump lands on the label of its own step.                   *)
JalrLands ==
  [][Assembled /\ Isa32!inst.opcode = "JALR" =>
       pc' = Min({a \in JalrLabels : a > pc})]_runVars
=============================================================================
