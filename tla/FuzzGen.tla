------------------------------ MODULE FuzzGen ------------------------------
(***************************************************************************)
(* test_gen/generate_fuzz.py: one random assembly program.  A line is an   *)
(* instruction or a label; the random draws are choices.  One action per   *)
(* emit_ function, taken once per step of the program.                     *)
(*                                                                         *)
(* An operator named Bug... is a faulty variant of the definition below    *)
(* it: nothing uses it but the tests of the properties.                    *)
(***************************************************************************)
EXTENDS Integers, Sequences, SequencesExt

CONSTANTS
  NGeneral,           \* GENERAL_REGS are x1 .. x30
  NLink,              \* LINK_REGS are x1 .. x27
  JALR_TMP,           \* x29
  DataSize,           \* bytes of the data area, and its alignment (64)
  ImmSize,            \* values of an immediate of 12 bits
  InitValues,         \* bound: immediates of emit_init, one per register
  SignedImms,         \* bound: immediates of -2048 .. 2047
  SmallImms,          \* bound: immediates of -32 .. 31
  ShiftImms,          \* bound: 0 .. 31
  UpperImms,          \* bound: 0 .. 16^5 - 1
  Iterations,         \* bound: 3 .. 8
  Plans               \* bound: the kinds of the --steps steps of a program, the
                      \* mnemonics, and the immediates of xori in a loop

GENERAL_REGS == 1 .. NGeneral
LINK_REGS == 1 .. NLink
BASE_REG == NGeneral + 1

ASSUME RegistersAssumption ==
  /\ NGeneral \in Nat /\ NLink \in Nat /\ NLink < JALR_TMP
  /\ JALR_TMP \in GENERAL_REGS

ASSUME IterationsAssumption == Iterations \subseteq Nat \ {0}

ASSUME DataSizeAssumption == DataSize \in Nat \ {0} /\ DataSize % 4 = 0

ASSUME DrawsAssumption ==
  /\ InitValues \subseteq [GENERAL_REGS -> Int]
  /\ SignedImms \cup SmallImms \cup ShiftImms \cup UpperImms \subseteq Int
  /\ \A p \in Plans : p.xors \subseteq Int

VARIABLES
  lines,              \* the program so far
  label_id,           \* the number of the next label
  left,               \* the kinds of the steps still to emit
  written,            \* the program is complete
  plan                \* the plan of this program

genVars == <<lines, label_id, left, written, plan>>

IMM_OPS == {"addi", "slti", "sltiu", "xori", "ori", "andi"} \cap plan.ops
SHIFT_IMM_OPS == {"slli", "srli", "srai"} \cap plan.ops
REG_OPS == {"add", "sub", "sll", "slt", "sltu", "xor", "srl", "sra", "or",
            "and"} \cap plan.ops
U_OPS == {"lui", "auipc"} \cap plan.ops
BRANCH_OPS == {"beq", "bne", "blt", "bge", "bltu", "bgeu"} \cap plan.ops
LOAD_OPS == {"lb", "lbu", "lh", "lhu", "lw"} \cap plan.ops
STORE_OPS == {"sb", "sh", "sw"} \cap plan.ops

-----------------------------------------------------------------------------
(* A label is a name and a number.  to is the label an instruction refers  *)
(* to: the target of a jump, or the address whose parts lui and addi load. *)
Nowhere == <<"", 0>>
Loop == <<"loop", 0>>
DataBase == <<"data_base", 0>>

Line(op, rd, rs1, rs2, imm, to) ==
  [op |-> op, rd |-> rd, rs1 |-> rs1, rs2 |-> rs2, imm |-> imm, to |-> to]

Label(name) == Line("label", 0, 0, 0, 0, name)
RegOp(op, rd, rs1, rs2) == Line(op, rd, rs1, rs2, 0, Nowhere)
ImmOp(op, rd, rs, imm) == Line(op, rd, rs, 0, imm, Nowhere)
Addi(rd, rs, imm) == ImmOp("addi", rd, rs, imm)
StoreOp(op, rs, off) == Line(op, 0, BASE_REG, rs, off, Nowhere)
LoadOp(op, rd, off) == ImmOp(op, rd, BASE_REG, off)
BranchOp(op, rs1, rs2, label) == Line(op, 0, rs1, rs2, 0, label)
JalOp(rd, label) == Line("jal", rd, 0, 0, 0, label)

BugAnyRegister(exclude) == (GENERAL_REGS \cup {BASE_REG}) \ exclude

random_reg(exclude) == GENERAL_REGS \ exclude

BugByteOffsets(op) == 0 .. DataSize - 1

(* The offsets of an access: they keep it aligned and in the data area.    *)
aligned_offset(op) ==
  LET width == CASE op \in {"lw", "sw"}        -> 4
                 [] op \in {"lh", "lhu", "sh"} -> 2
                 [] OTHER                      -> 1
  IN {off \in 0 .. DataSize - 1 : off % width = 0}

(* The registers in order, after the address of the data area.             *)
emit_init(values) ==
  <<Line("lui", BASE_REG, 0, 0, 0, DataBase),
    Line("addi", BASE_REG, BASE_REG, 0, 0, DataBase)>>
  \o [r \in 1 .. NGeneral |-> Addi(r, 0, values[r])]

BugOneNumber(kind, new, labels) ==
  /\ kind = Head(left)
  /\ lines' = lines \o new
  /\ left' = Tail(left)
  /\ UNCHANGED <<label_id, written, plan>>

(* One step: the lines it adds, and how many label numbers it takes.       *)
Emit(kind, new, labels) ==
  /\ kind = Head(left)
  /\ lines' = lines \o new
  /\ label_id' = label_id + labels
  /\ left' = Tail(left)
  /\ UNCHANGED <<written, plan>>

emit_imm_op ==
  \E op \in IMM_OPS, rd, rs \in random_reg({}), n \in SignedImms :
    Emit("imm", <<ImmOp(op, rd, rs, n)>>, 0)

emit_shift_imm_op ==
  \E op \in SHIFT_IMM_OPS, rd, rs \in random_reg({}), n \in ShiftImms :
    Emit("shift", <<ImmOp(op, rd, rs, n)>>, 0)

emit_reg_op ==
  \E op \in REG_OPS, rd, rs1, rs2 \in random_reg({}) :
    Emit("reg", <<RegOp(op, rd, rs1, rs2)>>, 0)

emit_u_op ==
  \E op \in U_OPS, rd \in random_reg({}), n \in UpperImms :
    Emit("uop", <<ImmOp(op, rd, 0, n)>>, 0)

emit_mem_op ==
  \/ \E op \in STORE_OPS, rs \in random_reg({}) : \E off \in aligned_offset(op) :
       Emit("mem", <<StoreOp(op, rs, off)>>, 0)
  \/ \E op \in LOAD_OPS, rd \in random_reg({}) : \E off \in aligned_offset(op) :
       Emit("mem", <<LoadOp(op, rd, off)>>, 0)

emit_branch ==
  \E op \in BRANCH_OPS, rs1, rs2, rd \in random_reg({}), n \in SignedImms :
    LET label == <<"br", label_id>>
    IN Emit("branch",
            <<BranchOp(op, rs1, rs2, label), Addi(rd, rd, n), Label(label)>>, 1)

emit_jal ==
  \E rd \in LINK_REGS, skip_reg \in random_reg({}), n \in SignedImms :
    LET label == <<"jal", label_id>>
    IN Emit("jal",
            <<JalOp(rd, label), Addi(skip_reg, skip_reg, n), Label(label)>>, 1)

BugNextWord == 12

(* Bytes from the auipc to the label, three instructions and one skipped.  *)
JalrDistance == 16

(* The label is never referred to: the jump finds it by its distance.      *)
emit_jalr ==
  \E rd \in LINK_REGS, skip_reg \in random_reg({}), n \in SignedImms :
    Emit("jalr",
         <<ImmOp("auipc", JALR_TMP, 0, 0),
           Addi(JALR_TMP, JALR_TMP, JalrDistance),
           ImmOp("jalr", rd, JALR_TMP, 0),
           Addi(skip_reg, skip_reg, n),
           Label(<<"jalr", label_id>>)>>, 1)

(* What the body of a loop may do to its accumulator, and the access.      *)
Updates(accum) ==
  {Addi(accum, accum, n) : n \in SmallImms}
    \cup {ImmOp("xori", accum, accum, n) : n \in plan.xors}

Accesses(accum) ==
  {StoreOp(op, accum, off) : op \in {"sw"} \cap plan.ops, off \in aligned_offset("sw")}
    \cup {LoadOp(op, accum, off) : op \in {"lw"} \cap plan.ops, off \in aligned_offset("lw")}

BugLabelFirst(counter, state, temp, iterations, first, update, access, id) ==
  <<Label(<<"real_loop", id>>),
    Addi(counter, 0, iterations),
    Addi(state, 0, first),
    ImmOp("andi", temp, state, 1),
    BranchOp("beq", temp, 0, <<"real_loop_skip", id>>),
    update,
    Label(<<"real_loop_skip", id>>),
    access,
    ImmOp("xori", state, state, 1),
    Addi(counter, counter, -1),
    BranchOp("bne", counter, 0, <<"real_loop", id>>)>>

(* A loop that updates the accumulator in every other iteration.           *)
LoopBody(counter, state, temp, iterations, first, update, access, id) ==
  <<Addi(counter, 0, iterations),
    Addi(state, 0, first),
    Label(<<"real_loop", id>>),
    ImmOp("andi", temp, state, 1),
    BranchOp("beq", temp, 0, <<"real_loop_skip", id>>),
    update,
    Label(<<"real_loop_skip", id>>),
    access,
    ImmOp("xori", state, state, 1),
    Addi(counter, counter, -1),
    BranchOp("bne", counter, 0, <<"real_loop", id>>)>>

emit_loop ==
  \E counter \in random_reg({}) : \E state \in random_reg({counter}) :
  \E temp \in random_reg({counter, state}) :
  \E accum \in random_reg({counter, state, temp}) :
  \E iterations \in Iterations, first \in {0, 1} :
  \E update \in Updates(accum), access \in Accesses(accum) :
    Emit("loop",
         LoopBody(counter, state, temp, iterations, first, update, access,
                  label_id), 1)

BugFallsThrough ==
  /\ left = <<>> /\ ~written
  /\ written' = TRUE
  /\ lines' = lines \o <<Label(Loop), Addi(0, 0, 0),
                         Line("align", 0, 0, 0, DataSize, Nowhere),
                         Label(DataBase),
                         Line("space", 0, 0, 0, DataSize, Nowhere)>>
  /\ UNCHANGED <<label_id, left, plan>>

(* The terminal loop and the data area; .balign and .space are the lines   *)
(* "align" and "space".                                                    *)
Finish ==
  /\ left = <<>> /\ ~written
  /\ written' = TRUE
  /\ lines' = lines \o <<Label(Loop), Addi(0, 0, 0), JalOp(0, Loop),
                         Line("align", 0, 0, 0, DataSize, Nowhere),
                         Label(DataBase),
                         Line("space", 0, 0, 0, DataSize, Nowhere)>>
  /\ UNCHANGED <<label_id, left, plan>>

GenInit ==
  /\ \E values \in InitValues : lines = emit_init(values)
  /\ label_id = 0
  /\ plan \in Plans
  /\ left = plan.kinds
  /\ written = FALSE

EmitStep ==
  /\ left # <<>>
  /\ \/ emit_imm_op \/ emit_shift_imm_op \/ emit_reg_op \/ emit_u_op
     \/ emit_mem_op \/ emit_branch \/ emit_jal \/ emit_jalr \/ emit_loop

GenNext == EmitStep \/ Finish

GenSpec == GenInit /\ [][GenNext]_genVars

-----------------------------------------------------------------------------
LabelLines == {i \in DOMAIN lines : lines[i].op = "label"}
LabelsAt(name) == {i \in LabelLines : lines[i].to = name}
Labels == {lines[i].to : i \in LabelLines}

(* The labels that instructions refer to.                                  *)
References == {lines[i].to : i \in DOMAIN lines \ LabelLines} \ {Nowhere}

(* Every label is defined once, and every reference of the finished        *)
(* program is to a label it defines: the assembler accepts the program and *)
(* no step can jump into another.                                          *)
LabelsResolve ==
  /\ Cardinality(Labels) = Cardinality(LabelLines)
  /\ written => References \subseteq Labels
=============================================================================
