---------------------------- MODULE FuzzProofs ----------------------------
(***************************************************************************)
(* Theorems about the fuzz test: FuzzGen and FuzzRun, for programs of any  *)
(* plan that fits into the memory, over any registers and immediates, and  *)
(* FuzzRunner, for every number of runs, cases and jobs.                   *)
(***************************************************************************)
EXTENDS FuzzRun, FuzzRunner, FiniteSetTheorems, SequenceTheorems,
        WellFoundedInduction, TLAPS

-----------------------------------------------------------------------------
(* A set of numbers that is not empty has a least one.                     *)
LEMMA LeastNumber ==
  ASSUME NEW U, U \subseteq Nat, U # {}
  PROVE  \E k \in U : \A j \in U : k <= j
<1>1. \E k \in U : \A j \in U : ~(<<j, k>> \in OpToRel(<, Nat))
  BY NatLessThanWellFounded, WFMin
<1>2. PICK k \in U : \A j \in U : ~(j < k)
  BY <1>1 DEF OpToRel
<1> QED BY <1>2

-----------------------------------------------------------------------------
(* The generator: its inductive invariant.                                 *)
ImmOps == {"addi", "slti", "sltiu", "xori", "ori", "andi"}
ShiftOps == {"slli", "srli", "srai"}
RegOps == {"add", "sub", "sll", "slt", "sltu", "xor", "srl", "sra", "or", "and"}
UpperOps == {"lui", "auipc"}
BranchOps == {"beq", "bne", "blt", "bge", "bltu", "bgeu"}
LoadOps == {"lb", "lbu", "lh", "lhu", "lw"}
StoreOps == {"sb", "sh", "sw"}
Ops == ImmOps \cup ShiftOps \cup RegOps \cup UpperOps \cup BranchOps
         \cup LoadOps \cup StoreOps
         \cup {"jal", "jalr", "label", "align", "space"}

(* The names of the labels that a step numbers.                            *)
StepNames == {"br", "jal", "jalr", "real_loop", "real_loop_skip"}
Name == {"", "loop", "data_base"} \cup StepNames

LineSet == [op : Ops, rd : 0 .. BASE_REG, rs1 : 0 .. BASE_REG,
            rs2 : 0 .. BASE_REG, imm : Int, to : Name \X Nat]

GenTypeOK ==
  /\ lines \in Seq(LineSet)
  /\ label_id \in Nat
  /\ written \in BOOLEAN
  /\ plan \in Plans

(* The labels there may be when n numbers are taken, and the end of the    *)
(* program is written or not.                                              *)
LabelSpace(n, done) ==
  {label \in Name \X Nat :
     \/ label[1] \in StepNames /\ label[2] < n
     \/ done /\ label \in {Loop, DataBase}}

Numbered == \A i \in LabelLines : lines[i].to \in LabelSpace(label_id, written)

Apart == \A i, j \in LabelLines : lines[i].to = lines[j].to => i = j

(* An instruction refers to a label that is there, or to the data area.    *)
Resolved == References \subseteq Labels \cup {DataBase}

Closed == written => {Loop, DataBase} \subseteq Labels

AllWritten == written => left = <<>>

(* After the two lines that set it, no line writes the register that holds *)
(* the address of the data area, and every access goes through it, to an   *)
(* aligned offset inside the area.                                         *)
Bytes(op) == IF op \in {"lw", "sw"} THEN 4 ELSE IF op \in {"lh", "lhu", "sh"} THEN 2 ELSE 1

Confined(line) ==
  /\ line.rd # BASE_REG
  /\ line.op \in LoadOps \cup StoreOps =>
       /\ line.rs1 = BASE_REG
       /\ line.imm \in 0 .. DataSize - Bytes(line.op)
       /\ line.imm % Bytes(line.op) = 0

AccessesConfined == \A i \in DOMAIN lines : i > 2 => Confined(lines[i])

GenInv == /\ GenTypeOK /\ Numbered /\ Apart /\ Resolved /\ Closed /\ AllWritten
          /\ AccessesConfined

(* The lines that a step adds: they are lines, their labels are new and    *)
(* apart, and they refer to each other, or to nothing.                     *)
LabelsOf(new) == {i \in DOMAIN new : new[i].op = "label"}

Fits(new, space, taken) ==
  /\ new \in Seq(LineSet)
  /\ \A i \in DOMAIN new : Confined(new[i])
  /\ \A i \in LabelsOf(new) : new[i].to \in space \ taken
  /\ \A i, j \in LabelsOf(new) : new[i].to = new[j].to => i = j
  /\ \A i \in DOMAIN new \ LabelsOf(new) :
       \/ new[i].to \in {Nowhere, DataBase}
       \/ \E j \in LabelsOf(new) : new[j].to = new[i].to

-----------------------------------------------------------------------------
LEMMA SpaceGrows ==
  ASSUME NEW n \in Nat, NEW m \in Nat, n <= m, NEW d \in BOOLEAN, NEW e \in BOOLEAN,
         d => e
  PROVE  LabelSpace(n, d) \subseteq LabelSpace(m, e)
  BY DEF LabelSpace

(* Appending lines that fit keeps labels and references in order.          *)
LEMMA Appending ==
  ASSUME GenInv, NEW new, NEW n \in Nat, NEW done \in BOOLEAN,
         label_id <= n, written => done,
         Fits(new, LabelSpace(n, done), LabelSpace(label_id, written)),
         lines' = lines \o new, label_id' = n, written' = done,
         plan' = plan
  PROVE  /\ (GenTypeOK /\ Numbered /\ Apart /\ Resolved /\ AccessesConfined)'
         /\ Labels' = Labels \cup {new[i].to : i \in LabelsOf(new)}
<1>1. /\ lines \in Seq(LineSet) /\ new \in Seq(LineSet)
      /\ label_id \in Nat /\ written \in BOOLEAN /\ plan \in Plans
  BY DEF GenInv, GenTypeOK, Fits
<1> DEFINE m == Len(lines)
<1>2. /\ m \in Nat /\ Len(new) \in Nat
      /\ DOMAIN lines = 1 .. m /\ DOMAIN new = 1 .. Len(new)
  BY <1>1, LenProperties
<1>3. /\ lines' \in Seq(LineSet)
      /\ Len(lines') = m + Len(new)
      /\ \A i \in 1 .. m + Len(new) :
           lines'[i] = IF i <= m THEN lines[i] ELSE new[i - m]
  BY <1>1, ConcatProperties
<1>4. DOMAIN lines' = 1 .. m + Len(new) BY <1>3, LenProperties
<1> HIDE DEF m
<1>5. \A i \in DOMAIN lines :
        i \in DOMAIN lines' /\ lines'[i] = lines[i]
  BY <1>2, <1>3, <1>4
<1>6. \A i \in DOMAIN new :
        i + m \in DOMAIN lines' /\ lines'[i + m] = new[i]
  BY <1>2, <1>3, <1>4
<1>7. \A i \in DOMAIN lines' :
        i \in DOMAIN lines \/ (\E k \in DOMAIN new : i = k + m)
  <2>1. ASSUME NEW i \in 1 .. m + Len(new), ~(i <= m)
        PROVE  i - m \in DOMAIN new /\ i = (i - m) + m
    BY <1>2, <2>1
  <2>2. ASSUME NEW i \in 1 .. m + Len(new), i <= m PROVE i \in DOMAIN lines
    BY <1>2, <2>2
  <2> QED BY <1>4, <2>1, <2>2
<1>8. LabelLines' = LabelLines \cup {k + m : k \in LabelsOf(new)}
  <2>1. ASSUME NEW i \in LabelLines' PROVE i \in LabelLines \cup {k + m : k \in LabelsOf(new)}
    BY <2>1, <1>5, <1>6, <1>7 DEF LabelLines, LabelsOf
  <2>2. ASSUME NEW i \in LabelLines PROVE i \in LabelLines'
    BY <1>5 DEF LabelLines
  <2>3. ASSUME NEW k \in LabelsOf(new) PROVE k + m \in LabelLines'
    BY <1>6 DEF LabelLines, LabelsOf
  <2> QED BY <2>1, <2>2, <2>3
<1>9. Labels' = Labels \cup {new[i].to : i \in LabelsOf(new)}
  <2>1. \A i \in LabelLines : lines'[i] = lines[i] BY <1>5 DEF LabelLines
  <2>2. \A k \in LabelsOf(new) : lines'[k + m] = new[k]
    BY <1>6 DEF LabelsOf
  <2>3. {lines'[i].to : i \in LabelLines} = Labels BY <2>1 DEF Labels
  <2>4. {lines'[i].to : i \in {k + m : k \in LabelsOf(new)}}
          = {new[i].to : i \in LabelsOf(new)}
    BY <2>2
  <2>5. Labels' = {lines'[i].to : i \in LabelLines'} BY DEF Labels
  <2> QED BY <1>8, <2>3, <2>4, <2>5
<1>10. LabelSpace(label_id, written) \subseteq LabelSpace(n, done)
  BY <1>1, SpaceGrows
<1>11. Numbered'
  <2> SUFFICES ASSUME NEW i \in LabelLines'
               PROVE  lines'[i].to \in LabelSpace(n, done)
    BY DEF Numbered, LabelSpace
  <2>1. CASE i \in LabelLines
    BY <2>1, <1>5, <1>10 DEF GenInv, Numbered, LabelLines
  <2>2. ASSUME NEW k \in LabelsOf(new), i = k + m
        PROVE  lines'[i].to \in LabelSpace(n, done)
    BY <2>2, <1>6 DEF Fits, LabelsOf
  <2> QED BY <1>8, <2>1, <2>2
<1>12. Apart'
  <2> SUFFICES ASSUME NEW i \in LabelLines', NEW j \in LabelLines',
                      lines'[i].to = lines'[j].to
               PROVE  i = j
    BY DEF Apart
  <2>1. \A k \in LabelLines : /\ lines'[k] = lines[k]
                              /\ lines[k].to \in LabelSpace(label_id, written)
    BY <1>5 DEF GenInv, Numbered, LabelLines
  <2>2. \A k \in LabelsOf(new) : /\ lines'[k + m] = new[k]
                                 /\ new[k].to \notin LabelSpace(label_id, written)
    BY <1>6 DEF Fits, LabelsOf
  <2>3. CASE i \in LabelLines /\ j \in LabelLines
    BY <2>1, <2>3 DEF GenInv, Apart
  <2>4. ASSUME NEW k \in LabelsOf(new), NEW l \in LabelsOf(new), i = k + m, j = l + m
        PROVE  i = j
    <3>1. lines'[i] = new[k] /\ lines'[j] = new[l] BY <2>2, <2>4
    <3>2. k = l BY <3>1 DEF Fits
    <3> QED BY <2>4, <3>2
  <2>5. ASSUME NEW p \in LabelLines, NEW k \in LabelsOf(new)
        PROVE  lines'[p].to # lines'[k + m].to
    BY <2>1, <2>2
  <2>6. ASSUME NEW p \in LabelLines, NEW k \in LabelsOf(new),
               (i = p /\ j = k + m) \/ (j = p /\ i = k + m)
        PROVE  FALSE
    BY <2>5, <2>6
  <2> QED BY <1>8, <2>3, <2>4, <2>5, <2>6
<1>13. Resolved'
  <2> SUFFICES ASSUME NEW i \in DOMAIN lines' \ LabelLines',
                      lines'[i].to # Nowhere, lines'[i].to # DataBase
               PROVE  lines'[i].to \in Labels'
    BY DEF Resolved, References
  <2>1. CASE i \in DOMAIN lines
    <3>1. i \notin LabelLines BY <1>8
    <3>2. lines[i].to \in References BY <2>1, <3>1, <1>5 DEF References
    <3> QED BY <2>1, <3>2, <1>5, <1>9 DEF GenInv, Resolved
  <2>2. ASSUME NEW k \in DOMAIN new, i = k + m PROVE lines'[i].to \in Labels'
    <3>1. k \notin LabelsOf(new) BY <2>2, <1>8
    <3>2. lines'[i] = new[k] BY <2>2, <1>6
    <3>3. PICK j \in LabelsOf(new) : new[j].to = new[k].to
      BY <3>1, <3>2 DEF Fits
    <3> QED BY <3>2, <3>3, <1>9
  <2> QED BY <1>7, <2>1, <2>2
<1>14. GenTypeOK' BY <1>1, <1>3 DEF GenTypeOK
<1>15. AccessesConfined'
  <2>1. \A i \in DOMAIN lines : i > 2 => Confined(lines'[i])
    BY <1>5 DEF GenInv, AccessesConfined
  <2>2. \A k \in DOMAIN new : Confined(lines'[k + m])
    BY <1>6 DEF Fits
  <2>3. \A i \in DOMAIN lines' : i > 2 => Confined(lines'[i])
    BY <1>7, <2>1, <2>2
  <2> QED BY <2>3 DEF AccessesConfined, Confined
<1> QED BY <1>9, <1>11, <1>12, <1>13, <1>14, <1>15

(* A step of the program keeps the invariant if its lines fit.             *)
LEMMA EmitKeeps ==
  ASSUME GenInv, left # <<>>, NEW kind, NEW new, NEW k \in Nat,
         Emit(kind, new, k),
         Fits(new, LabelSpace(label_id + k, FALSE), LabelSpace(label_id, FALSE))
  PROVE  GenInv'
<1>1. written = FALSE /\ label_id \in Nat BY DEF GenInv, AllWritten, GenTypeOK
<1>2. /\ lines' = lines \o new /\ label_id' = label_id + k
      /\ written' = FALSE /\ plan' = plan
  BY <1>1 DEF Emit
<1>3. label_id + k \in Nat /\ label_id <= label_id + k BY <1>1
<1>4. (GenTypeOK /\ Numbered /\ Apart /\ Resolved /\ AccessesConfined)'
  BY <1>1, <1>2, <1>3, Appending
<1> QED BY <1>2, <1>4 DEF GenInv, Closed, AllWritten

-----------------------------------------------------------------------------
(* The lines.                                                              *)
LEMMA Registers ==
  /\ BASE_REG \in Nat /\ BASE_REG \in 0 .. BASE_REG /\ 0 \in 0 .. BASE_REG
  /\ BASE_REG # 0
  /\ GENERAL_REGS \subseteq 0 .. BASE_REG \ {BASE_REG}
  /\ LINK_REGS \subseteq 0 .. BASE_REG \ {BASE_REG}
  /\ JALR_TMP \in 0 .. BASE_REG \ {BASE_REG}
  BY RegistersAssumption DEF BASE_REG, GENERAL_REGS, LINK_REGS

LEMMA LineType ==
  ASSUME NEW op \in Ops, NEW rd \in 0 .. BASE_REG, NEW rs1 \in 0 .. BASE_REG,
         NEW rs2 \in 0 .. BASE_REG, NEW imm \in Int, NEW to \in Name \X Nat
  PROVE  Line(op, rd, rs1, rs2, imm, to) \in LineSet
  BY DEF Line, LineSet

LEMMA Names ==
  /\ Nowhere \in Name \X Nat /\ Loop \in Name \X Nat /\ DataBase \in Name \X Nat
  /\ \A name \in StepNames, n \in Nat : <<name, n>> \in Name \X Nat
  BY DEF Nowhere, Loop, DataBase, Name

(* A line that is no access and has a general register as destination.     *)
LEMMA PlainLine ==
  ASSUME NEW op \in Ops \ (LoadOps \cup StoreOps), NEW rd \in 0 .. BASE_REG \ {BASE_REG},
         NEW rs1 \in 0 .. BASE_REG, NEW rs2 \in 0 .. BASE_REG, NEW imm \in Int,
         NEW to \in Name \X Nat
  PROVE  /\ Line(op, rd, rs1, rs2, imm, to) \in LineSet
         /\ Confined(Line(op, rd, rs1, rs2, imm, to))
<1>1. Line(op, rd, rs1, rs2, imm, to).rd # BASE_REG
      /\ Line(op, rd, rs1, rs2, imm, to).op \notin LoadOps \cup StoreOps
  BY DEF Line
<1> QED BY <1>1, LineType DEF Confined

LEMMA AlignedOffsets ==
  ASSUME NEW op, NEW off \in aligned_offset(op)
  PROVE  off \in 0 .. DataSize - Bytes(op) /\ off % Bytes(op) = 0 /\ off \in Int
<1>1. CASE op \in {"lw", "sw"}
  <2>1. Bytes(op) = 4 BY <1>1 DEF Bytes
  <2>2. off \in 0 .. DataSize - 1 /\ off % 4 = 0 BY <1>1 DEF aligned_offset
  <2> QED BY <2>1, <2>2, DataSizeAssumption
<1>2. CASE op \in {"lh", "lhu", "sh"}
  <2>1. Bytes(op) = 2 BY <1>2 DEF Bytes
  <2>2. off \in 0 .. DataSize - 1 /\ off % 2 = 0 BY <1>2 DEF aligned_offset
  <2> QED BY <2>1, <2>2, DataSizeAssumption
<1>3. CASE op \notin {"lw", "sw", "lh", "lhu", "sh"}
  <2>1. Bytes(op) = 1 BY <1>3 DEF Bytes
  <2>2. off \in 0 .. DataSize - 1 BY <1>3 DEF aligned_offset
  <2> QED BY <2>1, <2>2, DataSizeAssumption
<1> QED BY <1>1, <1>2, <1>3

(* A load or a store at such an offset.                                    *)
LEMMA AccessLine ==
  ASSUME NEW op \in LoadOps \cup StoreOps, NEW rd \in 0 .. BASE_REG \ {BASE_REG},
         NEW rs2 \in 0 .. BASE_REG, NEW off \in aligned_offset(op)
  PROVE  /\ Line(op, rd, BASE_REG, rs2, off, Nowhere) \in LineSet
         /\ Confined(Line(op, rd, BASE_REG, rs2, off, Nowhere))
<1> DEFINE line == Line(op, rd, BASE_REG, rs2, off, Nowhere)
<1>1. /\ off \in 0 .. DataSize - Bytes(op) /\ off % Bytes(op) = 0 /\ off \in Int
  BY AlignedOffsets
<1>2. op \in Ops BY DEF Ops
<1>3. line \in LineSet BY <1>1, <1>2, LineType, Registers, Names
<1>4. line.op = op /\ line.rd = rd /\ line.rs1 = BASE_REG /\ line.imm = off BY DEF Line
<1>5. Confined(line) BY <1>1, <1>4 DEF Confined
<1> QED BY <1>3, <1>5

LEMMA OneLine ==
  ASSUME NEW line \in LineSet, Confined(line), line.op # "label", line.to = Nowhere,
         NEW space, NEW taken
  PROVE  Fits(<<line>>, space, taken)
<1>1. <<line>> \in Seq(LineSet) /\ DOMAIN <<line>> = {1} /\ <<line>>[1] = line
  OBVIOUS
<1>2. LabelsOf(<<line>>) = {} BY <1>1 DEF LabelsOf
<1> QED BY <1>1, <1>2 DEF Fits

(* A step of one line.                                                     *)
LEMMA OneLineKeeps ==
  ASSUME GenInv, left # <<>>, NEW kind, NEW line \in LineSet, Confined(line),
         line.op # "label", line.to = Nowhere, Emit(kind, <<line>>, 0)
  PROVE  GenInv'
  BY OneLine, EmitKeeps

LEMMA Draws ==
  /\ SignedImms \subseteq Int /\ SmallImms \subseteq Int
  /\ ShiftImms \subseteq Int /\ UpperImms \subseteq Int
  BY DrawsAssumption

(* The steps of one line that are no access.                               *)
LEMMA PlainSteps ==
  ASSUME GenInv, left # <<>>,
         emit_imm_op \/ emit_shift_imm_op \/ emit_reg_op \/ emit_u_op
  PROVE  GenInv'
<1> USE DEF random_reg
<1> DEFINE Plain == Ops \ (LoadOps \cup StoreOps \cup {"label"})
<1>1. ASSUME NEW kind, NEW op \in Plain, NEW rd \in GENERAL_REGS,
             NEW rs1 \in 0 .. BASE_REG, NEW rs2 \in 0 .. BASE_REG, NEW imm \in Int,
             Emit(kind, <<Line(op, rd, rs1, rs2, imm, Nowhere)>>, 0)
      PROVE  GenInv'
  <2> DEFINE line == Line(op, rd, rs1, rs2, imm, Nowhere)
  <2>1. line \in LineSet /\ Confined(line) BY PlainLine, Registers, Names
  <2>2. line.op # "label" /\ line.to = Nowhere BY DEF Line
  <2> HIDE DEF line
  <2>3. Emit(kind, <<line>>, 0) BY <1>1 DEF line
  <2> QED BY <2>1, <2>2, <2>3, OneLineKeeps
<1>2. CASE emit_imm_op
  <2>1. PICK op \in IMM_OPS, rd \in GENERAL_REGS, rs \in GENERAL_REGS, n \in SignedImms :
          Emit("imm", <<ImmOp(op, rd, rs, n)>>, 0)
    BY <1>2 DEF emit_imm_op
  <2>2. op \in Plain BY DEF IMM_OPS, Ops, ImmOps, LoadOps, StoreOps
  <2> QED BY <1>1, <2>1, <2>2, Draws, Registers DEF ImmOp
<1>3. CASE emit_shift_imm_op
  <2>1. PICK op \in SHIFT_IMM_OPS, rd \in GENERAL_REGS, rs \in GENERAL_REGS, n \in ShiftImms :
          Emit("shift", <<ImmOp(op, rd, rs, n)>>, 0)
    BY <1>3 DEF emit_shift_imm_op
  <2>2. op \in Plain BY DEF SHIFT_IMM_OPS, Ops, ShiftOps, LoadOps, StoreOps
  <2> QED BY <1>1, <2>1, <2>2, Draws, Registers DEF ImmOp
<1>4. CASE emit_reg_op
  <2>1. PICK op \in REG_OPS, rd \in GENERAL_REGS, rs1 \in GENERAL_REGS, rs2 \in GENERAL_REGS :
          Emit("reg", <<RegOp(op, rd, rs1, rs2)>>, 0)
    BY <1>4 DEF emit_reg_op
  <2>2. op \in Plain BY DEF REG_OPS, Ops, RegOps, LoadOps, StoreOps
  <2> QED BY <1>1, <2>1, <2>2, Registers DEF RegOp
<1>5. CASE emit_u_op
  <2>1. PICK op \in U_OPS, rd \in GENERAL_REGS, n \in UpperImms :
          Emit("uop", <<ImmOp(op, rd, 0, n)>>, 0)
    BY <1>5 DEF emit_u_op
  <2>2. op \in Plain BY DEF U_OPS, Ops, UpperOps, LoadOps, StoreOps
  <2> QED BY <1>1, <2>1, <2>2, Draws, Registers DEF ImmOp
<1> QED BY <1>2, <1>3, <1>4, <1>5

LEMMA MemStep ==
  ASSUME GenInv, left # <<>>, emit_mem_op
  PROVE  GenInv'
<1> USE DEF random_reg
<1>1. ASSUME NEW op \in LoadOps \cup StoreOps, NEW rd \in 0 .. BASE_REG \ {BASE_REG},
             NEW rs2 \in 0 .. BASE_REG, NEW off \in aligned_offset(op),
             Emit("mem", <<Line(op, rd, BASE_REG, rs2, off, Nowhere)>>, 0)
      PROVE  GenInv'
  <2> DEFINE line == Line(op, rd, BASE_REG, rs2, off, Nowhere)
  <2>1. line \in LineSet /\ Confined(line) BY AccessLine
  <2>2. line.op # "label" /\ line.to = Nowhere BY DEF Line, LoadOps, StoreOps
  <2> HIDE DEF line
  <2>3. Emit("mem", <<line>>, 0) BY <1>1 DEF line
  <2> QED BY <2>1, <2>2, <2>3, OneLineKeeps
<1>2. CASE \E op \in STORE_OPS, rs \in random_reg({}) : \E off \in aligned_offset(op) :
             Emit("mem", <<StoreOp(op, rs, off)>>, 0)
  <2>1. PICK op \in STORE_OPS, rs \in GENERAL_REGS : \E off \in aligned_offset(op) :
          Emit("mem", <<StoreOp(op, rs, off)>>, 0)
    BY <1>2
  <2>2. op \in StoreOps BY DEF STORE_OPS, StoreOps
  <2>3. PICK off \in aligned_offset(op) :
          Emit("mem", <<Line(op, 0, BASE_REG, rs, off, Nowhere)>>, 0)
    BY <2>1 DEF StoreOp
  <2> QED BY <1>1, <2>2, <2>3, Registers
<1>3. CASE \E op \in LOAD_OPS, rd \in random_reg({}) : \E off \in aligned_offset(op) :
             Emit("mem", <<LoadOp(op, rd, off)>>, 0)
  <2>1. PICK op \in LOAD_OPS, rd \in GENERAL_REGS : \E off \in aligned_offset(op) :
          Emit("mem", <<LoadOp(op, rd, off)>>, 0)
    BY <1>3
  <2>2. op \in LoadOps BY DEF LOAD_OPS, LoadOps
  <2>3. PICK off \in aligned_offset(op) :
          Emit("mem", <<Line(op, rd, BASE_REG, 0, off, Nowhere)>>, 0)
    BY <2>1 DEF LoadOp, ImmOp
  <2> QED BY <1>1, <2>2, <2>3, Registers
<1> QED BY <1>2, <1>3 DEF emit_mem_op

-----------------------------------------------------------------------------
(* The steps with labels.                                                  *)
LEMMA LabelLine ==
  ASSUME NEW name \in Name \X Nat
  PROVE  /\ Label(name) \in LineSet /\ Confined(Label(name))
         /\ Label(name).op = "label" /\ Label(name).to = name
<1>1. "label" \in Ops \ (LoadOps \cup StoreOps) BY DEF Ops, LoadOps, StoreOps
<1>2. Label(name) \in LineSet /\ Confined(Label(name))
  BY <1>1, PlainLine, Registers DEF Label
<1> QED BY <1>2 DEF Label, Line

LEMMA AddiLine ==
  ASSUME NEW rd \in GENERAL_REGS, NEW rs \in 0 .. BASE_REG, NEW n \in Int
  PROVE  /\ Addi(rd, rs, n) \in LineSet /\ Confined(Addi(rd, rs, n))
         /\ Addi(rd, rs, n).op = "addi" /\ Addi(rd, rs, n).to = Nowhere
<1>1. "addi" \in Ops \ (LoadOps \cup StoreOps)
  BY DEF Ops, ImmOps, LoadOps, StoreOps
<1>2. Addi(rd, rs, n) \in LineSet /\ Confined(Addi(rd, rs, n))
  BY <1>1, PlainLine, Registers, Names DEF Addi, ImmOp
<1> QED BY <1>2 DEF Addi, ImmOp, Line

(* A number that is new when n are taken.                                  *)
LEMMA NewNumber ==
  ASSUME NEW n \in Nat, NEW name \in StepNames
  PROVE  /\ <<name, n>> \in LabelSpace(n + 1, FALSE) \ LabelSpace(n, FALSE)
         /\ <<name, n>> \in Name \X Nat
<1> DEFINE label == <<name, n>>
<1>1. label \in Name \X Nat BY Names
<1>2. label[1] = name /\ label[2] = n /\ label \notin {Loop, DataBase}
  BY DEF StepNames, Loop, DataBase
<1> HIDE DEF label
<1>3. label \in LabelSpace(n + 1, FALSE) \ LabelSpace(n, FALSE)
  BY <1>1, <1>2 DEF LabelSpace
<1> QED BY <1>1, <1>3 DEF label

(* A jump over one instruction to a label behind it.                       *)
LEMMA SkipKeeps ==
  ASSUME GenInv, left # <<>>, NEW kind, NEW jump \in LineSet, Confined(jump),
         jump.op # "label", NEW name \in StepNames, jump.to = <<name, label_id>>,
         NEW skipped \in LineSet, Confined(skipped), skipped.op # "label",
         skipped.to = Nowhere,
         Emit(kind, <<jump, skipped, Label(<<name, label_id>>)>>, 1)
  PROVE  GenInv'
<1> DEFINE target == <<name, label_id>>
           new == <<jump, skipped, Label(target)>>
<1>1. label_id \in Nat BY DEF GenInv, GenTypeOK
<1>2. target \in LabelSpace(label_id + 1, FALSE) \ LabelSpace(label_id, FALSE)
      /\ target \in Name \X Nat
  BY <1>1, NewNumber
<1>3. /\ Label(target) \in LineSet /\ Confined(Label(target))
      /\ Label(target).op = "label" /\ Label(target).to = target
  BY <1>2, LabelLine
<1>4. jump.to = target OBVIOUS
<1> HIDE DEF target
<1>5. /\ new \in Seq(LineSet) /\ DOMAIN new = {1, 2, 3}
      /\ new[1] = jump /\ new[2] = skipped /\ new[3] = Label(target)
  BY <1>3
<1> HIDE DEF new
<1>6. LabelsOf(new) = {3} BY <1>3, <1>5 DEF LabelsOf
<1>7. Fits(new, LabelSpace(label_id + 1, FALSE), LabelSpace(label_id, FALSE))
  BY <1>2, <1>3, <1>4, <1>5, <1>6 DEF Fits
<1>8. Emit(kind, new, 1)
  <2>1. new = <<jump, skipped, Label(<<name, label_id>>)>> BY DEF new, target
  <2> QED BY <2>1
<1> QED BY <1>7, <1>8, EmitKeeps

LEMMA BranchStep ==
  ASSUME GenInv, left # <<>>, emit_branch
  PROVE  GenInv'
<1>1. PICK op \in BRANCH_OPS, rs1 \in GENERAL_REGS, rs2 \in GENERAL_REGS,
           rd \in GENERAL_REGS, n \in SignedImms :
        Emit("branch", <<BranchOp(op, rs1, rs2, <<"br", label_id>>), Addi(rd, rd, n),
                         Label(<<"br", label_id>>)>>, 1)
  BY DEF emit_branch, random_reg
<1> DEFINE jump == BranchOp(op, rs1, rs2, <<"br", label_id>>)
<1>2. label_id \in Nat BY DEF GenInv, GenTypeOK
<1>3. "br" \in StepNames /\ op \in Ops \ (LoadOps \cup StoreOps \cup {"label"})
  BY DEF StepNames, BRANCH_OPS, Ops, BranchOps, LoadOps, StoreOps
<1>4. <<"br", label_id>> \in Name \X Nat BY <1>2, <1>3, Names
<1>5. jump \in LineSet /\ Confined(jump)
  BY <1>3, <1>4, PlainLine, Registers DEF BranchOp
<1>6. jump.op = op /\ jump.to = <<"br", label_id>> BY DEF BranchOp, Line
<1> DEFINE skipped == Addi(rd, rd, n)
<1>7. /\ skipped \in LineSet /\ Confined(skipped) /\ skipped.op # "label"
      /\ skipped.to = Nowhere
  BY AddiLine, Draws, Registers
<1>8. Emit("branch", <<jump, skipped, Label(<<"br", label_id>>)>>, 1) BY <1>1
<1>9. jump.op # "label" BY <1>3, <1>6
<1> HIDE DEF jump, skipped
<1> QED BY <1>3, <1>5, <1>6, <1>7, <1>8, <1>9, SkipKeeps

LEMMA JalStep ==
  ASSUME GenInv, left # <<>>, emit_jal
  PROVE  GenInv'
<1>1. PICK rd \in LINK_REGS, skip_reg \in GENERAL_REGS, n \in SignedImms :
        Emit("jal", <<JalOp(rd, <<"jal", label_id>>), Addi(skip_reg, skip_reg, n),
                      Label(<<"jal", label_id>>)>>, 1)
  BY DEF emit_jal, random_reg
<1> DEFINE jump == JalOp(rd, <<"jal", label_id>>)
<1>2. label_id \in Nat BY DEF GenInv, GenTypeOK
<1>3. "jal" \in StepNames /\ "jal" \in Ops \ (LoadOps \cup StoreOps)
  BY DEF StepNames, Ops, LoadOps, StoreOps
<1>4. <<"jal", label_id>> \in Name \X Nat BY <1>2, <1>3, Names
<1>5. jump \in LineSet /\ Confined(jump)
  BY <1>3, <1>4, PlainLine, Registers DEF JalOp
<1>6. jump.op # "label" /\ jump.to = <<"jal", label_id>> BY DEF JalOp, Line
<1> DEFINE skipped == Addi(skip_reg, skip_reg, n)
<1>7. /\ skipped \in LineSet /\ Confined(skipped) /\ skipped.op # "label"
      /\ skipped.to = Nowhere
  BY AddiLine, Draws, Registers
<1>8. Emit("jal", <<jump, skipped, Label(<<"jal", label_id>>)>>, 1) BY <1>1
<1> HIDE DEF jump, skipped
<1> QED BY <1>3, <1>5, <1>6, <1>7, <1>8, SkipKeeps

(* The computed jump refers to no label: it finds its own by distance.     *)
LEMMA JalrStep ==
  ASSUME GenInv, left # <<>>, emit_jalr
  PROVE  GenInv'
<1>1. PICK rd \in LINK_REGS, skip_reg \in GENERAL_REGS, n \in SignedImms :
        Emit("jalr", <<ImmOp("auipc", JALR_TMP, 0, 0),
                       Addi(JALR_TMP, JALR_TMP, JalrDistance),
                       ImmOp("jalr", rd, JALR_TMP, 0),
                       Addi(skip_reg, skip_reg, n),
                       Label(<<"jalr", label_id>>)>>, 1)
  BY DEF emit_jalr, random_reg
<1> DEFINE l1 == ImmOp("auipc", JALR_TMP, 0, 0)
           l2 == Addi(JALR_TMP, JALR_TMP, JalrDistance)
           l3 == ImmOp("jalr", rd, JALR_TMP, 0)
           l4 == Addi(skip_reg, skip_reg, n)
           name == <<"jalr", label_id>>
           l5 == Label(name)
           new == <<l1, l2, l3, l4, l5>>
           Quiet(line) == /\ line \in LineSet /\ Confined(line) /\ line.op # "label"
                          /\ line.to = Nowhere
<1>2. /\ "auipc" \in Ops \ (LoadOps \cup StoreOps)
      /\ "jalr" \in Ops \ (LoadOps \cup StoreOps)
  BY DEF Ops, UpperOps, LoadOps, StoreOps
<1>3. Quiet(l1) /\ Quiet(l3)
  <2>1. l1 \in LineSet /\ Confined(l1) /\ l3 \in LineSet /\ Confined(l3)
    BY <1>2, PlainLine, Registers, Names DEF ImmOp
  <2>2. /\ l1.op # "label" /\ l1.to = Nowhere /\ l3.op # "label" /\ l3.to = Nowhere
    BY DEF ImmOp, Line
  <2> QED BY <2>1, <2>2
<1>4. Quiet(l2) /\ Quiet(l4)
  <2>1. JALR_TMP \in GENERAL_REGS /\ JalrDistance \in Int
    BY RegistersAssumption DEF JalrDistance
  <2> QED BY <2>1, AddiLine, Draws, Registers
<1>5. label_id \in Nat /\ "jalr" \in StepNames BY DEF GenInv, GenTypeOK, StepNames
<1>6. /\ name \in LabelSpace(label_id + 1, FALSE) \ LabelSpace(label_id, FALSE)
      /\ name \in Name \X Nat
  BY <1>5, NewNumber
<1>7. l5 \in LineSet /\ Confined(l5) /\ l5.op = "label" /\ l5.to = name
  BY <1>6, LabelLine
<1>8. Emit("jalr", new, 1) BY <1>1
<1> HIDE DEF l1, l2, l3, l4, l5, name
<1>9. /\ new \in Seq(LineSet) /\ DOMAIN new = 1 .. 5
      /\ new[1] = l1 /\ new[2] = l2 /\ new[3] = l3 /\ new[4] = l4 /\ new[5] = l5
  BY <1>3, <1>4, <1>7
<1> HIDE DEF new
<1>10. \A i \in 1 .. 5 : i \in {1, 2, 3, 4, 5} OBVIOUS
<1>11. LabelsOf(new) = {5} BY <1>3, <1>4, <1>7, <1>9, <1>10 DEF LabelsOf
<1>12. Fits(new, LabelSpace(label_id + 1, FALSE), LabelSpace(label_id, FALSE))
  BY <1>3, <1>4, <1>6, <1>7, <1>9, <1>10, <1>11 DEF Fits
<1> QED BY <1>8, <1>12, EmitKeeps

LEMMA LoopStep ==
  ASSUME GenInv, left # <<>>, emit_loop
  PROVE  GenInv'
<1>1. PICK counter \in GENERAL_REGS, state \in GENERAL_REGS, temp \in GENERAL_REGS,
           accum \in GENERAL_REGS, iterations \in Iterations, first \in {0, 1} :
        \E update \in Updates(accum), access \in Accesses(accum) :
          Emit("loop", LoopBody(counter, state, temp, iterations, first, update, access,
                                label_id), 1)
  BY DEF emit_loop, random_reg
<1>a. PICK update \in Updates(accum), access \in Accesses(accum) :
        Emit("loop", LoopBody(counter, state, temp, iterations, first, update, access,
                              label_id), 1)
  BY <1>1
<1> DEFINE begin == <<"real_loop", label_id>>
           skip == <<"real_loop_skip", label_id>>
           l1 == Addi(counter, 0, iterations)
           l2 == Addi(state, 0, first)
           l3 == Label(begin)
           l4 == ImmOp("andi", temp, state, 1)
           l5 == BranchOp("beq", temp, 0, skip)
           l7 == Label(skip)
           l9 == ImmOp("xori", state, state, 1)
           l10 == Addi(counter, counter, -1)
           l11 == BranchOp("bne", counter, 0, begin)
           new == <<l1, l2, l3, l4, l5, update, l7, access, l9, l10, l11>>
           Sound(line) == line \in LineSet /\ Confined(line)
           Quiet(line) == Sound(line) /\ line.op # "label" /\ line.to = Nowhere
<1>2. label_id \in Nat /\ plan \in Plans BY DEF GenInv, GenTypeOK
<1>3. /\ {"real_loop", "real_loop_skip"} \subseteq StepNames
      /\ {"andi", "xori", "beq", "bne"} \subseteq Ops \ (LoadOps \cup StoreOps)
  BY DEF StepNames, Ops, ImmOps, BranchOps, LoadOps, StoreOps
<1>4. /\ begin \in LabelSpace(label_id + 1, FALSE) \ LabelSpace(label_id, FALSE)
      /\ skip \in LabelSpace(label_id + 1, FALSE) \ LabelSpace(label_id, FALSE)
      /\ begin \in Name \X Nat /\ skip \in Name \X Nat
  BY <1>2, <1>3, NewNumber
<1>5. begin # skip OBVIOUS
<1>6. Quiet(l1) /\ Quiet(l2) /\ Quiet(l10)
  <2>1. iterations \in Int /\ first \in Int /\ -1 \in Int
    BY IterationsAssumption
  <2> QED BY <2>1, AddiLine, Registers
<1>7. Quiet(l4) /\ Quiet(l9)
  <2>1. Sound(l4) /\ Sound(l9) BY <1>3, PlainLine, Registers, Names DEF ImmOp
  <2>2. l4.op # "label" /\ l4.to = Nowhere /\ l9.op # "label" /\ l9.to = Nowhere
    BY DEF ImmOp, Line
  <2> QED BY <2>1, <2>2
<1>8. Quiet(update)
  <2>1. CASE update \in {Addi(accum, accum, n) : n \in SmallImms}
    BY <2>1, AddiLine, Registers, Draws
  <2>2. ASSUME NEW n \in plan.xors, update = ImmOp("xori", accum, accum, n)
        PROVE  Quiet(update)
    <3>1. n \in Int BY <1>2, DrawsAssumption
    <3>2. Sound(update) BY <1>3, <2>2, <3>1, PlainLine, Registers, Names DEF ImmOp
    <3>3. update.op # "label" /\ update.to = Nowhere BY <2>2 DEF ImmOp, Line
    <3> QED BY <3>2, <3>3
  <2> QED BY <2>1, <2>2 DEF Updates
<1>9. Quiet(access)
  <2>1. ASSUME NEW off \in aligned_offset("sw"), access = StoreOp("sw", accum, off)
        PROVE  Quiet(access)
    <3>1. Sound(access)
      BY <2>1, AccessLine, Registers DEF StoreOp, StoreOps
    <3>2. access.op # "label" /\ access.to = Nowhere BY <2>1 DEF StoreOp, Line
    <3> QED BY <3>1, <3>2
  <2>2. ASSUME NEW off \in aligned_offset("lw"), access = LoadOp("lw", accum, off)
        PROVE  Quiet(access)
    <3>1. Sound(access)
      BY <2>2, AccessLine, Registers DEF LoadOp, ImmOp, LoadOps
    <3>2. access.op # "label" /\ access.to = Nowhere BY <2>2 DEF LoadOp, ImmOp, Line
    <3> QED BY <3>1, <3>2
  <2> QED BY <2>1, <2>2 DEF Accesses
<1>10. /\ Sound(l5) /\ l5.op # "label" /\ l5.to = skip
       /\ Sound(l11) /\ l11.op # "label" /\ l11.to = begin
  <2>1. Sound(l5) /\ Sound(l11)
    BY <1>3, <1>4, PlainLine, Registers DEF BranchOp
  <2> QED BY <2>1 DEF BranchOp, Line
<1>11. /\ Sound(l3) /\ l3.op = "label" /\ l3.to = begin
       /\ Sound(l7) /\ l7.op = "label" /\ l7.to = skip
  BY <1>4, LabelLine
<1>12. Emit("loop", new, 1) BY <1>a DEF LoopBody
<1> HIDE DEF l1, l2, l3, l4, l5, l7, l9, l10, l11, begin, skip
<1>13. /\ new \in Seq(LineSet) /\ DOMAIN new = 1 .. 11
       /\ new[1] = l1 /\ new[2] = l2 /\ new[3] = l3 /\ new[4] = l4 /\ new[5] = l5
       /\ new[6] = update /\ new[7] = l7 /\ new[8] = access /\ new[9] = l9
       /\ new[10] = l10 /\ new[11] = l11
  BY <1>6, <1>7, <1>8, <1>9, <1>10, <1>11
<1> HIDE DEF new
<1>14. \A i \in 1 .. 11 : i \in {1, 2, 3, 4, 5, 6, 7, 8, 9, 10, 11} OBVIOUS
<1>15. LabelsOf(new) = {3, 7}
  BY <1>6, <1>7, <1>8, <1>9, <1>10, <1>11, <1>13, <1>14 DEF LabelsOf
<1>16. \A i \in DOMAIN new : Confined(new[i])
  BY <1>6, <1>7, <1>8, <1>9, <1>10, <1>11, <1>13, <1>14
<1>17. \A i \in DOMAIN new \ LabelsOf(new) :
         \/ new[i].to \in {Nowhere, DataBase}
         \/ new[i].to = new[3].to \/ new[i].to = new[7].to
  BY <1>6, <1>7, <1>8, <1>9, <1>10, <1>11, <1>13, <1>14, <1>15
<1>18. Fits(new, LabelSpace(label_id + 1, FALSE), LabelSpace(label_id, FALSE))
  BY <1>4, <1>5, <1>11, <1>13, <1>15, <1>16, <1>17 DEF Fits
<1> QED BY <1>12, <1>18, EmitKeeps

(* The terminal loop and the data area.                                    *)
LEMMA FinishStep ==
  ASSUME GenInv, Finish
  PROVE  GenInv'
<1> DEFINE l1 == Label(Loop)
           l2 == Addi(0, 0, 0)
           l3 == JalOp(0, Loop)
           l4 == Line("align", 0, 0, 0, DataSize, Nowhere)
           l5 == Label(DataBase)
           l6 == Line("space", 0, 0, 0, DataSize, Nowhere)
           new == <<l1, l2, l3, l4, l5, l6>>
           Sound(line) == line \in LineSet /\ Confined(line)
           Quiet(line) == Sound(line) /\ line.op # "label" /\ line.to = Nowhere
<1>1. /\ label_id \in Nat /\ written = FALSE /\ left = <<>>
      /\ lines' = lines \o new /\ label_id' = label_id
      /\ written' = TRUE /\ left' = <<>> /\ plan' = plan
  BY DEF GenInv, GenTypeOK, Finish
<1>2. {"addi", "jal", "align", "space"} \subseteq Ops \ (LoadOps \cup StoreOps)
  BY DEF Ops, ImmOps, LoadOps, StoreOps
<1>3. /\ Sound(l1) /\ l1.op = "label" /\ l1.to = Loop
      /\ Sound(l5) /\ l5.op = "label" /\ l5.to = DataBase
  BY LabelLine, Names
<1>4. Quiet(l2) /\ Quiet(l4) /\ Quiet(l6)
  <2>1. Sound(l2) /\ Sound(l4) /\ Sound(l6)
    BY <1>2, PlainLine, Registers, Names, DataSizeAssumption DEF Addi, ImmOp
  <2>2. /\ l2.op # "label" /\ l2.to = Nowhere
        /\ l4.op # "label" /\ l4.to = Nowhere
        /\ l6.op # "label" /\ l6.to = Nowhere
    BY DEF Addi, ImmOp, Line
  <2> QED BY <2>1, <2>2
<1>5. Sound(l3) /\ l3.op # "label" /\ l3.to = Loop
  <2>1. Sound(l3) BY <1>2, PlainLine, Registers, Names DEF JalOp
  <2> QED BY <2>1 DEF JalOp, Line
<1>6. /\ Loop # DataBase
      /\ Loop \in LabelSpace(label_id, TRUE) \ LabelSpace(label_id, FALSE)
      /\ DataBase \in LabelSpace(label_id, TRUE) \ LabelSpace(label_id, FALSE)
  BY Names DEF LabelSpace, Loop, DataBase, StepNames
<1> HIDE DEF l1, l2, l3, l4, l5, l6
<1>7. /\ new \in Seq(LineSet) /\ DOMAIN new = 1 .. 6
      /\ new[1] = l1 /\ new[2] = l2 /\ new[3] = l3 /\ new[4] = l4 /\ new[5] = l5
      /\ new[6] = l6
  BY <1>3, <1>4, <1>5
<1> HIDE DEF new
<1>8. \A i \in 1 .. 6 : i \in {1, 2, 3, 4, 5, 6} OBVIOUS
<1>9. LabelsOf(new) = {1, 5} BY <1>3, <1>4, <1>5, <1>7, <1>8 DEF LabelsOf
<1>10. \A i \in DOMAIN new : Confined(new[i])
  BY <1>3, <1>4, <1>5, <1>7, <1>8
<1>11. \A i \in DOMAIN new \ LabelsOf(new) :
         new[i].to \in {Nowhere, DataBase} \/ new[i].to = new[1].to
  BY <1>3, <1>4, <1>5, <1>7, <1>8, <1>9
<1>12. Fits(new, LabelSpace(label_id, TRUE), LabelSpace(label_id, FALSE))
  BY <1>3, <1>6, <1>7, <1>9, <1>10, <1>11 DEF Fits
<1>13. /\ (GenTypeOK /\ Numbered /\ Apart /\ Resolved /\ AccessesConfined)'
       /\ Labels' = Labels \cup {new[i].to : i \in LabelsOf(new)}
  <2>1. label_id <= label_id /\ (written => TRUE) BY <1>1
  <2>2. TRUE \in BOOLEAN OBVIOUS
  <2> QED BY <1>1, <1>12, <2>1, <2>2, Appending
<1>14. Closed' BY <1>3, <1>7, <1>9, <1>13 DEF Closed
<1> QED BY <1>1, <1>13, <1>14 DEF GenInv, AllWritten

LEMMA GenStep == GenInv /\ [GenNext]_genVars => GenInv'
<1> SUFFICES ASSUME GenInv, [GenNext]_genVars PROVE GenInv'
  OBVIOUS
<1>1. CASE EmitStep
  BY <1>1, PlainSteps, MemStep, BranchStep, JalStep, JalrStep, LoopStep DEF EmitStep
<1>2. CASE Finish BY <1>2, FinishStep
<1>3. CASE UNCHANGED genVars
  <2>1. /\ lines' = lines /\ label_id' = label_id /\ left' = left
        /\ written' = written /\ plan' = plan
    BY <1>3 DEF genVars
  <2>2. LabelLines' = LabelLines BY <2>1 DEF LabelLines
  <2>3. Labels' = Labels /\ References' = References
    BY <2>1, <2>2 DEF Labels, References
  <2>4. (GenTypeOK /\ Numbered /\ Apart)'
    BY <2>1, <2>2 DEF GenInv, GenTypeOK, Numbered, Apart
  <2>5. (Resolved /\ Closed /\ AllWritten /\ AccessesConfined)'
    BY <2>1, <2>3 DEF GenInv, Resolved, Closed, AllWritten, AccessesConfined
  <2> QED BY <2>4, <2>5 DEF GenInv
<1> QED BY <1>1, <1>2, <1>3 DEF GenNext

-----------------------------------------------------------------------------
(* A function on 1 .. n is a sequence of that length.                      *)
LEMMA LengthOfFunction ==
  ASSUME NEW n \in Nat, NEW S, NEW f \in [1 .. n -> S]
  PROVE  f \in Seq(S) /\ Len(f) = n
<1>1. f \in Seq(S) BY SeqDef
<1> DEFINE m == Len(f)
<1>2. m \in Nat /\ 1 .. m = 1 .. n BY <1>1, LenProperties
<1> HIDE DEF m
<1>3. \A j, k \in Nat : 1 .. j = 1 .. k => ~(j < k)
  <2> SUFFICES ASSUME NEW j \in Nat, NEW k \in Nat, j < k PROVE 1 .. j # 1 .. k
    OBVIOUS
  <2>1. k \in 1 .. k /\ k \notin 1 .. j OBVIOUS
  <2> QED BY <2>1
<1>4. m = n BY <1>2, <1>3
<1> QED BY <1>1, <1>4 DEF m

(* The lines of emit_init.                                                 *)
LEMMA InitLines ==
  ASSUME GenInit
  PROVE  /\ lines \in Seq(LineSet) /\ Len(lines) = 2 + NGeneral
         /\ lines[1] = Line("lui", BASE_REG, 0, 0, 0, DataBase)
         /\ lines[2] = Line("addi", BASE_REG, BASE_REG, 0, 0, DataBase)
         /\ \A i \in 3 .. 2 + NGeneral :
              \E n \in Int : i - 2 \in GENERAL_REGS /\ lines[i] = Addi(i - 2, 0, n)
<1>1. PICK values \in InitValues : lines = emit_init(values) BY DEF GenInit
<1> DEFINE l1 == Line("lui", BASE_REG, 0, 0, 0, DataBase)
           l2 == Line("addi", BASE_REG, BASE_REG, 0, 0, DataBase)
           head == <<l1, l2>>
           tail == [r \in 1 .. NGeneral |-> Addi(r, 0, values[r])]
<1>2. NGeneral \in Nat /\ GENERAL_REGS = 1 .. NGeneral
  BY RegistersAssumption DEF GENERAL_REGS
<1>3. l1 \in LineSet /\ l2 \in LineSet
  BY LineType, Registers, Names DEF Ops, ImmOps, UpperOps
<1>4. \A r \in 1 .. NGeneral :
        values[r] \in Int /\ tail[r] = Addi(r, 0, values[r]) /\ tail[r] \in LineSet
  <2> TAKE r \in 1 .. NGeneral
  <2>1. values[r] \in Int BY <1>2, DrawsAssumption
  <2> QED BY <1>2, <2>1, AddiLine, Registers
<1>5. tail \in [1 .. NGeneral -> LineSet] BY <1>4
<1>6. lines = head \o tail BY <1>1 DEF emit_init
<1>7. l1 = Line("lui", BASE_REG, 0, 0, 0, DataBase)
      /\ l2 = Line("addi", BASE_REG, BASE_REG, 0, 0, DataBase)
  OBVIOUS
<1> HIDE DEF l1, l2, tail
<1>8. tail \in Seq(LineSet) /\ Len(tail) = NGeneral BY <1>2, <1>5, LengthOfFunction
<1>9. head \in Seq(LineSet) /\ Len(head) = 2 /\ head[1] = l1 /\ head[2] = l2
  BY <1>3
<1> HIDE DEF head
<1>10. /\ lines \in Seq(LineSet) /\ Len(lines) = 2 + NGeneral
       /\ \A i \in 1 .. 2 + NGeneral :
            lines[i] = IF i <= 2 THEN head[i] ELSE tail[i - 2]
  <2>1. /\ head \o tail \in Seq(LineSet)
        /\ Len(head \o tail) = Len(head) + Len(tail)
        /\ \A i \in 1 .. Len(head) + Len(tail) :
             (head \o tail)[i] = IF i <= Len(head) THEN head[i] ELSE tail[i - Len(head)]
    BY <1>8, <1>9, ConcatProperties
  <2> QED BY <1>6, <1>8, <1>9, <2>1
<1>11. lines[1] = l1 /\ lines[2] = l2 BY <1>2, <1>9, <1>10
<1>12. ASSUME NEW i \in 3 .. 2 + NGeneral
       PROVE  \E n \in Int : i - 2 \in GENERAL_REGS /\ lines[i] = Addi(i - 2, 0, n)
  <2>1. i - 2 \in 1 .. NGeneral /\ lines[i] = tail[i - 2] BY <1>2, <1>10
  <2> QED BY <1>2, <1>4, <2>1
<1> QED BY <1>7, <1>10, <1>11, <1>12

(* A program starts with lines that define no label and refer to the data  *)
(* area only.                                                              *)
LEMMA GenStart == GenInit => GenInv
<1> SUFFICES ASSUME GenInit PROVE GenInv
  OBVIOUS
<1>1. /\ lines \in Seq(LineSet) /\ NGeneral \in Nat /\ DOMAIN lines = 1 .. 2 + NGeneral
  BY InitLines, RegistersAssumption, LenProperties
<1>2. \A i \in DOMAIN lines :
        /\ lines[i].op # "label" /\ lines[i].to \in {Nowhere, DataBase}
        /\ i > 2 => Confined(lines[i])
  <2> TAKE i \in DOMAIN lines
  <2>1. CASE i <= 2
    <3>1. i \in {1, 2} BY <1>1, <2>1
    <3>2. \A op, rs : LET line == Line(op, BASE_REG, rs, 0, 0, DataBase)
                     IN line.op = op /\ line.to = DataBase
      BY DEF Line
    <3> QED BY <2>1, <3>1, <3>2, InitLines
  <2>2. CASE i > 2
    <3>1. PICK n \in Int : i - 2 \in GENERAL_REGS /\ lines[i] = Addi(i - 2, 0, n)
      BY <1>1, <2>2, InitLines
    <3> QED BY <3>1, AddiLine, Registers
  <2> QED BY <1>1, <2>1, <2>2
<1>3. LabelLines = {} BY <1>2 DEF LabelLines
<1>4. References \subseteq {DataBase} BY <1>2 DEF References
<1>5. GenTypeOK BY <1>1 DEF GenTypeOK, GenInit
<1>6. written = FALSE BY DEF GenInit
<1>7. AccessesConfined BY <1>2 DEF AccessesConfined
<1> QED BY <1>3, <1>4, <1>5, <1>6, <1>7
       DEF GenInv, Numbered, Apart, Resolved, Closed, AllWritten

(* The inductive invariant of the generator.                               *)
THEOREM GenInductive == GenSpec => []GenInv
  BY GenStart, GenStep, PTL DEF GenSpec

(* Whatever is drawn, no generated instruction but the first two writes    *)
(* the base register, and every access goes through it to an aligned       *)
(* offset inside the data area.                                            *)
THEOREM ConfinedAccesses == GenSpec => []AccessesConfined
<1>1. GenInv => AccessesConfined BY DEF GenInv
<1> QED BY <1>1, GenInductive, PTL

(* Programs of any number of steps assemble: labels are unique and every   *)
(* reference resolves.                                                     *)
THEOREM ProgramsAssemble == GenSpec => []LabelsResolve
<1>1. ASSUME GenInv PROVE LabelsResolve
  <2>1. Cardinality(Labels) = Cardinality(LabelLines)
    <3>1. lines \in Seq(LineSet) BY <1>1 DEF GenInv, GenTypeOK
    <3>2. IsFiniteSet(LabelLines)
      <4>1. DOMAIN lines = 1 .. Len(lines) /\ Len(lines) \in Nat
        BY <3>1, LenProperties
      <4>2. IsFiniteSet(1 .. Len(lines)) BY <4>1, FS_Interval
      <4>3. LabelLines \subseteq 1 .. Len(lines) BY <4>1 DEF LabelLines
      <4> QED BY <4>2, <4>3, FS_Subset
    <3> DEFINE f == [i \in LabelLines |-> lines[i].to]
    <3>3. f \in [LabelLines -> Labels] BY DEF Labels
    <3>4. \A l \in Labels : \E i \in LabelLines : f[i] = l BY DEF Labels
    <3>5. \A i, j \in LabelLines : f[i] = f[j] => i = j
      BY <1>1 DEF GenInv, Apart
    <3> HIDE DEF f
    <3>6. f \in Bijection(LabelLines, Labels)
      BY <3>3, <3>4, <3>5 DEF Bijection, Injection, Surjection, IsInjective
    <3>7. ExistsBijection(LabelLines, Labels) BY <3>6 DEF ExistsBijection
    <3> QED BY <3>2, <3>7, FS_Bijection
  <2>2. written => References \subseteq Labels
    BY <1>1 DEF GenInv, Resolved, Closed
  <2> QED BY <2>1, <2>2 DEF LabelsResolve
<1> QED BY <1>1, GenInductive, PTL

-----------------------------------------------------------------------------
(* The layout of a program: what follows what.                              *)

(* Only branches and jal refer to labels, and not to the data area.        *)
LabelOps == BranchOps \cup {"jal"}

Refers(line) ==
  line.op # "label" =>
    IF line.op \in LabelOps THEN line.to \notin {Nowhere, DataBase}
    ELSE line.to = Nowhere

(* The lines around a computed jump at place i.                            *)
JalrAt(s, i) ==
  /\ i > 2 /\ i + 2 <= Len(s)
  /\ s[i - 2] = ImmOp("auipc", JALR_TMP, 0, 0)
  /\ s[i - 1] = Addi(JALR_TMP, JALR_TMP, JalrDistance)
  /\ s[i].rs1 = JALR_TMP /\ s[i].imm = 0
  /\ IsCode(s[i + 1])
  /\ s[i + 2].op = "label" /\ s[i + 2].to[1] = "jalr"

WellFormed(s, i) == Refers(s[i]) /\ (s[i].op = "jalr" => JalrAt(s, i))

LoadsBase ==
  /\ Len(lines) >= 2
  /\ lines[1] = Line("lui", BASE_REG, 0, 0, 0, DataBase)
  /\ lines[2] = Line("addi", BASE_REG, BASE_REG, 0, 0, DataBase)

StepsWellFormed == \A i \in 3 .. Len(lines) : WellFormed(lines, i)

(* The last instruction is the terminal jump; behind it there is only the  *)
(* data area.                                                              *)
EndsInLoop ==
  written =>
    LET n == Len(lines) - 3
    IN /\ n > 2 /\ lines[n] = JalOp(0, Loop)
       /\ \A i \in n + 1 .. Len(lines) :
            ~IsCode(lines[i]) /\ (lines[i].op = "label" => lines[i].to = DataBase)

(* What is still to be written has room.                                   *)
Short ==
  /\ left \in Seq(Kinds)
  /\ Len(lines) + 11 * Len(left) + (IF written THEN 0 ELSE 6) <= MaxLines(plan)

Layout == LoadsBase /\ StepsWellFormed /\ EndsInLoop /\ Short

(* The lines of a step.                                                    *)
StepLines(new) ==
  /\ \E S : new \in Seq(S)
  /\ \A i \in 1 .. Len(new) : WellFormed(new, i)

(* Appended lines keep their layout, and that of the lines before them.    *)
LEMMA LayoutAppends ==
  ASSUME GenInv, Layout, NEW new, StepLines(new), lines' = lines \o new
  PROVE  /\ (LoadsBase /\ StepsWellFormed)'
         /\ Len(lines') = Len(lines) + Len(new)
         /\ \A k \in 1 .. Len(new) : lines'[Len(lines) + k] = new[k]
<1> DEFINE m == Len(lines)
           n == Len(new)
<1>0. PICK S : new \in Seq(S) BY DEF StepLines
<1>1. lines \in Seq(LineSet \cup S) /\ new \in Seq(LineSet \cup S)
  <2>1. lines \in Seq(LineSet) BY DEF GenInv, GenTypeOK
  <2>2. \A T, U : Seq(T) \subseteq Seq(T \cup U)
    <3> SUFFICES ASSUME NEW T, NEW U, NEW s \in Seq(T) PROVE s \in Seq(T \cup U)
      OBVIOUS
    <3>1. Len(s) \in Nat /\ s \in [1 .. Len(s) -> T] BY LenProperties
    <3>2. s \in [1 .. Len(s) -> T \cup U] BY <3>1
    <3> QED BY <3>1, <3>2, SeqDef
  <2>3. new \in Seq(S \cup LineSet) BY <1>0, <2>2
  <2>4. S \cup LineSet = LineSet \cup S OBVIOUS
  <2>5. lines \in Seq(LineSet \cup S) BY <2>1, <2>2
  <2> QED BY <2>3, <2>4, <2>5
<1>2. m \in Nat /\ n \in Nat BY <1>1, LenProperties
<1>3. /\ Len(lines') = m + n
      /\ \A i \in 1 .. m + n : lines'[i] = IF i <= m THEN lines[i] ELSE new[i - m]
  BY <1>1, ConcatProperties
<1>4. m >= 2 BY DEF Layout, LoadsBase
<1>5. \A i \in 1 .. m : lines'[i] = lines[i] BY <1>2, <1>3
<1>6. \A k \in 1 .. n : lines'[m + k] = new[k]
  <2> TAKE k \in 1 .. n
  <2>1. m + k \in 1 .. m + n /\ ~(m + k <= m) /\ (m + k) - m = k BY <1>2
  <2> QED BY <1>3, <2>1
<1>7. LoadsBase'
  BY <1>2, <1>3, <1>4, <1>5 DEF Layout, LoadsBase, Line
<1>8. \A i \in 3 .. m : WellFormed(lines', i)
  <2> SUFFICES ASSUME NEW i \in 3 .. m PROVE WellFormed(lines', i)
    OBVIOUS
  <2>1. WellFormed(lines, i) BY DEF Layout, StepsWellFormed
  <2>2. lines'[i] = lines[i] BY <1>2, <1>5
  <2>3. ASSUME JalrAt(lines, i) PROVE JalrAt(lines', i)
    <3>1. i > 2 /\ i + 2 <= m BY <2>3 DEF JalrAt
    <3>2. /\ lines'[i - 2] = lines[i - 2] /\ lines'[i - 1] = lines[i - 1]
          /\ lines'[i + 1] = lines[i + 1] /\ lines'[i + 2] = lines[i + 2]
      BY <1>2, <1>5, <3>1
    <3>3. i + 2 <= Len(lines') BY <1>2, <1>3, <3>1
    <3> QED BY <2>2, <2>3, <3>1, <3>2, <3>3 DEF JalrAt
  <2> QED BY <2>1, <2>2, <2>3 DEF WellFormed
<1>9. \A k \in 1 .. n : WellFormed(lines', m + k)
  <2> SUFFICES ASSUME NEW k \in 1 .. n PROVE WellFormed(lines', m + k)
    OBVIOUS
  <2>1. WellFormed(new, k) BY DEF StepLines
  <2>2. lines'[m + k] = new[k] BY <1>6
  <2>3. ASSUME JalrAt(new, k) PROVE JalrAt(lines', m + k)
    <3>1. k > 2 /\ k + 2 <= n BY <2>3 DEF JalrAt
    <3>2. /\ lines'[m + (k - 2)] = new[k - 2] /\ lines'[m + (k - 1)] = new[k - 1]
          /\ lines'[m + (k + 1)] = new[k + 1] /\ lines'[m + (k + 2)] = new[k + 2]
      <4>1. k - 2 \in 1 .. n /\ k - 1 \in 1 .. n /\ k + 1 \in 1 .. n /\ k + 2 \in 1 .. n
        BY <1>2, <3>1
      <4> QED BY <1>6, <4>1
    <3>3. /\ m + k > 2 /\ (m + k) + 2 <= Len(lines')
          /\ (m + k) - 2 = m + (k - 2) /\ (m + k) - 1 = m + (k - 1)
          /\ (m + k) + 1 = m + (k + 1) /\ (m + k) + 2 = m + (k + 2)
      BY <1>2, <1>3, <3>1
    <3>4. /\ lines'[(m + k) - 2] = new[k - 2] /\ lines'[(m + k) - 1] = new[k - 1]
          /\ lines'[(m + k) + 1] = new[k + 1] /\ lines'[(m + k) + 2] = new[k + 2]
      BY <3>2, <3>3
    <3> QED BY <2>2, <2>3, <3>3, <3>4 DEF JalrAt
  <2> QED BY <2>1, <2>2, <2>3 DEF WellFormed
<1>10. StepsWellFormed'
  <2>1. ASSUME NEW i \in 3 .. m + n PROVE WellFormed(lines', i)
    <3>1. CASE i <= m BY <1>8, <3>1
    <3>2. CASE i > m
      <4>1. i - m \in 1 .. n /\ i = m + (i - m) BY <1>2, <3>2
      <4> QED BY <1>9, <4>1
    <3> QED BY <1>2, <3>1, <3>2
  <2>2. \A i \in 3 .. Len(lines') : WellFormed(lines', i) BY <1>3, <2>1
  <2> QED BY <2>2 DEF StepsWellFormed, WellFormed, Refers, LabelOps, BranchOps, Nowhere, DataBase, JalrAt, IsCode, ImmOp, Addi, Line,
              JalrDistance
<1> QED BY <1>3, <1>6, <1>7, <1>10

(* A step of at most 11 lines.                                             *)
LEMMA LayoutEmits ==
  ASSUME GenInv, Layout, left # <<>>, NEW kind, NEW new, NEW k, Emit(kind, new, k),
         StepLines(new), Len(new) <= 11
  PROVE  Layout'
<1>1. /\ lines' = lines \o new /\ left' = Tail(left) /\ written' = written /\ plan' = plan
      /\ written = FALSE
  BY DEF Emit, GenInv, AllWritten, GenTypeOK
<1>2. (LoadsBase /\ StepsWellFormed)' /\ Len(lines') = Len(lines) + Len(new)
  BY <1>1, LayoutAppends
<1>3. left \in Seq(Kinds) BY DEF Layout, Short
<1>4. /\ left' \in Seq(Kinds) /\ Len(left') = Len(left) - 1 /\ Len(left) \in Nat
  BY <1>1, <1>3, EmptySeq, HeadTailProperties, LenProperties
<1>5. Len(lines) \in Nat /\ Len(new) \in Nat
  BY LenProperties DEF GenInv, GenTypeOK, StepLines
<1>6. MaxLines(plan)' = MaxLines(plan) BY <1>1 DEF MaxLines
<1>7. Len(lines) + 11 * Len(left) + 6 <= MaxLines(plan)
  BY <1>1 DEF Layout, Short
<1>8. Len(lines') + 11 * Len(left') + 6 <= MaxLines(plan)
  <2>1. MaxLines(plan) \in Int
    BY RegistersAssumption, ProgramsFit, LenProperties DEF MaxLines, GenInv, GenTypeOK
  <2> QED BY <1>2, <1>4, <1>5, <1>7, <2>1
<1>9. Short' BY <1>1, <1>4, <1>6, <1>8 DEF Short
<1> QED BY <1>1, <1>2, <1>9 DEF Layout, EndsInLoop

(* A line that is no computed jump and refers to a label only if it may.   *)
Harmless(line) == line.op # "jalr" /\ Refers(line)

(* Lines without a computed jump need no neighbours.                       *)
LEMMA HarmlessStep ==
  ASSUME NEW S, NEW new \in Seq(S), \A i \in 1 .. Len(new) : Harmless(new[i])
  PROVE  StepLines(new)
  BY DEF StepLines, WellFormed, Harmless

(* What the emitters write, apart from jalr, is harmless.                  *)
LEMMA HarmlessLines ==
  /\ \A op, rd, rs1, rs2, imm :
       op \notin LabelOps \cup {"jalr"} => Harmless(Line(op, rd, rs1, rs2, imm, Nowhere))
  /\ \A op, rs1, rs2, name, n :
       op \in BranchOps /\ name \in StepNames
       => Harmless(BranchOp(op, rs1, rs2, <<name, n>>))
  /\ \A rd, n : Harmless(JalOp(rd, <<"jal", n>>))
  /\ \A name : Harmless(Label(name))
<1>1. ASSUME NEW op, NEW rd, NEW rs1, NEW rs2, NEW imm,
             op \notin LabelOps \cup {"jalr"}
      PROVE  Harmless(Line(op, rd, rs1, rs2, imm, Nowhere))
  BY <1>1 DEF Harmless, Refers, Line
<1>2. ASSUME NEW op \in BranchOps, NEW rs1, NEW rs2, NEW name \in StepNames, NEW n
      PROVE  Harmless(BranchOp(op, rs1, rs2, <<name, n>>))
  <2>1. op # "jalr" BY DEF BranchOps
  <2>2. <<name, n>> # DataBase /\ <<name, n>> # Nowhere
    BY DEF DataBase, Nowhere, StepNames
  <2>3. op \in LabelOps BY DEF LabelOps
  <2> QED BY <2>1, <2>2, <2>3 DEF Harmless, Refers, Line, BranchOp
<1>3. ASSUME NEW rd, NEW n PROVE Harmless(JalOp(rd, <<"jal", n>>))
  <2>1. <<"jal", n>> # DataBase /\ <<"jal", n>> # Nowhere BY DEF DataBase, Nowhere
  <2> QED BY <2>1 DEF Harmless, Refers, Line, JalOp, LabelOps
<1>4. ASSUME NEW name PROVE Harmless(Label(name))
  BY DEF Harmless, Refers, Line, Label
<1> QED BY <1>1, <1>2, <1>3, <1>4

LEMMA HarmlessImm ==
  \A op \in {"addi", "andi", "xori", "auipc", "lw"} :
    \A rd, rs, n : Harmless(ImmOp(op, rd, rs, n))
<1>1. \A op \in {"addi", "andi", "xori", "auipc", "lw"} : op \notin LabelOps \cup {"jalr"}
  BY DEF LabelOps, BranchOps
<1> QED BY <1>1, HarmlessLines DEF ImmOp

(* Steps of one line, and the five emitters that write one.                *)
LEMMA OneLineLayout ==
  ASSUME GenInv, Layout, left # <<>>, NEW kind, NEW line, Harmless(line),
         Emit(kind, <<line>>, 0)
  PROVE  Layout'
<1>1. <<line>> \in Seq({line}) /\ Len(<<line>>) = 1 /\ <<line>>[1] = line
  OBVIOUS
<1> DEFINE new == <<line>>
<1>2. new \in Seq({line}) /\ Len(new) = 1 /\ new[1] = line BY <1>1
<1>3. Emit(kind, new, 0) OBVIOUS
<1> HIDE DEF new
<1>4. \A i \in 1 .. Len(new) : Harmless(new[i]) BY <1>2
<1>5. StepLines(new) BY <1>2, <1>4, HarmlessStep
<1>6. Len(new) <= 11 BY <1>2
<1> QED BY <1>3, <1>5, <1>6, LayoutEmits

LEMMA PlainLayout ==
  ASSUME GenInv, Layout, left # <<>>,
         emit_imm_op \/ emit_shift_imm_op \/ emit_reg_op \/ emit_u_op \/ emit_mem_op
  PROVE  Layout'
<1>1. ASSUME NEW kind, NEW op, op \notin LabelOps \cup {"jalr"}, NEW rd, NEW rs1, NEW rs2, NEW imm,
             Emit(kind, <<Line(op, rd, rs1, rs2, imm, Nowhere)>>, 0)
      PROVE  Layout'
  BY <1>1, HarmlessLines, OneLineLayout
<1>2. CASE emit_imm_op
  <2>1. PICK op \in IMM_OPS, rd \in random_reg({}), rs \in random_reg({}), n \in SignedImms :
          Emit("imm", <<Line(op, rd, rs, 0, n, Nowhere)>>, 0)
    BY <1>2 DEF emit_imm_op, ImmOp
  <2>2. op \notin LabelOps \cup {"jalr"} BY DEF IMM_OPS, LabelOps, BranchOps
  <2> QED BY <1>1, <2>1, <2>2
<1>3. CASE emit_shift_imm_op
  <2>1. PICK op \in SHIFT_IMM_OPS, rd \in random_reg({}), rs \in random_reg({}),
             n \in ShiftImms :
          Emit("shift", <<Line(op, rd, rs, 0, n, Nowhere)>>, 0)
    BY <1>3 DEF emit_shift_imm_op, ImmOp
  <2>2. op \notin LabelOps \cup {"jalr"} BY DEF SHIFT_IMM_OPS, LabelOps, BranchOps
  <2> QED BY <1>1, <2>1, <2>2
<1>4. CASE emit_reg_op
  <2>1. PICK op \in REG_OPS, rd \in random_reg({}), rs1 \in random_reg({}),
             rs2 \in random_reg({}) :
          Emit("reg", <<Line(op, rd, rs1, rs2, 0, Nowhere)>>, 0)
    BY <1>4 DEF emit_reg_op, RegOp
  <2>2. op \notin LabelOps \cup {"jalr"} BY DEF REG_OPS, LabelOps, BranchOps
  <2> QED BY <1>1, <2>1, <2>2
<1>5. CASE emit_u_op
  <2>1. PICK op \in U_OPS, rd \in random_reg({}), n \in UpperImms :
          Emit("uop", <<Line(op, rd, 0, 0, n, Nowhere)>>, 0)
    BY <1>5 DEF emit_u_op, ImmOp
  <2>2. op \notin LabelOps \cup {"jalr"} BY DEF U_OPS, LabelOps, BranchOps
  <2> QED BY <1>1, <2>1, <2>2
<1>6. CASE \E op \in STORE_OPS, rs \in random_reg({}) : \E off \in aligned_offset(op) :
             Emit("mem", <<StoreOp(op, rs, off)>>, 0)
  <2>1. PICK op \in STORE_OPS, rs \in random_reg({}) : \E off \in aligned_offset(op) :
          Emit("mem", <<Line(op, 0, BASE_REG, rs, off, Nowhere)>>, 0)
    BY <1>6 DEF StoreOp
  <2>2. op \notin LabelOps \cup {"jalr"} BY DEF STORE_OPS, LabelOps, BranchOps
  <2> QED BY <1>1, <2>1, <2>2
<1>7. CASE \E op \in LOAD_OPS, rd \in random_reg({}) : \E off \in aligned_offset(op) :
             Emit("mem", <<LoadOp(op, rd, off)>>, 0)
  <2>1. PICK op \in LOAD_OPS, rd \in random_reg({}) : \E off \in aligned_offset(op) :
          Emit("mem", <<Line(op, rd, BASE_REG, 0, off, Nowhere)>>, 0)
    BY <1>7 DEF LoadOp, ImmOp
  <2>2. op \notin LabelOps \cup {"jalr"} BY DEF LOAD_OPS, LabelOps, BranchOps
  <2> QED BY <1>1, <2>1, <2>2
<1> QED BY <1>2, <1>3, <1>4, <1>5, <1>6, <1>7 DEF emit_mem_op

(* A jump over one instruction, and the two emitters of one.               *)
LEMMA SkipLayout ==
  ASSUME GenInv, Layout, left # <<>>, NEW kind, NEW jump, NEW skipped, NEW label,
         Harmless(jump), Harmless(skipped), Harmless(label),
         Emit(kind, <<jump, skipped, label>>, 1)
  PROVE  Layout'
<1> DEFINE new == <<jump, skipped, label>>
<1>1. /\ new \in Seq({jump, skipped, label}) /\ Len(new) = 3
      /\ new[1] = jump /\ new[2] = skipped /\ new[3] = label
  OBVIOUS
<1>2. Emit(kind, new, 1) OBVIOUS
<1> HIDE DEF new
<1>3. \A i \in 1 .. Len(new) : Harmless(new[i])
  <2>1. \A i \in 1 .. 3 : i \in {1, 2, 3} OBVIOUS
  <2> QED BY <1>1, <2>1
<1>4. StepLines(new) BY <1>1, <1>3, HarmlessStep
<1>5. Len(new) <= 11 BY <1>1
<1> QED BY <1>2, <1>4, <1>5, LayoutEmits

LEMMA JumpLayout ==
  ASSUME GenInv, Layout, left # <<>>, emit_branch \/ emit_jal
  PROVE  Layout'
<1>1. \A rd, rs, n : Harmless(Addi(rd, rs, n)) BY HarmlessImm DEF Addi
<1>2. CASE emit_branch
  <2>1. PICK op \in BRANCH_OPS, rs1 \in random_reg({}), rs2 \in random_reg({}),
             rd \in random_reg({}), n \in SignedImms :
          Emit("branch", <<BranchOp(op, rs1, rs2, <<"br", label_id>>), Addi(rd, rd, n),
                           Label(<<"br", label_id>>)>>, 1)
    BY <1>2 DEF emit_branch
  <2>2. op \in BranchOps /\ "br" \in StepNames BY DEF BRANCH_OPS, BranchOps, StepNames
  <2>3. Harmless(BranchOp(op, rs1, rs2, <<"br", label_id>>))
    BY <2>2, HarmlessLines
  <2> QED BY <1>1, <2>1, <2>3, HarmlessLines, SkipLayout
<1>3. CASE emit_jal
  <2>1. PICK rd \in LINK_REGS, skip_reg \in random_reg({}), n \in SignedImms :
          Emit("jal", <<JalOp(rd, <<"jal", label_id>>), Addi(skip_reg, skip_reg, n),
                        Label(<<"jal", label_id>>)>>, 1)
    BY <1>3 DEF emit_jal
  <2>2. Harmless(JalOp(rd, <<"jal", label_id>>)) BY HarmlessLines
  <2> QED BY <1>1, <2>1, <2>2, HarmlessLines, SkipLayout
<1> QED BY <1>2, <1>3

(* The five lines of a computed jump.                                      *)
LEMMA JalrLayout ==
  ASSUME GenInv, Layout, left # <<>>, emit_jalr
  PROVE  Layout'
<1>1. PICK rd \in LINK_REGS, skip_reg \in random_reg({}), n \in SignedImms :
        Emit("jalr", <<ImmOp("auipc", JALR_TMP, 0, 0),
                       Addi(JALR_TMP, JALR_TMP, JalrDistance),
                       ImmOp("jalr", rd, JALR_TMP, 0),
                       Addi(skip_reg, skip_reg, n),
                       Label(<<"jalr", label_id>>)>>, 1)
  BY DEF emit_jalr
<1> DEFINE l1 == ImmOp("auipc", JALR_TMP, 0, 0)
           l2 == Addi(JALR_TMP, JALR_TMP, JalrDistance)
           l3 == ImmOp("jalr", rd, JALR_TMP, 0)
           l4 == Addi(skip_reg, skip_reg, n)
           l5 == Label(<<"jalr", label_id>>)
           new == <<l1, l2, l3, l4, l5>>
<1>2. Harmless(l1) /\ Harmless(l2) /\ Harmless(l4) /\ Harmless(l5)
  BY HarmlessLines, HarmlessImm DEF Addi
<1>3. /\ l3.rs1 = JALR_TMP /\ l3.imm = 0 /\ Refers(l3) /\ IsCode(l4)
      /\ l5.op = "label" /\ l5.to[1] = "jalr"
  BY DEF ImmOp, Addi, Label, Line, Refers, IsCode, LabelOps, BranchOps
<1>4. Emit("jalr", new, 1) BY <1>1
<1>5. /\ l1 = ImmOp("auipc", JALR_TMP, 0, 0) /\ l2 = Addi(JALR_TMP, JALR_TMP, JalrDistance)
  OBVIOUS
<1> HIDE DEF l1, l2, l3, l4, l5
<1>6. /\ new \in Seq({l1, l2, l3, l4, l5}) /\ Len(new) = 5
      /\ new[1] = l1 /\ new[2] = l2 /\ new[3] = l3 /\ new[4] = l4 /\ new[5] = l5
  OBVIOUS
<1> HIDE DEF new
<1>7. JalrAt(new, 3) BY <1>3, <1>5, <1>6 DEF JalrAt
<1>8. \A i \in 1 .. Len(new) : WellFormed(new, i)
  <2>1. \A i \in 1 .. 5 : i \in {1, 2, 3, 4, 5} OBVIOUS
  <2>2. /\ WellFormed(new, 1) /\ WellFormed(new, 2) /\ WellFormed(new, 4)
        /\ WellFormed(new, 5)
    BY <1>2, <1>6 DEF WellFormed, Harmless
  <2>3. WellFormed(new, 3) BY <1>3, <1>6, <1>7 DEF WellFormed
  <2> QED BY <1>6, <2>1, <2>2, <2>3
<1>9. StepLines(new) BY <1>6, <1>8 DEF StepLines
<1>10. Len(new) <= 11 BY <1>6
<1> QED BY <1>4, <1>9, <1>10, LayoutEmits

(* The eleven lines of a loop.                                             *)
LEMMA LoopLayout ==
  ASSUME GenInv, Layout, left # <<>>, emit_loop
  PROVE  Layout'
<1>0. PICK counter \in GENERAL_REGS, state \in GENERAL_REGS, temp \in GENERAL_REGS,
           accum \in GENERAL_REGS, iterations \in Iterations, first \in {0, 1} :
        \E update \in Updates(accum), access \in Accesses(accum) :
          Emit("loop", LoopBody(counter, state, temp, iterations, first, update, access,
                                label_id), 1)
  BY DEF emit_loop, random_reg
<1>1. PICK update \in Updates(accum), access \in Accesses(accum) :
        Emit("loop", LoopBody(counter, state, temp, iterations, first, update, access,
                              label_id), 1)
  BY <1>0
<1> DEFINE begin == <<"real_loop", label_id>>
           skip == <<"real_loop_skip", label_id>>
           l1 == Addi(counter, 0, iterations)
           l2 == Addi(state, 0, first)
           l3 == Label(begin)
           l4 == ImmOp("andi", temp, state, 1)
           l5 == BranchOp("beq", temp, 0, skip)
           l7 == Label(skip)
           l9 == ImmOp("xori", state, state, 1)
           l10 == Addi(counter, counter, -1)
           l11 == BranchOp("bne", counter, 0, begin)
           new == <<l1, l2, l3, l4, l5, update, l7, access, l9, l10, l11>>
<1>3. Harmless(l1) /\ Harmless(l2) /\ Harmless(l4) /\ Harmless(l9) /\ Harmless(l10)
  BY HarmlessImm DEF Addi
<1>4. Harmless(l3) /\ Harmless(l7) BY HarmlessLines
<1>5. Harmless(l5) /\ Harmless(l11)
  <2>1. {"real_loop", "real_loop_skip"} \subseteq StepNames /\ {"beq", "bne"} \subseteq BranchOps
    BY DEF StepNames, BranchOps
  <2> QED BY <2>1, HarmlessLines
<1>6. Harmless(update) BY HarmlessImm DEF Updates, Addi
<1>7. Harmless(access)
  <2>1. \A rs, off : Harmless(StoreOp("sw", rs, off)) /\ Harmless(LoadOp("lw", rs, off))
    <3>1. "sw" \notin LabelOps \cup {"jalr"} BY DEF LabelOps, BranchOps
    <3> QED BY <3>1, HarmlessLines, HarmlessImm DEF StoreOp, LoadOp
  <2> QED BY <2>1 DEF Accesses
<1>8. Emit("loop", new, 1) BY <1>1 DEF LoopBody
<1> HIDE DEF l1, l2, l3, l4, l5, l7, l9, l10, l11, begin, skip
<1>9. /\ new \in Seq({l1, l2, l3, l4, l5, update, l7, access, l9, l10, l11})
      /\ Len(new) = 11
      /\ new[1] = l1 /\ new[2] = l2 /\ new[3] = l3 /\ new[4] = l4 /\ new[5] = l5
      /\ new[6] = update /\ new[7] = l7 /\ new[8] = access /\ new[9] = l9
      /\ new[10] = l10 /\ new[11] = l11
  OBVIOUS
<1> HIDE DEF new
<1>10. \A i \in 1 .. Len(new) : Harmless(new[i])
  <2>1. \A i \in 1 .. 11 : i \in {1, 2, 3, 4, 5, 6, 7, 8, 9, 10, 11} OBVIOUS
  <2> QED BY <1>3, <1>4, <1>5, <1>6, <1>7, <1>9, <2>1
<1>11. StepLines(new) BY <1>9, <1>10, HarmlessStep
<1>12. Len(new) <= 11 BY <1>9
<1> QED BY <1>8, <1>11, <1>12, LayoutEmits

(* The six last lines.                                                     *)
LEMMA FinishLayout ==
  ASSUME GenInv, Layout, Finish
  PROVE  Layout'
<1> DEFINE l1 == Label(Loop)
           l2 == Addi(0, 0, 0)
           l3 == JalOp(0, Loop)
           l4 == Line("align", 0, 0, 0, DataSize, Nowhere)
           l5 == Label(DataBase)
           l6 == Line("space", 0, 0, 0, DataSize, Nowhere)
           new == <<l1, l2, l3, l4, l5, l6>>
<1>1. /\ lines' = lines \o new /\ written = FALSE /\ left = <<>> /\ written' = TRUE
      /\ left' = left /\ plan' = plan
  BY DEF Finish, GenInv, GenTypeOK
<1>2. /\ Harmless(l1) /\ Harmless(l2) /\ Harmless(l4) /\ Harmless(l5) /\ Harmless(l6)
  <2>1. {"align", "space"} \cap (LabelOps \cup {"jalr"}) = {} BY DEF LabelOps, BranchOps
  <2> QED BY <2>1, HarmlessLines, HarmlessImm DEF Addi
<1>3. Harmless(l3) BY DEF Harmless, Refers, LabelOps, JalOp, Line, Loop, DataBase, Nowhere
<1>4. /\ ~IsCode(l4) /\ ~IsCode(l5) /\ ~IsCode(l6)
      /\ l4.op # "label" /\ l5.to = DataBase /\ l6.op # "label" /\ l3 = JalOp(0, Loop)
  BY DEF IsCode, Line, Label
<1> HIDE DEF l1, l2, l3, l4, l5, l6
<1>5. /\ new \in Seq({l1, l2, l3, l4, l5, l6}) /\ Len(new) = 6
      /\ new[1] = l1 /\ new[2] = l2 /\ new[3] = l3 /\ new[4] = l4 /\ new[5] = l5
      /\ new[6] = l6
  OBVIOUS
<1> HIDE DEF new
<1>6. \A i \in 1 .. Len(new) : Harmless(new[i])
  <2>1. \A i \in 1 .. 6 : i \in {1, 2, 3, 4, 5, 6} OBVIOUS
  <2> QED BY <1>2, <1>3, <1>5, <2>1
<1>7. StepLines(new) BY <1>5, <1>6, HarmlessStep
<1> DEFINE m == Len(lines)
<1>8. m \in Nat /\ m >= 2
  BY LenProperties DEF GenInv, GenTypeOK, Layout, LoadsBase
<1>9. /\ (LoadsBase /\ StepsWellFormed)' /\ Len(lines') = m + 6
      /\ \A k \in 1 .. 6 : lines'[m + k] = new[k]
  BY <1>1, <1>5, <1>7, LayoutAppends
<1> HIDE DEF m
<1>10. EndsInLoop'
  <2>1. lines'[m + 3] = l3 /\ lines'[m + 4] = l4 /\ lines'[m + 5] = l5 /\ lines'[m + 6] = l6
    BY <1>5, <1>9
  <2>2. \A i \in m + 4 .. m + 6 : i \in {m + 4, m + 5, m + 6} BY <1>8
  <2>3. \A i \in m + 4 .. m + 6 :
          ~IsCode(lines'[i]) /\ (lines'[i].op = "label" => lines'[i].to = DataBase)
    BY <1>4, <2>1, <2>2
  <2>4. Len(lines') - 3 = m + 3 /\ m + 3 > 2 /\ (m + 3) + 1 = m + 4 /\ Len(lines') = m + 6
    BY <1>8, <1>9
  <2>5. /\ m + 3 > 2 /\ lines'[m + 3] = JalOp(0, Loop)
        /\ \A i \in (m + 3) + 1 .. Len(lines') :
             ~IsCode(lines'[i]) /\ (lines'[i].op = "label" => lines'[i].to = DataBase)
    BY <1>4, <2>1, <2>3, <2>4
  <2>6. /\ Len(lines') - 3 > 2 /\ lines'[Len(lines') - 3] = JalOp(0, Loop)
        /\ \A i \in (Len(lines') - 3) + 1 .. Len(lines') :
             ~IsCode(lines'[i]) /\ (lines'[i].op = "label" => lines'[i].to = DataBase)
    BY <2>4, <2>5
  <2> QED BY <2>6 DEF EndsInLoop, IsCode, JalOp, Line, Loop, DataBase
<1>11. Short'
  <2>1. /\ left \in Seq(Kinds) /\ Len(left) = 0
        /\ Len(lines) + 11 * Len(left) + 6 <= MaxLines(plan)
    BY <1>1, EmptySeq DEF Layout, Short
  <2>2. MaxLines(plan)' = MaxLines(plan) BY <1>1 DEF MaxLines
  <2>3. MaxLines(plan) \in Int
    BY RegistersAssumption, ProgramsFit, LenProperties DEF MaxLines, GenInv, GenTypeOK
  <2>4. Len(lines) = m BY DEF m
  <2> QED BY <1>1, <1>8, <1>9, <2>1, <2>2, <2>3, <2>4 DEF Short
<1> QED BY <1>9, <1>10, <1>11 DEF Layout

(* Every step of the generator keeps the layout, and it starts with it.    *)
LEMMA LayoutStep == GenInv /\ Layout /\ [GenNext]_genVars => Layout'
<1> SUFFICES ASSUME GenInv, Layout, [GenNext]_genVars PROVE Layout'
  OBVIOUS
<1>1. CASE EmitStep
  BY <1>1, PlainLayout, JumpLayout, JalrLayout, LoopLayout DEF EmitStep
<1>2. CASE Finish BY <1>2, FinishLayout
<1>3. CASE UNCHANGED genVars
  <2>1. lines' = lines /\ left' = left /\ written' = written /\ plan' = plan
    BY <1>3 DEF genVars
  <2> QED BY <2>1 DEF Layout, LoadsBase, StepsWellFormed, WellFormed, EndsInLoop, Short, MaxLines,
         JalrAt, Refers, LabelOps, BranchOps, Nowhere, IsCode, JalOp, ImmOp, Addi, Line, Loop, DataBase, JalrDistance
<1> QED BY <1>1, <1>2, <1>3 DEF GenNext

LEMMA LayoutStart == GenInit => Layout
<1> SUFFICES ASSUME GenInit PROVE Layout
  OBVIOUS
<1>1. /\ Len(lines) = 2 + NGeneral /\ NGeneral \in Nat /\ plan \in Plans
      /\ left = plan.kinds /\ written = FALSE
  BY InitLines, RegistersAssumption DEF GenInit
<1>2. LoadsBase BY <1>1, InitLines DEF LoadsBase
<1>3. StepsWellFormed
  <2> SUFFICES ASSUME NEW i \in 3 .. Len(lines) PROVE WellFormed(lines, i)
    BY DEF StepsWellFormed
  <2>1. PICK n \in Int : lines[i] = Addi(i - 2, 0, n) BY <1>1, InitLines
  <2>2. Harmless(Addi(i - 2, 0, n)) BY HarmlessImm DEF Addi
  <2> QED BY <2>1, <2>2 DEF Harmless, WellFormed
<1>4. EndsInLoop BY <1>1 DEF EndsInLoop
<1>5. Short
  <2>1. plan.kinds \in Seq(Kinds) BY <1>1, ProgramsFit
  <2>2. Len(plan.kinds) \in Nat BY <2>1, LenProperties
  <2> QED BY <1>1, <2>1, <2>2 DEF Short, MaxLines
<1> QED BY <1>2, <1>3, <1>4, <1>5 DEF Layout

-----------------------------------------------------------------------------
(* The assembled program: instructions have numbers, labels the number of  *)
(* the instruction behind them.                                            *)

(* How many instructions there are before a line.                          *)
LEMMA Counting ==
  ASSUME NEW i \in Nat
  PROVE  /\ InstructionsBefore(i) \in Nat
         /\ i >= 1 => InstructionsBefore(i) <= i - 1
         /\ IsFiniteSet({j \in 1 .. i - 1 : IsCode(lines[j])})
<1> DEFINE S == {j \in 1 .. i - 1 : IsCode(lines[j])}
<1>1. IsFiniteSet(1 .. i - 1) BY FS_Interval
<1>2. S \subseteq 1 .. i - 1 OBVIOUS
<1>3. IsFiniteSet(S) /\ Cardinality(S) <= Cardinality(1 .. i - 1)
  BY <1>1, <1>2, FS_Subset
<1>4. i >= 1 => Cardinality(1 .. i - 1) = i - 1 BY FS_Interval
<1>5. Cardinality(S) \in Nat BY <1>3, FS_CardinalityType
<1>6. InstructionsBefore(i) = Cardinality(S) BY DEF InstructionsBefore
<1> HIDE DEF S
<1> QED BY <1>3, <1>4, <1>5, <1>6 DEF S

(* A line counts for the lines behind it if it is an instruction.          *)
LEMMA CountNext ==
  ASSUME NEW i \in Nat \ {0}
  PROVE  InstructionsBefore(i + 1) =
           IF IsCode(lines[i]) THEN InstructionsBefore(i) + 1 ELSE InstructionsBefore(i)
<1> DEFINE S == {j \in 1 .. i - 1 : IsCode(lines[j])}
           T == {j \in 1 .. (i + 1) - 1 : IsCode(lines[j])}
<1>1. IsFiniteSet(S) BY Counting
<1>2. i \notin S OBVIOUS
<1>3. InstructionsBefore(i) = Cardinality(S) /\ InstructionsBefore(i + 1) = Cardinality(T)
  BY DEF InstructionsBefore
<1>4. IsCode(lines[i]) => T = S \cup {i} OBVIOUS
<1>5. ~IsCode(lines[i]) => T = S OBVIOUS
<1> HIDE DEF S, T
<1>6. Cardinality(S \cup {i}) = Cardinality(S) + 1 BY <1>1, <1>2, FS_AddElement
<1> QED BY <1>3, <1>4, <1>5, <1>6

LEMMA CountGrows ==
  ASSUME NEW i \in Nat, NEW j \in Nat, i <= j
  PROVE  InstructionsBefore(i) <= InstructionsBefore(j)
<1> DEFINE S == {k \in 1 .. i - 1 : IsCode(lines[k])}
           T == {k \in 1 .. j - 1 : IsCode(lines[k])}
<1>1. S \subseteq T OBVIOUS
<1>2. IsFiniteSet(T) BY Counting
<1>3. Cardinality(S) <= Cardinality(T) BY <1>1, <1>2, FS_Subset
<1> QED BY <1>3 DEF InstructionsBefore

(* An instruction has a number of its own.                                 *)
LEMMA OwnNumber ==
  ASSUME NEW i \in Nat \ {0}, NEW j \in Nat, IsCode(lines[i]), i < j
  PROVE  InstructionsBefore(i) < InstructionsBefore(j)
<1>1. InstructionsBefore(i + 1) <= InstructionsBefore(j) BY CountGrows
<1>2. InstructionsBefore(i + 1) = InstructionsBefore(i) + 1 BY CountNext
<1>3. InstructionsBefore(i) \in Nat /\ InstructionsBefore(j) \in Nat BY Counting
<1> QED BY <1>1, <1>2, <1>3

(* From a line i on, there is a first instruction, if there is one.        *)
LEMMA NextInstruction ==
  ASSUME NEW i \in Nat \ {0}, NEW m \in Nat, i <= m, IsCode(lines[m])
  PROVE  \E j \in i .. m :
           /\ IsCode(lines[j])
           /\ InstructionsBefore(j) = InstructionsBefore(i)
           /\ \A k \in i .. j - 1 : ~IsCode(lines[k])
<1> DEFINE P(j) == j \in i .. m /\ IsCode(lines[j])
           S == {j \in Nat : P(j)}
<1>1. m \in S OBVIOUS
<1>2. PICK j \in S : \A k \in S : j <= k
  <2>1. S \subseteq Nat /\ S # {} BY <1>1
  <2> HIDE DEF S
  <2> QED BY <2>1, LeastNumber
<1>3. \A k \in i .. j - 1 : ~IsCode(lines[k])
  <2> SUFFICES ASSUME NEW k \in i .. j - 1, IsCode(lines[k]) PROVE FALSE
    OBVIOUS
  <2>1. k \in S BY <1>2
  <2> QED BY <1>2, <2>1
<1>4. {k \in 1 .. j - 1 : IsCode(lines[k])} = {k \in 1 .. i - 1 : IsCode(lines[k])}
  BY <1>2, <1>3
<1>5. InstructionsBefore(j) = InstructionsBefore(i) BY <1>4 DEF InstructionsBefore
<1> QED BY <1>2, <1>3, <1>5

(* The image holds an instruction at its own address.                      *)
CodeLine(i) == i \in DOMAIN lines /\ IsCode(lines[i])

(* The line with the number of an instruction is its line.                 *)
LEMMA LineOfNumber ==
  ASSUME NEW i \in Nat, lines \in Seq(LineSet), CodeLine(i)
  PROVE  LineAt(InstructionsBefore(i)) = i
<1>1. DOMAIN lines = 1 .. Len(lines) BY LenProperties
<1> DEFINE Q(j) == j \in DOMAIN lines /\ IsCode(lines[j])
                   /\ InstructionsBefore(j) = InstructionsBefore(i)
           l == CHOOSE j \in DOMAIN lines : IsCode(lines[j]) /\
                                            InstructionsBefore(j) = InstructionsBefore(i)
<1>2. Q(i) BY DEF CodeLine
<1>3. Q(l) BY <1>2
<1>4. l = LineAt(InstructionsBefore(i)) BY DEF LineAt
<1> HIDE DEF l
<1>5. l \in Nat \ {0} /\ i \in Nat \ {0} /\ IsCode(lines[i]) /\ IsCode(lines[l])
  BY <1>1, <1>2, <1>3, LenProperties
<1>6. InstructionsBefore(i) \in Nat BY Counting
<1>7. ~(l < i) /\ ~(i < l) BY <1>3, <1>5, <1>6, OwnNumber
<1> QED BY <1>4, <1>5, <1>7

-----------------------------------------------------------------------------
LastJump == Len(lines) - 3

(* The finished program: every line before the terminal jump that is no    *)
(* jump is followed by an instruction.                                     *)
Complete == GenInv /\ Layout /\ written

(* Nothing but the data area lies behind the terminal jump.                *)
LEMMA TheEnd ==
  ASSUME Complete
  PROVE  /\ lines \in Seq(LineSet) /\ Len(lines) \in Nat /\ DOMAIN lines = 1 .. Len(lines)
         /\ LastJump \in Nat /\ LastJump > 2 /\ CodeLine(LastJump) /\ lines[LastJump] = JalOp(0, Loop)
         /\ \A i \in DOMAIN lines : CodeLine(i) => i <= LastJump
         /\ \A i \in LabelLines : lines[i].to # DataBase => i < LastJump
         /\ \A i \in LabelLines : i > 2
         /\ CodeLine(1) /\ CodeLine(2)
<1>1. /\ lines \in Seq(LineSet) /\ Len(lines) \in Nat /\ DOMAIN lines = 1 .. Len(lines)
  BY LenProperties DEF Complete, GenInv, GenTypeOK
<1>2. /\ LastJump > 2 /\ lines[LastJump] = JalOp(0, Loop)
      /\ \A i \in LastJump + 1 .. Len(lines) :
           ~IsCode(lines[i]) /\ (lines[i].op = "label" => lines[i].to = DataBase)
  BY DEF Complete, Layout, EndsInLoop, LastJump
<1>3. LastJump \in Nat /\ LastJump <= Len(lines) /\ LastJump \in DOMAIN lines BY <1>1, <1>2 DEF LastJump
<1>4. IsCode(lines[LastJump]) /\ lines[LastJump].op # "label"
  BY <1>2 DEF IsCode, JalOp, Line
<1>5. \A i \in DOMAIN lines : CodeLine(i) => i <= LastJump
  BY <1>1, <1>2, <1>3 DEF CodeLine
<1>6. \A i \in LabelLines : lines[i].to # DataBase => i < LastJump
  BY <1>1, <1>2, <1>3, <1>4 DEF LabelLines
<1>7. CodeLine(1) /\ CodeLine(2) /\ lines[1].op # "label" /\ lines[2].op # "label"
  <2>1. 1 \in DOMAIN lines /\ 2 \in DOMAIN lines BY <1>1, <1>2, <1>3
  <2>2. lines[1].op = "lui" /\ lines[2].op = "addi"
    BY DEF Complete, Layout, LoadsBase, Line
  <2> QED BY <2>1, <2>2 DEF CodeLine, IsCode
<1>8. \A i \in LabelLines : i > 2 BY <1>1, <1>7 DEF LabelLines
<1> QED BY <1>1, <1>2, <1>3, <1>4, <1>5, <1>6, <1>7, <1>8 DEF CodeLine

(* A computed jump has its neighbours, and is none of the first two lines. *)
LEMMA Shape ==
  ASSUME Complete, NEW i \in DOMAIN lines, lines[i].op = "jalr"
  PROVE  i > 2 /\ JalrAt(lines, i) /\ i \in Nat
<1>1. i \in 1 .. Len(lines) /\ Len(lines) \in Nat BY TheEnd
<1>2. lines[1].op = "lui" /\ lines[2].op = "addi"
  BY DEF Complete, Layout, LoadsBase, Line
<1>3. i # 1 /\ i # 2 BY <1>2
<1>4. i \in 3 .. Len(lines) BY <1>1, <1>3
<1> QED BY <1>1, <1>4 DEF Complete, Layout, StepsWellFormed, WellFormed

(* The address of a label is that of an instruction behind it, which is    *)
(* neither a computed jump nor the one before it.                          *)
LEMMA Landing ==
  ASSUME Complete, NEW p \in LabelLines, lines[p].to # DataBase
  PROVE  \E j \in Nat :
           /\ CodeLine(j) /\ j > p /\ j > 2
           /\ InstructionsBefore(j) = InstructionsBefore(p)
           /\ lines[j].op # "jalr"
           /\ j + 1 \in DOMAIN lines => lines[j + 1].op # "jalr"
<1>1. /\ Len(lines) \in Nat /\ DOMAIN lines = 1 .. Len(lines) /\ LastJump \in Nat
      /\ CodeLine(LastJump) /\ p < LastJump /\ p > 2
  BY TheEnd
<1>2. p \in Nat \ {0} /\ p \in DOMAIN lines /\ lines[p].op = "label"
  BY <1>1 DEF LabelLines
<1>3. PICK j \in p .. LastJump :
        /\ IsCode(lines[j])
        /\ InstructionsBefore(j) = InstructionsBefore(p)
        /\ \A k \in p .. j - 1 : ~IsCode(lines[k])
  BY <1>1, <1>2, NextInstruction DEF CodeLine
<1>4. ~IsCode(lines[p]) BY <1>2 DEF IsCode
<1>5. j \in Nat /\ j > p /\ CodeLine(j) BY <1>1, <1>2, <1>3, <1>4 DEF CodeLine
<1>6. \A n : IsCode(ImmOp("auipc", JALR_TMP, 0, 0)) /\ IsCode(Addi(JALR_TMP, JALR_TMP, n))
  BY DEF IsCode, ImmOp, Addi, Line
<1>7. ~IsCode(lines[j - 1]) BY <1>2, <1>3, <1>5
<1>8. lines[j].op # "jalr"
  BY <1>5, <1>6, <1>7, Shape DEF CodeLine, JalrAt
<1>9. ASSUME j + 1 \in DOMAIN lines, lines[j + 1].op = "jalr" PROVE FALSE
  <2>1. JalrAt(lines, j + 1) BY <1>9, Shape
  <2>2. (j + 1) - 2 = j - 1 BY <1>5
  <2>3. lines[j - 1] = ImmOp("auipc", JALR_TMP, 0, 0) BY <2>1, <2>2 DEF JalrAt
  <2> QED BY <1>6, <1>7, <2>3
<1>10. j > 2 BY <1>1, <1>2, <1>5
<1>11. InstructionsBefore(j) = InstructionsBefore(p) BY <1>3
<1> QED BY <1>5, <1>8, <1>9, <1>10, <1>11

(* What follows an instruction that is not the last one.                   *)
LEMMA Following ==
  ASSUME Complete, NEW i \in Nat, CodeLine(i), i # LastJump
  PROVE  \E j \in Nat :
           /\ CodeLine(j) /\ j > i
           /\ InstructionsBefore(j) = InstructionsBefore(i) + 1
           /\ i = 1 => j = 2
           /\ lines[j].op = "jalr" => j = i + 1
           /\ j + 1 \in DOMAIN lines /\ lines[j + 1].op = "jalr" => j = i + 1
<1>1. /\ Len(lines) \in Nat /\ DOMAIN lines = 1 .. Len(lines) /\ LastJump \in Nat
      /\ CodeLine(LastJump) /\ i <= LastJump
  BY TheEnd DEF CodeLine
<1>2. i \in Nat \ {0} /\ IsCode(lines[i]) BY <1>1 DEF CodeLine
<1>3. PICK j \in i + 1 .. LastJump :
        /\ IsCode(lines[j])
        /\ InstructionsBefore(j) = InstructionsBefore(i + 1)
        /\ \A k \in i + 1 .. j - 1 : ~IsCode(lines[k])
  <2>1. i + 1 \in Nat \ {0} /\ i + 1 <= LastJump BY <1>1, <1>2
  <2> QED BY <1>1, <2>1, NextInstruction DEF CodeLine
<1>4. j \in Nat /\ j > i /\ CodeLine(j) BY <1>1, <1>2, <1>3 DEF CodeLine
<1>5. InstructionsBefore(j) = InstructionsBefore(i) + 1 BY <1>2, <1>3, CountNext
<1>6. i = 1 => j = 2
  <2>1. IsCode(lines[2]) BY TheEnd DEF CodeLine
  <2> QED BY <1>3, <1>4, <2>1
<1>7. \A n : IsCode(ImmOp("auipc", JALR_TMP, 0, 0)) /\ IsCode(Addi(JALR_TMP, JALR_TMP, n))
  BY DEF IsCode, ImmOp, Addi, Line
<1>8. IsCode(lines[j - 1]) => j = i + 1 BY <1>2, <1>3, <1>4
<1>9. lines[j].op = "jalr" => j = i + 1
  BY <1>4, <1>7, <1>8, Shape DEF CodeLine, JalrAt
<1>10. ASSUME j + 1 \in DOMAIN lines, lines[j + 1].op = "jalr" PROVE j = i + 1
  <2>1. JalrAt(lines, j + 1) BY <1>10, Shape
  <2>2. (j + 1) - 2 = j - 1 BY <1>4
  <2>3. lines[j - 1] = ImmOp("auipc", JALR_TMP, 0, 0) BY <2>1, <2>2 DEF JalrAt
  <2> QED BY <1>7, <1>8, <2>3
<1> QED BY <1>4, <1>5, <1>6, <1>9, <1>10

-----------------------------------------------------------------------------
(* Addresses.                                                              *)
LEMMA Residue ==
  ASSUME NEW m \in Nat \ {0}, NEW x \in Int, NEW k \in Int, NEW r \in 0 .. m - 1,
         x = k * m + r
  PROVE  x % m = r
<1> DEFINE s == x \div m
           t == x % m
<1>1. s \in Int /\ t \in 0 .. m - 1 /\ x = m * s + t OBVIOUS
<1> HIDE DEF s, t
<1>2. \A d \in Nat : d > 0 => m * d >= m
  <2> SUFFICES ASSUME NEW d \in Nat, d > 0 PROVE m * d >= m
    OBVIOUS
  <2>1. PICK e \in Nat : d = e + 1
    <3>1. d - 1 \in Nat /\ d = (d - 1) + 1 OBVIOUS
    <3> QED BY <3>1
  <2>2. m * d = m * e + m /\ m * e >= 0 BY <2>1
  <2> QED BY <2>2
<1>3. ~(k > s)
  <2> SUFFICES ASSUME k > s PROVE FALSE
    OBVIOUS
  <2>1. k - s \in Nat /\ k - s > 0 BY <1>1
  <2>2. m * (k - s) >= m BY <1>2, <2>1
  <2>3. m * (k - s) = k * m - m * s BY <1>1
  <2> QED BY <1>1, <2>2, <2>3
<1>4. ~(s > k)
  <2> SUFFICES ASSUME s > k PROVE FALSE
    OBVIOUS
  <2>1. s - k \in Nat /\ s - k > 0 BY <1>1
  <2>2. m * (s - k) >= m BY <1>2, <2>1
  <2>3. m * (s - k) = m * s - k * m BY <1>1
  <2> QED BY <1>1, <2>2, <2>3
<1>5. k = s BY <1>1, <1>3, <1>4
<1>6. k * m = m * s BY <1>1, <1>5
<1>7. r = t BY <1>1, <1>6
<1> QED BY <1>7 DEF t

(* Sums may be reduced before or after.                                    *)
LEMMA SumOfResidues ==
  ASSUME NEW m \in Nat \ {0}, NEW a \in Int, NEW b \in Int
  PROVE  ((a % m) + (b % m)) % m = (a + b) % m
<1> DEFINE ra == a % m
           rb == b % m
           qa == a \div m
           qb == b \div m
           r == (ra + rb) % m
           q == (ra + rb) \div m
<1>1. /\ ra \in 0 .. m - 1 /\ qa \in Int /\ a = m * qa + ra
      /\ rb \in 0 .. m - 1 /\ qb \in Int /\ b = m * qb + rb
  OBVIOUS
<1> HIDE DEF ra, rb, qa, qb
<1>2. r \in 0 .. m - 1 /\ q \in Int /\ ra + rb = m * q + r BY <1>1
<1> HIDE DEF q, r
<1>3. (qa + qb + q) * m = m * qa + m * qb + m * q BY <1>1, <1>2
<1>4. a + b = (qa + qb + q) * m + r BY <1>1, <1>2, <1>3
<1>5. (a + b) % m = r
  <2>1. qa + qb + q \in Int /\ a + b \in Int BY <1>1, <1>2
  <2> QED BY <1>2, <1>4, <2>1, Residue
<1> QED BY <1>5 DEF r, ra, rb

(* A distance leads from where it is measured to where it was measured to. *)
LEMMA Distance ==
  ASSUME NEW m \in Nat \ {0}, NEW a \in 0 .. m - 1, NEW b \in 0 .. m - 1
  PROVE  LET d == (b - a) % m IN (IF a + d < m THEN a + d ELSE a + d - m) = b
<1>1. CASE b >= a
  <2>1. b - a = 0 * m + (b - a) /\ b - a \in 0 .. m - 1 BY <1>1
  <2>2. (b - a) % m = b - a BY <2>1, Residue
  <2> QED BY <1>1, <2>2
<1>2. CASE b < a
  <2>1. b - a = -1 * m + (b - a + m) /\ b - a + m \in 0 .. m - 1 BY <1>2
  <2>2. (b - a) % m = b - a + m BY <2>1, Residue
  <2> QED BY <1>2, <2>2
<1> QED BY <1>1, <1>2

LEMMA SmallResidue ==
  ASSUME NEW m \in Nat \ {0}, NEW a \in 0 .. m - 1
  PROVE  a % m = a
<1>1. a = 0 * m + a OBVIOUS
<1> QED BY <1>1, Residue

(* The program and the data area have addresses.                           *)
LEMMA Addresses ==
  ASSUME Complete
  PROVE  /\ WordSize \in Nat /\ RomWords \in Nat /\ WordSize > 0 /\ RomWords > 0
         /\ CodeEnd \in Nat /\ CodeEnd <= data_base
         /\ data_base \in Nat /\ data_base % 4 = 0
         /\ data_base + DataSize <= WordSize /\ data_base < WordSize /\ CodeEnd < WordSize
         /\ \A i \in Nat : CodeLine(i) =>
              /\ InstructionsBefore(i) \in 0 .. RomWords - 1
              /\ 4 * InstructionsBefore(i) + 4 <= CodeEnd
<1> DEFINE n == Len(lines)
           x == CodeEnd + DataSize - 1
           q == x \div DataSize
<1>1. lines \in Seq(LineSet) /\ n \in Nat /\ DOMAIN lines = 1 .. n BY TheEnd
<1>2. InstructionsBefore(n + 1) \in Nat /\ InstructionsBefore(n + 1) <= n
  <2>1. PICK k \in Nat : k = n + 1 BY <1>1
  <2>2. InstructionsBefore(k) \in Nat /\ (k >= 1 => InstructionsBefore(k) <= k - 1)
    BY Counting
  <2> QED BY <1>1, <2>1, <2>2
<1>3. /\ plan \in Plans /\ plan.kinds \in Seq(Kinds) /\ MaxLines(plan) <= RomWords
      /\ 4 * MaxLines(plan) + 2 * DataSize <= WordSize
      /\ WordSize \in Nat /\ RomWords \in Nat
  BY ProgramsFit DEF Complete, GenInv, GenTypeOK
<1>4. MaxLines(plan) \in Nat /\ MaxLines(plan) > 0
  <2>1. Len(plan.kinds) \in Nat /\ NGeneral \in Nat
    BY <1>3, RegistersAssumption, LenProperties
  <2>2. PICK k \in Nat : k = Len(plan.kinds) BY <2>1
  <2>3. MaxLines(plan) = 2 + NGeneral + 11 * k + 6 BY <2>2 DEF MaxLines
  <2>4. NGeneral \in Nat BY <2>1
  <2>5. 2 + NGeneral + 11 * k + 6 \in Nat /\ 2 + NGeneral + 11 * k + 6 > 0 BY <2>4
  <2> QED BY <2>3, <2>5
<1>5. n <= MaxLines(plan)
  <2>1. left \in Seq(Kinds) /\ n + 11 * Len(left) <= MaxLines(plan)
    BY <1>1 DEF Complete, Layout, Short
  <2>2. Len(left) \in Nat BY <2>1, LenProperties
  <2> QED BY <1>1, <1>4, <2>1, <2>2
<1>6. DataSize \in Nat \ {0} /\ DataSize % 4 = 0 BY DataSizeAssumption
<1>7. CodeEnd = 4 * InstructionsBefore(n + 1) BY DEF CodeEnd
<1>8. CodeEnd \in Nat /\ CodeEnd <= 4 * MaxLines(plan) BY <1>1, <1>2, <1>4, <1>5, <1>7
<1>9. x \in Nat BY <1>6, <1>8
<1>10. data_base = q * DataSize BY DEF data_base
<1>11. /\ q \in Nat /\ q * DataSize <= x /\ x < q * DataSize + DataSize
  <2>1. q \in Nat /\ (x % DataSize) \in 0 .. DataSize - 1 /\ x = DataSize * q + (x % DataSize)
    <3> HIDE DEF x
    <3> QED BY <1>6, <1>9
  <2> HIDE DEF q
  <2>2. DataSize * q = q * DataSize BY <1>6, <2>1
  <2> HIDE DEF x
  <2> QED BY <1>6, <1>9, <2>1, <2>2
<1>12. /\ data_base \in Nat /\ data_base <= x /\ x < data_base + DataSize
  BY <1>6, <1>10, <1>11
<1>13. data_base % 4 = 0
  <2>1. PICK e \in Int : DataSize = 4 * e
    <3>1. DataSize \div 4 \in Int /\ DataSize = 4 * (DataSize \div 4) BY <1>6
    <3> QED BY <3>1
  <2> HIDE DEF q
  <2>2. q * DataSize = (q * e) * 4 + 0 /\ q * e \in Int BY <1>11, <2>1
  <2> QED BY <1>10, <1>12, <2>2, Residue
<1>14. /\ CodeEnd <= data_base /\ data_base + DataSize <= WordSize /\ data_base < WordSize
       /\ CodeEnd < WordSize
  BY <1>3, <1>4, <1>6, <1>8, <1>12
<1>15. WordSize > 0 /\ RomWords > 0 BY <1>3, <1>4, <1>6
<1>16. ASSUME NEW i \in Nat, CodeLine(i)
       PROVE  /\ InstructionsBefore(i) \in 0 .. RomWords - 1
              /\ 4 * InstructionsBefore(i) + 4 <= CodeEnd
  <2>1. i \in Nat \ {0} /\ IsCode(lines[i]) /\ i < n + 1 BY <1>1, <1>16 DEF CodeLine
  <2>2. InstructionsBefore(i) < InstructionsBefore(n + 1) BY <1>1, <2>1, OwnNumber
  <2>3. InstructionsBefore(i) \in Nat BY Counting
  <2> QED BY <1>1, <1>2, <1>3, <1>4, <1>5, <1>7, <2>2, <2>3
<1> QED BY <1>3, <1>8, <1>12, <1>13, <1>14, <1>15, <1>16

(* The two parts that lui and addi load add up to the address.             *)
LEMMA HiAndLo ==
  ASSUME Complete
  PROVE  /\ Hi(data_base) \in Int /\ Lo(data_base) \in Int
         /\ ((Hi(data_base) % WordSize) + (Lo(data_base) % WordSize)) % WordSize = data_base
<1>1. data_base \in 0 .. WordSize - 1 /\ WordSize \in Nat \ {0} BY Addresses
<1> DEFINE h == Hi(data_base)
           l == Lo(data_base)
<1>2. h \in Int
  <2> DEFINE p == (data_base + ImmSize \div 2) \div ImmSize
  <2>1. p \in Int BY <1>1, ImmSizeAssumption
  <2>2. h = p * ImmSize BY DEF Hi
  <2> HIDE DEF p
  <2> QED BY <2>1, <2>2, ImmSizeAssumption
<1>3. l = data_base - h BY DEF Lo
<1> HIDE DEF h, l
<1>4. l \in Int /\ h + l = data_base BY <1>1, <1>2, <1>3
<1>5. ((h % WordSize) + (l % WordSize)) % WordSize = (h + l) % WordSize
  BY <1>1, <1>2, <1>4, SumOfResidues
<1>6. data_base % WordSize = data_base BY <1>1, SmallResidue
<1> QED BY <1>2, <1>4, <1>5, <1>6 DEF h, l

-----------------------------------------------------------------------------
(* The words of the program.                                               *)
CodeOps == ImmOps \cup ShiftOps \cup RegOps \cup UpperOps \cup BranchOps
             \cup LoadOps \cup StoreOps \cup {"jal", "jalr"}

(* Operations and opcodes determine each other.                            *)
LEMMA Opcodes ==
  /\ \A op \in ImmOps \cup ShiftOps : OpcodeOf(op) = "ALUI"
  /\ \A op \in RegOps : OpcodeOf(op) = "ALUR"
  /\ \A op \in LoadOps : OpcodeOf(op) = "LOAD"
  /\ \A op \in StoreOps : OpcodeOf(op) = "STORE"
  /\ \A op \in BranchOps : OpcodeOf(op) = "BRANCH"
  /\ OpcodeOf("jal") = "JAL" /\ OpcodeOf("jalr") = "JALR"
  /\ OpcodeOf("lui") = "LUI" /\ OpcodeOf("auipc") = "AUIPC"
<1>1. \A op \in ImmOps \cup ShiftOps : OpcodeOf(op) = "ALUI"
  BY DEF OpcodeOf, ImmOps, ShiftOps
<1>2. \A op \in RegOps : OpcodeOf(op) = "ALUR" BY DEF OpcodeOf, RegOps
<1>3. \A op \in LoadOps : OpcodeOf(op) = "LOAD" BY DEF OpcodeOf, LoadOps
<1>4. \A op \in StoreOps : OpcodeOf(op) = "STORE" BY DEF OpcodeOf, StoreOps
<1>5. \A op \in BranchOps : OpcodeOf(op) = "BRANCH" BY DEF OpcodeOf, BranchOps
<1>6. OpcodeOf("jal") = "JAL" /\ OpcodeOf("jalr") = "JALR" BY DEF OpcodeOf
<1>7. OpcodeOf("lui") = "LUI" /\ OpcodeOf("auipc") = "AUIPC" BY DEF OpcodeOf
<1> QED BY <1>1, <1>2, <1>3, <1>4, <1>5, <1>6, <1>7

LEMMA OpcodeIs ==
  ASSUME NEW op \in CodeOps
  PROVE  /\ OpcodeOf(op) = "BRANCH" => op \in BranchOps
         /\ OpcodeOf(op) = "JAL" => op = "jal"
         /\ OpcodeOf(op) = "JALR" => op = "jalr"
         /\ OpcodeOf(op) \in {"LOAD", "STORE"} => op \in LoadOps \cup StoreOps
  BY Opcodes DEF CodeOps, UpperOps

(* The width of an access is that of its operation.                        *)
LEMMA AccessWidth ==
  ASSUME NEW op \in LoadOps \cup StoreOps
  PROVE  Width(Funct3(op)) = Bytes(op)
<1>1. CASE op \in {"lb", "sb"} BY <1>1 DEF Width, Funct3, Bytes
<1>2. CASE op \in {"lh", "sh"} BY <1>2 DEF Width, Funct3, Bytes
<1>3. CASE op \in {"lw", "sw"} BY <1>3 DEF Width, Funct3, Bytes
<1>4. CASE op = "lbu" BY <1>4 DEF Width, Funct3, Bytes
<1>5. CASE op = "lhu" BY <1>5 DEF Width, Funct3, Bytes
<1> QED BY <1>1, <1>2, <1>3, <1>4, <1>5 DEF LoadOps, StoreOps

(* The fields of an instruction.                                           *)
LEMMA CodeLineType ==
  ASSUME Complete, NEW i \in Nat, CodeLine(i)
  PROVE  /\ lines[i] \in LineSet /\ lines[i].op \in CodeOps
         /\ lines[i].rd \in 0 .. BASE_REG /\ lines[i].rs1 \in 0 .. BASE_REG
<1>1. lines \in Seq(LineSet) /\ i \in DOMAIN lines BY TheEnd DEF CodeLine
<1>2. lines[i] \in LineSet BY <1>1
<1>3. lines[i].op \in Ops BY <1>2 DEF LineSet
<1> QED BY <1>2, <1>3 DEF LineSet, CodeLine, IsCode, Ops, CodeOps

(* The instruction at the address of a line.                               *)
LEMMA Fetched ==
  ASSUME Complete, NEW i \in Nat, CodeLine(i), pc = 4 * InstructionsBefore(i),
         NEW pad, rom = Image(pad)
  PROVE  Isa32!inst = Encode(lines[i], pc)
<1> DEFINE k == InstructionsBefore(i)
<1>1. /\ k \in 0 .. RomWords - 1 /\ 4 * k + 4 <= CodeEnd /\ RomWords \in Nat
      /\ CodeEnd \in Nat
  BY Addresses
<1>2. LineAt(k) = i BY TheEnd, LineOfNumber
<1>3. pc = 4 * k OBVIOUS
<1> HIDE DEF k
<1>4. Image(pad)[k] = Encode(lines[i], 4 * k)
  BY <1>1, <1>2 DEF Image
<1>5. (pc \div 4) % RomWords = k
  <2>1. pc \div 4 = k BY <1>1, <1>3
  <2> QED BY <1>1, <2>1, SmallResidue
<1> QED BY <1>3, <1>4, <1>5 DEF Isa32!inst, Isa32!RomAt

LEMMA Fields ==
  ASSUME Complete, NEW i \in Nat, CodeLine(i), pc = 4 * InstructionsBefore(i),
         NEW pad, rom = Image(pad)
  PROVE  /\ Isa32!inst.opcode = OpcodeOf(lines[i].op)
         /\ Isa32!inst.funct3 = Funct3(lines[i].op)
         /\ Isa32!inst.funct7b5 = (lines[i].op \in {"sub", "sra", "srai"})
         /\ Isa32!inst.rd = lines[i].rd /\ Isa32!inst.rs1 = lines[i].rs1
         /\ Isa32!inst.imm = Immediate(lines[i], pc) % WordSize
<1>1. Isa32!inst = Encode(lines[i], pc) BY Fetched
<1> QED BY <1>1 DEF Encode

-----------------------------------------------------------------------------
(* The machine at an instruction: the base register holds the address of   *)
(* the data area, or will, and before a computed jump its register holds   *)
(* the address to jump to, or will.                                        *)
SettledAt(p, rs, i) ==
  /\ CodeLine(i)
  /\ p = 4 * InstructionsBefore(i)
  /\ i = 2 => rs[BASE_REG] = Hi(data_base) % WordSize
  /\ i > 2 => rs[BASE_REG] = data_base
  /\ lines[i].op = "jalr" => rs[JALR_TMP] = p + 8
  /\ i + 1 \in DOMAIN lines /\ lines[i + 1].op = "jalr" => rs[JALR_TMP] = p - 4

MachineInv ==
  /\ regs = [r \in 0 .. BASE_REG |-> regs[r]]
  /\ ~Assembled => pc = 0
  /\ Assembled => /\ written
                  /\ \E pad \in Paddings : rom = Image(pad)
                  /\ \E i \in Nat : SettledAt(pc, regs, i)

RunInv == GenInv /\ Layout /\ MachineInv

(* The next instruction.                                                   *)
LEMMA GoesOn ==
  ASSUME Complete, NEW i \in Nat, SettledAt(pc, regs, i), i # LastJump, NEW rs,
         i = 1 => rs[BASE_REG] = Hi(data_base) % WordSize,
         i = 2 => rs[BASE_REG] = data_base,
         i > 2 => rs[BASE_REG] = regs[BASE_REG],
         lines[i] = ImmOp("auipc", JALR_TMP, 0, 0) => rs[JALR_TMP] = pc,
         lines[i] = Addi(JALR_TMP, JALR_TMP, JalrDistance) /\ regs[JALR_TMP] = pc - 4
           /\ pc + 12 < WordSize => rs[JALR_TMP] = pc + 12
  PROVE  \E j \in Nat : SettledAt(pc + 4, rs, j)
<1>1. CodeLine(i) /\ pc = 4 * InstructionsBefore(i) BY DEF SettledAt
<1>2. PICK j \in Nat :
        /\ CodeLine(j) /\ j > i
        /\ InstructionsBefore(j) = InstructionsBefore(i) + 1
        /\ i = 1 => j = 2
        /\ lines[j].op = "jalr" => j = i + 1
        /\ j + 1 \in DOMAIN lines /\ lines[j + 1].op = "jalr" => j = i + 1
  BY <1>1, Following
<1>3. InstructionsBefore(i) \in Nat BY Counting
<1>4. i # 0 BY <1>1, TheEnd DEF CodeLine
<1>5. pc + 4 = 4 * InstructionsBefore(j) BY <1>1, <1>2, <1>3
<1>6. j = 2 => i = 1 BY <1>2, <1>4
<1>7. j > 2 => i >= 2 BY <1>2, <1>4
<1>8. i > 2 => regs[BASE_REG] = data_base BY DEF SettledAt
<1>9. j > 2 => rs[BASE_REG] = data_base BY <1>7, <1>8
<1>10. ASSUME lines[j].op = "jalr" PROVE rs[JALR_TMP] = (pc + 4) + 8
  <2>1. j = i + 1 /\ j \in DOMAIN lines BY <1>2, <1>10 DEF CodeLine
  <2>2. JalrAt(lines, j) BY <2>1, <1>10, Shape
  <2>3. j - 1 = i BY <2>1
  <2>4. lines[i] = Addi(JALR_TMP, JALR_TMP, JalrDistance) BY <2>2, <2>3 DEF JalrAt
  <2>5. regs[JALR_TMP] = pc - 4 BY <1>10, <2>1 DEF SettledAt
  <2>6. pc + 12 < WordSize
    <3>1. CodeLine(j + 1) BY <2>2, TheEnd DEF JalrAt, CodeLine
    <3>2. InstructionsBefore(j + 1) = InstructionsBefore(j) + 1
      <4>1. j \in Nat \ {0} /\ IsCode(lines[j]) BY <1>2
             DEF CodeLine
      <4> QED BY <4>1, CountNext
    <3>3. j + 1 \in Nat OBVIOUS
    <3>4. 4 * InstructionsBefore(j + 1) + 4 <= CodeEnd BY <3>1, <3>3, Addresses
    <3>5. CodeEnd < WordSize /\ CodeEnd \in Nat /\ WordSize \in Nat BY Addresses
    <3> QED BY <1>1, <1>2, <1>3, <3>2, <3>4, <3>5
  <2>7. rs[JALR_TMP] = pc + 12 BY <2>4, <2>5, <2>6
  <2> QED BY <1>1, <1>3, <2>7
<1>11. ASSUME j + 1 \in DOMAIN lines, lines[j + 1].op = "jalr"
       PROVE  rs[JALR_TMP] = (pc + 4) - 4
  <2>1. j = i + 1 BY <1>2, <1>11
  <2>2. JalrAt(lines, j + 1) BY <1>11, Shape
  <2>3. (j + 1) - 2 = i BY <2>1
  <2>4. lines[i] = ImmOp("auipc", JALR_TMP, 0, 0) BY <2>2, <2>3 DEF JalrAt
  <2> QED BY <1>1, <1>3, <2>4
<1>12. SettledAt(pc + 4, rs, j)
  BY <1>2, <1>5, <1>6, <1>9, <1>10, <1>11 DEF SettledAt
<1> QED BY <1>12

(* The instruction at a label.                                             *)
LEMMA Jumps ==
  ASSUME Complete, NEW p \in LabelLines, lines[p].to # DataBase, NEW rs,
         rs[BASE_REG] = data_base
  PROVE  \E j \in Nat : SettledAt(4 * InstructionsBefore(p), rs, j)
<1>1. PICK j \in Nat :
        /\ CodeLine(j) /\ j > p /\ j > 2
        /\ InstructionsBefore(j) = InstructionsBefore(p)
        /\ lines[j].op # "jalr"
        /\ j + 1 \in DOMAIN lines => lines[j + 1].op # "jalr"
  BY Landing
<1>2. j # 2 BY <1>1
<1>3. SettledAt(4 * InstructionsBefore(p), rs, j) BY <1>1, <1>2 DEF SettledAt
<1> QED BY <1>3

(* What every instruction does to the registers and the program counter.   *)
Loads(rs, v) == regs' = IF rs = 0 THEN regs ELSE [regs EXCEPT ![rs] = v]

(* No step does more than one of these.                                    *)
LEMMA Effects ==
  ASSUME Execute
  PROVE  /\ Assembled /\ UNCHANGED <<genVars, rom>> /\ pc' = Isa32!NextPc
         /\ regs' = regs \/ \E v : Loads(Isa32!inst.rd, v)
         /\ Isa32!inst.opcode = "LUI" => Loads(Isa32!inst.rd, Isa32!inst.imm)
         /\ Isa32!inst.opcode = "AUIPC" =>
              Loads(Isa32!inst.rd, Isa32!Adder32(pc, Isa32!inst.imm))
         /\ Isa32!inst.opcode = "ALUI" =>
              Loads(Isa32!inst.rd,
                    Alu(Isa32!Operation, regs[Isa32!inst.rs1], Isa32!inst.imm))
<1> USE DEF Execute, Isa32!SetReg, Loads
<1>1. CASE Isa32!AluReg BY <1>1 DEF Isa32!AluReg
<1>2. CASE Isa32!AluImm BY <1>2 DEF Isa32!AluImm
<1>3. CASE Isa32!Lui BY <1>3 DEF Isa32!Lui
<1>4. CASE Isa32!Auipc BY <1>4 DEF Isa32!Auipc
<1>5. CASE Isa32!Load BY <1>5 DEF Isa32!Load
<1>6. CASE Isa32!Store BY <1>6 DEF Isa32!Store
<1>7. CASE Isa32!Branch BY <1>7 DEF Isa32!Branch
<1>8. CASE Isa32!Jal BY <1>8 DEF Isa32!Jal
<1>9. CASE Isa32!Jalr BY <1>9 DEF Isa32!Jalr
<1> QED BY <1>1, <1>2, <1>3, <1>4, <1>5, <1>6, <1>7, <1>8, <1>9

-----------------------------------------------------------------------------
(* Where the machine goes.                                                 *)
FirstOps == {"lui", "addi"}

(* What is known of an instruction by its place.                           *)
LEMMA LineKinds ==
  ASSUME Complete, NEW i \in Nat, CodeLine(i)
  PROVE  /\ i <= 2 => lines[i].op \in FirstOps
         /\ i > 2 => /\ lines[i].rd # BASE_REG /\ Refers(lines[i]) /\ Confined(lines[i])
         /\ i = LastJump => lines[i].op = "jal"
         /\ i \in DOMAIN lines \ LabelLines
<1>1. i \in 1 .. Len(lines) /\ i \in DOMAIN lines /\ Len(lines) \in Nat
  BY TheEnd DEF CodeLine
<1>2. lines[1].op = "lui" /\ lines[2].op = "addi"
  BY DEF Complete, Layout, LoadsBase, Line
<1>3. i <= 2 => lines[i].op \in FirstOps
  <2>1. i <= 2 => i \in {1, 2} BY <1>1
  <2> QED BY <1>2, <2>1 DEF FirstOps
<1>4. ASSUME i > 2 PROVE lines[i].rd # BASE_REG /\ Refers(lines[i]) /\ Confined(lines[i])
  <2>1. Confined(lines[i]) BY <1>1, <1>4 DEF Complete, GenInv, AccessesConfined
  <2>2. i \in 3 .. Len(lines) BY <1>1, <1>4
  <2>3. Refers(lines[i])
    BY <2>2 DEF Complete, Layout, StepsWellFormed, WellFormed
  <2> QED BY <2>1, <2>3 DEF Confined
<1>5. i = LastJump => lines[i].op = "jal" BY TheEnd DEF JalOp, Line
<1>6. i \notin LabelLines BY DEF LabelLines, CodeLine, IsCode
<1> QED BY <1>1, <1>3, <1>4, <1>5, <1>6

(* A jump or branch to a label.                                            *)
LEMMA LabelAddress ==
  ASSUME Complete, NEW i \in Nat, CodeLine(i), lines[i].op \in LabelOps
  PROVE  /\ i > 2
         /\ \E p \in LabelLines : /\ lines[p].to # DataBase
                                  /\ AddressOf(lines[i].to) = 4 * InstructionsBefore(p)
<1>1. i > 2 BY LineKinds DEF LabelOps, BranchOps, FirstOps
<1>2. lines[i].to \notin {Nowhere, DataBase} /\ i \in DOMAIN lines \ LabelLines
  BY <1>1, LineKinds DEF Refers, LabelOps, BranchOps
<1>3. lines[i].to \in References BY <1>2 DEF References
<1>4. lines[i].to \in Labels BY <1>2, <1>3 DEF Complete, GenInv, Resolved
<1> DEFINE p == CHOOSE j \in LabelsAt(lines[i].to) : TRUE
<1>5. LabelsAt(lines[i].to) # {} BY <1>4 DEF Labels, LabelsAt
<1>6. p \in LabelsAt(lines[i].to) BY <1>5
<1>7. AddressOf(lines[i].to) = 4 * InstructionsBefore(p) BY <1>2 DEF AddressOf
<1> HIDE DEF p
<1>8. p \in LabelLines /\ lines[p].to = lines[i].to BY <1>6 DEF LabelsAt
<1> QED BY <1>1, <1>2, <1>7, <1>8

(* An instruction is followed by the next one or by that at a label.       *)
LEMMA Target ==
  ASSUME Complete, NEW i \in Nat, SettledAt(pc, regs, i), NEW pad, rom = Image(pad)
  PROVE  /\ \/ Isa32!NextPc = pc + 4 /\ i # LastJump
            \/ /\ i > 2
               /\ \E p \in LabelLines : /\ lines[p].to # DataBase
                                       /\ Isa32!NextPc = 4 * InstructionsBefore(p)
         /\ Isa32!inst.opcode = "JALR" =>
              /\ lines[i].op = "jalr" /\ Isa32!NextPc = 4 * InstructionsBefore(i + 2)
              /\ 4 * InstructionsBefore(i + 2) > pc
<1> DEFINE op == lines[i].op
<1>1. CodeLine(i) /\ pc = 4 * InstructionsBefore(i) BY DEF SettledAt
<1>2. /\ op \in CodeOps /\ Isa32!inst.opcode = OpcodeOf(op)
      /\ Isa32!inst.rs1 = lines[i].rs1
      /\ Isa32!inst.imm = Immediate(lines[i], pc) % WordSize
  BY <1>1, CodeLineType, Fields
<1>3. /\ WordSize \in Nat /\ CodeEnd \in Nat /\ CodeEnd < WordSize /\ pc \in Nat
      /\ pc + 4 <= CodeEnd
  <2>1. InstructionsBefore(i) \in Nat BY Counting
  <2> QED BY <1>1, <2>1, Addresses
<1>4. Isa32!Adder32(pc, 4) = pc + 4 BY <1>3 DEF Isa32!Adder32
<1>5. CASE op \in LabelOps
  <2>1. PICK p \in LabelLines : /\ lines[p].to # DataBase
                                /\ AddressOf(lines[i].to) = 4 * InstructionsBefore(p)
    BY <1>1, <1>5, LabelAddress
  <2>2. i > 2 BY <1>1, <1>5, LabelAddress
  <2> DEFINE a == 4 * InstructionsBefore(p)
  <2>3. a \in 0 .. WordSize - 1
    <3>1. PICK j \in Nat : CodeLine(j) /\ InstructionsBefore(j) = InstructionsBefore(p)
      BY <2>1, Landing
    <3>2. a + 4 <= CodeEnd /\ InstructionsBefore(p) \in Nat
      BY <3>1, Addresses, Counting
    <3> QED BY <1>3, <3>2
  <2>4. Immediate(lines[i], pc) = a - pc
    <3>1. lines[i].to \notin {Nowhere, DataBase}
      BY <1>1, <1>5, <2>2, LineKinds DEF Refers, LabelOps, BranchOps
    <3> QED BY <2>1, <3>1 DEF Immediate
  <2> HIDE DEF a
  <2>5. Isa32!Adder32(pc, Isa32!inst.imm) = a
    <3>1. WordSize \in Nat \ {0} /\ pc \in 0 .. WordSize - 1 BY <1>3
    <3>2. Isa32!inst.imm = (a - pc) % WordSize BY <1>2, <2>4
    <3> QED BY <2>3, <3>1, <3>2, Distance DEF Isa32!Adder32
  <2>6. CASE op = "jal"
    <3>1. Isa32!inst.opcode = "JAL" BY <1>2, <2>6, Opcodes
    <3>2. Isa32!NextPc = a BY <2>5, <3>1 DEF Isa32!NextPc
    <3> QED BY <2>1, <2>2, <3>1, <3>2 DEF a
  <2>7. CASE op \in BranchOps
    <3>1. Isa32!inst.opcode = "BRANCH" BY <1>2, <2>7, Opcodes
    <3>2. Isa32!NextPc \in {a, pc + 4} BY <1>4, <2>5, <3>1 DEF Isa32!NextPc
    <3>3. i # LastJump BY <1>1, <2>7, LineKinds DEF BranchOps
    <3> QED BY <2>1, <2>2, <3>1, <3>2, <3>3 DEF a
  <2> QED BY <1>5, <2>6, <2>7 DEF LabelOps
<1>6. CASE op = "jalr"
  <2>1. JalrAt(lines, i) /\ i > 2 BY <1>1, <1>6, Shape DEF CodeLine
  <2>2. lines[i].rs1 = JALR_TMP /\ lines[i].imm = 0 BY <2>1 DEF JalrAt
  <2>3. regs[JALR_TMP] = pc + 8 BY <1>6 DEF SettledAt
  <2>4. lines[i].to = Nowhere
    BY <1>1, <1>6, <2>1, LineKinds DEF Refers, LabelOps, BranchOps
  <2>5. Isa32!inst.imm = 0
    <3>1. Immediate(lines[i], pc) = 0
      <4>1. Nowhere # DataBase BY DEF Nowhere, DataBase
      <4>2. lines[i].op \notin {"lui", "auipc"} BY <1>6
      <4> HIDE DEF op
      <4> QED BY <2>2, <2>4, <4>1, <4>2 DEF Immediate
    <3> QED BY <1>2, <1>3, <3>1, SmallResidue
  <2>6. InstructionsBefore(i + 2) = InstructionsBefore(i) + 2
    <3>1. IsCode(lines[i]) /\ IsCode(lines[i + 1]) BY <1>1, <2>1 DEF CodeLine, JalrAt
    <3>2. i \in Nat \ {0} /\ i + 1 \in Nat \ {0} /\ (i + 1) + 1 = i + 2 BY <2>1
    <3>3. InstructionsBefore(i) \in Nat BY Counting
    <3>4. InstructionsBefore(i + 1) = InstructionsBefore(i) + 1 BY <3>1, <3>2, CountNext
    <3>5. InstructionsBefore((i + 1) + 1) = InstructionsBefore(i + 1) + 1
      BY <3>1, <3>2, CountNext
    <3> QED BY <3>2, <3>3, <3>4, <3>5
  <2>7. i + 2 \in LabelLines /\ lines[i + 2].to # DataBase
    <3>1. i + 2 \in DOMAIN lines BY <2>1, TheEnd DEF JalrAt
    <3>2. lines[i + 2].op = "label" /\ lines[i + 2].to[1] = "jalr" BY <2>1 DEF JalrAt
    <3> QED BY <3>1, <3>2 DEF LabelLines, DataBase
  <2>8. /\ InstructionsBefore(i) \in Nat /\ 4 * InstructionsBefore(i + 2) = pc + 8
        /\ pc + 8 < WordSize
    <3>1. PICK j \in Nat : CodeLine(j) /\ InstructionsBefore(j) = InstructionsBefore(i + 2)
      BY <2>7, Landing
    <3>2. 4 * InstructionsBefore(i + 2) + 4 <= CodeEnd BY <3>1, Addresses
    <3>3. InstructionsBefore(i) \in Nat BY Counting
    <3> QED BY <1>1, <1>3, <2>6, <3>2, <3>3
  <2>9. Isa32!inst.opcode = "JALR" BY <1>2, <1>6, Opcodes
  <2>10. Isa32!NextPc = pc + 8
    <3>1. Isa32!Adder32(regs[Isa32!inst.rs1], Isa32!inst.imm) = pc + 8
      BY <1>2, <1>3, <2>2, <2>3, <2>5, <2>8 DEF Isa32!Adder32
    <3>2. Isa32!ClearBit0(pc + 8) = pc + 8
      <4>1. PICK k \in Nat : pc + 8 = 4 * k
        <5>1. InstructionsBefore(i + 2) \in Nat BY <2>6, <2>8
        <5> QED BY <2>8, <5>1
      <4>2. (pc + 8) % 2 = 0 BY <4>1
      <4> QED BY <1>3, <4>2 DEF Isa32!ClearBit0
    <3>3. Isa32!NextPc = Isa32!ClearBit0(Isa32!Adder32(regs[Isa32!inst.rs1], Isa32!inst.imm))
      BY <2>9 DEF Isa32!NextPc
    <3> QED BY <3>1, <3>2, <3>3
  <2>11. 4 * InstructionsBefore(i + 2) > pc BY <1>3, <2>8
  <2> QED BY <1>6, <2>1, <2>7, <2>8, <2>10, <2>11
<1>7. CASE op \notin LabelOps \cup {"jalr"}
  <2>1. Isa32!inst.opcode \notin {"BRANCH", "JAL", "JALR"}
    BY <1>2, <1>7, OpcodeIs DEF LabelOps
  <2>2. Isa32!NextPc = pc + 4 BY <1>4, <2>1 DEF Isa32!NextPc
  <2>3. i # LastJump BY <1>1, <1>7, LineKinds DEF LabelOps
  <2> QED BY <2>1, <2>2, <2>3
<1> QED BY <1>5, <1>6, <1>7

(* What the registers hold afterwards.                                     *)
LEMMA RegistersAfter ==
  ASSUME Complete, NEW i \in Nat, SettledAt(pc, regs, i), NEW pad, rom = Image(pad),
         regs = [r \in 0 .. BASE_REG |-> regs[r]], Execute
  PROVE  /\ regs' = [r \in 0 .. BASE_REG |-> regs'[r]]
         /\ i > 2 => regs'[BASE_REG] = regs[BASE_REG]
         /\ i = 1 => regs'[BASE_REG] = Hi(data_base) % WordSize
         /\ i = 2 => regs'[BASE_REG] = data_base
         /\ lines[i] = ImmOp("auipc", JALR_TMP, 0, 0) => regs'[JALR_TMP] = pc
         /\ lines[i] = Addi(JALR_TMP, JALR_TMP, JalrDistance) /\ regs[JALR_TMP] = pc - 4
              /\ pc + 12 < WordSize
              => regs'[JALR_TMP] = pc + 12
<1> DEFINE rd == lines[i].rd
<1>1. CodeLine(i) /\ pc = 4 * InstructionsBefore(i) BY DEF SettledAt
<1>2. /\ rd \in 0 .. BASE_REG /\ Isa32!inst.rd = rd /\ Isa32!inst.rs1 = lines[i].rs1
      /\ Isa32!inst.opcode = OpcodeOf(lines[i].op)
      /\ Isa32!inst.funct3 = Funct3(lines[i].op)
      /\ Isa32!inst.imm = Immediate(lines[i], pc) % WordSize
  BY <1>1, CodeLineType, Fields
<1>3. /\ regs' = regs \/ \E v : Loads(rd, v)
  BY <1>2, Effects
<1>4. \A v : Loads(rd, v) =>
        /\ regs' = [r \in 0 .. BASE_REG |-> regs'[r]]
        /\ rd # 0 => regs'[rd] = v
        /\ \A r \in 0 .. BASE_REG : r # rd => regs'[r] = regs[r]
  BY <1>2 DEF Loads
<1>5. BASE_REG \in 0 .. BASE_REG /\ BASE_REG # 0 /\ JALR_TMP \in 0 .. BASE_REG /\ JALR_TMP # 0
  BY RegistersAssumption, Registers DEF GENERAL_REGS
<1>6. WordSize \in Nat \ {0} /\ data_base \in 0 .. WordSize - 1 /\ pc \in 0 .. WordSize - 1
  <2>1. InstructionsBefore(i) \in Nat BY Counting
  <2> QED BY <1>1, <2>1, Addresses
<1>7. regs' = [r \in 0 .. BASE_REG |-> regs'[r]] BY <1>3, <1>4
<1>8. i > 2 => regs'[BASE_REG] = regs[BASE_REG]
  BY <1>1, <1>3, <1>4, <1>5, LineKinds
<1>9. ASSUME i = 1 PROVE regs'[BASE_REG] = Hi(data_base) % WordSize
  <2>1. lines[i] = Line("lui", BASE_REG, 0, 0, 0, DataBase)
    BY <1>9 DEF Complete, Layout, LoadsBase
  <2>2. lines[i].op = "lui" /\ rd = BASE_REG /\ lines[i].to = DataBase BY <2>1 DEF Line
  <2>3. Immediate(lines[i], pc) = Hi(data_base)
    <3>1. Nowhere # DataBase BY DEF Nowhere, DataBase
    <3> QED BY <2>2, <3>1 DEF Immediate
  <2>4. Isa32!inst.opcode = "LUI" BY <1>2, <2>2, Opcodes
  <2>5. Loads(rd, Isa32!inst.imm) BY <1>2, <2>4, Effects
  <2> QED BY <1>2, <1>4, <1>5, <2>2, <2>3, <2>5
<1>10. ASSUME NEW a, NEW b, lines[i].op = "addi", regs[lines[i].rs1] = a,
              Isa32!inst.imm = b, a \in 0 .. WordSize - 1, b \in 0 .. WordSize - 1
       PROVE  Loads(rd, (a + b) % WordSize)
  <2>1. Isa32!inst.opcode = "ALUI"
    BY <1>2, <1>10, Opcodes DEF ImmOps
  <2>2. Isa32!inst.funct3 = 0 BY <1>2, <1>10 DEF Funct3
  <2>3. Isa32!Operation = 0 BY <2>1, <2>2 DEF Isa32!Operation, Isa32!ALU_OP_ADD
  <2>4. Loads(rd, Alu(Isa32!Operation, regs[Isa32!inst.rs1], Isa32!inst.imm))
    BY <1>2, <2>1, Effects
  <2>5. Alu(0, a, b) = (a + b) % WordSize BY <1>10, AddAssumption
  <2> QED BY <1>2, <1>10, <2>3, <2>4, <2>5
<1>11. ASSUME i = 2 PROVE regs'[BASE_REG] = data_base
  <2>1. lines[i] = Line("addi", BASE_REG, BASE_REG, 0, 0, DataBase)
    BY <1>11 DEF Complete, Layout, LoadsBase
  <2>2. /\ lines[i].op = "addi" /\ rd = BASE_REG /\ lines[i].to = DataBase
        /\ lines[i].rs1 = BASE_REG
    BY <2>1 DEF Line
  <2>3. Immediate(lines[i], pc) = Lo(data_base)
    <3>1. Nowhere # DataBase BY DEF Nowhere, DataBase
    <3> QED BY <2>2, <3>1 DEF Immediate
  <2> DEFINE a == Hi(data_base) % WordSize
             b == Lo(data_base) % WordSize
  <2>4. regs[BASE_REG] = a BY <1>11 DEF SettledAt
  <2>5. a \in 0 .. WordSize - 1 /\ b \in 0 .. WordSize - 1 BY <1>6, HiAndLo
  <2>6. (a + b) % WordSize = data_base BY HiAndLo
  <2>7. Isa32!inst.imm = b BY <1>2, <2>3
  <2> HIDE DEF a, b
  <2>8. Loads(rd, (a + b) % WordSize) BY <1>10, <2>2, <2>4, <2>5, <2>7
  <2> QED BY <1>4, <1>5, <2>2, <2>6, <2>8
<1>12. ASSUME lines[i] = ImmOp("auipc", JALR_TMP, 0, 0) PROVE regs'[JALR_TMP] = pc
  <2>1. /\ lines[i].op = "auipc" /\ rd = JALR_TMP /\ lines[i].to = Nowhere
        /\ lines[i].imm = 0
    BY <1>12 DEF ImmOp, Line
  <2>2. Immediate(lines[i], pc) = 0
    <3>1. Nowhere # DataBase BY DEF Nowhere, DataBase
    <3>2. 0 * ImmSize = 0 BY ImmSizeAssumption
    <3> QED BY <2>1, <3>1, <3>2 DEF Immediate
  <2>3. Isa32!inst.imm = 0 BY <1>2, <1>6, <2>2, SmallResidue
  <2>4. Isa32!Adder32(pc, Isa32!inst.imm) = pc BY <1>6, <2>3 DEF Isa32!Adder32
  <2>5. Isa32!inst.opcode = "AUIPC" BY <1>2, <2>1, Opcodes
  <2>6. Loads(rd, pc) BY <1>2, <2>4, <2>5, Effects
  <2> QED BY <1>4, <1>5, <2>1, <2>6
<1>13. ASSUME lines[i] = Addi(JALR_TMP, JALR_TMP, JalrDistance), regs[JALR_TMP] = pc - 4,
              pc + 12 < WordSize
       PROVE  regs'[JALR_TMP] = pc + 12
  <2>1. /\ lines[i].op = "addi" /\ rd = JALR_TMP /\ lines[i].rs1 = JALR_TMP
        /\ lines[i].to = Nowhere /\ lines[i].imm = 16
    BY <1>13 DEF Addi, ImmOp, Line, JalrDistance
  <2>2. Immediate(lines[i], pc) = 16
    <3>1. Nowhere # DataBase BY DEF Nowhere, DataBase
    <3> QED BY <2>1, <3>1 DEF Immediate
  <2>3. pc >= 4
    <3>1. i # 1
      <4>1. lines[1].op = "lui" BY DEF Complete, Layout, LoadsBase, Line
      <4> QED BY <2>1, <4>1
    <3>2. i \in Nat \ {0} /\ CodeLine(1) BY <1>1, TheEnd DEF CodeLine
    <3>3. InstructionsBefore(1) < InstructionsBefore(i)
      BY <3>1, <3>2, OwnNumber DEF CodeLine
    <3>4. InstructionsBefore(1) \in Nat /\ InstructionsBefore(i) \in Nat BY Counting
    <3> QED BY <1>1, <3>3, <3>4
  <2>4. pc - 4 \in 0 .. WordSize - 1 /\ 16 \in 0 .. WordSize - 1
    BY <1>6, <1>13, <2>3
  <2>5. Isa32!inst.imm = 16 BY <1>2, <1>6, <2>2, <2>4, SmallResidue
  <2>6. Loads(rd, ((pc - 4) + 16) % WordSize)
    <3>1. regs[lines[i].rs1] = pc - 4 BY <1>13, <2>1
    <3> QED BY <1>10, <2>1, <2>4, <2>5, <3>1
  <2>7. ((pc - 4) + 16) % WordSize = pc + 12
    <3>1. (pc - 4) + 16 = pc + 12 /\ pc + 12 \in 0 .. WordSize - 1 BY <1>6, <1>13
    <3> QED BY <1>6, <3>1, SmallResidue
  <2> QED BY <1>4, <1>5, <2>1, <2>6, <2>7
<1> QED BY <1>7, <1>8, <1>9, <1>11, <1>12, <1>13

(* The machine stays settled, from the first instruction on.               *)
LEMMA ExecuteKeeps ==
  ASSUME GenInv, Layout, MachineInv, Execute
  PROVE  MachineInv'
<1>1. Assembled /\ UNCHANGED <<genVars, rom>> /\ pc' = Isa32!NextPc BY Effects
<1>2. Complete BY <1>1 DEF MachineInv, Complete
<1>3. PICK pad \in Paddings : rom = Image(pad) BY <1>1 DEF MachineInv
<1>4. PICK i \in Nat : SettledAt(pc, regs, i) BY <1>1 DEF MachineInv
<1>5. regs = [r \in 0 .. BASE_REG |-> regs[r]] BY DEF MachineInv
<1>6. CodeLine(i) /\ pc = 4 * InstructionsBefore(i) BY <1>4 DEF SettledAt
<1>7. /\ regs' = [r \in 0 .. BASE_REG |-> regs'[r]]
      /\ i > 2 => regs'[BASE_REG] = regs[BASE_REG]
      /\ i = 1 => regs'[BASE_REG] = Hi(data_base) % WordSize
      /\ i = 2 => regs'[BASE_REG] = data_base
      /\ lines[i] = ImmOp("auipc", JALR_TMP, 0, 0) => regs'[JALR_TMP] = pc
      /\ lines[i] = Addi(JALR_TMP, JALR_TMP, JalrDistance) /\ regs[JALR_TMP] = pc - 4
           /\ pc + 12 < WordSize
           => regs'[JALR_TMP] = pc + 12
  BY <1>2, <1>3, <1>4, <1>5, RegistersAfter
<1>8. \/ pc' = pc + 4 /\ i # LastJump
      \/ /\ i > 2
         /\ \E p \in LabelLines : /\ lines[p].to # DataBase
                                 /\ pc' = 4 * InstructionsBefore(p)
  BY <1>1, <1>2, <1>3, <1>4, Target
<1>9. \E j \in Nat : SettledAt(pc', regs', j)
  <2>1. CASE pc' = pc + 4 /\ i # LastJump
    BY <1>2, <1>4, <1>7, <2>1, GoesOn
  <2>2. ASSUME i > 2, NEW p \in LabelLines, lines[p].to # DataBase,
               pc' = 4 * InstructionsBefore(p)
        PROVE  \E j \in Nat : SettledAt(pc', regs', j)
    <3>1. regs'[BASE_REG] = data_base BY <1>4, <1>7, <2>2 DEF SettledAt
    <3> QED BY <1>2, <2>2, <3>1, Jumps
  <2> QED BY <1>8, <2>1, <2>2
<1>10. lines' = lines /\ written' = written /\ rom' = rom BY <1>1 DEF genVars
<1>11. \A j : SettledAt(pc, regs, j)' <=> SettledAt(pc', regs', j)
  BY <1>10 DEF SettledAt, CodeLine, IsCode, InstructionsBefore, Hi, data_base, CodeEnd
<1>12. Image(pad)' = Image(pad)
  BY <1>10
     DEF Image, CodeEnd, InstructionsBefore, LineAt, IsCode, Encode, data_base, Immediate,
         AddressOf, LabelsAt, LabelLines, Hi, Lo, OpcodeOf, Funct3, Nowhere, DataBase
<1>13. Assembled' BY <1>1, <1>10 DEF Assembled
<1>14. written BY <1>2 DEF Complete
<1> QED BY <1>3, <1>7, <1>9, <1>10, <1>11, <1>12, <1>13, <1>14 DEF MachineInv

LEMMA AssembleKeeps ==
  ASSUME GenInv, Layout, MachineInv, Assemble
  PROVE  MachineInv'
<1>1. /\ written /\ ~Assembled /\ lines' = lines /\ written' = written
      /\ pc' = pc /\ regs' = regs
  BY DEF Assemble, Assembled, genVars
<1>2. Complete BY <1>1 DEF Complete
<1>3. PICK pad \in Paddings : rom' = Image(pad) BY DEF Assemble
<1>4. pc = 0 BY <1>1 DEF MachineInv
<1>5. SettledAt(pc, regs, 1)
  <2>1. CodeLine(1) BY <1>2, TheEnd
  <2>2. InstructionsBefore(1) = 0
    <3>1. PICK one \in Nat : one = 1 OBVIOUS
    <3>2. InstructionsBefore(one) \in Nat /\ (one >= 1 => InstructionsBefore(one) <= one - 1)
      BY Counting
    <3> QED BY <3>1, <3>2
  <2>3. lines[1].op = "lui" /\ lines[2].op = "addi"
    BY <1>2 DEF Complete, Layout, LoadsBase, Line
  <2> QED BY <1>4, <2>1, <2>2, <2>3 DEF SettledAt
<1>6. SettledAt(pc, regs, 1)'
  BY <1>1, <1>5 DEF SettledAt, CodeLine, IsCode, InstructionsBefore, Hi, data_base, CodeEnd
<1>7. Image(pad)' = Image(pad)
  BY <1>1
     DEF Image, CodeEnd, InstructionsBefore, LineAt, IsCode, Encode, data_base, Immediate,
         AddressOf, LabelsAt, LabelLines, Hi, Lo, OpcodeOf, Funct3, Nowhere, DataBase
<1>8. rom' = Image(pad)' BY <1>3, <1>7
<1>9. \E j \in Nat : SettledAt(pc, regs, j)' BY <1>6
<1> QED BY <1>1, <1>3, <1>4, <1>8, <1>9 DEF MachineInv, Assembled

LEMMA RunStart == RunInit => RunInv
<1> SUFFICES ASSUME RunInit PROVE RunInv
  OBVIOUS
<1>1. GenInv /\ Layout BY GenStart, LayoutStart DEF RunInit
<1>2. ~Assembled /\ pc = 0 /\ regs = [r \in 0 .. BASE_REG |-> 0]
  BY DEF RunInit, Assembled
<1>3. MachineInv BY <1>2 DEF MachineInv
<1> QED BY <1>1, <1>3 DEF RunInv

LEMMA RunStep == RunInv /\ [RunNext]_runVars => RunInv'
<1> SUFFICES ASSUME RunInv, [RunNext]_runVars PROVE RunInv'
  OBVIOUS
<1>1. GenInv /\ Layout /\ MachineInv BY DEF RunInv
<1>2. CASE Generate
  <2>1. (GenInv /\ Layout)' BY <1>1, <1>2, GenStep, LayoutStep DEF Generate
  <2>2. ~written BY <1>1, <1>2
        DEF Generate, GenNext, EmitStep, Finish, GenInv, AllWritten, GenTypeOK
  <2>3. ~Assembled /\ UNCHANGED machine BY <1>1, <1>2, <2>2 DEF MachineInv, Generate
  <2>4. MachineInv' BY <1>1, <2>3 DEF MachineInv, Assembled, machine
  <2> QED BY <2>1, <2>4 DEF RunInv
<1>3. ASSUME UNCHANGED genVars PROVE (GenInv /\ Layout)'
  BY <1>1, <1>3, GenStep, LayoutStep
<1>4. CASE Assemble
  <2>1. UNCHANGED genVars BY <1>4 DEF Assemble
  <2> QED BY <1>1, <1>3, <1>4, <2>1, AssembleKeeps DEF RunInv
<1>5. CASE Execute
  <2>1. UNCHANGED genVars BY <1>5 DEF Execute
  <2> QED BY <1>1, <1>3, <1>5, <2>1, ExecuteKeeps DEF RunInv
<1>6. CASE UNCHANGED runVars
  <2>1. UNCHANGED <<genVars, machine>> BY <1>6 DEF runVars
  <2>2. lines' = lines /\ written' = written /\ rom' = rom /\ pc' = pc /\ regs' = regs
    BY <2>1 DEF genVars, machine
  <2>3. \A j : SettledAt(pc, regs, j)' <=> SettledAt(pc, regs, j)
    BY <2>2 DEF SettledAt, CodeLine, IsCode, InstructionsBefore, Hi, data_base, CodeEnd
  <2>4. \A pad \in Paddings : Image(pad)' = Image(pad)
    BY <2>2
       DEF Image, CodeEnd, InstructionsBefore, LineAt, IsCode, Encode, data_base, Immediate,
           AddressOf, LabelsAt, LabelLines, Hi, Lo, OpcodeOf, Funct3, Nowhere, DataBase
  <2>5. MachineInv' BY <1>1, <2>2, <2>3, <2>4 DEF MachineInv, Assembled
  <2> QED BY <1>3, <2>1, <2>5 DEF RunInv
<1> QED BY <1>2, <1>4, <1>5, <1>6 DEF RunNext

(* The inductive invariant of a program that is written, assembled, run:   *)
(* the generator's, the layout of the lines, and the settled machine.      *)
THEOREM RunInductive == RunSpec => []RunInv
  BY RunStart, RunStep, PTL DEF RunSpec

-----------------------------------------------------------------------------
(* An aligned offset into an aligned area.                                 *)
LEMMA AlignedAccess ==
  ASSUME NEW b \in Nat, b % 4 = 0, NEW off \in Nat, NEW w \in {1, 2, 4}, off % w = 0
  PROVE  (b + off) % w = 0
<1>1. CASE w = 4 BY <1>1
<1>2. CASE w = 2 BY <1>2
<1>3. CASE w = 1 BY <1>3
<1> QED BY <1>1, <1>2, <1>3

(* Every access of every generated program goes to the data area, aligned, *)
(* however long the program is and wherever the area lies.                 *)
THEOREM AccessesInArea == RunSpec => []AccessInArea
<1>1. ASSUME RunInv, Assembled, Isa32!inst.opcode \in {"LOAD", "STORE"}
      PROVE  LET address == (regs[Isa32!inst.rs1] + Isa32!inst.imm) % WordSize
                 width   == Width(Isa32!inst.funct3)
             IN /\ address >= data_base
                /\ address + width <= data_base + DataSize
                /\ address % width = 0
  <2>1. GenInv /\ Layout /\ MachineInv BY <1>1 DEF RunInv
  <2>2. Complete BY <1>1, <2>1 DEF MachineInv, Complete
  <2>3. PICK pad \in Paddings : rom = Image(pad) BY <1>1, <2>1 DEF MachineInv
  <2>4. PICK i \in Nat : SettledAt(pc, regs, i) BY <1>1, <2>1 DEF MachineInv
  <2>5. CodeLine(i) /\ pc = 4 * InstructionsBefore(i) BY <2>4 DEF SettledAt
  <2> DEFINE op == lines[i].op
             off == lines[i].imm
  <2>6. /\ op \in CodeOps /\ Isa32!inst.opcode = OpcodeOf(op)
        /\ Isa32!inst.rs1 = lines[i].rs1 /\ Isa32!inst.funct3 = Funct3(op)
        /\ Isa32!inst.imm = Immediate(lines[i], pc) % WordSize
    BY <2>2, <2>3, <2>5, CodeLineType, Fields
  <2>7. op \in LoadOps \cup StoreOps BY <1>1, <2>6, OpcodeIs
  <2>8. i > 2 BY <2>2, <2>5, <2>7, LineKinds DEF FirstOps, LoadOps, StoreOps
  <2>9. Confined(lines[i]) /\ Refers(lines[i]) BY <2>2, <2>5, <2>8, LineKinds
  <2>10. /\ lines[i].rs1 = BASE_REG /\ off \in 0 .. DataSize - Bytes(op)
         /\ off % Bytes(op) = 0
    BY <2>7, <2>9 DEF Confined
  <2>11. regs[BASE_REG] = data_base BY <2>4, <2>8 DEF SettledAt
  <2>12. /\ WordSize \in Nat /\ data_base \in Nat /\ data_base % 4 = 0
         /\ data_base + DataSize <= WordSize /\ DataSize \in Nat
    BY <2>2, Addresses, DataSizeAssumption
  <2>13. Bytes(op) \in {1, 2, 4} BY DEF Bytes
  <2>14. op \notin {"lui", "auipc"} \cup LabelOps /\ op # "label"
    BY <2>7 DEF LoadOps, StoreOps, LabelOps, BranchOps
  <2>15. lines[i].to = Nowhere BY <2>9, <2>14 DEF Refers
  <2>16. Immediate(lines[i], pc) = off
    <3>1. Nowhere # DataBase BY DEF Nowhere, DataBase
    <3> QED BY <2>14, <2>15, <3>1 DEF Immediate
  <2>17. Width(Isa32!inst.funct3) = Bytes(op) BY <2>6, <2>7, AccessWidth
  <2>18. Isa32!inst.rs1 = BASE_REG BY <2>6, <2>10
  <2> HIDE DEF op, off
  <2> DEFINE w == Bytes(op)
  <2>19. w \in {1, 2, 4} /\ off \in 0 .. DataSize - w /\ off % w = 0 BY <2>10, <2>13
  <2> HIDE DEF w
  <2>20. off \in Nat /\ off + w <= DataSize /\ w > 0 BY <2>12, <2>19
  <2>21. off % WordSize = off /\ (data_base + off) % WordSize = data_base + off
    <3>1. \A b, d, n, o \in Nat : \A z \in {1, 2, 4} :
            b + d <= n /\ o + z <= d => o \in 0 .. n - 1 /\ b + o \in 0 .. n - 1
      OBVIOUS
    <3>2. WordSize \in Nat \ {0} BY <2>12, Addresses, <2>2
    <3>3. off \in 0 .. WordSize - 1 /\ data_base + off \in 0 .. WordSize - 1
      BY <2>12, <2>19, <2>20, <3>1
    <3> QED BY <3>2, <3>3, SmallResidue
  <2>22. Isa32!inst.imm = off BY <2>6, <2>16, <2>21
  <2>23. (regs[Isa32!inst.rs1] + Isa32!inst.imm) % WordSize = data_base + off
    BY <2>11, <2>18, <2>21, <2>22
  <2>24. (data_base + off) % w = 0 BY <2>12, <2>19, <2>20, AlignedAccess
  <2>25. Width(Isa32!inst.funct3) = w BY <2>17 DEF w
  <2>26. /\ data_base + off >= data_base
         /\ (data_base + off) + w <= data_base + DataSize
    <3>1. \A b, d, o \in Nat : \A z \in {1, 2, 4} :
            o + z <= d => b + o >= b /\ (b + o) + z <= b + d
      OBVIOUS
    <3> QED BY <2>12, <2>19, <2>20, <3>1
  <2> QED BY <2>23, <2>24, <2>25, <2>26
<1>2. RunInv => AccessInArea BY <1>1 DEF AccessInArea
<1> QED BY <1>2, RunInductive, PTL

-----------------------------------------------------------------------------
(* The label of a computed jump, and the labels behind it.                 *)
LEMMA AddressOfLabel ==
  ASSUME Complete, NEW p \in LabelLines, lines[p].to # DataBase
  PROVE  AddressOf(lines[p].to) = 4 * InstructionsBefore(p)
<1> DEFINE q == CHOOSE i \in LabelsAt(lines[p].to) : TRUE
<1>1. p \in LabelsAt(lines[p].to) BY DEF LabelsAt
<1>2. q \in LabelsAt(lines[p].to) BY <1>1
<1>3. AddressOf(lines[p].to) = 4 * InstructionsBefore(q) BY DEF AddressOf
<1> HIDE DEF q
<1>4. q \in LabelLines /\ lines[q].to = lines[p].to BY <1>2 DEF LabelsAt
<1>5. q = p BY <1>4 DEF Complete, GenInv, Apart
<1> QED BY <1>3, <1>5

LEMMA LabelOfJump ==
  ASSUME Complete, NEW i \in Nat, CodeLine(i), lines[i].op = "jalr"
  PROVE  /\ i + 2 \in LabelLines /\ lines[i + 2].to[1] = "jalr"
         /\ AddressOf(lines[i + 2].to) = 4 * InstructionsBefore(i + 2)
<1>1. JalrAt(lines, i) /\ i > 2 BY Shape DEF CodeLine
<1>2. i + 2 \in DOMAIN lines BY <1>1, TheEnd DEF JalrAt
<1>3. i + 2 \in LabelLines /\ lines[i + 2].to[1] = "jalr"
  BY <1>1, <1>2 DEF JalrAt, LabelLines
<1>4. lines[i + 2].to # DataBase BY <1>3 DEF DataBase
<1> QED BY <1>3, <1>4, AddressOfLabel

LEMMA LabelsBehind ==
  ASSUME Complete, NEW i \in Nat, CodeLine(i), lines[i].op = "jalr",
         NEW p \in LabelLines, InstructionsBefore(p) > InstructionsBefore(i)
  PROVE  InstructionsBefore(p) >= InstructionsBefore(i + 2)
<1>1. JalrAt(lines, i) /\ i > 2 BY Shape DEF CodeLine
<1>2. p \in Nat /\ ~IsCode(lines[p]) BY TheEnd DEF LabelLines, IsCode
<1>3. p # i /\ p # i + 1 BY <1>1, <1>2 DEF JalrAt, CodeLine
<1>4. InstructionsBefore(p) \in Nat /\ InstructionsBefore(i) \in Nat
  BY <1>2, Counting
<1>5. ~(p <= i) BY <1>2, <1>4, CountGrows
<1>6. i + 2 \in Nat /\ i + 2 <= p BY <1>2, <1>3, <1>5
<1>7. PICK k \in Nat : k = i + 2 BY <1>6
<1>8. InstructionsBefore(k) <= InstructionsBefore(p) BY <1>2, <1>6, <1>7, CountGrows
<1>9. InstructionsBefore(k) \in Nat BY Counting
<1> QED BY <1>4, <1>7, <1>8, <1>9

(* The least of the labels behind a computed jump is its own.              *)
LEMMA NearestLabel ==
  ASSUME Complete, NEW i \in Nat, CodeLine(i), lines[i].op = "jalr",
         pc = 4 * InstructionsBefore(i), 4 * InstructionsBefore(i + 2) > pc
  PROVE  4 * InstructionsBefore(i + 2) = Min({a \in JalrLabels : a > pc})
<1> DEFINE t == 4 * InstructionsBefore(i + 2)
           S == {a \in JalrLabels : a > pc}
<1>1. InstructionsBefore(i) \in Nat /\ InstructionsBefore(i + 2) \in Nat
  <2>1. PICK k \in Nat : k = i + 2 OBVIOUS
  <2>2. InstructionsBefore(i) \in Nat /\ InstructionsBefore(k) \in Nat BY Counting
  <2> QED BY <2>1, <2>2
<1>2. t \in S
  <2>1. /\ i + 2 \in DOMAIN lines /\ lines[i + 2].op = "label"
        /\ lines[i + 2].to[1] = "jalr" /\ AddressOf(lines[i + 2].to) = t
    BY LabelOfJump DEF LabelLines
  <2>2. t \in JalrLabels BY <2>1 DEF JalrLabels
  <2> QED BY <2>2
<1>3. ASSUME NEW a \in S PROVE t <= a /\ a \in Nat
  <2>1. a \in JalrLabels /\ a > pc BY <1>3
  <2>2. PICK p \in LabelLines : lines[p].to[1] = "jalr" /\ a = AddressOf(lines[p].to)
    BY <2>1 DEF JalrLabels, LabelLines
  <2>3. lines[p].to # DataBase BY <2>2 DEF DataBase
  <2>4. a = 4 * InstructionsBefore(p) BY <2>2, <2>3, AddressOfLabel
  <2>5. p \in Nat BY TheEnd DEF LabelLines
  <2>6. InstructionsBefore(p) \in Nat BY <2>5, Counting
  <2>7. InstructionsBefore(p) > InstructionsBefore(i) BY <1>1, <2>1, <2>4, <2>6
  <2>8. InstructionsBefore(p) >= InstructionsBefore(i + 2) BY <2>7, LabelsBehind
  <2> QED BY <1>1, <2>4, <2>6, <2>8
<1>4. t \in Nat BY <1>1
<1> HIDE DEF t, S
<1>5. \A x \in S : (\A y \in S : x <= y) => x = t
  <2> SUFFICES ASSUME NEW x \in S, \A y \in S : x <= y PROVE x = t
    OBVIOUS
  <2>1. x <= t /\ t <= x /\ x \in Nat BY <1>2, <1>3
  <2> QED BY <1>4, <2>1
<1>6. Min(S) = t
  <2>1. \E x \in S : \A y \in S : x <= y BY <1>2, <1>3
  <2>2. Min(S) \in S /\ \A y \in S : Min(S) <= y BY <2>1 DEF Min
  <2> QED BY <1>5, <2>2
<1> QED BY <1>6 DEF t, S

(* Every computed jump of every generated program lands on the label of    *)
(* its own step: the nearest label of a computed jump behind it.           *)
THEOREM ComputedJumpsLand == RunSpec => JalrLands
<1>1. ASSUME RunInv, [RunNext]_runVars
      PROVE  [Assembled /\ Isa32!inst.opcode = "JALR" =>
                pc' = Min({a \in JalrLabels : a > pc})]_runVars
  <2> SUFFICES ASSUME RunNext, Assembled, Isa32!inst.opcode = "JALR"
               PROVE  pc' = Min({a \in JalrLabels : a > pc})
    BY <1>1
  <2>1. GenInv /\ Layout /\ MachineInv BY <1>1 DEF RunInv
  <2>2. Complete BY <2>1 DEF MachineInv, Complete
  <2>3. ~Generate BY <2>2 DEF Generate, GenNext, EmitStep, Finish, Complete, GenInv,
                              AllWritten, GenTypeOK
  <2>4. ~Assemble BY DEF Assemble, Assembled
  <2>5. Execute BY <2>3, <2>4 DEF RunNext
  <2>6. pc' = Isa32!NextPc BY <2>5, Effects
  <2>7. PICK pad \in Paddings : rom = Image(pad) BY <2>1 DEF MachineInv
  <2>8. PICK i \in Nat : SettledAt(pc, regs, i) BY <2>1 DEF MachineInv
  <2>9. CodeLine(i) /\ pc = 4 * InstructionsBefore(i) BY <2>8 DEF SettledAt
  <2>10. /\ lines[i].op = "jalr" /\ Isa32!NextPc = 4 * InstructionsBefore(i + 2)
         /\ 4 * InstructionsBefore(i + 2) > pc
    BY <2>2, <2>7, <2>8, Target
  <2> QED BY <2>2, <2>6, <2>9, <2>10, NearestLabel
<1>2. RunInv /\ [RunNext]_runVars =>
        [Assembled /\ Isa32!inst.opcode = "JALR" =>
           pc' = Min({a \in JalrLabels : a > pc})]_runVars
  BY <1>1
<1> QED BY <1>2, RunInductive, PTL DEF RunSpec, JalrLands

-----------------------------------------------------------------------------
(* The runner: its inductive invariant.                                    *)
At == {"prepare", "launch", "throttle", "wait", "drain", "wait_at_end",
       "collect", "summary", "end"}
Status == [is : {"none", "PASS", "FAIL"}, run : Nat]

States == {"none"} \cup Live \cup Ended

RunnerTypeOK ==
  /\ at \in At
  /\ idx \in 0 .. MaxCases
  /\ failed \in BOOLEAN
  /\ shown \in Cases \cup {NoCase}
  /\ exit \in {NoExit, 0, 1}
  /\ run \in Runs
  /\ reaped \subseteq Cases
  /\ job \in [Runs -> [Cases -> States]]
  /\ statusFile \in [Cases -> Status]
  /\ dir \subseteq Cases
  /\ mismatch \in [Runs -> [Cases -> BOOLEAN]]

(* The jobs of this run are those before idx, and no later run has any.    *)
JobsAreLaunched ==
  /\ \A r \in Runs, i \in Cases :
       r > run \/ (r = run /\ i >= idx) => job[r][i] = "none"
  /\ \A i \in Cases : i < idx => job[run][i] # "none"
  /\ idx <= FUZZ_LOOPS[run]
  /\ at = "prepare" => idx = 0

(* A job is started only after a count that left room for it.              *)
RoomForOne ==
  /\ Cardinality(Running) <= FUZZ_JOBS[run]
  /\ at = "launch" => Cardinality(Running) < FUZZ_JOBS[run]

(* The script goes on to the status files when no job of this run is left. *)
AllOver ==
  /\ at \in {"drain", "wait_at_end", "collect", "summary"} => idx = FUZZ_LOOPS[run]
  /\ at \in {"collect", "summary", "end"} => Running = {}
  /\ at # "end" => exit = NoExit

(* A mismatch is on file, unless a job of another run wrote over it.       *)
MismatchOnFile ==
  \A r \in Runs, i \in Cases :
    mismatch[r][i] =>
      /\ job[r][i] = "exit_1"
      /\ statusFile[i].run = r => statusFile[i].is = "FAIL"

RunnerInv ==
  /\ RunnerTypeOK /\ JobsAreLaunched /\ RoomForOne /\ AllOver /\ MismatchOnFile

(* The first run has the status files and the directories for itself.      *)
FirstRun ==
  run = 1 =>
    /\ \A i \in Cases :
         /\ job[1][i] \in {"generated", "tested", "passed"} => i \in dir
         /\ statusFile[i].is = "FAIL" => job[1][i] = "exit_1" /\ i \in dir
         /\ mismatch[1][i] => statusFile[i].is = "FAIL"
         /\ at = "summary" => ~mismatch[1][i]
         /\ at = "end" /\ mismatch[1][i] =>
              exit = 1 /\ shown # NoCase /\ statusFile[shown].is = "FAIL"

-----------------------------------------------------------------------------
(* Facts about the sets of cases.                                          *)
LEMMA Sizes ==
  /\ MaxRuns \in Nat \ {0} /\ MaxCases \in Nat
  /\ \A r \in Runs : /\ FUZZ_LOOPS[r] \in 0 .. MaxCases
                     /\ FUZZ_JOBS[r] \in Nat \ {0}
  BY RunsAssumption, CasesAssumption, LoopsAssumption, JobsAssumption

LEMMA FiniteCases == IsFiniteSet(Cases)
  BY Sizes, FS_Interval DEF Cases

LEMMA CardinalityMonotone ==
  ASSUME NEW S \in SUBSET Cases, NEW T \in SUBSET S
  PROVE  /\ IsFiniteSet(S) /\ IsFiniteSet(T)
         /\ Cardinality(S) \in Nat /\ Cardinality(T) \in Nat
         /\ Cardinality(T) <= Cardinality(S)
<1>1. IsFiniteSet(S) BY FiniteCases, FS_Subset
<1>2. IsFiniteSet(T) /\ Cardinality(T) <= Cardinality(S) BY <1>1, FS_Subset
<1> QED BY <1>1, <1>2, FS_CardinalityType

(* The failure that is shown is the first one of the list.                 *)
LEMMA FirstFailure ==
  FailList # {} =>
    LET first == CHOOSE i \in FailList : \A j \in FailList : i <= j
    IN first \in FailList /\ first \in Cases
<1> SUFFICES ASSUME FailList # {}
             PROVE  \E i \in FailList : \A j \in FailList : i <= j
  BY DEF FailList
<1>1. FailList \subseteq Nat BY Sizes DEF FailList, Cases
<1> QED BY <1>1, LeastNumber

(* One job changes its state or its mark.                                  *)
LEMMA UpdateOne ==
  ASSUME NEW S, NEW f \in [Runs -> [Cases -> S]],
         NEW r \in Runs, NEW i \in Cases, NEW v \in S
  PROVE  LET g == [f EXCEPT ![r][i] = v]
         IN /\ g \in [Runs -> [Cases -> S]]
            /\ \A q \in Runs, k \in Cases :
                 g[q][k] = IF q = r /\ k = i THEN v ELSE f[q][k]
<1> DEFINE h == [f[r] EXCEPT ![i] = v]
<1>1. f[r] \in [Cases -> S] OBVIOUS
<1>2. h \in [Cases -> S] BY <1>1
<1>3. [f EXCEPT ![r][i] = v] = [f EXCEPT ![r] = h] OBVIOUS
<1>4. [f EXCEPT ![r] = h] \in [Runs -> [Cases -> S]] BY <1>2
<1>5. \A k \in Cases : h[k] = IF k = i THEN v ELSE f[r][k] BY <1>1
<1> HIDE DEF h
<1>6. \A q \in Runs : [f EXCEPT ![r] = h][q] = IF q = r THEN h ELSE f[q] OBVIOUS
<1> QED BY <1>3, <1>4, <1>5, <1>6

(* What a job does to the state.                                           *)
LEMMA JobChanges ==
  ASSUME RunnerTypeOK, NEW r \in Runs, NEW i \in Cases, Job(r, i)
  PROVE  /\ UNCHANGED scriptVars
         /\ job[r][i] \in Live
         /\ \E s \in Live \cup Ended : job' = [job EXCEPT ![r][i] = s]
         /\ \/ UNCHANGED mismatch
            \/ mismatch' = [mismatch EXCEPT ![r][i] = TRUE]
         /\ \/ UNCHANGED statusFile
            \/ \E s \in {"PASS", "FAIL"} :
                 statusFile' = [statusFile EXCEPT ![i] = [is |-> s, run |-> r]]
         /\ dir' \subseteq Cases
  BY DEF Job, MakeDirectory, RunSingle, ReadMetrics, RemoveDirectory, Record,
         Live, Ended, RunnerTypeOK

-----------------------------------------------------------------------------
LEMMA TypeInit == FuzzInit => RunnerTypeOK
<1> SUFFICES ASSUME FuzzInit PROVE RunnerTypeOK OBVIOUS
<1> USE DEF FuzzInit
<1>1. at \in At BY DEF At
<1>2. idx \in 0 .. MaxCases BY Sizes
<1>3. failed \in BOOLEAN OBVIOUS
<1>4. shown \in Cases \cup {NoCase} OBVIOUS
<1>5. exit \in {NoExit, 0, 1} OBVIOUS
<1>6. run \in Runs BY Sizes DEF Runs
<1>7. job \in [Runs -> [Cases -> States]] BY DEF States
<1>8. statusFile \in [Cases -> Status] BY DEF Status, NoStatus
<1>9. dir \subseteq Cases /\ reaped \subseteq Cases OBVIOUS
<1>10. mismatch \in [Runs -> [Cases -> BOOLEAN]] OBVIOUS
<1> QED BY <1>1, <1>2, <1>3, <1>4, <1>5, <1>6, <1>7, <1>8, <1>9, <1>10 DEF RunnerTypeOK

LEMMA TypeStep == RunnerTypeOK /\ [FuzzNext]_fuzzVars => RunnerTypeOK'
<1> SUFFICES ASSUME RunnerTypeOK, [FuzzNext]_fuzzVars PROVE RunnerTypeOK'
  OBVIOUS
<1> USE DEF RunnerTypeOK
<1>1. ASSUME NEW r \in Runs, NEW i \in Cases, Job(r, i) PROVE RunnerTypeOK'
  <2>1. job' \in [Runs -> [Cases -> States]]
    <3>1. PICK s \in Live \cup Ended : job' = [job EXCEPT ![r][i] = s]
      BY <1>1, JobChanges
    <3> QED BY <3>1, UpdateOne DEF States
  <2>2. mismatch' \in [Runs -> [Cases -> BOOLEAN]]
    <3>1. TRUE \in BOOLEAN OBVIOUS
    <3>2. [mismatch EXCEPT ![r][i] = TRUE] \in [Runs -> [Cases -> BOOLEAN]]
      BY <3>1, UpdateOne
    <3> QED BY <1>1, <3>2, JobChanges
  <2>3. r \in Nat BY Sizes DEF Runs
  <2>4. statusFile' \in [Cases -> Status]
    BY <1>1, <2>3, JobChanges DEF Status
  <2> QED BY <1>1, <2>1, <2>2, <2>4, JobChanges DEF scriptVars
<1>2. CASE Prepare
  BY <1>2, Sizes DEF Prepare, Exit, At, Status, NoStatus, NoExit
<1>3. CASE Launch
  <2>1. idx < FUZZ_LOOPS[run] => idx \in Cases /\ idx + 1 \in 0 .. MaxCases
    BY Sizes DEF Cases
  <2>2. "start" \in States BY DEF States, Live
  <2>3. idx < FUZZ_LOOPS[run] => job' \in [Runs -> [Cases -> States]]
    <3> SUFFICES ASSUME idx < FUZZ_LOOPS[run]
                 PROVE  job' \in [Runs -> [Cases -> States]]
      OBVIOUS
    <3>1. job' = [job EXCEPT ![run][idx] = "start"] BY <1>3 DEF Launch
    <3>2. job \in [Runs -> [Cases -> States]] /\ run \in Runs OBVIOUS
    <3> QED BY <2>1, <2>2, <3>1, <3>2, UpdateOne
  <2> QED BY <1>3, <2>1, <2>3 DEF Launch, At
<1>4. CASE Throttle
  BY <1>4, Sizes DEF Throttle, At, jobVars
<1>5. CASE WaitToLaunch
  BY <1>5, Sizes DEF WaitToLaunch, At, Reaps, jobVars
<1>6. CASE Drain
  BY <1>6, Sizes DEF Drain, At, jobVars
<1>7. CASE WaitAtEnd
  BY <1>7, Sizes DEF WaitAtEnd, At, Reaps, jobVars
<1>8. CASE Collect
  <2>1. PICK f \in Batches :
          LET fails == failed \/ (Lists(f) /\ FailList # {})
          IN /\ failed' = fails
             /\ IF fails
                THEN /\ Exit(1)
                     /\ shown' = IF FailList = {} THEN NoCase
                                 ELSE CHOOSE i \in FailList : \A j \in FailList : i <= j
                ELSE at' = "summary" /\ UNCHANGED <<exit, shown>>
    BY <1>8 DEF Collect
  <2>2. shown' \in Cases \cup {NoCase}
    BY <2>1, FirstFailure
  <2>3. failed' \in BOOLEAN
    BY <2>1 DEF Lists
  <2> QED BY <1>8, <2>1, <2>2, <2>3 DEF Collect, Exit, At, jobVars, NoExit
<1>9. CASE Summary
  <2>1. NoStatus \in Status BY DEF NoStatus, Status
  <2>2. statusFile' \in [Cases -> Status] BY <1>9, <2>1 DEF Summary
  <2>3. exit' \in {0, 1} /\ at' = "end" BY <1>9 DEF Summary, Exit
  <2>4. UNCHANGED <<idx, failed, shown, run, reaped, job, dir, mismatch>>
    BY <1>9 DEF Summary
  <2> QED BY <2>2, <2>3, <2>4 DEF At
<1>10. CASE Again
  <2>1. run' \in Runs BY <1>10, Sizes DEF Again, Runs
  <2>2. at' \in At /\ idx' \in 0 .. MaxCases
    <3>1. at' = "prepare" /\ idx' = 0 BY <1>10 DEF Again
    <3>2. MaxCases \in Nat BY Sizes
    <3> QED BY <3>1, <3>2 DEF At
  <2>3. UNCHANGED jobVars /\ failed' = FALSE /\ shown' = NoCase /\ exit' = NoExit
        /\ reaped' = {}
    BY <1>10 DEF Again
  <2> QED BY <2>1, <2>2, <2>3 DEF jobVars
<1>11. CASE UNCHANGED fuzzVars
  BY <1>11 DEF fuzzVars, scriptVars, jobVars
<1> QED BY <1>1, <1>2, <1>3, <1>4, <1>5, <1>6, <1>7, <1>8, <1>9, <1>10, <1>11 DEF FuzzNext, Script

-----------------------------------------------------------------------------
(* A step of a job ends it or leaves it alive: it never brings one back.   *)
LEMMA JobStep ==
  ASSUME RunnerTypeOK, NEW r \in Runs, NEW i \in Cases, Job(r, i)
  PROVE  /\ UNCHANGED scriptVars
         /\ job[r][i] \in Live
         /\ \A q \in Runs, k \in Cases :
              /\ ~(q = r /\ k = i) => job'[q][k] = job[q][k]
              /\ job[q][k] = "none" <=> job'[q][k] = "none"
              /\ job[q][k] = "exit_1" => job'[q][k] = "exit_1"
         /\ Running' \subseteq Running
<1>1. PICK s \in Live \cup Ended : job' = [job EXCEPT ![r][i] = s]
  BY JobChanges
<1>2. job[r][i] \in Live /\ UNCHANGED scriptVars BY JobChanges
<1>3. \A q \in Runs, k \in Cases :
        job'[q][k] = IF q = r /\ k = i THEN s ELSE job[q][k]
  BY <1>1, UpdateOne DEF RunnerTypeOK, States
<1>4. \A q \in Runs, k \in Cases :
        /\ ~(q = r /\ k = i) => job'[q][k] = job[q][k]
        /\ job[q][k] = "none" <=> job'[q][k] = "none"
        /\ job[q][k] = "exit_1" => job'[q][k] = "exit_1"
  BY <1>2, <1>3 DEF Live, Ended
<1>5. run' = run /\ run \in Runs BY <1>2 DEF scriptVars, RunnerTypeOK
<1>6. Running' \subseteq Running BY <1>2, <1>3, <1>5 DEF Running
<1> QED BY <1>2, <1>4, <1>6

LEMMA LaunchedInit == FuzzInit => JobsAreLaunched
  BY Sizes DEF FuzzInit, JobsAreLaunched, Runs, Cases

LEMMA LaunchedStep ==
  RunnerTypeOK /\ JobsAreLaunched /\ [FuzzNext]_fuzzVars => JobsAreLaunched'
<1> SUFFICES ASSUME RunnerTypeOK, JobsAreLaunched, [FuzzNext]_fuzzVars
             PROVE  JobsAreLaunched'
  OBVIOUS
<1> USE DEF JobsAreLaunched
<1>1. ASSUME NEW r \in Runs, NEW i \in Cases, Job(r, i) PROVE JobsAreLaunched'
  <2>1. UNCHANGED <<at, idx, run>> BY <1>1, JobStep DEF scriptVars
  <2>2. \A q \in Runs, k \in Cases : job[q][k] = "none" <=> job'[q][k] = "none"
    BY <1>1, JobStep
  <2>3. run \in Runs BY DEF RunnerTypeOK
  <2> QED BY <2>1, <2>2, <2>3
<1>2. CASE Prepare
  BY <1>2 DEF Prepare, Exit
<1>3. CASE Launch
  <2>1. CASE idx < FUZZ_LOOPS[run]
    <3>1. /\ job' = [job EXCEPT ![run][idx] = "start"]
          /\ idx' = idx + 1 /\ at' = "throttle" /\ run' = run
      BY <1>3, <2>1 DEF Launch
    <3>2. idx \in Cases /\ run \in Runs /\ idx \in Nat /\ FUZZ_LOOPS[run] \in Nat
      BY <2>1, Sizes DEF Cases, RunnerTypeOK
    <3>3. \A q \in Runs, k \in Cases :
            job'[q][k] = IF q = run /\ k = idx THEN "start" ELSE job[q][k]
      BY <3>1, <3>2, UpdateOne DEF RunnerTypeOK, States, Live
    <3>4. Runs \subseteq Nat /\ Cases \subseteq Nat BY DEF Runs, Cases
    <3> QED BY <2>1, <3>1, <3>2, <3>3, <3>4
  <2>2. CASE ~(idx < FUZZ_LOOPS[run])
    BY <1>3, <2>2 DEF Launch
  <2> QED BY <2>1, <2>2
<1>4. CASE Throttle BY <1>4 DEF Throttle, jobVars
<1>5. CASE WaitToLaunch BY <1>5 DEF WaitToLaunch, jobVars
<1>6. CASE Drain BY <1>6 DEF Drain, jobVars
<1>7. CASE WaitAtEnd BY <1>7 DEF WaitAtEnd, jobVars
<1>8. CASE Collect BY <1>8 DEF Collect, jobVars, Exit
<1>9. CASE Summary BY <1>9 DEF Summary, Exit
<1>10. CASE Again
  <2>1. run' = run + 1 /\ idx' = 0 /\ at' = "prepare" /\ job' = job
    BY <1>10 DEF Again, jobVars
  <2>2. run' \in Runs /\ run \in Runs /\ Runs \subseteq Nat /\ Cases \subseteq Nat
    BY <1>10, Sizes DEF Again, Runs, RunnerTypeOK, Cases
  <2>3. 0 <= FUZZ_LOOPS[run'] BY <2>2, Sizes
  <2> QED BY <2>1, <2>2, <2>3
<1>11. CASE UNCHANGED fuzzVars BY <1>11 DEF fuzzVars, scriptVars, jobVars
<1> QED BY <1>1, <1>2, <1>3, <1>4, <1>5, <1>6, <1>7, <1>8, <1>9, <1>10, <1>11 DEF FuzzNext, Script

(* Steps that start no job leave the set of running jobs, or shrink it.    *)
LEMMA RoomStep ==
  /\ RunnerTypeOK /\ JobsAreLaunched /\ RoomForOne /\ RunnerTypeOK' /\ JobsAreLaunched'
  /\ [FuzzNext]_fuzzVars
  => RoomForOne'
<1> SUFFICES ASSUME RunnerTypeOK, JobsAreLaunched, RoomForOne, RunnerTypeOK',
                    JobsAreLaunched', [FuzzNext]_fuzzVars
             PROVE  RoomForOne'
  OBVIOUS
<1>0. /\ Running \in SUBSET Cases /\ Running' \in SUBSET Cases
      /\ run \in Runs /\ run' \in Runs
      /\ FUZZ_JOBS[run] \in Nat \ {0} /\ FUZZ_JOBS[run'] \in Nat \ {0}
      /\ IsFiniteSet(Running)
      /\ Cardinality(Running) \in Nat /\ Cardinality(Running') \in Nat
  <2>1. Running \in SUBSET Cases /\ Running' \in SUBSET Cases BY DEF Running
  <2> QED BY <2>1, CardinalityMonotone, Sizes DEF RunnerTypeOK
<1>1. ASSUME Running' \subseteq Running, run' = run,
             at' = "launch" => at = "launch" \/ Cardinality(Running) < FUZZ_JOBS[run]
      PROVE  RoomForOne'
  <2>1. Cardinality(Running') <= Cardinality(Running)
    BY <1>0, <1>1, CardinalityMonotone
  <2> QED BY <1>0, <1>1, <2>1 DEF RoomForOne
<1>2. ASSUME job' = job, run' = run PROVE Running' = Running
  BY <1>2 DEF Running
<1>3. ASSUME NEW r \in Runs, NEW i \in Cases, Job(r, i) PROVE RoomForOne'
  BY <1>1, <1>3, JobStep DEF scriptVars
<1>4. CASE Prepare
  <2>1. idx = 0 /\ job' = job /\ run' = run BY <1>4 DEF Prepare, JobsAreLaunched
  <2>2. \A i \in Cases : job[run][i] = "none"
    BY <1>0, <2>1 DEF JobsAreLaunched, Cases
  <2>3. Running = {} BY <2>2 DEF Running, Live
  <2>4. Cardinality(Running) = 0 BY <2>3, FS_EmptySet
  <2> QED BY <1>0, <1>1, <1>2, <2>1, <2>4
<1>5. CASE Launch
  <2>1. CASE idx < FUZZ_LOOPS[run]
    <3>1. /\ at = "launch" /\ job' = [job EXCEPT ![run][idx] = "start"]
          /\ at' = "throttle" /\ run' = run
      BY <1>5, <2>1 DEF Launch
    <3>2. idx \in Cases BY <2>1, Sizes DEF Cases, RunnerTypeOK
    <3>3. \A k \in Cases : job'[run][k] = IF k = idx THEN "start" ELSE job[run][k]
      BY <1>0, <3>1, <3>2, UpdateOne DEF RunnerTypeOK, States, Live
    <3>4. Running' \subseteq Running \cup {idx} BY <3>1, <3>3 DEF Running
    <3>5. /\ Running \cup {idx} \in SUBSET Cases
          /\ Cardinality(Running \cup {idx}) <= Cardinality(Running) + 1
      BY <1>0, <3>2, FS_AddElement
    <3>6. /\ Cardinality(Running') <= Cardinality(Running \cup {idx})
          /\ Cardinality(Running \cup {idx}) \in Nat
      BY <3>4, <3>5, CardinalityMonotone
    <3> QED BY <1>0, <3>1, <3>5, <3>6 DEF RoomForOne
  <2>2. CASE ~(idx < FUZZ_LOOPS[run])
    BY <1>1, <1>2, <1>5, <2>2 DEF Launch
  <2> QED BY <2>1, <2>2
<1>6. CASE Throttle BY <1>0, <1>1, <1>2, <1>6 DEF Throttle, jobVars
<1>7. CASE WaitToLaunch BY <1>1, <1>2, <1>7 DEF WaitToLaunch, jobVars
<1>8. CASE Drain BY <1>1, <1>2, <1>8 DEF Drain, jobVars
<1>9. CASE WaitAtEnd BY <1>1, <1>2, <1>9 DEF WaitAtEnd, jobVars
<1>10. CASE Collect BY <1>1, <1>2, <1>10 DEF Collect, jobVars, Exit
<1>11. CASE Summary BY <1>1, <1>2, <1>11 DEF Summary, Exit
<1>12. CASE Again
  <2>1. run' = run + 1 /\ job' = job /\ at' = "prepare"
    BY <1>12 DEF Again, jobVars
  <2>2. \A i \in Cases : job'[run'][i] = "none"
    BY <1>0, <2>1 DEF JobsAreLaunched, Runs
  <2>3. Running' = {} BY <2>2 DEF Running, Live
  <2>4. Cardinality(Running') = 0 BY <2>3, FS_EmptySet
  <2> QED BY <1>0, <2>1, <2>4 DEF RoomForOne
<1>13. CASE UNCHANGED fuzzVars
  BY <1>1, <1>2, <1>13 DEF fuzzVars, scriptVars, jobVars
<1> QED BY <1>3, <1>4, <1>5, <1>6, <1>7, <1>8, <1>9, <1>10, <1>11, <1>12, <1>13
        DEF FuzzNext, Script

-----------------------------------------------------------------------------
LEMMA OverStep ==
  /\ RunnerTypeOK /\ JobsAreLaunched /\ AllOver /\ [FuzzNext]_fuzzVars => AllOver'
<1> SUFFICES ASSUME RunnerTypeOK, JobsAreLaunched, AllOver, [FuzzNext]_fuzzVars
             PROVE  AllOver'
  OBVIOUS
<1> USE DEF AllOver
<1>0. run \in Runs /\ idx \in Nat /\ FUZZ_LOOPS[run] \in Nat /\ idx <= FUZZ_LOOPS[run]
  BY Sizes DEF RunnerTypeOK, JobsAreLaunched
<1>1. ASSUME job' = job, run' = run PROVE Running' = Running
  BY <1>1 DEF Running
<1>2. ASSUME NEW r \in Runs, NEW i \in Cases, Job(r, i) PROVE AllOver'
  <2>1. UNCHANGED scriptVars /\ Running' \subseteq Running BY <1>2, JobStep
  <2> QED BY <2>1 DEF scriptVars
<1>3. CASE Prepare
  <2>1. idx = 0 /\ job' = job /\ run' = run BY <1>3 DEF Prepare, JobsAreLaunched
  <2>2. \A i \in Cases : job[run][i] = "none"
    BY <1>0, <2>1 DEF JobsAreLaunched, Cases
  <2>3. Running = {} BY <2>2 DEF Running, Live
  <2> QED BY <1>1, <1>3, <2>1, <2>3 DEF Prepare, Exit
<1>4. CASE Launch BY <1>0, <1>4 DEF Launch
<1>5. CASE Throttle BY <1>5 DEF Throttle
<1>6. CASE WaitToLaunch BY <1>6 DEF WaitToLaunch
<1>7. CASE Drain BY <1>1, <1>7 DEF Drain, jobVars
<1>8. CASE WaitAtEnd BY <1>8 DEF WaitAtEnd
<1>9. CASE Collect BY <1>1, <1>9 DEF Collect, Exit, jobVars
<1>10. CASE Summary BY <1>1, <1>10 DEF Summary, Exit
<1>11. CASE Again BY <1>11 DEF Again
<1>12. CASE UNCHANGED fuzzVars
  BY <1>1, <1>12 DEF fuzzVars, scriptVars, jobVars
<1> QED BY <1>2, <1>3, <1>4, <1>5, <1>6, <1>7, <1>8, <1>9, <1>10, <1>11, <1>12
        DEF FuzzNext, Script

LEMMA MismatchStep ==
  RunnerTypeOK /\ JobsAreLaunched /\ MismatchOnFile /\ [FuzzNext]_fuzzVars
  => MismatchOnFile'
<1> SUFFICES ASSUME RunnerTypeOK, JobsAreLaunched, MismatchOnFile,
                    [FuzzNext]_fuzzVars, NEW q \in Runs, NEW k \in Cases,
                    mismatch'[q][k]
             PROVE  /\ job'[q][k] = "exit_1"
                    /\ statusFile'[k].run = q => statusFile'[k].is = "FAIL"
  BY DEF MismatchOnFile
<1>0. mismatch[q][k] => /\ job[q][k] = "exit_1"
                        /\ statusFile[k].run = q => statusFile[k].is = "FAIL"
  BY DEF MismatchOnFile
<1> DEFINE Goal == /\ job'[q][k] = "exit_1"
                   /\ statusFile'[k].run = q => statusFile'[k].is = "FAIL"
<1>1. ASSUME NEW r \in Runs, NEW i \in Cases, Job(r, i) PROVE Goal
  <2>1. CASE q = r /\ k = i
    <3>1. ~mismatch[q][k] BY <1>0, <1>1, <2>1, JobStep DEF Live
    <3>2. RunSingle(r, i)
      BY <1>1, <2>1, <3>1 DEF Job, MakeDirectory, ReadMetrics, RemoveDirectory, scriptVars
    <3>3. mismatch' # mismatch BY <2>1, <3>1
    <3>4. /\ job' = [job EXCEPT ![r][i] = "exit_1"]
          /\ statusFile' = [statusFile EXCEPT ![i] = [is |-> "FAIL", run |-> r]]
      BY <3>2, <3>3 DEF RunSingle, Record
    <3>5. job'[r][i] = "exit_1"
      BY <3>4, UpdateOne DEF RunnerTypeOK, States, Ended
    <3>6. statusFile'[i] = [is |-> "FAIL", run |-> r] BY <3>4 DEF RunnerTypeOK
    <3> QED BY <2>1, <3>5, <3>6
  <2>2. CASE ~(q = r /\ k = i)
    <3>1. mismatch[q][k]
      <4>1. TRUE \in BOOLEAN /\ mismatch \in [Runs -> [Cases -> BOOLEAN]]
        BY DEF RunnerTypeOK
      <4> DEFINE h == [mismatch[r] EXCEPT ![i] = TRUE]
                 marked == [mismatch EXCEPT ![r] = h]
      <4>2. h[k] = mismatch[r][k] \/ k = i BY <4>1
      <4> HIDE DEF h
      <4>3. q # r => marked[q] = mismatch[q] BY <4>1
      <4>4. q = r => marked[q] = h BY <4>1
      <4>5. marked[q][k] = mismatch[q][k] BY <2>2, <4>2, <4>3, <4>4
      <4>6. marked = [mismatch EXCEPT ![r][i] = TRUE] BY DEF h
      <4> HIDE DEF marked
      <4> QED BY <1>1, <4>5, <4>6, JobChanges
    <3>2. job'[q][k] = "exit_1" BY <1>0, <1>1, <2>2, <3>1, JobStep
    <3>3. statusFile'[k] = statusFile[k] \/ (k = i /\ statusFile'[k].run = r)
      BY <1>1, JobChanges DEF RunnerTypeOK
    <3> QED BY <1>0, <2>2, <3>1, <3>2, <3>3
  <2> QED BY <2>1, <2>2
<1>2. ASSUME UNCHANGED <<job, mismatch>>,
             statusFile' = statusFile \/ statusFile' = [c \in Cases |-> NoStatus]
      PROVE  Goal
  <2>1. q # 0 BY DEF Runs
  <2> QED BY <1>0, <1>2, <2>1 DEF NoStatus
<1>3. CASE Launch
  <2>1. CASE idx < FUZZ_LOOPS[run]
    <3>1. job' = [job EXCEPT ![run][idx] = "start"] /\ UNCHANGED <<mismatch, statusFile>>
      BY <1>3, <2>1 DEF Launch
    <3>2. idx \in Cases /\ run \in Runs BY <2>1, Sizes DEF Cases, RunnerTypeOK
    <3>3. job[run][idx] = "none" BY <3>2 DEF JobsAreLaunched, Cases
    <3>4. job'[q][k] = IF q = run /\ k = idx THEN "start" ELSE job[q][k]
      BY <3>1, <3>2, UpdateOne DEF RunnerTypeOK, States, Live
    <3> QED BY <1>0, <3>1, <3>3, <3>4
  <2>2. CASE ~(idx < FUZZ_LOOPS[run]) BY <1>2, <1>3, <2>2 DEF Launch
  <2> QED BY <2>1, <2>2
<1>4. CASE Prepare BY <1>2, <1>4 DEF Prepare
<1>5. CASE Throttle BY <1>2, <1>5 DEF Throttle, jobVars
<1>6. CASE WaitToLaunch BY <1>2, <1>6 DEF WaitToLaunch, jobVars
<1>7. CASE Drain BY <1>2, <1>7 DEF Drain, jobVars
<1>8. CASE WaitAtEnd BY <1>2, <1>8 DEF WaitAtEnd, jobVars
<1>9. CASE Collect BY <1>2, <1>9 DEF Collect, jobVars
<1>10. CASE Summary BY <1>2, <1>10 DEF Summary
<1>11. CASE Again BY <1>2, <1>11 DEF Again, jobVars
<1>12. CASE UNCHANGED fuzzVars BY <1>2, <1>12 DEF fuzzVars, jobVars
<1> QED BY <1>1, <1>3, <1>4, <1>5, <1>6, <1>7, <1>8, <1>9, <1>10, <1>11, <1>12
        DEF FuzzNext, Script

-----------------------------------------------------------------------------
LEMMA InitHolds == FuzzInit => RunnerInv
<1> SUFFICES ASSUME FuzzInit PROVE RunnerInv OBVIOUS
<1>1. Running = {}
  BY Sizes DEF FuzzInit, Running, Live, Runs
<1>2. Cardinality(Running) = 0 BY <1>1, FS_EmptySet
<1>3. RoomForOne BY <1>2, TypeInit, Sizes DEF RoomForOne, RunnerTypeOK, FuzzInit
<1>4. AllOver BY DEF AllOver, FuzzInit
<1>5. MismatchOnFile BY DEF MismatchOnFile, FuzzInit
<1> QED BY <1>3, <1>4, <1>5, TypeInit, LaunchedInit DEF RunnerInv

LEMMA StepHolds == RunnerInv /\ [FuzzNext]_fuzzVars => RunnerInv'
  BY TypeStep, LaunchedStep, RoomStep, OverStep, MismatchStep DEF RunnerInv

(* The invariant of the jobs, their count and their status files.          *)
THEOREM RunnerInductive == FuzzSpec => []RunnerInv
  BY InitHolds, StepHolds, PTL DEF FuzzSpec

(* At no moment more than FUZZ_JOBS jobs of a run are alive, although the  *)
(* script counts them in one step and waits in another.                    *)
THEOREM BoundedJobs == FuzzSpec => []JobsBounded
<1>1. RunnerInv => JobsBounded BY DEF RunnerInv, RoomForOne, JobsBounded
<1> QED BY <1>1, RunnerInductive, PTL

(* Exit status 0 says that every job which the run launched has ended, and *)
(* that no case whose status file is of this run had a mismatch.  A case   *)
(* whose generator failed wrote no such file: of that one it says nothing. *)
THEOREM ZeroIsPass == FuzzSpec => ZeroMeansPass
<1>1. RunnerInv /\ [FuzzNext]_fuzzVars =>
        [at # "end" /\ exit' = 0 =>
           \A i \in CasesOfRun :
             /\ job[run][i] \in Ended
             /\ statusFile[i].run = run => ~mismatch[run][i]]_fuzzVars
  <2> SUFFICES ASSUME RunnerInv, [FuzzNext]_fuzzVars, at # "end", exit' = 0,
                      NEW i \in CasesOfRun
               PROVE  /\ job[run][i] \in Ended
                      /\ statusFile[i].run = run => ~mismatch[run][i]
    OBVIOUS
  <2>1. exit = -1 BY DEF RunnerInv, AllOver, NoExit
  <2>2. Summary
    <3>1. \A r \in Runs, c \in Cases : ~Job(r, c)
      BY <2>1, JobChanges DEF RunnerInv, scriptVars
    <3> QED
      BY <2>1, <3>1 DEF FuzzNext, Script, Prepare, Launch, Throttle, WaitToLaunch, Drain,
           WaitAtEnd, Collect, Again, Exit, NoExit, fuzzVars, scriptVars
  <2>3. at = "summary" /\ statusFile[i].is = "PASS"
    BY <2>1, <2>2 DEF Summary, Exit
  <2>4. run \in Runs /\ i \in Cases /\ i < idx
    BY <2>3, Sizes DEF RunnerInv, RunnerTypeOK, AllOver, CasesOfRun, Cases
  <2>5. job[run][i] \in Ended
    BY <2>3, <2>4 DEF RunnerInv, RunnerTypeOK, JobsAreLaunched, AllOver, Running, States
  <2>6. statusFile[i].run = run => ~mismatch[run][i]
    BY <2>3, <2>4 DEF RunnerInv, MismatchOnFile
  <2> QED BY <2>5, <2>6
<1> QED BY <1>1, RunnerInductive, PTL DEF FuzzSpec, ZeroMeansPass

-----------------------------------------------------------------------------
(* With one batch the list of failures is used whenever there is one.      *)
LEMMA OneBatch ==
  ASSUME Batch >= MaxCases, NEW f \in Batches, FailList # {} PROVE Lists(f)
<1>1. Batch \in Nat /\ MaxCases \in Nat BY BatchAssumption, Sizes
<1>2. Written \in SUBSET Cases /\ FailList \subseteq Written
  BY DEF Written, FailList, NoStatus
<1>3. /\ IsFiniteSet(Written) /\ Cardinality(Written) \in Nat
      /\ Cardinality(Written) <= Batch
  <2>1. Cardinality(Cases) = MaxCases BY Sizes, FS_Interval DEF Cases
  <2> QED BY <1>1, <1>2, <2>1, FiniteCases, FS_Subset, FS_CardinalityType
<1> DEFINE first == {i \in Written : f[i] = 0}
<1>4. Cardinality(first) = Cardinality(Written)
  <2>1. 0 \in 0 .. MaxCases BY <1>1
  <2>2. Cardinality(first)
          = LET rest == Cardinality(Written) - 0 * Batch
            IN IF rest > Batch THEN Batch ELSE IF rest > 0 THEN rest ELSE 0
    BY <2>1 DEF Batches
  <2> QED BY <1>1, <1>3, <2>2
<1>5. first = Written BY <1>3, <1>4, FS_Subset
<1>6. \A i \in Written : f[i] = 0 BY <1>5
<1> QED BY <1>2, <1>6 DEF Lists

LEMMA FirstRunInit == FuzzInit => FirstRun
<1> SUFFICES ASSUME FuzzInit PROVE FirstRun OBVIOUS
<1>1. 1 \in Runs BY Sizes DEF Runs
<1>2. \A i \in Cases : job[1][i] = "none" /\ statusFile[i].is = "none" /\ ~mismatch[1][i]
  BY <1>1 DEF FuzzInit, NoStatus
<1> QED BY <1>2 DEF FirstRun

LEMMA FirstRunStep ==
  ASSUME Batch >= MaxCases
  PROVE  RunnerInv /\ FirstRun /\ [FuzzNext]_fuzzVars => FirstRun'
<1> SUFFICES ASSUME RunnerInv, FirstRun, [FuzzNext]_fuzzVars, run' = 1
             PROVE  FirstRun'
  BY DEF FirstRun
<1> USE DEF RunnerInv
<1>0. 1 \in Runs /\ 0 \notin Runs BY Sizes DEF Runs
<1>1. ASSUME UNCHANGED <<run, job, statusFile, dir, mismatch>>,
             at' = "summary" => at = "summary",
             at' = "end" => at = "end" /\ UNCHANGED <<exit, shown>>
      PROVE  FirstRun'
  BY <1>1 DEF FirstRun
<1>2. ASSUME NEW r \in Runs, NEW i \in Cases, Job(r, i) PROVE FirstRun'
  <2>1. UNCHANGED scriptVars /\ job[r][i] \in Live BY <1>2, JobStep
  <2>2. run = 1 BY <2>1 DEF scriptVars
  <2>3. r = 1
    <3>1. ~(r > run) BY <2>1 DEF JobsAreLaunched, Live
    <3> QED BY <2>2, <3>1 DEF Runs
  <2>4. at # "end" /\ at # "summary"
    BY <2>1, <2>2, <2>3 DEF AllOver, Running
  <2>5. \A k \in Cases : k # i =>
          /\ job'[1][k] = job[1][k] /\ statusFile'[k] = statusFile[k]
          /\ k \in dir' <=> k \in dir
          /\ mismatch'[1][k] <=> mismatch[1][k]
    BY <1>2, <2>3, JobStep
       DEF Job, MakeDirectory, RunSingle, ReadMetrics, RemoveDirectory, Record,
           RunnerTypeOK
  <2>6. /\ job[1][i] \in {"generated", "tested", "passed"} => i \in dir
        /\ statusFile[i].is # "FAIL" /\ ~mismatch[1][i]
    BY <2>1, <2>2, <2>3 DEF FirstRun, Live
  <2>7. /\ job'[1][i] \in {"generated", "tested", "passed"} => i \in dir'
        /\ statusFile'[i].is = "FAIL" => job'[1][i] = "exit_1" /\ i \in dir'
        /\ mismatch'[1][i] => statusFile'[i].is = "FAIL"
    <3>1. ASSUME NEW s \in States, job' = [job EXCEPT ![1][i] = s] PROVE job'[1][i] = s
      BY <1>0, <3>1, UpdateOne DEF RunnerTypeOK
    <3>2. {"generated", "tested", "passed", "exit_0", "exit_1"} \subseteq States
      BY DEF States, Live, Ended
    <3>3. ASSUME NEW s \in {"PASS", "FAIL"}, Record(1, i, s) PROVE statusFile'[i].is = s
      BY <3>3 DEF Record, RunnerTypeOK
    <3>4. CASE MakeDirectory(1, i)
      BY <2>6, <3>1, <3>2, <3>4 DEF MakeDirectory
    <3>5. CASE RunSingle(1, i)
      BY <2>6, <3>1, <3>2, <3>3, <3>5 DEF RunSingle
    <3>6. CASE ReadMetrics(1, i)
      BY <2>6, <3>1, <3>2, <3>3, <3>6 DEF ReadMetrics
    <3>7. CASE RemoveDirectory(1, i)
      BY <2>6, <3>1, <3>2, <3>7 DEF RemoveDirectory
    <3> QED BY <1>2, <2>3, <3>4, <3>5, <3>6, <3>7 DEF Job
  <2> QED BY <2>1, <2>2, <2>4, <2>5, <2>7 DEF FirstRun, scriptVars
<1>3. CASE Prepare
  <2>1. idx = 0 /\ run = 1 /\ job' = job /\ mismatch' = mismatch
        /\ statusFile' = [i \in Cases |-> NoStatus]
    BY <1>3 DEF Prepare, JobsAreLaunched
  <2>2. \A i \in Cases : job[1][i] = "none" /\ ~mismatch[1][i]
    BY <1>0, <2>1 DEF JobsAreLaunched, MismatchOnFile, Cases
  <2> QED BY <2>1, <2>2 DEF FirstRun, NoStatus
<1>4. CASE Launch
  <2>1. CASE idx < FUZZ_LOOPS[run]
    <3>1. /\ job' = [job EXCEPT ![run][idx] = "start"] /\ at' = "throttle" /\ run' = run
          /\ UNCHANGED <<statusFile, dir, mismatch>>
      BY <1>4, <2>1 DEF Launch
    <3>2. idx \in Cases BY <2>1, Sizes DEF Cases, RunnerTypeOK
    <3>3. job[1][idx] = "none" BY <1>0, <3>1, <3>2 DEF JobsAreLaunched, Cases
    <3>4. \A k \in Cases : job'[1][k] = IF k = idx THEN "start" ELSE job[1][k]
      BY <1>0, <3>1, <3>2, UpdateOne DEF RunnerTypeOK, States, Live
    <3> QED BY <3>1, <3>3, <3>4 DEF FirstRun
  <2>2. CASE ~(idx < FUZZ_LOOPS[run]) BY <1>1, <1>4, <2>2 DEF Launch
  <2> QED BY <2>1, <2>2
<1>5. CASE Throttle BY <1>1, <1>5 DEF Throttle, jobVars
<1>6. CASE WaitToLaunch BY <1>1, <1>6 DEF WaitToLaunch, jobVars
<1>7. CASE Drain BY <1>1, <1>7 DEF Drain, jobVars
<1>8. CASE WaitAtEnd BY <1>1, <1>8 DEF WaitAtEnd, jobVars
<1>9. CASE Collect
  <2>1. run = 1 /\ UNCHANGED jobVars BY <1>9 DEF Collect
  <2>2. CASE FailList = {}
    <3>1. \A i \in Cases : ~mismatch[1][i] BY <2>1, <2>2 DEF FirstRun, FailList
    <3> QED BY <2>1, <3>1 DEF FirstRun, jobVars
  <2>3. CASE FailList # {}
    <3>1. PICK f \in Batches :
            LET fails == failed \/ (Lists(f) /\ FailList # {})
            IN IF fails
               THEN /\ Exit(1)
                    /\ shown' = IF FailList = {} THEN NoCase
                                ELSE CHOOSE i \in FailList : \A j \in FailList : i <= j
               ELSE at' = "summary" /\ UNCHANGED <<exit, shown>>
      BY <1>9 DEF Collect
    <3>2. Lists(f) BY <2>3, OneBatch
    <3>3. /\ at' = "end" /\ exit' = 1
          /\ shown' = CHOOSE i \in FailList : \A j \in FailList : i <= j
      BY <2>3, <3>1, <3>2 DEF Exit
    <3>4. shown' \in FailList /\ shown' \in Cases BY <2>3, <3>3, FirstFailure
    <3>5. shown' # NoCase BY <3>4 DEF Cases, NoCase
    <3> QED BY <2>1, <3>3, <3>4, <3>5 DEF FirstRun, jobVars, FailList
  <2> QED BY <2>2, <2>3
<1>10. CASE Summary
  <2>1. /\ at = "summary" /\ run = 1 /\ UNCHANGED <<job, dir, mismatch>>
        /\ statusFile' = statusFile \/ statusFile' = [i \in Cases |-> NoStatus]
    BY <1>10 DEF Summary
  <2>2. \A i \in Cases : ~mismatch[1][i] BY <2>1 DEF FirstRun
  <2> QED BY <1>10, <2>1, <2>2 DEF FirstRun, NoStatus, Summary, Exit
<1>11. CASE Again
  <2>1. run + 1 = 1 /\ run \in Runs BY <1>11 DEF Again, RunnerTypeOK
  <2> QED BY <2>1 DEF Runs
<1>12. CASE UNCHANGED fuzzVars
  BY <1>1, <1>12 DEF fuzzVars, scriptVars, jobVars
<1> QED BY <1>2, <1>3, <1>4, <1>5, <1>6, <1>7, <1>8, <1>9, <1>10, <1>11, <1>12
        DEF FuzzNext, Script

(* Without a second batch the script reports a failing case of its first   *)
(* run, whose directory is still there.                                    *)
THEOREM ReportsFailure ==
  Batch >= MaxCases => (FuzzSpec => []FailureReported)
<1> SUFFICES ASSUME Batch >= MaxCases PROVE FuzzSpec => []FailureReported
  OBVIOUS
<1>1. RunnerInv /\ FirstRun => FailureReported
  BY DEF RunnerInv, RunnerTypeOK, FirstRun, FailureReported, NoCase
<1>2. RunnerInv /\ FirstRun /\ [FuzzNext]_fuzzVars => FirstRun'
  BY FirstRunStep
<1> QED BY <1>1, <1>2, FirstRunInit, RunnerInductive, PTL DEF FuzzSpec
=============================================================================
