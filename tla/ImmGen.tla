------------------------------- MODULE ImmGen -------------------------------
(***************************************************************************)
(* rtl/component/imm_gen.v: the immediate of an instruction word, by its   *)
(* opcode, against the instruction formats of the architecture.  Words and *)
(* immediates are bits here; everywhere else an instruction is a record    *)
(* with its immediate as a number.                                         *)
(***************************************************************************)
EXTENDS Integers

Bit == {0, 1}
Position == 0 .. 31
Bits32 == [Position -> Bit]

IFormat == {"ALUR", "LOAD", "JALR", "SYSTEM", "ALUI"}
UFormat == {"LUI", "AUIPC"}
Opcodes == IFormat \cup UFormat \cup {"STORE", "BRANCH", "JAL"}

(* The bit of the instruction that each bit of the immediate is taken from *)
(* in the S, B and J formats.                                              *)
FromStore(i) == IF i < 5 THEN i + 7 ELSE IF i < 12 THEN i + 20 ELSE 31

FromBranch(i) ==
  IF i < 5 THEN i + 7 ELSE IF i < 11 THEN i + 20 ELSE IF i = 11 THEN 7 ELSE 31

FromJal(i) ==
  IF i < 11 THEN i + 20 ELSE IF i = 11 THEN 20 ELSE IF i < 20 THEN i ELSE 31

imm_gen(opcode, inst) ==
  [i \in Position |->
     CASE opcode \in IFormat  -> inst[IF i < 12 THEN i + 20 ELSE 31]
       [] opcode = "STORE"    -> inst[FromStore(i)]
       [] opcode = "BRANCH"   -> IF i = 0 THEN 0 ELSE inst[FromBranch(i)]
       [] opcode \in UFormat  -> IF i < 12 THEN 0 ELSE inst[i]
       [] opcode = "JAL"      -> IF i = 0 THEN 0 ELSE inst[FromJal(i)]
       [] OTHER               -> 0]

-----------------------------------------------------------------------------
(* The architecture (external).  An immediate has a sign bit, that is      *)
(* repeated above it, and zeros below its first bit.                       *)
SignBit(opcode) ==
  CASE opcode \in IFormat \cup {"STORE"} -> 11
    [] opcode = "BRANCH"                 -> 12
    [] opcode = "JAL"                    -> 20
    [] OTHER                             -> 31

FirstBit(opcode) ==
  CASE opcode \in {"BRANCH", "JAL"} -> 1
    [] opcode \in UFormat           -> 12
    [] OTHER                        -> 0

Immediates(opcode) ==
  {n \in Bits32 :
     /\ \A i \in Position : i > SignBit(opcode) => n[i] = n[SignBit(opcode)]
     /\ \A i \in Position : i < FirstBit(opcode) => n[i] = 0}

(* Where an instruction holds the bits first .. last of its immediate.     *)
Holds(inst, at, n, first, last) ==
  \A i \in first .. last : inst[i + (at - first)] = n[i]

(* The instruction word inst has the immediate n.                          *)
Encodes(opcode, inst, n) ==
  \/ opcode \in IFormat /\ Holds(inst, 20, n, 0, 11)
  \/ opcode = "STORE" /\ Holds(inst, 7, n, 0, 4) /\ Holds(inst, 25, n, 5, 11)
  \/ /\ opcode = "BRANCH"
     /\ Holds(inst, 8, n, 1, 4) /\ Holds(inst, 25, n, 5, 10)
     /\ Holds(inst, 7, n, 11, 11) /\ Holds(inst, 31, n, 12, 12)
  \/ opcode \in UFormat /\ Holds(inst, 12, n, 12, 31)
  \/ /\ opcode = "JAL"
     /\ Holds(inst, 21, n, 1, 10) /\ Holds(inst, 20, n, 11, 11)
     /\ Holds(inst, 12, n, 12, 19) /\ Holds(inst, 31, n, 20, 20)
=============================================================================
