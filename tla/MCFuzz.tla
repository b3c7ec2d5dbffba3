------------------------------- MODULE MCFuzz -------------------------------
(***************************************************************************)
(* Instances of FuzzRun for TLC: words of 8 bits, so that a program has at *)
(* most 64 words, and immediates of 6 bits.                                *)
(***************************************************************************)
EXTENDS FuzzRun, AluOps, RamOps

AllOps == {"addi", "slti", "sltiu", "xori", "ori", "andi", "slli", "srli",
           "srai", "add", "sub", "sll", "slt", "sltu", "xor", "srl", "sra",
           "or", "and", "lui", "auipc", "beq", "bne", "blt", "bge", "bltu",
           "bgeu", "lb", "lbu", "lh", "lhu", "lw", "sb", "sh", "sw"}

(* One step of any kind with any mnemonic, or two steps with labels.       *)
MCPlans ==
  {[kinds |-> <<kind>>, ops |-> AllOps, xors |-> {5}] :
     kind \in {"imm", "shift", "reg", "uop", "mem", "branch", "jal", "jalr", "loop"}}
  \cup {[kinds |-> kinds, ops |-> {"beq", "lw"}, xors |-> {}] :
          kinds \in {<<"jalr", "loop">>, <<"loop", "jalr">>, <<"jalr", "jalr">>,
                     <<"branch", "jal">>, <<"jal", "jal">>}}

OneInit == {<<1, -1, 5, -32>>}

BothPaddings == {Isa32!ZeroInst, Nop}

MinusThree == {-3}
=============================================================================
