------------------------------ MODULE TestOps ------------------------------
(***************************************************************************)
(* The conversions of the differential tests: word2byte.py,                *)
(* extract_qemu.py and compare_state.py.  A file is a sequence of lines; a *)
(* line is kept as the parts the scripts split it into.                    *)
(*                                                                         *)
(* An operator named Bug... is a faulty variant of the definition below    *)
(* it: nothing uses it but the tests of the properties.                    *)
(***************************************************************************)
EXTENDS Integers, Sequences, SequencesExt

CONSTANTS
  NRegs,              \* 32
  WordSize,           \* 2^32
  LineBytes           \* bytes in a full line of a hex file (16)

ASSUME TestSizesAssumption ==
  /\ NRegs \in Nat
  /\ WordSize \in Nat \ {0}
  /\ LineBytes \in Nat \ {0} /\ LineBytes % 4 = 0

Reg == 0 .. NRegs - 1

-----------------------------------------------------------------------------
(* word2byte.py.  A line is an address line or some bytes.                 *)
AtLine(addr) == [at |-> TRUE, addr |-> addr, bytes |-> <<>>]
ByteLine(bytes) == [at |-> FALSE, addr |-> 0, bytes |-> bytes]

BugBigEndian(b, k) == <<b[4 * k - 3], b[4 * k - 2], b[4 * k - 1], b[4 * k]>>

(* Four bytes, the last one first.                                         *)
datrow(b, k) == <<b[4 * k], b[4 * k - 1], b[4 * k - 2], b[4 * k - 3]>>

(* Bytes left over at the end of a line are not written.                   *)
Rows(line) ==
  IF line.at THEN <<line>>
  ELSE [k \in 1 .. Len(line.bytes) \div 4 |-> ByteLine(datrow(line.bytes, k))]

word2byte(hex) == FlattenSeq([i \in DOMAIN hex |-> Rows(hex[i])])

(* objcopy -O verilog (external): the bytes of the words, lowest first, in *)
(* lines of LineBytes.                                                     *)
HexFile(words) ==
  LET bytes == FlattenSeq([i \in DOMAIN words |-> Reverse(words[i])])
      Part(k) == SubSeq(bytes, k * LineBytes + 1,
                        IF (k + 1) * LineBytes < Len(bytes)
                        THEN (k + 1) * LineBytes ELSE Len(bytes))
  IN <<AtLine(0)>>
     \o [k \in 1 .. (Len(bytes) + LineBytes - 1) \div LineBytes |->
           ByteLine(Part(k - 1))]

(* $readmemh (external): one word per row, from the address on.            *)
RomWords(dat) ==
  LET rom[n \in 0 .. Len(dat)] ==
        IF n = 0 THEN <<>>
        ELSE IF dat[n].at THEN rom[n - 1] ELSE Append(rom[n - 1], dat[n].bytes)
  IN rom[Len(dat)]

-----------------------------------------------------------------------------
(* extract_qemu.py.  A line of the disassembly is the label <loop>, a jump *)
(* with its target, or something else.                                     *)
NoAddr == -1

LoopLabels(disasm) == {i \in DOMAIN disasm : disasm[i].is = "loop"}
Jumps(disasm) == {i \in DOMAIN disasm : disasm[i].is = "jump"}

(* The first label, or else the last jump.  NoAddr: it raises.             *)
find_loop_addr(disasm) ==
  IF LoopLabels(disasm) # {}
  THEN disasm[CHOOSE i \in LoopLabels(disasm) :
                \A j \in LoopLabels(disasm) : i <= j].addr
  ELSE IF Jumps(disasm) # {}
  THEN disasm[CHOOSE i \in Jumps(disasm) : \A j \in Jumps(disasm) : j <= i].addr
  ELSE NoAddr

ABI_TO_X ==
  [zero |-> 0, ra |-> 1, sp |-> 2, gp |-> 3, tp |-> 4, t0 |-> 5, t1 |-> 6,
   t2 |-> 7, fp |-> 8, s0 |-> 8, s1 |-> 9, a0 |-> 10, a1 |-> 11, a2 |-> 12,
   a3 |-> 13, a4 |-> 14, a5 |-> 15, a6 |-> 16, a7 |-> 17, s2 |-> 18,
   s3 |-> 19, s4 |-> 20, s5 |-> 21, s6 |-> 22, s7 |-> 23, s8 |-> 24,
   s9 |-> 25, s10 |-> 26, s11 |-> 27, t3 |-> 28, t4 |-> 29, t5 |-> 30,
   t6 |-> 31]

NoReg == -1

BugNumbersOnly(name) == IF name[1] = "x" THEN name[2] ELSE NoReg

(* A name is <<"x", n>> or <<"sp", 0>>.                                    *)
reg_index(name) ==
  IF name[1] = "x" THEN name[2]
  ELSE IF name[1] \in DOMAIN ABI_TO_X THEN ABI_TO_X[name[1]]
  ELSE NoReg

BugFirstWrite(trace) ==
  FoldLeft(LAMBDA regs, line :
             IF reg_index(line.name) = NoReg \/ regs[reg_index(line.name)] # 0
             THEN regs
             ELSE [regs EXCEPT ![reg_index(line.name)] = line.value % WordSize],
           [r \in Reg |-> 0], trace)

(* The registers after the writes the simulator reported, in order.        *)
traced_regs(trace) ==
  FoldLeft(LAMBDA regs, line :
             IF reg_index(line.name) = NoReg THEN regs
             ELSE [regs EXCEPT ![reg_index(line.name)] = line.value % WordSize],
           [r \in Reg |-> 0], trace)

-----------------------------------------------------------------------------
(* compare_state.py.  X is what a register of unknown bits is printed as.  *)
X == -1

(* The registers of a state file as both simulators print it.  A value     *)
(* that is no hexadecimal number does not match.                           *)
parse_state(file) == [r \in {q \in DOMAIN file : file[q] # X} |-> file[r]]

Get(regs, r) == IF r \in DOMAIN regs THEN regs[r] ELSE 0

mismatches(cpu_file, ref_file) ==
  {r \in Reg : Get(parse_state(cpu_file), r) # Get(parse_state(ref_file), r)}
=============================================================================
