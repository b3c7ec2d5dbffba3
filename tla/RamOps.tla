------------------------------- MODULE RamOps -------------------------------
(***************************************************************************)
(* data_ram.v with bytes of ByteBits bits and MemBytes bytes: the read     *)
(* port as a function of the mode, the write port as a function of the     *)
(* contents.  Addresses are words, so Addr + 3 wraps at the end of the     *)
(* address space.  A byte beyond MemBytes reads as XByte (x in the         *)
(* simulator, anything here) and writes to it are lost.                    *)
(***************************************************************************)
EXTENDS Integers

CONSTANTS ByteBits,    \* 8 in the RTL
          MemBytes,    \* 16384 in the RTL
          XByte        \* what an out-of-range byte reads as

ByteSize == 2 ^ ByteBits
Byte     == 0 .. ByteSize - 1
AddrSize == ByteSize ^ 4
Cells    == 0 .. MemBytes - 1
Contents == [Cells -> Byte]
ZeroRam  == [c \in Cells |-> 0]

ASSUME RamSizes == ByteBits \in Nat \ {0} /\ MemBytes \in Nat \ {0}
                   /\ XByte \in Byte

ByteAt(ram, addr) ==
  LET a == addr % AddrSize IN IF a \in Cells THEN ram[a] ELSE XByte

(* {{n{v[top]}}, v}: v of size bytes, extended with copies of its top bit. *)
SignExtend(v, size) ==
  IF v < size \div 2 THEN v ELSE v + AddrSize - size

Half(ram, addr) == ByteAt(ram, addr) + ByteSize * ByteAt(ram, addr + 1)

(* MemRead 3, 2, 5, 1, 4: LW, LH, LHU, LB, LBU.                            *)
ReadRam(ram, mode, addr) ==
  CASE mode = 3 -> Half(ram, addr) + ByteSize ^ 2 * Half(ram, addr + 2)
    [] mode = 2 -> SignExtend(Half(ram, addr), ByteSize ^ 2)
    [] mode = 5 -> Half(ram, addr)
    [] mode = 1 -> SignExtend(ByteAt(ram, addr), ByteSize)
    [] mode = 4 -> ByteAt(ram, addr)
    [] OTHER    -> 0

(* MemWrite 3, 2, 1: SW, SH, SB write four, two, one byte from addr up.    *)
BytesWritten(mode) ==
  CASE mode = 3 -> 4 [] mode = 2 -> 2 [] mode = 1 -> 1 [] OTHER -> 0

WriteRam(ram, mode, addr, data) ==
  [c \in Cells |->
     LET k == (c - addr) % AddrSize
     IN IF k < BytesWritten(mode) THEN (data \div ByteSize ^ k) % ByteSize
        ELSE ram[c]]
=============================================================================
