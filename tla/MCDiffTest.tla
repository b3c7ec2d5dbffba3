----------------------------- MODULE MCDiffTest -----------------------------
(***************************************************************************)
(* Instances of DiffTest for TLC: three registers of two bits, programs of  *)
(* three words in lines of two, and traces with every kind of name.        *)
(***************************************************************************)
EXTENDS DiffTest

MCCpuValues == {X, 0, 2}

MCByte == {"a", "b", "c", "d", "e", "f", "g", "h"}

Word1 == <<"a", "b", "c", "d">>
Word2 == <<"e", "f", "g", "h">>

WriteTo(name, value) == [name |-> name, value |-> value]

(* Two names of one register, in both orders, a register outside the file, *)
(* a value too wide, and a value written twice.                            *)
Traces ==
  {<<WriteTo(<<"x", 1>>, 2), WriteTo(<<"ra", 0>>, 7)>>,
   <<WriteTo(<<"ra", 0>>, 2), WriteTo(<<"x", 1>>, 4)>>,
   <<WriteTo(<<"sp", 0>>, 2), WriteTo(<<"pc", 0>>, 3)>>,
   <<WriteTo(<<"sp", 0>>, 6)>>}

Disasm(k) ==
  CASE k = 1 -> <<[is |-> "jump", addr |-> 4], [is |-> "loop", addr |-> 8]>>
    [] k = 2 -> <<[is |-> "other", addr |-> 0]>>

Program(words, trace, k) == [words |-> words, trace |-> trace, disasm |-> Disasm(k)]

MCPrograms ==
  {Program(<<Word1, Word2, Word1>>, trace, 1) : trace \in Traces}
    \cup {Program(<<Word2, Word2>>, <<>>, 2)}
=============================================================================
