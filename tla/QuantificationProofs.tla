------------------------- MODULE QuantificationProofs -----------------------
(***************************************************************************)
(* Theorems about the measurements of the predictors: about Sweep, for any *)
(* command lines, any number of tasks and workers, and any number of       *)
(* invocations and kills; about Reports, for tables of any length, any     *)
(* requests and any number of runs and interrupts.  The two share no       *)
(* variable: what one leaves to the other are files.                       *)
(***************************************************************************)
EXTENDS Sweep, Reports, FiniteSetTheorems, NaturalsInduction, SequenceTheorems,
        WellFoundedInduction, TLAPS

-----------------------------------------------------------------------------
(* Counting.                                                               *)

(* A set of numbers that is not empty has a least one.                     *)
LEMMA LeastNumber ==
  ASSUME NEW U, U \subseteq Nat, U # {}
  PROVE  \E k \in U : \A j \in U : k <= j
<1>1. \E k \in U : \A j \in U : ~(<<j, k>> \in OpToRel(<, Nat))
  BY NatLessThanWellFounded, WFMin
<1>2. PICK k \in U : \A j \in U : ~(j < k)
  BY <1>1 DEF OpToRel
<1> QED BY <1>2

(* A set of numbers that holds 1 and with every k < n its successor holds  *)
(* all of 1 .. n.                                                          *)
LEMMA CountUp ==
  ASSUME NEW n \in Nat, NEW T, n > 0 => 1 \in T,
         \A k \in 1 .. n - 1 : k \in T => k + 1 \in T
  PROVE  1 .. n \subseteq T
<1> DEFINE U == {k \in Nat : k \in 1 .. n /\ k \notin T}
<1> SUFFICES ASSUME U # {} PROVE FALSE
  OBVIOUS
<1>1. PICK k \in U : \A j \in U : k <= j
  <2> HIDE DEF U
  <2>1. U \subseteq Nat BY DEF U
  <2> QED BY <2>1, LeastNumber
<1>2. k > 1 /\ k - 1 \in 1 .. n - 1 BY <1>1
<1>3. k - 1 \in T BY <1>1, <1>2
<1>4. (k - 1) + 1 \in T BY <1>2, <1>3
<1> QED BY <1>1, <1>4

LEMMA FunctionIsSeq ==
  ASSUME NEW S, NEW n \in Int, NEW f \in [1 .. n -> S]
  PROVE  f \in Seq(S)
<1>1. CASE n >= 0 BY <1>1, SeqDef
<1>2. CASE n < 0
  <2>1. 1 .. n = 1 .. 0 BY <1>2
  <2> QED BY <2>1, SeqDef
<1> QED BY <1>1, <1>2

LEMMA ListIsSeq ==
  ASSUME NEW S, NEW n \in Nat, NEW f \in [1 .. n -> S]
  PROVE  f \in Seq(S) /\ Len(f) = n /\ DOMAIN f = 1 .. n
<1>1. f \in Seq(S) BY SeqDef
<1>2. DOMAIN f = 1 .. Len(f) /\ Len(f) \in Nat BY <1>1, LenProperties
<1>3. DOMAIN f = 1 .. n OBVIOUS
<1>4. Len(f) = n BY <1>2, <1>3
<1> QED BY <1>1, <1>3, <1>4

-----------------------------------------------------------------------------
(* What the lists of a command line are made of.                           *)

LEMMA MapIsSeq ==
  ASSUME NEW S, NEW T, NEW seq \in Seq(T), NEW f,
         f \in [DOMAIN seq -> S]
  PROVE  f \in Seq(S)
<1>1. DOMAIN seq = 1 .. Len(seq) /\ Len(seq) \in Nat BY LenProperties
<1> QED BY <1>1, FunctionIsSeq

(* FlattenSeq, defined by recursion, appends one sequence after another.   *)
LEMMA FlattenType ==
  ASSUME NEW S, NEW seqs \in Seq(Seq(S))
  PROVE  FlattenSeq(seqs) \in Seq(S)
<1> DEFINE n == Len(seqs)
           Step(f, i) == IF i = 1 THEN seqs[i] ELSE f[i - 1] \o seqs[i]
           flatten == CHOOSE f : f = [i \in 1 .. n |-> Step(f, i)]
<1>1. n \in Nat /\ \A i \in 1 .. n : seqs[i] \in Seq(S)
  BY LenProperties, ElementOfSeq
<1>2. CASE n = 0
  <2>1. FlattenSeq(seqs) = seqs BY <1>2 DEF FlattenSeq
  <2>2. seqs = <<>> BY <1>2, EmptySeq
  <2> QED BY <2>1, <2>2
<1>3. CASE n # 0
  <2> DEFINE T == {k \in 1 .. n : \E f \in [1 .. k -> Seq(S)] :
                                    f = [i \in 1 .. k |-> Step(f, i)]}
  <2>1. 1 \in T
    <3> DEFINE f == [i \in 1 .. 1 |-> seqs[i]]
    <3>1. f \in [1 .. 1 -> Seq(S)] BY <1>1, <1>3
    <3>2. f = [i \in 1 .. 1 |-> Step(f, i)] OBVIOUS
    <3>3. 1 \in 1 .. n BY <1>1, <1>3
    <3> QED BY <3>1, <3>2, <3>3
  <2>2. ASSUME NEW k \in 1 .. n - 1, k \in T PROVE k + 1 \in T
    <3>1. PICK f \in [1 .. k -> Seq(S)] : f = [i \in 1 .. k |-> Step(f, i)]
      BY <2>2
    <3> DEFINE g == [i \in 1 .. k + 1 |->
                       IF i = k + 1 THEN f[k] \o seqs[k + 1] ELSE f[i]]
    <3>2. k \in Nat /\ k + 1 \in 1 .. n /\ k \in 1 .. k BY <1>1
    <3>3. f[k] \o seqs[k + 1] \in Seq(S) BY <1>1, <3>2, ConcatProperties
    <3>4. g \in [1 .. k + 1 -> Seq(S)]
      <4>1. \A i \in 1 .. k + 1 : i # k + 1 => i \in 1 .. k BY <3>2
      <4> QED BY <3>3, <4>1
    <3>5. \A i \in 1 .. k + 1 : g[i] = Step(g, i)
      <4> TAKE i \in 1 .. k + 1
      <4>1. CASE i = k + 1
        <5>1. i # 1 /\ i - 1 = k /\ k \in 1 .. k + 1 /\ k # k + 1 BY <3>2, <4>1
        <5>2. g[k] = f[k] BY <5>1
        <5> QED BY <4>1, <5>1, <5>2
      <4>2. CASE i # k + 1 /\ i # 1
        <5>1. i \in 1 .. k /\ i - 1 \in 1 .. k + 1 /\ i - 1 # k + 1 BY <3>2, <4>2
        <5>2. f[i] = f[i - 1] \o seqs[i] BY <3>1, <4>2, <5>1
        <5>3. g[i] = f[i] /\ g[i - 1] = f[i - 1] BY <5>1, <4>2
        <5> QED BY <4>2, <5>2, <5>3
      <4>3. CASE i = 1 /\ i # k + 1
        <5>1. i \in 1 .. k BY <3>2, <4>3
        <5>2. f[i] = seqs[i] BY <3>1, <4>3, <5>1
        <5> QED BY <4>3, <5>2
      <4> QED BY <4>1, <4>2, <4>3
    <3>6. g = [i \in 1 .. k + 1 |-> Step(g, i)] BY <3>5
    <3> QED BY <3>2, <3>4, <3>6
  <2>3. n \in T
    <3> HIDE DEF T
    <3>1. 1 .. n \subseteq T BY <1>1, <2>1, <2>2, CountUp
    <3>2. n \in 1 .. n BY <1>1, <1>3
    <3> QED BY <3>1, <3>2
  <2>4. PICK f \in [1 .. n -> Seq(S)] : f = [i \in 1 .. n |-> Step(f, i)]
    BY <2>3
  <2>5. flatten = [i \in 1 .. n |-> Step(flatten, i)]
    BY <2>4
  <2> HIDE DEF flatten
  <2> DEFINE U == {k \in 1 .. n : flatten[k] \in Seq(S)}
  <2>6. 1 \in U
    <3>1. 1 \in 1 .. n BY <1>1, <1>3
    <3>2. flatten[1] = seqs[1] BY <2>5, <3>1
    <3> QED BY <1>1, <3>1, <3>2
  <2>7. ASSUME NEW k \in 1 .. n - 1, k \in U PROVE k + 1 \in U
    <3>1. k + 1 \in 1 .. n /\ k + 1 # 1 /\ (k + 1) - 1 = k BY <1>1
    <3>2. flatten[k + 1] = flatten[k] \o seqs[k + 1] BY <2>5, <3>1
    <3>3. flatten[k] \in Seq(S) /\ seqs[k + 1] \in Seq(S) BY <1>1, <2>7, <3>1
    <3>4. flatten[k] \o seqs[k + 1] \in Seq(S) BY <3>3, ConcatProperties
    <3> QED BY <3>1, <3>2, <3>4
  <2>8. flatten[n] \in Seq(S)
    <3> HIDE DEF U
    <3>1. 1 .. n \subseteq U BY <1>1, <2>6, <2>7, CountUp
    <3>2. n \in 1 .. n BY <1>1, <1>3
    <3>3. n \in U BY <3>1, <3>2
    <3> QED BY <3>3 DEF U
  <2>9. FlattenSeq(seqs) = flatten[n] BY <1>3 DEF FlattenSeq, flatten
  <2> QED BY <2>8, <2>9
<1> QED BY <1>2, <1>3

LEMMA IntItemType ==
  ASSUME NEW item \in Seq(Int)
  PROVE  IntItem(item) \in Seq(Int)
<1>1. CASE Len(item) = 2
  <2>1. item[1] \in Int /\ item[2] \in Int BY <1>1, ElementOfSeq
  <2> DEFINE f == [k \in 1 .. item[2] - item[1] + 1 |-> item[1] + k - 1]
  <2>2. f \in [1 .. item[2] - item[1] + 1 -> Int] BY <2>1
  <2>3. item[2] - item[1] + 1 \in Int BY <2>1
  <2>4. f \in Seq(Int) BY <2>2, <2>3, FunctionIsSeq
  <2> QED BY <1>1, <2>4 DEF IntItem
<1>2. CASE Len(item) # 2 BY <1>2 DEF IntItem
<1> QED BY <1>1, <1>2

LEMMA IntListType ==
  ASSUME NEW text \in Seq(Seq(Int))
  PROVE  parse_int_list(text) \in Seq(Int)
<1> DEFINE items == [i \in DOMAIN text |-> IntItem(text[i])]
<1>1. \A i \in DOMAIN text : text[i] \in Seq(Int)
  BY ElementOfSeq, LenProperties
<1>2. items \in [DOMAIN text -> Seq(Int)] BY <1>1, IntItemType
<1>3. items \in Seq(Seq(Int)) BY <1>2, MapIsSeq
<1> HIDE DEF items
<1>4. FlattenSeq(items) \in Seq(Int) BY <1>3, FlattenType
<1> QED BY <1>4 DEF parse_int_list, items

LEMMA LimitedType ==
  ASSUME NEW S, NEW seq \in Seq(S), NEW limit \in Int
  PROVE  Limited(seq, limit) \in Seq(S)
<1> DEFINE kept == IF limit < 0 THEN Len(seq) + limit ELSE limit
<1>1. Len(seq) \in Nat /\ kept \in Int BY LenProperties
<1>2. CASE limit = 0 \/ kept >= Len(seq) BY <1>2 DEF Limited
<1>3. CASE ~(limit = 0 \/ kept >= Len(seq))
  <2>1. \A i \in 1 .. kept : seq[i] \in S BY <1>1, <1>3, ElementOfSeq
  <2>2. SubSeq(seq, 1, kept) = [i \in 1 .. kept |-> seq[i]] BY <1>1
  <2>3. SubSeq(seq, 1, kept) \in Seq(S) BY <1>1, <2>1, <2>2, FunctionIsSeq
  <2> QED BY <1>3, <2>3 DEF Limited
<1> QED BY <1>2, <1>3

LEMMA CycleType ==
  ASSUME NEW value \in Int \X Units
  PROVE  parse_cycle(value) \in Int
<1>1. PICK n \in Int, unit \in Units : value = <<n, unit>>
  OBVIOUS
<1>2. n * Million \in Int /\ n * Thousand \in Int
  BY SMT DEF Million, Thousand
<1>3. value[1] = n /\ value[2] = unit BY <1>1
<1>4. parse_cycle(value) \in {n * Million, n * Thousand, n}
  BY <1>3 DEF parse_cycle
<1> QED BY <1>2, <1>4

-----------------------------------------------------------------------------
(* The tasks of a command line, and where they are kept.                   *)

(* The configurations that a command line may ask for.                     *)
ConfigsOf(args, kind) ==
  CASE kind = "static" ->
         {Config("static", 0, 0, args.default_ghr_bits,
                 args.default_bht_index_bits, args.default_bht_history_bits)}
    [] kind = "ghr_off" ->
         {Config("ghr_off", 1, 0, 0, i, h) : i \in Int, h \in Int}
    [] kind = "ghr_on" ->
         {Config("ghr_on", 1, 1, g, i, h) : g \in Int, i \in Int, h \in Int}

TasksOf(args, kind) == [config : ConfigsOf(args, kind), cycles : Int]

Strategy == {"static", "ghr_off", "ghr_on"}

LEMMA ConfigType ==
  ASSUME NEW args, IsCommandLine(args), NEW kind \in Strategy
  PROVE  iter_configs(args, kind) \in Seq(ConfigsOf(args, kind))
<1> DEFINE index == parse_int_list(args.bht_index_bits)
           history == parse_int_list(args.bht_history_bits)
           ghr == parse_int_list(args.ghr_bits)
           Histories(dynamic, on, g, i) ==
             [h \in DOMAIN history |-> Config(kind, dynamic, on, g, i, history[h])]
           C == ConfigsOf(args, kind)
<1>1. index \in Seq(Int) /\ history \in Seq(Int) /\ ghr \in Seq(Int)
  BY IntListType DEF IsCommandLine
<1> HIDE DEF index, history, ghr
<1>2. /\ \A i \in DOMAIN index : index[i] \in Int
      /\ \A h \in DOMAIN history : history[h] \in Int
      /\ \A g \in DOMAIN ghr : ghr[g] \in Int
  BY <1>1, ElementOfSeq, LenProperties
<1>3. CASE kind = "static"
  <2> DEFINE c == Config(kind, 0, 0, args.default_ghr_bits,
                         args.default_bht_index_bits, args.default_bht_history_bits)
  <2>1. c \in C BY <1>3 DEF ConfigsOf
  <2> HIDE DEF c, C
  <2>2. <<c>> \in Seq(C) BY <2>1
  <2> QED BY <1>3, <2>2 DEF iter_configs, c, C
<1>4. CASE kind = "ghr_off"
  <2>1. ASSUME NEW i \in DOMAIN index PROVE Histories(1, 0, 0, index[i]) \in Seq(C)
    <3>1. \A h \in DOMAIN history :
            Config(kind, 1, 0, 0, index[i], history[h]) \in C
      BY <1>2, <1>4 DEF ConfigsOf
    <3> HIDE DEF C
    <3>2. Histories(1, 0, 0, index[i]) \in [DOMAIN history -> C] BY <3>1
    <3> HIDE DEF Histories
    <3> QED BY <1>1, <3>2, MapIsSeq
  <2> DEFINE f == [i \in DOMAIN index |-> Histories(1, 0, 0, index[i])]
  <2> HIDE DEF C
  <2>2. f \in [DOMAIN index -> Seq(C)] BY <2>1
  <2> HIDE DEF f
  <2>3. f \in Seq(Seq(C)) BY <1>1, <2>2, MapIsSeq
  <2>4. FlattenSeq(f) \in Seq(C) BY <2>3, FlattenType
  <2> QED BY <1>4, <2>4 DEF iter_configs, f, C, index, history
<1>5. CASE kind = "ghr_on"
  <2>1. ASSUME NEW g \in DOMAIN ghr, NEW i \in DOMAIN index
        PROVE  Histories(1, 1, ghr[g], index[i]) \in Seq(C)
    <3>1. \A h \in DOMAIN history :
            Config(kind, 1, 1, ghr[g], index[i], history[h]) \in C
      BY <1>2, <1>5 DEF ConfigsOf
    <3> HIDE DEF C
    <3>2. Histories(1, 1, ghr[g], index[i]) \in [DOMAIN history -> C] BY <3>1
    <3> HIDE DEF Histories
    <3> QED BY <1>1, <3>2, MapIsSeq
  <2> DEFINE Of(g) == [i \in DOMAIN index |->
                         IF index[i] <= ghr[g] THEN <<>>
                         ELSE Histories(1, 1, ghr[g], index[i])]
             f == [g \in DOMAIN ghr |-> FlattenSeq(Of(g))]
  <2> HIDE DEF C
  <2>2. ASSUME NEW g \in DOMAIN ghr PROVE FlattenSeq(Of(g)) \in Seq(C)
    <3>1. <<>> \in Seq(C) BY EmptySeq
    <3>2. Of(g) \in [DOMAIN index -> Seq(C)] BY <2>1, <3>1
    <3> HIDE DEF Of
    <3>3. Of(g) \in Seq(Seq(C)) BY <1>1, <3>2, MapIsSeq
    <3> QED BY <3>3, FlattenType
  <2> HIDE DEF Of
  <2>3. f \in [DOMAIN ghr -> Seq(C)] BY <2>2
  <2> HIDE DEF f
  <2>4. f \in Seq(Seq(C)) BY <1>1, <2>3, MapIsSeq
  <2>5. FlattenSeq(f) \in Seq(C) BY <2>4, FlattenType
  <2> QED BY <1>5, <2>5 DEF iter_configs, f, Of, C, index, history, ghr
<1> QED BY <1>3, <1>4, <1>5 DEF Strategy

LEMMA TaskType ==
  ASSUME NEW args, IsCommandLine(args), NEW kind \in Strategy
  PROVE  tasks(args, kind) \in Seq(TasksOf(args, kind))
<1> DEFINE all == iter_configs(args, kind)
           configs == Limited(all, args.limit_configs)
           counts == [i \in DOMAIN args.cycles |-> parse_cycle(args.cycles[i])]
           cycles == Limited(counts, args.limit_cycles)
           T == TasksOf(args, kind)
           Row(c) == [y \in DOMAIN cycles |-> [config |-> configs[c], cycles |-> cycles[y]]]
           f == [c \in DOMAIN configs |-> Row(c)]
<1>1. configs \in Seq(ConfigsOf(args, kind))
  <2>1. all \in Seq(ConfigsOf(args, kind)) BY ConfigType
  <2> HIDE DEF all
  <2> QED BY <2>1, LimitedType DEF IsCommandLine
<1>2. cycles \in Seq(Int)
  <2>1. \A i \in DOMAIN args.cycles : args.cycles[i] \in Int \X Units
    <3> DEFINE S == Int \X Units
    <3>1. args.cycles \in Seq(S) BY DEF IsCommandLine
    <3> HIDE DEF S
    <3>2. \A i \in DOMAIN args.cycles : args.cycles[i] \in S
      BY <3>1, ElementOfSeq, LenProperties
    <3> QED BY <3>2 DEF S
  <2>2. counts \in [DOMAIN args.cycles -> Int] BY <2>1, CycleType
  <2> HIDE DEF counts
  <2>3. counts \in Seq(Int) BY <2>2, MapIsSeq DEF IsCommandLine
  <2> QED BY <2>3, LimitedType DEF IsCommandLine
<1> HIDE DEF configs, cycles
<1>3. ASSUME NEW c \in DOMAIN configs PROVE Row(c) \in Seq(T)
  <2>1. configs[c] \in ConfigsOf(args, kind) BY <1>1, ElementOfSeq, LenProperties
  <2>2. \A y \in DOMAIN cycles : cycles[y] \in Int BY <1>2, ElementOfSeq, LenProperties
  <2>3. Row(c) \in [DOMAIN cycles -> T] BY <2>1, <2>2 DEF TasksOf
  <2> HIDE DEF Row, T
  <2> QED BY <1>2, <2>3, MapIsSeq
<1> HIDE DEF T
<1>4. f \in [DOMAIN configs -> Seq(T)] BY <1>3
<1> HIDE DEF f
<1>5. f \in Seq(Seq(T)) BY <1>1, <1>4, MapIsSeq
<1>6. FlattenSeq(f) \in Seq(T) BY <1>5, FlattenType
<1> QED BY <1>6 DEF tasks, f, Row, T, configs, cycles, all, counts

(* A label gives the number of cycles back.                                *)
LEMMA LabelInjective ==
  ASSUME NEW c \in Int, NEW d \in Int, cycle_label(c) = cycle_label(d)
  PROVE  c = d
<1>1. \A n \in Int : /\ n % Million = 0 => n = Million * (n \div Million)
                     /\ n % Thousand = 0 => n = Thousand * (n \div Thousand)
  BY SMT DEF Million, Thousand
<1> QED BY <1>1 DEF cycle_label

(* Measurements with one directory are of one machine and one number of    *)
(* cycles, whatever command lines asked for them; the directories of       *)
(* strategies are apart.                                                   *)
LEMMA SameDirectory ==
  ASSUME NEW a, NEW b, NEW r \in Strategy, NEW s \in Strategy,
         NEW t \in TasksOf(a, r), NEW u \in TasksOf(b, s)
  PROVE  /\ t.config.strategy = r
         /\ run_dir(t)[1] = strategy_root(r)
         /\ strategy_root(r) = strategy_root(s) => r = s
         /\ run_dir(t) = run_dir(u) =>
              /\ r = s
              /\ Machine(t.config) = Machine(u.config)
              /\ t.cycles = u.cycles
              /\ a = b => t = u
<1>1. /\ t.config \in ConfigsOf(a, r) /\ t.cycles \in Int
      /\ t = [config |-> t.config, cycles |-> t.cycles]
  BY DEF TasksOf
<1>2. /\ u.config \in ConfigsOf(b, s) /\ u.cycles \in Int
      /\ u = [config |-> u.config, cycles |-> u.cycles]
  BY DEF TasksOf
<1>3. /\ t.config.strategy = r
      /\ u.config.strategy = s
  BY <1>1, <1>2 DEF ConfigsOf, Config, Strategy
<1>4. run_dir(t)[1] = strategy_root(r) BY <1>3 DEF run_dir
<1>5. strategy_root(r) = strategy_root(s) => r = s
  BY DEF strategy_root, Strategy
<1>6. ASSUME run_dir(t) = run_dir(u)
      PROVE  /\ r = s /\ t.cycles = u.cycles
             /\ Machine(t.config) = Machine(u.config)
             /\ a = b => t = u
  <2>1. r = s BY <1>3, <1>5, <1>6 DEF run_dir
  <2>2. t.cycles = u.cycles
    BY <1>1, <1>2, <1>6, LabelInjective DEF run_dir
  <2>3. CASE r = "static"
    BY <1>1, <1>2, <2>1, <2>2, <2>3 DEF ConfigsOf, Config, Machine
  <2>4. CASE r # "static"
    <3>1. /\ t.config.ghr_bits = u.config.ghr_bits
          /\ t.config.bht_index_bits = u.config.bht_index_bits
          /\ t.config.bht_history_bits = u.config.bht_history_bits
      BY <1>3, <1>6, <2>1, <2>4 DEF run_dir, config_name
    <3>2. t.config = u.config
      BY <1>1, <1>2, <2>1, <2>4, <3>1 DEF ConfigsOf, Config, Strategy
    <3> QED BY <1>1, <1>2, <2>1, <2>2, <3>2
  <2> QED BY <2>1, <2>2, <2>3, <2>4
<1> QED BY <1>3, <1>4, <1>5, <1>6
-----------------------------------------------------------------------------
(* The inductive invariant.                                                *)

(* What a record may hold.                                                 *)
Records ==
  {Record(t, options, verdict, m) :
     t \in AllTasks, options \in {a.options : a \in Invocations},
     verdict \in {"pass", "fail"}, m \in Measures}

SweepTypeOK ==
  /\ argv \in Invocations
  /\ stage \in 1 .. Len(chosen(argv))
  /\ main \in {"pool", "csv", "done", "aborted", "killed"}
  /\ worker \in [TaskIds -> {"queued", "reading", "making", "opening", "writing",
                             "returned", "raised", "broke"}]
  /\ result \in [TaskIds -> {NoResult} \cup Records]
  /\ metrics \in [RunDirs -> {Absent, Empty, Mixed} \cup Records]
  /\ csv \in [Strategy -> SUBSET (Records \cup Committed)]
  /\ broken \subseteq RunDirs
  /\ kills \in Nat

(* A record is in the directory of its task.                               *)
RecordsInPlace ==
  \A d \in RunDirs : Readable(d) => metrics[d].run_dir = d

(* A worker that has something to return or to write has a record of its   *)
(* task, a new one when it was forced.                                     *)
ResultsInv ==
  \A i \in TaskIds :
    /\ worker[i] \in {"opening", "writing", "returned"} => result[i] # NoResult
    /\ result[i] # NoResult =>
         /\ result[i].run_dir = Dir(i)
         /\ argv.force => result[i].made[3] = argv.options

(* What each worker knows of its file.  No other writes it unless the      *)
(* command line repeats a measurement.                                     *)
FileOf(i) ==
  LET file == metrics[Dir(i)]
  IN /\ worker[i] \in {"reading", "writing", "returned", "raised"} => file # Absent
     /\ worker[i] \in {"reading", "raised"} => ~argv.force
     /\ worker[i] = "broke" => Dir(i) \in broken
     /\ worker[i] = "raised" => kills > 0 \/ ~Distinct(argv) \/ file = Mixed
     /\ worker[i] \in {"making", "opening"} /\ Distinct(argv) /\ ~argv.force =>
          file = Absent
     /\ worker[i] = "writing" /\ Distinct(argv) => file = Empty
     /\ worker[i] = "returned" =>
          /\ Distinct(argv) => Readable(Dir(i))
          /\ argv.force /\ Readable(Dir(i)) => file.made[3] = argv.options

FilesInv == \A i \in TaskIds : FileOf(i)

MainInv ==
  /\ main \in {"csv", "done", "aborted"} => PoolDrained
  /\ main = "aborted" => ~Collects(strategy)
  /\ main = "csv" => Collects(strategy) /\ csv[strategy] \subseteq Collected(strategy)
  /\ main = "done" => stage = Len(chosen(argv))

(* The tasks of a strategy have their records, but for those whose make    *)
(* could not be run, and the table of a strategy that is done holds what   *)
(* is below its root.                                                      *)
TaskDone(t) ==
  /\ Readable(DirOf[t])
  /\ argv.force => metrics[DirOf[t]].made[3] = argv.options

TasksDone(s) ==
  \A t \in ToSet(Plan[argv][s]) : DirOf[t] \in broken \/ TaskDone(t)

TableDone(s) == Collects(s) /\ csv[s] = Collected(s) /\ TasksDone(s)

Swept(s) ==
  \E k \in 1 .. Len(chosen(argv)) :
    s = chosen(argv)[k] /\ (k < stage \/ (k = stage /\ main = "done"))

TablesInv == \A s \in Strategy : Swept(s) => TableDone(s)

SweepInv ==
  /\ SweepTypeOK /\ RecordsInPlace /\ ResultsInv /\ FilesInv
  /\ EmptyExplained /\ MainInv /\ TablesInv
-----------------------------------------------------------------------------
(* Facts about the plan of a command line and the files.                   *)

LEMMA ChosenFacts ==
  ASSUME NEW a \in Invocations
  PROVE  /\ ToSet(strategies) = Strategy
         /\ Len(chosen(a)) \in Nat /\ Len(chosen(a)) > 0
         /\ DOMAIN chosen(a) = 1 .. Len(chosen(a))
         /\ \A k \in 1 .. Len(chosen(a)) :
              chosen(a)[k] \in Strategy /\ chosen(a)[k] \in ToSet(chosen(a))
         /\ \A k, l \in 1 .. Len(chosen(a)) : chosen(a)[k] = chosen(a)[l] => k = l
         /\ ToSet(chosen(a)) \subseteq Strategy
<1>1. ToSet(strategies) = Strategy
  <2>1. DOMAIN strategies = 1 .. 3 BY DEF strategies
  <2>2. strategies[1] = "static" /\ strategies[2] = "ghr_off" /\ strategies[3] = "ghr_on"
    BY DEF strategies
  <2>3. \A i \in 1 .. 3 : i = 1 \/ i = 2 \/ i = 3 OBVIOUS
  <2> QED BY <2>1, <2>2, <2>3 DEF ToSet, Strategy
<1>2. a.strategy \in Strategy \cup {"all"}
  BY <1>1, InvocationsAssumption DEF IsCommandLine
<1>3. CASE a.strategy = "all"
  <2>1. chosen(a) = strategies BY <1>3 DEF chosen
  <2>2. Len(strategies) = 3 /\ DOMAIN strategies = 1 .. 3 BY DEF strategies
  <2>3. strategies[1] = "static" /\ strategies[2] = "ghr_off" /\ strategies[3] = "ghr_on"
    BY DEF strategies
  <2>4. \A i \in 1 .. 3 : i = 1 \/ i = 2 \/ i = 3 OBVIOUS
  <2> QED BY <1>1, <2>1, <2>2, <2>3, <2>4 DEF ToSet, Strategy
<1>4. CASE a.strategy # "all"
  <2>1. chosen(a) = <<a.strategy>> /\ a.strategy \in Strategy
    BY <1>2, <1>4 DEF chosen
  <2>2. /\ Len(<<a.strategy>>) = 1 /\ DOMAIN <<a.strategy>> = 1 .. 1
        /\ <<a.strategy>>[1] = a.strategy
    OBVIOUS
  <2>3. \A i \in 1 .. 1 : i = 1 OBVIOUS
  <2> QED BY <1>1, <2>1, <2>2, <2>3 DEF ToSet
<1> QED BY <1>3, <1>4

LEMMA PlanFacts ==
  ASSUME NEW a \in Invocations, NEW s \in ToSet(chosen(a))
  PROVE  /\ s \in Strategy
         /\ Plan[a][s] \in Seq(TasksOf(a, s))
         /\ \A i \in DOMAIN Plan[a][s] :
              /\ Plan[a][s][i] \in TasksOf(a, s)
              /\ Plan[a][s][i] \in AllTasks
              /\ Plan[a][s][i] \in ToSet(Plan[a][s])
         /\ \A t \in ToSet(Plan[a][s]) : t \in AllTasks /\ t \in TasksOf(a, s)
<1>1. s \in Strategy BY ChosenFacts
<1>2. Plan[a][s] = tasks(a, s) BY DEF Plan
<1>3. tasks(a, s) \in Seq(TasksOf(a, s))
  BY <1>1, TaskType, InvocationsAssumption
<1>4. \A i \in DOMAIN Plan[a][s] : Plan[a][s][i] \in TasksOf(a, s)
  BY <1>2, <1>3, ElementOfSeq, LenProperties
<1>5. \A t \in ToSet(Plan[a][s]) : t \in AllTasks BY DEF AllTasks
<1> QED BY <1>1, <1>2, <1>3, <1>4, <1>5 DEF ToSet

LEMMA TaskFacts ==
  ASSUME NEW t \in AllTasks
  PROVE  /\ DirOf[t] = run_dir(t)
         /\ DirOf[t] \in RunDirs
         /\ \E a \in Invocations, s \in Strategy : t \in TasksOf(a, s)
<1>1. PICK a \in Invocations : \E s \in ToSet(chosen(a)) : t \in ToSet(Plan[a][s])
  BY DEF AllTasks
<1>2. PICK s \in ToSet(chosen(a)) : t \in ToSet(Plan[a][s]) BY <1>1
<1>3. s \in Strategy /\ t \in TasksOf(a, s) BY <1>2, PlanFacts
<1> QED BY <1>3 DEF DirOf, RunDirs

(* Tasks with one directory, of any two command lines.                     *)
LEMMA SameFile ==
  ASSUME NEW t \in AllTasks, NEW u \in AllTasks, DirOf[t] = DirOf[u]
  PROVE  Machine(t.config) = Machine(u.config) /\ t.cycles = u.cycles
<1>1. PICK a \in Invocations, r \in Strategy : t \in TasksOf(a, r) BY TaskFacts
<1>2. PICK b \in Invocations, s \in Strategy : u \in TasksOf(b, s) BY TaskFacts
<1>3. run_dir(t) = run_dir(u) BY TaskFacts
<1> QED BY <1>1, <1>2, <1>3, SameDirectory

LEMMA RecordFacts ==
  ASSUME NEW r \in Records
  PROVE  /\ r.kind = "record"
         /\ r # NoResult /\ r # Absent /\ r # Empty /\ r # Mixed
         /\ \E t \in AllTasks : /\ r.run_dir = DirOf[t]
                                /\ r.made[1] = Machine(t.config)
                                /\ r.made[2] = t.cycles
<1>1. PICK t \in AllTasks, options \in {a.options : a \in Invocations},
           verdict \in {"pass", "fail"}, m \in Measures :
        r = Record(t, options, verdict, m)
  BY DEF Records
<1>2. /\ r.kind = "record" /\ r.run_dir = DirOf[t]
      /\ r.made[1] = Machine(t.config) /\ r.made[2] = t.cycles
  BY <1>1 DEF Record
<1> QED BY <1>2 DEF NoResult, Absent, Empty, Mixed

LEMMA NewRecord ==
  ASSUME NEW t \in AllTasks, NEW a \in Invocations,
         NEW verdict \in {"pass", "fail"}, NEW m \in Measures
  PROVE  LET r == Record(t, a.options, verdict, m)
         IN r \in Records /\ r.run_dir = DirOf[t] /\ r.made[3] = a.options
BY DEF Records, Record

(* The content of a file.                                                  *)
LEMMA FileFacts ==
  ASSUME SweepTypeOK, NEW d \in RunDirs
  PROVE  /\ metrics[d] \in {Absent, Empty, Mixed} \cup Records
         /\ Readable(d) <=> metrics[d] \in Records
         /\ Readable(d) \/ Unreadable(d) \/ metrics[d] = Absent
         /\ Readable(d) => metrics[d] \notin {Absent, Empty, Mixed}
         /\ Unreadable(d) => metrics[d] # Absent
         /\ Absent # Empty /\ Empty # Mixed /\ Absent # Mixed
<1>1. metrics[d] \in {Absent, Empty, Mixed} \cup Records BY DEF SweepTypeOK
<1> QED BY <1>1, RecordFacts DEF Readable, Unreadable, Absent, Empty, Mixed

(* The tasks of the strategy being swept.                                  *)
LEMMA SweptTasks ==
  ASSUME SweepTypeOK
  PROVE  /\ argv \in Invocations
         /\ strategy \in Strategy /\ strategy \in ToSet(chosen(argv))
         /\ TaskIds \subseteq Nat
         /\ \A i \in TaskIds :
              /\ Tasks[i] \in AllTasks /\ Tasks[i] \in TasksOf(argv, strategy)
              /\ Dir(i) \in RunDirs /\ Dir(i) = DirOf[Tasks[i]]
              /\ Dir(i)[1] = strategy_root(strategy)
              /\ Dir(i) \in Root(strategy)
         /\ \A i, j \in TaskIds : Dir(i) = Dir(j) => Tasks[i] = Tasks[j]
         /\ Distinct(argv) => \A i, j \in TaskIds : Dir(i) = Dir(j) => i = j
<1>1. argv \in Invocations /\ stage \in 1 .. Len(chosen(argv))
  BY DEF SweepTypeOK
<1>2. strategy \in Strategy /\ strategy \in ToSet(chosen(argv))
  BY <1>1, ChosenFacts DEF strategy
<1>3. Tasks = Plan[argv][strategy] BY DEF Tasks
<1>4. TaskIds \subseteq Nat
  <2>1. TaskIds = 1 .. Len(Tasks) /\ Len(Tasks) \in Nat
    BY <1>1, <1>2, <1>3, PlanFacts, LenProperties DEF TaskIds
  <2> QED BY <2>1
<1>5. \A i \in TaskIds : Tasks[i] \in AllTasks /\ Tasks[i] \in TasksOf(argv, strategy)
  BY <1>1, <1>2, <1>3, PlanFacts DEF TaskIds
<1>6. \A i \in TaskIds : /\ Dir(i) \in RunDirs /\ Dir(i) = DirOf[Tasks[i]]
                         /\ Dir(i) = run_dir(Tasks[i])
  BY <1>5, TaskFacts DEF Dir
<1>7. \A i \in TaskIds : Dir(i)[1] = strategy_root(strategy)
  BY <1>1, <1>2, <1>5, <1>6, SameDirectory
<1>8. \A i, j \in TaskIds : Dir(i) = Dir(j) => Tasks[i] = Tasks[j]
  BY <1>1, <1>2, <1>5, <1>6, SameDirectory
<1>9. Distinct(argv) => \A i, j \in TaskIds : Tasks[i] = Tasks[j] => i = j
  BY <1>1, <1>2, <1>3 DEF Distinct, Repeats, IsInjective, TaskIds
<1> QED BY <1>1, <1>2, <1>4, <1>5, <1>6, <1>7, <1>8, <1>9 DEF Root
-----------------------------------------------------------------------------
(* The steps of a worker.                                                  *)

(* While the command line and the strategy stay, so do the tasks.          *)
LEMMA SameTasks ==
  ASSUME UNCHANGED <<argv, stage>>
  PROVE  /\ strategy' = strategy /\ Tasks' = Tasks /\ TaskIds' = TaskIds
         /\ \A i : Dir(i)' = Dir(i)
BY DEF strategy, Tasks, TaskIds, Dir

(* While a file stays, so does what is read from it.                       *)
LEMMA SameContents ==
  ASSUME NEW d, metrics'[d] = metrics[d]
  PROVE  Readable(d)' = Readable(d) /\ Unreadable(d)' = Unreadable(d)
BY DEF Readable, Unreadable

LEMMA SameTables ==
  ASSUME NEW a \in Invocations, argv = a, argv' = a,
         NEW s \in ToSet(chosen(a)), TableDone(s),
         \A d \in Root(s) : metrics'[d] = metrics[d],
         csv'[s] = csv[s], broken \subseteq broken'
  PROVE  TableDone(s)'
<1>1. \A d \in Root(s) : Readable(d)' = Readable(d) /\ Unreadable(d)' = Unreadable(d)
  BY SameContents
<1>2. Collects(s)' BY <1>1 DEF TableDone, Collects
<1>3. Collected(s)' = Collected(s) BY <1>1 DEF Collected
<1>4. \A t \in ToSet(Plan[a][s]) : DirOf[t] \in Root(s)
  <2> TAKE t \in ToSet(Plan[a][s])
  <2>1. t \in AllTasks /\ t \in TasksOf(a, s) /\ s \in Strategy BY PlanFacts
  <2>2. DirOf[t] = run_dir(t) /\ DirOf[t] \in RunDirs BY <2>1, TaskFacts
  <2> QED BY <2>1, <2>2, SameDirectory DEF Root
<1> QED BY <1>1, <1>2, <1>3, <1>4 DEF TableDone, TasksDone, TaskDone

(* A worker that still has something to do works for the pool.             *)
LEMMA InPool ==
  ASSUME SweepInv, Running, NEW i \in TaskIds, worker[i] \notin {"returned", "raised", "broke"}
  PROVE  main = "pool"
BY DEF SweepInv, MainInv, PoolDrained, Running

(* The directories of the strategies that are done are not written.        *)
LEMMA OtherTables ==
  ASSUME SweepInv, main = "pool", UNCHANGED <<argv, stage, main, csv>>,
         broken \subseteq broken', NEW i \in TaskIds,
         \A d \in RunDirs : d # Dir(i) => metrics'[d] = metrics[d]
  PROVE  TablesInv'
<1>1. /\ argv \in Invocations /\ stage \in 1 .. Len(chosen(argv))
      /\ SweepTypeOK
  BY DEF SweepInv, SweepTypeOK
<1> SUFFICES ASSUME NEW s \in Strategy, Swept(s)' PROVE TableDone(s)'
  BY DEF TablesInv
<1>2. PICK k \in 1 .. Len(chosen(argv)) : s = chosen(argv)[k] /\ k < stage
  BY DEF Swept
<1>3. TableDone(s) BY <1>2 DEF SweepInv, TablesInv, Swept
<1>4. s \in ToSet(chosen(argv)) /\ s # strategy
  BY <1>1, <1>2, ChosenFacts DEF strategy
<1>5. strategy_root(s) # strategy_root(strategy)
  BY <1>1, <1>4, SweptTasks DEF strategy_root, Strategy
<1>6. Dir(i) \notin Root(s) BY <1>1, <1>5, SweptTasks DEF Root
<1>7. \A d \in Root(s) : metrics'[d] = metrics[d] BY <1>6 DEF Root
<1> QED BY <1>1, <1>3, <1>4, <1>7, SameTables

(* What keeps when only one worker and its result change.                  *)
LEMMA NoFileWritten ==
  ASSUME SweepInv, main = "pool", NEW i \in TaskIds,
         UNCHANGED <<argv, stage, main, metrics, csv, kills>>,
         worker[i] # "writing",
         NEW w \in {"queued", "reading", "making", "opening", "returned", "raised",
                    "broke"},
         broken \subseteq broken', broken' \subseteq RunDirs,
         worker' = [worker EXCEPT ![i] = w],
         NEW r \in {NoResult} \cup Records,
         result' = [result EXCEPT ![i] = r],
         w \in {"opening", "returned"} => r # NoResult,
         r # NoResult => /\ r.run_dir = Dir(i)
                         /\ argv.force => r.made[3] = argv.options,
         FileOf(i)'
  PROVE  SweepInv'
<1>1. /\ SweepTypeOK /\ TaskIds' = TaskIds /\ strategy' = strategy
      /\ \A j : Dir(j)' = Dir(j)
      /\ worker' \in [TaskIds -> {"queued", "reading", "making", "opening", "writing",
                             "returned", "raised", "broke"}]
      /\ worker'[i] = w /\ \A j \in TaskIds : j # i => worker'[j] = worker[j]
      /\ result' \in [TaskIds -> {NoResult} \cup Records]
      /\ result'[i] = r /\ \A j \in TaskIds : j # i => result'[j] = result[j]
  BY SameTasks DEF SweepInv, SweepTypeOK
<1>2. SweepTypeOK' BY <1>1 DEF SweepTypeOK
<1>3. \A d : Readable(d)' = Readable(d) /\ Unreadable(d)' = Unreadable(d)
  BY SameContents
<1>4. RecordsInPlace' BY <1>3 DEF SweepInv, RecordsInPlace
<1>5. ResultsInv' BY <1>1 DEF SweepInv, ResultsInv
<1>6. FilesInv'
  <2> SUFFICES ASSUME NEW j \in TaskIds, j # i PROVE FileOf(j)'
    BY <1>1 DEF FilesInv
  <2>1. FileOf(j) BY DEF SweepInv, FilesInv
  <2>2. worker'[j] = worker[j] /\ Dir(j)' = Dir(j) BY <1>1
  <2> QED BY <1>3, <2>1, <2>2 DEF FileOf
<1>7. EmptyExplained' BY <1>1 DEF SweepInv, EmptyExplained
<1>8. MainInv' BY <1>1 DEF MainInv
<1>9. TablesInv' BY OtherTables
<1> QED BY <1>2, <1>4, <1>5, <1>6, <1>7, <1>8, <1>9 DEF SweepInv

LEMMA StartKeeps ==
  ASSUME SweepInv, Running, NEW i \in TaskIds, StartCached(i) \/ StartMake(i)
  PROVE  SweepInv'
<1>1. /\ SweepTypeOK /\ worker[i] = "queued" /\ main = "pool"
      /\ UNCHANGED <<argv, stage, main, result, metrics, csv, broken, kills>>
      /\ broken \subseteq RunDirs
      /\ \A j : Dir(j)' = Dir(j)
  BY SameTasks DEF SweepInv, SweepTypeOK, StartCached, StartMake, MayStart
<1>2. /\ result[i] \in {NoResult} \cup Records
      /\ result' = [result EXCEPT ![i] = result[i]]
      /\ result[i] # NoResult => /\ result[i].run_dir = Dir(i)
                                 /\ argv.force => result[i].made[3] = argv.options
  BY <1>1 DEF SweepInv, SweepTypeOK, ResultsInv
<1>3. DOMAIN worker = TaskIds BY <1>1 DEF SweepTypeOK
<1>4. CASE StartCached(i)
  <2>1. worker' = [worker EXCEPT ![i] = "reading"] BY <1>4 DEF StartCached
  <2>2. FileOf(i)' BY <1>1, <1>3, <1>4, <2>1 DEF FileOf, StartCached, UseCached
  <2> QED BY <1>1, <1>2, <2>1, <2>2, NoFileWritten
<1>5. CASE StartMake(i)
  <2>1. worker' = [worker EXCEPT ![i] = "making"] BY <1>5 DEF StartMake
  <2>2. FileOf(i)' BY <1>1, <1>3, <1>5, <2>1 DEF FileOf, StartMake, UseCached
  <2> QED BY <1>1, <1>2, <2>1, <2>2, NoFileWritten
<1> QED BY <1>4, <1>5

LEMMA ReadKeeps ==
  ASSUME SweepInv, Running, NEW i \in TaskIds, ReadCached(i)
  PROVE  SweepInv'
<1>1. /\ SweepTypeOK /\ worker[i] = "reading" /\ main = "pool"
      /\ UNCHANGED <<argv, stage, main, metrics, csv, broken, kills>>
      /\ broken \subseteq RunDirs
      /\ \A j : Dir(j)' = Dir(j)
      /\ DOMAIN worker = TaskIds /\ DOMAIN result = TaskIds
  BY SameTasks, InPool DEF SweepInv, SweepTypeOK, ReadCached
<1>2. ~argv.force /\ metrics[Dir(i)] # Absent
  BY <1>1 DEF SweepInv, FilesInv, FileOf
<1>3. Dir(i) \in RunDirs BY <1>1, SweptTasks
<1>4. CASE Readable(Dir(i))
  <2> DEFINE r == metrics[Dir(i)]
  <2>1. /\ worker' = [worker EXCEPT ![i] = "returned"]
        /\ result' = [result EXCEPT ![i] = r]
    BY <1>4 DEF ReadCached
  <2>2. r \in Records /\ r.run_dir = Dir(i) /\ r # NoResult
    BY <1>1, <1>3, <1>4, FileFacts, RecordFacts DEF SweepInv, RecordsInPlace
  <2>3. FileOf(i)'
    <3>1. Readable(Dir(i))' BY <1>1, <1>4 DEF Readable
    <3> QED BY <1>1, <1>2, <2>1, <3>1 DEF FileOf
  <2> HIDE DEF r
  <2> QED BY <1>1, <1>2, <2>1, <2>2, <2>3, NoFileWritten
<1>5. CASE ~Readable(Dir(i))
  <2>1. /\ worker' = [worker EXCEPT ![i] = "raised"]
        /\ result' = [result EXCEPT ![i] = result[i]]
    BY <1>1, <1>5 DEF ReadCached, SweepTypeOK
  <2>2. /\ result[i] \in {NoResult} \cup Records
        /\ result[i] # NoResult => /\ result[i].run_dir = Dir(i)
                                   /\ argv.force => result[i].made[3] = argv.options
    BY <1>1 DEF SweepInv, SweepTypeOK, ResultsInv
  <2>3. metrics[Dir(i)] \in {Empty, Mixed}
    BY <1>1, <1>2, <1>3, <1>5, FileFacts
  <2>4. kills > 0 \/ ~Distinct(argv) \/ metrics[Dir(i)] = Mixed
    <3> SUFFICES ASSUME metrics[Dir(i)] = Empty, ~(kills > 0) PROVE ~Distinct(argv)
      BY <2>3
    <3>1. PICK j \in TaskIds : worker[j] = "writing" /\ Dir(j) = Dir(i)
      BY <1>3 DEF SweepInv, EmptyExplained
    <3>2. j # i BY <1>1, <3>1
    <3> QED BY <1>1, <3>1, <3>2, SweptTasks
  <2>5. FileOf(i)' BY <1>1, <1>2, <2>1, <2>4 DEF FileOf
  <2> QED BY <1>1, <2>1, <2>2, <2>5, NoFileWritten
<1> QED BY <1>4, <1>5

LEMMA MakeKeeps ==
  ASSUME SweepInv, Running, NEW i \in TaskIds, MakeEnds(i)
  PROVE  SweepInv'
<1>1. /\ SweepTypeOK /\ worker[i] = "making" /\ main = "pool"
      /\ UNCHANGED <<argv, stage, main, metrics, csv, broken, kills>>
      /\ broken \subseteq RunDirs
      /\ \A j : Dir(j)' = Dir(j)
      /\ DOMAIN worker = TaskIds
  BY SameTasks, InPool DEF SweepInv, SweepTypeOK, MakeEnds
<1>2. PICK verdict \in {"pass", "fail"}, m \in Measures :
        result' = [result EXCEPT ![i] = Record(Tasks[i], argv.options, verdict, m)]
  BY DEF MakeEnds
<1> DEFINE r == Record(Tasks[i], argv.options, verdict, m)
<1>3. r \in Records /\ r.run_dir = Dir(i) /\ r.made[3] = argv.options
  BY <1>1, SweptTasks, NewRecord
<1>4. worker' = [worker EXCEPT ![i] = "opening"] BY DEF MakeEnds
<1>5. FileOf(i)'
  <2>1. FileOf(i) BY DEF SweepInv, FilesInv
  <2> QED BY <1>1, <1>4, <2>1 DEF FileOf
<1>6. result' = [result EXCEPT ![i] = r] BY <1>2
<1> HIDE DEF r
<1>7. r # NoResult BY <1>3, RecordFacts
<1> QED BY <1>1, <1>3, <1>4, <1>5, <1>6, <1>7, NoFileWritten

LEMMA MakeRaisesKeeps ==
  ASSUME SweepInv, Running, NEW i \in TaskIds, MakeRaises(i)
  PROVE  SweepInv'
<1>1. /\ SweepTypeOK /\ worker[i] = "making" /\ main = "pool"
      /\ UNCHANGED <<argv, stage, main, result, metrics, csv, kills>>
      /\ broken' = broken \cup {Dir(i)} /\ broken \subseteq RunDirs
      /\ worker' = [worker EXCEPT ![i] = "broke"]
      /\ \A j : Dir(j)' = Dir(j)
      /\ DOMAIN worker = TaskIds /\ DOMAIN result = TaskIds
  BY SameTasks, InPool DEF SweepInv, SweepTypeOK, MakeRaises
<1>2. /\ result[i] \in {NoResult} \cup Records
      /\ result' = [result EXCEPT ![i] = result[i]]
      /\ result[i] # NoResult => /\ result[i].run_dir = Dir(i)
                                 /\ argv.force => result[i].made[3] = argv.options
  BY <1>1 DEF SweepInv, SweepTypeOK, ResultsInv
<1>3. Dir(i) \in RunDirs BY <1>1, SweptTasks
<1>4. broken \subseteq broken' /\ broken' \subseteq RunDirs BY <1>1, <1>3
<1>5. FileOf(i)' BY <1>1 DEF FileOf
<1> QED BY <1>1, <1>2, <1>4, <1>5, NoFileWritten

(* What keeps when a worker writes its file: nobody else relies on it      *)
(* unless the command line repeats the measurement.                        *)
LEMMA FileWritten ==
  ASSUME SweepInv, main = "pool", NEW i \in TaskIds,
         worker[i] \in {"opening", "writing"},
         UNCHANGED <<argv, stage, main, result, csv, broken, kills>>,
         NEW w \in {"writing", "returned"},
         worker' = [worker EXCEPT ![i] = w],
         NEW file \in {Empty, Mixed} \cup Records,
         metrics' = [metrics EXCEPT ![Dir(i)] = file],
         file = Empty <=> w = "writing",
         file = Mixed => ~Distinct(argv),
         file \in Records =>
           file.run_dir = Dir(i) /\ (argv.force => file.made[3] = argv.options)
  PROVE  SweepInv'
<1>1. /\ SweepTypeOK /\ TaskIds' = TaskIds /\ strategy' = strategy
      /\ \A j : Dir(j)' = Dir(j)
      /\ worker' \in [TaskIds -> {"queued", "reading", "making", "opening", "writing",
                             "returned", "raised", "broke"}]
      /\ worker'[i] = w /\ \A j \in TaskIds : j # i => worker'[j] = worker[j]
  BY SameTasks DEF SweepInv, SweepTypeOK
<1>2. /\ \A j \in TaskIds : Dir(j) \in RunDirs
      /\ \A j \in TaskIds : j # i /\ Dir(j) = Dir(i) => ~Distinct(argv)
  BY <1>1, SweptTasks
<1>3. /\ metrics' \in [RunDirs -> {Absent, Empty, Mixed} \cup Records]
      /\ metrics'[Dir(i)] = file
      /\ \A d \in RunDirs : d # Dir(i) => metrics'[d] = metrics[d]
  BY <1>1, <1>2 DEF SweepTypeOK
<1>4. SweepTypeOK' BY <1>1, <1>3 DEF SweepTypeOK
<1>5. /\ \A d \in RunDirs : d # Dir(i) =>
           Readable(d)' = Readable(d) /\ Unreadable(d)' = Unreadable(d)
      /\ Readable(Dir(i))' <=> file \in Records
      /\ file # Absent /\ Empty # Mixed /\ Empty \notin Records /\ Mixed \notin Records
  <2>1. file # Absent /\ Empty # Mixed /\ Empty \notin Records /\ Mixed \notin Records
    BY RecordFacts DEF Absent, Empty, Mixed
  <2>2. Readable(Dir(i))' <=> file \in Records
    <3>1. Readable(Dir(i))' <=> file.kind = "record" BY <1>1, <1>3 DEF Readable
    <3> QED BY <3>1, RecordFacts DEF Empty, Mixed
  <2>3. \A d \in RunDirs : d # Dir(i) =>
          Readable(d)' = Readable(d) /\ Unreadable(d)' = Unreadable(d)
    BY <1>3, SameContents
  <2> QED BY <2>1, <2>2, <2>3
<1>6. RecordsInPlace'
  <2> SUFFICES ASSUME NEW d \in RunDirs, Readable(d)' PROVE metrics'[d].run_dir = d
    BY DEF RecordsInPlace
  <2>1. CASE d = Dir(i)
    <3>1. file \in Records BY <1>1, <1>5, <2>1
    <3> QED BY <1>3, <2>1, <3>1
  <2>2. CASE d # Dir(i) BY <1>3, <1>5, <2>2 DEF SweepInv, RecordsInPlace
  <2> QED BY <2>1, <2>2
<1>7. ResultsInv'
  <2>1. result'[i] = result[i] /\ result[i] # NoResult BY DEF SweepInv, ResultsInv
  <2> QED BY <1>1, <2>1 DEF SweepInv, ResultsInv
<1>8. FilesInv'
  <2> SUFFICES ASSUME NEW j \in TaskIds PROVE FileOf(j)'
    BY <1>1 DEF FilesInv
  <2>1. FileOf(j) /\ Dir(j)' = Dir(j) /\ argv' = argv /\ kills' = kills
    BY <1>1 DEF SweepInv, FilesInv
  <2>2. CASE j = i
    <3>1. Readable(Dir(j))' <=> file \in Records BY <1>5, <2>2
    <3> QED BY <1>1, <1>3, <1>5, <2>1, <2>2, <3>1 DEF FileOf, Distinct
  <2>3. CASE j # i /\ Dir(j) = Dir(i)
    <3>1. ~Distinct(argv) /\ ~Distinct(argv)' BY <1>2, <2>1, <2>3 DEF Distinct
    <3>2. Readable(Dir(j))' <=> file \in Records
      BY <1>1, <1>5, <2>1, <2>3 DEF Readable
    <3>3. metrics'[Dir(j)] = file /\ worker'[j] = worker[j] BY <1>1, <1>3, <2>3
    <3> QED BY <1>5, <2>1, <3>1, <3>2, <3>3 DEF FileOf
  <2>4. CASE j # i /\ Dir(j) # Dir(i)
    BY <1>1, <1>2, <1>3, <1>5, <2>1, <2>4 DEF FileOf, Distinct
  <2> QED BY <2>2, <2>3, <2>4
<1>9. EmptyExplained'
  <2> SUFFICES ASSUME NEW d \in RunDirs, metrics'[d] = Empty, ~(kills > 0)
               PROVE  \E j \in TaskIds : worker'[j] = "writing" /\ Dir(j) = d
    BY <1>1 DEF EmptyExplained
  <2>1. CASE d = Dir(i) BY <1>1, <1>3, <2>1
  <2>2. CASE d # Dir(i)
    <3>1. PICK j \in TaskIds : worker[j] = "writing" /\ Dir(j) = d
      BY <1>3, <2>2 DEF SweepInv, EmptyExplained
    <3> QED BY <1>1, <2>2, <3>1
  <2> QED BY <2>1, <2>2
<1>10. MainInv' BY <1>1 DEF MainInv
<1>11. TablesInv' BY <1>3, OtherTables
<1> QED BY <1>4, <1>6, <1>7, <1>8, <1>9, <1>10, <1>11 DEF SweepInv

LEMMA OpenKeeps ==
  ASSUME SweepInv, Running, NEW i \in TaskIds, OpenMetrics(i)
  PROVE  SweepInv'
<1>1. main = "pool" BY InPool DEF OpenMetrics
<1>2. Empty # Mixed /\ Empty \notin Records
  BY RecordFacts DEF Empty, Mixed
<1> QED BY <1>1, <1>2, FileWritten DEF OpenMetrics

LEMMA CloseKeeps ==
  ASSUME SweepInv, Running, NEW i \in TaskIds, CloseMetrics(i)
  PROVE  SweepInv'
<1>1. main = "pool" /\ worker[i] = "writing" BY InPool DEF CloseMetrics
<1>2. /\ result[i] \in Records /\ result[i].run_dir = Dir(i)
      /\ argv.force => result[i].made[3] = argv.options
  BY <1>1 DEF SweepInv, SweepTypeOK, ResultsInv
<1>3. /\ Empty # Mixed /\ Empty \notin Records /\ Mixed \notin Records
  BY RecordFacts DEF Empty, Mixed
<1>4. CASE metrics' = [metrics EXCEPT ![Dir(i)] = result[i]]
  <2> DEFINE r == result[i]
  <2>1. r \in Records /\ r # Empty /\ r # Mixed BY <1>2, <1>3
  <2>2. /\ UNCHANGED <<argv, stage, main, result, csv, broken, kills>>
        /\ worker' = [worker EXCEPT ![i] = "returned"]
    BY DEF CloseMetrics
  <2>3. metrics' = [metrics EXCEPT ![Dir(i)] = r] BY <1>4
  <2>4. r.run_dir = Dir(i) /\ (argv.force => r.made[3] = argv.options) BY <1>2
  <2> HIDE DEF r
  <2> QED BY <1>1, <2>1, <2>2, <2>3, <2>4, FileWritten
<1>5. CASE metrics[Dir(i)] # Empty /\ metrics' = [metrics EXCEPT ![Dir(i)] = Mixed]
  <2>1. ~Distinct(argv) BY <1>1, <1>5 DEF SweepInv, FilesInv, FileOf
  <2> QED BY <1>1, <1>3, <1>5, <2>1, FileWritten DEF CloseMetrics
<1> QED BY <1>4, <1>5 DEF CloseMetrics

LEMMA WorkKeeps ==
  ASSUME SweepInv, Worker
  PROVE  SweepInv'
<1>1. PICK i \in TaskIds : Work(i) BY DEF Worker
<1>2. Running BY DEF Worker
<1> QED BY <1>1, <1>2, StartKeeps, ReadKeeps, MakeKeeps, MakeRaisesKeeps, OpenKeeps,
          CloseKeeps DEF Work

-----------------------------------------------------------------------------
(* The steps of the main thread.                                           *)

(* What keeps when the workers and their files stay.                       *)
LEMMA PoolKeeps ==
  ASSUME SweepInv, UNCHANGED <<argv, stage, worker, result, metrics, broken>>,
         kills > 0 => kills' > 0
  PROVE  /\ TaskIds' = TaskIds /\ strategy' = strategy
         /\ \A s : Collects(s)' = Collects(s) /\ Collected(s)' = Collected(s)
         /\ PoolDrained' = PoolDrained
         /\ RecordsInPlace' /\ ResultsInv' /\ FilesInv'
         /\ \A s : TasksDone(s)' = TasksDone(s)
         /\ \A s : TableDone(s) /\ csv'[s] = csv[s] => TableDone(s)'
<1>1. /\ TaskIds' = TaskIds /\ strategy' = strategy /\ Tasks' = Tasks
      /\ \A j : Dir(j)' = Dir(j)
  BY SameTasks
<1>2. \A d : Readable(d)' = Readable(d) /\ Unreadable(d)' = Unreadable(d)
  BY SameContents
<1>3. \A s : Collects(s)' = Collects(s) /\ Collected(s)' = Collected(s)
  BY <1>2 DEF Collects, Collected
<1>4. PoolDrained' = PoolDrained BY <1>1 DEF PoolDrained
<1>5. RecordsInPlace' BY <1>2 DEF SweepInv, RecordsInPlace
<1>6. ResultsInv' BY <1>1 DEF SweepInv, ResultsInv
<1>7. FilesInv'
  <2> SUFFICES ASSUME NEW j \in TaskIds PROVE FileOf(j)'
    BY <1>1 DEF FilesInv
  <2>1. FileOf(j) BY DEF SweepInv, FilesInv
  <2>2. Dir(j)' = Dir(j) /\ Readable(Dir(j))' = Readable(Dir(j))
    BY <1>1 DEF Readable
  <2> QED BY <2>1, <2>2 DEF FileOf, Distinct
<1>8. \A s : TasksDone(s)' = TasksDone(s) BY <1>2 DEF TasksDone, TaskDone
<1>9. \A s : TableDone(s) /\ csv'[s] = csv[s] => TableDone(s)'
  BY <1>3, <1>8 DEF TableDone
<1> QED BY <1>1, <1>3, <1>4, <1>5, <1>6, <1>7, <1>8, <1>9

(* Once the pool is drained and the records have been read, every task has *)
(* its record, and no file is empty without a kill.                        *)
LEMMA Drained ==
  ASSUME SweepInv, PoolDrained
  PROVE  /\ Collects(strategy) => TasksDone(strategy)
         /\ \A d \in RunDirs : metrics[d] = Empty => kills > 0
<1>1. ASSUME Collects(strategy) PROVE TasksDone(strategy)
  <2> SUFFICES ASSUME NEW t \in ToSet(Plan[argv][strategy])
               PROVE  DirOf[t] \in broken \/ TaskDone(t)
    BY DEF TasksDone
  <2>1. PICK i \in TaskIds : Tasks[i] = t BY DEF ToSet, TaskIds, Tasks
  <2>2. /\ Dir(i) = DirOf[t] /\ Dir(i) \in Root(strategy) /\ Dir(i) \in RunDirs
        /\ SweepTypeOK /\ FileOf(i) /\ worker[i] \in {"returned", "raised", "broke"}
    BY <2>1, SweptTasks DEF SweepInv, FilesInv, PoolDrained
  <2>3. ~Unreadable(Dir(i)) BY <1>1, <2>2 DEF Collects
  <2>4. CASE worker[i] = "broke" BY <2>2, <2>4 DEF FileOf
  <2>5. CASE worker[i] \in {"returned", "raised"}
    <3>1. Readable(Dir(i)) BY <2>2, <2>3, <2>5, FileFacts DEF FileOf
    <3> QED BY <2>2, <2>5, <3>1 DEF FileOf, TaskDone
  <2> QED BY <2>2, <2>4, <2>5
<1>2. \A i \in TaskIds : worker[i] # "writing" BY DEF PoolDrained
<1> QED BY <1>1, <1>2 DEF SweepInv, EmptyExplained

(* A strategy that starts finds its tasks queued.                          *)
LEMMA QueuedKeeps ==
  ASSUME argv' \in Invocations, stage' \in 1 .. Len(chosen(argv')),
         worker' = AllQueued(argv', stage'), result' = NoResults(argv', stage')
  PROVE  /\ worker' \in [TaskIds' -> {"queued", "reading", "making", "opening", "writing",
                                      "returned", "raised", "broke"}]
         /\ result' \in [TaskIds' -> {NoResult} \cup Records]
         /\ ResultsInv' /\ FilesInv'
<1>1. TaskIds' = DOMAIN Plan[argv'][chosen(argv')[stage']]
  BY DEF TaskIds, Tasks, strategy
<1>2. /\ worker' = [i \in TaskIds' |-> "queued"]
      /\ result' = [i \in TaskIds' |-> NoResult]
  BY <1>1 DEF AllQueued, NoResults
<1>3. \A i \in TaskIds' : worker'[i] = "queued" /\ result'[i] = NoResult BY <1>2
<1>4. ResultsInv' BY <1>3 DEF ResultsInv
<1>5. FilesInv' BY <1>3 DEF FilesInv, FileOf
<1> QED BY <1>2, <1>4, <1>5

LEMMA OpenCsvKeeps ==
  ASSUME SweepInv, OpenCsv
  PROVE  SweepInv'
<1>1. /\ SweepTypeOK /\ main = "pool" /\ main' = "csv" /\ PoolDrained
      /\ Collects(strategy) /\ csv' = [csv EXCEPT ![strategy] = {}]
      /\ UNCHANGED <<argv, stage, worker, result, metrics, broken, kills>>
  BY DEF SweepInv, OpenCsv
<1>2. strategy \in Strategy BY <1>1, SweptTasks
<1>3. /\ csv' \in [Strategy -> SUBSET (Records \cup Committed)]
      /\ csv'[strategy] = {}
      /\ \A s \in Strategy : s # strategy => csv'[s] = csv[s]
  BY <1>1, <1>2 DEF SweepTypeOK
<1>4. SweepTypeOK' BY <1>1, <1>3, PoolKeeps DEF SweepTypeOK
<1>5. EmptyExplained' BY <1>1, Drained DEF EmptyExplained
<1>6. MainInv' BY <1>1, <1>3, PoolKeeps DEF MainInv
<1>7. TablesInv'
  <2> SUFFICES ASSUME NEW s \in Strategy, Swept(s)' PROVE TableDone(s)'
    BY DEF TablesInv
  <2>1. PICK k \in 1 .. Len(chosen(argv)) : s = chosen(argv)[k] /\ k < stage
    BY <1>1 DEF Swept
  <2>2. TableDone(s) BY <2>1 DEF SweepInv, TablesInv, Swept
  <2>3. s # strategy BY <1>1, <2>1, ChosenFacts DEF strategy, SweepTypeOK
  <2> QED BY <1>1, <1>3, <2>2, <2>3, PoolKeeps
<1> QED BY <1>1, <1>4, <1>5, <1>6, <1>7, PoolKeeps DEF SweepInv

LEMMA CollectRaisesKeeps ==
  ASSUME SweepInv, CollectRaises
  PROVE  SweepInv'
<1>1. /\ SweepTypeOK /\ main = "pool" /\ main' = "aborted" /\ PoolDrained
      /\ ~Collects(strategy)
      /\ UNCHANGED <<argv, stage, worker, result, metrics, csv, broken, kills>>
  BY DEF SweepInv, CollectRaises
<1>2. SweepTypeOK' BY <1>1, PoolKeeps DEF SweepTypeOK
<1>3. EmptyExplained' BY <1>1, Drained DEF EmptyExplained
<1>4. MainInv' BY <1>1, PoolKeeps DEF MainInv
<1>5. TablesInv' BY <1>1, PoolKeeps DEF SweepInv, TablesInv, Swept
<1> QED BY <1>1, <1>2, <1>3, <1>4, <1>5, PoolKeeps DEF SweepInv

LEMMA WriteRowKeeps ==
  ASSUME SweepInv, WriteRow
  PROVE  SweepInv'
<1>1. /\ SweepTypeOK /\ main = "csv" /\ main' = "csv" /\ PoolDrained
      /\ Collects(strategy) /\ csv[strategy] \subseteq Collected(strategy)
      /\ UNCHANGED <<argv, stage, worker, result, metrics, broken, kills>>
  BY DEF SweepInv, MainInv, WriteRow
<1>2. PICK row \in Collected(strategy) :
        csv' = [csv EXCEPT ![strategy] = @ \cup {row}]
  BY DEF WriteRow
<1>3. strategy \in Strategy BY <1>1, SweptTasks
<1>4. row \in Records
  <2>1. PICK d \in RunDirs : Readable(d) /\ row = metrics[d]
    BY DEF Collected, Root
  <2> QED BY <1>1, <2>1, FileFacts
<1>5. /\ csv' \in [Strategy -> SUBSET (Records \cup Committed)]
      /\ csv'[strategy] \subseteq Collected(strategy)
      /\ \A s \in Strategy : s # strategy => csv'[s] = csv[s]
  BY <1>1, <1>2, <1>3, <1>4 DEF SweepTypeOK
<1>6. SweepTypeOK' BY <1>1, <1>5, PoolKeeps DEF SweepTypeOK
<1>7. EmptyExplained' BY <1>1, Drained DEF EmptyExplained
<1>8. MainInv' BY <1>1, <1>5, PoolKeeps DEF MainInv
<1>9. TablesInv'
  <2> SUFFICES ASSUME NEW s \in Strategy, Swept(s)' PROVE TableDone(s)'
    BY DEF TablesInv
  <2>1. PICK k \in 1 .. Len(chosen(argv)) : s = chosen(argv)[k] /\ k < stage
    BY <1>1 DEF Swept
  <2>2. TableDone(s) BY <2>1 DEF SweepInv, TablesInv, Swept
  <2>3. s # strategy BY <1>1, <2>1, ChosenFacts DEF strategy, SweepTypeOK
  <2> QED BY <1>1, <1>5, <2>2, <2>3, PoolKeeps
<1> QED BY <1>1, <1>6, <1>7, <1>8, <1>9, PoolKeeps DEF SweepInv

LEMMA NextStrategyKeeps ==
  ASSUME SweepInv, NextStrategy
  PROVE  SweepInv'
<1>1. /\ SweepTypeOK /\ main = "csv" /\ PoolDrained
      /\ argv \in Invocations /\ stage \in 1 .. Len(chosen(argv))
      /\ Collects(strategy) /\ csv[strategy] = Collected(strategy)
      /\ UNCHANGED <<argv, metrics, csv, broken, kills>>
  BY DEF SweepInv, SweepTypeOK, MainInv, NextStrategy
<1>2. TableDone(strategy) BY <1>1, Drained DEF TableDone
<1>3. Len(chosen(argv)) \in Nat BY <1>1, ChosenFacts
<1>4. EmptyExplained' BY <1>1, Drained DEF EmptyExplained
<1>5. ASSUME NEW s \in Strategy,
             \/ Swept(s) \/ s = strategy
      PROVE  TableDone(s)
  BY <1>2, <1>5 DEF SweepInv, TablesInv
<1>6. CASE stage < Len(chosen(argv))
  <2>1. /\ stage' = stage + 1 /\ main' = "pool"
        /\ worker' = AllQueued(argv', stage') /\ result' = NoResults(argv', stage')
    BY <1>1, <1>6 DEF NextStrategy
  <2>2. argv' \in Invocations /\ stage' \in 1 .. Len(chosen(argv'))
    BY <1>1, <1>3, <1>6, <2>1
  <2>3. SweepTypeOK' BY <1>1, <2>1, <2>2, QueuedKeeps DEF SweepTypeOK
  <2>4. \A d : Readable(d)' = Readable(d) /\ Unreadable(d)' = Unreadable(d)
    BY <1>1, SameContents
  <2>5. RecordsInPlace' BY <1>1, <2>4 DEF SweepInv, RecordsInPlace
  <2>6. MainInv' BY <2>1 DEF MainInv
  <2>7. TablesInv'
    <3> SUFFICES ASSUME NEW s \in Strategy, Swept(s)' PROVE TableDone(s)'
      BY DEF TablesInv
    <3>1. PICK k \in 1 .. Len(chosen(argv)) : s = chosen(argv)[k] /\ k < stage + 1
      BY <1>1, <2>1 DEF Swept
    <3>2. Swept(s) \/ s = strategy BY <1>1, <1>3, <3>1 DEF Swept, strategy
    <3>3. TableDone(s) BY <1>5, <3>2
    <3>4. Collects(s)' = Collects(s) /\ Collected(s)' = Collected(s)
          /\ TasksDone(s)' = TasksDone(s)
      BY <1>1, <2>4 DEF Collects, Collected, TasksDone, TaskDone
    <3> QED BY <1>1, <3>3, <3>4 DEF TableDone
  <2> QED BY <1>4, <2>1, <2>2, <2>3, <2>5, <2>6, <2>7, QueuedKeeps DEF SweepInv
<1>7. CASE ~(stage < Len(chosen(argv)))
  <2>1. main' = "done" /\ UNCHANGED <<stage, worker, result>>
    BY <1>7 DEF NextStrategy
  <2>2. SweepTypeOK' BY <1>1, <2>1, PoolKeeps DEF SweepTypeOK
  <2>3. stage = Len(chosen(argv)) BY <1>1, <1>3, <1>7
  <2>4. MainInv' BY <1>1, <2>1, <2>3, PoolKeeps DEF MainInv
  <2>5. TablesInv'
    <3> SUFFICES ASSUME NEW s \in Strategy, Swept(s)' PROVE TableDone(s)'
      BY DEF TablesInv
    <3>1. PICK k \in 1 .. Len(chosen(argv)) : s = chosen(argv)[k] /\ (k < stage \/ k = stage)
      BY <1>1, <2>1 DEF Swept
    <3>2. Swept(s) \/ s = strategy BY <3>1 DEF Swept, strategy
    <3>3. TableDone(s) BY <1>5, <3>2
    <3> QED BY <1>1, <2>1, <3>3, PoolKeeps
  <2> QED BY <1>1, <1>4, <2>1, <2>2, <2>4, <2>5, PoolKeeps DEF SweepInv
<1> QED BY <1>6, <1>7

LEMMA KillKeeps ==
  ASSUME SweepInv, Kill
  PROVE  SweepInv'
<1>1. /\ SweepTypeOK /\ kills \in Nat /\ main' = "killed" /\ kills' = kills + 1
      /\ UNCHANGED <<argv, stage, worker, result, metrics, csv, broken>>
  BY DEF SweepInv, SweepTypeOK, Kill
<1>2. kills' \in Nat /\ kills' > 0 BY <1>1
<1>3. SweepTypeOK' BY <1>1, <1>2, PoolKeeps DEF SweepTypeOK
<1>4. EmptyExplained' BY <1>2 DEF EmptyExplained
<1>5. MainInv' BY <1>1 DEF MainInv
<1>6. TablesInv'
  <2> SUFFICES ASSUME NEW s \in Strategy, Swept(s)' PROVE TableDone(s)'
    BY DEF TablesInv
  <2>1. TableDone(s) BY <1>1 DEF SweepInv, TablesInv, Swept
  <2> QED BY <1>1, <1>2, <2>1, PoolKeeps
<1> QED BY <1>1, <1>2, <1>3, <1>4, <1>5, <1>6, PoolKeeps DEF SweepInv

LEMMA InvokeKeeps ==
  ASSUME SweepInv, Invoke
  PROVE  SweepInv'
<1>1. /\ SweepTypeOK /\ ~Running
      /\ argv' \in Invocations /\ stage' = 1 /\ main' = "pool"
      /\ worker' = AllQueued(argv', stage') /\ result' = NoResults(argv', stage')
      /\ broken' = {}
      /\ UNCHANGED <<metrics, csv, kills>>
  BY DEF SweepInv, Invoke
<1>2. stage' \in 1 .. Len(chosen(argv')) BY <1>1, ChosenFacts
<1>3. SweepTypeOK' BY <1>1, <1>2, QueuedKeeps DEF SweepTypeOK
<1>4. RecordsInPlace' BY <1>1 DEF SweepInv, RecordsInPlace, Readable
<1>5. EmptyExplained' BY <1>1 DEF SweepInv, EmptyExplained, Running
<1>6. MainInv' BY <1>1 DEF MainInv
<1>7. TablesInv'
  <2>1. \A s : ~Swept(s)' BY <1>1 DEF Swept
  <2> QED BY <2>1 DEF TablesInv
<1> QED BY <1>1, <1>2, <1>3, <1>4, <1>5, <1>6, <1>7, QueuedKeeps DEF SweepInv

LEMMA InitHolds ==
  ASSUME Init
  PROVE  SweepInv
<1>1. argv \in Invocations /\ stage = 1 /\ stage \in 1 .. Len(chosen(argv))
  BY ChosenFacts DEF Init
<1>2. TaskIds = DOMAIN Plan[argv][chosen(argv)[1]]
  BY <1>1 DEF TaskIds, Tasks, strategy
<1>3. worker = [i \in TaskIds |-> "queued"] /\ result = [i \in TaskIds |-> NoResult]
  BY <1>2 DEF Init, AllQueued, NoResults
<1>4. metrics \in [RunDirs -> {Absent, Empty, Mixed} \cup Records]
      /\ \A d \in RunDirs : metrics[d] = Absent
  BY DEF Init
<1>5. csv \in [Strategy -> SUBSET (Records \cup Committed)]
  BY <1>1, ChosenFacts DEF Init
<1>6. SweepTypeOK BY <1>1, <1>3, <1>4, <1>5 DEF SweepTypeOK, Init
<1>7. RecordsInPlace BY <1>4 DEF RecordsInPlace, Readable, Absent
<1>8. ResultsInv BY <1>3 DEF ResultsInv
<1>9. FilesInv BY <1>3 DEF FilesInv, FileOf
<1>10. EmptyExplained BY <1>4 DEF EmptyExplained, Absent, Empty
<1>11. MainInv BY DEF MainInv, Init
<1>12. TablesInv BY <1>1 DEF TablesInv, Swept, Init
<1> QED BY <1>6, <1>7, <1>8, <1>9, <1>10, <1>11, <1>12 DEF SweepInv

(* Whatever the workers, the files, kills and new command lines do, the    *)
(* invariant holds: the one the theorems below rest on.                    *)
THEOREM SweepInductive == Spec => []SweepInv
<1>1. Init => SweepInv BY InitHolds
<1>2. SweepInv /\ [Next]_vars => SweepInv'
  <2> SUFFICES ASSUME SweepInv, [Next]_vars PROVE SweepInv'
    OBVIOUS
  <2>1. CASE Worker BY <2>1, WorkKeeps
  <2>2. CASE Main
    BY <2>2, OpenCsvKeeps, CollectRaisesKeeps, WriteRowKeeps, NextStrategyKeeps DEF Main
  <2>3. CASE Kill BY <2>3, KillKeeps
  <2>4. CASE Invoke BY <2>4, InvokeKeeps
  <2>5. CASE UNCHANGED vars
    <3>1. UNCHANGED <<argv, stage, main, worker, result, metrics, csv, broken, kills>>
      BY <2>5 DEF vars
    <3>2. SweepTypeOK' BY <3>1, PoolKeeps DEF SweepInv, SweepTypeOK
    <3>3. EmptyExplained' BY <3>1, PoolKeeps, SameTasks DEF SweepInv, EmptyExplained
    <3>4. MainInv' BY <3>1, PoolKeeps DEF SweepInv, MainInv
    <3>5. TablesInv' BY <3>1, PoolKeeps DEF SweepInv, TablesInv, Swept
    <3> QED BY <3>1, <3>2, <3>3, <3>4, <3>5, PoolKeeps DEF SweepInv
  <2> QED BY <2>1, <2>2, <2>3, <2>4, <2>5 DEF Next
<1> QED BY <1>1, <1>2, PTL DEF Spec

(* What run_one returns to a task, measured now or read from a file that   *)
(* any earlier command line left, was measured on the machine and for the  *)
(* number of cycles the task asks for, since directories tell tasks apart, *)
(* and after --force with the options of this command line.                *)
THEOREM ResultsAreOfTheirTasks == Spec => []ResultOfTask
<1>1. SweepInv => ResultOfTask
  <2> SUFFICES ASSUME SweepInv, NEW i \in TaskIds, result[i] # NoResult
               PROVE  /\ result[i].made[1] = Machine(Tasks[i].config)
                      /\ result[i].made[2] = Tasks[i].cycles
                      /\ argv.force => result[i].made[3] = argv.options
    BY DEF ResultOfTask
  <2>1. /\ SweepTypeOK /\ result[i] \in Records /\ result[i].run_dir = Dir(i)
        /\ argv.force => result[i].made[3] = argv.options
    BY DEF SweepInv, SweepTypeOK, ResultsInv
  <2>2. PICK t \in AllTasks : /\ result[i].run_dir = DirOf[t]
                              /\ result[i].made[1] = Machine(t.config)
                              /\ result[i].made[2] = t.cycles
    BY <2>1, RecordFacts
  <2>3. Tasks[i] \in AllTasks /\ DirOf[Tasks[i]] = DirOf[t]
    BY <2>1, <2>2, SweptTasks
  <2> QED BY <2>1, <2>2, <2>3, SameFile
<1> QED BY <1>1, SweepInductive, PTL

(* Tasks that run make at the same time share a build directory only when  *)
(* they are the same measurement.                                          *)
THEOREM BuildDirectoriesApart == Spec => []BuildsApart
<1>1. SweepInv => BuildsApart
  <2> SUFFICES ASSUME SweepInv, NEW i \in TaskIds, NEW j \in TaskIds,
                      safe_run_id(Tasks[i]) = safe_run_id(Tasks[j])
               PROVE  Tasks[i] = Tasks[j]
    BY DEF BuildsApart
  <2>1. SweepTypeOK BY DEF SweepInv
  <2>2. /\ argv \in Invocations /\ strategy \in Strategy
        /\ Tasks[i] \in TasksOf(argv, strategy) /\ Tasks[j] \in TasksOf(argv, strategy)
    BY <2>1, SweptTasks
  <2>3. Tasks[i].config.strategy = Tasks[j].config.strategy
    BY <2>2, SameDirectory
  <2>4. run_dir(Tasks[i]) = run_dir(Tasks[j])
    BY <2>3 DEF run_dir, safe_run_id
  <2> QED BY <2>2, <2>4, SameDirectory
<1> QED BY <1>1, SweepInductive, PTL

(* A sweep fails, or a task that reads its file reports an exception, only *)
(* because of a file that a kill or an overlap of twins left unreadable,   *)
(* and --force gets past every such file its own tasks write unless they   *)
(* are twins themselves or their make cannot be run.                       *)
THEOREM FailuresExplained == Spec => []FailureExplained
<1>1. SweepInv => FailureExplained
  <2> SUFFICES ASSUME SweepInv PROVE FailureExplained
    OBVIOUS
  <2>1. ASSUME main = "aborted"
        PROVE  \E d \in Root(strategy) :
                 /\ Unreadable(d)
                 /\ kills > 0 \/ metrics[d] = Mixed
                 /\ argv.force /\ Distinct(argv) =>
                      d \in broken \/ \A i \in TaskIds : Dir(i) # d
    <3>1. PoolDrained /\ ~Collects(strategy) BY <2>1 DEF SweepInv, MainInv
    <3>2. PICK d \in Root(strategy) : Unreadable(d) BY <3>1 DEF Collects
    <3>3. d \in RunDirs BY DEF Root
    <3>4. kills > 0 \/ metrics[d] = Mixed BY <3>1, <3>2, <3>3, Drained DEF Unreadable
    <3>5. ASSUME argv.force, Distinct(argv), d \notin broken, NEW i \in TaskIds
          PROVE  Dir(i) # d
      <4>1. Readable(Dir(i)) \/ Dir(i) \in broken
        BY <3>1, <3>5 DEF SweepInv, FilesInv, FileOf, PoolDrained
      <4>2. Readable(Dir(i)) => ~Unreadable(Dir(i))
        BY DEF Readable, Unreadable, Empty, Mixed
      <4> QED BY <3>2, <3>5, <4>1, <4>2
    <3> QED BY <3>2, <3>4, <3>5
  <2>2. ASSUME NEW i \in TaskIds, worker[i] = "raised"
        PROVE  ~argv.force /\ (kills > 0 \/ ~Distinct(argv) \/ metrics[Dir(i)] = Mixed)
    BY <2>2 DEF SweepInv, FilesInv, FileOf
  <2> QED BY <2>1, <2>2 DEF SweepInv, FailureExplained
<1> QED BY <1>1, SweepInductive, PTL

(* A sweep that ends well leaves in each of its tables exactly the records *)
(* below the root, a row for every task among them, and after --force only *)
(* rows made with the options of this command line, but for the tasks      *)
(* whose make could not be run.                                            *)
THEOREM TablesAreTrue == Spec => []TablesTrue
<1>1. SweepInv => TablesTrue
  <2> SUFFICES ASSUME SweepInv, main = "done", NEW s \in ToSet(chosen(argv))
               PROVE  /\ csv[s] = {metrics[d] : d \in {e \in Root(s) : metrics[e] # Absent}}
                      /\ \A t \in ToSet(Plan[argv][s]) :
                           \/ \E row \in csv[s] : row.run_dir = DirOf[t]
                           \/ DirOf[t] \in broken
                      /\ argv.force =>
                           \A row \in csv[s] :
                             (\E t \in ToSet(Plan[argv][s]) : DirOf[t] = row.run_dir) =>
                               row.made[3] = argv.options \/ row.run_dir \in broken
    BY DEF TablesTrue, DoneHasRows, ForcedIsCurrent
  <2>1. SweepTypeOK /\ argv \in Invocations /\ stage = Len(chosen(argv))
    BY DEF SweepInv, SweepTypeOK, MainInv
  <2>2. PICK k \in 1 .. Len(chosen(argv)) : s = chosen(argv)[k]
    BY <2>1, ChosenFacts DEF ToSet
  <2>3. s \in Strategy /\ TableDone(s)
    <3>1. k < stage \/ k = stage BY <2>1, <2>2, ChosenFacts
    <3> QED BY <2>1, <2>2, <3>1, ChosenFacts DEF SweepInv, TablesInv, Swept
  <2>4. \A d \in Root(s) : d \in RunDirs /\ (Readable(d) <=> metrics[d] # Absent)
    BY <2>1, <2>3, FileFacts DEF TableDone, Collects, Root
  <2>5. csv[s] = {metrics[d] : d \in {e \in Root(s) : Readable(e)}}
    BY <2>3 DEF TableDone, Collected
  <2>6. csv[s] = {metrics[d] : d \in {e \in Root(s) : metrics[e] # Absent}}
    BY <2>4, <2>5
  <2>7. \A t \in ToSet(Plan[argv][s]) :
          DirOf[t] \in Root(s) /\ (Readable(DirOf[t]) \/ DirOf[t] \in broken)
    <3> TAKE t \in ToSet(Plan[argv][s])
    <3>1. t \in AllTasks /\ t \in TasksOf(argv, s) /\ s \in Strategy
      BY <2>1, PlanFacts
    <3>2. DirOf[t] = run_dir(t) /\ DirOf[t] \in RunDirs BY <3>1, TaskFacts
    <3> QED BY <2>3, <3>1, <3>2, SameDirectory
        DEF Root, TableDone, TasksDone, TaskDone
  <2>8. \A t \in ToSet(Plan[argv][s]) :
          (\E row \in csv[s] : row.run_dir = DirOf[t]) \/ DirOf[t] \in broken
    BY <2>4, <2>5, <2>7 DEF SweepInv, RecordsInPlace
  <2>9. ASSUME argv.force, NEW row \in csv[s],
               NEW t \in ToSet(Plan[argv][s]), DirOf[t] = row.run_dir
        PROVE  row.made[3] = argv.options \/ row.run_dir \in broken
    <3>1. PICK d \in Root(s) : Readable(d) /\ row = metrics[d] BY <2>5
    <3>2. row.run_dir = d BY <2>4, <3>1 DEF SweepInv, RecordsInPlace
    <3> QED BY <2>3, <2>9, <3>1, <3>2 DEF TableDone, TasksDone, TaskDone
  <2> QED BY <2>6, <2>8, <2>9
<1> QED BY <1>1, SweepInductive, PTL

(* Only a worker that opens or closes its file changes one.                *)
LEMMA WhoWrites ==
  ASSUME SweepInv, [Next]_vars
  PROVE  \/ UNCHANGED metrics
         \/ \E i \in TaskIds : OpenMetrics(i) \/ CloseMetrics(i)
<1>1. CASE Worker
  BY <1>1 DEF Worker, Work, StartCached, StartMake, ReadCached, MakeRaises,
             MakeEnds
<1>2. CASE ~Worker
  BY <1>2 DEF Next, Main, OpenCsv, CollectRaises, WriteRow, NextStrategy, Kill, Invoke, vars
<1> QED BY <1>1, <1>2

(* Without --force and without twins no record is measured again.          *)
THEOREM RecordsMeasuredOnce == Spec => MeasuredOnce
<1>1. SweepInv /\ [Next]_vars =>
        \A d \in RunDirs :
          Readable(d) /\ Running /\ ~argv.force /\ Distinct(argv) =>
            metrics'[d] = metrics[d]
  <2> SUFFICES ASSUME SweepInv, [Next]_vars, NEW d \in RunDirs, Readable(d),
                      ~argv.force, Distinct(argv)
               PROVE  metrics'[d] = metrics[d]
    OBVIOUS
  <2>1. CASE UNCHANGED metrics BY <2>1
  <2>2. ASSUME NEW i \in TaskIds, OpenMetrics(i) \/ CloseMetrics(i)
        PROVE  metrics'[d] = metrics[d]
    <3>1. /\ FileOf(i) /\ worker[i] \in {"opening", "writing"} /\ SweepTypeOK
          /\ metrics \in [RunDirs -> {Absent, Empty, Mixed} \cup Records]
      BY <2>2 DEF OpenMetrics, CloseMetrics, SweepInv, FilesInv, SweepTypeOK
    <3>2. metrics[Dir(i)] \in {Absent, Empty} BY <3>1 DEF FileOf
    <3>3. Dir(i) # d BY <3>2 DEF Readable, Absent, Empty
    <3> QED BY <2>2, <3>1, <3>3 DEF OpenMetrics, CloseMetrics
  <2> QED BY <2>1, <2>2, WhoWrites
<1> QED BY <1>1, SweepInductive, PTL DEF Spec, MeasuredOnce

(* Texts mix in a file only when the command line asks for a measurement   *)
(* twice.                                                                  *)
THEOREM TwinsMix == Spec => OnlyTwinsMix
<1>1. SweepInv /\ [Next]_vars =>
        \A d \in RunDirs :
          metrics'[d] = Mixed /\ metrics[d] # Mixed => ~Distinct(argv)
  <2> SUFFICES ASSUME SweepInv, [Next]_vars, NEW d \in RunDirs,
                      metrics'[d] = Mixed, metrics[d] # Mixed
               PROVE  ~Distinct(argv)
    OBVIOUS
  <2>1. PICK i \in TaskIds : OpenMetrics(i) \/ CloseMetrics(i) BY WhoWrites
  <2>2. /\ SweepTypeOK /\ FileOf(i)
        /\ metrics \in [RunDirs -> {Absent, Empty, Mixed} \cup Records]
        /\ result[i] \in {NoResult} \cup Records
        /\ worker[i] = "writing" => result[i] # NoResult
    BY DEF SweepInv, SweepTypeOK, FilesInv, ResultsInv
  <2>3. Empty # Mixed /\ Mixed \notin Records BY RecordFacts DEF Empty, Mixed
  <2>4. CASE OpenMetrics(i)
    BY <2>2, <2>3, <2>4 DEF OpenMetrics
  <2>5. CASE CloseMetrics(i)
    BY <2>2, <2>3, <2>5 DEF CloseMetrics, FileOf
  <2> QED BY <2>1, <2>4, <2>5
<1> QED BY <1>1, SweepInductive, PTL DEF Spec, OnlyTwinsMix

-----------------------------------------------------------------------------
(* Sorting.                                                                *)

Orders(before, S) ==
  /\ \A x \in S : <<x, x>> \notin before
  /\ \A x, y \in S : x # y => <<x, y>> \in before \/ <<y, x>> \in before
  /\ \A x, y, z \in S : <<x, y>> \in before /\ <<y, z>> \in before => <<x, z>> \in before

(* Each member of the set has one place, and the places are in the order.  *)
LEMMA OrderPlaces ==
  ASSUME NEW S, IsFiniteSet(S), NEW R, Orders(R, S)
  PROVE  /\ Cardinality(S) \in Nat
         /\ DOMAIN InOrder(S, R) = 1 .. Cardinality(S)
         /\ \A i \in 1 .. Cardinality(S) : InOrder(S, R)[i] \in S
         /\ \A x \in S : \E i \in 1 .. Cardinality(S) : InOrder(S, R)[i] = x
         /\ \A i, j \in 1 .. Cardinality(S) :
              i < j => <<InOrder(S, R)[i], InOrder(S, R)[j]>> \in R
<1> DEFINE n == Cardinality(S)
           Below(x) == {k \in S : <<k, x>> \in R}
           rank == [x \in S |-> Cardinality(Below(x)) + 1]
<1>1. n \in Nat BY FS_CardinalityType
<1>2. ASSUME NEW x \in S PROVE IsFiniteSet(Below(x)) /\ Cardinality(Below(x)) \in Nat
  BY FS_Subset, FS_CardinalityType
<1>3. ASSUME NEW x \in S, NEW y \in S, <<x, y>> \in R PROVE rank[x] < rank[y]
  <2>1. Below(x) \cup {x} \subseteq Below(y) BY <1>3 DEF Orders
  <2>2. x \notin Below(x) BY DEF Orders
  <2>3. Cardinality(Below(x) \cup {x}) = Cardinality(Below(x)) + 1
    BY <1>2, <2>2, FS_AddElement
  <2>4. Cardinality(Below(x) \cup {x}) <= Cardinality(Below(y))
    BY <1>2, <2>1, FS_Subset
  <2>5. Cardinality(Below(x)) \in Nat /\ Cardinality(Below(y)) \in Nat BY <1>2
  <2>6. rank[x] = Cardinality(Below(x)) + 1 /\ rank[y] = Cardinality(Below(y)) + 1
    OBVIOUS
  <2> HIDE DEF Below, rank
  <2> QED BY <2>3, <2>4, <2>5, <2>6
<1>4. ASSUME NEW x \in S PROVE rank[x] \in 1 .. n
  <2>1. Below(x) \cup {x} \subseteq S /\ x \notin Below(x) BY DEF Orders
  <2>2. Cardinality(Below(x) \cup {x}) = Cardinality(Below(x)) + 1
    BY <1>2, <2>1, FS_AddElement
  <2>3. Cardinality(Below(x) \cup {x}) <= n BY <2>1, FS_Subset
  <2> QED BY <1>1, <1>2, <2>2, <2>3
<1>5. ASSUME NEW x \in S, NEW y \in S, rank[x] = rank[y] PROVE x = y
  <2> SUFFICES ASSUME x # y PROVE FALSE OBVIOUS
  <2>1. <<x, y>> \in R \/ <<y, x>> \in R BY DEF Orders
  <2>2. rank[x] < rank[y] \/ rank[y] < rank[x]
    <3> HIDE DEF rank
    <3> QED BY <1>3, <2>1
  <2>3. rank[x] \in Nat /\ rank[y] \in Nat
    <3>1. Cardinality(Below(x)) \in Nat /\ Cardinality(Below(y)) \in Nat BY <1>2
    <3>2. rank[x] = Cardinality(Below(x)) + 1 /\ rank[y] = Cardinality(Below(y)) + 1
      OBVIOUS
    <3> HIDE DEF rank, Below
    <3> QED BY <3>1, <3>2
  <2> HIDE DEF rank
  <2> QED BY <1>5, <2>2, <2>3
<1>6. ASSUME NEW i \in 1 .. n PROVE \E x \in S : rank[x] = i
  <2>1. rank \in [S -> 1 .. n] BY <1>4
  <2>2. rank \in Injection(S, 1 .. n)
    <3> HIDE DEF rank, n
    <3> QED BY <1>5, <2>1 DEF Injection, IsInjective
  <2>3. IsFiniteSet(1 .. n) /\ Cardinality(1 .. n) = n BY <1>1, FS_Interval
  <2>4. rank \in Surjection(S, 1 .. n)
    <3> HIDE DEF rank
    <3> QED BY <2>2, <2>3, FS_Injection
  <2> HIDE DEF rank
  <2> QED BY <2>4 DEF Surjection
<1>7. ASSUME NEW i \in 1 .. n
      PROVE  InOrder(S, R)[i] \in S /\ rank[InOrder(S, R)[i]] = i
  <2>1. InOrder(S, R)[i] = CHOOSE m \in S : Cardinality(Below(m)) = i - 1
    BY DEF InOrder
  <2>2. PICK x \in S : rank[x] = i BY <1>6
  <2>3. Cardinality(Below(x)) = i - 1
    <3>1. Cardinality(Below(x)) \in Nat BY <1>2
    <3>2. rank[x] = Cardinality(Below(x)) + 1 OBVIOUS
    <3> HIDE DEF rank, Below
    <3> QED BY <2>2, <3>1, <3>2
  <2>4. InOrder(S, R)[i] \in S /\ Cardinality(Below(InOrder(S, R)[i])) = i - 1
    BY <2>1, <2>3
  <2> QED BY <1>1, <2>4
<1>8. ASSUME NEW x \in S PROVE \E i \in 1 .. n : InOrder(S, R)[i] = x
  <2>1. rank[x] \in 1 .. n BY <1>4
  <2>2. InOrder(S, R)[rank[x]] \in S /\ rank[InOrder(S, R)[rank[x]]] = rank[x]
    <3> HIDE DEF rank, n
    <3> QED BY <1>7, <2>1
  <2>3. InOrder(S, R)[rank[x]] = x
    <3> HIDE DEF rank
    <3> QED BY <1>5, <2>2
  <2> QED BY <2>1, <2>3
<1>9. ASSUME NEW i \in 1 .. n, NEW j \in 1 .. n, i < j
      PROVE  <<InOrder(S, R)[i], InOrder(S, R)[j]>> \in R
  <2>1. PICK x \in S : x = InOrder(S, R)[i] BY <1>7
  <2>2. PICK y \in S : y = InOrder(S, R)[j] BY <1>7
  <2>3. rank[x] = i /\ rank[y] = j
    <3> HIDE DEF rank, n
    <3> QED BY <1>7, <2>1, <2>2
  <2>4. ~ rank[y] < rank[x] /\ x # y
    <3> HIDE DEF rank
    <3> QED BY <1>1, <1>9, <2>3
  <2>5. <<x, y>> \in R \/ <<y, x>> \in R BY <2>4 DEF Orders
  <2>6. <<x, y>> \in R
    <3> HIDE DEF rank
    <3> QED BY <1>3, <2>4, <2>5
  <2> QED BY <2>1, <2>2, <2>6
<1>10. DOMAIN InOrder(S, R) = 1 .. n BY DEF InOrder
<1> HIDE DEF n
<1>11. n = Cardinality(S) BY DEF n
<1> QED BY <1>1, <1>7, <1>8, <1>9, <1>10, <1>11

LEMMA AscendingPlaces ==
  ASSUME NEW S, IsFiniteSet(S), S \subseteq Nat
  PROVE  /\ Cardinality(S) \in Nat
         /\ DOMAIN Ascending(S) = 1 .. Cardinality(S)
         /\ \A i \in 1 .. Cardinality(S) : Ascending(S)[i] \in S
         /\ \A x \in S : \E i \in 1 .. Cardinality(S) : Ascending(S)[i] = x
         /\ \A i, j \in 1 .. Cardinality(S) : i < j => Ascending(S)[i] < Ascending(S)[j]
         /\ \A i, j \in 1 .. Cardinality(S) : Ascending(S)[i] = Ascending(S)[j] => i = j
<1> DEFINE R == {pair \in S \X S : pair[1] < pair[2]}
<1>1. \A x, y \in S : <<x, y>> \in R <=> x < y OBVIOUS
<1>2. Orders(R, S)
  <2> HIDE DEF R
  <2>1. \A x \in S : <<x, x>> \notin R BY <1>1
  <2>2. \A x, y \in S : x # y => <<x, y>> \in R \/ <<y, x>> \in R BY <1>1
  <2>3. \A x, y, z \in S : <<x, y>> \in R /\ <<y, z>> \in R => <<x, z>> \in R BY <1>1
  <2> QED BY <2>1, <2>2, <2>3 DEF Orders
<1>3. Ascending(S) = InOrder(S, R) BY DEF Ascending
<1> HIDE DEF R
<1>4. /\ Cardinality(S) \in Nat
      /\ DOMAIN Ascending(S) = 1 .. Cardinality(S)
      /\ \A i \in 1 .. Cardinality(S) : Ascending(S)[i] \in S
      /\ \A x \in S : \E i \in 1 .. Cardinality(S) : Ascending(S)[i] = x
      /\ \A i, j \in 1 .. Cardinality(S) :
           i < j => <<Ascending(S)[i], Ascending(S)[j]>> \in R
  BY <1>2, <1>3, OrderPlaces
<1>5. \A i, j \in 1 .. Cardinality(S) : i < j => Ascending(S)[i] < Ascending(S)[j]
  BY <1>1, <1>4
<1>6. ASSUME NEW i \in 1 .. Cardinality(S), NEW j \in 1 .. Cardinality(S),
             Ascending(S)[i] = Ascending(S)[j]
      PROVE  i = j
  <2>1. Ascending(S)[i] \in Nat BY <1>4
  <2>2. ~ i < j /\ ~ j < i BY <1>5, <1>6, <2>1
  <2> QED BY <1>4, <2>2
<1> QED BY <1>4, <1>5, <1>6

-----------------------------------------------------------------------------
(* Selecting.                                                              *)

LEMMA PlacesAreFinite ==
  ASSUME NEW T, NEW rows \in Seq(T), NEW P, P \subseteq DOMAIN rows
  PROVE  /\ Len(rows) \in Nat /\ DOMAIN rows = 1 .. Len(rows)
         /\ \A i \in DOMAIN rows : rows[i] \in T
         /\ IsFiniteSet(P) /\ P \subseteq Nat
<1>1. Len(rows) \in Nat /\ DOMAIN rows = 1 .. Len(rows) BY LenProperties
<1>2. IsFiniteSet(1 .. Len(rows)) BY <1>1, FS_Interval
<1>3. IsFiniteSet(P) BY <1>1, <1>2, FS_Subset
<1>4. \A i \in DOMAIN rows : rows[i] \in T BY <1>1, ElementOfSeq
<1> QED BY <1>1, <1>3, <1>4

LEMMA KeepPlaces ==
  ASSUME NEW T, NEW rows \in Seq(T), NEW P, P \subseteq DOMAIN rows
  PROVE  /\ Keep(rows, P) \in Seq(T)
         /\ Cardinality(P) \in Nat
         /\ Len(Keep(rows, P)) = Cardinality(P)
         /\ DOMAIN Keep(rows, P) = 1 .. Cardinality(P)
         /\ \A i \in DOMAIN Keep(rows, P) :
              Ascending(P)[i] \in P /\ Keep(rows, P)[i] = rows[Ascending(P)[i]]
         /\ \A p \in P : \E i \in DOMAIN Keep(rows, P) : Ascending(P)[i] = p
         /\ \A i, j \in DOMAIN Keep(rows, P) :
              i < j => Ascending(P)[i] < Ascending(P)[j]
<1>1. /\ IsFiniteSet(P) /\ P \subseteq Nat
      /\ \A i \in DOMAIN rows : rows[i] \in T
  BY PlacesAreFinite
<1>2. PICK n : n = Cardinality(P) OBVIOUS
<1>3. PICK order : order = Ascending(P) OBVIOUS
<1>4. /\ n \in Nat /\ DOMAIN order = 1 .. n
      /\ \A i \in 1 .. n : order[i] \in P
      /\ \A p \in P : \E i \in 1 .. n : order[i] = p
      /\ \A i, j \in 1 .. n : i < j => order[i] < order[j]
  BY <1>1, <1>2, <1>3, AscendingPlaces
<1>5. Keep(rows, P) = [i \in 1 .. n |-> rows[order[i]]] BY <1>3, <1>4 DEF Keep
<1>6. Keep(rows, P) \in [1 .. n -> T] BY <1>1, <1>4, <1>5
<1>7. Keep(rows, P) \in Seq(T) /\ Len(Keep(rows, P)) = n BY <1>4, <1>6, ListIsSeq
<1> QED BY <1>2, <1>3, <1>4, <1>5, <1>7

(* Selected rows are rows, and every row at a place selected is one.       *)
LEMMA KeepRows ==
  ASSUME NEW T, NEW rows \in Seq(T), NEW P, P \subseteq DOMAIN rows
  PROVE  /\ \A i \in DOMAIN Keep(rows, P) : \E p \in P : Keep(rows, P)[i] = rows[p]
         /\ \A p \in P : \E i \in DOMAIN Keep(rows, P) : Keep(rows, P)[i] = rows[p]
         /\ Keep(rows, P) = <<>> <=> P = {}
<1>1. PICK kept : kept = Keep(rows, P) OBVIOUS
<1>2. /\ kept \in Seq(T)
      /\ \A i \in DOMAIN kept : Ascending(P)[i] \in P /\ kept[i] = rows[Ascending(P)[i]]
      /\ \A p \in P : \E i \in DOMAIN kept : Ascending(P)[i] = p
  BY <1>1, KeepPlaces
<1>3. \A i \in DOMAIN kept : \E p \in P : kept[i] = rows[p] BY <1>2
<1>4. \A p \in P : \E i \in DOMAIN kept : kept[i] = rows[p] BY <1>2
<1>5. kept = <<>> <=> DOMAIN kept = {} BY <1>2, EmptySeq, LenProperties
<1> QED BY <1>1, <1>3, <1>4, <1>5

LEMMA KeepOne ==
  ASSUME NEW T, NEW rows \in Seq(T), NEW p \in DOMAIN rows
  PROVE  Keep(rows, {p}) = <<rows[p]>>
<1>1. PICK P : P = {p} OBVIOUS
<1>2. PICK kept : kept = Keep(rows, P) OBVIOUS
<1>3. /\ kept \in Seq(T) /\ Len(kept) = 1
      /\ \A i \in DOMAIN kept : Ascending(P)[i] \in P /\ kept[i] = rows[Ascending(P)[i]]
  <2>1. Cardinality(P) = 1 BY <1>1, FS_Singleton
  <2>2. P \subseteq DOMAIN rows BY <1>1
  <2>3. /\ Keep(rows, P) \in Seq(T)
        /\ Len(Keep(rows, P)) = Cardinality(P)
        /\ \A i \in DOMAIN Keep(rows, P) :
             Ascending(P)[i] \in P /\ Keep(rows, P)[i] = rows[Ascending(P)[i]]
    BY <2>2, KeepPlaces
  <2> QED BY <1>2, <2>1, <2>3
<1>4. DOMAIN kept = 1 .. 1 BY <1>3, LenProperties
<1>5. kept[1] = rows[p] BY <1>1, <1>3, <1>4
<1> QED BY <1>1, <1>2, <1>3, <1>4, <1>5

-----------------------------------------------------------------------------
(* The best row.                                                           *)

Better(rows, i, j) ==
  rows[j].acc < rows[i].acc \/ (rows[j].acc = rows[i].acc /\ i <= j)

IsBest(rows, P, i) == i \in P /\ \A j \in P : Better(rows, i, j)

BestPlace(rows, P) == CHOOSE i \in P : \A j \in P : Better(rows, i, j)

(* There is one best row of several, and only one.                         *)
LEMMA BestExists ==
  ASSUME NEW rows \in Seq(TableRow), NEW P, P \subseteq DOMAIN rows, P # {}
  PROVE  IsBest(rows, P, BestPlace(rows, P))
<1>1. /\ \A i \in DOMAIN rows : rows[i] \in TableRow
      /\ IsFiniteSet(P) /\ P \subseteq Nat
  BY PlacesAreFinite
<1>2. \A i \in P : rows[i].acc \in Nat BY <1>1 DEF TableRow
<1> DEFINE R == {pair \in P \X P : Better(rows, pair[1], pair[2]) /\ pair[1] # pair[2]}
<1>3. \A i, j \in P : <<i, j>> \in R <=> Better(rows, i, j) /\ i # j OBVIOUS
<1>4. Orders(R, P)
  <2> HIDE DEF R
  <2>1. \A x \in P : <<x, x>> \notin R BY <1>3
  <2>2. \A x, y \in P : x # y => <<x, y>> \in R \/ <<y, x>> \in R
    BY <1>1, <1>2, <1>3 DEF Better
  <2>3. \A x, y, z \in P : <<x, y>> \in R /\ <<y, z>> \in R => <<x, z>> \in R
    BY <1>1, <1>2, <1>3 DEF Better
  <2> QED BY <2>1, <2>2, <2>3 DEF Orders
<1> HIDE DEF R
<1>5. PICK n : n = Cardinality(P) OBVIOUS
<1>6. PICK order : order = InOrder(P, R) OBVIOUS
<1>7. /\ n \in Nat
      /\ \A i \in 1 .. n : order[i] \in P
      /\ \A x \in P : \E i \in 1 .. n : order[i] = x
      /\ \A i, j \in 1 .. n : i < j => <<order[i], order[j]>> \in R
  BY <1>1, <1>4, <1>5, <1>6, OrderPlaces
<1>8. 1 \in 1 .. n BY <1>7
<1>9. ASSUME NEW y \in P PROVE Better(rows, order[1], y)
  <2>1. PICK i \in 1 .. n : order[i] = y BY <1>7
  <2>2. CASE i = 1 BY <1>1, <1>7, <1>8, <2>1, <2>2 DEF Better
  <2>3. CASE i # 1
    <3>1. 1 < i BY <1>7, <2>3
    <3>2. <<order[1], y>> \in R BY <1>7, <1>8, <2>1, <3>1
    <3> QED BY <1>3, <1>7, <1>8, <3>2
  <2> QED BY <2>2, <2>3
<1>10. \E i \in P : \A j \in P : Better(rows, i, j) BY <1>7, <1>8, <1>9
<1> QED BY <1>10 DEF IsBest, BestPlace

LEMMA BestIsUnique ==
  ASSUME NEW rows \in Seq(TableRow), NEW P, P \subseteq DOMAIN rows,
         NEW i, IsBest(rows, P, i)
  PROVE  BestPlace(rows, P) = i
<1>1. /\ \A k \in DOMAIN rows : rows[k] \in TableRow
      /\ P \subseteq Nat
  BY PlacesAreFinite
<1>2. \A k \in P : rows[k].acc \in Nat BY <1>1 DEF TableRow
<1>3. P # {} BY DEF IsBest
<1>4. PICK k : k = BestPlace(rows, P) OBVIOUS
<1>5. IsBest(rows, P, k) BY <1>3, <1>4, BestExists
<1> QED BY <1>1, <1>2, <1>4, <1>5 DEF IsBest, Better

(* max(rows, key = accuracy) is the first of the best rows.                *)
LEMMA BestRow ==
  ASSUME NEW rows \in Seq(TableRow)
  PROVE  best_row(rows) =
           IF rows = <<>> THEN <<>> ELSE <<rows[BestPlace(rows, DOMAIN rows)]>>
BY DEF best_row, BestPlace, Better

(* The best of selected rows.                                              *)
LEMMA BestOfKept ==
  ASSUME NEW rows \in Seq(TableRow), NEW P, P \subseteq DOMAIN rows
  PROVE  best_row(Keep(rows, P)) =
           IF P = {} THEN <<>> ELSE <<rows[BestPlace(rows, P)]>>
<1>1. PICK kept : kept = Keep(rows, P) OBVIOUS
<1>2. PICK order : order = Ascending(P) OBVIOUS
<1>3. /\ kept \in Seq(TableRow)
      /\ \A i \in DOMAIN kept : order[i] \in P /\ kept[i] = rows[order[i]]
      /\ \A p \in P : \E i \in DOMAIN kept : order[i] = p
      /\ \A i, j \in DOMAIN kept : i < j => order[i] < order[j]
  BY <1>1, <1>2, KeepPlaces
<1>4. kept = <<>> <=> P = {} BY <1>1, KeepRows
<1>5. CASE P = {}
  <2>1. kept = <<>> BY <1>4, <1>5
  <2> QED BY <1>1, <1>3, <1>5, <2>1, BestRow
<1>6. CASE P # {}
  <2>1. PICK k : k = BestPlace(kept, DOMAIN kept) OBVIOUS
  <2>2. DOMAIN kept # {}
    <3>1. PICK p \in P : TRUE BY <1>6
    <3> QED BY <1>3, <3>1
  <2>3. IsBest(kept, DOMAIN kept, k) BY <1>3, <2>1, <2>2, BestExists
  <2>4. DOMAIN kept \subseteq Nat /\ P \subseteq Nat
    <3>1. DOMAIN kept \subseteq Nat BY <1>3, PlacesAreFinite
    <3>2. P \subseteq Nat BY PlacesAreFinite
    <3> QED BY <3>1, <3>2
  <2>5. k \in DOMAIN kept /\ order[k] \in P /\ kept[k] = rows[order[k]]
    BY <1>3, <2>3 DEF IsBest
  <2>6. ASSUME NEW p \in P PROVE Better(rows, order[k], p)
    <3>1. PICK j \in DOMAIN kept : order[j] = p BY <1>3
    <3>2. Better(kept, k, j) BY <2>3 DEF IsBest
    <3>3. kept[j] = rows[p] BY <1>3, <3>1
    <3>4. k <= j => order[k] <= order[j]
      <4>1. k = j \/ k < j \/ j < k BY <2>4, <2>5
      <4>2. order[k] \in Nat /\ order[j] \in Nat BY <1>3, <2>4, <2>5
      <4> QED BY <1>3, <2>4, <2>5, <4>1, <4>2
    <3> QED BY <2>5, <3>1, <3>2, <3>3, <3>4 DEF Better
  <2>7. IsBest(rows, P, order[k]) BY <2>5, <2>6 DEF IsBest
  <2>8. BestPlace(rows, P) = order[k] BY <2>7, BestIsUnique
  <2>9. best_row(kept) = <<kept[k]>> BY <1>3, <1>4, <1>6, <2>1, BestRow
  <2> QED BY <1>1, <1>6, <2>5, <2>8, <2>9
<1> QED BY <1>5, <1>6

-----------------------------------------------------------------------------
(* The best row of each cycle count.                                       *)

(* A set of places in a sequence that is not empty has a last one.         *)
LEMMA LastPlace ==
  ASSUME NEW P, IsFiniteSet(P), P \subseteq Nat, P # {}
  PROVE  Max(P) \in P /\ \A y \in P : y <= Max(P)
<1>1. PICK n : n = Cardinality(P) OBVIOUS
<1>2. PICK order : order = Ascending(P) OBVIOUS
<1>3. /\ n \in Nat
      /\ \A i \in 1 .. n : order[i] \in P
      /\ \A p \in P : \E i \in 1 .. n : order[i] = p
      /\ \A i, j \in 1 .. n : i < j => order[i] < order[j]
  BY <1>1, <1>2, AscendingPlaces
<1>4. n \in 1 .. n
  <2>1. PICK p \in P : TRUE OBVIOUS
  <2>2. PICK i \in 1 .. n : order[i] = p BY <1>3
  <2> QED BY <1>3, <2>2
<1>5. ASSUME NEW y \in P PROVE order[n] >= y
  <2>1. PICK i \in 1 .. n : order[i] = y BY <1>3
  <2>2. i = n \/ i < n BY <1>3
  <2>3. order[n] \in Nat /\ y \in Nat BY <1>3, <1>4
  <2> QED BY <1>3, <1>4, <2>1, <2>2, <2>3
<1>6. \E x \in P : \A y \in P : x >= y BY <1>3, <1>4, <1>5
<1>7. Max(P) \in P /\ \A y \in P : Max(P) >= y BY <1>6 DEF Max
<1> QED BY <1>7

OfCycle(rows, s, c) == {i \in s : rows[i].cycle = c}
CyclesIn(rows, s) == {rows[i].cycle : i \in s}

(* What the loops have chosen after the rows at some places.               *)
Bests(rows) ==
  [s \in SUBSET DOMAIN rows |->
     [c \in CyclesIn(rows, s) |-> rows[BestPlace(rows, OfCycle(rows, s, c))]]]

(* One more row.                                                           *)
LEMMA BestsStep ==
  ASSUME NEW rows \in Seq(TableRow), NEW s \in SUBSET DOMAIN rows, s # {}
  PROVE  Bests(rows)[s] = KeepBetter(Bests(rows)[s \ {Max(s)}], rows[Max(s)])
<1>1. PICK x : x = Max(s) OBVIOUS
<1>2. PICK t : t = s \ {x} OBVIOUS
<1>3. /\ \A i \in DOMAIN rows : rows[i] \in TableRow
      /\ IsFiniteSet(s) /\ s \subseteq Nat
  BY PlacesAreFinite
<1>4. x \in s /\ \A y \in s : y <= x BY <1>1, <1>3, LastPlace
<1>5. t \in SUBSET DOMAIN rows /\ x \notin t /\ s = t \cup {x} /\ x \in DOMAIN rows
  BY <1>2, <1>4
<1>6. PICK k : k = rows[x].cycle OBVIOUS
<1>7. CyclesIn(rows, s) = CyclesIn(rows, t) \cup {k} BY <1>5, <1>6 DEF CyclesIn
<1>8. PICK old : old = Bests(rows)[t] OBVIOUS
<1>9. /\ old = [c \in CyclesIn(rows, t) |-> rows[BestPlace(rows, OfCycle(rows, t, c))]]
      /\ Bests(rows)[s] = [c \in CyclesIn(rows, s) |-> rows[BestPlace(rows, OfCycle(rows, s, c))]]
  BY <1>5, <1>8 DEF Bests
<1>10. ASSUME NEW c, c # k PROVE OfCycle(rows, s, c) = OfCycle(rows, t, c)
  BY <1>5, <1>6, <1>10 DEF OfCycle
<1>11. PICK P : P = OfCycle(rows, t, k) OBVIOUS
<1>12. PICK Q : Q = OfCycle(rows, s, k) OBVIOUS
<1>13. Q = P \cup {x} /\ P \subseteq t BY <1>5, <1>6, <1>11, <1>12 DEF OfCycle
<1>14. P = {} <=> k \notin CyclesIn(rows, t) BY <1>11 DEF OfCycle, CyclesIn
<1>15. ASSUME NEW i \in Q, NEW j \in Q
       PROVE  rows[i].acc \in Nat /\ rows[j].acc \in Nat /\ i \in Nat /\ j \in Nat
  BY <1>3, <1>5, <1>13 DEF TableRow
<1>16. Q \subseteq DOMAIN rows /\ P \subseteq DOMAIN rows BY <1>5, <1>13
<1>17. CASE P = {}
  <2>1. IsBest(rows, Q, x) BY <1>13, <1>15, <1>17 DEF IsBest, Better
  <2>2. BestPlace(rows, Q) = x BY <1>16, <2>1, BestIsUnique
  <2>3. KeepBetter(old, rows[x]) =
          [c \in CyclesIn(rows, t) \cup {k} |-> IF c = k THEN rows[x] ELSE old[c]]
    BY <1>6, <1>9, <1>14, <1>17 DEF KeepBetter
  <2>4. ASSUME NEW c \in CyclesIn(rows, t) \cup {k}
        PROVE  rows[BestPlace(rows, OfCycle(rows, s, c))] =
                 IF c = k THEN rows[x] ELSE old[c]
    BY <1>9, <1>10, <1>12, <2>2
  <2> QED BY <1>1, <1>2, <1>7, <1>8, <1>9, <2>3, <2>4
<1>18. CASE P # {}
  <2>1. PICK b : b = BestPlace(rows, P) OBVIOUS
  <2>2. IsBest(rows, P, b) BY <1>16, <1>18, <2>1, BestExists
  <2>3. k \in CyclesIn(rows, t) /\ old[k] = rows[b]
    BY <1>9, <1>11, <1>14, <1>18, <2>1
  <2>4. DOMAIN old = CyclesIn(rows, t) BY <1>9
  <2>5. CASE rows[x].acc > rows[b].acc
    <3>1. IsBest(rows, Q, x)
      <4>1. x \in Q BY <1>13
      <4>2. b \in P /\ b \in Q BY <1>13, <2>2 DEF IsBest
      <4>3. ASSUME NEW j \in P PROVE Better(rows, x, j)
        <5>1. j \in Q BY <1>13
        <5>2. Better(rows, b, j) BY <2>2 DEF IsBest
        <5> QED BY <1>15, <2>5, <4>1, <4>2, <5>1, <5>2 DEF Better
      <4>4. Better(rows, x, x) BY <1>15, <4>1 DEF Better
      <4> QED BY <1>13, <4>1, <4>3, <4>4 DEF IsBest
    <3>2. BestPlace(rows, Q) = x BY <1>16, <3>1, BestIsUnique
    <3>3. KeepBetter(old, rows[x]) =
            [c \in CyclesIn(rows, t) \cup {k} |-> IF c = k THEN rows[x] ELSE old[c]]
      BY <1>6, <2>3, <2>4, <2>5 DEF KeepBetter
    <3>4. ASSUME NEW c \in CyclesIn(rows, t) \cup {k}
          PROVE  rows[BestPlace(rows, OfCycle(rows, s, c))] =
                   IF c = k THEN rows[x] ELSE old[c]
      BY <1>9, <1>10, <1>12, <3>2
    <3> QED BY <1>1, <1>2, <1>7, <1>8, <1>9, <3>3, <3>4
  <2>6. CASE ~(rows[x].acc > rows[b].acc)
    <3>1. IsBest(rows, Q, b)
      <4>1. x \in Q BY <1>13
      <4>2. b \in P /\ b \in Q /\ b \in s BY <1>5, <1>13, <2>2 DEF IsBest
      <4>3. ASSUME NEW j \in P PROVE Better(rows, b, j)
        BY <2>2 DEF IsBest
      <4>4. Better(rows, b, x) BY <1>4, <1>15, <2>6, <4>1, <4>2 DEF Better
      <4> QED BY <1>13, <4>2, <4>3, <4>4 DEF IsBest
    <3>2. BestPlace(rows, Q) = b BY <1>16, <3>1, BestIsUnique
    <3>3. KeepBetter(old, rows[x]) = old
      BY <1>6, <2>3, <2>4, <2>6 DEF KeepBetter
    <3>4. CyclesIn(rows, s) = CyclesIn(rows, t) BY <1>7, <2>3
    <3>5. ASSUME NEW c \in CyclesIn(rows, t)
          PROVE  rows[BestPlace(rows, OfCycle(rows, s, c))] =
                   rows[BestPlace(rows, OfCycle(rows, t, c))]
      <4>1. CASE c = k BY <1>11, <1>12, <2>1, <3>2, <4>1
      <4>2. CASE c # k BY <1>10, <4>2
      <4> QED BY <4>1, <4>2
    <3>6. Bests(rows)[s] = old BY <1>9, <3>4, <3>5
    <3> QED BY <1>1, <1>2, <1>8, <3>3, <3>6
  <2> QED BY <2>5, <2>6
<1> QED BY <1>17, <1>18

(* Where the places end, and what is left without the last one.            *)
TopPlace(s) == IF s = {} THEN 0 ELSE Max(s) + 1

LEMMA TopDrops ==
  ASSUME NEW s, IsFiniteSet(s), s \subseteq Nat
  PROVE  /\ TopPlace(s) \in Nat
         /\ s # {} => TopPlace(s \ {Max(s)}) \in Nat /\ TopPlace(s \ {Max(s)}) < TopPlace(s)
<1>1. CASE s = {} BY <1>1 DEF TopPlace
<1>2. CASE s # {}
  <2>1. PICK x : x = Max(s) OBVIOUS
  <2>2. x \in s /\ x \in Nat /\ TopPlace(s) = x + 1 BY <1>2, <2>1, LastPlace DEF TopPlace
  <2>3. PICK t : t = s \ {x} OBVIOUS
  <2>4. IsFiniteSet(t) /\ t \subseteq Nat BY <2>3, FS_Subset
  <2>5. TopPlace(t) \in Nat /\ TopPlace(t) < TopPlace(s)
    <3>1. CASE t = {} BY <2>2, <3>1 DEF TopPlace
    <3>2. CASE t # {}
      <4>1. Max(t) \in t BY <2>4, <3>2, LastPlace
      <4>2. Max(t) \in Nat /\ Max(t) <= x /\ Max(t) # x
        <5>1. Max(t) \in s /\ Max(t) # x BY <2>3, <4>1
        <5>2. Max(t) <= x BY <1>2, <2>1, <5>1, LastPlace
        <5> QED BY <2>4, <4>1, <5>1, <5>2
      <4> QED BY <2>2, <3>2, <4>2 DEF TopPlace
    <3> QED BY <3>1, <3>2
  <2> QED BY <1>2, <2>1, <2>2, <2>3, <2>5
<1> QED BY <1>1, <1>2

(* The loop of best_per_cycle leaves the best row of each cycle count.     *)
LEMMA BestsFold ==
  ASSUME NEW rows \in Seq(TableRow)
  PROVE  FoldLeft(KeepBetter, <<>>, rows) = Bests(rows)[DOMAIN rows]
<1> DEFINE D == DOMAIN rows
           Step(f, s) == IF s = {} THEN <<>>
                         ELSE KeepBetter(f[s \ {Max(s)}], rows[Max(s)])
           iter == CHOOSE f : f = [s \in SUBSET D |-> Step(f, s)]
           last == Bests(rows)
<1>1. ASSUME NEW s \in SUBSET D PROVE IsFiniteSet(s) /\ s \subseteq Nat
  BY PlacesAreFinite
<1>2. FoldLeft(KeepBetter, <<>>, rows) = iter[D]
  BY DEF FoldLeft, MapThenFoldSet
<1>3. ASSUME NEW s \in SUBSET D PROVE last[s] = Step(last, s)
  <2>1. CASE s = {}
    <3>1. CyclesIn(rows, s) = {} BY <2>1 DEF CyclesIn
    <3>2. last[s] = [c \in CyclesIn(rows, s) |-> rows[BestPlace(rows, OfCycle(rows, s, c))]]
      BY DEF Bests
    <3> QED BY <2>1, <3>1, <3>2
  <2>2. CASE s # {} BY <2>2, BestsStep
  <2> QED BY <2>1, <2>2
<1>4. iter = [s \in SUBSET D |-> Step(iter, s)]
  <2>1. last = [s \in SUBSET D |-> last[s]] BY DEF Bests
  <2>2. last = [s \in SUBSET D |-> Step(last, s)] BY <1>3, <2>1
  <2> HIDE DEF last, Step
  <2> QED BY <2>2
<1>5. iter[D] = last[D]
  <2> SUFFICES ASSUME iter[D] # last[D] PROVE FALSE
    OBVIOUS
  <2> HIDE DEF iter, last
  <2> DEFINE U == {k \in Nat : \E s \in SUBSET D : TopPlace(s) = k /\ iter[s] # last[s]}
  <2>1. TopPlace(D) \in Nat BY <1>1, TopDrops
  <2>2. U # {} /\ U \subseteq Nat BY <2>1
  <2>3. PICK k \in U : \A j \in U : k <= j
    <3> HIDE DEF U
    <3> QED BY <2>2, LeastNumber
  <2>4. PICK s \in SUBSET D : TopPlace(s) = k /\ iter[s] # last[s] BY <2>3
  <2> DEFINE t == s \ {Max(s)}
  <2>5. iter[s] = Step(iter, s) /\ last[s] = Step(last, s) BY <1>3, <1>4
  <2>6. s # {} BY <2>4, <2>5
  <2>7. iter[t] # last[t] BY <2>4, <2>5, <2>6
  <2>8. t \in SUBSET D /\ TopPlace(t) \in Nat /\ TopPlace(t) < TopPlace(s)
    BY <1>1, <2>6, TopDrops
  <2>9. TopPlace(t) \in U BY <2>7, <2>8
  <2>10. k <= TopPlace(t) /\ k \in Nat BY <2>3, <2>9
  <2> QED BY <2>4, <2>8, <2>10
<1> QED BY <1>2, <1>5

(* So does that of best_rows_by_cycle, written once more.                  *)
LEMMA ChosenFold ==
  ASSUME NEW rows PROVE FoldLeft(Choose, <<>>, rows) = FoldLeft(KeepBetter, <<>>, rows)
BY DEF FoldLeft, MapThenFoldSet, Choose, KeepBetter

AllCycles(rows) == CyclesIn(rows, DOMAIN rows)
BestAt(rows, c) == rows[BestPlace(rows, OfCycle(rows, DOMAIN rows, c))]

LEMMA CycleBest ==
  ASSUME NEW rows \in Seq(TableRow), NEW c \in AllCycles(rows)
  PROVE  /\ IsBest(rows, OfCycle(rows, DOMAIN rows, c),
                    BestPlace(rows, OfCycle(rows, DOMAIN rows, c)))
         /\ BestAt(rows, c) \in TableRow
         /\ BestAt(rows, c).cycle = c
<1>1. PICK P : P = OfCycle(rows, DOMAIN rows, c) OBVIOUS
<1>2. P \subseteq DOMAIN rows /\ P # {} /\ \A i \in P : rows[i].cycle = c
  BY <1>1 DEF OfCycle, AllCycles, CyclesIn
<1>3. IsBest(rows, P, BestPlace(rows, P)) BY <1>2, BestExists
<1>4. BestPlace(rows, P) \in P BY <1>3 DEF IsBest
<1>5. \A i \in DOMAIN rows : rows[i] \in TableRow BY PlacesAreFinite
<1> QED BY <1>1, <1>2, <1>3, <1>4, <1>5 DEF BestAt

LEMMA CyclesFinite ==
  ASSUME NEW rows \in Seq(TableRow)
  PROVE  IsFiniteSet(AllCycles(rows)) /\ AllCycles(rows) \subseteq Nat
<1>1. \A i \in DOMAIN rows : rows[i] \in TableRow BY PlacesAreFinite
<1>2. IsFiniteSet(DOMAIN rows) BY PlacesAreFinite
<1>3. PICK f : f = [i \in DOMAIN rows |-> rows[i].cycle] OBVIOUS
<1>4. f \in Surjection(DOMAIN rows, AllCycles(rows))
  BY <1>3 DEF Surjection, AllCycles, CyclesIn
<1>5. IsFiniteSet(AllCycles(rows)) BY <1>2, <1>4, FS_Surjection
<1>6. AllCycles(rows) \subseteq Nat BY <1>1 DEF AllCycles, CyclesIn, TableRow
<1> QED BY <1>5, <1>6

(* One row for each cycle count that occurs, and it is the best.           *)
IsByCycle(out, rows) ==
  /\ out \in Seq(TableRow)
  /\ \A k \in DOMAIN out :
       out[k].cycle \in AllCycles(rows) /\ out[k] = BestAt(rows, out[k].cycle)
  /\ \A c \in AllCycles(rows) : \E k \in DOMAIN out : out[k].cycle = c
  /\ \A k, l \in DOMAIN out : out[k].cycle = out[l].cycle => k = l

LEMMA PerCycle ==
  ASSUME NEW rows \in Seq(TableRow)
  PROVE  IsByCycle(best_per_cycle(rows), rows)
<1>1. PICK best : best = FoldLeft(KeepBetter, <<>>, rows) OBVIOUS
<1>2. PICK C : C = AllCycles(rows) OBVIOUS
<1>3. best = [c \in C |-> BestAt(rows, c)]
  <2>1. best = Bests(rows)[DOMAIN rows] BY <1>1, BestsFold
  <2> QED BY <1>2, <2>1 DEF Bests, AllCycles, BestAt
<1>4. PICK order : order = Ascending(C) OBVIOUS
<1>5. PICK n : n = Cardinality(C) OBVIOUS
<1>6. /\ n \in Nat /\ DOMAIN order = 1 .. n
      /\ \A i \in 1 .. n : order[i] \in C
      /\ \A c \in C : \E i \in 1 .. n : order[i] = c
      /\ \A i, j \in 1 .. n : order[i] = order[j] => i = j
  <2>1. IsFiniteSet(C) /\ C \subseteq Nat BY <1>2, CyclesFinite
  <2> QED BY <1>4, <1>5, <2>1, AscendingPlaces
<1>7. PICK out : out = best_per_cycle(rows) OBVIOUS
<1>8. out = [i \in 1 .. n |-> best[order[i]]]
  <2>1. DOMAIN best = C BY <1>3
  <2>2. out = [i \in DOMAIN Ascending(DOMAIN best) |-> best[Ascending(DOMAIN best)[i]]]
    BY <1>1, <1>7 DEF best_per_cycle
  <2> QED BY <1>4, <1>6, <2>1, <2>2
<1>9. ASSUME NEW i \in 1 .. n
      PROVE  out[i] = BestAt(rows, order[i]) /\ out[i] \in TableRow /\ out[i].cycle = order[i]
  <2>1. out[i] = BestAt(rows, order[i]) BY <1>3, <1>6, <1>8
  <2>2. order[i] \in AllCycles(rows) BY <1>2, <1>6
  <2> QED BY <2>1, <2>2, CycleBest
<1>10. out \in Seq(TableRow) /\ DOMAIN out = 1 .. n
  <2>1. out \in [1 .. n -> TableRow] BY <1>8, <1>9
  <2> QED BY <1>6, <2>1, ListIsSeq
<1> QED BY <1>2, <1>6, <1>7, <1>9, <1>10 DEF IsByCycle

Requested(rows) == \A i \in DOMAIN rows : rows[i].cycle \in RequestedCycles

(* Of rows that were read the two scripts choose the same.                 *)
LEMMA SameChoice ==
  ASSUME NEW rows \in Seq(TableRow), Requested(rows)
  PROVE  best_rows_by_cycle(rows) = best_per_cycle(rows)
<1>1. PICK best : best = FoldLeft(KeepBetter, <<>>, rows) OBVIOUS
<1>2. FoldLeft(Choose, <<>>, rows) = best BY <1>1, ChosenFold
<1>3. DOMAIN best = CyclesIn(rows, DOMAIN rows)
  <2>1. best = Bests(rows)[DOMAIN rows] BY <1>1, BestsFold
  <2> QED BY <2>1 DEF Bests
<1>4. DOMAIN best \subseteq RequestedCycles BY <1>3 DEF CyclesIn, Requested
<1>5. RequestedCycles \cap DOMAIN best = DOMAIN best BY <1>4
<1>6. PICK cycles : cycles = Ascending(DOMAIN best) OBVIOUS
<1>7. best_rows_by_cycle(rows) = [i \in DOMAIN cycles |-> best[cycles[i]]]
  BY <1>2, <1>5, <1>6 DEF best_rows_by_cycle
<1>8. best_per_cycle(rows) = [i \in DOMAIN cycles |-> best[cycles[i]]]
  BY <1>1, <1>6 DEF best_per_cycle
<1> QED BY <1>7, <1>8

(* The row of the summary is the row of the table.                         *)
LEMMA TableHasBest ==
  ASSUME NEW rows \in Seq(TableRow), Requested(rows)
  PROVE  cycle_rows(best_rows_by_cycle(rows), LastCycle) =
           best_row(cycle_rows(rows, LastCycle))
<1>1. PICK out : out = best_rows_by_cycle(rows) OBVIOUS
<1>2. IsByCycle(out, rows) BY <1>1, SameChoice, PerCycle
<1>3. PICK P : P = {k \in DOMAIN out : out[k].cycle = LastCycle} OBVIOUS
<1>4. PICK Q : Q = OfCycle(rows, DOMAIN rows, LastCycle) OBVIOUS
<1>5. Q \subseteq DOMAIN rows BY <1>4 DEF OfCycle
<1>6. best_row(cycle_rows(rows, LastCycle)) =
        IF Q = {} THEN <<>> ELSE <<BestAt(rows, LastCycle)>>
  <2>1. cycle_rows(rows, LastCycle) = Keep(rows, Q) BY <1>4 DEF cycle_rows, OfCycle
  <2>2. BestAt(rows, LastCycle) = rows[BestPlace(rows, Q)] BY <1>4 DEF BestAt
  <2> QED BY <1>5, <2>1, <2>2, BestOfKept
<1>7. cycle_rows(out, LastCycle) = Keep(out, P) BY <1>3 DEF cycle_rows
<1>8. Q = {} <=> LastCycle \notin AllCycles(rows)
  BY <1>4 DEF OfCycle, AllCycles, CyclesIn
<1>9. CASE Q = {}
  <2>1. P = {} BY <1>2, <1>3, <1>8, <1>9 DEF IsByCycle
  <2>2. out \in Seq(TableRow) /\ P \subseteq DOMAIN out BY <1>2, <1>3 DEF IsByCycle
  <2>3. Keep(out, P) = <<>> BY <2>1, <2>2, KeepRows
  <2> QED BY <1>1, <1>6, <1>7, <1>9, <2>3
<1>10. CASE Q # {}
  <2>1. PICK k \in DOMAIN out : out[k].cycle = LastCycle
    BY <1>2, <1>8, <1>10 DEF IsByCycle
  <2>2. out \in Seq(TableRow) /\ out[k] = BestAt(rows, LastCycle)
    BY <1>2, <2>1 DEF IsByCycle
  <2>3. P = {k} BY <1>2, <1>3, <2>1 DEF IsByCycle
  <2>4. Keep(out, P) = <<out[k]>> BY <2>2, <2>3, KeepOne
  <2> QED BY <1>1, <1>6, <1>7, <1>10, <2>2, <2>4
<1> QED BY <1>9, <1>10

-----------------------------------------------------------------------------
(* The report.                                                             *)

LEMMA ReadRows ==
  ASSUME NEW file \in Seq(TableRow)
  PROVE  /\ read_csv(file) \in Seq(TableRow) /\ Requested(read_csv(file))
         /\ read_rows(file) = read_csv(file)
<1>1. PICK P : P = {i \in DOMAIN file :
                      file[i].status = "pass" /\ file[i].cycle \in RequestedCycles}
  OBVIOUS
<1>2. PICK rows : rows = Keep(file, P) OBVIOUS
<1>3. P \subseteq DOMAIN file BY <1>1
<1>4. rows \in Seq(TableRow) BY <1>2, <1>3, KeepPlaces
<1>5. \A i \in DOMAIN rows : \E p \in P : rows[i] = file[p] BY <1>2, <1>3, KeepRows
<1>6. Requested(rows) BY <1>1, <1>5 DEF Requested
<1> QED BY <1>1, <1>2, <1>4, <1>6 DEF read_csv, read_rows

LEMMA CycleRows ==
  ASSUME NEW rows \in Seq(TableRow), NEW c
  PROVE  /\ cycle_rows(rows, c) \in Seq(TableRow)
         /\ rows_for_cycle(rows, c) = cycle_rows(rows, c)
         /\ \A i \in DOMAIN cycle_rows(rows, c) : cycle_rows(rows, c)[i].cycle = c
         /\ \A i \in DOMAIN cycle_rows(rows, c) :
              \E p \in DOMAIN rows : cycle_rows(rows, c)[i] = rows[p]
         /\ \A p \in DOMAIN rows :
              rows[p].cycle = c =>
                \E i \in DOMAIN cycle_rows(rows, c) : cycle_rows(rows, c)[i] = rows[p]
<1>1. PICK P : P = {i \in DOMAIN rows : rows[i].cycle = c} OBVIOUS
<1>2. PICK here : here = Keep(rows, P) OBVIOUS
<1>3. P \subseteq DOMAIN rows BY <1>1
<1>4. here \in Seq(TableRow) BY <1>2, <1>3, KeepPlaces
<1>5. /\ \A i \in DOMAIN here : \E p \in P : here[i] = rows[p]
      /\ \A p \in P : \E i \in DOMAIN here : here[i] = rows[p]
  BY <1>2, <1>3, KeepRows
<1> QED BY <1>1, <1>2, <1>4, <1>5 DEF cycle_rows, rows_for_cycle

LEMMA EmptyRows ==
  ASSUME NEW T, NEW rows \in Seq(T) PROVE rows = <<>> <=> DOMAIN rows = {}
BY EmptySeq, LenProperties

(* The best row is one of the rows, and none has a better accuracy.        *)
LEMMA BestOf ==
  ASSUME NEW rows \in Seq(TableRow)
  PROVE  /\ rows = <<>> => best_row(rows) = <<>>
         /\ rows # <<>> =>
              \E b \in DOMAIN rows :
                best_row(rows) = <<rows[b]>> /\ \A j \in DOMAIN rows : Better(rows, b, j)
<1>1. CASE rows = <<>> BY <1>1, BestRow
<1>2. CASE rows # <<>>
  <2>1. DOMAIN rows # {} BY <1>2, EmptyRows
  <2>2. IsBest(rows, DOMAIN rows, BestPlace(rows, DOMAIN rows)) BY <2>1, BestExists
  <2>3. best_row(rows) = <<rows[BestPlace(rows, DOMAIN rows)]>> BY <1>2, BestRow
  <2> QED BY <1>2, <2>2, <2>3 DEF IsBest
<1> QED BY <1>1, <1>2

(* The ranking: its rows are of the table, and the first ranks before all. *)
LEMMA TopTable ==
  ASSUME NEW rows \in Seq(TableRow), NEW limit \in Nat \ {0}
  PROVE  /\ top_table(rows, limit) = <<>> <=> rows = <<>>
         /\ \A i \in DOMAIN top_table(rows, limit) :
              \E p \in DOMAIN rows : top_table(rows, limit)[i] = rows[p]
         /\ rows # <<>> =>
              /\ 1 \in DOMAIN top_table(rows, limit)
              /\ \E p \in DOMAIN rows :
                  /\ top_table(rows, limit)[1] = rows[p]
                  /\ \A j \in DOMAIN rows : j = p \/ RanksBefore(rows, p, j)
<1>1. PICK D : D = DOMAIN rows OBVIOUS
<1>2. /\ Len(rows) \in Nat /\ D = 1 .. Len(rows)
      /\ \A i \in D : rows[i] \in TableRow
      /\ IsFiniteSet(D) /\ D \subseteq Nat
  BY <1>1, PlacesAreFinite
<1>3. \A i \in D : rows[i].acc \in Nat /\ rows[i].cpi \in Nat BY <1>2 DEF TableRow
<1>4. PICK R : R = {pair \in D \X D : RanksBefore(rows, pair[1], pair[2])} OBVIOUS
<1>5. \A i, j \in D : <<i, j>> \in R <=> RanksBefore(rows, i, j) BY <1>4
<1>6. Orders(R, D)
  <2>1. \A x \in D : <<x, x>> \notin R BY <1>2, <1>3, <1>5 DEF RanksBefore
  <2>2. \A x, y \in D : x # y => <<x, y>> \in R \/ <<y, x>> \in R
    BY <1>2, <1>3, <1>5 DEF RanksBefore
  <2>3. ASSUME NEW x \in D, NEW y \in D, NEW z \in D,
               RanksBefore(rows, x, y), RanksBefore(rows, y, z)
        PROVE  RanksBefore(rows, x, z)
    <3>1. x \in Nat /\ y \in Nat /\ z \in Nat BY <1>2
    <3>2. /\ rows[x].acc \in Nat /\ rows[y].acc \in Nat /\ rows[z].acc \in Nat
          /\ rows[x].cpi \in Nat /\ rows[y].cpi \in Nat /\ rows[z].cpi \in Nat
      BY <1>3
    <3> QED BY <2>3, <3>1, <3>2 DEF RanksBefore
  <2>4. \A x, y, z \in D : <<x, y>> \in R /\ <<y, z>> \in R => <<x, z>> \in R
    BY <1>5, <2>3
  <2> QED BY <2>1, <2>2, <2>4 DEF Orders
<1>7. PICK order : order = InOrder(D, R) OBVIOUS
<1>8. Cardinality(D) = Len(rows) BY <1>2, FS_Interval
<1>9. PICK n : n = Len(rows) OBVIOUS
<1>10. /\ n \in Nat /\ D = 1 .. n
       /\ \A i \in 1 .. n : order[i] \in D
       /\ \A x \in D : \E i \in 1 .. n : order[i] = x
       /\ \A i, j \in 1 .. n : i < j => <<order[i], order[j]>> \in R
  BY <1>2, <1>6, <1>7, <1>8, <1>9, OrderPlaces
<1>11. PICK m : m = IF n < limit THEN n ELSE limit OBVIOUS
<1>12. m \in Nat /\ m <= n /\ (n > 0 => m > 0) BY <1>10, <1>11
<1>13. PICK top : top = top_table(rows, limit) OBVIOUS
<1>14. top = [i \in 1 .. m |-> rows[order[i]]]
  BY <1>1, <1>4, <1>7, <1>9, <1>11, <1>13 DEF top_table
<1>15. \A i \in DOMAIN top : \E p \in D : top[i] = rows[p]
  <2> TAKE i \in DOMAIN top
  <2>1. i \in 1 .. m /\ top[i] = rows[order[i]] BY <1>14
  <2>2. i \in 1 .. n BY <1>10, <1>12, <2>1
  <2> QED BY <1>10, <2>1, <2>2
<1>16. top \in Seq(TableRow)
  <2>1. top \in [1 .. m -> TableRow] BY <1>2, <1>10, <1>12, <1>14
  <2> QED BY <1>12, <2>1, ListIsSeq
<1>17. rows = <<>> <=> n = 0
  <2>1. rows = <<>> <=> D = {} BY <1>1, EmptyRows
  <2>2. D = {} <=> n = 0
    <3>1. n \in Nat /\ D = 1 .. n BY <1>10
    <3>2. CASE n > 0
      <4>1. 1 \in D BY <3>1, <3>2
      <4> QED BY <3>2, <4>1
    <3>3. CASE n = 0 BY <3>1, <3>3
    <3> QED BY <3>1, <3>2, <3>3
  <2> QED BY <2>1, <2>2
<1>18. top = <<>> <=> m = 0
  <2>1. top = <<>> <=> DOMAIN top = {} BY <1>16, EmptyRows
  <2> QED BY <1>12, <1>14, <2>1
<1>19. ASSUME n > 0
       PROVE  /\ 1 \in DOMAIN top
              /\ \E p \in D : top[1] = rows[p] /\ \A j \in D : j = p \/ RanksBefore(rows, p, j)
  <2>1. 1 \in 1 .. m /\ 1 \in 1 .. n BY <1>10, <1>12, <1>19
  <2>2. top[1] = rows[order[1]] /\ order[1] \in D BY <1>10, <1>14, <2>1
  <2>3. ASSUME NEW j \in D PROVE j = order[1] \/ RanksBefore(rows, order[1], j)
    <3>1. PICK i \in 1 .. n : order[i] = j BY <1>10
    <3>2. i = 1 \/ 1 < i BY <1>10
    <3> QED BY <1>5, <1>10, <2>1, <2>2, <3>1, <3>2
  <2> QED BY <1>14, <2>1, <2>2, <2>3
<1>20. top = <<>> <=> rows = <<>> BY <1>10, <1>12, <1>11, <1>17, <1>18
<1>21. rows # <<>> => n > 0 BY <1>10, <1>17
<1> QED BY <1>1, <1>13, <1>15, <1>19, <1>20, <1>21

(* What SummaryAgrees says of a report.                                    *)
OneStory(says) ==
  /\ \A s \in DOMAIN says.best : cycle_rows(says.tables[s], LastCycle) = says.best[s]
  /\ says.top = <<>> <=> says.best.ghr_on = <<>>
  /\ says.top # <<>> =>
       /\ says.top[1].acc = says.best.ghr_on[1].acc
       /\ says.top[1].cpi <= says.best.ghr_on[1].cpi
  /\ \A i \in DOMAIN says.top :
       says.top[i].ghr > 0 => says.top[i].acc <= says.nonzero[1].acc

LEMMA SummaryOf ==
  ASSUME NEW static \in Seq(TableRow), NEW ghr_off \in Seq(TableRow),
         NEW ghr_on \in Seq(TableRow),
         Requested(static), Requested(ghr_off), Requested(ghr_on)
  PROVE  OneStory(ReportOf(static, ghr_off, ghr_on))
<1>1. PICK says : says = ReportOf(static, ghr_off, ghr_on) OBVIOUS
<1>2. PICK last : last = cycle_rows(ghr_on, LastCycle) OBVIOUS
<1>3. /\ says.best = [static |-> best_row(cycle_rows(static, LastCycle)),
                     ghr_off |-> best_row(cycle_rows(ghr_off, LastCycle)),
                     ghr_on |-> best_row(last)]
      /\ says.tables = [static |-> best_rows_by_cycle(static),
                       ghr_off |-> best_rows_by_cycle(ghr_off),
                       ghr_on |-> best_rows_by_cycle(ghr_on)]
      /\ says.nonzero = best_row(NonzeroGhr(last))
      /\ says.top = top_table(last, 12)
  BY <1>1, <1>2 DEF ReportOf
<1>4. \A s \in DOMAIN says.best : cycle_rows(says.tables[s], LastCycle) = says.best[s]
  <2>1. DOMAIN says.best = {"static", "ghr_off", "ghr_on"} BY <1>3
  <2>2. cycle_rows(says.tables.static, LastCycle) = says.best.static
    BY <1>3, TableHasBest
  <2>3. cycle_rows(says.tables.ghr_off, LastCycle) = says.best.ghr_off
    BY <1>3, TableHasBest
  <2>4. cycle_rows(says.tables.ghr_on, LastCycle) = says.best.ghr_on
    BY <1>2, <1>3, TableHasBest
  <2> QED BY <2>1, <2>2, <2>3, <2>4
<1>5. last \in Seq(TableRow) BY <1>2, CycleRows
<1>6. \A j \in DOMAIN last : last[j].acc \in Nat /\ last[j].cpi \in Nat
  <2>1. \A j \in DOMAIN last : last[j] \in TableRow BY <1>5, PlacesAreFinite
  <2> QED BY <2>1 DEF TableRow
<1>7. PICK top : top = top_table(last, 12) OBVIOUS
<1>8. /\ top = <<>> <=> last = <<>>
      /\ \A i \in DOMAIN top : \E p \in DOMAIN last : top[i] = last[p]
      /\ last # <<>> =>
           /\ 1 \in DOMAIN top
           /\ \E p \in DOMAIN last :
               top[1] = last[p] /\ \A j \in DOMAIN last : j = p \/ RanksBefore(last, p, j)
  <2>1. 12 \in Nat \ {0} OBVIOUS
  <2> QED BY <1>5, <1>7, <2>1, TopTable
<1>9. top = <<>> <=> best_row(last) = <<>>
  <2>1. last = <<>> => best_row(last) = <<>> BY <1>5, BestOf
  <2>2. ASSUME last # <<>> PROVE best_row(last) # <<>>
    <3>1. PICK b \in DOMAIN last : best_row(last) = <<last[b]>> BY <1>5, <2>2, BestOf
    <3> QED BY <3>1
  <2> QED BY <1>8, <2>1, <2>2
<1>10. ASSUME top # <<>>
       PROVE  top[1].acc = best_row(last)[1].acc /\ top[1].cpi <= best_row(last)[1].cpi
  <2>1. last # <<>> BY <1>8, <1>10
  <2>2. PICK p \in DOMAIN last :
          top[1] = last[p] /\ \A j \in DOMAIN last : j = p \/ RanksBefore(last, p, j)
    BY <1>8, <2>1
  <2>3. PICK b \in DOMAIN last :
          best_row(last) = <<last[b]>> /\ \A j \in DOMAIN last : Better(last, b, j)
    BY <1>5, <2>1, BestOf
  <2>4. best_row(last)[1] = last[b] BY <2>3
  <2>5. Better(last, b, p) /\ (b = p \/ RanksBefore(last, p, b)) BY <2>2, <2>3
  <2>6. last[p].acc = last[b].acc /\ last[p].cpi <= last[b].cpi
    <3>1. /\ last[p].acc \in Nat /\ last[p].cpi \in Nat
          /\ last[b].acc \in Nat /\ last[b].cpi \in Nat
      BY <1>6
    <3> QED BY <2>5, <3>1 DEF Better, RanksBefore
  <2> QED BY <2>2, <2>4, <2>6
<1>11. ASSUME NEW i \in DOMAIN top, top[i].ghr > 0
       PROVE  top[i].acc <= best_row(NonzeroGhr(last))[1].acc
  <2>1. PICK p \in DOMAIN last : top[i] = last[p] BY <1>8
  <2>2. PICK P : P = {j \in DOMAIN last : last[j].ghr > 0} OBVIOUS
  <2>3. PICK rest : rest = Keep(last, P) OBVIOUS
  <2>4. P \subseteq DOMAIN last /\ p \in P BY <1>11, <2>1, <2>2
  <2>5. rest \in Seq(TableRow) BY <1>5, <2>3, <2>4, KeepPlaces
  <2>6. PICK q \in DOMAIN rest : rest[q] = last[p] BY <1>5, <2>3, <2>4, KeepRows
  <2>7. rest # <<>> BY <2>5, <2>6, EmptyRows
  <2>8. PICK b \in DOMAIN rest :
          best_row(rest) = <<rest[b]>> /\ \A j \in DOMAIN rest : Better(rest, b, j)
    BY <2>5, <2>7, BestOf
  <2>9. rest[q].acc \in Nat /\ rest[b].acc \in Nat
    <3>1. \A j \in DOMAIN rest : rest[j] \in TableRow BY <2>5, PlacesAreFinite
    <3> QED BY <3>1 DEF TableRow
  <2>10. rest[q].acc <= rest[b].acc BY <2>8, <2>9 DEF Better
  <2>11. NonzeroGhr(last) = rest BY <2>2, <2>3 DEF NonzeroGhr
  <2> QED BY <2>1, <2>6, <2>8, <2>10, <2>11
<1> QED BY <1>1, <1>3, <1>4, <1>7, <1>9, <1>10, <1>11 DEF OneStory

-----------------------------------------------------------------------------
(* The invariant.                                                          *)

AllTables == [Strategies -> Seq(TableRow)]
RowsOf(tabs) == [s \in DOMAIN tabs |-> read_csv(tabs[s])]
ReportOn(tabs) ==
  ReportOf(read_rows(tabs.static), read_rows(tabs.ghr_off), read_rows(tabs.ghr_on))
SkipsFor(tabs, name) == name \in OfGhrOn /\ RowsOf(tabs).ghr_on = <<>>
FailsFor(tabs) ==
  \E field \in {"acc", "cpi"} : Raises(cycle_series(RowsOf(tabs), field), TRUE)
Figures(with_plt) == Range(IF with_plt THEN Pngs ELSE Svgs)

ReportsTypeOK ==
  /\ tables \in AllTables
  /\ DOMAIN figures = Names
  /\ round \in Nat
  /\ \A name \in Names : figures[name].round \in 0 .. round
  /\ report.round \in 0 .. round
  /\ at \in {"sweep", "plot", "end"}
  /\ at # "end" => round > 0
  /\ plt \in BOOLEAN
  /\ at = "sweep" => queue \in Seq(Strategies)
  /\ at = "plot" => queue \in Seq(Names)

(* A figure shows what is drawn of some tables, and one of this run what   *)
(* is drawn of the tables there are: none of them is older.                *)
FiguresInv ==
  /\ \A name \in Names :
       figures[name].round # 0 =>
         \E tabs \in AllTables : figures[name].shows = Drawing(name, RowsOf(tabs))
  /\ \A name \in Names, tabs \in AllTables :
       figures[name].round = round /\ round # 0 /\ tables = tabs =>
         figures[name].shows = Drawing(name, RowsOf(tabs))
  /\ at = "sweep" => \A name \in Names : figures[name].round # round

(* While figures are drawn each is drawn, left out or still to come.       *)
QueueInv ==
  at = "plot" =>
    \A tabs \in AllTables, name \in Figures(plt) :
      tables = tabs =>
        name \in Range(queue) \/ figures[name].round = round \/ SkipsFor(tabs, name)

(* So does the report, which comes last.                                   *)
ReportInv ==
  /\ report.round # 0 => \E tabs \in AllTables : report.says = ReportOn(tabs)
  /\ at # "end" => report.round # round
  /\ report.round = round /\ round # 0 =>
       /\ \A tabs \in AllTables : tables = tabs => report.says = ReportOn(tabs)
       /\ \A there \in SUBSET DOMAIN Wanted :
            there = {i \in DOMAIN Wanted : figures[Wanted[i]].round # 0} =>
              report.images = Keep(Wanted, there)
       /\ \A tabs \in AllTables, name \in Figures(plt) :
            tables = tabs => figures[name].round = round \/ SkipsFor(tabs, name)

StatusInv ==
  status = "plot failed" =>
    at = "end" /\ \A tabs \in AllTables : tables = tabs => FailsFor(tabs)

ReportsInv == ReportsTypeOK /\ FiguresInv /\ QueueInv /\ ReportInv /\ StatusInv

LEMMA ReportsStart == ReportsInit => ReportsInv
<1> SUFFICES ASSUME ReportsInit PROVE ReportsInv
  OBVIOUS
<1>1. ReportsTypeOK
  <2>1. tables \in AllTables BY TablesAssumption DEF ReportsInit, AllTables
  <2> QED BY <2>1 DEF ReportsInit, ReportsTypeOK, Missing
<1>2. FiguresInv BY DEF ReportsInit, FiguresInv, Missing
<1>3. QueueInv BY DEF ReportsInit, QueueInv
<1>4. ReportInv BY DEF ReportsInit, ReportInv, Missing
<1>5. StatusInv BY DEF ReportsInit, StatusInv
<1> QED BY <1>1, <1>2, <1>3, <1>4, <1>5 DEF ReportsInv

LEMMA SweepKeeps == ReportsInv /\ SweepStrategy => ReportsInv'
<1> SUFFICES ASSUME ReportsInv, SweepStrategy PROVE ReportsInv'
  OBVIOUS
<1>1. /\ at = "sweep" /\ queue # <<>>
      /\ UNCHANGED <<figures, report, plt, round, interrupts>>
  BY DEF SweepStrategy
<1>2. queue \in Seq(Strategies) /\ tables \in AllTables /\ round > 0
  BY <1>1 DEF ReportsInv, ReportsTypeOK
<1>3. Head(queue) \in Strategies /\ Tail(queue) \in Seq(Strategies)
  BY <1>1, <1>2, HeadTailProperties
<1>4. tables' \in AllTables
  <2>1. CASE tables' = tables BY <1>2, <2>1
  <2>2. CASE \E table \in Tables[Head(queue)] : tables' = [tables EXCEPT ![Head(queue)] = table]
    BY <1>2, <1>3, <2>2, TablesAssumption DEF AllTables
  <2> QED BY <2>1, <2>2 DEF SweepStrategy
<1>5. \/ at' = at /\ queue' = Tail(queue) /\ status' = status
      \/ at' = "end" /\ status' = "sweep failed"
  BY DEF SweepStrategy, Stop
<1>6. ReportsTypeOK' BY <1>1, <1>2, <1>3, <1>4, <1>5 DEF ReportsInv, ReportsTypeOK
<1>7. \A name \in Names : figures[name].round # round BY <1>1 DEF ReportsInv, FiguresInv
<1>8. report.round # round BY <1>1 DEF ReportsInv, ReportInv
<1>9. FiguresInv' BY <1>1, <1>5, <1>7 DEF ReportsInv, FiguresInv
<1>10. QueueInv' BY <1>1, <1>5 DEF QueueInv
<1>11. ReportInv' BY <1>1, <1>5, <1>8 DEF ReportsInv, ReportInv
<1>12. StatusInv' BY <1>1, <1>5 DEF ReportsInv, StatusInv
<1> QED BY <1>6, <1>9, <1>10, <1>11, <1>12 DEF ReportsInv

LEMMA PlotStarts == ReportsInv /\ StartPlot => ReportsInv'
<1> SUFFICES ASSUME ReportsInv, StartPlot PROVE ReportsInv'
  OBVIOUS
<1>1. /\ at = "sweep" /\ at' = "plot" /\ plt' \in BOOLEAN
      /\ queue' = IF plt' THEN Pngs ELSE Svgs
      /\ UNCHANGED <<tables, figures, report, status, round, interrupts>>
  BY DEF StartPlot
<1>2. Svgs \in Seq(Names) /\ Pngs \in Seq(Names)
  <2>1. Range(Svgs) \subseteq Names /\ Range(Pngs) \subseteq Names BY DEF Names
  <2>2. /\ DOMAIN Svgs = 1 .. 6 /\ Svgs \in [1 .. 6 -> Range(Svgs)]
        /\ DOMAIN Pngs = 1 .. 3 /\ Pngs \in [1 .. 3 -> Range(Pngs)]
    BY DEF Svgs, Pngs, Range
  <2>3. Svgs \in [1 .. 6 -> Names] /\ Pngs \in [1 .. 3 -> Names] BY <2>1, <2>2
  <2> QED BY <2>3, ListIsSeq
<1>3. ReportsTypeOK' BY <1>1, <1>2 DEF ReportsInv, ReportsTypeOK
<1>4. FiguresInv' BY <1>1 DEF ReportsInv, FiguresInv
<1>5. QueueInv'
  <2>1. Figures(plt)' = Range(queue') BY <1>1 DEF Figures
  <2> QED BY <2>1 DEF QueueInv
<1>6. ReportInv' BY <1>1 DEF ReportsInv, ReportInv
<1>7. StatusInv' BY <1>1 DEF ReportsInv, StatusInv
<1> QED BY <1>3, <1>4, <1>5, <1>6, <1>7 DEF ReportsInv

LEMMA HeadAndTail ==
  ASSUME NEW T, NEW q \in Seq(T), q # <<>>
  PROVE  Range(q) \subseteq {Head(q)} \cup Range(Tail(q))
<1> SUFFICES ASSUME NEW i \in DOMAIN q, q[i] # Head(q) PROVE q[i] \in Range(Tail(q))
  BY DEF Range
<1>1. /\ Len(q) \in Nat \ {0} /\ DOMAIN q = 1 .. Len(q) /\ Head(q) = q[1]
      /\ Tail(q) \in Seq(T) /\ Len(Tail(q)) = Len(q) - 1
      /\ \A k \in 1 .. Len(Tail(q)) : Tail(q)[k] = q[k + 1]
  BY HeadTailProperties, LenProperties, EmptySeq
<1>2. i # 1 /\ i - 1 \in 1 .. Len(Tail(q)) BY <1>1
<1>3. i - 1 \in DOMAIN Tail(q) BY <1>1, <1>2, LenProperties
<1>4. Tail(q)[i - 1] = q[i] BY <1>1, <1>2
<1> QED BY <1>3, <1>4 DEF Range

LEMMA DrawKeeps == ReportsInv /\ Draw => ReportsInv'
<1> SUFFICES ASSUME ReportsInv, Draw PROVE ReportsInv'
  OBVIOUS
<1>1. at = "plot" /\ queue # <<>> /\ UNCHANGED <<tables, report, plt, round, interrupts>>
  BY DEF Draw
<1>2. /\ queue \in Seq(Names) /\ tables \in AllTables
      /\ round > 0 /\ round \in Nat /\ DOMAIN figures = Names
  BY <1>1 DEF ReportsInv, ReportsTypeOK
<1>3. PICK name : name = Head(queue) OBVIOUS
<1>4. /\ name \in Names /\ Tail(queue) \in Seq(Names)
      /\ Range(queue) \subseteq {name} \cup Range(Tail(queue))
  BY <1>1, <1>2, <1>3, HeadTailProperties, HeadAndTail
<1>5. PICK tabs \in AllTables : tables = tabs BY <1>2
<1>6. strategy_rows = RowsOf(tabs) BY <1>5 DEF strategy_rows, RowsOf
<1>7. report.round # round BY <1>1 DEF ReportsInv, ReportInv
<1>8. ReportInv'
  BY <1>1, <1>2, <1>7 DEF ReportsInv, ReportInv
<1>9. CASE Fails(name)
  <2>1. /\ at' = "end" /\ queue' = <<>> /\ status' = "plot failed"
        /\ figures' = figures
    BY <1>3, <1>9 DEF Draw, Stop
  <2>2. FailsFor(tabs) BY <1>6, <1>9 DEF Fails, FailsFor
  <2>3. ReportsTypeOK' BY <1>1, <2>1 DEF ReportsInv, ReportsTypeOK
  <2>4. FiguresInv' BY <1>1, <2>1 DEF ReportsInv, FiguresInv
  <2>5. QueueInv' BY <2>1 DEF QueueInv
  <2>6. StatusInv' BY <1>1, <1>5, <2>1, <2>2 DEF StatusInv
  <2> QED BY <1>8, <2>3, <2>4, <2>5, <2>6 DEF ReportsInv
<1>10. CASE ~Fails(name)
  <2>1. /\ at' = "plot" /\ queue' = Tail(queue) /\ status' = status
        /\ figures' = IF Skips(name) THEN figures
                      ELSE [figures EXCEPT ![name] =
                              [round |-> round, shows |-> Drawing(name, strategy_rows)]]
    BY <1>1, <1>3, <1>10 DEF Draw
  <2>2. PICK drawing : drawing = Drawing(name, RowsOf(tabs)) OBVIOUS
  <2>3. /\ DOMAIN figures' = Names
        /\ \A other \in Names : other # name => figures'[other] = figures[other]
        /\ Skips(name) => figures'[name] = figures[name]
        /\ ~Skips(name) => figures'[name] = [round |-> round, shows |-> drawing]
    BY <1>2, <1>4, <1>6, <2>1, <2>2
  <2>4. Skips(name) <=> SkipsFor(tabs, name) BY <1>6 DEF Skips, SkipsFor
  <2>5. ReportsTypeOK'
    <3>1. \A other \in Names : figures'[other].round \in 0 .. round
      BY <1>2, <2>3 DEF ReportsInv, ReportsTypeOK
    <3> QED BY <1>1, <1>2, <1>4, <2>1, <2>3, <3>1 DEF ReportsInv, ReportsTypeOK
  <2>6. FiguresInv'
    <3>1. ASSUME NEW other \in Names, figures'[other].round # 0
          PROVE  \E t \in AllTables : figures'[other].shows = Drawing(other, RowsOf(t))
      <4>1. CASE other = name /\ ~Skips(name) BY <2>2, <2>3, <4>1
      <4>2. CASE ~(other = name /\ ~Skips(name))
        BY <2>3, <3>1, <4>2 DEF ReportsInv, FiguresInv
      <4> QED BY <4>1, <4>2
    <3>2. ASSUME NEW other \in Names, NEW t \in AllTables,
                 figures'[other].round = round, tables = t
          PROVE  figures'[other].shows = Drawing(other, RowsOf(t))
      <4>1. CASE other = name /\ ~Skips(name) BY <1>5, <2>2, <2>3, <3>2, <4>1
      <4>2. CASE ~(other = name /\ ~Skips(name))
        BY <1>2, <2>3, <3>2, <4>2 DEF ReportsInv, FiguresInv
      <4> QED BY <4>1, <4>2
    <3> QED BY <1>1, <2>1, <3>1, <3>2 DEF FiguresInv
  <2>7. QueueInv'
    <3> SUFFICES ASSUME NEW t \in AllTables, NEW other \in Figures(plt), tables = t
                 PROVE  other \in Range(Tail(queue)) \/ figures'[other].round = round
                          \/ SkipsFor(t, other)
      <4>1. Figures(plt)' = Figures(plt) BY <1>1 DEF Figures
      <4> QED BY <1>1, <2>1, <4>1 DEF QueueInv
    <3>1. other \in Names BY DEF Figures, Names
    <3>2. other \in Range(queue) \/ figures[other].round = round \/ SkipsFor(t, other)
      BY <1>1 DEF ReportsInv, QueueInv
    <3>3. CASE other = name BY <1>5, <2>3, <2>4, <3>3
    <3>4. CASE other # name BY <1>4, <2>3, <3>1, <3>2, <3>4
    <3> QED BY <3>3, <3>4
  <2>8. StatusInv' BY <1>1, <2>1 DEF ReportsInv, StatusInv
  <2> QED BY <1>8, <2>5, <2>6, <2>7, <2>8 DEF ReportsInv
<1> QED BY <1>9, <1>10

LEMMA ReportKeeps == ReportsInv /\ GenerateReport => ReportsInv'
<1> SUFFICES ASSUME ReportsInv, GenerateReport PROVE ReportsInv'
  OBVIOUS
<1>1. /\ at = "plot" /\ queue = <<>> /\ at' = "end" /\ queue' = <<>> /\ status' = "ok"
      /\ UNCHANGED <<tables, figures, plt, round, interrupts>>
  BY DEF GenerateReport, Stop
<1>2. tables \in AllTables /\ round > 0 /\ round \in Nat
  BY <1>1 DEF ReportsInv, ReportsTypeOK
<1>3. PICK tabs \in AllTables : tables = tabs BY <1>2
<1>4. PICK there : there = {i \in DOMAIN Wanted : figures[Wanted[i]].round # 0} OBVIOUS
<1>5. report' = [round |-> round, images |-> Keep(Wanted, there), says |-> ReportOn(tabs)]
  BY <1>3, <1>4 DEF GenerateReport, ReportOn, image_lines
<1>6. PICK says, images : says = ReportOn(tabs) /\ images = Keep(Wanted, there)
  OBVIOUS
<1>7. report'.round = round /\ report'.images = images /\ report'.says = says
  BY <1>5, <1>6
<1>8. ReportsTypeOK' BY <1>1, <1>2, <1>7 DEF ReportsInv, ReportsTypeOK
<1>9. FiguresInv' BY <1>1 DEF ReportsInv, FiguresInv
<1>10. QueueInv' BY <1>1 DEF QueueInv
<1>11. StatusInv' BY <1>1 DEF StatusInv
<1>12. ReportInv'
  <2>1. \A t \in AllTables : tables' = t => report'.says = ReportOn(t)
    BY <1>1, <1>3, <1>6, <1>7
  <2>2. \A t \in SUBSET DOMAIN Wanted :
          t = {i \in DOMAIN Wanted : figures'[Wanted[i]].round # 0} =>
            report'.images = Keep(Wanted, t)
    BY <1>1, <1>4, <1>6, <1>7
  <2>3. \A t \in AllTables, name \in Figures(plt') :
          tables' = t => figures'[name].round = round' \/ SkipsFor(t, name)
    <3>1. Range(queue) = {} BY <1>1 DEF Range
    <3> QED BY <1>1, <3>1 DEF ReportsInv, QueueInv
  <2>4. \E t \in AllTables : report'.says = ReportOn(t) BY <1>6, <1>7
  <2> QED BY <1>1, <2>1, <2>2, <2>3, <2>4 DEF ReportInv, Figures
<1> QED BY <1>8, <1>9, <1>10, <1>11, <1>12 DEF ReportsInv

LEMMA InterruptKeeps == ReportsInv /\ Interrupt => ReportsInv'
<1> SUFFICES ASSUME ReportsInv, Interrupt PROVE ReportsInv'
  OBVIOUS
<1>1. /\ at # "end" /\ at' = "end" /\ status' = "killed"
      /\ UNCHANGED <<tables, figures, report, plt, round>>
  BY DEF Interrupt, Stop
<1>2. report.round # round BY <1>1 DEF ReportsInv, ReportInv
<1>3. ReportsTypeOK' BY <1>1 DEF ReportsInv, ReportsTypeOK
<1>4. FiguresInv' BY <1>1 DEF ReportsInv, FiguresInv
<1>5. QueueInv' BY <1>1 DEF QueueInv
<1>6. ReportInv' BY <1>1, <1>2 DEF ReportsInv, ReportInv
<1>7. StatusInv' BY <1>1 DEF StatusInv
<1> QED BY <1>3, <1>4, <1>5, <1>6, <1>7 DEF ReportsInv

LEMMA RoundStarts == ReportsInv /\ Start => ReportsInv'
<1> SUFFICES ASSUME ReportsInv, Start PROVE ReportsInv'
  OBVIOUS
<1>1. /\ at = "end" /\ round' = round + 1 /\ at' = "sweep" /\ status' = "running"
      /\ queue' \in Requests
      /\ UNCHANGED <<tables, figures, report, plt, interrupts>>
  BY DEF Start
<1>2. /\ round \in Nat /\ report.round \in 0 .. round
      /\ \A name \in Names : figures[name].round \in 0 .. round
  BY DEF ReportsInv, ReportsTypeOK
<1>3. report.round # round' /\ \A name \in Names : figures[name].round # round'
  BY <1>1, <1>2
<1>4. ReportsTypeOK'
  <2>1. /\ round' \in Nat /\ report.round \in 0 .. round' /\ round' > 0
        /\ \A name \in Names : figures[name].round \in 0 .. round'
    BY <1>1, <1>2
  <2>2. queue' \in Seq(Strategies) BY <1>1, TablesAssumption
  <2> QED BY <1>1, <2>1, <2>2 DEF ReportsInv, ReportsTypeOK
<1>5. FiguresInv' BY <1>1, <1>3 DEF ReportsInv, FiguresInv
<1>6. QueueInv' BY <1>1 DEF QueueInv
<1>7. ReportInv' BY <1>1, <1>3 DEF ReportsInv, ReportInv
<1>8. StatusInv' BY <1>1 DEF StatusInv
<1> QED BY <1>4, <1>5, <1>6, <1>7, <1>8 DEF ReportsInv

(* However often the pipeline is run, killed or fails, its tables, figures *)
(* and report fit together as the invariant says.                          *)
THEOREM ReportsInductive == ReportsSpec => []ReportsInv
<1>1. ReportsInv /\ [ReportsNext]_reportVars => ReportsInv'
  <2> SUFFICES ASSUME ReportsInv, [ReportsNext]_reportVars PROVE ReportsInv'
    OBVIOUS
  <2>1. CASE UNCHANGED reportVars
    <3>1. UNCHANGED <<tables, figures, report, at, queue, plt, status, round, interrupts>>
      BY <2>1 DEF reportVars
    <3>2. ReportsTypeOK' BY <3>1 DEF ReportsInv, ReportsTypeOK
    <3>3. FiguresInv' BY <3>1 DEF ReportsInv, FiguresInv
    <3>4. QueueInv'
      <4>1. Figures(plt)' = Figures(plt) BY <3>1 DEF Figures
      <4> QED BY <3>1, <4>1 DEF ReportsInv, QueueInv
    <3>5. ReportInv'
      <4>1. Figures(plt)' = Figures(plt) BY <3>1 DEF Figures
      <4> QED BY <3>1, <4>1 DEF ReportsInv, ReportInv
    <3>6. StatusInv' BY <3>1 DEF ReportsInv, StatusInv
    <3> QED BY <3>2, <3>3, <3>4, <3>5, <3>6 DEF ReportsInv
  <2> QED BY <2>1, SweepKeeps, PlotStarts, DrawKeeps, ReportKeeps, InterruptKeeps, RoundStarts
        DEF ReportsNext
<1> QED BY <1>1, ReportsStart, PTL DEF ReportsSpec

-----------------------------------------------------------------------------
(* What the invariant means for a reader of the results.                   *)

(* The summary, the tables and the ranking of the report agree, whatever   *)
(* the tables hold: equal accuracies and missing strategies included.      *)
THEOREM SummaryTrue == ReportsSpec => []SummaryAgrees
<1>1. ReportsInv => SummaryAgrees
  <2> SUFFICES ASSUME ReportsInv, report.round # 0 PROVE OneStory(report.says)
    BY DEF SummaryAgrees, OneStory
  <2>1. PICK tabs \in AllTables : report.says = ReportOn(tabs)
    BY DEF ReportsInv, ReportInv
  <2>2. /\ tabs.static \in Seq(TableRow) /\ tabs.ghr_off \in Seq(TableRow)
        /\ tabs.ghr_on \in Seq(TableRow)
    BY DEF AllTables, Strategies
  <2>3. PICK static, ghr_off, ghr_on :
          /\ static = read_rows(tabs.static)
          /\ ghr_off = read_rows(tabs.ghr_off)
          /\ ghr_on = read_rows(tabs.ghr_on)
    OBVIOUS
  <2>4. static \in Seq(TableRow) /\ Requested(static) BY <2>2, <2>3, ReadRows
  <2>5. ghr_off \in Seq(TableRow) /\ Requested(ghr_off) BY <2>2, <2>3, ReadRows
  <2>6. ghr_on \in Seq(TableRow) /\ Requested(ghr_on) BY <2>2, <2>3, ReadRows
  <2>7. OneStory(ReportOf(static, ghr_off, ghr_on)) BY <2>4, <2>5, <2>6, SummaryOf
  <2> QED BY <2>1, <2>3, <2>7 DEF ReportOn
<1> QED BY <1>1, ReportsInductive, PTL

(* Without matplotlib the figures that a report shows are of its own run,  *)
(* but for those of ghr_on when its table is empty.                        *)
THEOREM OwnFigures == ReportsSpec => []FiguresOfThisRun
<1>1. ReportsInv => FiguresOfThisRun
  <2> SUFFICES ASSUME ReportsInv, report.round = round, round # 0, ~plt,
                      NEW name \in Range(Wanted)
               PROVE  \/ figures[name].round = round /\ name \in Range(report.images)
                      \/ Skips(name)
    BY Zenon DEF FiguresOfThisRun
  <2>1. PICK tabs \in AllTables : tables = tabs BY DEF ReportsInv, ReportsTypeOK
  <2>2. strategy_rows = RowsOf(tabs) BY <2>1 DEF strategy_rows, RowsOf
  <2>3. name \in Figures(plt)
    <3>1. Range(Wanted) \subseteq Range(Svgs) BY DEF Range, Wanted, Svgs
    <3> QED BY <3>1 DEF Figures
  <2>4. figures[name].round = round \/ SkipsFor(tabs, name)
    BY <2>1, <2>3 DEF ReportsInv, ReportInv
  <2>5. CASE SkipsFor(tabs, name) BY <2>2, <2>5 DEF Skips, SkipsFor
  <2>6. CASE figures[name].round = round
    <3>1. PICK there : there = {i \in DOMAIN Wanted : figures[Wanted[i]].round # 0} OBVIOUS
    <3>2. there \in SUBSET DOMAIN Wanted BY <3>1
    <3>3. report.images = Keep(Wanted, there) BY <3>1, <3>2 DEF ReportsInv, ReportInv
    <3>4. PICK i \in DOMAIN Wanted : Wanted[i] = name BY DEF Range
    <3>5. i \in there BY <2>6, <3>1, <3>4
    <3>6. Wanted \in Seq(Range(Wanted))
      <4>1. Wanted \in [1 .. 5 -> Range(Wanted)] BY DEF Wanted, Range
      <4> QED BY <4>1, ListIsSeq
    <3>7. \E k \in DOMAIN Keep(Wanted, there) : Keep(Wanted, there)[k] = Wanted[i]
      <4>1. PICK T, w : T = Range(Wanted) /\ w = Wanted OBVIOUS
      <4>2. w \in Seq(T) /\ there \subseteq DOMAIN w /\ i \in there
        BY <3>2, <3>5, <3>6, <4>1
      <4>3. PICK kept : kept = Keep(w, there) OBVIOUS
      <4>4. \A p \in there : \E k \in DOMAIN kept : kept[k] = w[p]
        BY <4>2, <4>3, KeepRows
      <4>5. \E k \in DOMAIN kept : kept[k] = w[i] BY <4>2, <4>4
      <4> QED BY <4>1, <4>3, <4>5
    <3>8. name \in Range(report.images) BY <3>3, <3>4, <3>7 DEF Range
    <3> QED BY <2>6, <3>8
  <2> QED BY <2>4, <2>5, <2>6
<1> QED BY <1>1, ReportsInductive, PTL

LEMMA NoPoints ==
  ASSUME NEW rows \in Seq(TableRow), NEW field, DOMAIN CyclePoints(rows, field) = {}
  PROVE  DOMAIN rows = {}
<1>1. PICK best : best = best_per_cycle(rows) OBVIOUS
<1>2. IsByCycle(best, rows) BY <1>1, PerCycle
<1>3. DOMAIN best = {} BY <1>1 DEF CyclePoints
<1>4. AllCycles(rows) = {} BY <1>2, <1>3 DEF IsByCycle
<1> QED BY <1>4 DEF AllCycles, CyclesIn

LEMMA NonzeroRows ==
  ASSUME NEW rows \in Seq(TableRow)
  PROVE  /\ nonzero_ghr_rows(rows) \in Seq(TableRow)
         /\ \A p \in DOMAIN rows :
              rows[p].ghr \in 1 .. 10 =>
                \E i \in DOMAIN nonzero_ghr_rows(rows) : nonzero_ghr_rows(rows)[i] = rows[p]
<1>1. PICK P : P = {i \in DOMAIN rows : rows[i].ghr \in 1 .. 10} OBVIOUS
<1>2. PICK rest : rest = Keep(rows, P) OBVIOUS
<1>3. P \subseteq DOMAIN rows BY <1>1
<1>4. rest \in Seq(TableRow) BY <1>2, <1>3, KeepPlaces
<1>5. \A p \in P : \E i \in DOMAIN rest : rest[i] = rows[p] BY <1>2, <1>3, KeepRows
<1> QED BY <1>1, <1>2, <1>4, <1>5 DEF nonzero_ghr_rows

(* The script of the figures only raises when no strategy has a row to     *)
(* draw over the cycle counts.                                             *)
THEOREM PlotFailsOnEmpty == ReportsSpec => []FailsOnlyEmpty
<1>1. ReportsInv => FailsOnlyEmpty
  <2> SUFFICES ASSUME ReportsInv, status = "plot failed",
                      NEW s \in DOMAIN tables, NEW row \in Range(read_csv(tables[s]))
               PROVE  s = "ghr_on" /\ row.ghr \notin 1 .. 10
    BY DEF FailsOnlyEmpty
  <2>1. PICK tabs \in AllTables : tables = tabs BY DEF ReportsInv, ReportsTypeOK
  <2>2. FailsFor(tabs) BY <2>1 DEF ReportsInv, StatusInv
  <2>3. PICK field : Raises(cycle_series(RowsOf(tabs), field), TRUE) BY <2>2 DEF FailsFor
  <2>4. PICK rows : rows = read_csv(tabs[s]) OBVIOUS
  <2>5. s \in DOMAIN tabs /\ rows \in Seq(TableRow)
    <3>1. tabs[s] \in Seq(TableRow) BY <2>1 DEF AllTables
    <3> QED BY <2>1, <2>4, <3>1, ReadRows
  <2>6. PICK drawn : drawn = IF s = "ghr_on" THEN nonzero_ghr_rows(rows) ELSE rows OBVIOUS
  <2>7. drawn \in Seq(TableRow) BY <2>5, <2>6, NonzeroRows
  <2>8. PICK series : series = cycle_series(RowsOf(tabs), field) OBVIOUS
  <2>9. s \in DOMAIN series /\ series[s] = CyclePoints(drawn, field)
    BY <2>4, <2>5, <2>6, <2>8 DEF cycle_series, RowsOf
  <2>10. Xs(series) = {} BY <2>3, <2>8 DEF Raises
  <2>11. DOMAIN series[s] = {}
    <3> SUFFICES ASSUME NEW i \in DOMAIN series[s] PROVE series[s][i][1] \in Xs(series)
      BY <2>10
    <3>1. series[s][i][1] \in {series[s][k][1] : k \in DOMAIN series[s]} OBVIOUS
    <3>2. {series[s][k][1] : k \in DOMAIN series[s]} \subseteq Xs(series) BY <2>9 DEF Xs
    <3> QED BY <3>1, <3>2
  <2>12. DOMAIN drawn = {} BY <2>7, <2>9, <2>11, NoPoints
  <2>13. PICK p \in DOMAIN rows : row = rows[p] BY <2>1, <2>4 DEF Range
  <2>14. s = "ghr_on" BY <2>6, <2>12, <2>13
  <2>15. row.ghr \notin 1 .. 10 BY <2>5, <2>6, <2>12, <2>13, <2>14, NonzeroRows
  <2> QED BY <2>14, <2>15
<1> QED BY <1>1, ReportsInductive, PTL

-----------------------------------------------------------------------------
(* The figures and the report.                                             *)

LEMMA GreatestIs ==
  ASSUME NEW S, S \subseteq Nat, NEW g \in S, \A m \in S : m <= g PROVE Greatest(S) = g
<1>1. PICK h : h = Greatest(S) OBVIOUS
<1>2. h \in S /\ \A m \in S : m <= h BY <1>1 DEF Greatest
<1>3. g <= h /\ h <= g /\ g \in Nat /\ h \in Nat BY <1>2
<1> QED BY <1>1, <1>3

LEMMA LeastIs ==
  ASSUME NEW S, S \subseteq Nat, NEW g \in S, \A m \in S : g <= m PROVE Least(S) = g
<1>1. PICK h : h = Least(S) OBVIOUS
<1>2. h \in S /\ \A m \in S : h <= m BY <1>1 DEF Least
<1>3. g <= h /\ h <= g /\ g \in Nat /\ h \in Nat BY <1>2
<1> QED BY <1>1, <1>3

(* The best of rows that are selected twice.                               *)
LEMMA BestOfSome ==
  ASSUME NEW rows \in Seq(TableRow), NEW P, P \subseteq DOMAIN rows,
         NEW Q, Q \subseteq DOMAIN Keep(rows, P), NEW U, U \subseteq P,
         \A i \in DOMAIN Keep(rows, P) : i \in Q <=> Ascending(P)[i] \in U
  PROVE  /\ Q = {} <=> U = {}
         /\ U # {} => Keep(rows, P)[BestPlace(Keep(rows, P), Q)] = rows[BestPlace(rows, U)]
<1>1. PICK kept : kept = Keep(rows, P) OBVIOUS
<1>2. PICK order : order = Ascending(P) OBVIOUS
<1>3. /\ kept \in Seq(TableRow)
      /\ \A i \in DOMAIN kept : order[i] \in P /\ kept[i] = rows[order[i]]
      /\ \A p \in P : \E i \in DOMAIN kept : order[i] = p
      /\ \A i, j \in DOMAIN kept : i < j => order[i] < order[j]
  BY <1>1, <1>2, KeepPlaces
<1>4. Q \subseteq DOMAIN kept /\ \A i \in DOMAIN kept : i \in Q <=> order[i] \in U
  BY <1>1, <1>2
<1>5. Q = {} <=> U = {} BY <1>3, <1>4
<1>6. ASSUME U # {} PROVE kept[BestPlace(kept, Q)] = rows[BestPlace(rows, U)]
  <2>1. PICK k : k = BestPlace(kept, Q) OBVIOUS
  <2>2. IsBest(kept, Q, k) BY <1>3, <1>4, <1>5, <1>6, <2>1, BestExists
  <2>3. k \in DOMAIN kept /\ order[k] \in U /\ kept[k] = rows[order[k]]
    BY <1>3, <1>4, <2>2 DEF IsBest
  <2>4. DOMAIN kept \subseteq Nat /\ P \subseteq Nat
    <3>1. DOMAIN kept \subseteq Nat BY <1>3, PlacesAreFinite
    <3>2. P \subseteq Nat BY PlacesAreFinite
    <3> QED BY <3>1, <3>2
  <2>5. ASSUME NEW p \in U PROVE Better(rows, order[k], p)
    <3>1. PICK j \in DOMAIN kept : order[j] = p BY <1>3
    <3>2. j \in Q BY <1>4, <3>1
    <3>3. Better(kept, k, j) BY <2>2, <3>2 DEF IsBest
    <3>4. kept[j] = rows[p] BY <1>3, <3>1
    <3>5. k <= j => order[k] <= order[j]
      <4>1. k = j \/ k < j \/ j < k BY <2>3, <2>4
      <4>2. order[k] \in Nat /\ order[j] \in Nat BY <1>3, <2>3, <2>4
      <4> QED BY <1>3, <2>3, <2>4, <4>1, <4>2
    <3> QED BY <2>3, <3>1, <3>3, <3>4, <3>5 DEF Better
  <2>6. IsBest(rows, U, order[k]) BY <2>3, <2>5 DEF IsBest
  <2>7. U \subseteq DOMAIN rows OBVIOUS
  <2>8. BestPlace(rows, U) = order[k] BY <2>6, <2>7, BestIsUnique
  <2> QED BY <2>1, <2>3, <2>8
<1> QED BY <1>1, <1>5, <1>6

(* The points of a figure over a parameter.                                *)
IsBestBy(points, rows, field) ==
  /\ points \in Seq(Nat \X Nat)
  /\ \A i \in DOMAIN points :
       \E k \in DOMAIN rows : points[i] = <<rows[k][field], rows[k].acc>>
  /\ \A k \in DOMAIN rows :
       \E i \in DOMAIN points : points[i][1] = rows[k][field] /\ rows[k].acc <= points[i][2]

LEMMA BestByField ==
  ASSUME NEW rows \in Seq(TableRow), NEW field \in {"ghr", "idx"}
  PROVE  IsBestBy(BestBy(rows, field), rows, field)
<1>1. PICK D : D = DOMAIN rows OBVIOUS
<1>2. /\ \A i \in D : rows[i] \in TableRow
      /\ IsFiniteSet(D) /\ D \subseteq Nat
  BY <1>1, PlacesAreFinite
<1>3. \A i \in D : rows[i].acc \in Nat /\ rows[i][field] \in Nat
  <2> TAKE i \in D
  <2>1. PICK row \in TableRow : row = rows[i] BY <1>2
  <2>2. row.acc \in Nat /\ row["ghr"] \in 0 .. 64 /\ row["idx"] \in 0 .. 64
    BY DEF TableRow
  <2>3. PICK value : value = row[field] OBVIOUS
  <2>4. value \in 0 .. 64 BY <2>2, <2>3
  <2>5. value \in Nat BY <2>4
  <2>6. rows[i].acc \in Nat BY <2>1, <2>2
  <2>7. rows[i][field] = value BY <2>1, <2>3
  <2> QED BY <2>5, <2>6, <2>7
<1>4. PICK V : V = Values(rows, field) OBVIOUS
<1>5. V = {rows[i][field] : i \in D} BY <1>1, <1>4 DEF Values
<1>6. IsFiniteSet(V) /\ V \subseteq Nat
  <2>1. PICK f : f = [i \in D |-> rows[i][field]] OBVIOUS
  <2>2. f \in Surjection(D, V) BY <1>5, <2>1 DEF Surjection
  <2>3. IsFiniteSet(V) BY <1>2, <2>2, FS_Surjection
  <2> QED BY <1>3, <1>5, <2>3
<1>7. PICK keys : keys = Ascending(V) OBVIOUS
<1>8. PICK n : n = Cardinality(V) OBVIOUS
<1>9. /\ n \in Nat /\ DOMAIN keys = 1 .. n
      /\ \A i \in 1 .. n : keys[i] \in V
      /\ \A v \in V : \E i \in 1 .. n : keys[i] = v
  BY <1>6, <1>7, <1>8, AscendingPlaces
<1>10. PICK points : points = BestBy(rows, field) OBVIOUS
<1> DEFINE Of(i) == {k \in D : rows[k][field] = keys[i]}
           Accs(i) == {rows[j].acc : j \in Of(i)}
<1>11. points = [i \in 1 .. n |-> <<keys[i], Greatest(Accs(i))>>]
  BY <1>1, <1>4, <1>7, <1>9, <1>10 DEF BestBy
<1>12. ASSUME NEW i \in 1 .. n
       PROVE  \E b \in Of(i) :
                Greatest(Accs(i)) = rows[b].acc /\ \A k \in Of(i) : rows[k].acc <= rows[b].acc
  <2>1. PICK P : P = Of(i) OBVIOUS
  <2>2. PICK A : A = Accs(i) OBVIOUS
  <2>3. A = {rows[j].acc : j \in P} BY <2>1, <2>2
  <2>4. P \subseteq D /\ P # {} BY <1>5, <1>9, <2>1
  <2>5. PICK b : b = BestPlace(rows, P) OBVIOUS
  <2>6. IsBest(rows, P, b) BY <1>1, <2>4, <2>5, BestExists
  <2>7. b \in P /\ \A j \in P : rows[j].acc <= rows[b].acc
    BY <1>3, <2>4, <2>6 DEF IsBest, Better
  <2>8. A \subseteq Nat /\ rows[b].acc \in A /\ \A m \in A : m <= rows[b].acc
    BY <1>3, <2>3, <2>4, <2>7
  <2>9. Greatest(A) = rows[b].acc BY <2>8, GreatestIs
  <2> QED BY <2>1, <2>2, <2>7, <2>9
<1>13. ASSUME NEW i \in 1 .. n
       PROVE  \E k \in D : points[i] = <<rows[k][field], rows[k].acc>>
  <2>1. PICK b \in Of(i) : Greatest(Accs(i)) = rows[b].acc BY <1>12
  <2>2. b \in D /\ rows[b][field] = keys[i] OBVIOUS
  <2>3. points[i] = <<keys[i], rows[b].acc>> BY <1>11, <2>1
  <2> QED BY <2>2, <2>3
<1>14. ASSUME NEW k \in D
       PROVE  \E i \in 1 .. n : points[i][1] = rows[k][field] /\ rows[k].acc <= points[i][2]
  <2>1. PICK i \in 1 .. n : keys[i] = rows[k][field] BY <1>5, <1>9
  <2>2. k \in Of(i) BY <2>1
  <2>3. points[i] = <<keys[i], Greatest(Accs(i))>> BY <1>11
  <2>4. rows[k].acc <= Greatest(Accs(i))
    <3> HIDE DEF Of, Accs
    <3> QED BY <1>12, <2>2
  <2>5. points[i][1] = keys[i] /\ points[i][2] = Greatest(Accs(i))
    <3> HIDE DEF Of, Accs
    <3> QED BY <2>3
  <2> QED BY <2>1, <2>4, <2>5
<1>15. points \in Seq(Nat \X Nat) /\ DOMAIN points = 1 .. n
  <2>1. ASSUME NEW i \in 1 .. n PROVE points[i] \in Nat \X Nat
    <3>1. PICK k \in D : points[i] = <<rows[k][field], rows[k].acc>> BY <1>13
    <3>2. rows[k][field] \in Nat /\ rows[k].acc \in Nat BY <1>3
    <3> QED BY <3>1, <3>2
  <2>2. points \in [1 .. n -> Nat \X Nat]
    <3>1. DOMAIN points = 1 .. n BY <1>11
    <3>2. points = [i \in 1 .. n |-> points[i]] BY <1>11
    <3> QED BY <2>1, <3>2
  <2> QED BY <1>9, <2>2, ListIsSeq
<1> QED BY <1>1, <1>10, <1>13, <1>14, <1>15 DEF IsBestBy

AccsIn(rows) == {rows[i].acc : i \in DOMAIN rows}
MostIn(points) == IF points = <<>> THEN {} ELSE {Greatest(Heights(points))}
FewestIn(points) == IF points = <<>> THEN {} ELSE {Least(Heights(points))}

LEMMA FieldTypes ==
  ASSUME NEW rows \in Seq(TableRow), NEW i \in DOMAIN rows
  PROVE  /\ rows[i].acc \in Nat /\ rows[i].cpi \in Nat /\ rows[i].cycle \in Nat
         /\ rows[i].ghr \in 0 .. 64 /\ rows[i].idx \in 0 .. 64 /\ rows[i].ghr \in Nat
<1>1. rows[i] \in TableRow BY PlacesAreFinite
<1>2. PICK ghr : ghr = rows[i].ghr OBVIOUS
<1>3. ghr \in 0 .. 64 BY <1>1, <1>2 DEF TableRow
<1>4. ghr \in Nat BY <1>3
<1>5. /\ rows[i].acc \in Nat /\ rows[i].cpi \in Nat /\ rows[i].cycle \in Nat
      /\ rows[i].idx \in 0 .. 64
  BY <1>1 DEF TableRow
<1> QED BY <1>2, <1>3, <1>4, <1>5

(* A best row with its accuracy.                                           *)
LEMMA BestAccuracy ==
  ASSUME NEW rows \in Seq(TableRow)
  PROVE  /\ rows = <<>> => AccsIn(best_row(rows)) = {}
         /\ rows # <<>> =>
              \E b \in DOMAIN rows :
                /\ AccsIn(best_row(rows)) = {rows[b].acc}
                /\ \A j \in DOMAIN rows : rows[j].acc <= rows[b].acc
<1>1. CASE rows = <<>>
  <2>1. best_row(rows) = <<>> BY <1>1, BestOf
  <2> QED BY <1>1, <2>1 DEF AccsIn
<1>2. CASE rows # <<>>
  <2>1. PICK b \in DOMAIN rows :
          best_row(rows) = <<rows[b]>> /\ \A j \in DOMAIN rows : Better(rows, b, j)
    BY <1>2, BestOf
  <2>2. AccsIn(best_row(rows)) = {rows[b].acc} BY <2>1 DEF AccsIn
  <2>3. \A j \in DOMAIN rows : rows[j].acc <= rows[b].acc BY <2>1, FieldTypes DEF Better
  <2> QED BY <1>2, <2>2, <2>3
<1> QED BY <1>1, <1>2

LEMMA WorstAccuracy ==
  ASSUME NEW rows \in Seq(TableRow)
  PROVE  /\ rows = <<>> => AccsIn(worst_row(rows)) = {}
         /\ rows # <<>> =>
              \E b \in DOMAIN rows :
                /\ AccsIn(worst_row(rows)) = {rows[b].acc}
                /\ \A j \in DOMAIN rows : rows[b].acc <= rows[j].acc
<1>1. CASE rows = <<>> BY <1>1 DEF worst_row, AccsIn
<1>2. CASE rows # <<>>
  <2>1. PICK A : A = AccsIn(rows) OBVIOUS
  <2>2. DOMAIN rows # {} /\ DOMAIN rows \subseteq Nat BY <1>2, EmptyRows, PlacesAreFinite
  <2>3. A \subseteq Nat /\ A # {} BY <2>1, <2>2, FieldTypes DEF AccsIn
  <2>4. PICK a \in A : \A m \in A : a <= m BY <2>3, LeastNumber
  <2>5. PICK W : W = {i \in DOMAIN rows : rows[i].acc = a} OBVIOUS
  <2>6. W \subseteq Nat /\ W # {} BY <2>1, <2>2, <2>5 DEF AccsIn
  <2>7. PICK w \in W : \A i \in W : w <= i BY <2>6, LeastNumber
  <2>8. w \in DOMAIN rows /\ rows[w].acc = a BY <2>5
  <2>9. \A j \in DOMAIN rows : a <= rows[j].acc BY <2>1, <2>4 DEF AccsIn
  <2>10. \A j \in DOMAIN rows :
           rows[w].acc < rows[j].acc \/ (rows[j].acc = rows[w].acc /\ w <= j)
    BY <2>3, <2>5, <2>7, <2>8, <2>9, FieldTypes
  <2>11. PICK b : b = CHOOSE i \in DOMAIN rows :
                        \A j \in DOMAIN rows :
                          rows[i].acc < rows[j].acc \/ (rows[j].acc = rows[i].acc /\ i <= j)
    OBVIOUS
  <2>12. /\ b \in DOMAIN rows
         /\ \A j \in DOMAIN rows :
              rows[b].acc < rows[j].acc \/ (rows[j].acc = rows[b].acc /\ b <= j)
    BY <2>8, <2>10, <2>11
  <2>13. worst_row(rows) = <<rows[b]>> BY <1>2, <2>11 DEF worst_row
  <2>14. AccsIn(worst_row(rows)) = {rows[b].acc} BY <2>13 DEF AccsIn
  <2>15. \A j \in DOMAIN rows : rows[b].acc <= rows[j].acc BY <2>12, FieldTypes
  <2> QED BY <1>2, <2>12, <2>14, <2>15
<1> QED BY <1>1, <1>2

(* The highest point of a figure over a parameter.                         *)
LEMMA MostIsBest ==
  ASSUME NEW rows \in Seq(TableRow), NEW field, NEW points, IsBestBy(points, rows, field)
  PROVE  MostIn(points) = AccsIn(best_row(rows))
<1>1. points \in Seq(Nat \X Nat) BY DEF IsBestBy
<1>2. points = <<>> <=> DOMAIN points = {} BY <1>1, EmptyRows
<1>3. rows = <<>> <=> DOMAIN rows = {} BY EmptyRows
<1>4. DOMAIN points = {} <=> DOMAIN rows = {} BY DEF IsBestBy
<1>5. CASE rows = <<>> BY <1>2, <1>3, <1>4, <1>5, BestAccuracy DEF MostIn
<1>6. CASE rows # <<>>
  <2>1. PICK b \in DOMAIN rows :
          /\ AccsIn(best_row(rows)) = {rows[b].acc}
          /\ \A j \in DOMAIN rows : rows[j].acc <= rows[b].acc
    BY <1>6, BestAccuracy
  <2>2. PICK H : H = Heights(points) OBVIOUS
  <2>3. ASSUME NEW h \in H PROVE \E k \in DOMAIN rows : h = rows[k].acc
    <3>1. PICK i \in DOMAIN points : h = points[i][2] BY <2>2 DEF Heights
    <3>2. PICK k \in DOMAIN rows : points[i] = <<rows[k][field], rows[k].acc>> BY DEF IsBestBy
    <3> QED BY <3>1, <3>2
  <2>4. PICK i \in DOMAIN points : rows[b].acc <= points[i][2] BY DEF IsBestBy
  <2>5. points[i][2] \in H BY <2>2 DEF Heights
  <2>6. PICK k \in DOMAIN rows : points[i][2] = rows[k].acc BY <2>3, <2>5
  <2>7. points[i][2] = rows[b].acc
    <3>1. rows[k].acc \in Nat /\ rows[b].acc \in Nat BY FieldTypes
    <3> QED BY <2>1, <2>4, <2>6, <3>1
  <2>8. H \subseteq Nat /\ rows[b].acc \in H /\ \A h \in H : h <= rows[b].acc
    BY <2>1, <2>3, <2>5, <2>7, FieldTypes
  <2>9. Greatest(H) = rows[b].acc BY <2>8, GreatestIs
  <2> QED BY <1>2, <1>3, <1>4, <1>6, <2>1, <2>2, <2>9 DEF MostIn
<1> QED BY <1>5, <1>6

(* The points with a history, against the rows with a history.             *)
LEMMA NonzeroPoints ==
  ASSUME NEW rows \in Seq(TableRow), NEW points, IsBestBy(points, rows, "ghr")
  PROVE  IsBestBy(Keep(points, {i \in DOMAIN points : points[i][1] > 0}),
                  NonzeroGhr(rows), "ghr")
<1>1. PICK P : P = {i \in DOMAIN points : points[i][1] > 0} OBVIOUS
<1>2. PICK R : R = {k \in DOMAIN rows : rows[k].ghr > 0} OBVIOUS
<1>3. PICK kept : kept = Keep(points, P) OBVIOUS
<1>4. PICK rest : rest = Keep(rows, R) OBVIOUS
<1>5. points \in Seq(Nat \X Nat) BY DEF IsBestBy
<1>6. P \subseteq DOMAIN points /\ R \subseteq DOMAIN rows BY <1>1, <1>2
<1>7. kept \in Seq(Nat \X Nat) BY <1>3, <1>5, <1>6, KeepPlaces
<1>8. /\ \A i \in DOMAIN kept : \E p \in P : kept[i] = points[p]
      /\ \A p \in P : \E i \in DOMAIN kept : kept[i] = points[p]
  BY <1>3, <1>5, <1>6, KeepRows
<1>9. /\ \A k \in DOMAIN rest : \E r \in R : rest[k] = rows[r]
      /\ \A r \in R : \E k \in DOMAIN rest : rest[k] = rows[r]
  BY <1>4, <1>6, KeepRows
<1>10. ASSUME NEW i \in DOMAIN kept
       PROVE  \E k \in DOMAIN rest : kept[i] = <<rest[k]["ghr"], rest[k].acc>>
  <2>1. PICK p \in P : kept[i] = points[p] BY <1>8
  <2>2. PICK r \in DOMAIN rows : points[p] = <<rows[r]["ghr"], rows[r].acc>>
    BY <1>6 DEF IsBestBy
  <2>3. r \in R BY <1>1, <1>2, <2>2
  <2>4. PICK k \in DOMAIN rest : rest[k] = rows[r] BY <1>9, <2>3
  <2> QED BY <2>1, <2>2, <2>4
<1>11. ASSUME NEW k \in DOMAIN rest
       PROVE  \E i \in DOMAIN kept :
                kept[i][1] = rest[k]["ghr"] /\ rest[k].acc <= kept[i][2]
  <2>1. PICK r \in R : rest[k] = rows[r] BY <1>9
  <2>2. PICK p \in DOMAIN points :
          points[p][1] = rows[r]["ghr"] /\ rows[r].acc <= points[p][2]
    BY <1>6 DEF IsBestBy
  <2>3. p \in P BY <1>1, <1>2, <2>2
  <2>4. PICK i \in DOMAIN kept : kept[i] = points[p] BY <1>8, <2>3
  <2> QED BY <2>1, <2>2, <2>4
<1>12. IsBestBy(kept, rest, "ghr") BY <1>7, <1>10, <1>11 DEF IsBestBy
<1> QED BY <1>1, <1>2, <1>3, <1>4, <1>12 DEF NonzeroGhr

(* The figure over the index bits shows every row of the last cycle count. *)
LEMMA SweepPoints ==
  ASSUME NEW rows \in Seq(TableRow)
  PROVE  LET points == idx_sweep(rows).ghr_off
             here == cycle_rows(rows, LastCycle)
         IN /\ DOMAIN points = DOMAIN here
            /\ Heights(points) = AccsIn(here)
            /\ points \in Seq(Nat \X Nat)
            /\ \A i \in DOMAIN points :
                 \E k \in DOMAIN here : points[i] = <<here[k].idx, here[k].acc>>
<1>1. PICK here : here = cycle_rows(rows, LastCycle) OBVIOUS
<1>2. here \in Seq(TableRow) /\ rows_for_cycle(rows, LastCycle) = here BY <1>1, CycleRows
<1>3. PICK D : D = DOMAIN here OBVIOUS
<1>4. Len(here) \in Nat /\ D = 1 .. Len(here) /\ IsFiniteSet(D) /\ D \subseteq Nat
  BY <1>2, <1>3, PlacesAreFinite
<1>5. \A i \in D : here[i].idx \in Nat /\ here[i].acc \in Nat
  <2> TAKE i \in D
  <2>1. PICK idx : idx = here[i].idx OBVIOUS
  <2>2. idx \in 0 .. 64 /\ here[i].acc \in Nat BY <1>2, <1>3, <2>1, FieldTypes
  <2>3. idx \in Nat BY <2>2
  <2> QED BY <2>1, <2>2, <2>3
<1> DEFINE Before(i, j) == \/ here[i].idx < here[j].idx
                           \/ here[i].idx = here[j].idx /\ i < j
<1>6. PICK R : R = {pair \in D \X D : Before(pair[1], pair[2])} OBVIOUS
<1>7. \A i, j \in D : <<i, j>> \in R <=> Before(i, j) BY <1>6
<1>8. Orders(R, D)
  <2>1. \A x \in D : <<x, x>> \notin R BY <1>4, <1>5, <1>7
  <2>2. \A x, y \in D : x # y => <<x, y>> \in R \/ <<y, x>> \in R BY <1>4, <1>5, <1>7
  <2>3. ASSUME NEW x \in D, NEW y \in D, NEW z \in D, Before(x, y), Before(y, z)
        PROVE  Before(x, z)
    <3>1. x \in Nat /\ y \in Nat /\ z \in Nat BY <1>4
    <3>2. here[x].idx \in Nat /\ here[y].idx \in Nat /\ here[z].idx \in Nat BY <1>5
    <3> QED BY <2>3, <3>1, <3>2
  <2>4. \A x, y, z \in D : <<x, y>> \in R /\ <<y, z>> \in R => <<x, z>> \in R
    <3> HIDE DEF Before
    <3> QED BY <1>7, <2>3
  <2> QED BY <2>1, <2>2, <2>4 DEF Orders
<1>9. PICK order : order = InOrder(D, R) OBVIOUS
<1>10. PICK n : n = Len(here) OBVIOUS
<1>11. /\ n \in Nat /\ D = 1 .. n /\ DOMAIN order = D
       /\ \A i \in D : order[i] \in D
       /\ \A x \in D : \E i \in D : order[i] = x
  <2>1. n \in Nat /\ D = 1 .. n BY <1>4, <1>10
  <2>2. Cardinality(1 .. n) = n BY <2>1, FS_Interval
  <2>3. Cardinality(D) = n BY <2>1, <2>2
  <2> QED BY <1>4, <1>8, <1>9, <2>1, <2>3, OrderPlaces
<1>12. PICK points : points = idx_sweep(rows).ghr_off OBVIOUS
<1>13. points = [i \in D |-> <<here[order[i]].idx, here[order[i]].acc>>]
  BY <1>2, <1>3, <1>6, <1>9, <1>11, <1>12 DEF idx_sweep
<1>14. \A i \in D : points[i] = <<here[order[i]].idx, here[order[i]].acc>> BY <1>13
<1>15. Heights(points) = AccsIn(here)
  <2>1. Heights(points) = {here[order[i]].acc : i \in D}
    BY <1>13 DEF Heights
  <2>2. {here[order[i]].acc : i \in D} = {here[i].acc : i \in D} BY <1>11
  <2> QED BY <1>3, <2>1, <2>2 DEF AccsIn
<1>16. points \in Seq(Nat \X Nat)
  <2>1. ASSUME NEW i \in D PROVE points[i] \in Nat \X Nat
    <3>1. PICK k \in D : k = order[i] BY <1>11
    <3>2. here[k].idx \in Nat /\ here[k].acc \in Nat BY <1>5
    <3>3. points[i] = <<here[k].idx, here[k].acc>> BY <1>14, <3>1
    <3> QED BY <3>2, <3>3
  <2>2. points = [i \in 1 .. n |-> points[i]] BY <1>11, <1>13
  <2>3. points \in [1 .. n -> Nat \X Nat] BY <1>11, <2>1, <2>2
  <2> QED BY <1>11, <2>3, ListIsSeq
<1>17. \A i \in D : \E k \in D : points[i] = <<here[k].idx, here[k].acc>>
  BY <1>11, <1>14
<1>18. DOMAIN points = D BY <1>13
<1> QED BY <1>1, <1>3, <1>12, <1>15, <1>16, <1>17, <1>18

LEMMA SweepExtremes ==
  ASSUME NEW rows \in Seq(TableRow)
  PROVE  /\ MostIn(idx_sweep(rows).ghr_off) = AccsIn(best_row(cycle_rows(rows, LastCycle)))
         /\ FewestIn(idx_sweep(rows).ghr_off) = AccsIn(worst_row(cycle_rows(rows, LastCycle)))
<1>1. PICK here : here = cycle_rows(rows, LastCycle) OBVIOUS
<1>2. PICK points : points = idx_sweep(rows).ghr_off OBVIOUS
<1>3. PICK H : H = Heights(points) OBVIOUS
<1>4. /\ here \in Seq(TableRow) /\ points \in Seq(Nat \X Nat)
      /\ DOMAIN points = DOMAIN here /\ H = AccsIn(here)
  BY <1>1, <1>2, <1>3, CycleRows, SweepPoints
<1>5. points = <<>> <=> here = <<>> BY <1>4, EmptyRows
<1>6. CASE here = <<>>
  BY <1>1, <1>2, <1>4, <1>5, <1>6, BestAccuracy, WorstAccuracy DEF MostIn, FewestIn
<1>7. CASE here # <<>>
  <2>1. H \subseteq Nat BY <1>4, FieldTypes DEF AccsIn
  <2>2. PICK b \in DOMAIN here :
          /\ AccsIn(best_row(here)) = {here[b].acc}
          /\ \A j \in DOMAIN here : here[j].acc <= here[b].acc
    BY <1>4, <1>7, BestAccuracy
  <2>3. here[b].acc \in H /\ \A h \in H : h <= here[b].acc BY <1>4, <2>2 DEF AccsIn
  <2>4. Greatest(H) = here[b].acc BY <2>1, <2>3, GreatestIs
  <2>5. PICK w \in DOMAIN here :
          /\ AccsIn(worst_row(here)) = {here[w].acc}
          /\ \A j \in DOMAIN here : here[w].acc <= here[j].acc
    BY <1>4, <1>7, WorstAccuracy
  <2>6. here[w].acc \in H /\ \A h \in H : here[w].acc <= h BY <1>4, <2>5 DEF AccsIn
  <2>7. Least(H) = here[w].acc BY <2>1, <2>6, LeastIs
  <2> QED BY <1>1, <1>2, <1>3, <1>5, <1>7, <2>2, <2>4, <2>5, <2>7 DEF MostIn, FewestIn
<1> QED BY <1>6, <1>7

(* The largest cycle count of a table with rows for the last one.          *)
LEMMA LastOfTable ==
  ASSUME NEW rows \in Seq(TableRow), Requested(rows), cycle_rows(rows, LastCycle) # <<>>
  PROVE  at_max_cycle(rows) = cycle_rows(rows, LastCycle)
<1>1. PICK V : V = Values(rows, "cycle") OBVIOUS
<1>2. V = {rows[i].cycle : i \in DOMAIN rows} BY <1>1 DEF Values
<1>3. V \subseteq RequestedCycles BY <1>2 DEF Requested
<1>4. V \subseteq Nat /\ \A c \in V : c <= LastCycle
  <2>1. RequestedCycles \subseteq Nat BY CyclesAssumption
  <2>2. \A c \in RequestedCycles : c <= LastCycle BY CyclesAssumption
  <2> QED BY <1>3, <2>1, <2>2
<1>5. LastCycle \in V
  <2>1. PICK here : here = cycle_rows(rows, LastCycle) OBVIOUS
  <2>2. here \in Seq(TableRow) /\ here # <<>> BY <2>1, CycleRows
  <2>3. PICK i \in DOMAIN here : TRUE BY <2>2, EmptyRows
  <2>4. here[i].cycle = LastCycle /\ \E p \in DOMAIN rows : here[i] = rows[p]
    BY <2>1, CycleRows
  <2> QED BY <1>2, <2>4
<1>6. Greatest(V) = LastCycle BY <1>4, <1>5, GreatestIs
<1> QED BY <1>1, <1>6, CycleRows DEF at_max_cycle

(* The point of the last cycle count, in the figures over the cycle counts *)
(* for ghr_on, is the best row with a history of the report.               *)
LEMMA LastPoint ==
  ASSUME NEW rows \in Seq(TableRow), NEW field \in {"acc", "cpi"},
         \A i \in DOMAIN rows : rows[i].ghr <= 10
  PROVE  At(CyclePoints(nonzero_ghr_rows(rows), field), LastCycle) =
           NonzeroIn(best_row(NonzeroGhr(cycle_rows(rows, LastCycle))), field)
<1>1. PICK H : H = {i \in DOMAIN rows : rows[i].cycle = LastCycle} OBVIOUS
<1>2. PICK N : N = {i \in DOMAIN rows : rows[i].ghr \in 1 .. 10} OBVIOUS
<1>3. PICK U : U = H \cap N OBVIOUS
<1>4. H \subseteq DOMAIN rows /\ N \subseteq DOMAIN rows /\ U \subseteq H /\ U \subseteq N
      /\ U \subseteq DOMAIN rows
  BY <1>1, <1>2, <1>3
<1>5. \A i \in DOMAIN rows : rows[i].ghr > 0 <=> rows[i].ghr \in 1 .. 10
  <2> TAKE i \in DOMAIN rows
  <2>1. PICK g : g = rows[i].ghr OBVIOUS
  <2>2. g \in Nat /\ g <= 10 BY <2>1, FieldTypes
  <2> QED BY <2>1, <2>2
<1>6. PICK best : best = rows[BestPlace(rows, U)] OBVIOUS
<1>7. U # {} => best.cycle = LastCycle /\ best.ghr \in 1 .. 10
  <2> SUFFICES ASSUME U # {} PROVE best.cycle = LastCycle /\ best.ghr \in 1 .. 10
    OBVIOUS
  <2>1. BestPlace(rows, U) \in U BY <1>4, BestExists DEF IsBest
  <2> QED BY <1>1, <1>2, <1>3, <1>6, <2>1
<1>8. best_row(NonzeroGhr(cycle_rows(rows, LastCycle))) = IF U = {} THEN <<>> ELSE <<best>>
  <2>1. PICK here : here = Keep(rows, H) OBVIOUS
  <2>2. PICK Q : Q = {i \in DOMAIN here : here[i].ghr > 0} OBVIOUS
  <2>3. /\ here \in Seq(TableRow)
        /\ \A i \in DOMAIN here : Ascending(H)[i] \in H /\ here[i] = rows[Ascending(H)[i]]
    BY <1>4, <2>1, KeepPlaces
  <2>4. \A i \in DOMAIN here : i \in Q <=> Ascending(H)[i] \in U
    BY <1>1, <1>2, <1>3, <1>5, <2>2, <2>3
  <2>5. /\ Q = {} <=> U = {}
        /\ U # {} => here[BestPlace(here, Q)] = rows[BestPlace(rows, U)]
    <3>1. Q \subseteq DOMAIN Keep(rows, H) BY <2>1, <2>2
    <3>2. \A i \in DOMAIN Keep(rows, H) : i \in Q <=> Ascending(H)[i] \in U
      BY <2>1, <2>4
    <3> QED BY <1>4, <2>1, <3>1, <3>2, BestOfSome
  <2>6. Q \subseteq DOMAIN here BY <2>2
  <2>7. best_row(Keep(here, Q)) = IF Q = {} THEN <<>> ELSE <<here[BestPlace(here, Q)]>>
    BY <2>3, <2>6, BestOfKept
  <2>8. NonzeroGhr(cycle_rows(rows, LastCycle)) = Keep(here, Q)
    BY <1>1, <2>1, <2>2 DEF NonzeroGhr, cycle_rows
  <2> QED BY <1>6, <2>5, <2>7, <2>8
<1>9. PICK rest : rest = nonzero_ghr_rows(rows) OBVIOUS
<1>10. rest = Keep(rows, N) BY <1>2, <1>9 DEF nonzero_ghr_rows
<1>11. PICK Q : Q = OfCycle(rest, DOMAIN rest, LastCycle) OBVIOUS
<1>12. /\ rest \in Seq(TableRow)
       /\ Q = {} <=> U = {}
       /\ U # {} => BestAt(rest, LastCycle) = best
  <2>1. /\ rest \in Seq(TableRow)
        /\ \A i \in DOMAIN rest : Ascending(N)[i] \in N /\ rest[i] = rows[Ascending(N)[i]]
    BY <1>4, <1>10, KeepPlaces
  <2>2. Q = {i \in DOMAIN rest : rest[i].cycle = LastCycle} BY <1>11 DEF OfCycle
  <2>3. \A i \in DOMAIN rest : i \in Q <=> Ascending(N)[i] \in U
    BY <1>1, <1>2, <1>3, <2>1, <2>2
  <2>4. /\ Q = {} <=> U = {}
        /\ U # {} => rest[BestPlace(rest, Q)] = rows[BestPlace(rows, U)]
    <3>1. Q \subseteq DOMAIN Keep(rows, N) BY <1>10, <2>2
    <3>2. \A i \in DOMAIN Keep(rows, N) : i \in Q <=> Ascending(N)[i] \in U
      BY <1>10, <2>3
    <3>3. /\ Q = {} <=> U = {}
          /\ U # {} => Keep(rows, N)[BestPlace(Keep(rows, N), Q)] = rows[BestPlace(rows, U)]
      BY <1>4, <3>1, <3>2, BestOfSome
    <3> QED BY <1>10, <3>3
  <2> QED BY <1>6, <1>11, <2>1, <2>4 DEF BestAt
<1>13. PICK out : out = best_per_cycle(rest) OBVIOUS
<1>14. IsByCycle(out, rest) BY <1>12, <1>13, PerCycle
<1>15. PICK points : points = CyclePoints(rest, field) OBVIOUS
<1>16. points = [i \in DOMAIN out |-> <<out[i].cycle, out[i][field]>>]
  BY <1>13, <1>15 DEF CyclePoints
<1>17. PICK L : L = {j \in DOMAIN points : points[j][1] = LastCycle} OBVIOUS
<1>18. L = {j \in DOMAIN out : out[j].cycle = LastCycle} BY <1>16, <1>17
<1>19. At(points, LastCycle) = {points[i][2] : i \in L} BY <1>17 DEF At
<1>20. LastCycle \in AllCycles(rest) <=> Q # {}
  BY <1>11 DEF OfCycle, AllCycles, CyclesIn
<1>21. CASE U = {}
  <2>1. L = {} BY <1>12, <1>14, <1>18, <1>20, <1>21 DEF IsByCycle
  <2>2. At(points, LastCycle) = {} BY <1>19, <2>1
  <2>3. NonzeroIn(<<>>, field) = {} BY DEF NonzeroIn
  <2> QED BY <1>8, <1>9, <1>15, <1>21, <2>2, <2>3
<1>22. CASE U # {}
  <2>1. PICK k \in DOMAIN out : out[k].cycle = LastCycle
    BY <1>12, <1>14, <1>20, <1>22 DEF IsByCycle
  <2>2. out[k] = best BY <1>12, <1>14, <1>22, <2>1 DEF IsByCycle
  <2>3. L = {k} BY <1>14, <1>18, <2>1 DEF IsByCycle
  <2>4. points[k][2] = best[field] BY <1>16, <2>2
  <2>5. At(points, LastCycle) = {best[field]} BY <1>19, <2>3, <2>4
  <2>6. NonzeroIn(<<best>>, field) = {best[field]}
    <3>1. PICK row : row = <<best>> OBVIOUS
    <3>2. DOMAIN row = {1} /\ row[1] = best BY <3>1
    <3>3. {j \in DOMAIN row : row[j].ghr \in 1 .. 10} = {1} BY <1>7, <1>22, <3>2
    <3>4. NonzeroIn(row, field) = {row[i][field] : i \in {1}} BY <3>3 DEF NonzeroIn
    <3> QED BY <3>1, <3>2, <3>4
  <2> QED BY <1>8, <1>9, <1>15, <1>22, <2>5, <2>6
<1> QED BY <1>21, <1>22

(* What CyclesAgree says of a figure over the cycle counts and a report.   *)
CyclesSame(says, series, field) ==
  /\ \A s \in {"static", "ghr_off"} :
       Range(series[s]) = {<<row.cycle, row[field]>> : row \in Range(says.tables[s])}
  /\ \A point \in Range(series.ghr_on) :
       \E row \in Range(says.tables.ghr_on) :
         row.cycle = point[1] /\ (field = "acc" => point[2] <= row.acc)
  /\ At(series.ghr_on, LastCycle) = NonzeroIn(says.nonzero, field)

LEMMA PointsOfTable ==
  ASSUME NEW rows \in Seq(TableRow), Requested(rows), NEW field
  PROVE  Range(CyclePoints(rows, field)) =
           {<<row.cycle, row[field]>> : row \in Range(best_rows_by_cycle(rows))}
<1>1. PICK out : out = best_per_cycle(rows) OBVIOUS
<1>2. best_rows_by_cycle(rows) = out BY <1>1, SameChoice
<1>3. CyclePoints(rows, field) = [i \in DOMAIN out |-> <<out[i].cycle, out[i][field]>>]
  BY <1>1 DEF CyclePoints
<1> QED BY <1>2, <1>3 DEF Range

(* With a history or without, no point is above the row of the table.      *)
LEMMA NoPointAbove ==
  ASSUME NEW rows \in Seq(TableRow), Requested(rows), NEW field,
         NEW point \in Range(CyclePoints(nonzero_ghr_rows(rows), field))
  PROVE  \E row \in Range(best_rows_by_cycle(rows)) :
           row.cycle = point[1] /\ (field = "acc" => point[2] <= row.acc)
<1>1. PICK N : N = {i \in DOMAIN rows : rows[i].ghr \in 1 .. 10} OBVIOUS
<1>2. PICK rest : rest = nonzero_ghr_rows(rows) OBVIOUS
<1>3. N \subseteq DOMAIN rows /\ rest = Keep(rows, N)
  BY <1>1, <1>2 DEF nonzero_ghr_rows
<1>4. rest \in Seq(TableRow) /\ \A i \in DOMAIN rest : \E p \in N : rest[i] = rows[p]
  <2>1. Keep(rows, N) \in Seq(TableRow) BY <1>3, KeepPlaces
  <2>2. \A i \in DOMAIN Keep(rows, N) : \E p \in N : Keep(rows, N)[i] = rows[p]
    BY <1>3, KeepRows
  <2> QED BY <1>3, <2>1, <2>2
<1>5. PICK out : out = best_per_cycle(rest) OBVIOUS
<1>6. IsByCycle(out, rest) BY <1>4, <1>5, PerCycle
<1>7. CyclePoints(rest, field) = [i \in DOMAIN out |-> <<out[i].cycle, out[i][field]>>]
  BY <1>5 DEF CyclePoints
<1>8. PICK k \in DOMAIN out : point = <<out[k].cycle, out[k][field]>>
  BY <1>2, <1>7 DEF Range
<1>9. PICK c : c = out[k].cycle OBVIOUS
<1>10. c \in AllCycles(rest) /\ out[k] = BestAt(rest, c) BY <1>6, <1>9 DEF IsByCycle
<1>11. PICK j \in DOMAIN rest : rest[j] = out[k]
  <2>1. IsBest(rest, OfCycle(rest, DOMAIN rest, c),
               BestPlace(rest, OfCycle(rest, DOMAIN rest, c)))
    BY <1>4, <1>10, CycleBest
  <2> QED BY <1>10, <2>1 DEF IsBest, OfCycle, BestAt
<1>12. PICK p \in DOMAIN rows : rows[p] = out[k] BY <1>3, <1>4, <1>11
<1>13. c \in AllCycles(rows) BY <1>9, <1>12 DEF AllCycles, CyclesIn
<1>14. PICK table : table = best_rows_by_cycle(rows) OBVIOUS
<1>15. IsByCycle(table, rows) BY <1>14, SameChoice, PerCycle
<1>16. PICK l \in DOMAIN table : table[l].cycle = c BY <1>13, <1>15 DEF IsByCycle
<1>17. table[l] = BestAt(rows, c) BY <1>15, <1>16 DEF IsByCycle
<1>18. out[k].acc <= table[l].acc
  <2>1. PICK P : P = OfCycle(rows, DOMAIN rows, c) OBVIOUS
  <2>2. IsBest(rows, P, BestPlace(rows, P)) BY <1>13, <2>1, CycleBest
  <2>3. p \in P BY <1>9, <1>12, <2>1 DEF OfCycle
  <2>4. PICK b : b = BestPlace(rows, P) OBVIOUS
  <2>5. b \in DOMAIN rows BY <2>1, <2>2, <2>4 DEF IsBest, OfCycle
  <2>6. table[l] = rows[b] BY <1>17, <2>1, <2>4 DEF BestAt
  <2>7. Better(rows, b, p) BY <2>2, <2>3, <2>4 DEF IsBest
  <2>8. rows[p].acc \in Nat /\ rows[b].acc \in Nat BY <2>5, FieldTypes
  <2> QED BY <1>12, <2>6, <2>7, <2>8 DEF Better
<1>19. point[1] = c /\ (field = "acc" => point[2] = out[k].acc) BY <1>8, <1>9
<1>20. table[l] \in Range(table) BY DEF Range
<1> QED BY <1>14, <1>16, <1>18, <1>19, <1>20

(* The tables that were read, and what was said of them.                   *)
LEMMA RowsRead ==
  ASSUME NEW tabs \in AllTables
  PROVE  /\ RowsOf(tabs) = [static |-> read_csv(tabs.static), ghr_off |-> read_csv(tabs.ghr_off),
                            ghr_on |-> read_csv(tabs.ghr_on)]
         /\ \A s \in Strategies :
              /\ RowsOf(tabs)[s] = read_csv(tabs[s])
              /\ RowsOf(tabs)[s] \in Seq(TableRow) /\ Requested(RowsOf(tabs)[s])
         /\ ReportOn(tabs) = ReportOf(RowsOf(tabs).static, RowsOf(tabs).ghr_off,
                                       RowsOf(tabs).ghr_on)
<1>1. DOMAIN tabs = Strategies /\ \A s \in Strategies : tabs[s] \in Seq(TableRow)
  BY DEF AllTables
<1>2. RowsOf(tabs) = [s \in Strategies |-> read_csv(tabs[s])] BY <1>1 DEF RowsOf
<1>3. \A s \in Strategies : RowsOf(tabs)[s] = read_csv(tabs[s]) BY <1>2
<1>4. ASSUME NEW s \in Strategies
      PROVE  RowsOf(tabs)[s] \in Seq(TableRow) /\ Requested(RowsOf(tabs)[s])
  <2>1. tabs[s] \in Seq(TableRow) BY <1>1
  <2> QED BY <1>3, <2>1, ReadRows
<1>5. /\ RowsOf(tabs).static = read_csv(tabs.static)
      /\ RowsOf(tabs).ghr_off = read_csv(tabs.ghr_off)
      /\ RowsOf(tabs).ghr_on = read_csv(tabs.ghr_on)
  BY <1>3 DEF Strategies
<1>6. /\ read_rows(tabs.static) = read_csv(tabs.static)
      /\ read_rows(tabs.ghr_off) = read_csv(tabs.ghr_off)
      /\ read_rows(tabs.ghr_on) = read_csv(tabs.ghr_on)
  BY DEF read_rows, read_csv
<1>7. ReportOn(tabs) = ReportOf(RowsOf(tabs).static, RowsOf(tabs).ghr_off, RowsOf(tabs).ghr_on)
  BY <1>5, <1>6 DEF ReportOn
<1>8. RowsOf(tabs) = [static |-> read_csv(tabs.static), ghr_off |-> read_csv(tabs.ghr_off),
                     ghr_on |-> read_csv(tabs.ghr_on)]
  BY <1>2 DEF Strategies
<1> QED BY <1>3, <1>4, <1>7, <1>8

LEMMA SeriesAgree ==
  ASSUME NEW tabs \in AllTables, NEW field \in {"acc", "cpi"},
         \A row \in Range(read_csv(tabs.ghr_on)) : row.ghr <= 10
  PROVE  CyclesSame(ReportOn(tabs), cycle_series(RowsOf(tabs), field), field)
<1>1. PICK rows : rows = RowsOf(tabs) OBVIOUS
<1>2. PICK static, ghr_off, ghr_on :
        static = rows.static /\ ghr_off = rows.ghr_off /\ ghr_on = rows.ghr_on
  OBVIOUS
<1>3. /\ static \in Seq(TableRow) /\ Requested(static)
      /\ ghr_off \in Seq(TableRow) /\ Requested(ghr_off)
      /\ ghr_on \in Seq(TableRow) /\ Requested(ghr_on)
  BY <1>1, <1>2, RowsRead DEF Strategies
<1>4. \A i \in DOMAIN ghr_on : ghr_on[i].ghr <= 10
  <2>1. ghr_on = read_csv(tabs.ghr_on) BY <1>1, <1>2, RowsRead DEF Strategies
  <2> QED BY <2>1 DEF Range
<1>5. PICK series : series = cycle_series(rows, field) OBVIOUS
<1>6. DOMAIN rows = {"static", "ghr_off", "ghr_on"} BY <1>1, RowsRead
<1>7. /\ series.static = CyclePoints(static, field)
      /\ series.ghr_off = CyclePoints(ghr_off, field)
      /\ series.ghr_on = CyclePoints(nonzero_ghr_rows(ghr_on), field)
  BY <1>2, <1>5, <1>6 DEF cycle_series
<1>8. PICK says : says = ReportOn(tabs) OBVIOUS
<1>9. /\ says.tables = [static |-> best_rows_by_cycle(static),
                        ghr_off |-> best_rows_by_cycle(ghr_off),
                        ghr_on |-> best_rows_by_cycle(ghr_on)]
      /\ says.nonzero = best_row(NonzeroGhr(cycle_rows(ghr_on, LastCycle)))
  <2>1. says = ReportOf(static, ghr_off, ghr_on) BY <1>1, <1>2, <1>8, RowsRead
  <2> QED BY <2>1 DEF ReportOf
<1>10. /\ Range(series.static) = {<<row.cycle, row[field]>> : row \in Range(says.tables.static)}
       /\ Range(series.ghr_off) = {<<row.cycle, row[field]>> : row \in Range(says.tables.ghr_off)}
  <2>1. Range(CyclePoints(static, field)) =
          {<<row.cycle, row[field]>> : row \in Range(best_rows_by_cycle(static))}
    BY <1>3, PointsOfTable
  <2>2. Range(CyclePoints(ghr_off, field)) =
          {<<row.cycle, row[field]>> : row \in Range(best_rows_by_cycle(ghr_off))}
    BY <1>3, PointsOfTable
  <2>3. /\ says.tables.static = best_rows_by_cycle(static)
        /\ says.tables.ghr_off = best_rows_by_cycle(ghr_off)
    BY <1>9
  <2>4. series.static = CyclePoints(static, field) /\ series.ghr_off = CyclePoints(ghr_off, field)
    BY <1>7
  <2> HIDE <1>7, <1>9
  <2> QED BY <2>1, <2>2, <2>3, <2>4
<1>11. \A point \in Range(series.ghr_on) :
         \E row \in Range(says.tables.ghr_on) :
           row.cycle = point[1] /\ (field = "acc" => point[2] <= row.acc)
  BY <1>3, <1>7, <1>9, NoPointAbove
<1>12. At(series.ghr_on, LastCycle) = NonzeroIn(says.nonzero, field)
  BY <1>3, <1>4, <1>7, <1>9, LastPoint
<1> QED BY <1>1, <1>5, <1>8, <1>10, <1>11, <1>12 DEF CyclesSame

(* The single rows that the report names.                                  *)
LEMMA SaidOf ==
  ASSUME NEW tabs \in AllTables
  PROVE  LET rows == RowsOf(tabs) says == ReportOn(tabs)
         IN /\ says.best.ghr_off = best_row(cycle_rows(rows.ghr_off, LastCycle))
            /\ says.best.ghr_on = best_row(cycle_rows(rows.ghr_on, LastCycle))
            /\ says.nonzero = best_row(NonzeroGhr(cycle_rows(rows.ghr_on, LastCycle)))
            /\ says.idx_worst = worst_row(cycle_rows(rows.ghr_off, LastCycle))
<1>1. PICK static, ghr_off, ghr_on :
        /\ static = RowsOf(tabs).static /\ ghr_off = RowsOf(tabs).ghr_off
        /\ ghr_on = RowsOf(tabs).ghr_on
  OBVIOUS
<1>2. ReportOn(tabs) = ReportOf(static, ghr_off, ghr_on) BY <1>1, RowsRead
<1> QED BY <1>1, <1>2 DEF ReportOf

LEMMA SweepFigure ==
  ASSUME NEW tabs \in AllTables
  PROVE  LET points == idx_sweep(RowsOf(tabs).ghr_off).ghr_off
             says == ReportOn(tabs)
         IN /\ MostIn(points) = AccsIn(says.best.ghr_off)
            /\ FewestIn(points) = AccsIn(says.idx_worst)
<1>1. PICK rows : rows = RowsOf(tabs).ghr_off OBVIOUS
<1>2. rows \in Seq(TableRow) BY <1>1, RowsRead DEF Strategies
<1>3. /\ MostIn(idx_sweep(rows).ghr_off) = AccsIn(best_row(cycle_rows(rows, LastCycle)))
      /\ FewestIn(idx_sweep(rows).ghr_off) = AccsIn(worst_row(cycle_rows(rows, LastCycle)))
  BY <1>2, SweepExtremes
<1>4. PICK says : says = ReportOn(tabs) OBVIOUS
<1>5. /\ says.best.ghr_off = best_row(cycle_rows(rows, LastCycle))
      /\ says.idx_worst = worst_row(cycle_rows(rows, LastCycle))
  BY <1>1, <1>4, SaidOf
<1> QED BY <1>1, <1>3, <1>4, <1>5

LEMMA HistoryFigure ==
  ASSUME NEW tabs \in AllTables
  PROVE  LET points == best_by_ghr(RowsOf(tabs).ghr_on).best_per_ghr
             says == ReportOn(tabs)
         IN /\ MostIn(points) = AccsIn(says.best.ghr_on)
            /\ MostIn(Keep(points, {i \in DOMAIN points : points[i][1] > 0}))
                 = AccsIn(says.nonzero)
<1>1. PICK rows : rows = RowsOf(tabs).ghr_on OBVIOUS
<1>2. rows \in Seq(TableRow) BY <1>1, RowsRead DEF Strategies
<1>3. PICK here : here = cycle_rows(rows, LastCycle) OBVIOUS
<1>4. here \in Seq(TableRow) BY <1>2, <1>3, CycleRows
<1>5. PICK points : points = best_by_ghr(rows).best_per_ghr OBVIOUS
<1>6. points = BestBy(here, "ghr")
  BY <1>3, <1>5 DEF best_by_ghr, rows_for_cycle, cycle_rows
<1>7. IsBestBy(points, here, "ghr") BY <1>4, <1>6, BestByField
<1>8. PICK kept : kept = Keep(points, {i \in DOMAIN points : points[i][1] > 0}) OBVIOUS
<1>9. PICK some : some = NonzeroGhr(here) OBVIOUS
<1>10. IsBestBy(kept, some, "ghr") BY <1>4, <1>7, <1>8, <1>9, NonzeroPoints
<1>11. some \in Seq(TableRow)
  <2>1. PICK P : P = {i \in DOMAIN here : here[i].ghr > 0} OBVIOUS
  <2>2. P \subseteq DOMAIN here BY <2>1
  <2>3. some = Keep(here, P) BY <1>9, <2>1 DEF NonzeroGhr
  <2> QED BY <1>4, <2>2, <2>3, KeepPlaces
<1>12. MostIn(points) = AccsIn(best_row(here)) BY <1>4, <1>7, MostIsBest
<1>13. MostIn(kept) = AccsIn(best_row(some)) BY <1>10, <1>11, MostIsBest
<1>14. PICK says : says = ReportOn(tabs) OBVIOUS
<1>15. says.best.ghr_on = best_row(here) /\ says.nonzero = best_row(some)
  BY <1>1, <1>3, <1>9, <1>14, SaidOf
<1> QED BY <1>1, <1>5, <1>8, <1>12, <1>13, <1>14, <1>15

LEMMA ParameterFigure ==
  ASSUME NEW tabs \in AllTables, ReportOn(tabs).best.ghr_on # <<>>
  PROVE  LET series == parameter_series(RowsOf(tabs).ghr_on)
             says == ReportOn(tabs)
         IN /\ MostIn(series.best_by_ghr) = AccsIn(says.best.ghr_on)
            /\ MostIn(series.best_by_bht_index) = AccsIn(says.best.ghr_on)
<1>1. PICK rows : rows = RowsOf(tabs).ghr_on OBVIOUS
<1>2. rows \in Seq(TableRow) /\ Requested(rows) BY <1>1, RowsRead DEF Strategies
<1>3. PICK here : here = cycle_rows(rows, LastCycle) OBVIOUS
<1>4. here \in Seq(TableRow) BY <1>2, <1>3, CycleRows
<1>5. PICK says : says = ReportOn(tabs) OBVIOUS
<1>6. says.best.ghr_on = best_row(here) BY <1>1, <1>3, <1>5, SaidOf
<1>7. here # <<>> BY <1>5, <1>6 DEF best_row
<1>8. at_max_cycle(rows) = here BY <1>2, <1>3, <1>7, LastOfTable
<1>9. PICK series : series = parameter_series(rows) OBVIOUS
<1>10. series.best_by_ghr = BestBy(here, "ghr") /\ series.best_by_bht_index = BestBy(here, "idx")
  BY <1>8, <1>9 DEF parameter_series
<1>11. IsBestBy(BestBy(here, "ghr"), here, "ghr") /\ IsBestBy(BestBy(here, "idx"), here, "idx")
  BY <1>4, BestByField
<1>12. MostIn(BestBy(here, "ghr")) = AccsIn(best_row(here)) BY <1>4, <1>11, MostIsBest
<1>13. MostIn(BestBy(here, "idx")) = AccsIn(best_row(here)) BY <1>4, <1>11, MostIsBest
<1> QED BY <1>1, <1>5, <1>6, <1>9, <1>10, <1>12, <1>13

(* What each figure shows.                                                 *)
LEMMA DrawingOf ==
  ASSUME NEW rows
  PROVE  /\ Drawing("cycle_branch_accuracy.svg", rows).series = cycle_series(rows, "acc")
         /\ Drawing("cycle_cpi.svg", rows).series = cycle_series(rows, "cpi")
         /\ Drawing("ghr_off_idx_accuracy_1000M.svg", rows).series = idx_sweep(rows.ghr_off)
         /\ Drawing("ghr_on_best_by_ghr_1000M.svg", rows).series = best_by_ghr(rows.ghr_on)
         /\ Drawing("cycle_accuracy_cpi.png", rows).acc = cycle_series(rows, "acc")
         /\ Drawing("cycle_accuracy_cpi.png", rows).cpi = cycle_series(rows, "cpi")
         /\ Drawing("ghr_on_parameter_accuracy.png", rows) = parameter_series(rows.ghr_on)
<1>1. Drawing("cycle_branch_accuracy.svg", rows) =
        line_svg(cycle_series(rows, "acc"), <<20, 100>>, TRUE)
  BY DEF Drawing
<1>2. Drawing("ghr_off_idx_accuracy_1000M.svg", rows) =
        line_svg(idx_sweep(rows.ghr_off), <<0, 100>>, FALSE)
  BY DEF Drawing
<1>3. Drawing("ghr_on_best_by_ghr_1000M.svg", rows) =
        line_svg(best_by_ghr(rows.ghr_on), <<0, 100>>, FALSE)
  BY DEF Drawing
<1>4. Drawing("cycle_accuracy_cpi.png", rows) =
        [acc |-> cycle_series(rows, "acc"), cpi |-> cycle_series(rows, "cpi")]
  BY DEF Drawing
<1>5. Drawing("ghr_on_parameter_accuracy.png", rows) = parameter_series(rows.ghr_on)
  BY DEF Drawing
<1>6. line_svg(cycle_series(rows, "acc"), <<20, 100>>, TRUE).series = cycle_series(rows, "acc")
  BY DEF line_svg
<1>7. /\ line_svg(idx_sweep(rows.ghr_off), <<0, 100>>, FALSE).series = idx_sweep(rows.ghr_off)
      /\ line_svg(best_by_ghr(rows.ghr_on), <<0, 100>>, FALSE).series = best_by_ghr(rows.ghr_on)
  BY DEF line_svg
<1>8. /\ Drawing("cycle_accuracy_cpi.png", rows).acc = cycle_series(rows, "acc")
      /\ Drawing("cycle_accuracy_cpi.png", rows).cpi = cycle_series(rows, "cpi")
  BY <1>4
<1>9. Drawing("cycle_branch_accuracy.svg", rows).series = cycle_series(rows, "acc")
  BY <1>1, <1>6, Zenon
<1>10. Drawing("cycle_cpi.svg", rows).series = cycle_series(rows, "cpi") BY DEF Drawing, line_svg
<1>11. Drawing("ghr_off_idx_accuracy_1000M.svg", rows).series = idx_sweep(rows.ghr_off)
  BY <1>2, <1>7, Zenon
<1>12. Drawing("ghr_on_best_by_ghr_1000M.svg", rows).series = best_by_ghr(rows.ghr_on)
  BY <1>3, <1>7, Zenon
<1> QED BY <1>5, <1>8, <1>9, <1>10, <1>11, <1>12

(* Figures and report of one run show the same accuracies and CPIs.        *)
THEOREM FiguresTellTheSame == ReportsSpec => []FiguresAgree
<1>1. ReportsInv => FiguresAgree
  <2> SUFFICES ASSUME ReportsInv, AllShown PROVE FiguresAgree BY DEF FiguresAgree
  <2>1. PICK tabs \in AllTables : tables = tabs BY DEF ReportsInv, ReportsTypeOK
  <2>2. \A row \in Range(read_csv(tabs.ghr_on)) : row.ghr <= 10 BY <2>1 DEF AllShown
  <2>3. ASSUME NEW name \in Names, Together(name)
        PROVE  /\ figures[name].shows = Drawing(name, RowsOf(tabs))
               /\ report.says = ReportOn(tabs)
    BY <2>1, <2>3 DEF Together, ReportsInv, FiguresInv, ReportInv
  <2>4. PICK says : says = report.says OBVIOUS
  <2>5. ASSUME NEW series, NEW field, CyclesSame(says, series, field)
        PROVE  CyclesAgree(series, field)
    BY <2>4, <2>5 DEF CyclesSame, CyclesAgree
  <2>6. PICK rows : rows = RowsOf(tabs) OBVIOUS
  <2>7. ASSUME Together("cycle_branch_accuracy.svg")
        PROVE  CyclesAgree(figures["cycle_branch_accuracy.svg"].shows.series, "acc")
    <3>1. PICK name : name = "cycle_branch_accuracy.svg" OBVIOUS
    <3>2. name \in Names BY <3>1 DEF Names, Svgs, Range
    <3>3. figures[name].shows.series = cycle_series(rows, "acc")
      BY <2>3, <2>6, <2>7, <3>1, <3>2, DrawingOf
    <3>4. says = ReportOn(tabs) BY <2>3, <2>4, <2>7, <3>1, <3>2
    <3>5. CyclesSame(says, cycle_series(rows, "acc"), "acc") BY <2>2, <2>6, <3>4, SeriesAgree
    <3> QED BY <2>5, <3>1, <3>3, <3>5
  <2>8. ASSUME Together("cycle_cpi.svg")
        PROVE  CyclesAgree(figures["cycle_cpi.svg"].shows.series, "cpi")
    <3>1. PICK name : name = "cycle_cpi.svg" OBVIOUS
    <3>2. name \in Names BY <3>1 DEF Names, Svgs, Range
    <3>3. figures[name].shows.series = cycle_series(rows, "cpi")
      BY <2>3, <2>6, <2>8, <3>1, <3>2, DrawingOf
    <3>4. says = ReportOn(tabs) BY <2>3, <2>4, <2>8, <3>1, <3>2
    <3>5. CyclesSame(says, cycle_series(rows, "cpi"), "cpi") BY <2>2, <2>6, <3>4, SeriesAgree
    <3> QED BY <2>5, <3>1, <3>3, <3>5
  <2>9. ASSUME Together("cycle_accuracy_cpi.png")
        PROVE  /\ CyclesAgree(figures["cycle_accuracy_cpi.png"].shows.acc, "acc")
               /\ CyclesAgree(figures["cycle_accuracy_cpi.png"].shows.cpi, "cpi")
    <3>1. PICK name : name = "cycle_accuracy_cpi.png" OBVIOUS
    <3>2. name \in Names BY <3>1 DEF Names, Pngs, Range
    <3>3. /\ figures[name].shows.acc = cycle_series(rows, "acc")
          /\ figures[name].shows.cpi = cycle_series(rows, "cpi")
      BY <2>3, <2>6, <2>9, <3>1, <3>2, DrawingOf
    <3>4. says = ReportOn(tabs) BY <2>3, <2>4, <2>9, <3>1, <3>2
    <3>5. CyclesSame(says, cycle_series(rows, "acc"), "acc") BY <2>2, <2>6, <3>4, SeriesAgree
    <3>6. CyclesSame(says, cycle_series(rows, "cpi"), "cpi") BY <2>2, <2>6, <3>4, SeriesAgree
    <3> QED BY <2>5, <3>1, <3>3, <3>5, <3>6
  <2>10. ASSUME Together("ghr_off_idx_accuracy_1000M.svg"),
                NEW points,
                points = figures["ghr_off_idx_accuracy_1000M.svg"].shows.series.ghr_off
         PROVE  /\ MostIn(points) = AccsIn(says.best.ghr_off)
                /\ FewestIn(points) = AccsIn(says.idx_worst)
    <3>1. PICK name : name = "ghr_off_idx_accuracy_1000M.svg" OBVIOUS
    <3>2. name \in Names BY <3>1 DEF Names, Svgs, Range
    <3>3. figures[name].shows.series = idx_sweep(rows.ghr_off)
      BY <2>3, <2>6, <2>10, <3>1, <3>2, DrawingOf
    <3>4. says = ReportOn(tabs) BY <2>3, <2>4, <2>10, <3>1, <3>2
    <3>5. points = idx_sweep(RowsOf(tabs).ghr_off).ghr_off BY <2>6, <2>10, <3>1, <3>3
    <3> QED BY <3>4, <3>5, SweepFigure
  <2>11. ASSUME Together("ghr_on_best_by_ghr_1000M.svg"),
                NEW points,
                points = figures["ghr_on_best_by_ghr_1000M.svg"].shows.series.best_per_ghr
         PROVE  /\ MostIn(points) = AccsIn(says.best.ghr_on)
                /\ MostIn(Keep(points, {i \in DOMAIN points : points[i][1] > 0}))
                     = AccsIn(says.nonzero)
    <3>1. PICK name : name = "ghr_on_best_by_ghr_1000M.svg" OBVIOUS
    <3>2. name \in Names BY <3>1 DEF Names, Svgs, Range
    <3>3. figures[name].shows.series = best_by_ghr(rows.ghr_on)
      BY <2>3, <2>6, <2>11, <3>1, <3>2, DrawingOf
    <3>4. says = ReportOn(tabs) BY <2>3, <2>4, <2>11, <3>1, <3>2
    <3>5. points = best_by_ghr(RowsOf(tabs).ghr_on).best_per_ghr BY <2>6, <2>11, <3>1, <3>3
    <3> QED BY <3>4, <3>5, HistoryFigure
  <2>12. ASSUME Together("ghr_on_parameter_accuracy.png"), says.best.ghr_on # <<>>,
                NEW series, series = figures["ghr_on_parameter_accuracy.png"].shows
         PROVE  /\ MostIn(series.best_by_ghr) = AccsIn(says.best.ghr_on)
                /\ MostIn(series.best_by_bht_index) = AccsIn(says.best.ghr_on)
    <3>1. PICK name : name = "ghr_on_parameter_accuracy.png" OBVIOUS
    <3>2. name \in Names BY <3>1 DEF Names, Pngs, Range
    <3>3. figures[name].shows = parameter_series(rows.ghr_on)
      BY <2>3, <2>6, <2>12, <3>1, <3>2, DrawingOf
    <3>4. says = ReportOn(tabs) BY <2>3, <2>4, <2>12, <3>1, <3>2
    <3>5. series = parameter_series(RowsOf(tabs).ghr_on) BY <2>6, <2>12, <3>1, <3>3
    <3> QED BY <2>12, <3>4, <3>5, ParameterFigure
  <2>13. Together("ghr_off_idx_accuracy_1000M.svg") =>
           LET points == figures["ghr_off_idx_accuracy_1000M.svg"].shows.series.ghr_off
           IN /\ MostIn(points) = AccsIn(report.says.best.ghr_off)
              /\ FewestIn(points) = AccsIn(report.says.idx_worst)
    BY <2>4, <2>10
  <2>14. Together("ghr_on_best_by_ghr_1000M.svg") =>
           LET points == figures["ghr_on_best_by_ghr_1000M.svg"].shows.series.best_per_ghr
           IN /\ MostIn(points) = AccsIn(report.says.best.ghr_on)
              /\ MostIn(Keep(points, {i \in DOMAIN points : points[i][1] > 0}))
                   = AccsIn(report.says.nonzero)
    BY <2>4, <2>11
  <2>15. Together("ghr_on_parameter_accuracy.png") /\ report.says.best.ghr_on # <<>> =>
           LET series == figures["ghr_on_parameter_accuracy.png"].shows
           IN /\ MostIn(series.best_by_ghr) = AccsIn(report.says.best.ghr_on)
              /\ MostIn(series.best_by_bht_index) = AccsIn(report.says.best.ghr_on)
    BY <2>4, <2>12
  <2> QED BY <2>7, <2>8, <2>9, <2>13, <2>14, <2>15, Zenon
        DEF FiguresAgree, MostIn, FewestIn, AccsIn
<1> QED BY <1>1, ReportsInductive, PTL

-----------------------------------------------------------------------------
(* Places in a chart.                                                      *)

(* Rounded division: where the quotients are a divisor apart.              *)
LEMMA FloorSteps ==
  ASSUME NEW a \in Int, NEW b \in Int, NEW d \in Nat \ {0}, a + d <= b
  PROVE  a \div d < b \div d
<1>1. PICK q : q = a \div d OBVIOUS
<1>2. PICK r : r = b \div d OBVIOUS
<1>3. q \in Int /\ r \in Int BY <1>1, <1>2
<1>4. d * q <= a BY <1>1
<1>5. b < d * r + d BY <1>2
<1>6. ~ r <= q
  <2> SUFFICES ASSUME r <= q PROVE FALSE OBVIOUS
  <2>1. d * r <= d * q BY <1>3
  <2>2. d * r \in Int /\ d * q \in Int BY <1>3
  <2> QED BY <1>4, <1>5, <2>1, <2>2
<1> QED BY <1>1, <1>2, <1>3, <1>6

LEMMA FloorBounds ==
  ASSUME NEW a \in Int, NEW d \in Nat \ {0}, NEW n \in Nat, 0 <= a, a < d * (n + 1)
  PROVE  a \div d \in Nat /\ a \div d <= n
<1>1. PICK q : q = a \div d OBVIOUS
<1>2. q \in Int BY <1>1
<1>3. d * q <= a BY <1>1
<1>4. a < d * q + d BY <1>1
<1>5. 0 <= q
  <2> SUFFICES ASSUME q <= -1 PROVE FALSE BY <1>2
  <2>1. d * q <= d * (-1) BY <1>2
  <2>2. d * q \in Int BY <1>2
  <2> QED BY <1>4, <2>1, <2>2
<1>6. q <= n
  <2> SUFFICES ASSUME n + 1 <= q PROVE FALSE BY <1>2
  <2>1. d * (n + 1) <= d * q BY <1>2
  <2>2. d * q \in Int /\ d * (n + 1) \in Int BY <1>2
  <2> QED BY <1>3, <2>1, <2>2
<1> QED BY <1>1, <1>2, <1>5, <1>6

(* Points lie between the edges, and further right for larger values.      *)
Rises(place, S, lo, hi) ==
  /\ \A x \in S : lo <= x /\ x <= hi => place[x] \in 100 * Pad .. 100 * (Width - Pad)
  /\ \A x, y \in S : lo <= x /\ x < y /\ y <= hi => place[x] < place[y]

IsAxis(X, S) ==
  /\ S \subseteq Nat
  /\ \A x \in S : X[x] \in Nat /\ X[x] <= 20000
  /\ \A x, y \in S : x < y => X[x] < X[y]

PlacedOn(place, X, S, lo, hi) ==
  \A x \in S :
    place[x] = 100 * Pad + Hundredths((X[x] - X[lo]) * (Width - 2 * Pad),
                                      IF lo = hi THEN 1 ELSE X[hi] - X[lo])

LEMMA PlacesRise ==
  ASSUME NEW S, NEW X, IsAxis(X, S),
         NEW lo \in S, NEW hi \in S, NEW place, PlacedOn(place, X, S, lo, hi)
  PROVE  Rises(place, S, lo, hi)
<1> USE DEF IsAxis
<1>1. PICK d : d = IF lo = hi THEN 1 ELSE X[hi] - X[lo] OBVIOUS
<1>2. ASSUME NEW x \in S
      PROVE  place[x] = 7000 + ((152000 * (X[x] - X[lo]) + d) \div (2 * d))
  <2>1. PICK u : u = X[x] - X[lo] OBVIOUS
  <2>2. u \in Int BY <2>1
  <2>3. place[x] = 7000 + Hundredths(u * 760, d) BY <1>1, <2>1 DEF Pad, Width, PlacedOn
  <2>4. 200 * (u * 760) = 152000 * u BY <2>2
  <2> QED BY <2>1, <2>3, <2>4 DEF Hundredths
<1>3. ASSUME NEW x \in S, lo <= x, x <= hi
      PROVE  /\ d \in Nat \ {0} /\ d <= 20000
             /\ X[x] - X[lo] \in Nat /\ X[x] - X[lo] <= d
  <2>1. CASE lo = hi
    <3>1. x = lo BY <1>3, <2>1
    <3> QED BY <1>1, <2>1, <3>1
  <2>2. CASE lo # hi
    <3>1. lo < hi BY <1>3, <2>2
    <3>2. d = X[hi] - X[lo] BY <1>1, <2>2
    <3>3. X[lo] < X[hi] BY <3>1
    <3>4. x = lo \/ lo < x BY <1>3
    <3>5. x = hi \/ x < hi BY <1>3
    <3>6. X[lo] <= X[x] BY <3>4
    <3>7. X[x] <= X[hi] BY <3>5
    <3> QED BY <3>2, <3>3, <3>6, <3>7
  <2> QED BY <2>1, <2>2
<1>4. ASSUME NEW x \in S, lo <= x, x <= hi
      PROVE  place[x] \in 100 * Pad .. 100 * (Width - Pad)
  <2>1. PICK u : u = X[x] - X[lo] OBVIOUS
  <2>2. d \in Nat \ {0} /\ u \in Nat /\ u <= d BY <1>3, <1>4, <2>1
  <2>3. PICK a : a = 152000 * u + d OBVIOUS
  <2>4. a \in Int /\ 0 <= a /\ a < (2 * d) * (76000 + 1) BY <2>2, <2>3
  <2>5. 2 * d \in Nat \ {0} BY <2>2
  <2>6. a \div (2 * d) \in Nat /\ a \div (2 * d) <= 76000 BY <2>4, <2>5, FloorBounds
  <2>7. place[x] = 7000 + (a \div (2 * d)) BY <1>2, <2>1, <2>3
  <2>8. PICK left, right : left = 100 * Pad /\ right = 100 * (Width - Pad) OBVIOUS
  <2>9. left \in Int /\ right \in Int /\ left = 7000 /\ right = 83000 BY <2>8 DEF Pad, Width
  <2>10. PICK p : p = place[x] OBVIOUS
  <2>11. p \in Int /\ left <= p /\ p <= right BY <2>6, <2>7, <2>9, <2>10
  <2>12. left \in Int /\ right \in Int BY <2>9
  <2>13. p \in left .. right BY <2>11, <2>12
  <2> QED BY <2>8, <2>10, <2>13
<1>5. ASSUME NEW x \in S, NEW y \in S, lo <= x, x < y, y <= hi
      PROVE  place[x] < place[y]
  <2>1. PICK u, v : u = X[x] - X[lo] /\ v = X[y] - X[lo] OBVIOUS
  <2>2. x <= hi BY <1>5
  <2>3. d \in Nat \ {0} /\ d <= 20000 BY <1>3, <1>5, <2>2
  <2>4. X[x] < X[y] /\ X[x] \in Nat /\ X[y] \in Nat /\ X[lo] \in Nat BY <1>5
  <2>5. u \in Int /\ v \in Int /\ u + 1 <= v BY <2>1, <2>4
  <2>6. PICK a, b : a = 152000 * u + d /\ b = 152000 * v + d OBVIOUS
  <2>7. a \in Int /\ b \in Int /\ a + 2 * d <= b BY <2>3, <2>5, <2>6
  <2>8. 2 * d \in Nat \ {0} BY <2>3
  <2>9. a \div (2 * d) < b \div (2 * d) BY <2>7, <2>8, FloorSteps
  <2>10. a \div (2 * d) \in Int /\ b \div (2 * d) \in Int BY <2>7, <2>8
  <2>11. place[x] = 7000 + (a \div (2 * d)) BY <1>2, <2>1, <2>6
  <2>12. place[y] = 7000 + (b \div (2 * d)) BY <1>2, <2>1, <2>6
  <2> QED BY <2>9, <2>10, <2>11, <2>12
<1> QED BY <1>4, <1>5 DEF Rises

LEMMA LogAxis ==
  ASSUME NEW lo \in RequestedCycles, NEW hi \in RequestedCycles
  PROVE  Rises([x \in RequestedCycles |-> ScaledX(x, <<lo, hi>>, TRUE)], RequestedCycles, lo, hi)
<1>1. PICK place : place = [x \in RequestedCycles |-> ScaledX(x, <<lo, hi>>, TRUE)] OBVIOUS
<1>2. PlacedOn(place, Log10, RequestedCycles, lo, hi)
  BY <1>1 DEF ScaledX, AxisValue, PlacedOn
<1>3. IsAxis(Log10, RequestedCycles) BY LogAssumption, CyclesAssumption DEF IsAxis
<1>4. Rises(place, RequestedCycles, lo, hi) BY <1>2, <1>3, PlacesRise
<1> QED BY <1>1, <1>4

(* The values of the parameters.                                           *)
Bits == 0 .. 64

LEMMA LinearAxis ==
  ASSUME NEW lo \in Bits, NEW hi \in Bits
  PROVE  Rises([x \in Bits |-> ScaledX(x, <<lo, hi>>, FALSE)], Bits, lo, hi)
<1>1. PICK place : place = [x \in Bits |-> ScaledX(x, <<lo, hi>>, FALSE)] OBVIOUS
<1>2. PICK X : X = [x \in Bits |-> x] OBVIOUS
<1>3. PlacedOn(place, X, Bits, lo, hi) BY <1>1, <1>2 DEF ScaledX, AxisValue, PlacedOn
<1>4. IsAxis(X, Bits) BY <1>2 DEF IsAxis, Bits
<1>5. Rises(place, Bits, lo, hi) BY <1>3, <1>4, PlacesRise
<1> QED BY <1>1, <1>5

(* The vertical axes of the charts.                                        *)
YRanges == {<<20, 100>>, <<0, 2000>>, <<0, 100>>}

(* Points lie higher for larger values, and above exactly the grid lines   *)
(* of smaller values.                                                      *)
LEMMA YOrder ==
  ASSUME NEW y_range \in YRanges
  PROVE  /\ \A y, z \in Nat : y < z => ScaledY(y, y_range) > ScaledY(z, y_range)
         /\ \A y \in Nat, i \in 1 .. 6 :
              (y_ticks(y_range)[i] < 5 * y) <=>
                (ScaledY(y_ticks(y_range)[i], <<5 * y_range[1], 5 * y_range[2]>>)
                   > ScaledY(y, y_range))
<1>1. PICK low, d : low = y_range[1] /\ d = y_range[2] - y_range[1] OBVIOUS
<1>2. low \in Nat /\ d \in {80, 2000, 100} BY <1>1 DEF YRanges
<1>3. ASSUME NEW y \in Nat
      PROVE  ScaledY(y, y_range) = 45000 - ((76000 * (y - low) + d) \div (2 * d))
  <2>1. 200 * ((y - low) * 380) = 76000 * (y - low) BY <1>2
  <2>2. ScaledY(y, y_range) = 45000 - Hundredths((y - low) * 380, d)
    BY <1>1 DEF ScaledY, Pad, Height
  <2> QED BY <2>1, <2>2 DEF Hundredths
<1>4. ASSUME NEW y \in Nat, NEW z \in Nat, y < z
      PROVE  ScaledY(y, y_range) > ScaledY(z, y_range)
  <2>1. PICK a, b : a = 76000 * (y - low) + d /\ b = 76000 * (z - low) + d OBVIOUS
  <2>2. a \in Int /\ b \in Int /\ a + 2 * d <= b /\ 2 * d \in Nat \ {0}
    BY <1>2, <1>4, <2>1
  <2>3. a \div (2 * d) < b \div (2 * d) BY <2>2, FloorSteps
  <2>4. a \div (2 * d) \in Int /\ b \div (2 * d) \in Int BY <2>2
  <2>5. ScaledY(y, y_range) = 45000 - (a \div (2 * d)) BY <1>3, <2>1
  <2>6. ScaledY(z, y_range) = 45000 - (b \div (2 * d)) BY <1>3, <2>1
  <2> QED BY <2>3, <2>4, <2>5, <2>6
<1>5. ASSUME NEW y \in Nat, NEW i \in 1 .. 6
      PROVE  (y_ticks(y_range)[i] < 5 * y) <=>
               (ScaledY(y_ticks(y_range)[i], <<5 * y_range[1], 5 * y_range[2]>>)
                  > ScaledY(y, y_range))
  <2>1. PICK t : t = y_ticks(y_range)[i] OBVIOUS
  <2>2. t = 5 * low + d * (i - 1) BY <1>1, <2>1 DEF y_ticks
  <2>3. ScaledY(t, <<5 * y_range[1], 5 * y_range[2]>>) = 45000 - 7600 * (i - 1)
    <3>1. 5 * y_range[2] - 5 * y_range[1] = 5 * d /\ 5 * y_range[1] = 5 * low
      BY <1>1 DEF YRanges
    <3>2. ScaledY(t, <<5 * y_range[1], 5 * y_range[2]>>) =
            45000 - Hundredths((t - 5 * low) * 380, 5 * d)
      BY <3>1 DEF ScaledY, Pad, Height
    <3>3. (t - 5 * low) * 380 = (d * (i - 1)) * 380 BY <1>2, <2>2
    <3>4. Hundredths((d * (i - 1)) * 380, 5 * d) = 7600 * (i - 1)
      <4>1. CASE d = 80 BY <4>1 DEF Hundredths
      <4>2. CASE d = 2000 BY <4>2 DEF Hundredths
      <4>3. CASE d = 100 BY <4>3 DEF Hundredths
      <4> QED BY <1>2, <4>1, <4>2, <4>3
    <3> QED BY <3>2, <3>3, <3>4
  <2>4. ScaledY(y, y_range) = 45000 - ((76000 * (y - low) + d) \div (2 * d)) BY <1>3
  <2>5. (d * (i - 1) < 5 * (y - low)) <=>
          (7600 * (i - 1) < ((76000 * (y - low) + d) \div (2 * d)))
    <3>1. CASE d = 80 BY <1>2, <3>1
    <3>2. CASE d = 2000 BY <1>2, <3>2
    <3>3. CASE d = 100 BY <1>2, <3>3
    <3> QED BY <1>2, <3>1, <3>2, <3>3
  <2>6. (t < 5 * y) <=> (d * (i - 1) < 5 * (y - low)) BY <1>2, <2>2
  <2>7. ((76000 * (y - low) + d) \div (2 * d)) \in Int BY <1>2
  <2> QED BY <2>1, <2>3, <2>4, <2>5, <2>6, <2>7
<1> QED BY <1>4, <1>5

(* What PlacesInOrder says of one chart.                                   *)
ChartInOrder(chart) ==
  LET Points == UNION {{<<chart.series[s][i], chart.places[s][i]>> :
                          i \in DOMAIN chart.series[s]} : s \in DOMAIN chart.series}
  IN /\ \A p, q \in Points :
          /\ p[1][1] < q[1][1] => p[2][1] < q[2][1]
          /\ p[1][2] < q[1][2] => p[2][2] > q[2][2]
     /\ \A p \in Points :
          /\ \A tick \in Range(chart.y_ticks) :
               (tick[1] < 5 * p[1][2]) = (tick[2] > p[2][2])
          /\ <<p[1][1], p[2][1]>> \in Range(chart.x_ticks)
          /\ p[2][1] \in 100 * Pad .. 100 * (Width - Pad)

XRange(series) ==
  IF Xs(series) = {} THEN <<0, 1>> ELSE <<Least(Xs(series)), Greatest(Xs(series))>>

LEMMA LeastAndGreatest ==
  ASSUME NEW S, IsFiniteSet(S), S \subseteq Nat, S # {}
  PROVE  /\ Least(S) \in S /\ Greatest(S) \in S
         /\ \A x \in S : Least(S) <= x /\ x <= Greatest(S)
<1>1. PICK n, order : n = Cardinality(S) /\ order = Ascending(S) OBVIOUS
<1>2. /\ n \in Nat
      /\ \A i \in 1 .. n : order[i] \in S
      /\ \A x \in S : \E i \in 1 .. n : order[i] = x
      /\ \A i, j \in 1 .. n : i < j => order[i] < order[j]
  BY <1>1, AscendingPlaces
<1>3. 1 \in 1 .. n /\ n \in 1 .. n
  <2>1. PICK x : x \in S OBVIOUS
  <2>2. PICK i \in 1 .. n : order[i] = x BY <1>2, <2>1
  <2> QED BY <1>2, <2>2
<1>4. PICK lo, hi : lo = order[1] /\ hi = order[n] OBVIOUS
<1>5. lo \in S /\ hi \in S BY <1>2, <1>3, <1>4
<1>6. ASSUME NEW x \in S PROVE lo <= x /\ x <= hi
  <2>1. PICK i \in 1 .. n : order[i] = x BY <1>2
  <2>2. i = 1 \/ 1 < i BY <1>2
  <2>3. i = n \/ i < n BY <1>2
  <2>4. lo <= x BY <1>2, <1>3, <1>4, <1>5, <2>1, <2>2
  <2>5. x <= hi BY <1>2, <1>3, <1>4, <1>5, <2>1, <2>3
  <2> QED BY <2>4, <2>5
<1>7. Least(S) = lo BY <1>5, <1>6, LeastIs
<1>8. Greatest(S) = hi BY <1>5, <1>6, GreatestIs
<1> QED BY <1>5, <1>6, <1>7, <1>8

(* What line_svg returns, field by field.                                  *)
IsChart(chart, series, y_range, log_x) ==
  /\ chart.series = series
  /\ \A s \in DOMAIN series : \A i \in DOMAIN series[s] :
       chart.places[s][i] = <<ScaledX(series[s][i][1], XRange(series), log_x),
                              ScaledY(series[s][i][2], y_range)>>
  /\ DOMAIN chart.x_ticks = 1 .. Cardinality(Xs(series))
  /\ \A i \in 1 .. Cardinality(Xs(series)) :
       chart.x_ticks[i] = <<Ascending(Xs(series))[i],
                            ScaledX(Ascending(Xs(series))[i], XRange(series), log_x)>>
  /\ DOMAIN chart.y_ticks = 1 .. 6
  /\ \A i \in 1 .. 6 :
       chart.y_ticks[i] = <<y_ticks(y_range)[i],
                            ScaledY(y_ticks(y_range)[i], <<5 * y_range[1], 5 * y_range[2]>>)>>

LEMMA ChartFields ==
  ASSUME NEW series, NEW y_range, NEW log_x
  PROVE  IsChart(line_svg(series, y_range, log_x), series, y_range, log_x)
<1>1. PICK xs, x_range : xs = Ascending(Xs(series)) /\ x_range = XRange(series) OBVIOUS
<1>2. PICK n : n = Cardinality(Xs(series)) OBVIOUS
<1>3. PICK x_ticks : x_ticks = [i \in 1 .. n |-> <<xs[i], y_range[1]>>] OBVIOUS
<1>4. PICK ticks : ticks = y_ticks(y_range) OBVIOUS
<1>5. DOMAIN ticks = 1 .. 6 BY <1>4 DEF y_ticks
<1>6. PICK chart : chart = line_svg(series, y_range, log_x) OBVIOUS
<1>7. chart =
        [series |-> series,
         places |-> [name \in DOMAIN series |->
                       scale_points_with_ranges(series[name], x_range, y_range, log_x)],
         x_ticks |-> [i \in DOMAIN x_ticks |->
                        <<x_ticks[i][1],
                          scale_points_with_ranges(x_ticks, x_range, y_range, log_x)[i][1]>>],
         y_ticks |-> [i \in DOMAIN ticks |->
                        <<ticks[i], ScaledY(ticks[i], <<5 * y_range[1], 5 * y_range[2]>>)>>]]
  BY <1>1, <1>2, <1>3, <1>4, <1>6, Zenon DEF line_svg, XRange
<1>8. ASSUME NEW s \in DOMAIN series, NEW i \in DOMAIN series[s]
      PROVE  chart.places[s][i] = <<ScaledX(series[s][i][1], x_range, log_x),
                                    ScaledY(series[s][i][2], y_range)>>
  <2>1. chart.places[s] = scale_points_with_ranges(series[s], x_range, y_range, log_x)
    BY <1>7
  <2> QED BY <2>1 DEF scale_points_with_ranges
<1>9. ASSUME NEW i \in 1 .. n
      PROVE  chart.x_ticks[i] = <<xs[i], ScaledX(xs[i], x_range, log_x)>>
  <2>1. x_ticks[i][1] = xs[i] /\ DOMAIN x_ticks = 1 .. n BY <1>3
  <2>2. scale_points_with_ranges(x_ticks, x_range, y_range, log_x)[i][1] =
          ScaledX(xs[i], x_range, log_x)
    BY <2>1 DEF scale_points_with_ranges
  <2>3. chart.x_ticks[i] =
          <<x_ticks[i][1], scale_points_with_ranges(x_ticks, x_range, y_range, log_x)[i][1]>>
    BY <1>7, <2>1
  <2> QED BY <2>1, <2>2, <2>3
<1>10. DOMAIN chart.x_ticks = 1 .. n /\ DOMAIN chart.y_ticks = 1 .. 6 /\ chart.series = series
  BY <1>3, <1>5, <1>7
<1>11. ASSUME NEW i \in 1 .. 6
       PROVE  chart.y_ticks[i] =
                <<ticks[i], ScaledY(ticks[i], <<5 * y_range[1], 5 * y_range[2]>>)>>
  BY <1>5, <1>7
<1>12. IsChart(chart, series, y_range, log_x)
  BY <1>1, <1>2, <1>4, <1>8, <1>9, <1>10, <1>11 DEF IsChart
<1> QED BY <1>6, <1>12

(* Every point of every series of a chart is drawn at its place.           *)
LEMMA ChartOrder ==
  ASSUME NEW series, NEW y_range \in YRanges, NEW log_x,
         NEW S, S \subseteq Nat, IsFiniteSet(S),
         \A lo, hi \in S : Rises([x \in S |-> ScaledX(x, <<lo, hi>>, log_x)], S, lo, hi),
         \A s \in DOMAIN series : \A i \in DOMAIN series[s] :
           series[s][i][1] \in S /\ series[s][i][2] \in Nat
  PROVE  ChartInOrder(line_svg(series, y_range, log_x))
<1>1. PICK chart : chart = line_svg(series, y_range, log_x) OBVIOUS
<1>2. IsChart(chart, series, y_range, log_x) BY <1>1, ChartFields
<1>3. PICK X : X = Xs(series) OBVIOUS
<1>4. \A s \in DOMAIN series : \A i \in DOMAIN series[s] : series[s][i][1] \in X
  BY <1>3 DEF Xs
<1>5. X \subseteq S BY <1>3 DEF Xs
<1>6. IsFiniteSet(X) /\ X \subseteq Nat BY <1>5, FS_Subset
<1>7. PICK x_range : x_range = XRange(series) OBVIOUS
<1>8. PICK Places : Places = [x \in S |-> ScaledX(x, x_range, log_x)] OBVIOUS
<1>9. /\ \A x \in X : Places[x] \in 100 * Pad .. 100 * (Width - Pad)
      /\ \A x, y \in X : x < y => Places[x] < Places[y]
  <2>1. CASE X = {} BY <2>1
  <2>2. CASE X # {}
    <3>1. PICK lo, hi : lo = Least(X) /\ hi = Greatest(X) OBVIOUS
    <3>2. lo \in X /\ hi \in X /\ \A x \in X : lo <= x /\ x <= hi
      BY <1>6, <2>2, <3>1, LeastAndGreatest
    <3>3. x_range = <<lo, hi>> BY <1>3, <1>7, <2>2, <3>1 DEF XRange
    <3>4. lo \in S /\ hi \in S BY <1>5, <3>2
    <3>5. Rises([x \in S |-> ScaledX(x, <<lo, hi>>, log_x)], S, lo, hi) BY <3>4
    <3>6. Rises(Places, S, lo, hi) BY <1>8, <3>3, <3>5
    <3> QED BY <1>5, <3>2, <3>6 DEF Rises
  <2> QED BY <2>1, <2>2
<1> DEFINE Points == UNION {{<<chart.series[s][i], chart.places[s][i]>> :
                                  i \in DOMAIN chart.series[s]} : s \in DOMAIN chart.series}
<1>10. ASSUME NEW p \in Points
       PROVE  /\ p[1][1] \in X /\ p[1][2] \in Nat
              /\ p[2][1] = Places[p[1][1]] /\ p[2][2] = ScaledY(p[1][2], y_range)
  <2>1. chart.series = series BY <1>2 DEF IsChart
  <2>2. PICK s \in DOMAIN series :
         \E i \in DOMAIN series[s] :
          p = <<series[s][i], chart.places[s][i]>>
    BY <1>10, <2>1
  <2>3. PICK i \in DOMAIN series[s] : p = <<series[s][i], chart.places[s][i]>> BY <2>2
  <2>4. PICK x, y : x = series[s][i][1] /\ y = series[s][i][2] OBVIOUS
  <2>5. x \in X /\ x \in S /\ y \in Nat BY <1>4, <1>5, <2>4
  <2>6. chart.places[s][i] = <<ScaledX(x, x_range, log_x), ScaledY(y, y_range)>>
    BY <1>7, <1>2, <2>4 DEF IsChart
  <2>7. Places[x] = ScaledX(x, x_range, log_x) BY <1>8, <2>5
  <2>8. p[1][1] = x /\ p[1][2] = y BY <2>3, <2>4
  <2>9. p[2][1] = ScaledX(x, x_range, log_x) /\ p[2][2] = ScaledY(y, y_range) BY <2>3, <2>6
  <2> QED BY <2>5, <2>7, <2>8, <2>9
<1> HIDE DEF Points
<1>11. ASSUME NEW p \in Points, NEW q \in Points
       PROVE  /\ p[1][1] < q[1][1] => p[2][1] < q[2][1]
              /\ p[1][2] < q[1][2] => p[2][2] > q[2][2]
  <2>1. \A y, z \in Nat : y < z => ScaledY(y, y_range) > ScaledY(z, y_range) BY YOrder
  <2> QED BY <1>9, <1>10, <2>1
<1>12. ASSUME NEW p \in Points, NEW tick \in Range(chart.y_ticks)
       PROVE  (tick[1] < 5 * p[1][2]) = (tick[2] > p[2][2])
  <2>1. PICK i \in 1 .. 6 : tick = chart.y_ticks[i] BY <1>2 DEF Range, IsChart
  <2>2. PICK t, h : /\ t = y_ticks(y_range)[i]
                    /\ h = ScaledY(y_ticks(y_range)[i], <<5 * y_range[1], 5 * y_range[2]>>)
    OBVIOUS
  <2>3. tick = <<t, h>> BY <1>2, <2>1, <2>2 DEF IsChart
  <2>4. PICK y, g : y = p[1][2] /\ g = p[2][2] OBVIOUS
  <2>5. y \in Nat /\ g = ScaledY(y, y_range) BY <1>10, <2>4
  <2>6. (t < 5 * y) <=> (h > g) BY <2>2, <2>5, YOrder
  <2>7. tick[1] = t /\ tick[2] = h BY <2>3
  <2>8. (tick[1] < 5 * p[1][2]) <=> (tick[2] > p[2][2]) BY <2>4, <2>6, <2>7
  <2> QED BY <2>8
<1>13. ASSUME NEW p \in Points
       PROVE  <<p[1][1], p[2][1]>> \in Range(chart.x_ticks)
  <2>1. PICK x : x = p[1][1] OBVIOUS
  <2>2. x \in X /\ x \in S /\ p[2][1] = ScaledX(x, x_range, log_x) BY <1>5, <1>8, <1>10, <2>1
  <2>3. PICK i \in 1 .. Cardinality(X) : Ascending(X)[i] = x BY <1>6, <2>2, AscendingPlaces
  <2>4. /\ DOMAIN chart.x_ticks = 1 .. Cardinality(X)
        /\ chart.x_ticks[i] = <<x, ScaledX(x, x_range, log_x)>>
    BY <1>3, <1>7, <1>2, <2>3 DEF IsChart
  <2> QED BY <2>1, <2>2, <2>4 DEF Range
<1>14. ASSUME NEW p \in Points
       PROVE  p[2][1] \in 100 * Pad .. 100 * (Width - Pad)
  BY <1>9, <1>10
<1>15. ChartInOrder(chart) BY <1>11, <1>12, <1>13, <1>14 DEF ChartInOrder, Points
<1> QED BY <1>1, <1>15

(* The points of a line chart: whole numbers, on the axis of the chart.    *)
OnAxis(series, S) ==
  \A s \in DOMAIN series : \A i \in DOMAIN series[s] :
    series[s][i][1] \in S /\ series[s][i][2] \in Nat

LEMMA CyclesOnAxis ==
  ASSUME NEW tabs \in AllTables, NEW field \in {"acc", "cpi"}
  PROVE  OnAxis(cycle_series(RowsOf(tabs), field), RequestedCycles)
<1>1. PICK series : series = cycle_series(RowsOf(tabs), field) OBVIOUS
<1>2. PICK all : all = RowsOf(tabs) OBVIOUS
<1>3. DOMAIN all = Strategies
  BY <1>2, RowsRead DEF Strategies
<1>4. ASSUME NEW s \in Strategies, NEW i \in DOMAIN series[s]
      PROVE  series[s][i][1] \in RequestedCycles /\ series[s][i][2] \in Nat
  <2>1. PICK rows : rows = all[s] OBVIOUS
  <2>2. rows \in Seq(TableRow) /\ Requested(rows) BY <1>2, <2>1, RowsRead
  <2>3. PICK drawn : drawn = IF s = "ghr_on" THEN nonzero_ghr_rows(rows) ELSE rows OBVIOUS
  <2>4. drawn \in Seq(TableRow) BY <2>2, <2>3, NonzeroRows
  <2>5. ASSUME NEW k \in DOMAIN drawn PROVE drawn[k].cycle \in RequestedCycles
    <3>1. CASE s = "ghr_on"
      <4>1. PICK P : P = {j \in DOMAIN rows : rows[j].ghr \in 1 .. 10} OBVIOUS
      <4>2. P \subseteq DOMAIN rows BY <4>1
      <4>3. drawn = Keep(rows, P) BY <2>3, <3>1, <4>1 DEF nonzero_ghr_rows
      <4>4. PICK p \in P : drawn[k] = rows[p] BY <2>2, <4>2, <4>3, KeepRows
      <4> QED BY <2>2, <4>2, <4>4 DEF Requested
    <3>2. CASE s # "ghr_on" BY <2>2, <2>3, <3>2 DEF Requested
    <3> QED BY <3>1, <3>2
  <2>6. PICK out : out = best_per_cycle(drawn) OBVIOUS
  <2>7. IsByCycle(out, drawn) BY <2>4, <2>6, PerCycle
  <2>8. series[s] = CyclePoints(drawn, field) BY <1>1, <1>2, <1>3, <2>1, <2>3 DEF cycle_series
  <2>9. series[s] = [k \in DOMAIN out |-> <<out[k].cycle, out[k][field]>>]
    BY <2>6, <2>8 DEF CyclePoints
  <2>10. i \in DOMAIN out BY <2>9
  <2>11. out[i].cycle \in AllCycles(drawn) BY <2>7, <2>10 DEF IsByCycle
  <2>12. out[i].cycle \in RequestedCycles BY <2>5, <2>11 DEF AllCycles, CyclesIn
  <2>13. out[i].acc \in Nat /\ out[i].cpi \in Nat
    <3>1. out \in Seq(TableRow) BY <2>7 DEF IsByCycle
    <3> QED BY <2>10, <3>1, FieldTypes
  <2>14. out[i][field] \in Nat BY <2>13
  <2> QED BY <2>9, <2>10, <2>12, <2>14
<1>5. DOMAIN series = Strategies BY <1>1, <1>2, <1>3 DEF cycle_series
<1> QED BY <1>1, <1>4, <1>5 DEF OnAxis

LEMMA BestOnAxis ==
  ASSUME NEW rows \in Seq(TableRow), NEW field \in {"ghr", "idx"},
         NEW i \in DOMAIN BestBy(rows, field)
  PROVE  BestBy(rows, field)[i][1] \in Bits /\ BestBy(rows, field)[i][2] \in Nat
<1>1. PICK points : points = BestBy(rows, field) OBVIOUS
<1>2. IsBestBy(points, rows, field) BY <1>1, BestByField
<1>3. PICK k \in DOMAIN rows : points[i] = <<rows[k][field], rows[k].acc>>
  BY <1>1, <1>2 DEF IsBestBy
<1>4. rows[k].acc \in Nat /\ rows[k].ghr \in 0 .. 64 /\ rows[k].idx \in 0 .. 64 BY FieldTypes
<1>5. rows[k][field] \in Bits BY <1>4 DEF Bits
<1> QED BY <1>1, <1>3, <1>4, <1>5

LEMMA ParametersOnAxis ==
  ASSUME NEW rows \in Seq(TableRow)
  PROVE  /\ OnAxis(idx_sweep(rows), Bits)
         /\ OnAxis(best_by_ghr(rows), Bits)
         /\ OnAxis(parameter_series(rows), Bits)
<1>1. OnAxis(idx_sweep(rows), Bits)
  <2>1. PICK series : series = idx_sweep(rows) OBVIOUS
  <2>2. DOMAIN series = {"ghr_off"} BY <2>1 DEF idx_sweep
  <2>3. PICK points : points = series.ghr_off OBVIOUS
  <2>4. PICK here : here = cycle_rows(rows, LastCycle) OBVIOUS
  <2>5. here \in Seq(TableRow) BY <2>4, CycleRows
  <2>6. ASSUME NEW i \in DOMAIN points
        PROVE  points[i][1] \in Bits /\ points[i][2] \in Nat
    <3>1. PICK k \in DOMAIN here : points[i] = <<here[k].idx, here[k].acc>>
      BY <2>1, <2>3, <2>4, SweepPoints
    <3>2. here[k].acc \in Nat /\ here[k].idx \in 0 .. 64 BY <2>5, FieldTypes
    <3> QED BY <3>1, <3>2 DEF Bits
  <2> QED BY <2>1, <2>2, <2>3, <2>6 DEF OnAxis
<1>2. OnAxis(best_by_ghr(rows), Bits)
  <2>1. PICK series : series = best_by_ghr(rows) OBVIOUS
  <2>2. PICK here : here = rows_for_cycle(rows, LastCycle) OBVIOUS
  <2>3. here \in Seq(TableRow)
    <3>1. rows_for_cycle(rows, LastCycle) = cycle_rows(rows, LastCycle) BY CycleRows
    <3>2. cycle_rows(rows, LastCycle) \in Seq(TableRow) BY CycleRows
    <3> QED BY <2>2, <3>1, <3>2
  <2>4. DOMAIN series = {"best_per_ghr"} /\ series.best_per_ghr = BestBy(here, "ghr")
    BY <2>1, <2>2 DEF best_by_ghr
  <2>5. \A i \in DOMAIN BestBy(here, "ghr") :
          BestBy(here, "ghr")[i][1] \in Bits /\ BestBy(here, "ghr")[i][2] \in Nat
    BY <2>3, BestOnAxis
  <2> QED BY <2>1, <2>4, <2>5 DEF OnAxis
<1>3. OnAxis(parameter_series(rows), Bits)
  <2>1. PICK series : series = parameter_series(rows) OBVIOUS
  <2>2. PICK here : here = at_max_cycle(rows) OBVIOUS
  <2>3. here \in Seq(TableRow)
    <3>1. PICK c : c = Greatest(Values(rows, "cycle")) OBVIOUS
    <3>2. rows_for_cycle(rows, c) = cycle_rows(rows, c) BY CycleRows
    <3>3. cycle_rows(rows, c) \in Seq(TableRow) BY CycleRows
    <3> QED BY <2>2, <3>1, <3>2, <3>3 DEF at_max_cycle
  <2>4. /\ DOMAIN series = {"best_by_ghr", "best_by_bht_index"}
        /\ series.best_by_ghr = BestBy(here, "ghr")
        /\ series.best_by_bht_index = BestBy(here, "idx")
    BY <2>1, <2>2 DEF parameter_series
  <2>5. /\ \A i \in DOMAIN BestBy(here, "ghr") :
             BestBy(here, "ghr")[i][1] \in Bits /\ BestBy(here, "ghr")[i][2] \in Nat
        /\ \A i \in DOMAIN BestBy(here, "idx") :
             BestBy(here, "idx")[i][1] \in Bits /\ BestBy(here, "idx")[i][2] \in Nat
    BY <2>3, BestOnAxis
  <2> QED BY <2>1, <2>4, <2>5 DEF OnAxis
<1> QED BY <1>1, <1>2, <1>3

(* The chart of cycle counts, and the chart of a parameter.                *)
LEMMA CycleChart ==
  ASSUME NEW series, OnAxis(series, RequestedCycles), NEW y_range \in YRanges
  PROVE  ChartInOrder(line_svg(series, y_range, TRUE))
<1>1. IsFiniteSet(RequestedCycles) /\ RequestedCycles \subseteq Nat
  <2>1. RequestedCycles \subseteq 0 .. LastCycle /\ LastCycle \in Nat BY CyclesAssumption
  <2>2. IsFiniteSet(0 .. LastCycle) BY <2>1, FS_Interval
  <2>3. IsFiniteSet(RequestedCycles) BY <2>1, <2>2, FS_Subset
  <2> QED BY <2>3, CyclesAssumption
<1>2. \A lo, hi \in RequestedCycles :
        Rises([x \in RequestedCycles |-> ScaledX(x, <<lo, hi>>, TRUE)], RequestedCycles, lo, hi)
  BY LogAxis
<1>3. \A s \in DOMAIN series : \A i \in DOMAIN series[s] :
        series[s][i][1] \in RequestedCycles /\ series[s][i][2] \in Nat
  BY DEF OnAxis
<1> QED BY <1>1, <1>2, <1>3, ChartOrder, Zenon

LEMMA ParameterChart ==
  ASSUME NEW series, OnAxis(series, Bits), NEW y_range \in YRanges
  PROVE  ChartInOrder(line_svg(series, y_range, FALSE))
<1>1. IsFiniteSet(Bits) /\ Bits \subseteq Nat
  <2>1. PICK n \in Nat : n = 64 OBVIOUS
  <2>2. IsFiniteSet(0 .. n) BY FS_Interval
  <2> QED BY <2>1, <2>2 DEF Bits
<1>2. \A lo, hi \in Bits : Rises([x \in Bits |-> ScaledX(x, <<lo, hi>>, FALSE)], Bits, lo, hi)
  BY LinearAxis
<1>3. \A s \in DOMAIN series : \A i \in DOMAIN series[s] :
        series[s][i][1] \in Bits /\ series[s][i][2] \in Nat
  BY DEF OnAxis
<1> QED BY <1>1, <1>2, <1>3, ChartOrder, Zenon

LEMMA LineChart ==
  ASSUME NEW tabs \in AllTables, NEW name \in LineCharts
  PROVE  ChartInOrder(Drawing(name, RowsOf(tabs)))
<1>1. PICK rows : rows = RowsOf(tabs) OBVIOUS
<1>2. rows.ghr_off \in Seq(TableRow) /\ rows.ghr_on \in Seq(TableRow)
  BY <1>1, RowsRead DEF Strategies
<1>3. name \in {"cycle_branch_accuracy.svg", "cycle_cpi.svg", "ghr_off_idx_accuracy_1000M.svg",
                "ghr_on_best_by_ghr_1000M.svg", "ghr_on_parameter_accuracy.svg"}
  BY DEF LineCharts, Svgs, Range
<1>4. PICK percents \in YRanges, whole \in YRanges, cpis \in YRanges :
        percents = <<20, 100>> /\ whole = <<0, 100>> /\ cpis = <<0, 2000>>
  BY DEF YRanges
<1>5. CASE name = "cycle_branch_accuracy.svg"
  <2>1. OnAxis(cycle_series(rows, "acc"), RequestedCycles) BY <1>1, CyclesOnAxis
  <2>2. Drawing(name, rows) = line_svg(cycle_series(rows, "acc"), percents, TRUE)
    BY <1>4, <1>5 DEF Drawing
  <2>3. ChartInOrder(line_svg(cycle_series(rows, "acc"), percents, TRUE))
    BY <2>1, CycleChart
  <2> QED BY <1>1, <2>2, <2>3, Zenon
<1>6. CASE name = "cycle_cpi.svg"
  <2>1. OnAxis(cycle_series(rows, "cpi"), RequestedCycles) BY <1>1, CyclesOnAxis
  <2>2. Drawing(name, rows) = line_svg(cycle_series(rows, "cpi"), cpis, TRUE)
    BY <1>4, <1>6 DEF Drawing
  <2>3. ChartInOrder(line_svg(cycle_series(rows, "cpi"), cpis, TRUE))
    BY <2>1, CycleChart
  <2> QED BY <1>1, <2>2, <2>3, Zenon
<1>7. CASE name = "ghr_off_idx_accuracy_1000M.svg"
  <2>1. OnAxis(idx_sweep(rows.ghr_off), Bits) BY <1>2, ParametersOnAxis
  <2>2. Drawing(name, rows) = line_svg(idx_sweep(rows.ghr_off), whole, FALSE)
    BY <1>4, <1>7 DEF Drawing
  <2>3. ChartInOrder(line_svg(idx_sweep(rows.ghr_off), whole, FALSE))
    BY <2>1, ParameterChart
  <2> QED BY <1>1, <2>2, <2>3, Zenon
<1>8. CASE name = "ghr_on_best_by_ghr_1000M.svg"
  <2>1. OnAxis(best_by_ghr(rows.ghr_on), Bits) BY <1>2, ParametersOnAxis
  <2>2. Drawing(name, rows) = line_svg(best_by_ghr(rows.ghr_on), whole, FALSE)
    BY <1>4, <1>8 DEF Drawing
  <2>3. ChartInOrder(line_svg(best_by_ghr(rows.ghr_on), whole, FALSE))
    BY <2>1, ParameterChart
  <2> QED BY <1>1, <2>2, <2>3, Zenon
<1>9. CASE name = "ghr_on_parameter_accuracy.svg"
  <2>1. OnAxis(parameter_series(rows.ghr_on), Bits) BY <1>2, ParametersOnAxis
  <2>2. Drawing(name, rows) = line_svg(parameter_series(rows.ghr_on), whole, FALSE)
    BY <1>4, <1>9 DEF Drawing
  <2>3. ChartInOrder(line_svg(parameter_series(rows.ghr_on), whole, FALSE))
    BY <2>1, ParameterChart
  <2> QED BY <1>1, <2>2, <2>3, Zenon
<1> QED BY <1>3, <1>5, <1>6, <1>7, <1>8, <1>9

(* A chart keeps the order of what it shows, whatever there is to show.    *)
THEOREM ChartsInOrder == ReportsSpec => []PlacesInOrder
<1>1. ReportsInv => PlacesInOrder
  <2> SUFFICES ASSUME ReportsInv, NEW name \in LineCharts, figures[name].round # 0
               PROVE  ChartInOrder(figures[name].shows)
    BY Zenon DEF PlacesInOrder, ChartInOrder
  <2>1. name \in Names BY DEF LineCharts, Names
  <2>2. PICK tabs \in AllTables : figures[name].shows = Drawing(name, RowsOf(tabs))
    BY <2>1 DEF ReportsInv, FiguresInv
  <2>3. ChartInOrder(Drawing(name, RowsOf(tabs))) BY LineChart
  <2> QED BY <2>2, <2>3, Zenon
<1> QED BY <1>1, ReportsInductive, PTL

-----------------------------------------------------------------------------
(* Colours.                                                                *)

(* There is a square root, in thousandths.                                 *)
Thousandths == 0 .. 1000
Whole == 1000
IsRoot(r, n, d) ==
  r * r * d <= n * 1000000 /\ n * 1000000 < (r + 1) * (r + 1) * d

LEMMA RootChosen ==
  ASSUME NEW n, NEW d, NEW k \in Thousandths, IsRoot(k, n, d)
  PROVE  SquareRoot(n, d) \in Thousandths /\ IsRoot(SquareRoot(n, d), n, d)
<1>1. SquareRoot(n, d) = CHOOSE r \in Thousandths : IsRoot(r, n, d)
  BY SMT DEF SquareRoot, Thousandths, IsRoot
<1> QED BY <1>1, Zenon

LEMMA RootIs ==
  ASSUME NEW n \in Nat, NEW d \in Nat \ {0}, n <= d
  PROVE  SquareRoot(n, d) \in Thousandths /\ IsRoot(SquareRoot(n, d), n, d)
<1> DEFINE U == {k \in Nat : n * 1000000 < (k + 1) * (k + 1) * d}
<1>1. Whole \in U BY SMT DEF Whole
<1>2. PICK k \in U : \A j \in U : k <= j
  <2>1. U \subseteq Nat BY SMT
  <2> HIDE DEF U
  <2> QED BY <1>1, <2>1, LeastNumber
<1>3. k \in Thousandths BY <1>1, <1>2, SMT DEF Whole, Thousandths
<1>4. k * k * d <= n * 1000000
  <2>1. k \in Nat BY <1>2, SMT
  <2>2. CASE k = 0 BY <2>2, SMT
  <2>3. CASE k > 0
    <3>1. PICK j \in Nat : k = j + 1 BY <2>1, <2>3, SMT
    <3>2. j \notin U BY <1>2, <2>1, <3>1, SMT
    <3>3. (j + 1) * (j + 1) * d \in Nat BY <3>1, SMT
    <3> QED BY <3>1, <3>2, <3>3, SMT
  <2> QED BY <2>1, <2>2, <2>3, SMT
<1>5. IsRoot(k, n, d) BY <1>2, <1>4, SMT DEF IsRoot
<1> QED BY <1>3, <1>5, RootChosen, SMT

(* The square root of a greater number is not less, and of a number that   *)
(* is greater by a hundredth of the range it is greater.                   *)
Apart(r, s) == r + 4 <= s /\ (r < 500 => r + 6 <= s)

LEMMA RootsRise ==
  ASSUME NEW n \in Nat, NEW m \in Nat, NEW d \in Nat \ {0}, n <= m, m <= d,
         NEW r, r = SquareRoot(n, d), NEW s, s = SquareRoot(m, d)
  PROVE  /\ r \in Thousandths /\ s \in Thousandths /\ r <= s
         /\ d <= 100 * (m - n) => Apart(r, s)
<1>1. r \in Thousandths /\ IsRoot(r, n, d) BY RootIs
<1>2. s \in Thousandths /\ IsRoot(s, m, d) BY RootIs
<1>3. r \in Nat /\ s \in Nat /\ r <= 1000 BY <1>1, <1>2, SMT DEF Thousandths
<1>4. PICK a \in Nat, b \in Nat : a = r * r /\ b = (s + 1) * (s + 1) BY <1>3, SMT
<1>5. a * d <= n * 1000000 /\ m * 1000000 < b * d BY <1>1, <1>2, <1>4, SMT DEF IsRoot
<1>6. a * d \in Nat /\ b * d \in Nat BY <1>4, SMT
<1>7. ASSUME NEW e \in Nat, e * d <= (m - n) * 1000000 PROVE a + e < b
  <2>1. e * d \in Nat BY <1>7, SMT
  <2>2. a * d + e * d < b * d BY <1>5, <1>6, <1>7, <2>1, SMT
  <2>3. (a + e) * d = a * d + e * d BY <1>4, SMT
  <2>4. b <= a + e => b * d <= (a + e) * d BY <1>4, SMT
  <2> QED BY <1>4, <1>6, <2>1, <2>2, <2>3, <2>4, SMT
<1>8. ASSUME NEW k \in Nat, s + 1 <= r + k
      PROVE  b <= a + (2 * k * r + k * k)
  <2>1. PICK x \in Nat, y \in Nat : x = s + 1 /\ y = r + k BY <1>3, SMT
  <2>2. x <= y BY <1>8, <2>1, SMT
  <2>3. x * x <= x * y /\ x * y <= y * y BY <2>1, <2>2, SMT
  <2>4. x * x \in Nat /\ x * y \in Nat /\ y * y \in Nat BY <2>1, SMT
  <2>5. (r + k) * (r + k) = r * r + (2 * k * r + k * k) BY <1>3, SMT
  <2>6. b = x * x /\ y * y = a + (2 * k * r + k * k) BY <1>4, <2>1, <2>5, SMT
  <2> QED BY <2>3, <2>4, <2>6, SMT
<1>9. r <= s
  <2>1. a + 0 < b
    <3>1. 0 * d <= (m - n) * 1000000 BY SMT
    <3> QED BY <1>7, <3>1, SMT
  <2>2. s + 1 <= r + 0 => b <= a + (2 * 0 * r + 0 * 0) BY <1>8, SMT
  <2> QED BY <1>3, <1>4, <2>1, <2>2, SMT
<1>10. ASSUME d <= 100 * (m - n) PROVE Apart(r, s)
  <2>1. a + 10000 < b
    <3>1. 10000 * d <= (m - n) * 1000000 BY <1>10, SMT
    <3> QED BY <1>7, <3>1, SMT
  <2>2. s + 1 <= r + 4 => b <= a + (2 * 4 * r + 4 * 4) BY <1>8, SMT
  <2>3. s + 1 <= r + 6 => b <= a + (2 * 6 * r + 6 * 6) BY <1>8, SMT
  <2> QED BY <1>3, <1>4, <2>1, <2>2, <2>3, SMT DEF Apart
<1> QED BY <1>1, <1>2, <1>9, <1>10

(* The colour of a ratio.                                                  *)
Shade(r) ==
  LET l == IF r < 500 THEN 2 * r ELSE 2 * (r - 500)
  IN IF r < 500
     THEN [red |-> 127 + (128 * l) \div 1000, green |-> (224 * l) \div 1000,
           blue |-> (139 * l) \div 1000]
     ELSE [red |-> (255000 - 255 * l) \div 1000, green |-> (224000 - 47 * l) \div 1000,
           blue |-> (139 * (1000 - l)) \div 1000]

LowGreen(l) == (224 * l) \div 1000 - (127 + (128 * l) \div 1000)
HighGreen(l) == (224000 - 47 * l) \div 1000 - (255000 - 255 * l) \div 1000
Green(r) == IF r < 500 THEN LowGreen(2 * r) ELSE HighGreen(2 * (r - 500))

LEMMA ShadeOfRatio ==
  ASSUME NEW value, NEW low, NEW high
  PROVE  heatmap_color(value, low, high) = Shade(SquareRoot(value - low, high - low))
BY SMT DEF heatmap_color, Shade

LEMMA ShadeRange ==
  ASSUME NEW r \in Thousandths
  PROVE  /\ {Shade(r).red, Shade(r).green, Shade(r).blue} \subseteq 0 .. 255
         /\ Shade(r).green - Shade(r).red = Green(r)
<1>1. CASE r < 500
  <2>1. PICK l : l = 2 * r OBVIOUS
  <2>2. l \in 0 .. 998 BY <1>1, <2>1 DEF Thousandths
  <2>3. /\ 127 + (128 * l) \div 1000 \in 0 .. 255
        /\ (224 * l) \div 1000 \in 0 .. 255
        /\ (139 * l) \div 1000 \in 0 .. 255
    BY <2>2, SMT
  <2>4. Shade(r) = [red |-> 127 + (128 * l) \div 1000, green |-> (224 * l) \div 1000,
                    blue |-> (139 * l) \div 1000]
    BY <1>1, <2>1, SMT DEF Shade
  <2>5. Green(r) = LowGreen(l) BY <1>1, <2>1 DEF Green
  <2> QED BY <2>3, <2>4, <2>5, SMT DEF LowGreen
<1>2. CASE ~ r < 500
  <2>1. PICK l : l = 2 * (r - 500) OBVIOUS
  <2>2. l \in 0 .. 1000 BY <1>2, <2>1 DEF Thousandths
  <2>3. /\ (255000 - 255 * l) \div 1000 \in 0 .. 255
        /\ (224000 - 47 * l) \div 1000 \in 0 .. 255
        /\ (139 * (1000 - l)) \div 1000 \in 0 .. 255
    BY <2>2, SMT
  <2>4. Shade(r) = [red |-> (255000 - 255 * l) \div 1000,
                    green |-> (224000 - 47 * l) \div 1000,
                    blue |-> (139 * (1000 - l)) \div 1000]
    BY <1>2, <2>1, SMT DEF Shade
  <2>5. Green(r) = HighGreen(l) BY <1>2, <2>1 DEF Green
  <2> QED BY <2>3, <2>4, <2>5, SMT DEF HighGreen
<1> QED BY <1>1, <1>2

(* Each half of the colours turns greener, but for the rounding.           *)
LEMMA LowGreenRises ==
  ASSUME NEW k \in Nat, NEW l \in Nat, k <= l, l <= 998
  PROVE  /\ LowGreen(k) \in Int /\ LowGreen(l) \in Int
         /\ LowGreen(k) <= LowGreen(l) + 1
         /\ k + 12 <= l => LowGreen(k) <= LowGreen(l)
         /\ LowGreen(k) <= -31
BY SMT DEF LowGreen

LEMMA HighGreenRises ==
  ASSUME NEW k \in Nat, NEW l \in Nat, k <= l, l <= 1000
  PROVE  /\ HighGreen(k) \in Int /\ HighGreen(l) \in Int
         /\ HighGreen(k) <= HighGreen(l) + 1
         /\ k + 8 <= l => HighGreen(k) <= HighGreen(l)
         /\ -31 <= HighGreen(l)
BY SMT DEF HighGreen

LEMMA GreenRises ==
  ASSUME NEW r \in Thousandths, NEW s \in Thousandths, r <= s
  PROVE  /\ Green(r) \in Int /\ Green(s) \in Int
         /\ Green(r) <= Green(s) + 1
         /\ Apart(r, s) => Green(r) <= Green(s)
<1>1. r \in Nat /\ s \in Nat /\ s <= 1000 BY DEF Thousandths
<1>2. CASE s < 500
  <2>1. PICK k \in Nat, l \in Nat : k = 2 * r /\ l = 2 * s BY <1>1
  <2>2. Green(r) = LowGreen(k) /\ Green(s) = LowGreen(l) BY <1>1, <1>2, <2>1 DEF Green
  <2>3. k <= l /\ l <= 998 /\ (Apart(r, s) => k + 12 <= l)
    BY <1>1, <1>2, <2>1 DEF Apart
  <2> QED BY <2>2, <2>3, LowGreenRises
<1>3. CASE r < 500 /\ ~ s < 500
  <2>1. PICK k \in Nat, l \in Nat : k = 2 * r /\ l = 2 * (s - 500) BY <1>1, <1>3
  <2>2. Green(r) = LowGreen(k) /\ Green(s) = HighGreen(l) BY <1>1, <1>3, <2>1 DEF Green
  <2>3. k <= 998 /\ l <= 1000 /\ k <= k /\ l <= l BY <1>1, <1>3, <2>1
  <2>4. LowGreen(k) \in Int /\ LowGreen(k) <= -31 BY <2>3, LowGreenRises
  <2>5. HighGreen(l) \in Int /\ -31 <= HighGreen(l) BY <2>3, HighGreenRises
  <2> QED BY <2>2, <2>4, <2>5
<1>4. CASE ~ r < 500
  <2>1. PICK k \in Nat, l \in Nat : k = 2 * (r - 500) /\ l = 2 * (s - 500) BY <1>1, <1>4
  <2>2. Green(r) = HighGreen(k) /\ Green(s) = HighGreen(l) BY <1>1, <1>4, <2>1 DEF Green
  <2>3. k <= l /\ l <= 1000 /\ (Apart(r, s) => k + 8 <= l)
    BY <1>1, <1>4, <2>1 DEF Apart
  <2> QED BY <2>2, <2>3, HighGreenRises
<1> QED BY <1>1, <1>2, <1>3, <1>4

(* The colours of two values between the least and the greatest.           *)
Topmost(low, top) == IF low = top THEN low + 1 ELSE top

InPalette(color) == {color.red, color.green, color.blue} \subseteq 0 .. 255

LEMMA ColorRange ==
  ASSUME NEW low \in Nat, NEW top \in Nat, NEW v \in Nat, low <= v, v <= top,
         NEW color, color = heatmap_color(v, low, Topmost(low, top))
  PROVE  InPalette(color)
<1>1. PICK d \in Nat \ {0}, n \in Nat : d = Topmost(low, top) - low /\ n = v - low /\ n <= d
  BY DEF Topmost
<1>2. color = Shade(SquareRoot(n, d)) BY <1>1, ShadeOfRatio
<1>3. SquareRoot(n, d) \in Thousandths BY <1>1, RootIs
<1> QED BY <1>2, <1>3, ShadeRange DEF InPalette

LEMMA ColorOrder ==
  ASSUME NEW low \in Nat, NEW top \in Nat, NEW v \in Nat, NEW w \in Nat,
         low <= v, v < w, w <= top,
         NEW color, color = heatmap_color(v, low, Topmost(low, top)),
         NEW other, other = heatmap_color(w, low, Topmost(low, top))
  PROVE  color.green - color.red
           <= other.green - other.red + (IF 100 * (w - v) >= top - low THEN 0 ELSE 1)
<1>1. PICK d \in Nat \ {0}, n \in Nat, m \in Nat :
        d = top - low /\ n = v - low /\ m = w - low /\ n <= m /\ m <= d /\ m - n = w - v
  OBVIOUS
<1>2. Topmost(low, top) = top BY DEF Topmost
<1>3. PICK r, s : r = SquareRoot(n, d) /\ s = SquareRoot(m, d) OBVIOUS
<1>4. color = Shade(r) /\ other = Shade(s) BY <1>1, <1>2, <1>3, ShadeOfRatio
<1>5. /\ r \in Thousandths /\ s \in Thousandths /\ r <= s
      /\ d <= 100 * (m - n) => Apart(r, s)
  BY <1>1, <1>3, RootsRise
<1>6. /\ color.green - color.red = Green(r) /\ other.green - other.red = Green(s)
  BY <1>4, <1>5, ShadeRange
<1>7. /\ Green(r) \in Int /\ Green(s) \in Int
      /\ Green(r) <= Green(s) + 1
      /\ d <= 100 * (m - n) => Green(r) <= Green(s)
  BY <1>5, GreenRises
<1>8. 100 * (w - v) >= top - low <=> d <= 100 * (m - n) BY <1>1
<1> QED BY <1>6, <1>7, <1>8
-----------------------------------------------------------------------------
(* The heat map.                                                           *)

(* The rows that are shown, and the values that they have of a field.      *)
LEMMA ShownRows ==
  ASSUME NEW rows \in Seq(TableRow)
  PROVE  SmallestHistory(rows) \in Seq(TableRow)
<1>1. PICK last : last = at_max_cycle(rows) OBVIOUS
<1>2. last = cycle_rows(rows, Greatest(Values(rows, "cycle")))
  BY <1>1, CycleRows DEF at_max_cycle
<1>3. last \in Seq(TableRow) BY <1>2, CycleRows
<1>4. PICK P : P = {i \in DOMAIN last : last[i].hist = Least(Values(last, "hist"))} OBVIOUS
<1>5. SmallestHistory(rows) = Keep(last, P) BY <1>1, <1>4 DEF SmallestHistory
<1>6. P \subseteq DOMAIN last BY <1>4
<1> QED BY <1>3, <1>5, <1>6, KeepPlaces

LEMMA FieldValues ==
  ASSUME NEW rows \in Seq(TableRow), NEW field \in {"ghr", "idx", "acc"}
  PROVE  /\ IsFiniteSet(Values(rows, field)) /\ Values(rows, field) \subseteq Nat
         /\ \A k \in DOMAIN rows : rows[k][field] \in Values(rows, field)
<1>1. PICK D : D = DOMAIN rows OBVIOUS
<1>2. IsFiniteSet(D) BY <1>1, PlacesAreFinite
<1>3. ASSUME NEW k \in D PROVE rows[k][field] \in Nat
  <2>1. rows[k].acc \in Nat /\ rows[k].ghr \in Nat /\ rows[k].idx \in 0 .. 64
    BY <1>1, FieldTypes
  <2>2. PICK idx : idx = rows[k].idx OBVIOUS
  <2>3. idx \in Nat
    <3>1. idx \in 0 .. 64 BY <2>1, <2>2
    <3> QED BY <3>1
  <2>4. PICK row : row = rows[k] OBVIOUS
  <2>5. row["acc"] \in Nat /\ row["ghr"] \in Nat /\ row["idx"] \in Nat
    BY <2>1, <2>2, <2>3, <2>4
  <2>6. field = "acc" \/ field = "ghr" \/ field = "idx" OBVIOUS
  <2>7. row[field] \in Nat BY <2>5, <2>6, Zenon
  <2> QED BY <2>4, <2>7
<1>4. PICK V : V = Values(rows, field) OBVIOUS
<1>5. V = {rows[k][field] : k \in D} BY <1>1, <1>4 DEF Values
<1>6. PICK f : f = [k \in D |-> rows[k][field]] OBVIOUS
<1>7. f \in Surjection(D, V) BY <1>5, <1>6 DEF Surjection
<1>8. IsFiniteSet(V) BY <1>2, <1>7, FS_Surjection
<1> QED BY <1>1, <1>3, <1>4, <1>5, <1>8

LEMMA PairValue ==
  ASSUME NEW rows \in Seq(TableRow), NEW ghr, NEW idx, RowsOfPair(rows, ghr, idx) # {}
  PROVE  value_by_pair(rows, ghr, idx) \in Values(rows, "acc")
<1>1. PICK P : P = RowsOfPair(rows, ghr, idx) OBVIOUS
<1>2. P \subseteq DOMAIN rows /\ P # {} BY <1>1 DEF RowsOfPair
<1>3. IsFiniteSet(P) /\ P \subseteq Nat BY <1>2, PlacesAreFinite
<1>4. Greatest(P) \in P BY <1>2, <1>3, LeastAndGreatest
<1>5. value_by_pair(rows, ghr, idx) = rows[Greatest(P)].acc BY <1>1 DEF value_by_pair
<1> QED BY <1>2, <1>4, <1>5, FieldValues

(* The values of an axis in their order, and how many there are.           *)
LEMMA AxisOf ==
  ASSUME NEW rows \in Seq(TableRow), NEW field \in {"ghr", "idx"},
         NEW axis, axis = Ascending(Values(rows, field))
  PROVE  /\ Len(axis) \in Nat /\ DOMAIN axis = 1 .. Len(axis)
         /\ \A k \in DOMAIN rows : \E i \in DOMAIN axis : axis[i] = rows[k][field]
<1>1. PICK V : V = Values(rows, field) OBVIOUS
<1>2. IsFiniteSet(V) /\ V \subseteq Nat /\ \A k \in DOMAIN rows : rows[k][field] \in V
  BY <1>1, FieldValues
<1>3. PICK n : n = Cardinality(V) OBVIOUS
<1>4. /\ n \in Nat /\ DOMAIN axis = 1 .. n
      /\ \A i \in 1 .. n : axis[i] \in V
      /\ \A v \in V : \E i \in 1 .. n : axis[i] = v
  BY <1>1, <1>2, <1>3, AscendingPlaces
<1>5. axis = [i \in 1 .. n |-> axis[i]]
  <2>1. PICK R : axis = InOrder(V, R) BY <1>1 DEF Ascending
  <2> DEFINE P(i) == CHOOSE m \in V : Cardinality({k \in V : <<k, m>> \in R}) = i - 1
  <2>2. axis = [i \in 1 .. n |-> P(i)] BY <1>3, <2>1 DEF InOrder
  <2> HIDE DEF P
  <2> QED BY <2>2
<1>6. axis \in [1 .. n -> V] BY <1>4, <1>5
<1>7. Len(axis) = n BY <1>4, <1>6, ListIsSeq
<1> QED BY <1>2, <1>4, <1>7

(* A cell of the map, and the labels of its row and its column.            *)
CellAt(shown, g, i) ==
  LET ghrs == Ascending(Values(shown, "ghr"))
      idxs == Ascending(Values(shown, "idx"))
      low == Least(Values(shown, "acc"))
      value == value_by_pair(shown, ghrs[g], idxs[i])
  IN [x |-> MapPad + (i - 1) * Cell, y |-> CellY(g - 1, Len(ghrs)), acc |-> value,
      color |-> heatmap_color(value, low, Topmost(low, Greatest(Values(shown, "acc"))))]
XLabel(shown, i) ==
  [x |-> MapPad + (i - 1) * Cell + Cell \div 2, idx |-> Ascending(Values(shown, "idx"))[i]]
YLabel(shown, g) ==
  [y |-> LabelY(g - 1, Len(Ascending(Values(shown, "ghr")))),
   ghr |-> Ascending(Values(shown, "ghr"))[g]]

IsMap(map, shown) ==
  LET ghrs == Ascending(Values(shown, "ghr"))
      idxs == Ascending(Values(shown, "idx"))
  IN /\ map.cells = {CellAt(shown, p[1], p[2]) :
                       p \in {q \in (DOMAIN ghrs) \X (DOMAIN idxs) :
                                RowsOfPair(shown, ghrs[q[1]], idxs[q[2]]) # {}}}
     /\ map.x_labels = {XLabel(shown, i) : i \in DOMAIN idxs}
     /\ map.y_labels = {YLabel(shown, g) : g \in DOMAIN ghrs}

LEMMA HeatmapIs ==
  ASSUME NEW rows PROVE IsMap(heatmap(rows), SmallestHistory(rows))
BY DEF IsMap, heatmap, CellAt, XLabel, YLabel, Topmost

(* The cells are where the labels of their parameters are, and nowhere     *)
(* else.                                                                   *)
LEMMA CellPlaces ==
  ASSUME NEW shown, NEW n \in Nat, n = Len(Ascending(Values(shown, "ghr"))),
         NEW g \in 1 .. n, NEW h \in 1 .. n, NEW i \in Nat, NEW j \in Nat
  PROVE  /\ YLabel(shown, g).y = CellAt(shown, h, j).y + Cell \div 2 <=> g = h
         /\ XLabel(shown, i).x = CellAt(shown, h, j).x + Cell \div 2 <=> i = j
<1>1. /\ YLabel(shown, g).y = LabelY(g - 1, n)
      /\ CellAt(shown, h, j).y = CellY(h - 1, n)
      /\ XLabel(shown, i).x = MapPad + (i - 1) * Cell + Cell \div 2
      /\ CellAt(shown, h, j).x = MapPad + (j - 1) * Cell
  BY DEF YLabel, XLabel, CellAt
<1>2. LabelY(g - 1, n) = CellY(h - 1, n) + 22 <=> g = h
  BY DEF LabelY, CellY, MapPad, Cell
<1>3. MapPad + (i - 1) * Cell + 22 = MapPad + (j - 1) * Cell + 22 <=> i = j
  BY DEF MapPad, Cell
<1>4. Cell \div 2 = 22 BY DEF Cell
<1> QED BY <1>1, <1>2, <1>3, <1>4

(* Read by its labels, the map shows what the matrix holds.                *)
ReadMap(map) ==
  {[ghr |-> t[1].ghr, idx |-> t[2].idx, acc |-> t[3].acc] :
     t \in {u \in map.y_labels \X map.x_labels \X map.cells :
              u[1].y = u[3].y + Cell \div 2 /\ u[2].x = u[3].x + Cell \div 2}}

LEMMA MapReads ==
  ASSUME NEW rows \in Seq(TableRow), NEW map, map = heatmap(rows)
  PROVE  matrix(rows) = ReadMap(map)
<1>1. PICK shown \in Seq(TableRow) : shown = SmallestHistory(rows) BY ShownRows
<1>2. PICK ghrs, idxs : /\ ghrs = Ascending(Values(shown, "ghr"))
                        /\ idxs = Ascending(Values(shown, "idx"))
  OBVIOUS
<1>3. PICK n, m : n = Len(ghrs) /\ m = Len(idxs) OBVIOUS
<1>4. /\ n \in Nat /\ DOMAIN ghrs = 1 .. n
      /\ \A k \in DOMAIN shown : \E g \in 1 .. n : ghrs[g] = shown[k].ghr
  <2>1. PICK field \in {"ghr", "idx"} : field = "ghr" OBVIOUS
  <2>2. /\ Len(ghrs) \in Nat /\ DOMAIN ghrs = 1 .. Len(ghrs)
        /\ \A k \in DOMAIN shown : \E i \in DOMAIN ghrs : ghrs[i] = shown[k][field]
    BY <1>2, <2>1, AxisOf
  <2> QED BY <1>3, <2>1, <2>2
<1>5. /\ m \in Nat /\ DOMAIN idxs = 1 .. m
      /\ \A k \in DOMAIN shown : \E i \in 1 .. m : idxs[i] = shown[k].idx
  <2>1. PICK field \in {"ghr", "idx"} : field = "idx" OBVIOUS
  <2>2. /\ Len(idxs) \in Nat /\ DOMAIN idxs = 1 .. Len(idxs)
        /\ \A k \in DOMAIN shown : \E i \in DOMAIN idxs : idxs[i] = shown[k][field]
    BY <1>2, <2>1, AxisOf
  <2> QED BY <1>3, <2>1, <2>2
<1>6. IsMap(map, shown) BY <1>1, HeatmapIs
<1>7. /\ \A g \in 1 .. n, i \in 1 .. m :
           RowsOfPair(shown, ghrs[g], idxs[i]) # {} => CellAt(shown, g, i) \in map.cells
      /\ \A c \in map.cells : \E g \in 1 .. n, i \in 1 .. m :
           RowsOfPair(shown, ghrs[g], idxs[i]) # {} /\ c = CellAt(shown, g, i)
      /\ map.x_labels = {XLabel(shown, i) : i \in 1 .. m}
      /\ map.y_labels = {YLabel(shown, g) : g \in 1 .. n}
  <2>1. map.cells = {CellAt(shown, p[1], p[2]) :
                       p \in {q \in (DOMAIN ghrs) \X (DOMAIN idxs) :
                                RowsOfPair(shown, ghrs[q[1]], idxs[q[2]]) # {}}}
    BY <1>2, <1>6 DEF IsMap
  <2>2. ASSUME NEW g \in 1 .. n, NEW i \in 1 .. m, RowsOfPair(shown, ghrs[g], idxs[i]) # {}
        PROVE  CellAt(shown, g, i) \in map.cells
    <3>1. PICK q : q = <<g, i>> OBVIOUS
    <3>2. q \in (DOMAIN ghrs) \X (DOMAIN idxs) /\ q[1] = g /\ q[2] = i
      BY <1>4, <1>5, <3>1
    <3>3. CellAt(shown, q[1], q[2]) \in map.cells BY <2>1, <2>2, <3>2
    <3> QED BY <3>2, <3>3
  <2>3. ASSUME NEW c \in map.cells
        PROVE  \E g \in 1 .. n, i \in 1 .. m :
                 RowsOfPair(shown, ghrs[g], idxs[i]) # {} /\ c = CellAt(shown, g, i)
    BY <1>4, <1>5, <2>1
  <2>4. /\ map.x_labels = {XLabel(shown, i) : i \in 1 .. m}
        /\ map.y_labels = {YLabel(shown, g) : g \in 1 .. n}
    BY <1>2, <1>4, <1>5, <1>6 DEF IsMap
  <2> QED BY <2>2, <2>3, <2>4
<1>8. \A g, h \in 1 .. n : \A i, j \in 1 .. m :
        /\ YLabel(shown, g).y = CellAt(shown, h, j).y + Cell \div 2 <=> g = h
        /\ XLabel(shown, i).x = CellAt(shown, h, j).x + Cell \div 2 <=> i = j
  <2> TAKE g, h \in 1 .. n
  <2> TAKE i, j \in 1 .. m
  <2>1. i \in Nat /\ j \in Nat BY <1>5
  <2> QED BY <1>2, <1>3, <1>4, <2>1, CellPlaces
<1>9. \A g \in 1 .. n, i \in 1 .. m :
        /\ YLabel(shown, g).ghr = ghrs[g] /\ XLabel(shown, i).idx = idxs[i]
        /\ CellAt(shown, g, i).acc = value_by_pair(shown, ghrs[g], idxs[i])
  BY <1>2 DEF YLabel, XLabel, CellAt
<1>10. matrix(rows) = {[ghr |-> shown[k].ghr, idx |-> shown[k].idx,
                        acc |-> value_by_pair(shown, shown[k].ghr, shown[k].idx)] :
                         k \in DOMAIN shown}
  BY <1>1 DEF matrix
<1>11. ASSUME NEW e \in matrix(rows) PROVE e \in ReadMap(map)
  <2>1. PICK k \in DOMAIN shown :
          e = [ghr |-> shown[k].ghr, idx |-> shown[k].idx,
               acc |-> value_by_pair(shown, shown[k].ghr, shown[k].idx)]
    BY <1>10
  <2>2. PICK g \in 1 .. n : ghrs[g] = shown[k].ghr BY <1>4
  <2>3. PICK i \in 1 .. m : idxs[i] = shown[k].idx BY <1>5
  <2>4. k \in RowsOfPair(shown, ghrs[g], idxs[i]) BY <2>2, <2>3 DEF RowsOfPair
  <2>5. PICK y, x, c : y = YLabel(shown, g) /\ x = XLabel(shown, i) /\ c = CellAt(shown, g, i)
    OBVIOUS
  <2>6. y \in map.y_labels /\ x \in map.x_labels /\ c \in map.cells
    BY <1>7, <2>4, <2>5
  <2>7. y.y = c.y + Cell \div 2 /\ x.x = c.x + Cell \div 2 BY <1>8, <2>5
  <2>8. PICK u \in map.y_labels \X map.x_labels \X map.cells : u = <<y, x, c>>
    BY <2>6
  <2>9. u[1] = y /\ u[2] = x /\ u[3] = c BY <2>8
  <2>10. [ghr |-> u[1].ghr, idx |-> u[2].idx, acc |-> u[3].acc] \in ReadMap(map)
    BY <2>7, <2>9 DEF ReadMap
  <2>11. e = [ghr |-> u[1].ghr, idx |-> u[2].idx, acc |-> u[3].acc]
    BY <1>9, <2>1, <2>2, <2>3, <2>5, <2>9
  <2> QED BY <2>10, <2>11
<1>12. ASSUME NEW e \in ReadMap(map) PROVE e \in matrix(rows)
  <2>1. PICK u \in map.y_labels \X map.x_labels \X map.cells :
          /\ u[1].y = u[3].y + Cell \div 2 /\ u[2].x = u[3].x + Cell \div 2
          /\ e = [ghr |-> u[1].ghr, idx |-> u[2].idx, acc |-> u[3].acc]
    BY DEF ReadMap
  <2>2. PICK y \in map.y_labels, x \in map.x_labels, c \in map.cells :
          u[1] = y /\ u[2] = x /\ u[3] = c
    BY <2>1
  <2>3. PICK g \in 1 .. n : y = YLabel(shown, g) BY <1>7, <2>2
  <2>4. PICK i \in 1 .. m : x = XLabel(shown, i) BY <1>7, <2>2
  <2>5. PICK h \in 1 .. n, j \in 1 .. m :
          RowsOfPair(shown, ghrs[h], idxs[j]) # {} /\ c = CellAt(shown, h, j)
    BY <1>7, <2>2
  <2>6. y.y = c.y + Cell \div 2 /\ x.x = c.x + Cell \div 2 BY <2>1, <2>2
  <2>7. g = h /\ i = j BY <1>8, <2>3, <2>4, <2>5, <2>6
  <2>8. PICK k \in DOMAIN shown : shown[k].ghr = ghrs[g] /\ shown[k].idx = idxs[i]
    BY <2>5, <2>7 DEF RowsOfPair
  <2>9. y.ghr = ghrs[g] /\ x.idx = idxs[i] /\ c.acc = value_by_pair(shown, ghrs[g], idxs[i])
    BY <1>9, <2>3, <2>4, <2>5, <2>7
  <2>10. e = [ghr |-> shown[k].ghr, idx |-> shown[k].idx,
              acc |-> value_by_pair(shown, shown[k].ghr, shown[k].idx)]
    BY <2>1, <2>2, <2>8, <2>9
  <2> QED BY <1>10, <2>10
<1> QED BY <1>11, <1>12

(* The colours of the cells.                                               *)
Redder(c, d, accs) ==
  Greenness(c) <= Greenness(d)
    + (IF 100 * (d.acc - c.acc) >= Greatest(accs) - Least(accs) THEN 0 ELSE 1)

LEMMA MapColors ==
  ASSUME NEW rows \in Seq(TableRow), NEW map, map = heatmap(rows)
  PROVE  /\ \A c \in map.cells : {c.color.red, c.color.green, c.color.blue} \subseteq 0 .. 255
         /\ \A c, d \in map.cells :
              c.acc < d.acc => Redder(c, d, Values(SmallestHistory(rows), "acc"))
<1>1. PICK shown \in Seq(TableRow) : shown = SmallestHistory(rows) BY ShownRows
<1>2. PICK accs : accs = Values(shown, "acc") OBVIOUS
<1>3. IsFiniteSet(accs) /\ accs \subseteq Nat BY <1>2, FieldValues
<1>4. PICK low, top : low = Least(accs) /\ top = Greatest(accs) OBVIOUS
<1>5. IsMap(map, shown) BY <1>1, HeatmapIs
<1>6. ASSUME NEW c \in map.cells
      PROVE  /\ c.acc \in accs
             /\ c.color = heatmap_color(c.acc, low, Topmost(low, top))
  <2>1. PICK ghrs, idxs : /\ ghrs = Ascending(Values(shown, "ghr"))
                          /\ idxs = Ascending(Values(shown, "idx"))
    OBVIOUS
  <2>2. PICK g, i : RowsOfPair(shown, ghrs[g], idxs[i]) # {} /\ c = CellAt(shown, g, i)
    BY <1>5, <2>1 DEF IsMap
  <2>3. PICK value : value = value_by_pair(shown, ghrs[g], idxs[i]) OBVIOUS
  <2>4. value \in accs BY <1>2, <2>2, <2>3, PairValue
  <2>5. c.acc = value /\ c.color = heatmap_color(value, low, Topmost(low, top))
    BY <1>2, <1>4, <2>1, <2>2, <2>3 DEF CellAt
  <2> QED BY <2>4, <2>5
<1>7. ASSUME NEW v \in accs PROVE low \in Nat /\ top \in Nat /\ v \in Nat /\ low <= v /\ v <= top
  <2>1. accs # {} OBVIOUS
  <2>2. low \in accs /\ top \in accs /\ low <= v /\ v <= top
    BY <1>3, <1>4, <2>1, LeastAndGreatest
  <2> QED BY <1>3, <2>2
<1>8. ASSUME NEW c \in map.cells
      PROVE  {c.color.red, c.color.green, c.color.blue} \subseteq 0 .. 255
  <2>1. PICK v \in accs : v = c.acc BY <1>6
  <2>2. low \in Nat /\ top \in Nat /\ v \in Nat /\ low <= v /\ v <= top BY <1>7
  <2>3. c.color = heatmap_color(v, low, Topmost(low, top)) BY <1>6, <2>1
  <2>4. PICK color : color = c.color OBVIOUS
  <2>5. InPalette(color) BY <2>2, <2>3, <2>4, ColorRange
  <2> QED BY <2>4, <2>5 DEF InPalette
<1>9. ASSUME NEW c \in map.cells, NEW d \in map.cells, c.acc < d.acc
      PROVE  Redder(c, d, accs)
  <2>1. PICK v \in accs, w \in accs : v = c.acc /\ w = d.acc BY <1>6
  <2>2. /\ low \in Nat /\ top \in Nat /\ v \in Nat /\ w \in Nat
        /\ low <= v /\ w <= top /\ v < w
    BY <1>7, <1>9, <2>1
  <2>3. PICK color, other : color = c.color /\ other = d.color OBVIOUS
  <2>4. /\ color = heatmap_color(v, low, Topmost(low, top))
        /\ other = heatmap_color(w, low, Topmost(low, top))
    BY <1>6, <2>1, <2>3
  <2>5. color.green - color.red
          <= other.green - other.red + (IF 100 * (w - v) >= top - low THEN 0 ELSE 1)
    BY <2>2, <2>4, ColorOrder
  <2> QED BY <1>4, <2>1, <2>3, <2>5 DEF Redder, Greenness
<1> QED BY <1>1, <1>2, <1>8, <1>9

(* The heat map is true to its table, whatever is in the table.            *)
MapName == "ghr_on_accuracy_heatmap.svg"

THEOREM HeatmapIsTrue == ReportsSpec => []HeatmapTrue
<1>1. ReportsInv => HeatmapTrue
  <2> SUFFICES ASSUME ReportsInv PROVE HeatmapTrue OBVIOUS
  <2>1. MapName \in Names BY DEF MapName, Names, Svgs, Range
  <2>2. ASSUME NEW rows PROVE Drawing(MapName, rows) = heatmap(rows.ghr_on)
    BY DEF Drawing, MapName
  <2>3. ASSUME Together(MapName)
        PROVE  /\ matrix(read_csv(tables.ghr_on)) = ReadMap(figures[MapName].shows)
               /\ \A c, d \in figures[MapName].shows.cells :
                    c.acc < d.acc =>
                      Redder(c, d, Values(SmallestHistory(read_csv(tables.ghr_on)), "acc"))
    <3>1. PICK tabs \in AllTables : tables = tabs BY DEF ReportsInv, ReportsTypeOK
    <3>2. figures[MapName].shows = Drawing(MapName, RowsOf(tabs))
      BY <2>1, <2>3, <3>1 DEF Together, ReportsInv, FiguresInv
    <3>3. PICK rows \in Seq(TableRow) :
            rows = RowsOf(tabs).ghr_on /\ rows = read_csv(tables.ghr_on)
      BY <3>1, RowsRead DEF Strategies
    <3>4. PICK map : map = figures[MapName].shows OBVIOUS
    <3>5. map = heatmap(rows) BY <2>2, <3>2, <3>3, <3>4
    <3> QED BY <3>3, <3>4, <3>5, MapReads, MapColors
  <2>4. ASSUME figures[MapName].round # 0, NEW c \in figures[MapName].shows.cells
        PROVE  {c.color.red, c.color.green, c.color.blue} \subseteq 0 .. 255
    <3>1. PICK tabs \in AllTables : figures[MapName].shows = Drawing(MapName, RowsOf(tabs))
      BY <2>1, <2>4 DEF ReportsInv, FiguresInv
    <3>2. PICK rows \in Seq(TableRow) : rows = RowsOf(tabs).ghr_on BY RowsRead DEF Strategies
    <3>3. PICK map : map = figures[MapName].shows OBVIOUS
    <3>4. map = heatmap(rows) BY <2>2, <3>1, <3>2, <3>3
    <3> QED BY <2>4, <3>3, <3>4, MapColors
  <2> QED BY <2>3, <2>4, Zenon DEF HeatmapTrue, ReadMap, Redder, MapName
<1> QED BY <1>1, ReportsInductive, PTL
=============================================================================
