----------------------------- MODULE BootProofs -----------------------------
(***************************************************************************)
(* Theorems about Boot and Fdt, for all options, firmware, kernels and ELF *)
(* files.  The device tree: the calls of riscv_build_fdt close what they   *)
(* open; each call appends words that stand for it, and those stay; what   *)
(* fdt_output lays out is read back as the calls.  The boot: the regions   *)
(* of memory in the order in which they were written, which are apart, and *)
(* the ROMs, instruction by instruction.  The references of the tree: the  *)
(* place of every call, the nodes they are of, and their values.           *)
(***************************************************************************)
EXTENDS Boot, WellFoundedInduction, FiniteSetTheorems, TLAPS

-----------------------------------------------------------------------------
(* Induction and recursion.                                                *)

\* Induction, from the least number outside T.
LEMMA Inductive ==
    ASSUME NEW T, 0 \in T, \A k \in Nat : k \in T => k + 1 \in T
    PROVE  \A k \in Nat : k \in T
<1>. DEFINE less == {ss \in Nat \X Nat : ss[1] < ss[2]}
            Out == Nat \ T
<1>1. IsWellFoundedOn(less, Nat)
  <2>1. less = OpToRel(<, Nat)
    BY Zenon DEF OpToRel
  <2>. QED BY <2>1, NatLessThanWellFounded, Zenon
<1>2. SUFFICES ASSUME Out # {} PROVE FALSE
  OBVIOUS
<1>3. PICK m \in Out : \A k \in Out : <<k, m>> \notin less
  <2>1. Out \subseteq Nat
    OBVIOUS
  <2>. HIDE DEF less, Out
  <2>. QED BY <1>1, <1>2, <2>1, WFMin, Zenon
<1>4. m \in Nat /\ m # 0 /\ m - 1 \in Nat /\ m - 1 + 1 = m
  <2>1. m \in Nat /\ m \notin T
    OBVIOUS
  <2>. QED BY <2>1
<1>5. m - 1 \notin T
  BY <1>4
<1>6. <<m - 1, m>> \in less
  BY <1>4
<1>. QED BY <1>3, <1>4, <1>5, <1>6

\* A recursive function of the numbers up to m exists when its steps stay in S.
StaysIn(S, m, step) == \A v \in S, k \in 1 .. m : step[<<v, k>>] \in S
Recursive(g, S, m, a, step) ==
    g \in [0 .. m -> S] /\ g[0] = a /\ \A k \in 1 .. m : g[k] = step[<<g[k - 1], k>>]

\* Such a function exists: its first values are those of a sequence of values.
LEMMA Recursion ==
    ASSUME NEW m \in Nat, NEW S, NEW a \in S, NEW step, StaysIn(S, m, step)
    PROVE  \E g : Recursive(g, S, m, a, step)
<1>. DEFINE Good(g, j) == /\ g \in [0 .. j -> S] /\ g[0] = a
                          /\ \A k \in 1 .. j : g[k] = step[<<g[k - 1], k>>]
            T == {j \in Nat : j <= m => \E g : Good(g, j)}
<1>1. 0 \in T
  <2>1. Good([k \in 0 .. 0 |-> a], 0)
    OBVIOUS
  <2>. HIDE DEF Good
  <2>. QED BY <2>1
<1>2. ASSUME NEW j \in Nat, j \in T PROVE j + 1 \in T
  <2>1. CASE ~(j + 1 <= m)
    BY <2>1
  <2>2. CASE j + 1 <= m
    <3>1. PICK g : Good(g, j)
      <4>. HIDE DEF Good
      <4>. QED BY <1>2, <2>2
    <3>. DEFINE last == step[<<g[j], j + 1>>]
                h == [k \in 0 .. j + 1 |-> IF k = j + 1 THEN last ELSE g[k]]
    <3>2. last \in S
      <4>1. g[j] \in S /\ j + 1 \in 1 .. m
        BY <3>1, <2>2
      <4>. QED BY <4>1 DEF StaysIn
    <3>3. h \in [0 .. j + 1 -> S]
      BY <3>1, <3>2
    <3>4. h[0] = a
      BY <3>1
    <3>5. ASSUME NEW k \in 1 .. j + 1 PROVE h[k] = step[<<h[k - 1], k>>]
      <4>1. h[k - 1] = g[k - 1]
        OBVIOUS
      <4>2. CASE k = j + 1
        <5>1. h[k] = last /\ k - 1 = j
          BY <4>2
        <5>. QED BY <4>1, <4>2, <5>1
      <4>3. CASE k # j + 1
        <5>1. k \in 1 .. j /\ h[k] = g[k]
          BY <4>3
        <5>. HIDE DEF h
        <5>. QED BY <4>1, <3>1, <5>1
      <4>. QED BY <4>2, <4>3
    <3>6. Good(h, j + 1)
      <4>. HIDE DEF h
      <4>. QED BY <3>3, <3>4, <3>5
    <3>. HIDE DEF Good, h
    <3>. QED BY <3>6
  <2>. QED BY <2>1, <2>2
<1>3. m \in T
  <2>. HIDE DEF T
  <2>. QED BY <1>1, <1>2, Inductive
<1>4. \E g : Good(g, m)
  BY <1>3
<1>. QED BY <1>4 DEF Recursive

\* A set of numbers that is not empty has a least.
LEMMA LeastIn ==
    ASSUME NEW X, X \subseteq Nat, X # {}
    PROVE  \E x \in X : \A y \in X : x <= y
<1>. DEFINE T == {k \in Nat : \A j \in 0 .. k : j \notin X}
<1>. SUFFICES ASSUME ~\E x \in X : \A y \in X : x <= y PROVE FALSE
  OBVIOUS
<1>1. 0 \in T
  <2>1. 0 \notin X
    OBVIOUS
  <2>. QED BY <2>1
<1>2. ASSUME NEW k \in Nat, k \in T PROVE k + 1 \in T
  <2>1. \A y \in X : y >= k + 1
    BY <1>2
  <2>2. k + 1 \notin X
    BY <2>1
  <2>. QED BY <1>2, <2>2
<1>3. \A k \in Nat : k \in T
  <2>. HIDE DEF T
  <2>. QED BY <1>1, <1>2, Inductive
<1>4. PICK x \in X : TRUE
  OBVIOUS
<1>5. x \in Nat /\ x \in T /\ x \in 0 .. x
  BY <1>3
<1>. QED BY <1>5

-----------------------------------------------------------------------------
(* Strings one after the other.                                            *)

\* the provers know nothing of a string but its length
Lengths(S) == \A x \in S : strlen(x) \in Nat

\* what Ends is, computed
LEMMA EndsStep ==
    ASSUME NEW S, Lengths(S), NEW t \in Seq(S)
    PROVE  /\ Ends(t) \in [0 .. Len(t) -> Nat] /\ Ends(t)[0] = 0
           /\ \A k \in 1 .. Len(t) : Ends(t)[k] = Ends(t)[k - 1] + strlen(t[k]) + 1
<1>. DEFINE m == Len(t)
            step == [x \in Nat \X (1 .. m) |-> x[1] + strlen(t[x[2]]) + 1]
            Body(g) == [k \in 0 .. m |-> IF k = 0 THEN 0 ELSE g[k - 1] + strlen(t[k]) + 1]
<1>1. m \in Nat /\ \A k \in 1 .. m : t[k] \in S /\ strlen(t[k]) \in Nat
  BY DEF Lengths
<1>2. \A v \in Nat, k \in 1 .. m : step[<<v, k>>] = v + strlen(t[k]) + 1
  OBVIOUS
<1>. HIDE DEF step, m
<1>3. ASSUME NEW v \in Nat, NEW k \in 1 .. m PROVE step[<<v, k>>] \in Nat
  <2>1. step[<<v, k>>] = v + strlen(t[k]) + 1
    BY <1>2
  <2>2. strlen(t[k]) \in Nat
    BY <1>1
  <2>. QED BY <2>1, <2>2
<1>4. PICK g : Recursive(g, Nat, m, 0, step)
  <2>1. 0 \in Nat /\ m \in Nat
    BY <1>1
  <2>2. StaysIn(Nat, m, step)
    BY <1>3 DEF StaysIn
  <2>. QED BY <2>1, <2>2, Recursion, Zenon
<1>5. g = Body(g)
  <2>1. ASSUME NEW k \in 0 .. m PROVE g[k] = Body(g)[k]
    <3>1. CASE k = 0
      BY <3>1, <1>4 DEF Recursive
    <3>2. CASE k # 0
      <4>1. k \in 1 .. m /\ k - 1 \in 0 .. m
        BY <3>2, <1>1
      <4>2. g[k - 1] \in Nat
        BY <4>1, <1>4 DEF Recursive
      <4>3. g[k] = g[k - 1] + strlen(t[k]) + 1
        BY <4>1, <4>2, <1>2, <1>4 DEF Recursive
      <4>. QED BY <4>1, <4>3
    <3>. QED BY <3>1, <3>2
  <2>. QED BY <1>4, <2>1 DEF Recursive
<1>6. Ends(t) = Body(Ends(t))
  <2>1. Ends(t) = CHOOSE h : h = Body(h)
    BY DEF Ends, m
  <2>. HIDE DEF Body
  <2>. QED BY <1>5, <2>1, Zenon
<1>. DEFINE e == Ends(t)
<1>7. /\ DOMAIN e = 0 .. m /\ e[0] = 0
      /\ \A k \in 1 .. m : k \in 0 .. m /\ k # 0 /\ e[k] = e[k - 1] + strlen(t[k]) + 1
  <2>. HIDE DEF e, m
  <2>1. e = Body(e)
    BY <1>6 DEF e
  <2>. QED BY <2>1, <1>1
<1>. DEFINE T == {k \in Nat : k \in 0 .. m => e[k] \in Nat}
<1>. HIDE DEF e, m
<1>8. 0 \in T
  BY <1>7, <1>1
<1>9. \A k \in Nat : k \in T => k + 1 \in T
  <2>. SUFFICES ASSUME NEW k \in Nat, k \in T, k + 1 \in 0 .. m PROVE e[k + 1] \in Nat
    OBVIOUS
  <2>1. k \in 0 .. m /\ k + 1 \in 1 .. m /\ k + 1 - 1 = k
    BY <1>1
  <2>. QED BY <2>1, <1>1, <1>7
<1>10. \A k \in 0 .. m : e[k] \in Nat
  <2>1. \A k \in Nat : k \in T
    <3>. HIDE DEF T
    <3>. QED BY <1>8, <1>9, Inductive
  <2>. QED BY <2>1, <1>1
<1>11. e \in [0 .. m -> Nat]
  <2>1. e = [k \in 0 .. m |-> e[k]]
    <3>1. e = Body(e)
      BY <1>6 DEF e
    <3>. QED BY <3>1
  <2>. QED BY <2>1, <1>10
<1>. QED BY <1>7, <1>11 DEF e, m

\* The strings at the front of a longer table end where they did, and each
\* ends beyond the ones before it.
LEMMA EndsAppend ==
    ASSUME NEW S, Lengths(S), NEW t \in Seq(S), NEW x \in S
    PROVE  /\ \A k \in 0 .. Len(t) : Ends(Append(t, x))[k] = Ends(t)[k]
           /\ Bytes(Append(t, x)) = Bytes(t) + strlen(x) + 1
<1>. DEFINE u == Append(t, x)
            e == Ends(t)
            f == Ends(u)
            m == Len(t)
            T == {k \in Nat : k \in 0 .. m => f[k] = e[k]}
<1>1. /\ m \in Nat /\ u \in Seq(S) /\ Len(u) = m + 1 /\ u[m + 1] = x
      /\ \A k \in 1 .. m : u[k] = t[k]
  OBVIOUS
<1>. HIDE DEF u
<1>2. /\ e \in [0 .. m -> Nat] /\ e[0] = 0
      /\ \A k \in 1 .. m : e[k] = e[k - 1] + strlen(t[k]) + 1
  BY EndsStep
<1>3. /\ f \in [0 .. m + 1 -> Nat] /\ f[0] = 0
      /\ \A k \in 1 .. m + 1 : f[k] = f[k - 1] + strlen(u[k]) + 1
  <2>1. /\ f \in [0 .. Len(u) -> Nat] /\ f[0] = 0
        /\ \A k \in 1 .. Len(u) : f[k] = f[k - 1] + strlen(u[k]) + 1
    BY <1>1, EndsStep, Zenon
  <2>. HIDE DEF f, m
  <2>. QED BY <1>1, <2>1
<1>. HIDE DEF e, f, m
<1>4. 0 \in T
  BY <1>2, <1>3
<1>5. ASSUME NEW k \in Nat, k \in T PROVE k + 1 \in T
  <2>. SUFFICES ASSUME k + 1 \in 0 .. m PROVE f[k + 1] = e[k + 1]
    OBVIOUS
  <2>1. k \in 0 .. m /\ k + 1 \in 1 .. m /\ k + 1 \in 1 .. m + 1 /\ k + 1 - 1 = k
    BY <1>1
  <2>2. f[k + 1] = f[k] + strlen(u[k + 1]) + 1 /\ e[k + 1] = e[k] + strlen(t[k + 1]) + 1
    BY <2>1, <1>2, <1>3
  <2>3. f[k] = e[k] /\ u[k + 1] = t[k + 1]
    BY <2>1, <1>1, <1>5
  <2>. QED BY <2>2, <2>3
<1>6. \A k \in 0 .. m : f[k] = e[k]
  <2>1. \A k \in Nat : k \in T
    <3>. HIDE DEF T
    <3>. QED BY <1>4, <1>5, Inductive
  <2>. QED BY <2>1, <1>1
<1>7. f[m + 1] = e[m] + strlen(x) + 1
  <2>1. m + 1 \in 1 .. m + 1 /\ m + 1 - 1 = m /\ m \in 0 .. m
    BY <1>1
  <2>. QED BY <2>1, <1>1, <1>3, <1>6
<1>8. Bytes(u) = f[m + 1] /\ Bytes(t) = e[m]
  BY <1>1 DEF Bytes, f, e, m
<1>. QED BY <1>6, <1>7, <1>8 DEF u, e, f, m

\* Later strings end beyond earlier ones.
LEMMA EndsGrow ==
    ASSUME NEW S, Lengths(S), NEW t \in Seq(S), NEW j \in 0 .. Len(t)
    PROVE  \A k \in j + 1 .. Len(t) : Ends(t)[j] < Ends(t)[k]
<1>. DEFINE e == Ends(t)
            m == Len(t)
            T == {k \in Nat : k \in j + 1 .. m => e[j] < e[k]}
<1>1. /\ m \in Nat /\ e \in [0 .. m -> Nat]
      /\ \A k \in 1 .. m : e[k] = e[k - 1] + strlen(t[k]) + 1 /\ strlen(t[k]) \in Nat
  BY EndsStep DEF Lengths
<1>. HIDE DEF e
<1>2. 0 \in T
  OBVIOUS
<1>3. ASSUME NEW k \in Nat, k \in T PROVE k + 1 \in T
  <2>. SUFFICES ASSUME k + 1 \in j + 1 .. m PROVE e[j] < e[k + 1]
    OBVIOUS
  <2>1. k + 1 \in 1 .. m /\ k \in 0 .. m /\ k + 1 - 1 = k /\ j \in 0 .. m
    BY <1>1
  <2>2. e[k + 1] = e[k] + strlen(t[k + 1]) + 1 /\ strlen(t[k + 1]) \in Nat
    BY <2>1, <1>1
  <2>3. e[k] \in Nat /\ e[j] \in Nat
    BY <2>1, <1>1
  <2>4. j = k \/ e[j] < e[k]
    BY <1>3, <2>1
  <2>. QED BY <2>2, <2>3, <2>4
<1>4. \A k \in Nat : k \in T
  <2>. HIDE DEF T
  <2>. QED BY <1>2, <1>3, Inductive
<1>. QED BY <1>4, <1>1 DEF e

\* Bytes is the last of the ends.
LEMMA BytesType ==
    ASSUME NEW S, Lengths(S), NEW t \in Seq(S)
    PROVE  /\ Bytes(t) \in Nat /\ Bytes(t) = Ends(t)[Len(t)]
           /\ Bytes(t) = 0 <=> t = << >>
<1>1. /\ Ends(t) \in [0 .. Len(t) -> Nat] /\ Ends(t)[0] = 0 /\ Len(t) \in Nat
      /\ \A k \in 1 .. Len(t) : Ends(t)[k] = Ends(t)[k - 1] + strlen(t[k]) + 1 /\ strlen(t[k]) \in Nat
  BY EndsStep DEF Lengths
<1>2. Bytes(t) = Ends(t)[Len(t)]
  BY DEF Bytes
<1>3. t = << >> => Len(t) = 0
  OBVIOUS
<1>4. t # << >> => Len(t) \in 1 .. Len(t) /\ Len(t) - 1 \in 0 .. Len(t)
  OBVIOUS
<1>. HIDE DEF Bytes
<1>5. t # << >> => Bytes(t) > 0
  <2>. SUFFICES ASSUME t # << >> PROVE Bytes(t) > 0
    OBVIOUS
  <2>. DEFINE m == Len(t)
              e == Ends(t)
  <2>1. m \in 1 .. m /\ m - 1 \in 0 .. m
    BY <1>4
  <2>2. e[m] = e[m - 1] + strlen(t[m]) + 1 /\ strlen(t[m]) \in Nat
    BY <1>1, <2>1
  <2>3. e[m - 1] \in Nat
    BY <1>1, <2>1
  <2>. HIDE DEF m, e
  <2>4. e[m] > 0
    BY <2>2, <2>3
  <2>. QED BY <2>4, <1>2 DEF m, e
<1>. QED BY <1>1, <1>2, <1>3, <1>5

\* A string takes its length and the zero after it.
LEMMA BytesOne ==
    ASSUME NEW x, strlen(x) \in Nat
    PROVE  Bytes(<<x>>) = strlen(x) + 1
<1>1. Lengths({x}) /\ << >> \in Seq({x}) /\ Append(<< >>, x) = <<x>>
  BY DEF Lengths
<1>2. Bytes(Append(<< >>, x)) = Bytes(<< >>) + strlen(x) + 1 /\ Bytes(<< >>) = 0
  BY <1>1, EndsAppend, BytesType
<1>. QED BY <1>1, <1>2

-----------------------------------------------------------------------------
(* The writer.                                                             *)

\* the calls of any script, their strings and their numbers
Calls == UNION {ToSet(riscv_build_fdt(o)) : o \in Options}
Text == {c.name : c \in Calls} \cup UNION {ToSet(c.value) : c \in {d \in Calls : d.op = "str"}}
Numbers == Nat \cup UNION {ToSet(c.value) : c \in {d \in Calls : d.op = "u32"}}

\* a call with the parts that the functions of the builder take
Typed(c) ==
    /\ c.op \in {"begin", "end", "str", "u32"} /\ c.name \in Text
    /\ c.op = "begin" => c = Begin(c.name)
    /\ c.op = "end" => c = End
    /\ c.op = "str" => c = Str(c.name, c.value) /\ c.value \in Seq(Text)
    /\ c.op = "u32" => c = U32(c.name, c.value) /\ c.value \in Seq(Numbers) /\ Len(c.value) > 0

\* the words of the structure block, and the states of the builder
Cells == [be : Numbers] \cup [of : Seq(Text), word : Nat]
States == [tab : Seq(Cells), tab_size : Nat, open_node_count : Int,
           string_table : Seq(Text), string_table_size : Nat]

\* the tables are no longer than what was allocated
Allocated(f) == Len(f.tab) <= f.tab_size /\ Bytes(f.string_table) <= f.string_table_size

\* the words of the structure block that stand for a call
Data(strings) == [k \in 1 .. Align(Bytes(strings), 4) \div 4 |-> [of |-> strings, word |-> k]]
Big(v) == [be |-> v]
\* the head of a property, and the words that a call appends
PropHead(len, off) == <<Big(FDT_PROP), Big(len), Big(off)>>
CallWords(c, off) ==
    CASE c.op = "begin" -> <<Big(FDT_BEGIN_NODE)>> \o Data(<<c.name>>)
      [] c.op = "end" -> <<Big(FDT_END_NODE)>>
      [] c.op = "str" -> PropHead(Bytes(c.value), off) \o Data(c.value)
      [] c.op = "u32" -> PropHead(4 * Len(c.value), off)
                             \o [k \in 1 .. Len(c.value) |-> Big(c.value[k])]

\* off is where name is in the table
OffsetOf(t, name, off) == \E j \in 1 .. Len(t) : t[j] = name /\ off = Ends(t)[j - 1]

\* what a call makes of the state
Did(f, g, c) ==
    /\ g \in States /\ Allocated(g)
    /\ g.string_table = f.string_table \/ g.string_table = Append(f.string_table, c.name)
    /\ \E off \in Nat :
          /\ c.op \in {"str", "u32"} => OffsetOf(g.string_table, c.name, off)
          /\ g.tab = f.tab \o CallWords(c, off)
    /\ 4 * Len(g.tab) + Bytes(g.string_table)
          <= 4 * Len(f.tab) + Bytes(f.string_table) + CallBytes(c)
    /\ g.open_node_count = f.open_node_count + (CASE c.op = "begin" -> 1 [] c.op = "end" -> -1 [] OTHER -> 0)

\* The strings of the scripts have lengths (OptionsAssumption).
LEMMA TextLengths == Lengths(Text)
<1>. SUFFICES ASSUME NEW x \in Text PROVE strlen(x) \in Nat
  BY DEF Lengths
<1>1. CASE \E c \in Calls : x = c.name
  BY <1>1, OptionsAssumption DEF Calls
<1>2. CASE \E c \in Calls : c.op = "str" /\ x \in ToSet(c.value)
  <2>1. PICK c \in Calls : c.op = "str" /\ x \in ToSet(c.value)
    BY <1>2
  <2>2. PICK j \in DOMAIN c.value : x = c.value[j]
    BY <2>1 DEF ToSet
  <2>. QED BY <2>1, <2>2, OptionsAssumption DEF Calls
<1>. QED BY <1>1, <1>2 DEF Text

\* Align rounds up to words.
LEMMA Aligned ==
    ASSUME NEW x \in Nat
    PROVE  /\ Align(x, 4) \in Nat /\ Align(x, 4) \div 4 \in Nat
           /\ 4 * (Align(x, 4) \div 4) = Align(x, 4)
           /\ x <= Align(x, 4) /\ Align(x, 4) < x + 4
           /\ Align(x, 4) = 4 * ((x + 3) \div 4)
  BY DEF Align

\* Align rounds up to doublewords.
LEMMA Aligned8 ==
    ASSUME NEW x \in Nat
    PROVE  Align(x, 8) \in Nat /\ x <= Align(x, 8) /\ Align(x, 8) < x + 8
  BY DEF Align

\* What is allocated is enough for what was asked for.
LEMMA GrownIsEnough ==
    ASSUME NEW size \in Nat, NEW len \in Nat
    PROVE  Grown(size, len) \in Nat /\ len <= Grown(size, len)
<1>. DEFINE half == (size * 3) \div 2
            m == Max({len, half})
<1>1. half \in Nat
  OBVIOUS
<1>. HIDE DEF half
<1>2. m \in {len, half} /\ m >= len
  <2>1. \E x \in {len, half} : \A y \in {len, half} : x >= y
    BY <1>1
  <2>. QED BY <2>1 DEF Max
<1>. QED BY <1>1, <1>2 DEF Grown, half

\* Strings take as many words as hold their bytes.
LEMMA DataType ==
    ASSUME NEW v \in Seq(Text)
    PROVE  /\ Data(v) \in Seq(Cells) /\ Bytes(v) \in Nat
           /\ Len(Data(v)) = Align(Bytes(v), 4) \div 4 /\ Len(Data(v)) \in Nat
           /\ 4 * Len(Data(v)) < Bytes(v) + 4
           /\ \A k \in 1 .. Len(Data(v)) : Data(v)[k] = [of |-> v, word |-> k]
<1>1. Bytes(v) \in Nat
  BY TextLengths, BytesType
<1>. DEFINE m == Align(Bytes(v), 4) \div 4
<1>2. m \in Nat /\ 4 * m < Bytes(v) + 4
  BY <1>1, Aligned
<1>3. \A k \in 1 .. m : [of |-> v, word |-> k] \in Cells
  BY <1>2 DEF Cells
<1>4. Data(v) = [k \in 1 .. m |-> [of |-> v, word |-> k]]
  BY DEF Data
<1>. HIDE DEF m
<1>5. Data(v) \in Seq(Cells) /\ Len(Data(v)) = m
  BY <1>2, <1>3, <1>4
<1>. QED BY <1>1, <1>2, <1>4, <1>5 DEF m

\* Put appends words and nothing else.
LEMMA PutAppends ==
    ASSUME NEW f \in States, Allocated(f), NEW words \in Seq(Cells)
    PROVE  LET g == Put(f, words)
           IN  /\ g \in States /\ Allocated(g)
               /\ g.tab = f.tab \o words /\ Len(g.tab) = Len(f.tab) + Len(words)
               /\ g.string_table = f.string_table /\ g.open_node_count = f.open_node_count
<1>. DEFINE g == Put(f, words)
            tab == f.tab \o words
            size == Grown(f.tab_size, Len(f.tab) + Len(words))
<1>1. f.tab \in Seq(Cells) /\ f.tab_size \in Nat
  BY DEF States
<1>2. tab \in Seq(Cells) /\ Len(tab) = Len(f.tab) + Len(words) /\ Len(tab) \in Nat
  BY <1>1
<1>3. size \in Nat /\ Len(tab) <= size
  <2>1. Len(f.tab) + Len(words) \in Nat
    BY <1>1
  <2>. QED BY <1>1, <1>2, <2>1, GrownIsEnough
<1>4. g = [f EXCEPT !.tab = tab, !.tab_size = size]
  BY DEF Put
<1>. HIDE DEF tab, size, g
<1>5. /\ g.tab = tab /\ g.tab_size = size /\ g.string_table = f.string_table
      /\ g.open_node_count = f.open_node_count /\ g.string_table_size = f.string_table_size
      /\ g \in States
  BY <1>2, <1>3, <1>4 DEF States
<1>6. Allocated(g)
  BY <1>3, <1>5 DEF Allocated
<1>. QED BY <1>2, <1>5, <1>6 DEF g, tab

\* A number is a word.
LEMMA BigIsCell ==
    ASSUME NEW v \in Numbers
    PROVE  Big(v) \in Cells /\ <<Big(v)>> \in Seq(Cells) /\ Len(<<Big(v)>>) = 1
  BY DEF Big, Cells

\* fdt_put32 appends the number and nothing else.
LEMMA Put32Appends ==
    ASSUME NEW f \in States, Allocated(f), NEW v \in Numbers
    PROVE  LET g == fdt_put32(f, v)
           IN  /\ g \in States /\ Allocated(g)
               /\ g.tab = f.tab \o <<Big(v)>> /\ Len(g.tab) = Len(f.tab) + 1
               /\ g.string_table = f.string_table /\ g.open_node_count = f.open_node_count
<1>1. fdt_put32(f, v) = Put(f, <<Big(v)>>)
  BY DEF fdt_put32, Big
<1>. QED BY <1>1, BigIsCell, PutAppends

\* A name that is interned is found at the offset that was asked for before.
LEMMA InternedFound ==
    ASSUME NEW f \in States, Allocated(f), NEW name \in Text
    PROVE  LET g == Interned(f, name)
           IN  /\ g \in States /\ Allocated(g)
               /\ g.tab = f.tab /\ g.open_node_count = f.open_node_count
               /\ g.string_table = f.string_table \/ g.string_table = Append(f.string_table, name)
               /\ Bytes(g.string_table) <= Bytes(f.string_table) + strlen(name) + 1
               /\ fdt_get_string_offset(f, name) \in Nat
               /\ OffsetOf(g.string_table, name, fdt_get_string_offset(f, name))
<1>. DEFINE t == f.string_table
            u == Append(t, name)
            off == fdt_get_string_offset(f, name)
            g == Interned(f, name)
<1>1. t \in Seq(Text) /\ Len(t) \in Nat /\ f.string_table_size \in Nat
  BY DEF States
<1>2. strlen(name) \in Nat
  BY TextLengths DEF Lengths
<1>3. Bytes(t) \in Nat /\ Bytes(t) = Ends(t)[Len(t)] /\ Ends(t) \in [0 .. Len(t) -> Nat]
  BY <1>1, TextLengths, BytesType, EndsStep
<1>4. CASE name \in ToSet(t)
  <2>. DEFINE at == {i \in DOMAIN t : t[i] = name}
              m == Min(at)
  <2>1. at # {} /\ at \subseteq Nat /\ at \subseteq 1 .. Len(t)
    BY <1>1, <1>4 DEF ToSet
  <2>2. m \in at
    <3>1. \E x \in at : \A y \in at : x <= y
      <4>. HIDE DEF at
      <4>. QED BY <2>1, LeastIn
    <3>. HIDE DEF at
    <3>. QED BY <3>1 DEF Min
  <2>3. off = Ends(t)[m - 1]
    BY <1>4 DEF fdt_get_string_offset
  <2>4. m \in 1 .. Len(t) /\ t[m] = name /\ m - 1 \in 0 .. Len(t)
    BY <2>1, <2>2, <1>1
  <2>5. g = f
    BY <1>4 DEF Interned
  <2>. HIDE DEF off, g, m, at
  <2>6. off \in Nat
    BY <2>3, <2>4, <1>3
  <2>7. OffsetOf(t, name, off)
    BY <2>3, <2>4 DEF OffsetOf
  <2>. QED BY <1>2, <1>3, <2>5, <2>6, <2>7 DEF off, g
<1>5. CASE name \notin ToSet(t)
  <2>1. off = Ends(t)[Len(t)]
    BY <1>3, <1>5 DEF fdt_get_string_offset
  <2>2. u \in Seq(Text) /\ Len(u) = Len(t) + 1 /\ u[Len(t) + 1] = name
    BY <1>1
  <2>3. Ends(u)[Len(t)] = Ends(t)[Len(t)] /\ Bytes(u) = Bytes(t) + strlen(name) + 1
    BY <1>1, TextLengths, EndsAppend
  <2>. DEFINE size == Grown(f.string_table_size, Bytes(u))
  <2>4. size \in Nat /\ Bytes(u) <= size
    <3>1. Bytes(u) \in Nat
      BY <1>2, <1>3, <2>3
    <3>. QED BY <1>1, <3>1, GrownIsEnough
  <2>5. g = [f EXCEPT !.string_table = u, !.string_table_size = size]
    BY <1>5 DEF Interned
  <2>. HIDE DEF u, size, off, g
  <2>6. /\ g.string_table = u /\ g.string_table_size = size /\ g.tab = f.tab
        /\ g.tab_size = f.tab_size /\ g.open_node_count = f.open_node_count /\ g \in States
    BY <2>2, <2>4, <2>5 DEF States
  <2>7. Allocated(g)
    BY <2>4, <2>6 DEF Allocated
  <2>8. OffsetOf(u, name, off)
    <3>1. Len(t) + 1 \in 1 .. Len(u) /\ Len(t) + 1 - 1 = Len(t)
      BY <1>1, <2>2
    <3>. QED BY <2>1, <2>2, <2>3, <3>1 DEF OffsetOf
  <2>9. off \in Nat
    BY <2>1, <1>3
  <2>10. Bytes(u) <= Bytes(t) + strlen(name) + 1
    BY <2>3, <1>2, <1>3
  <2>. QED BY <2>6, <2>7, <2>8, <2>9, <2>10 DEF u, off, g
<1>. QED BY <1>4, <1>5

\* Sequences with the same words are the same.
LEMMA SameWords ==
    ASSUME NEW x \in Seq(Cells), NEW y \in Seq(Cells), Len(x) = Len(y),
           \A k \in 1 .. Len(x) : x[k] = y[k]
    PROVE  x = y
  OBVIOUS

\* The order in which words are joined is no matter.
LEMMA Assoc ==
    ASSUME NEW a \in Seq(Cells), NEW b \in Seq(Cells), NEW c \in Seq(Cells)
    PROVE  (a \o b) \o c = a \o (b \o c)
<1>. DEFINE x == (a \o b) \o c
            y == a \o (b \o c)
<1>1. x \in Seq(Cells) /\ y \in Seq(Cells) /\ Len(x) = Len(y)
  OBVIOUS
<1>2. ASSUME NEW k \in 1 .. Len(x) PROVE x[k] = y[k]
  OBVIOUS
<1>. HIDE DEF x, y
<1>3. x = y
  BY <1>1, <1>2, SameWords
<1>. QED BY <1>3 DEF x, y

\* Three words put one by one are the three put at once.
LEMMA ThreeWords ==
    ASSUME NEW a \in Seq(Cells), NEW u \in Cells, NEW v \in Cells, NEW w \in Cells
    PROVE  ((a \o <<u>>) \o <<v>>) \o <<w>> = a \o <<u, v, w>>
<1>. DEFINE x == ((a \o <<u>>) \o <<v>>) \o <<w>>
            y == a \o <<u, v, w>>
<1>1. x \in Seq(Cells) /\ y \in Seq(Cells) /\ Len(x) = Len(y)
  OBVIOUS
<1>2. ASSUME NEW k \in 1 .. Len(x) PROVE x[k] = y[k]
  OBVIOUS
<1>. HIDE DEF x, y
<1>3. x = y
  BY <1>1, <1>2, SameWords
<1>. QED BY <1>3 DEF x, y

\* The head of a property is three words.
LEMMA HeadType ==
    ASSUME NEW len \in Nat, NEW off \in Nat
    PROVE  /\ PropHead(len, off) \in Seq(Cells) /\ Len(PropHead(len, off)) = 3
           /\ Big(FDT_PROP) \in Cells /\ Big(len) \in Cells /\ Big(off) \in Cells
<1>1. FDT_PROP \in Numbers /\ len \in Numbers /\ off \in Numbers
  BY DEF Numbers, FDT_PROP
<1>2. Big(FDT_PROP) \in Cells /\ Big(len) \in Cells /\ Big(off) \in Cells
  BY <1>1, BigIsCell
<1>. QED BY <1>2 DEF PropHead

\* The head of a property, and its name.
LEMMA PropDid ==
    ASSUME NEW f \in States, Allocated(f), NEW name \in Text, NEW len \in Nat
    PROVE  LET g == Prop(f, name, len)
           IN  /\ g \in States /\ Allocated(g)
               /\ g.open_node_count = f.open_node_count
               /\ g.string_table = f.string_table \/ g.string_table = Append(f.string_table, name)
               /\ Bytes(g.string_table) <= Bytes(f.string_table) + strlen(name) + 1
               /\ \E off \in Nat : /\ OffsetOf(g.string_table, name, off)
                                   /\ g.tab = f.tab \o PropHead(len, off)
<1>. DEFINE off == fdt_get_string_offset(f, name)
            a == fdt_put32(f, FDT_PROP)
            b == fdt_put32(a, len)
            c == fdt_put32(b, off)
            g == Interned(c, name)
<1>1. off \in Nat
  BY InternedFound
<1>2. FDT_PROP \in Numbers /\ len \in Numbers /\ off \in Numbers
  BY <1>1 DEF Numbers, FDT_PROP
<1>. HIDE DEF off
<1>3. /\ a \in States /\ Allocated(a) /\ a.tab = f.tab \o <<Big(FDT_PROP)>>
      /\ a.string_table = f.string_table /\ a.open_node_count = f.open_node_count
  BY <1>2, Put32Appends, Zenon
<1>. HIDE DEF a
<1>4. /\ b \in States /\ Allocated(b) /\ b.tab = a.tab \o <<Big(len)>>
      /\ b.string_table = a.string_table /\ b.open_node_count = a.open_node_count
  BY <1>2, <1>3, Put32Appends, Zenon
<1>. HIDE DEF b
<1>5. /\ c \in States /\ Allocated(c) /\ c.tab = b.tab \o <<Big(off)>>
      /\ c.string_table = b.string_table /\ c.open_node_count = b.open_node_count
  BY <1>2, <1>4, Put32Appends, Zenon
<1>. HIDE DEF c
<1>6. fdt_get_string_offset(c, name) = off
  BY <1>3, <1>4, <1>5, Zenon DEF fdt_get_string_offset, off
<1>7. /\ g \in States /\ Allocated(g)
      /\ g.tab = c.tab /\ g.open_node_count = c.open_node_count
      /\ g.string_table = c.string_table \/ g.string_table = Append(c.string_table, name)
      /\ Bytes(g.string_table) <= Bytes(c.string_table) + strlen(name) + 1
      /\ OffsetOf(g.string_table, name, off)
  BY <1>5, <1>6, InternedFound
<1>8. c.tab = f.tab \o PropHead(len, off)
  <2>1. f.tab \in Seq(Cells)
    BY DEF States
  <2>2. Big(FDT_PROP) \in Cells /\ Big(len) \in Cells /\ Big(off) \in Cells
    BY <1>1, HeadType
  <2>3. c.tab = ((f.tab \o <<Big(FDT_PROP)>>) \o <<Big(len)>>) \o <<Big(off)>>
    BY <1>3, <1>4, <1>5
  <2>. QED BY <2>1, <2>2, <2>3, ThreeWords, Zenon DEF PropHead
<1>9. g = Prop(f, name, len)
  BY Zenon DEF Prop, g, c, b, a, off
<1>. HIDE DEF g
<1>10. /\ g.open_node_count = f.open_node_count
       /\ g.string_table = f.string_table \/ g.string_table = Append(f.string_table, name)
       /\ Bytes(g.string_table) <= Bytes(f.string_table) + strlen(name) + 1
       /\ g.tab = f.tab \o PropHead(len, off)
  BY <1>3, <1>4, <1>5, <1>7, <1>8
<1>. QED BY <1>1, <1>7, <1>9, <1>10, Zenon

\* The words of a table of numbers, put one by one.
LEMMA TableDid ==
    ASSUME NEW f \in States, Allocated(f), NEW name \in Text,
           NEW tab \in Seq(Numbers)
    PROVE  LET g == fdt_prop_tab_u32(f, name, tab)
               h == Prop(f, name, 4 * Len(tab))
           IN  /\ g \in States /\ Allocated(g)
               /\ g.tab = h.tab \o [k \in 1 .. Len(tab) |-> Big(tab[k])]
               /\ g.string_table = h.string_table /\ g.open_node_count = h.open_node_count
<1>. DEFINE h == Prop(f, name, 4 * Len(tab))
            m == Len(tab)
            S == {g \in States : Allocated(g)}
            Words(k) == [j \in 1 .. k |-> Big(tab[j])]
            step == [x \in S \X (1 .. m) |-> fdt_put32(x[1], tab[x[2]])]
            Body(p) == [k \in 0 .. m |-> IF k = 0 THEN h ELSE fdt_put32(p[k - 1], tab[k])]
<1>1. m \in Nat /\ 4 * m \in Nat /\ \A k \in 1 .. m : tab[k] \in Numbers
  OBVIOUS
<1>2. h \in S
  BY <1>1, PropDid
<1>3. \A v \in S, k \in 1 .. m : step[<<v, k>>] = fdt_put32(v, tab[k])
  OBVIOUS
<1>. HIDE DEF h, m, step
<1>4. ASSUME NEW v \in S, NEW k \in 1 .. m PROVE step[<<v, k>>] \in S
  <2>1. v \in States /\ Allocated(v) /\ tab[k] \in Numbers
    BY <1>1
  <2>2. fdt_put32(v, tab[k]) \in S
    BY <2>1, Put32Appends
  <2>. HIDE DEF S
  <2>. QED BY <2>2, <1>3
<1>5. PICK p : Recursive(p, S, m, h, step)
  <2>. HIDE DEF S
  <2>1. StaysIn(S, m, step)
    BY <1>4 DEF StaysIn
  <2>. QED BY <1>1, <1>2, <2>1, Recursion, Zenon
<1>6. p = Body(p)
  <2>1. ASSUME NEW k \in 0 .. m PROVE p[k] = Body(p)[k]
    <3>1. CASE k = 0
      BY <3>1, <1>5 DEF Recursive
    <3>2. CASE k # 0
      <4>1. k \in 1 .. m /\ k - 1 \in 0 .. m
        BY <3>2, <1>1
      <4>2. p[k - 1] \in S
        <5>. HIDE DEF S
        <5>. QED BY <4>1, <1>5 DEF Recursive
      <4>3. p[k] = fdt_put32(p[k - 1], tab[k])
        <5>. HIDE DEF S
        <5>. QED BY <4>1, <4>2, <1>3, <1>5 DEF Recursive
      <4>. QED BY <4>1, <4>3
    <3>. QED BY <3>1, <3>2
  <2>. HIDE DEF S
  <2>2. p \in [0 .. m -> S]
    BY <1>5 DEF Recursive
  <2>. QED BY <2>1, <2>2
<1>. DEFINE q == CHOOSE r : r = Body(r)
<1>7. q = Body(q)
  <2>. HIDE DEF Body
  <2>. QED BY <1>6, Zenon
<1>8. fdt_prop_tab_u32(f, name, tab) = q[m]
  BY Zenon DEF fdt_prop_tab_u32, h, m
<1>9. q[0] = h /\ \A k \in 1 .. m : q[k] = fdt_put32(q[k - 1], tab[k])
  <2>. HIDE DEF q
  <2>. QED BY <1>7, <1>1
<1>. HIDE DEF q
<1>. DEFINE Done(k) == /\ q[k] \in States /\ Allocated(q[k])
                      /\ q[k].tab = h.tab \o Words(k)
                      /\ q[k].string_table = h.string_table
                      /\ q[k].open_node_count = h.open_node_count
            T == {k \in Nat : k \in 0 .. m => Done(k)}
<1>10. /\ \A k \in 0 .. m : Words(k) \in Seq(Cells)
       /\ \A k \in 1 .. m : Big(tab[k]) \in Cells /\ Words(k) = Words(k - 1) \o <<Big(tab[k])>>
  <2>1. \A k \in 1 .. m : Big(tab[k]) \in Cells
    BY <1>1, BigIsCell
  <2>2. ASSUME NEW k \in 0 .. m PROVE Words(k) \in Seq(Cells) /\ Len(Words(k)) = k
    BY <2>1, <1>1
  <2>3. ASSUME NEW k \in 1 .. m PROVE Words(k) = Words(k - 1) \o <<Big(tab[k])>>
    <3>1. k \in 0 .. m /\ k - 1 \in 0 .. m
      BY <1>1
    <3>. DEFINE x == Words(k - 1) \o <<Big(tab[k])>>
    <3>2. x \in Seq(Cells) /\ Len(x) = k
      <4>1. Words(k - 1) \in Seq(Cells) /\ Len(Words(k - 1)) = k - 1
        BY <2>2, <3>1
      <4>. HIDE DEF Words
      <4>. QED BY <2>1, <4>1, <1>1
    <3>3. ASSUME NEW j \in 1 .. k PROVE x[j] = Words(k)[j]
      <4>1. Words(k - 1) \in Seq(Cells) /\ Len(Words(k - 1)) = k - 1
        BY <2>2, <3>1
      <4>2. j \in 1 .. k - 1 => Words(k - 1)[j] = Big(tab[j])
        OBVIOUS
      <4>3. Words(k)[j] = Big(tab[j])
        OBVIOUS
      <4>. HIDE DEF Words
      <4>. QED BY <4>1, <4>2, <4>3, <2>1, <1>1
    <3>4. Words(k) \in Seq(Cells) /\ Len(Words(k)) = k
      BY <2>2, <3>1
    <3>. HIDE DEF x, Words
    <3>5. x = Words(k)
      BY <3>2, <3>3, <3>4, SameWords
    <3>. QED BY <3>5 DEF x
  <2>. HIDE DEF Words
  <2>. QED BY <2>1, <2>2, <2>3
<1>11. Words(0) = << >>
  OBVIOUS
<1>12. h.tab \in Seq(Cells)
  BY <1>2 DEF States
<1>. HIDE DEF Words
<1>13. 0 \in T
  <2>1. h.tab \o << >> = h.tab
    BY <1>12
  <2>. QED BY <2>1, <1>2, <1>9, <1>11
<1>14. ASSUME NEW k \in Nat, k \in T PROVE k + 1 \in T
  <2>. SUFFICES ASSUME k + 1 \in 0 .. m PROVE Done(k + 1)
    <3>. HIDE DEF Done
    <3>. QED OBVIOUS
  <2>. DEFINE a == q[k]
              b == q[k + 1]
              v == tab[k + 1]
  <2>1. k \in 0 .. m /\ k + 1 \in 1 .. m /\ k + 1 - 1 = k /\ k + 1 \in 0 .. m
    BY <1>1
  <2>2. /\ a \in States /\ Allocated(a) /\ a.tab = h.tab \o Words(k)
        /\ a.string_table = h.string_table /\ a.open_node_count = h.open_node_count
    BY <1>14, <2>1
  <2>3. b = fdt_put32(a, v) /\ v \in Numbers
    BY <1>1, <1>9, <2>1
  <2>4. Words(k) \in Seq(Cells) /\ Big(v) \in Cells /\ Words(k + 1) = Words(k) \o <<Big(v)>>
    <3>1. /\ Words(k) \in Seq(Cells) /\ Big(tab[k + 1]) \in Cells
          /\ Words(k + 1) = Words(k + 1 - 1) \o <<Big(tab[k + 1])>>
      BY <1>10, <2>1
    <3>. QED BY <2>1, <3>1
  <2>. HIDE DEF a, b, v
  <2>5. /\ b \in States /\ Allocated(b) /\ b.tab = a.tab \o <<Big(v)>>
        /\ b.string_table = a.string_table /\ b.open_node_count = a.open_node_count
    BY <2>2, <2>3, Put32Appends
  <2>6. b.tab = h.tab \o Words(k + 1)
    <3>1. <<Big(v)>> \in Seq(Cells)
      BY <2>4
    <3>2. (h.tab \o Words(k)) \o <<Big(v)>> = h.tab \o (Words(k) \o <<Big(v)>>)
      BY <1>12, <2>4, <3>1, Assoc
    <3>. QED BY <2>2, <2>4, <2>5, <3>2
  <2>. QED BY <2>2, <2>5, <2>6 DEF b
<1>15. Done(m)
  <2>1. \A k \in Nat : k \in T
    <3>. HIDE DEF T
    <3>. QED BY <1>13, <1>14, Inductive
  <2>. HIDE DEF Done
  <2>. QED BY <2>1, <1>1
<1>. QED BY <1>8, <1>15, Zenon DEF h, m, Words

\* Words joined to words.
LEMMA Joined ==
    ASSUME NEW a \in Seq(Cells), NEW b \in Seq(Cells)
    PROVE  a \o b \in Seq(Cells) /\ Len(a \o b) = Len(a) + Len(b)
  OBVIOUS

\* A node that is opened or closed.
LEMMA NodeCounted ==
    ASSUME NEW f \in States, Allocated(f), NEW d \in Int
    PROVE  LET g == [f EXCEPT !.open_node_count = f.open_node_count + d]
           IN  /\ g \in States /\ Allocated(g) /\ g.tab = f.tab
               /\ g.string_table = f.string_table /\ g.open_node_count = f.open_node_count + d
<1>. DEFINE v == f.open_node_count + d
            g == [f EXCEPT !.open_node_count = v]
<1>1. v \in Int
  BY DEF States
<1>. HIDE DEF v
<1>2. /\ g \in States /\ g.tab = f.tab /\ g.tab_size = f.tab_size
      /\ g.string_table = f.string_table /\ g.string_table_size = f.string_table_size
      /\ g.open_node_count = v
  BY <1>1 DEF States
<1>. HIDE DEF g
<1>3. Allocated(g)
  BY <1>2 DEF Allocated
<1>. QED BY <1>2, <1>3 DEF g, v

\* The calls, one by one.
LEMMA NoBytes == << >> \in Seq(Text) /\ Bytes(<< >>) = 0
<1>1. << >> \in Seq(Text)
  OBVIOUS
<1>. QED BY <1>1, TextLengths, BytesType

\* The parts of a call that its words are made of.
LEMMA CallLengths ==
    ASSUME NEW c, Typed(c)
    PROVE  /\ strlen(c.name) \in Nat
           /\ c.op = "begin" => c.value = << >> /\ <<c.name>> \in Seq(Text)
                                /\ Bytes(<<c.name>>) = strlen(c.name) + 1
           /\ c.op = "end" => c.value = << >>
<1>1. c.name \in Text /\ strlen(c.name) \in Nat
  BY TextLengths DEF Typed, Lengths
<1>2. c.op = "begin" => c.value = << >>
  BY DEF Typed, Begin
<1>3. c.op = "end" => c.value = << >>
  <2>1. c.op = "end" => c = End
    BY DEF Typed
  <2>2. End.value = << >>
    BY DEF End
  <2>. QED BY <2>1, <2>2
<1>4. <<c.name>> \in Seq(Text)
  BY <1>1
<1>. QED BY <1>1, <1>2, <1>3, <1>4, BytesOne

\* fdt_begin_node appends the words of its call.
LEMMA BeginDid ==
    ASSUME NEW f \in States, Allocated(f), NEW c, Typed(c), c.op = "begin"
    PROVE  Did(f, fdt_begin_node(f, c.name), c)
<1>. DEFINE a == fdt_put32(f, FDT_BEGIN_NODE)
            b == fdt_put_data(a, <<c.name>>)
            g == fdt_begin_node(f, c.name)
            d == Data(<<c.name>>)
            w == <<Big(FDT_BEGIN_NODE)>>
<1>1. /\ strlen(c.name) \in Nat /\ c.value = << >> /\ <<c.name>> \in Seq(Text)
      /\ Bytes(<<c.name>>) = strlen(c.name) + 1 /\ Bytes(<< >>) = 0
  BY CallLengths, NoBytes
<1>2. d \in Seq(Cells) /\ Len(d) \in Nat /\ 4 * Len(d) < Bytes(<<c.name>>) + 4
  BY <1>1, DataType, Zenon
<1>3. FDT_BEGIN_NODE \in Numbers
  BY DEF Numbers, FDT_BEGIN_NODE
<1>4. w \in Seq(Cells)
  BY <1>3, BigIsCell
<1>5. b = Put(a, d)
  BY DEF fdt_put_data, Data
<1>. HIDE DEF d, w
<1>6. /\ a \in States /\ Allocated(a) /\ a.tab = f.tab \o w /\ Len(a.tab) = Len(f.tab) + 1
      /\ a.string_table = f.string_table /\ a.open_node_count = f.open_node_count
  BY <1>3, Put32Appends DEF w
<1>. HIDE DEF a, b
<1>7. /\ b \in States /\ Allocated(b) /\ b.tab = a.tab \o d /\ Len(b.tab) = Len(a.tab) + Len(d)
      /\ b.string_table = a.string_table /\ b.open_node_count = a.open_node_count
  BY <1>2, <1>5, <1>6, PutAppends
<1>8. g = [b EXCEPT !.open_node_count = b.open_node_count + 1]
  BY Zenon DEF fdt_begin_node, a, b
<1>. HIDE DEF g
<1>9. /\ g \in States /\ Allocated(g) /\ g.tab = b.tab
      /\ g.string_table = b.string_table /\ g.open_node_count = b.open_node_count + 1
  <2>1. 1 \in Int
    OBVIOUS
  <2>. QED BY <1>7, <1>8, <2>1, NodeCounted, Zenon
<1>11. f.tab \in Seq(Cells) /\ Len(f.tab) \in Nat
  BY DEF States
<1>12. g.tab = f.tab \o (w \o d)
  <2>1. (f.tab \o w) \o d = f.tab \o (w \o d)
    BY <1>2, <1>4, <1>11, Assoc
  <2>. QED BY <2>1, <1>6, <1>7, <1>9
<1>13. CallWords(c, 0) = w \o d
  BY DEF CallWords, w, d
<1>14. CallBytes(c) = 16 + strlen(c.name)
  BY <1>1 DEF CallBytes
<1>15. Bytes(f.string_table) \in Nat
  BY TextLengths, BytesType DEF States
<1>16. 4 * Len(g.tab) + Bytes(g.string_table)
          <= 4 * Len(f.tab) + Bytes(f.string_table) + CallBytes(c)
  <2>1. Len(g.tab) = Len(f.tab) + 1 + Len(d) /\ Bytes(g.string_table) = Bytes(f.string_table)
    BY <1>6, <1>7, <1>9
  <2>. QED BY <2>1, <1>1, <1>2, <1>11, <1>14, <1>15
<1>17. g.string_table = f.string_table /\ g.open_node_count = f.open_node_count + 1
  BY <1>6, <1>7, <1>9
<1>18. \E off \in Nat :
          /\ c.op \in {"str", "u32"} => OffsetOf(g.string_table, c.name, off)
          /\ g.tab = f.tab \o CallWords(c, off)
  BY <1>12, <1>13
<1>. QED BY <1>9, <1>16, <1>17, <1>18 DEF Did, g

\* fdt_end_node appends the word of its call.
LEMMA EndDid ==
    ASSUME NEW f \in States, Allocated(f), NEW c, Typed(c), c.op = "end"
    PROVE  Did(f, fdt_end_node(f), c)
<1>. DEFINE a == fdt_put32(f, FDT_END_NODE)
            g == fdt_end_node(f)
            w == <<Big(FDT_END_NODE)>>
<1>1. strlen(c.name) \in Nat /\ c.value = << >> /\ Bytes(<< >>) = 0
  BY CallLengths, NoBytes
<1>2. FDT_END_NODE \in Numbers
  BY DEF Numbers, FDT_END_NODE
<1>3. /\ a \in States /\ Allocated(a) /\ a.tab = f.tab \o w /\ Len(a.tab) = Len(f.tab) + 1
      /\ a.string_table = f.string_table /\ a.open_node_count = f.open_node_count
  BY <1>2, Put32Appends
<1>4. g = [a EXCEPT !.open_node_count = a.open_node_count - 1]
  BY Zenon DEF fdt_end_node, a
<1>. HIDE DEF a, g, w
<1>5. /\ g \in States /\ Allocated(g) /\ g.tab = a.tab
      /\ g.string_table = a.string_table /\ g.open_node_count = a.open_node_count + -1
  <2>1. a.open_node_count \in Int
    BY <1>3 DEF States
  <2>2. a.open_node_count - 1 = a.open_node_count + -1 /\ -1 \in Int
    BY <2>1
  <2>. QED BY <1>3, <1>4, <2>2, NodeCounted
<1>7. CallWords(c, 0) = w
  BY DEF CallWords, w
<1>8. CallBytes(c) = 16 + strlen(c.name)
  BY <1>1 DEF CallBytes
<1>9. Bytes(f.string_table) \in Nat /\ Len(f.tab) \in Nat
  BY TextLengths, BytesType DEF States
<1>10. 4 * Len(g.tab) + Bytes(g.string_table)
          <= 4 * Len(f.tab) + Bytes(f.string_table) + CallBytes(c)
  <2>1. Len(g.tab) = Len(f.tab) + 1 /\ Bytes(g.string_table) = Bytes(f.string_table)
    BY <1>3, <1>5
  <2>. QED BY <2>1, <1>1, <1>8, <1>9
<1>11. g.string_table = f.string_table /\ g.open_node_count = f.open_node_count + -1
  BY <1>3, <1>5
<1>12. \E off \in Nat :
          /\ c.op \in {"str", "u32"} => OffsetOf(g.string_table, c.name, off)
          /\ g.tab = f.tab \o CallWords(c, off)
  BY <1>3, <1>5, <1>7
<1>. QED BY <1>5, <1>10, <1>11, <1>12 DEF Did, g

\* fdt_prop appends the words of its call.
LEMMA StrDid ==
    ASSUME NEW f \in States, Allocated(f), NEW c, Typed(c), c.op = "str"
    PROVE  Did(f, fdt_prop(f, c.name, c.value), c)
<1>. DEFINE len == Bytes(c.value)
            a == Prop(f, c.name, len)
            d == Data(c.value)
            g == fdt_prop(f, c.name, c.value)
<1>1. strlen(c.name) \in Nat /\ c.name \in Text /\ c.value \in Seq(Text)
  BY CallLengths DEF Typed
<1>2. d \in Seq(Cells) /\ Len(d) \in Nat /\ 4 * Len(d) < len + 4 /\ len \in Nat
  BY <1>1, DataType, Zenon
<1>3. g = Put(a, d)
  BY Zenon DEF fdt_prop, fdt_put_data, Data
<1>. HIDE DEF d, len
<1>4. /\ a \in States /\ Allocated(a)
      /\ a.open_node_count = f.open_node_count
      /\ a.string_table = f.string_table \/ a.string_table = Append(f.string_table, c.name)
      /\ Bytes(a.string_table) <= Bytes(f.string_table) + strlen(c.name) + 1
      /\ \E off \in Nat : OffsetOf(a.string_table, c.name, off) /\ a.tab = f.tab \o PropHead(len, off)
  BY <1>1, <1>2, PropDid
<1>. HIDE DEF a, g
<1>5. PICK off \in Nat : OffsetOf(a.string_table, c.name, off) /\ a.tab = f.tab \o PropHead(len, off)
  BY <1>4
<1>6. /\ g \in States /\ Allocated(g) /\ g.tab = a.tab \o d /\ Len(g.tab) = Len(a.tab) + Len(d)
      /\ g.string_table = a.string_table /\ g.open_node_count = a.open_node_count
  BY <1>2, <1>3, <1>4, PutAppends
<1>7. PropHead(len, off) \in Seq(Cells) /\ Len(PropHead(len, off)) = 3
  BY <1>2, HeadType
<1>8. f.tab \in Seq(Cells) /\ Len(f.tab) \in Nat
  BY DEF States
<1>9. g.tab = f.tab \o (PropHead(len, off) \o d)
  <2>1. (f.tab \o PropHead(len, off)) \o d = f.tab \o (PropHead(len, off) \o d)
    BY <1>2, <1>7, <1>8, Assoc
  <2>. QED BY <2>1, <1>5, <1>6
<1>10. CallWords(c, off) = PropHead(len, off) \o d
  BY DEF CallWords, len, d
<1>11. CallBytes(c) = 16 + strlen(c.name) + len
  BY DEF CallBytes, len
<1>12. Bytes(f.string_table) \in Nat /\ Bytes(a.string_table) \in Nat
  BY <1>4, TextLengths, BytesType DEF States
<1>13. Len(a.tab) = Len(f.tab) + 3
  BY <1>5, <1>7, <1>8, Joined
<1>14. 4 * Len(g.tab) + Bytes(g.string_table)
          <= 4 * Len(f.tab) + Bytes(f.string_table) + CallBytes(c)
  <2>1. Len(g.tab) = Len(f.tab) + 3 + Len(d)
    BY <1>6, <1>13
  <2>2. Bytes(g.string_table) <= Bytes(f.string_table) + strlen(c.name) + 1 /\ Bytes(g.string_table) \in Nat
    BY <1>4, <1>6, <1>12
  <2>. DEFINE L == Len(f.tab)
              D == Len(d)
              B == Bytes(f.string_table)
              C == Bytes(g.string_table)
              x == strlen(c.name)
  <2>3. L \in Nat /\ D \in Nat /\ B \in Nat /\ C \in Nat /\ x \in Nat
    BY <1>1, <1>2, <1>8, <1>12, <2>2
  <2>4. C <= B + x + 1 /\ 4 * D < len + 4
    BY <2>2, <1>2
  <2>. HIDE DEF L, D, B, C, x
  <2>5. 4 * (L + 3 + D) + C <= 4 * L + B + (16 + x + len)
    BY <2>3, <2>4, <1>2
  <2>. QED BY <2>1, <2>5, <1>11 DEF L, D, B, C, x
<1>15. /\ g.string_table = f.string_table \/ g.string_table = Append(f.string_table, c.name)
       /\ g.open_node_count = f.open_node_count + 0
  <2>1. f.open_node_count \in Int
    BY DEF States
  <2>. QED BY <1>4, <1>6, <2>1
<1>16. \E z \in Nat :
          /\ c.op \in {"str", "u32"} => OffsetOf(g.string_table, c.name, z)
          /\ g.tab = f.tab \o CallWords(c, z)
  BY <1>5, <1>6, <1>9, <1>10
<1>. QED BY <1>6, <1>14, <1>15, <1>16 DEF Did, g

\* fdt_prop_tab_u32 appends the words of its call.
LEMMA U32Did ==
    ASSUME NEW f \in States, Allocated(f), NEW c, Typed(c), c.op = "u32"
    PROVE  Did(f, fdt_prop_tab_u32(f, c.name, c.value), c)
<1>. DEFINE m == Len(c.value)
            a == Prop(f, c.name, 4 * m)
            d == [k \in 1 .. m |-> Big(c.value[k])]
            g == fdt_prop_tab_u32(f, c.name, c.value)
<1>1. strlen(c.name) \in Nat /\ c.name \in Text /\ c.value \in Seq(Numbers)
  BY CallLengths DEF Typed
<1>2. m \in Nat /\ 4 * m \in Nat
  BY <1>1
<1>3. d \in Seq(Cells) /\ Len(d) = m
  <2>1. \A k \in 1 .. m : Big(c.value[k]) \in Cells
    BY <1>1, BigIsCell
  <2>. QED BY <2>1, <1>2
<1>4. /\ a \in States /\ Allocated(a)
      /\ a.open_node_count = f.open_node_count
      /\ a.string_table = f.string_table \/ a.string_table = Append(f.string_table, c.name)
      /\ Bytes(a.string_table) <= Bytes(f.string_table) + strlen(c.name) + 1
      /\ \E off \in Nat : OffsetOf(a.string_table, c.name, off) /\ a.tab = f.tab \o PropHead(4 * m, off)
  BY <1>1, <1>2, PropDid
<1>5. /\ g \in States /\ Allocated(g) /\ g.tab = a.tab \o d
      /\ g.string_table = a.string_table /\ g.open_node_count = a.open_node_count
  BY <1>1, TableDid, Zenon
<1>. HIDE DEF a, g, d
<1>6. PICK off \in Nat : OffsetOf(a.string_table, c.name, off) /\ a.tab = f.tab \o PropHead(4 * m, off)
  BY <1>4
<1>7. PropHead(4 * m, off) \in Seq(Cells) /\ Len(PropHead(4 * m, off)) = 3
  BY <1>2, HeadType
<1>8. f.tab \in Seq(Cells) /\ Len(f.tab) \in Nat
  BY DEF States
<1>9. g.tab = f.tab \o (PropHead(4 * m, off) \o d)
  <2>1. (f.tab \o PropHead(4 * m, off)) \o d = f.tab \o (PropHead(4 * m, off) \o d)
    BY <1>3, <1>7, <1>8, Assoc
  <2>. QED BY <2>1, <1>5, <1>6
<1>10. CallWords(c, off) = PropHead(4 * m, off) \o d
  BY DEF CallWords, d
<1>11. CallBytes(c) = 16 + strlen(c.name) + 4 * m
  BY DEF CallBytes
<1>. HIDE DEF m
<1>12. Bytes(f.string_table) \in Nat /\ Bytes(a.string_table) \in Nat
  BY <1>4, TextLengths, BytesType DEF States
<1>13. Len(a.tab) = Len(f.tab) + 3 /\ a.tab \in Seq(Cells)
  BY <1>6, <1>7, <1>8, Joined
<1>14. 4 * Len(g.tab) + Bytes(g.string_table)
          <= 4 * Len(f.tab) + Bytes(f.string_table) + CallBytes(c)
  <2>1. Len(g.tab) = Len(f.tab) + 3 + m
    <3>1. Len(a.tab \o d) = Len(a.tab) + Len(d)
      BY <1>3, <1>13, Joined
    <3>. QED BY <3>1, <1>3, <1>5, <1>13
  <2>2. Bytes(g.string_table) <= Bytes(f.string_table) + strlen(c.name) + 1 /\ Bytes(g.string_table) \in Nat
    BY <1>4, <1>5, <1>12
  <2>. DEFINE L == Len(f.tab)
              D == m
              B == Bytes(f.string_table)
              C == Bytes(g.string_table)
              x == strlen(c.name)
  <2>3. L \in Nat /\ D \in Nat /\ B \in Nat /\ C \in Nat /\ x \in Nat
    BY <1>1, <1>2, <1>8, <1>12, <2>2
  <2>4. C <= B + x + 1 /\ 4 * D < (4 * m) + 4
    BY <2>2, <1>2
  <2>. HIDE DEF L, D, B, C, x
  <2>5. 4 * (L + 3 + D) + C <= 4 * L + B + (16 + x + (4 * m))
    BY <2>3, <2>4, <1>2
  <2>. QED BY <2>1, <2>5, <1>11 DEF L, D, B, C, x
<1>15. /\ g.string_table = f.string_table \/ g.string_table = Append(f.string_table, c.name)
       /\ g.open_node_count = f.open_node_count + 0
  <2>1. f.open_node_count \in Int
    BY DEF States
  <2>. QED BY <1>4, <1>5, <2>1
<1>16. \E z \in Nat :
          /\ c.op \in {"str", "u32"} => OffsetOf(g.string_table, c.name, z)
          /\ g.tab = f.tab \o CallWords(c, z)
  BY <1>5, <1>6, <1>9, <1>10
<1>. QED BY <1>5, <1>14, <1>15, <1>16 DEF Did, g

-----------------------------------------------------------------------------
(* The script.                                                             *)

\* the calls of a script
IsProp(c) ==
    \/ \E name, v, S : v \in Seq(S) /\ c = Str(name, v)
    \/ \E name, v, S : v \in Seq(S) /\ Len(v) > 0 /\ c = U32(name, v)
IsCall(c) == (\E name : c = Begin(name)) \/ c = End \/ IsProp(c)

\* nodes open after a call, if d were open before it
Delta(c) == CASE c.op = "begin" -> 1 [] c.op = "end" -> -1 [] OTHER -> 0

\* the numbers of open nodes while q is called
Depths(q, d) ==
    /\ d \in [0 .. Len(q) -> Nat] /\ d[0] = 0 /\ d[Len(q)] = 0
    /\ \A k \in 1 .. Len(q) : d[k] = d[k - 1] + Delta(q[k])

\* calls that close each node they open, and no other
IsSequence(q) == \E S : q \in Seq(S) /\ \A c \in S : IsCall(c)
Shape(q) == IsSequence(q) /\ \E d : Depths(q, d)

\* A property opens and closes nothing.
LEMMA PropDelta == ASSUME NEW c, IsProp(c) PROVE c.op \in {"str", "u32"} /\ Delta(c) = 0
<1>1. c.op \in {"str", "u32"}
  BY DEF IsProp, Str, U32
<1>. QED BY <1>1 DEF Delta

\* Properties alone are a shape.
LEMMA Leaves ==
    ASSUME NEW S, NEW q \in Seq(S), \A c \in S : IsProp(c)
    PROVE  Shape(q)
<1>1. IsSequence(q)
  BY Zenon DEF IsSequence, IsCall
<1>. DEFINE d == [k \in 0 .. Len(q) |-> 0]
<1>2. \A k \in 1 .. Len(q) : Delta(q[k]) = 0
  <2>. SUFFICES ASSUME NEW k \in 1 .. Len(q) PROVE Delta(q[k]) = 0
    OBVIOUS
  <2>1. q[k] \in S
    OBVIOUS
  <2>. QED BY <2>1, PropDelta
<1>3. Depths(q, d)
  <2>1. Len(q) \in Nat
    OBVIOUS
  <2>. QED BY <1>2, <2>1 DEF Depths
<1>. QED BY <1>1, <1>3, Zenon DEF Shape

\* Calls of a smaller set are calls of a larger one.
LEMMA SeqWiden ==
    ASSUME NEW S, NEW R, S \subseteq R, NEW q \in Seq(S)
    PROVE  q \in Seq(R)
  OBVIOUS

\* So is no call at all.
LEMMA NoCalls == Shape(<< >>)
<1>. DEFINE S == {}
<1>1. << >> \in Seq(S) /\ \A c \in S : IsProp(c)
  OBVIOUS
<1>. HIDE DEF S
<1>. QED BY <1>1, Leaves

\* One script after the other.
LEMMA BothShapes ==
    ASSUME NEW p, Shape(p), NEW q, Shape(q)
    PROVE  Shape(p \o q)
<1>1. PICK S : p \in Seq(S) /\ \A c \in S : IsCall(c)
  BY DEF Shape, IsSequence
<1>2. PICK R : q \in Seq(R) /\ \A c \in R : IsCall(c)
  BY DEF Shape, IsSequence
<1>3. PICK d : Depths(p, d)
  BY DEF Shape
<1>4. PICK e : Depths(q, e)
  BY DEF Shape
<1>. DEFINE r == p \o q
            U == S \cup R
            m == Len(p)
            l == Len(q)
            f == [k \in 0 .. m + l |-> IF k <= m THEN d[k] ELSE e[k - m]]
<1>5. p \in Seq(U) /\ q \in Seq(U) /\ \A c \in U : IsCall(c)
  <2>1. S \subseteq U /\ R \subseteq U
    OBVIOUS
  <2>2. \A c \in U : IsCall(c)
    BY <1>1, <1>2
  <2>. HIDE DEF U
  <2>. QED BY <1>1, <1>2, <2>1, <2>2, SeqWiden
<1>. HIDE DEF U
<1>6. /\ r \in Seq(U) /\ Len(r) = m + l /\ m \in Nat /\ l \in Nat
      /\ \A k \in 1 .. m : r[k] = p[k]
      /\ \A k \in m + 1 .. m + l : r[k] = q[k - m]
  BY <1>5
<1>7. IsSequence(r)
  <2>. HIDE DEF r
  <2>. QED BY <1>5, <1>6, Zenon DEF IsSequence
<1>. HIDE DEF r, m, l
<1>8. /\ d \in [0 .. m -> Nat] /\ d[0] = 0 /\ d[m] = 0
      /\ \A k \in 1 .. m : d[k] = d[k - 1] + Delta(p[k])
  BY <1>3 DEF Depths, m
<1>9. /\ e \in [0 .. l -> Nat] /\ e[0] = 0 /\ e[l] = 0
      /\ \A k \in 1 .. l : e[k] = e[k - 1] + Delta(q[k])
  BY <1>4 DEF Depths, l
<1>10. f \in [0 .. m + l -> Nat]
  <2>1. ASSUME NEW k \in 0 .. m + l PROVE (IF k <= m THEN d[k] ELSE e[k - m]) \in Nat
    BY <1>6, <1>8, <1>9
  <2>. QED BY <2>1
<1>11. f[0] = 0 /\ f[m + l] = 0
  <2>1. m + l \in 0 .. m + l /\ 0 \in 0 .. m + l /\ 0 <= m /\ m + l - m = l
    BY <1>6
  <2>2. f[0] = d[0]
    BY <2>1
  <2>3. f[m + l] = 0
    <3>. DEFINE z == m + l
    <3>1. z \in 0 .. z /\ z - m = l /\ (z <= m => z = m)
      BY <1>6
    <3>. HIDE DEF z
    <3>2. f[z] = (IF z <= m THEN d[z] ELSE e[z - m])
      BY <3>1, Zenon DEF z
    <3>. HIDE DEF f
    <3>3. f[z] = 0
      BY <3>1, <3>2, <1>8, <1>9
    <3>. QED BY <3>3 DEF z
  <2>. HIDE DEF f
  <2>. QED BY <2>2, <2>3, <1>8
<1>12. ASSUME NEW k \in 1 .. m + l PROVE f[k] = f[k - 1] + Delta(r[k])
  <2>1. k \in 0 .. m + l /\ k - 1 \in 0 .. m + l
    BY <1>6
  <2>2. CASE k <= m
    <3>1. k \in 1 .. m /\ f[k] = d[k] /\ f[k - 1] = d[k - 1]
      BY <2>1, <2>2, <1>6
    <3>. HIDE DEF f
    <3>. QED BY <3>1, <1>6, <1>8
  <2>3. CASE ~(k <= m)
    <3>1. k - m \in 1 .. l /\ k \in m + 1 .. m + l /\ f[k] = e[k - m]
      BY <2>1, <2>3, <1>6
    <3>2. f[k - 1] = e[k - m - 1]
      <4>1. CASE k - 1 = m
        <5>1. f[k - 1] = d[m] /\ k - m - 1 = 0
          BY <4>1, <2>1, <1>6
        <5>. QED BY <5>1, <1>8, <1>9
      <4>2. CASE k - 1 # m
        <5>1. ~(k - 1 <= m) /\ k - 1 - m = k - m - 1
          BY <4>2, <2>3, <1>6
        <5>. QED BY <5>1, <2>1
      <4>. QED BY <4>1, <4>2
    <3>3. e[k - m] = e[k - m - 1] + Delta(q[k - m])
      <4>. DEFINE z == k - m
      <4>1. z \in 1 .. l
        BY <3>1
      <4>. HIDE DEF z
      <4>2. e[z] = e[z - 1] + Delta(q[z])
        BY <4>1, <1>9
      <4>. QED BY <4>2 DEF z
    <3>. HIDE DEF f
    <3>. QED BY <3>1, <3>2, <3>3, <1>6
  <2>. QED BY <2>2, <2>3
<1>13. Depths(r, f)
  <2>. HIDE DEF f
  <2>. QED BY <1>6, <1>10, <1>11, <1>12 DEF Depths
<1>14. Shape(r)
  <2>. HIDE DEF f
  <2>. QED BY <1>7, <1>13, Zenon DEF Shape
<1>. QED BY <1>14 DEF r

\* A node around calls.
LEMMA NodeShape ==
    ASSUME NEW name, NEW q, Shape(q)
    PROVE  Shape(Node(name, q))
<1>1. PICK S : q \in Seq(S) /\ \A c \in S : IsCall(c)
  BY DEF Shape, IsSequence
<1>2. PICK d : Depths(q, d)
  BY DEF Shape
<1>. DEFINE b == Begin(name)
            U == S \cup {b, End}
            r == Node(name, q)
            l == Len(q)
            f == [k \in 0 .. l + 2 |-> IF k = 0 \/ k = l + 2 THEN 0 ELSE d[k - 1] + 1]
<1>3. IsCall(b) /\ IsCall(End)
  BY DEF IsCall
<1>4. Delta(b) = 1 /\ Delta(End) = -1
  <2>1. b.op = "begin" /\ End.op = "end"
    BY DEF Begin, End
  <2>. HIDE DEF b
  <2>. QED BY <2>1 DEF Delta
<1>5. r = <<b>> \o q \o <<End>>
  BY DEF Node
<1>6. q \in Seq(U) /\ b \in U /\ End \in U /\ \A c \in U : IsCall(c)
  <2>1. S \subseteq U /\ b \in U /\ End \in U /\ \A c \in U : IsCall(c)
    BY <1>1, <1>3
  <2>. HIDE DEF U, b
  <2>. QED BY <1>1, <2>1, SeqWiden
<1>. HIDE DEF U, b, r
<1>7. /\ r \in Seq(U) /\ Len(r) = l + 2 /\ l \in Nat /\ r[1] = b /\ r[l + 2] = End
      /\ \A k \in 2 .. l + 1 : r[k] = q[k - 1]
  BY <1>5, <1>6
<1>8. IsSequence(r)
  BY <1>6, <1>7, Zenon DEF IsSequence
<1>. HIDE DEF l
<1>9. /\ d \in [0 .. l -> Nat] /\ d[0] = 0 /\ d[l] = 0
      /\ \A k \in 1 .. l : d[k] = d[k - 1] + Delta(q[k])
  BY <1>2 DEF Depths, l
<1>10. f \in [0 .. l + 2 -> Nat]
  <2>1. ASSUME NEW k \in 0 .. l + 2
        PROVE  (IF k = 0 \/ k = l + 2 THEN 0 ELSE d[k - 1] + 1) \in Nat
    <3>1. k # 0 /\ k # l + 2 => d[k - 1] \in Nat
      BY <1>7, <1>9
    <3>. QED BY <3>1
  <2>. QED BY <2>1
<1>11. f[0] = 0 /\ f[l + 2] = 0
  BY <1>7
<1>12. ASSUME NEW k \in 1 .. l + 2 PROVE f[k] = f[k - 1] + Delta(r[k])
  <2>1. k \in 0 .. l + 2 /\ k - 1 \in 0 .. l + 2 /\ k # 0
    BY <1>7
  <2>2. CASE k = 1
    <3>1. f[0] = 0 /\ f[1] = d[0] + 1
      BY <2>2, <1>7
    <3>. HIDE DEF f
    <3>. QED BY <2>2, <3>1, <1>4, <1>7, <1>9
  <2>3. CASE k = l + 2
    <3>1. f[k] = 0 /\ f[k - 1] = d[l] + 1
      BY <2>1, <2>3, <1>7
    <3>2. Delta(r[k]) = -1
      BY <2>3, <1>4, <1>7
    <3>. HIDE DEF f
    <3>. QED BY <3>1, <3>2, <1>9
  <2>4. CASE k \in 2 .. l + 1
    <3>1. f[k] = d[k - 1] + 1 /\ f[k - 1] = d[k - 1 - 1] + 1
      BY <2>1, <2>4, <1>7
    <3>. DEFINE z == k - 1
    <3>2. z \in 1 .. l /\ z - 1 \in 0 .. l
      BY <2>4, <1>7
    <3>3. r[k] = q[z]
      BY <2>4, <1>7
    <3>. HIDE DEF f, z
    <3>4. d[z] = d[z - 1] + Delta(q[z]) /\ d[z - 1] \in Nat /\ d[z] \in Nat
      <4>1. z \in 0 .. l
        BY <3>2, <1>7
      <4>. QED BY <4>1, <3>2, <1>9
    <3>5. f[k] = d[z] + 1 /\ f[k - 1] = d[z - 1] + 1
      BY <3>1 DEF z
    <3>6. Delta(q[z]) \in Int
      BY DEF Delta
    <3>. QED BY <3>3, <3>4, <3>5, <3>6
  <2>. QED BY <2>2, <2>3, <2>4, <1>7
<1>13. Depths(r, f)
  <2>. HIDE DEF f
  <2>. QED BY <1>7, <1>10, <1>11, <1>12 DEF Depths
<1>14. Shape(r)
  <2>. HIDE DEF f
  <2>. QED BY <1>8, <1>13, Zenon DEF Shape
<1>. QED BY <1>14 DEF r

\* Properties of the script.
LEMMA StrIsProp ==
    ASSUME NEW name, NEW S, NEW v \in Seq(S)
    PROVE  IsProp(Str(name, v))
  BY Zenon DEF IsProp

\* A property of numbers.
LEMMA U32IsProp ==
    ASSUME NEW name, NEW S, NEW v \in Seq(S), Len(v) > 0
    PROVE  IsProp(U32(name, v))
  BY Zenon DEF IsProp

\* The properties that the script has: with no string,
LEMMA StrNone == ASSUME NEW name PROVE IsProp(Str(name, << >>))
<1>1. << >> \in Seq({})
  OBVIOUS
<1>. QED BY <1>1, StrIsProp

\* one,
LEMMA StrOne == ASSUME NEW name, NEW a PROVE IsProp(Str(name, <<a>>))
<1>1. <<a>> \in Seq({a})
  OBVIOUS
<1>. QED BY <1>1, StrIsProp

\* two,
LEMMA StrTwo == ASSUME NEW name, NEW a, NEW b PROVE IsProp(Str(name, <<a, b>>))
<1>1. <<a, b>> \in Seq({a, b})
  OBVIOUS
<1>. QED BY <1>1, StrIsProp

\* with one number,
LEMMA U32One == ASSUME NEW name, NEW a PROVE IsProp(U32(name, <<a>>))
<1>1. <<a>> \in Seq({a}) /\ Len(<<a>>) > 0
  OBVIOUS
<1>. QED BY <1>1, U32IsProp

\* two,
LEMMA U32Two == ASSUME NEW name, NEW a, NEW b PROVE IsProp(U32(name, <<a, b>>))
<1>1. <<a, b>> \in Seq({a, b}) /\ Len(<<a, b>>) > 0
  OBVIOUS
<1>. QED BY <1>1, U32IsProp

\* four.
LEMMA U32Four == ASSUME NEW name, NEW a, NEW b, NEW c, NEW d PROVE IsProp(U32(name, <<a, b, c, d>>))
<1>1. <<a, b, c, d>> \in Seq({a, b, c, d}) /\ Len(<<a, b, c, d>>) > 0
  OBVIOUS
<1>. QED BY <1>1, U32IsProp

\* One property,
LEMMA OneProps ==
    ASSUME NEW a,
           IsProp(a)
    PROVE  Shape(<<a>>)
<1>. DEFINE S == {a}
            q == <<a>>
<1>1. q \in Seq(S)
  OBVIOUS
<1>2. \A x \in S : IsProp(x)
  OBVIOUS
<1>. HIDE DEF S, q
<1>3. Shape(q)
  BY <1>1, <1>2, Leaves
<1>. QED BY <1>3 DEF q

\* two,
LEMMA TwoProps ==
    ASSUME NEW a, NEW b,
           IsProp(a), IsProp(b)
    PROVE  Shape(<<a, b>>)
<1>. DEFINE S == {a, b}
            q == <<a, b>>
<1>1. q \in Seq(S)
  OBVIOUS
<1>2. \A x \in S : IsProp(x)
  OBVIOUS
<1>. HIDE DEF S, q
<1>3. Shape(q)
  BY <1>1, <1>2, Leaves
<1>. QED BY <1>3 DEF q

\* three,
LEMMA ThreeProps ==
    ASSUME NEW a, NEW b, NEW c,
           IsProp(a), IsProp(b), IsProp(c)
    PROVE  Shape(<<a, b, c>>)
<1>. DEFINE S == {a, b, c}
            q == <<a, b, c>>
<1>1. q \in Seq(S)
  OBVIOUS
<1>2. \A x \in S : IsProp(x)
  OBVIOUS
<1>. HIDE DEF S, q
<1>3. Shape(q)
  BY <1>1, <1>2, Leaves
<1>. QED BY <1>3 DEF q

\* four,
LEMMA FourProps ==
    ASSUME NEW a, NEW b, NEW c, NEW d,
           IsProp(a), IsProp(b), IsProp(c), IsProp(d)
    PROVE  Shape(<<a, b, c, d>>)
<1>. DEFINE S == {a, b, c, d}
            q == <<a, b, c, d>>
<1>1. q \in Seq(S)
  OBVIOUS
<1>2. \A x \in S : IsProp(x)
  OBVIOUS
<1>. HIDE DEF S, q
<1>3. Shape(q)
  BY <1>1, <1>2, Leaves
<1>. QED BY <1>3 DEF q

\* five,
LEMMA FiveProps ==
    ASSUME NEW a, NEW b, NEW c, NEW d, NEW e,
           IsProp(a), IsProp(b), IsProp(c), IsProp(d), IsProp(e)
    PROVE  Shape(<<a, b, c, d, e>>)
<1>. DEFINE S == {a, b, c, d, e}
            q == <<a, b, c, d, e>>
<1>1. q \in Seq(S)
  OBVIOUS
<1>2. \A x \in S : IsProp(x)
  OBVIOUS
<1>. HIDE DEF S, q
<1>3. Shape(q)
  BY <1>1, <1>2, Leaves
<1>. QED BY <1>3 DEF q

\* seven,
LEMMA SevenProps ==
    ASSUME NEW a, NEW b, NEW c, NEW d, NEW e, NEW f, NEW g,
           IsProp(a), IsProp(b), IsProp(c), IsProp(d), IsProp(e), IsProp(f), IsProp(g)
    PROVE  Shape(<<a, b, c, d, e, f, g>>)
<1>. DEFINE S == {a, b, c, d, e, f, g}
            q == <<a, b, c, d, e, f, g>>
<1>1. q \in Seq(S)
  OBVIOUS
<1>2. \A x \in S : IsProp(x)
  OBVIOUS
<1>. HIDE DEF S, q
<1>3. Shape(q)
  BY <1>1, <1>2, Leaves
<1>. QED BY <1>3 DEF q

\* eight.
LEMMA EightProps ==
    ASSUME NEW a, NEW b, NEW c, NEW d, NEW e, NEW f, NEW g, NEW h,
           IsProp(a), IsProp(b), IsProp(c), IsProp(d), IsProp(e), IsProp(f), IsProp(g), IsProp(h)
    PROVE  Shape(<<a, b, c, d, e, f, g, h>>)
<1>. DEFINE S == {a, b, c, d, e, f, g, h}
            q == <<a, b, c, d, e, f, g, h>>
<1>1. q \in Seq(S)
  OBVIOUS
<1>2. \A x \in S : IsProp(x)
  OBVIOUS
<1>. HIDE DEF S, q
<1>3. Shape(q)
  BY <1>1, <1>2, Leaves
<1>. QED BY <1>3 DEF q

\* A node with a unit address.
LEMMA NumShape ==
    ASSUME NEW name, NEW v, NEW q, Shape(q)
    PROVE  Shape(NodeNum(name, v, q))
  BY NodeShape DEF NodeNum

\* reg is a property.
LEMMA RegProp == ASSUME NEW r PROVE IsProp(Reg(r))
  BY U32Four DEF Reg

\* So is one without a value.
LEMMA EmptyProp == ASSUME NEW name PROVE IsProp(Empty(name))
  BY StrNone DEF Empty

\* The list of extensions is a property.
LEMMA IsaProp ==
    ASSUME NEW o
    PROVE  IsProp(Str("riscv,isa-extensions",
                      <<"i", "m", "a", "zba", "zbb", "zicsr", "zifencei", "zicond">>
                          \o (IF o.svnapot THEN <<"svnapot">> ELSE << >>)))
<1>. DEFINE isa == <<"i", "m", "a", "zba", "zbb", "zicsr", "zifencei", "zicond">>
                      \o (IF o.svnapot THEN <<"svnapot">> ELSE << >>)
            x == <<"i", "m", "a", "zba", "zbb", "zicsr", "zifencei", "zicond">>
            R == {"i", "m", "a", "zba", "zbb", "zicsr", "zifencei", "zicond", "svnapot"}
            z == <<"svnapot">>
            y == IF o.svnapot THEN z ELSE << >>
<1>1. x \in Seq(R) /\ z \in Seq(R) /\ << >> \in Seq(R)
  <2>1. x \in Seq(R)
    OBVIOUS
  <2>2. z \in Seq(R)
    OBVIOUS
  <2>3. << >> \in Seq(R)
    OBVIOUS
  <2>. QED BY <2>1, <2>2, <2>3
<1>2. isa = x \o y
  BY Zenon
<1>. HIDE DEF x, z, R
<1>4. y \in Seq(R)
  BY <1>1
<1>. HIDE DEF isa, x, y
<1>3. isa \in Seq(R)
  BY <1>1, <1>2, <1>4
<1>5. IsProp(Str("riscv,isa-extensions", isa))
  BY <1>3, StrIsProp
<1>. QED BY <1>5, Zenon DEF isa

\* The node of the cpu and its interrupt controller.
LEMMA CpuShape == ASSUME NEW o PROVE Shape(Cpu(o))
<1>. DEFINE isa == <<"i", "m", "a", "zba", "zbb", "zicsr", "zifencei", "zicond">>
                      \o (IF o.svnapot THEN <<"svnapot">> ELSE << >>)
            a == Str("device_type", <<"cpu">>)
            b == U32("reg", <<0>>)
            c == Str("status", <<"okay">>)
            d == Str("compatible", <<"riscv">>)
            e == Str("riscv,isa", <<"rv64ima">>)
            f == Str("riscv,isa-extensions", isa)
            g == Str("mmu-type", <<"riscv,sv39">>)
            h == U32("clock-frequency", <<o.cpu_freq>>)
            p == U32("#interrupt-cells", <<1>>)
            q == Empty("interrupt-controller")
            r == Str("compatible", <<"riscv,cpu-intc">>)
            t == U32("phandle", <<intc_phandle>>)
<1>1. /\ IsProp(a) /\ IsProp(b) /\ IsProp(c) /\ IsProp(d)
      /\ IsProp(e) /\ IsProp(g) /\ IsProp(h)
  BY StrOne, U32One
<1>2. IsProp(f)
  BY IsaProp, Zenon
<1>3. IsProp(p) /\ IsProp(q) /\ IsProp(r) /\ IsProp(t)
  BY StrOne, U32One, EmptyProp
<1>4. Cpu(o) = NodeNum("cpu", 0, <<a, b, c, d, e, f, g, h>>
                                    \o Node("interrupt-controller", <<p, q, r, t>>))
  BY Zenon DEF Cpu
<1>. HIDE DEF a, b, c, d, e, f, g, h, p, q, r, t
<1>5. Shape(<<a, b, c, d, e, f, g, h>>) /\ Shape(<<p, q, r, t>>)
  BY <1>1, <1>2, <1>3, EightProps, FourProps
<1>. QED BY <1>4, <1>5, NodeShape, NumShape, BothShapes

\* The node around it.
LEMMA CpusShape == ASSUME NEW o PROVE Shape(Cpus(o))
<1>. DEFINE a == U32("#address-cells", <<1>>)
            b == U32("#size-cells", <<0>>)
            c == U32("timebase-frequency", <<o.cpu_freq>>)
<1>1. IsProp(a) /\ IsProp(b) /\ IsProp(c)
  BY U32One
<1>2. Cpus(o) = Node("cpus", <<a, b, c>> \o Cpu(o))
  BY Zenon DEF Cpus
<1>. HIDE DEF a, b, c
<1>. QED BY <1>1, <1>2, ThreeProps, CpuShape, BothShapes, NodeShape

\* The two words of a number.
LEMMA HalvesType ==
    ASSUME NEW v \in Nat
    PROVE  /\ Halves(v) \in Seq(Nat) /\ Len(Halves(v)) = 2
           /\ Halves(v)[1] \in Nat /\ Halves(v)[2] \in Nat
           /\ Halves(v)[1] * WordSize + Halves(v)[2] = v
<1>1. WordSize \in Nat /\ WordSize > 0
  BY OptionsAssumption
<1>2. v \div WordSize \in Nat /\ v % WordSize \in Nat
  BY <1>1
<1>3. (v \div WordSize) * WordSize + (v % WordSize) = v
  BY <1>1
<1>. DEFINE q == v \div WordSize
            r == v % WordSize
<1>4. Halves(v) = <<q, r>>
  BY DEF Halves
<1>5. q \in Nat /\ r \in Nat /\ q * WordSize + r = v
  BY <1>2, <1>3
<1>. HIDE DEF q, r
<1>6. Halves(v)[1] = q /\ Halves(v)[2] = r /\ Halves(v) \in Seq(Nat) /\ Len(Halves(v)) = 2
  BY <1>4, <1>5
<1>. QED BY <1>5, <1>6

\* Both ends of two sequences, one after the other.
LEMMA OneAfterOther ==
    ASSUME NEW S, NEW p \in Seq(S), NEW q \in Seq(S)
    PROVE  /\ p \o q \in Seq(S) /\ Len(p \o q) = Len(p) + Len(q)
           /\ \A i \in 1 .. Len(p) : (p \o q)[i] = p[i]
<1>1. Len(p) \in Nat /\ Len(q) \in Nat
  OBVIOUS
<1>2. p \o q \in Seq(S) /\ Len(p \o q) = Len(p) + Len(q)
  BY <1>1
<1>3. \A i \in 1 .. Len(p) : (p \o q)[i] = p[i]
  BY <1>1
<1>. QED BY <1>2, <1>3

\* Two words and a pair of numbers.
LEMMA FourWords ==
    ASSUME NEW h \in Seq(Nat), Len(h) = 2, NEW x \in Nat, NEW y \in Nat
    PROVE  /\ h \o <<x, y>> \in Seq(Nat) /\ Len(h \o <<x, y>>) = 4
           /\ (h \o <<x, y>>)[1] = h[1] /\ (h \o <<x, y>>)[2] = h[2]
<1>. DEFINE k == <<x, y>>
<1>1. k \in Seq(Nat) /\ Len(k) = 2
  OBVIOUS
<1>. HIDE DEF k
<1>. DEFINE w == h \o k
<1>2. w \in Seq(Nat) /\ Len(w) = Len(h) + Len(k) /\ \A i \in 1 .. Len(h) : w[i] = h[i]
  BY <1>1, OneAfterOther, Zenon
<1>. HIDE DEF w
<1>3. w \in Seq(Nat) /\ Len(w) = 4 /\ w[1] = h[1] /\ w[2] = h[2]
  BY <1>1, <1>2
<1>. QED BY <1>3, Zenon DEF w, k

\* A property whose value is such a number.
LEMMA U32Halves == ASSUME NEW name, NEW v PROVE IsProp(U32(name, Halves(v)))
<1>. DEFINE q == v \div WordSize
            r == v % WordSize
<1>1. Halves(v) = <<q, r>>
  BY DEF Halves
<1>. HIDE DEF q, r
<1>2. IsProp(U32(name, <<q, r>>))
  BY U32Two
<1>. QED BY <1>1, <1>2

\* So is the reg of the memory.
LEMMA MemoryReg ==
    ASSUME NEW o \in Options
    PROVE  IsProp(U32("reg", Halves(o.phys_start) \o o.ram_size))
<1>. DEFINE w == Halves(o.phys_start) \o o.ram_size
<1>1. PICK x \in Nat, y \in Nat : o.ram_size = <<x, y>>
  BY OptionsAssumption
<1>2. w \in Seq(Nat) /\ Len(w) > 0
  <2>. DEFINE h == Halves(o.phys_start)
  <2>1. h \in Seq(Nat) /\ Len(h) = 2
    BY HalvesType, OptionsAssumption
  <2>. HIDE DEF h
  <2>2. h \o <<x, y>> \in Seq(Nat) /\ Len(h \o <<x, y>>) = 4
    BY <2>1, FourWords, Zenon
  <2>. DEFINE q == h \o <<x, y>>
  <2>3. q \in Seq(Nat) /\ Len(q) > 0
    <3>. HIDE DEF q
    <3>1. q \in Seq(Nat) /\ Len(q) = 4
      BY <2>2, Zenon DEF q
    <3>. QED BY <3>1
  <2>4. w = q
    BY <1>1, Zenon DEF h
  <2>. HIDE DEF q
  <2>. QED BY <2>3, <2>4
<1>. HIDE DEF w
<1>3. IsProp(U32("reg", w))
  BY <1>2, U32IsProp
<1>. QED BY <1>3, Zenon DEF w

\* The node of the memory.
LEMMA MemoryShape == ASSUME NEW o \in Options PROVE Shape(Memory(o))
<1>. DEFINE a == Str("device_type", <<"memory">>)
            b == U32("reg", Halves(o.phys_start) \o o.ram_size)
<1>1. IsProp(a) /\ IsProp(b)
  BY StrOne, MemoryReg, Zenon
<1>2. Memory(o) = NodeNum("memory", o.phys_start, <<a, b>>)
  BY Zenon DEF Memory
<1>. HIDE DEF a, b
<1>. QED BY <1>1, <1>2, TwoProps, NumShape

\* The node of the CLINT.
LEMMA ClintShape == Shape(Clint)
<1>. DEFINE a == Str("compatible", <<"riscv,clint0">>)
            b == U32("interrupts-extended", <<intc_phandle, 3, intc_phandle, 7>>)
            c == Reg(CLINT)
<1>1. IsProp(a) /\ IsProp(b) /\ IsProp(c)
  BY StrOne, U32Four, RegProp
<1>2. Clint = NodeNum("clint", CLINT.base, <<a, b, c>>)
  BY Zenon DEF Clint
<1>. HIDE DEF a, b, c
<1>. QED BY <1>1, <1>2, ThreeProps, NumShape

\* The node of the PLIC.
LEMMA PlicShape == Shape(Plic)
<1>. DEFINE a == U32("#interrupt-cells", <<1>>)
            b == Empty("interrupt-controller")
            c == Str("compatible", <<"riscv,plic0">>)
            d == U32("riscv,ndev", <<31>>)
            e == Reg(PLIC)
            f == U32("interrupts-extended", <<intc_phandle, 9, intc_phandle, 11>>)
            g == U32("phandle", <<plic_phandle>>)
<1>1. /\ IsProp(a) /\ IsProp(b) /\ IsProp(c) /\ IsProp(d)
      /\ IsProp(e) /\ IsProp(f) /\ IsProp(g)
  BY StrOne, U32One, U32Four, EmptyProp, RegProp
<1>2. Plic = NodeNum("plic", PLIC.base, <<a, b, c, d, e, f, g>>)
  BY Zenon DEF Plic
<1>. HIDE DEF a, b, c, d, e, f, g
<1>. QED BY <1>1, <1>2, SevenProps, NumShape

\* The node of the UART, if there is one.
LEMMA SerialShape == ASSUME NEW o PROVE Shape(Serial(o))
<1>. DEFINE a == Str("compatible", <<"ns16550">>)
            b == U32("clock-frequency", <<5000000>>)
            c == Reg(UART)
            d == U32("interrupts", <<1>>)
            e == U32("no-loopback-test", <<1>>)
<1>1. IsProp(a) /\ IsProp(b) /\ IsProp(c) /\ IsProp(d) /\ IsProp(e)
  BY StrOne, U32One, RegProp
<1>2. Serial(o) = IF ~o.uart THEN << >> ELSE NodeNum("serial", UART.base, <<a, b, c, d, e>>)
  BY SMT DEF Serial
<1>. HIDE DEF a, b, c, d, e
<1>3. Shape(NodeNum("serial", UART.base, <<a, b, c, d, e>>))
  BY <1>1, FiveProps, NumShape
<1>. QED BY <1>2, <1>3, NoCalls

\* The bus.
LEMMA SocShape == ASSUME NEW o PROVE Shape(Soc(o))
<1>. DEFINE a == U32("#address-cells", <<2>>)
            b == U32("#size-cells", <<2>>)
            c == Str("compatible", <<"ucbbar,riscvemu-bar-soc", "simple-bus">>)
            d == Empty("ranges")
<1>1. IsProp(a) /\ IsProp(b) /\ IsProp(c) /\ IsProp(d)
  BY StrTwo, U32One, EmptyProp
<1>2. Soc(o) = Node("soc", <<a, b, c, d>> \o Clint \o Plic \o Serial(o))
  BY Zenon DEF Soc
<1>. HIDE DEF a, b, c, d
<1>3. Shape(<<a, b, c, d>>)
  BY <1>1, FourProps
<1>4. Shape(<<a, b, c, d>> \o Clint)
  BY <1>3, ClintShape, BothShapes
<1>5. Shape(<<a, b, c, d>> \o Clint \o Plic)
  BY <1>4, PlicShape, BothShapes
<1>6. Shape(<<a, b, c, d>> \o Clint \o Plic \o Serial(o))
  BY <1>5, SerialShape, BothShapes
<1>. QED BY <1>2, <1>6, NodeShape

\* The node of the boot arguments, with a kernel or without.
LEMMA ChosenShape == ASSUME NEW o PROVE Shape(Chosen(o))
<1>. DEFINE a == Str("bootargs", <<"debug keep_bootcon console=csr_console">>)
            b == U32("riscv,kernel-start", Halves(kern_addr(o)))
            c == U32("riscv,kernel-end", Halves(kern_addr(o) + o.kernel_size))
            k == IF o.kernel_size = 0 THEN << >> ELSE <<b, c>>
<1>1. IsProp(a) /\ IsProp(b) /\ IsProp(c)
  BY StrOne, U32Halves
<1>2. Chosen(o) = Node("chosen", <<a>> \o k)
  BY Zenon DEF Chosen
<1>. HIDE DEF a, b, c
<1>3. Shape(<<a>>) /\ Shape(<<b, c>>)
  BY <1>1, OneProps, TwoProps
<1>4. Shape(k)
  BY <1>3, NoCalls
<1>. QED BY <1>2, <1>3, <1>4, BothShapes, NodeShape

\* The script of riscv_build_fdt closes what it opens, for all options.
LEMMA ScriptShape == ASSUME NEW o \in Options PROVE Shape(riscv_build_fdt(o))
<1>. DEFINE a == U32("#address-cells", <<2>>)
            b == U32("#size-cells", <<2>>)
            c == Str("model", <<"dsheffie,rv64core">>)
            d == Str("compatible", <<"ucb,htif0">>)
            h == Node("htif", <<d>>)
<1>1. IsProp(a) /\ IsProp(b) /\ IsProp(c) /\ IsProp(d)
  BY StrOne, U32One
<1>2. riscv_build_fdt(o) =
          Node("", <<a, b, c>> \o Cpus(o) \o Memory(o) \o h \o Soc(o) \o Chosen(o))
  BY Zenon DEF riscv_build_fdt
<1>. HIDE DEF a, b, c, d
<1>3. Shape(<<a, b, c>>) /\ Shape(h)
  BY <1>1, ThreeProps, OneProps, NodeShape
<1>. HIDE DEF h
<1>4. Shape(<<a, b, c>> \o Cpus(o))
  BY <1>3, CpusShape, BothShapes
<1>5. Shape(<<a, b, c>> \o Cpus(o) \o Memory(o))
  BY <1>4, MemoryShape, BothShapes
<1>6. Shape(<<a, b, c>> \o Cpus(o) \o Memory(o) \o h)
  BY <1>3, <1>5, BothShapes
<1>7. Shape(<<a, b, c>> \o Cpus(o) \o Memory(o) \o h \o Soc(o))
  BY <1>6, SocShape, BothShapes
<1>8. Shape(<<a, b, c>> \o Cpus(o) \o Memory(o) \o h \o Soc(o) \o Chosen(o))
  BY <1>7, ChosenShape, BothShapes
<1>. QED BY <1>2, <1>8, NodeShape

\* A sequence is one over its members.
LEMMA InOwnSet ==
    ASSUME NEW R, NEW v \in Seq(R)
    PROVE  v \in Seq(ToSet(v))
  BY DEF ToSet

\* So every call of a script has the parts that the writer needs.
LEMMA ScriptTyped ==
    ASSUME NEW o \in Options
    PROVE  /\ \E S : riscv_build_fdt(o) \in Seq(S)
           /\ Len(riscv_build_fdt(o)) \in Nat
           /\ \A k \in 1 .. Len(riscv_build_fdt(o)) :
                 Typed(riscv_build_fdt(o)[k]) /\ riscv_build_fdt(o)[k] \in Calls
<1>. DEFINE q == riscv_build_fdt(o)
<1>1. PICK S : q \in Seq(S) /\ \A c \in S : IsCall(c)
  BY ScriptShape DEF Shape, IsSequence
<1>2. ASSUME NEW k \in 1 .. Len(q) PROVE Typed(q[k]) /\ q[k] \in Calls
  <2>. DEFINE c == q[k]
  <2>1. c \in S /\ c \in ToSet(q)
    BY <1>1 DEF ToSet
  <2>2. IsCall(c)
    BY <1>1, <2>1
  <2>3. c \in Calls
    BY <2>1 DEF Calls
  <2>. HIDE DEF c
  <2>4. c.name \in Text
    BY <2>3 DEF Text
  <2>5. ASSUME NEW name, c = Begin(name) PROVE Typed(c)
    <3>1. c = Begin(name)
      BY <2>5
    <3>2. c.op = "begin" /\ c.name = name
      BY <3>1 DEF Begin
    <3>. QED BY <3>1, <3>2, <2>4 DEF Typed
  <2>6. ASSUME c = End PROVE Typed(c)
    <3>1. c.op = "end"
      BY <2>6 DEF End
    <3>. QED BY <3>1, <2>4, <2>6 DEF Typed
  <2>7. ASSUME NEW name, NEW v, NEW R, v \in Seq(R), c = Str(name, v) PROVE Typed(c)
    <3>1. v \in Seq(R) /\ c = Str(name, v)
      BY <2>7
    <3>2. c.op = "str" /\ c.name = name /\ c.value = v
      BY <3>1 DEF Str
    <3>3. ToSet(c.value) \subseteq Text
      BY <2>3, <3>2 DEF Text
    <3>4. c.value \in Seq(Text)
      <4>1. v \in Seq(ToSet(v))
        BY <3>1, InOwnSet
      <4>. QED BY <4>1, <3>2, <3>3, SeqWiden
    <3>. QED BY <3>1, <3>2, <3>4, <2>4 DEF Typed
  <2>8. ASSUME NEW name, NEW v, NEW R, v \in Seq(R), Len(v) > 0, c = U32(name, v)
        PROVE  Typed(c)
    <3>1. v \in Seq(R) /\ Len(v) > 0 /\ c = U32(name, v)
      BY <2>8
    <3>2. c.op = "u32" /\ c.name = name /\ c.value = v
      BY <3>1 DEF U32
    <3>3. ToSet(c.value) \subseteq Numbers
      BY <2>3, <3>2 DEF Numbers
    <3>4. c.value \in Seq(Numbers)
      <4>1. v \in Seq(ToSet(v))
        BY <3>1, InOwnSet
      <4>. QED BY <4>1, <3>2, <3>3, SeqWiden
    <3>. QED BY <3>1, <3>2, <3>4, <2>4 DEF Typed
  <2>9. Typed(c)
    BY <2>2, <2>5, <2>6, <2>7, <2>8, Zenon DEF IsCall, IsProp
  <2>. QED BY <2>3, <2>9 DEF c
<1>3. Len(q) \in Nat
  BY <1>1
<1>. QED BY <1>1, <1>2, <1>3

-----------------------------------------------------------------------------
(* What has been written.                                                  *)

\* words x + 1 to y of the structure block stand for c
StandsWith(f, c, x, y, off) ==
    /\ c.op \in {"str", "u32"} => OffsetOf(f.string_table, c.name, off)
    /\ x \in Nat /\ y = x + Len(CallWords(c, off)) /\ y <= Len(f.tab)
    /\ \A j \in 1 .. Len(CallWords(c, off)) : f.tab[x + j] = CallWords(c, off)[j]
Stands(f, c, x, y) == \E off \in Nat : StandsWith(f, c, x, y, off)

\* the first m calls of q fill the structure block, one after the other
EncodedAt(f, q, m, at) ==
    /\ at \in [0 .. m -> Nat] /\ at[0] = 0 /\ at[m] = Len(f.tab)
    /\ \A k \in 1 .. m : Stands(f, q[k], at[k - 1], at[k])
Encoded(f, q, m) == \E at : EncodedAt(f, q, m, at)

\* The words of a call are words.
LEMMA WordsType ==
    ASSUME NEW c, Typed(c), NEW off \in Nat
    PROVE  CallWords(c, off) \in Seq(Cells) /\ Len(CallWords(c, off)) \in Nat
<1>. DEFINE w == CallWords(c, off)
<1>. SUFFICES w \in Seq(Cells)
  OBVIOUS
<1>1. CASE c.op = "begin"
  <2>1. <<c.name>> \in Seq(Text)
    BY <1>1, CallLengths
  <2>2. Data(<<c.name>>) \in Seq(Cells)
    BY <2>1, DataType
  <2>3. <<Big(FDT_BEGIN_NODE)>> \in Seq(Cells)
    BY BigIsCell DEF FDT_BEGIN_NODE, Numbers
  <2>4. w = <<Big(FDT_BEGIN_NODE)>> \o Data(<<c.name>>)
    BY <1>1 DEF CallWords
  <2>. HIDE DEF w
  <2>. QED BY <2>2, <2>3, <2>4, Joined
<1>2. CASE c.op = "end"
  <2>1. w = <<Big(FDT_END_NODE)>>
    BY <1>2 DEF CallWords
  <2>2. <<Big(FDT_END_NODE)>> \in Seq(Cells)
    BY BigIsCell DEF FDT_END_NODE, Numbers
  <2>. QED BY <2>1, <2>2
<1>3. CASE c.op = "str"
  <2>1. c.value \in Seq(Text)
    BY <1>3 DEF Typed
  <2>2. Data(c.value) \in Seq(Cells) /\ Bytes(c.value) \in Nat
    BY <2>1, DataType
  <2>3. PropHead(Bytes(c.value), off) \in Seq(Cells)
    BY <2>2, HeadType
  <2>4. w = PropHead(Bytes(c.value), off) \o Data(c.value)
    BY <1>3 DEF CallWords
  <2>. HIDE DEF w
  <2>. QED BY <2>2, <2>3, <2>4, Joined
<1>4. CASE c.op = "u32"
  <2>. DEFINE d == [k \in 1 .. Len(c.value) |-> Big(c.value[k])]
  <2>1. c.value \in Seq(Numbers) /\ Len(c.value) \in Nat
    BY <1>4 DEF Typed
  <2>2. d \in Seq(Cells)
    <3>1. \A k \in 1 .. Len(c.value) : Big(c.value[k]) \in Cells
      BY <2>1, BigIsCell
    <3>. QED BY <2>1, <3>1
  <2>3. PropHead(4 * Len(c.value), off) \in Seq(Cells)
    BY <2>1, HeadType
  <2>4. w = PropHead(4 * Len(c.value), off) \o d
    BY <1>4 DEF CallWords
  <2>. HIDE DEF w, d
  <2>. QED BY <2>2, <2>3, <2>4, Joined
<1>. QED BY <1>1, <1>2, <1>3, <1>4 DEF Typed

\* A name stays where it is.
LEMMA OffsetLater ==
    ASSUME NEW t \in Seq(Text), NEW x \in Text, NEW name, NEW off, OffsetOf(t, name, off)
    PROVE  OffsetOf(Append(t, x), name, off)
<1>1. PICK j \in 1 .. Len(t) : t[j] = name /\ off = Ends(t)[j - 1]
  BY DEF OffsetOf
<1>2. Len(t) \in Nat /\ Len(Append(t, x)) = Len(t) + 1 /\ Append(t, x)[j] = t[j]
  OBVIOUS
<1>3. j - 1 \in 0 .. Len(t) /\ j \in 1 .. Len(Append(t, x))
  BY <1>2
<1>4. Ends(Append(t, x))[j - 1] = Ends(t)[j - 1]
  BY <1>3, TextLengths, EndsAppend
<1>. QED BY <1>1, <1>2, <1>3, <1>4 DEF OffsetOf

\* A call that was written stays written.
LEMMA StandsLater ==
    ASSUME NEW f \in States, NEW g \in States, NEW w \in Seq(Cells), NEW name \in Text,
           g.tab = f.tab \o w,
           g.string_table = f.string_table \/ g.string_table = Append(f.string_table, name),
           NEW c, Typed(c), NEW x, NEW y, Stands(f, c, x, y)
    PROVE  Stands(g, c, x, y)
<1>1. PICK off \in Nat : StandsWith(f, c, x, y, off)
  BY DEF Stands
<1>. DEFINE v == CallWords(c, off)
            L == Len(v)
            T == f.tab
<1>2. L \in Nat
  BY WordsType
<1>3. T \in Seq(Cells) /\ f.string_table \in Seq(Text)
  BY DEF States
<1>4. x \in Nat /\ y = x + L /\ y <= Len(T) /\ \A j \in 1 .. L : T[x + j] = v[j]
  BY <1>1 DEF StandsWith
<1>5. c.op \in {"str", "u32"} => OffsetOf(g.string_table, c.name, off)
  <2>. SUFFICES ASSUME c.op \in {"str", "u32"} PROVE OffsetOf(g.string_table, c.name, off)
    OBVIOUS
  <2>1. OffsetOf(f.string_table, c.name, off)
    BY <1>1 DEF StandsWith
  <2>2. OffsetOf(Append(f.string_table, name), c.name, off)
    BY <2>1, <1>3, OffsetLater
  <2>. QED BY <2>1, <2>2
<1>. HIDE DEF T
<1>6. Len(g.tab) = Len(T) + Len(w) /\ Len(T) \in Nat /\ Len(w) \in Nat
      /\ \A j \in 1 .. Len(T) : g.tab[j] = T[j]
  BY <1>3 DEF T
<1>. HIDE DEF v, L
<1>7. y <= Len(g.tab)
  BY <1>2, <1>4, <1>6
<1>8. ASSUME NEW j \in 1 .. L PROVE g.tab[x + j] = v[j]
  <2>1. x + j \in 1 .. Len(T)
    BY <1>2, <1>4, <1>6
  <2>. QED BY <2>1, <1>4, <1>6
<1>9. StandsWith(g, c, x, y, off)
  BY <1>4, <1>5, <1>7, <1>8, Zenon DEF StandsWith, v, L
<1>. QED BY <1>9 DEF Stands

\* The words that a call appends stand for it.
LEMMA StandsNow ==
    ASSUME NEW f \in States, NEW g, NEW c, Typed(c), Did(f, g, c)
    PROVE  Stands(g, c, Len(f.tab), Len(g.tab))
<1>1. PICK off \in Nat : /\ c.op \in {"str", "u32"} => OffsetOf(g.string_table, c.name, off)
                         /\ g.tab = f.tab \o CallWords(c, off)
  BY DEF Did
<1>. DEFINE v == CallWords(c, off)
            T == f.tab
<1>2. T \in Seq(Cells) /\ v \in Seq(Cells)
  BY WordsType DEF States
<1>3. /\ Len(T) \in Nat /\ Len(v) \in Nat
      /\ g.tab = T \o v /\ Len(g.tab) = Len(T) + Len(v)
      /\ \A j \in 1 .. Len(v) : g.tab[Len(T) + j] = v[j]
  <2>1. g.tab = T \o v
    BY <1>1
  <2>. HIDE DEF T, v
  <2>. QED BY <1>2, <2>1
<1>4. Len(g.tab) <= Len(g.tab)
  BY <1>3
<1>5. StandsWith(g, c, Len(T), Len(g.tab), off)
  BY <1>1, <1>3, <1>4, Zenon DEF StandsWith
<1>. QED BY <1>5 DEF Stands

\* So does every call before it.
LEMMA EncodedNext ==
    ASSUME NEW f \in States, NEW g, NEW q, NEW m \in Nat,
           \A k \in 1 .. m + 1 : Typed(q[k]), Encoded(f, q, m), Did(f, g, q[m + 1])
    PROVE  Encoded(g, q, m + 1)
<1>. DEFINE c == q[m + 1]
            L == Len(f.tab)
            M == Len(g.tab)
<1>1. PICK at : EncodedAt(f, q, m, at)
  BY DEF Encoded
<1>2. Typed(c) /\ c.name \in Text
  <2>1. m + 1 \in 1 .. m + 1
    OBVIOUS
  <2>2. Typed(c)
    BY <2>1
  <2>. QED BY <2>2 DEF Typed
<1>3. /\ g \in States
      /\ g.string_table = f.string_table \/ g.string_table = Append(f.string_table, c.name)
      /\ \E off \in Nat : g.tab = f.tab \o CallWords(c, off)
  BY DEF Did
<1>4. PICK w \in Seq(Cells) : g.tab = f.tab \o w
  BY <1>2, <1>3, WordsType
<1>5. Stands(g, c, L, M)
  BY <1>2, StandsNow
<1>. HIDE DEF c
<1>6. L \in Nat /\ M \in Nat
  BY <1>3 DEF States
<1>7. at \in [0 .. m -> Nat] /\ at[0] = 0 /\ at[m] = L
  BY <1>1 DEF EncodedAt
<1>8. ASSUME NEW k \in 1 .. m PROVE Stands(g, q[k], at[k - 1], at[k])
  <2>1. Stands(f, q[k], at[k - 1], at[k]) /\ Typed(q[k])
    <3>1. k \in 1 .. m + 1
      OBVIOUS
    <3>. QED BY <1>1, <3>1 DEF EncodedAt
  <2>. QED BY <2>1, <1>2, <1>3, <1>4, StandsLater
<1>. HIDE DEF L, M
<1>. DEFINE to == [k \in 0 .. m + 1 |-> IF k = m + 1 THEN M ELSE at[k]]
<1>9. /\ to \in [0 .. m + 1 -> Nat] /\ to[0] = 0 /\ to[m + 1] = M
      /\ \A k \in 0 .. m : to[k] = at[k]
  BY <1>6, <1>7
<1>. HIDE DEF to
<1>10. ASSUME NEW k \in 1 .. m + 1 PROVE Stands(g, q[k], to[k - 1], to[k])
  <2>1. CASE k \in 1 .. m
    <3>1. k - 1 \in 0 .. m /\ k \in 0 .. m
      BY <2>1
    <3>2. to[k - 1] = at[k - 1] /\ to[k] = at[k]
      BY <1>9, <3>1
    <3>. QED BY <2>1, <3>2, <1>8, Zenon
  <2>2. CASE k = m + 1
    <3>1. k - 1 = m /\ m \in 0 .. m
      BY <2>2
    <3>2. to[k - 1] = L /\ to[k] = M
      BY <1>7, <1>9, <2>2, <3>1
    <3>3. q[k] = c
      BY <2>2 DEF c
    <3>. QED BY <3>2, <3>3, <1>5, Zenon
  <2>. QED BY <2>1, <2>2
<1>11. EncodedAt(g, q, m + 1, to)
  BY <1>9, <1>10, Zenon DEF EncodedAt, M
<1>. QED BY <1>11 DEF Encoded

-----------------------------------------------------------------------------
(* The builder's invariant.                                                *)

\* what the first m calls of the script of o leave
Written(o, m, f) ==
    /\ f \in States /\ Allocated(f)
    /\ Encoded(f, riscv_build_fdt(o), m)
    /\ \E d : Depths(riscv_build_fdt(o), d) /\ f.open_node_count = d[m]
    /\ 4 * Len(f.tab) + Bytes(f.string_table) <= 1000 * m

\* the builder is n calls into the script of its options
BuildInv ==
    /\ opt \in Options /\ n \in 0 .. Len(riscv_build_fdt(opt))
    /\ Written(opt, n, s)
    /\ blob # << >> => n = Len(riscv_build_fdt(opt)) /\ blob = fdt_output(s)

\* Nothing is written before the first call.
LEMMA WrittenFirst ==
    ASSUME NEW o \in Options
    PROVE  Written(o, 0, fdt_init)
<1>. DEFINE q == riscv_build_fdt(o)
            f == fdt_init
<1>1. /\ f \in States /\ Len(f.tab) = 0 /\ f.tab_size = 0 /\ f.open_node_count = 0
      /\ f.string_table = << >> /\ f.string_table_size = 0
  <2>1. << >> \in Seq(Cells) /\ << >> \in Seq(Text) /\ 0 \in Nat /\ 0 \in Int /\ Len(<< >>) = 0
    OBVIOUS
  <2>. QED BY <2>1, Zenon DEF fdt_init, States
<1>. HIDE DEF f
<1>2. Bytes(f.string_table) = 0
  BY <1>1, NoBytes
<1>3. Allocated(f)
  BY <1>1, <1>2 DEF Allocated
<1>4. EncodedAt(f, q, 0, [k \in 0 .. 0 |-> 0])
  <2>. DEFINE at == [k \in 0 .. 0 |-> 0]
  <2>1. at \in [0 .. 0 -> Nat] /\ at[0] = 0
    OBVIOUS
  <2>2. at[0] = Len(f.tab) /\ \A k \in 1 .. 0 : Stands(f, q[k], at[k - 1], at[k])
    BY <1>1, <2>1
  <2>. HIDE DEF at
  <2>3. EncodedAt(f, q, 0, at)
    BY <2>1, <2>2, Zenon DEF EncodedAt
  <2>. QED BY <2>3 DEF at
<1>5. PICK d : Depths(q, d)
  BY ScriptShape DEF Shape
<1>6. f.open_node_count = d[0]
  BY <1>1, <1>5 DEF Depths
<1>7. 4 * Len(f.tab) + Bytes(f.string_table) <= 1000 * 0
  BY <1>1, <1>2
<1>8. Encoded(f, q, 0)
  BY <1>4, Zenon DEF Encoded
<1>. QED BY <1>1, <1>3, <1>5, <1>6, <1>7, <1>8, Zenon DEF Written, f

\* A call more.
LEMMA WrittenNext ==
    ASSUME NEW o \in Options, NEW m \in Nat, m < Len(riscv_build_fdt(o)),
           NEW f, Written(o, m, f), NEW g, Did(f, g, riscv_build_fdt(o)[m + 1])
    PROVE  Written(o, m + 1, g)
<1>. DEFINE q == riscv_build_fdt(o)
            c == q[m + 1]
<1>1. Len(q) \in Nat /\ m + 1 \in 1 .. Len(q) /\ \A k \in 1 .. m + 1 : Typed(q[k])
  <2>1. Len(q) \in Nat /\ \A k \in 1 .. Len(q) : Typed(q[k])
    BY ScriptTyped
  <2>. QED BY <2>1
<1>2. f \in States /\ Encoded(f, q, m)
  BY DEF Written
<1>3. Encoded(g, q, m + 1)
  BY <1>1, <1>2, EncodedNext
<1>4. g \in States /\ Allocated(g)
  BY DEF Did
<1>5. PICK d : Depths(q, d) /\ f.open_node_count = d[m]
  BY DEF Written
<1>6. g.open_node_count = d[m + 1]
  <2>1. d[m + 1] = d[m + 1 - 1] + Delta(c)
    BY <1>1, <1>5 DEF Depths
  <2>2. g.open_node_count = f.open_node_count + Delta(c)
    BY DEF Did, Delta
  <2>3. m + 1 - 1 = m
    OBVIOUS
  <2>. QED BY <2>1, <2>2, <2>3, <1>5
<1>7. CallBytes(c) < 1000 /\ CallBytes(c) \in Int
  <2>1. c \in ToSet(q)
    <3>1. PICK S : q \in Seq(S)
      BY ScriptTyped
    <3>. QED BY <3>1, <1>1 DEF ToSet
  <2>2. Typed(c)
    BY <1>1
  <2>3. strlen(c.name) \in Nat
    BY <2>2, CallLengths
  <2>4. c.op = "u32" => Len(c.value) \in Nat
    BY <2>2 DEF Typed
  <2>5. c.op # "u32" => Bytes(c.value) \in Nat
    <3>1. c.op # "u32" => c.value \in Seq(Text)
      BY <2>2, CallLengths, NoBytes DEF Typed
    <3>. QED BY <3>1, TextLengths, BytesType
  <2>. HIDE DEF c
  <2>6. CallBytes(c) \in Int
    <3>1. CASE c.op = "u32"
      BY <2>3, <2>4, <3>1 DEF CallBytes
    <3>2. CASE c.op # "u32"
      BY <2>3, <2>5, <3>2 DEF CallBytes
    <3>. QED BY <3>1, <3>2
  <2>. QED BY <2>1, <2>6, TreeFits
<1>8. 4 * Len(g.tab) + Bytes(g.string_table) <= 1000 * (m + 1)
  <2>. DEFINE x == 4 * Len(f.tab) + Bytes(f.string_table)
              y == 4 * Len(g.tab) + Bytes(g.string_table)
              z == CallBytes(c)
  <2>1. x <= 1000 * m /\ y <= x + z
    BY DEF Written, Did
  <2>2. x \in Int /\ y \in Int
    <3>1. /\ Bytes(f.string_table) \in Nat /\ Bytes(g.string_table) \in Nat
          /\ Len(f.tab) \in Nat /\ Len(g.tab) \in Nat
      BY <1>2, <1>4, TextLengths, BytesType DEF States
    <3>. QED BY <3>1
  <2>. HIDE DEF x, y, z
  <2>3. y <= 1000 * (m + 1)
    BY <2>1, <2>2, <1>7 DEF z
  <2>. QED BY <2>3 DEF y
<1>. QED BY <1>3, <1>4, <1>5, <1>6, <1>8, Zenon DEF Written

\* The builder's steps.
LEMMA BuildFirst == Init => BuildInv
<1>. SUFFICES ASSUME Init PROVE BuildInv
  OBVIOUS
<1>1. opt \in Options /\ n = 0 /\ s = fdt_init /\ blob = << >>
  BY DEF Init
<1>2. Len(riscv_build_fdt(opt)) \in Nat
  BY <1>1, ScriptTyped
<1>3. Written(opt, n, s)
  BY <1>1, WrittenFirst
<1>. QED BY <1>1, <1>2, <1>3 DEF BuildInv

\* A step of the builder keeps its invariant.
LEMMA BuildNext == BuildInv /\ BuildFdt => BuildInv' /\ opt' = opt
<1>. SUFFICES ASSUME BuildInv, BuildFdt PROVE BuildInv' /\ opt' = opt
  OBVIOUS
<1>. DEFINE q == riscv_build_fdt(opt)
            c == q[n + 1]
<1>1. /\ opt \in Options /\ n \in Nat /\ n <= Len(q) /\ Len(q) \in Nat
      /\ Written(opt, n, s) /\ s \in States /\ Allocated(s)
      /\ blob # << >> => n = Len(q) /\ blob = fdt_output(s)
  <2>1. opt \in Options /\ n \in 0 .. Len(q) /\ Written(opt, n, s)
        /\ (blob # << >> => n = Len(q) /\ blob = fdt_output(s))
    BY DEF BuildInv
  <2>2. Len(q) \in Nat
    BY <2>1, ScriptTyped
  <2>. QED BY <2>1, <2>2 DEF Written
<1>2. ASSUME n < Len(q), n' = n + 1, opt' = opt, blob' = blob, Did(s, s', c)
      PROVE  BuildInv' /\ opt' = opt
  <2>1. Written(opt, n + 1, s')
    BY <1>1, <1>2, WrittenNext
  <2>2. n + 1 \in 0 .. Len(q) /\ blob = << >>
    BY <1>1, <1>2
  <2>. QED BY <1>1, <1>2, <2>1, <2>2 DEF BuildInv
<1>3. n < Len(q) => Typed(c)
  <2>1. \A k \in 1 .. Len(q) : Typed(q[k])
    BY <1>1, ScriptTyped
  <2>. QED BY <1>1, <2>1
<1>4. CASE BeginNode
  <2>1. n < Len(q) /\ n' = n + 1 /\ opt' = opt /\ blob' = blob /\ c.op = "begin"
        /\ s' = fdt_begin_node(s, c.name)
    BY <1>4 DEF BeginNode, Step, Building, Asked
  <2>2. Did(s, s', c)
    BY <1>1, <1>3, <2>1, BeginDid
  <2>. QED BY <1>2, <2>1, <2>2
<1>5. CASE EndNode
  <2>1. n < Len(q) /\ n' = n + 1 /\ opt' = opt /\ blob' = blob /\ c.op = "end"
        /\ s' = fdt_end_node(s)
    BY <1>5 DEF EndNode, Step, Building, Asked
  <2>2. Did(s, s', c)
    BY <1>1, <1>3, <2>1, EndDid
  <2>. QED BY <1>2, <2>1, <2>2
<1>6. CASE PropStr
  <2>1. n < Len(q) /\ n' = n + 1 /\ opt' = opt /\ blob' = blob /\ c.op = "str"
        /\ s' = fdt_prop(s, c.name, c.value)
    BY <1>6 DEF PropStr, Step, Building, Asked
  <2>2. Did(s, s', c)
    BY <1>1, <1>3, <2>1, StrDid
  <2>. QED BY <1>2, <2>1, <2>2
<1>7. CASE PropU32
  <2>1. n < Len(q) /\ n' = n + 1 /\ opt' = opt /\ blob' = blob /\ c.op = "u32"
        /\ s' = fdt_prop_tab_u32(s, c.name, c.value)
    BY <1>7 DEF PropU32, Step, Building, Asked
  <2>2. Did(s, s', c)
    BY <1>1, <1>3, <2>1, U32Did
  <2>. QED BY <1>2, <2>1, <2>2
<1>8. CASE Output
  <2>1. ~(n < Len(q)) /\ blob' = fdt_output(s) /\ opt' = opt /\ n' = n /\ s' = s
    BY <1>8 DEF Output, Building
  <2>2. n = Len(q)
    BY <1>1, <2>1
  <2>3. Written(opt', n', s') /\ blob' = fdt_output(s')
    BY <1>1, <2>1
  <2>4. n' \in 0 .. Len(q) /\ n' = Len(q)
    BY <1>1, <2>1, <2>2
  <2>. QED BY <1>1, <2>1, <2>3, <2>4 DEF BuildInv
<1>. QED BY <1>4, <1>5, <1>6, <1>7, <1>8 DEF BuildFdt

\* The parts of the type invariant that are about the builder.
LEMMA BuildTypes ==
    ASSUME BuildInv
    PROVE  /\ opt \in Options /\ n \in 0 .. Len(riscv_build_fdt(opt))
           /\ Len(s.tab) <= s.tab_size /\ Bytes(s.string_table) <= s.string_table_size
           /\ s.open_node_count \in Nat
<1>. DEFINE q == riscv_build_fdt(opt)
<1>1. opt \in Options /\ n \in 0 .. Len(q) /\ Written(opt, n, s)
  BY DEF BuildInv
<1>2. PICK d : Depths(q, d) /\ s.open_node_count = d[n]
  BY <1>1 DEF Written
<1>3. d[n] \in Nat
  BY <1>1, <1>2 DEF Depths
<1>. QED BY <1>1, <1>2, <1>3 DEF Written, Allocated

-----------------------------------------------------------------------------
(* Where fdt_output puts what was written.                                 *)

\* the blob b holds f, its strings from so, and is total bytes long
LaidOut(b, f, so, total) ==
    /\ so \in Nat /\ total \in Nat /\ total <= 4 * Len(f.tab) + Bytes(f.string_table) + 74
    /\ {0, 4, 8, 12, 36} \subseteq DOMAIN b
    /\ b[0] = FDT_MAGIC /\ b[4] = Big(total) /\ b[8] = Big(40) /\ b[12] = Big(so)
    /\ b[36] = Big(4 * (Len(f.tab) + 1))
    /\ \A k \in 1 .. Len(f.tab) : 36 + 4 * k \in DOMAIN b /\ b[36 + 4 * k] = f.tab[k]
    /\ 40 + 4 * Len(f.tab) \in DOMAIN b /\ b[40 + 4 * Len(f.tab)] = Big(FDT_END)
    /\ \A j \in 1 .. Len(f.string_table) :
          /\ so + Ends(f.string_table)[j - 1] \in DOMAIN b
          /\ b[so + Ends(f.string_table)[j - 1]] = [string |-> f.string_table[j]]

\* The words of a piece, and that it has no others.
LEMMA PieceAt ==
    ASSUME NEW S, NEW w \in Seq(S), NEW base \in Nat
    PROVE  /\ \A k \in 1 .. Len(w) : /\ base + 4 * k - 4 \in DOMAIN Piece(base, w)
                                     /\ Piece(base, w)[base + 4 * k - 4] = w[k]
           /\ \A p \in DOMAIN Piece(base, w) : p \in Nat /\ base <= p /\ p < base + 4 * Len(w)
<1>. DEFINE D == {base + 4 * k : k \in 0 .. Len(w) - 1}
            g == Piece(base, w)
<1>1. DOMAIN g = D /\ \A p \in D : g[p] = w[((p - base) \div 4) + 1]
  BY DEF Piece
<1>2. Len(w) \in Nat
  OBVIOUS
<1>3. ASSUME NEW k \in 1 .. Len(w)
      PROVE  base + 4 * k - 4 \in D /\ g[base + 4 * k - 4] = w[k]
  <2>1. base + 4 * k - 4 = base + 4 * (k - 1) /\ k - 1 \in 0 .. Len(w) - 1
    BY <1>2
  <2>2. base + 4 * k - 4 \in D
    BY <2>1
  <2>3. ((base + 4 * k - 4 - base) \div 4) + 1 = k
    BY <1>2
  <2>. HIDE DEF D, g
  <2>. QED BY <1>1, <2>2, <2>3
<1>4. ASSUME NEW p \in D PROVE p \in Nat /\ base <= p /\ p < base + 4 * Len(w)
  BY <1>2
<1>. QED BY <1>1, <1>3, <1>4

\* Parts beside each other.
LEMMA BesideAt ==
    ASSUME NEW a, NEW b, NEW p
    PROVE  /\ p \in DOMAIN a => p \in DOMAIN Beside(a, b) /\ Beside(a, b)[p] = a[p]
           /\ p \in DOMAIN b /\ p \notin DOMAIN a =>
                 p \in DOMAIN Beside(a, b) /\ Beside(a, b)[p] = b[p]
           /\ p \in DOMAIN Beside(a, b) => p \in DOMAIN a \/ p \in DOMAIN b
  BY DEF Beside

\* Each string of the table is where its offset says.
StringTable(t, so) ==
    [p \in {so + Ends(t)[i - 1] : i \in DOMAIN t} |->
        [string |-> t[CHOOSE i \in DOMAIN t : so + Ends(t)[i - 1] = p]]]

\* It has them there, and nothing before the table.
LEMMA StringsAtOffsets ==
    ASSUME NEW t \in Seq(Text), NEW so \in Nat
    PROVE  LET g == StringTable(t, so)
           IN  /\ \A j \in 1 .. Len(t) : /\ so + Ends(t)[j - 1] \in DOMAIN g
                                         /\ g[so + Ends(t)[j - 1]] = [string |-> t[j]]
               /\ \A p \in DOMAIN g : p \in Nat /\ so <= p
<1>. DEFINE e == Ends(t)
            D == {so + e[j - 1] : j \in DOMAIN t}
            g == [p \in D |-> [string |-> t[CHOOSE j \in DOMAIN t : so + e[j - 1] = p]]]
<1>1. e \in [0 .. Len(t) -> Nat] /\ Len(t) \in Nat /\ DOMAIN t = 1 .. Len(t)
  BY TextLengths, EndsStep
<1>2. ASSUME NEW j \in 1 .. Len(t), NEW k \in 1 .. Len(t), so + e[j - 1] = so + e[k - 1]
      PROVE  j = k
  <2>1. j - 1 \in 0 .. Len(t) /\ k - 1 \in 0 .. Len(t)
    BY <1>1
  <2>2. e[j - 1] \in Nat /\ e[k - 1] \in Nat
    BY <1>1, <2>1
  <2>3. j < k => e[j - 1] < e[k - 1]
    <3>1. j < k => k - 1 \in (j - 1) + 1 .. Len(t)
      BY <1>1
    <3>. QED BY <2>1, <3>1, TextLengths, EndsGrow
  <2>4. k < j => e[k - 1] < e[j - 1]
    <3>1. k < j => j - 1 \in (k - 1) + 1 .. Len(t)
      BY <1>1
    <3>. QED BY <2>1, <3>1, TextLengths, EndsGrow
  <2>. HIDE DEF e
  <2>. QED BY <1>2, <2>2, <2>3, <2>4
<1>. HIDE DEF e
<1>3. ASSUME NEW j \in 1 .. Len(t)
      PROVE  so + e[j - 1] \in D /\ g[so + e[j - 1]] = [string |-> t[j]]
  <2>. DEFINE p == so + e[j - 1]
              i0 == CHOOSE k \in DOMAIN t : so + e[k - 1] = p
  <2>1. p \in D
    BY <1>1
  <2>2. i0 \in DOMAIN t /\ so + e[i0 - 1] = p
    <3>1. \E k \in DOMAIN t : so + e[k - 1] = p
      BY <1>1
    <3>. QED BY <3>1, Zenon
  <2>3. i0 = j
    <3>. HIDE DEF i0
    <3>. QED BY <2>2, <1>1, <1>2
  <2>4. g[p] = [string |-> t[i0]]
    <3>. HIDE DEF D
    <3>. QED BY <2>1, Zenon
  <2>. HIDE DEF i0, g, D
  <2>. QED BY <2>1, <2>3, <2>4
<1>4. DOMAIN g = D
  BY Zenon
<1>5. ASSUME NEW p \in D PROVE p \in Nat /\ so <= p
  <2>1. PICK j \in 1 .. Len(t) : p = so + e[j - 1]
    BY <1>1
  <2>2. j - 1 \in 0 .. Len(t)
    BY <1>1
  <2>3. e[j - 1] \in Nat
    BY <1>1, <2>2
  <2>. HIDE DEF D
  <2>. QED BY <2>1, <2>3
<1>. HIDE DEF D
<1>6. \A j \in 1 .. Len(t) : so + e[j - 1] \in DOMAIN g /\ g[so + e[j - 1]] = [string |-> t[j]]
  BY <1>3, <1>4, Zenon
<1>7. \A p \in DOMAIN g : p \in Nat /\ so <= p
  BY <1>4, <1>5, Zenon
<1>. QED BY <1>6, <1>7, Zenon DEF D, e, StringTable

\* Sequences of anything.
LEMMA JoinedAny ==
    ASSUME NEW S, NEW a \in Seq(S), NEW b \in Seq(S)
    PROVE  /\ a \o b \in Seq(S) /\ Len(a \o b) = Len(a) + Len(b)
           /\ \A k \in 1 .. Len(a) : (a \o b)[k] = a[k]
           /\ \A k \in 1 .. Len(b) : (a \o b)[Len(a) + k] = b[k]
  OBVIOUS

\* The header is ten words.
Header(a, b, c, d, e, f, g, h, j) ==
    <<FDT_MAGIC>> \o [k \in 1 .. 9 |-> [be |-> <<a, b, c, d, e, f, g, h, j>>[k]]]

\* The words of the header that a reader uses.
LEMMA HeaderWords ==
    ASSUME NEW a, NEW b, NEW c, NEW d, NEW e, NEW f, NEW g, NEW h, NEW j
    PROVE  LET w == Header(a, b, c, d, e, f, g, h, j)
           IN  /\ \E S : w \in Seq(S)
               /\ Len(w) = 10
               /\ w[1] = FDT_MAGIC /\ w[2] = Big(a) /\ w[3] = Big(b) /\ w[4] = Big(c)
               /\ w[10] = Big(j)
<1>. DEFINE x == <<a, b, c, d, e, f, g, h, j>>
            y == [k \in 1 .. 9 |-> [be |-> x[k]]]
            S == {FDT_MAGIC} \cup {y[k] : k \in 1 .. 9}
            z == <<FDT_MAGIC>>
            w == z \o y
<1>1. x[1] = a /\ x[2] = b /\ x[3] = c /\ x[9] = j
  OBVIOUS
<1>. HIDE DEF x
<1>2. y[1] = Big(a) /\ y[2] = Big(b) /\ y[3] = Big(c) /\ y[9] = Big(j)
  BY <1>1 DEF Big
<1>3. y \in Seq({y[k] : k \in 1 .. 9}) /\ Len(y) = 9
  OBVIOUS
<1>. HIDE DEF y
<1>4. y \in Seq(S) /\ z \in Seq(S) /\ Len(z) = 1 /\ z[1] = FDT_MAGIC
  <2>1. y \in Seq(S)
    BY <1>3, SeqWiden
  <2>. QED BY <2>1
<1>. HIDE DEF S, z
<1>5. w \in Seq(S) /\ Len(w) = 10 /\ w[1] = z[1] /\ w[2] = y[1] /\ w[3] = y[2] /\ w[4] = y[3] /\ w[10] = y[9]
  <2>1. /\ w \in Seq(S) /\ Len(w) = Len(z) + Len(y)
        /\ \A k \in 1 .. Len(z) : w[k] = z[k]
        /\ \A k \in 1 .. Len(y) : w[Len(z) + k] = y[k]
    <3>1. y \in Seq(S) /\ z \in Seq(S)
      BY <1>4, Zenon
    <3>2. /\ z \o y \in Seq(S) /\ Len(z \o y) = Len(z) + Len(y)
          /\ \A k \in 1 .. Len(z) : (z \o y)[k] = z[k]
          /\ \A k \in 1 .. Len(y) : (z \o y)[Len(z) + k] = y[k]
      BY <3>1, JoinedAny
    <3>. QED BY <3>2, Zenon
  <2>. HIDE DEF w
  <2>. QED BY <1>3, <1>4, <2>1
<1>. HIDE DEF w
<1>6. /\ \E R : w \in Seq(R)
      /\ Len(w) = 10
      /\ w[1] = FDT_MAGIC /\ w[2] = Big(a) /\ w[3] = Big(b) /\ w[4] = Big(c)
      /\ w[10] = Big(j)
  BY <1>2, <1>4, <1>5
<1>. QED BY <1>6, Zenon DEF w, y, x, z, Header

\* fdt_output puts the words, FDT_END and the strings where the header says.
LEMMA OutputLaysOut ==
    ASSUME NEW f \in States, Allocated(f)
    PROVE  \E so, total : LaidOut(fdt_output(f), f, so, total)
<1>. DEFINE g == fdt_put32(f, FDT_END)
            t == g.string_table
            rsv == Align(40 + 4 * Len(g.tab), 8)
            so == rsv + 16
            total == Align(so + Bytes(t), 8)
            header == Header(total, 40, so, rsv, FDT_VERSION, 16, 0, Bytes(t), 4 * Len(g.tab))
            strings == StringTable(t, so)
            none == [k \in 1 .. 4 |-> [be |-> 0]]
            H == Piece(0, header)
            W == Piece(40, g.tab)
            R == Piece(rsv, none)
            X == Beside(H, W)
            Y == Beside(R, strings)
            b == Beside(X, Y)
            M == Len(f.tab)
<1>1. fdt_output(f) = b
  BY Zenon DEF fdt_output, Header, StringTable
<1>2. /\ g.tab = f.tab \o <<Big(FDT_END)>> /\ t = f.string_table /\ f.tab \in Seq(Cells)
      /\ M \in Nat /\ Len(g.tab) = M + 1 /\ g.tab \in Seq(Cells) /\ t \in Seq(Text)
  <2>1. FDT_END \in Numbers
    BY DEF FDT_END, Numbers
  <2>2. g \in States /\ g.tab = f.tab \o <<Big(FDT_END)>> /\ Len(g.tab) = M + 1
        /\ g.string_table = f.string_table
    BY <2>1, Put32Appends
  <2>. QED BY <2>2 DEF States
<1>3. \A k \in 1 .. M : g.tab[k] = f.tab[k]
  BY <1>2
<1>4. g.tab[M + 1] = Big(FDT_END)
  BY <1>2
<1>5. Bytes(t) \in Nat
  BY <1>2, TextLengths, BytesType
<1>. HIDE DEF g, t
<1>6. rsv \in Nat /\ 44 + 4 * M <= rsv /\ rsv < 52 + 4 * M
  <2>1. 40 + 4 * Len(g.tab) = 44 + 4 * M /\ 44 + 4 * M \in Nat
    BY <1>2
  <2>. DEFINE x == 44 + 4 * M
  <2>2. rsv = Align(x, 8)
    BY <2>1
  <2>. HIDE DEF x, rsv
  <2>3. rsv \in Nat /\ x <= rsv /\ rsv < x + 8
    BY <2>1, <2>2, Aligned8 DEF x
  <2>. QED BY <1>2, <2>3 DEF x
<1>. HIDE DEF rsv
<1>7. so \in Nat /\ so = rsv + 16
  BY <1>6
<1>. HIDE DEF so
<1>8. total \in Nat /\ total <= 4 * M + Bytes(t) + 74
  <2>1. so + Bytes(t) \in Nat
    BY <1>5, <1>7
  <2>2. total \in Nat /\ total < so + Bytes(t) + 8
    BY <2>1, Aligned8
  <2>. HIDE DEF total
  <2>. QED BY <1>2, <1>5, <1>6, <1>7, <2>2
<1>. HIDE DEF total
<1>9. /\ \E S : header \in Seq(S)
      /\ Len(header) = 10
      /\ header[1] = FDT_MAGIC /\ header[2] = Big(total) /\ header[3] = Big(40)
      /\ header[4] = Big(so) /\ header[10] = Big(4 * (M + 1))
  <2>1. /\ \E S : header \in Seq(S)
        /\ Len(header) = 10
        /\ header[1] = FDT_MAGIC /\ header[2] = Big(total) /\ header[3] = Big(40)
        /\ header[4] = Big(so) /\ header[10] = Big(4 * Len(g.tab))
    BY HeaderWords
  <2>. HIDE DEF header
  <2>. QED BY <1>2, <2>1
<1>. HIDE DEF header
<1>10. /\ \A k \in 1 .. 10 : 0 + 4 * k - 4 \in DOMAIN H /\ H[0 + 4 * k - 4] = header[k]
       /\ \A p \in DOMAIN H : p \in Nat /\ p < 40
  <2>1. PICK S : header \in Seq(S)
    BY <1>9
  <2>2. /\ \A k \in 1 .. Len(header) : 0 + 4 * k - 4 \in DOMAIN H /\ H[0 + 4 * k - 4] = header[k]
        /\ \A p \in DOMAIN H : p \in Nat /\ 0 <= p /\ p < 0 + 4 * Len(header)
    BY <2>1, PieceAt
  <2>. HIDE DEF H
  <2>. QED BY <1>9, <2>2
<1>11. /\ \A k \in 1 .. M + 1 : 40 + 4 * k - 4 \in DOMAIN W /\ W[40 + 4 * k - 4] = g.tab[k]
       /\ \A p \in DOMAIN W : p \in Nat /\ 40 <= p /\ p < 44 + 4 * M
  <2>1. /\ \A k \in 1 .. Len(g.tab) : 40 + 4 * k - 4 \in DOMAIN W /\ W[40 + 4 * k - 4] = g.tab[k]
        /\ \A p \in DOMAIN W : p \in Nat /\ 40 <= p /\ p < 40 + 4 * Len(g.tab)
    BY <1>2, PieceAt
  <2>2. Len(g.tab) = M + 1 /\ 40 + 4 * Len(g.tab) = 44 + 4 * M
    BY <1>2
  <2>. HIDE DEF W, M
  <2>. QED BY <2>1, <2>2
<1>12. \A p \in DOMAIN R : p \in Nat /\ rsv <= p /\ p < so
  <2>1. none \in Seq({[be |-> 0]}) /\ Len(none) = 4
    OBVIOUS
  <2>. HIDE DEF none
  <2>2. \A p \in DOMAIN R : p \in Nat /\ rsv <= p /\ p < rsv + 4 * Len(none)
    BY <1>6, <2>1, PieceAt
  <2>. HIDE DEF R
  <2>. QED BY <1>7, <2>1, <2>2
<1>13. /\ \A j \in 1 .. Len(t) : /\ so + Ends(t)[j - 1] \in DOMAIN strings
                                 /\ strings[so + Ends(t)[j - 1]] = [string |-> t[j]]
       /\ \A p \in DOMAIN strings : p \in Nat /\ so <= p
  BY <1>2, <1>7, StringsAtOffsets
<1>. HIDE DEF H, W, R, strings, none, X, Y, b
<1>14. \A p \in DOMAIN H : p \in DOMAIN b /\ b[p] = H[p]
  <2>. SUFFICES ASSUME NEW p \in DOMAIN H PROVE p \in DOMAIN b /\ b[p] = H[p]
    OBVIOUS
  <2>1. p \in DOMAIN X /\ X[p] = H[p]
    BY BesideAt DEF X
  <2>2. p \in DOMAIN b /\ b[p] = X[p]
    BY <2>1, BesideAt DEF b
  <2>. QED BY <2>1, <2>2
<1>15. \A p \in DOMAIN W : p \in DOMAIN b /\ b[p] = W[p]
  <2>. SUFFICES ASSUME NEW p \in DOMAIN W PROVE p \in DOMAIN b /\ b[p] = W[p]
    OBVIOUS
  <2>1. p \notin DOMAIN H
    <3>1. p \in Nat /\ 40 <= p
      BY <1>11
    <3>2. p \in DOMAIN H => p < 40
      BY <1>10
    <3>. QED BY <3>1, <3>2
  <2>2. p \in DOMAIN X /\ X[p] = W[p]
    BY <2>1, BesideAt DEF X
  <2>3. p \in DOMAIN b /\ b[p] = X[p]
    BY <2>2, BesideAt DEF b
  <2>. QED BY <2>2, <2>3
<1>16. \A p \in DOMAIN strings : p \in DOMAIN b /\ b[p] = strings[p]
  <2>. SUFFICES ASSUME NEW p \in DOMAIN strings PROVE p \in DOMAIN b /\ b[p] = strings[p]
    OBVIOUS
  <2>1. p \in Nat /\ so <= p
    BY <1>13
  <2>2. p \notin DOMAIN H /\ p \notin DOMAIN W /\ p \notin DOMAIN R
    <3>1. ~(p < so) /\ ~(p < 40) /\ ~(p < 44 + 4 * M)
      BY <2>1, <1>2, <1>6, <1>7
    <3>. QED BY <3>1, <1>10, <1>11, <1>12
  <2>3. p \notin DOMAIN X
    BY <2>2, BesideAt DEF X
  <2>4. p \in DOMAIN Y /\ Y[p] = strings[p]
    BY <2>2, BesideAt DEF Y
  <2>5. p \in DOMAIN b /\ b[p] = Y[p]
    BY <2>3, <2>4, BesideAt DEF b
  <2>. QED BY <2>4, <2>5
<1>17. /\ {0, 4, 8, 12, 36} \subseteq DOMAIN b
       /\ b[0] = FDT_MAGIC /\ b[4] = Big(total) /\ b[8] = Big(40) /\ b[12] = Big(so)
       /\ b[36] = Big(4 * (M + 1))
  <2>1. /\ 0 \in DOMAIN H /\ H[0] = header[1] /\ 4 \in DOMAIN H /\ H[4] = header[2]
        /\ 8 \in DOMAIN H /\ H[8] = header[3] /\ 12 \in DOMAIN H /\ H[12] = header[4]
        /\ 36 \in DOMAIN H /\ H[36] = header[10]
    <3>1. \A k \in 1 .. 10 : 4 * k - 4 \in DOMAIN H /\ H[4 * k - 4] = header[k]
      BY <1>10
    <3>. QED BY <3>1
  <2>. QED BY <1>9, <1>14, <2>1
<1>18. ASSUME NEW k \in 1 .. M + 1 PROVE 36 + 4 * k \in DOMAIN b /\ b[36 + 4 * k] = g.tab[k]
  <2>1. 40 + 4 * k - 4 = 36 + 4 * k
    BY <1>2
  <2>. QED BY <1>11, <1>15, <2>1
<1>19. \A k \in 1 .. M : 36 + 4 * k \in DOMAIN b /\ b[36 + 4 * k] = f.tab[k]
  <2>. SUFFICES ASSUME NEW k \in 1 .. M PROVE 36 + 4 * k \in DOMAIN b /\ b[36 + 4 * k] = f.tab[k]
    OBVIOUS
  <2>1. k \in 1 .. M + 1
    BY <1>2
  <2>. QED BY <1>3, <1>18, <2>1
<1>20. 40 + 4 * M \in DOMAIN b /\ b[40 + 4 * M] = Big(FDT_END)
  <2>1. M + 1 \in 1 .. M + 1 /\ 36 + 4 * (M + 1) = 40 + 4 * M
    BY <1>2
  <2>. QED BY <1>4, <1>18, <2>1
<1>21. \A j \in 1 .. Len(t) : /\ so + Ends(t)[j - 1] \in DOMAIN b
                              /\ b[so + Ends(t)[j - 1]] = [string |-> t[j]]
  BY <1>13, <1>16
<1>22. LaidOut(b, f, so, total)
  BY <1>2, <1>7, <1>8, <1>17, <1>19, <1>20, <1>21, Zenon DEF LaidOut
<1>. QED BY <1>1, <1>22

-----------------------------------------------------------------------------
(* The reader.                                                             *)

\* the blob is laid out
Blob(so, total) == s \in States /\ Allocated(s) /\ LaidOut(blob, s, so, total)

\* where the reader is after k calls
Place(at, k) == 40 + 4 * at[k]

\* Words of the structure block are found where they were put.
LEMMA WordAt ==
    ASSUME NEW so, NEW total, Blob(so, total), NEW k \in 1 .. Len(s.tab)
    PROVE  At(36 + 4 * k) = s.tab[k]
  BY DEF Blob, LaidOut, At

\* A number that was put is read.
LEMMA NumberOf ==
    ASSUME NEW p, NEW v, At(p) = Big(v)
    PROVE  Number(p) = v /\ "be" \in DOMAIN At(p)
<1>1. DOMAIN Big(v) = {"be"} /\ Big(v).be = v
  BY DEF Big
<1>. QED BY <1>1 DEF Number

\* A name is read at its offset.
LEMMA NameFound ==
    ASSUME NEW so, NEW total, Blob(so, total), NEW name, NEW off \in Nat,
           OffsetOf(s.string_table, name, off)
    PROVE  Number(12) = so /\ StringAt(so + off) = name
<1>. DEFINE t == s.string_table
<1>1. PICK j \in 1 .. Len(t) : t[j] = name /\ off = Ends(t)[j - 1]
  BY DEF OffsetOf
<1>2. so + off \in DOMAIN blob /\ blob[so + off] = [string |-> name]
  BY <1>1 DEF Blob, LaidOut
<1>3. At(so + off) = [string |-> name]
  BY <1>2 DEF At
<1>4. StringAt(so + off) = name
  <2>1. DOMAIN [string |-> name] = {"string"} /\ [string |-> name].string = name
    OBVIOUS
  <2>. QED BY <2>1, <1>3 DEF StringAt
<1>5. At(12) = Big(so)
  BY DEF Blob, LaidOut, At
<1>. QED BY <1>4, <1>5, NumberOf

\* the words of a call, from its place
LEMMA CallWordAt ==
    ASSUME NEW so, NEW total, Blob(so, total), NEW c, Typed(c),
           NEW x, NEW y, NEW off \in Nat, StandsWith(s, c, x, y, off)
    PROVE  /\ x \in Nat /\ y = x + Len(CallWords(c, off)) /\ Len(CallWords(c, off)) \in Nat
           /\ \A j \in 1 .. Len(CallWords(c, off)) : At(36 + 4 * (x + j)) = CallWords(c, off)[j]
<1>. DEFINE w == CallWords(c, off)
<1>1. x \in Nat /\ y = x + Len(w) /\ y <= Len(s.tab) /\ \A j \in 1 .. Len(w) : s.tab[x + j] = w[j]
  BY DEF StandsWith
<1>2. Len(w) \in Nat /\ Len(s.tab) \in Nat
  BY WordsType DEF Blob, States
<1>. HIDE DEF w
<1>3. ASSUME NEW j \in 1 .. Len(w) PROVE At(36 + 4 * (x + j)) = w[j]
  <2>1. x + j \in 1 .. Len(s.tab)
    BY <1>1, <1>2
  <2>2. At(36 + 4 * (x + j)) = s.tab[x + j]
    BY <2>1, WordAt
  <2>. QED BY <1>1, <2>2
<1>. QED BY <1>1, <1>2, <1>3 DEF w

\* Bytes that were put as one are read as one.
LEMMA DataFound ==
    ASSUME NEW v \in Seq(Text), v # << >>, NEW p \in Nat,
           \A k \in 1 .. Len(Data(v)) : At(p + 4 * (k - 1)) = Data(v)[k]
    PROVE  /\ 1 \in 1 .. Len(Data(v)) /\ At(p) = [of |-> v, word |-> 1]
           /\ "be" \notin DOMAIN At(p) /\ Bytes(v) > 0
           /\ StringsAt(p, Bytes(v)) = v
           /\ Len(v) = 1 => NameAt(p) = v[1]
<1>1. /\ Bytes(v) \in Nat /\ Bytes(v) # 0 /\ Len(Data(v)) = Align(Bytes(v), 4) \div 4
      /\ Len(Data(v)) \in Nat
      /\ \A k \in 1 .. Len(Data(v)) : Data(v)[k] = [of |-> v, word |-> k]
  <2>1. Bytes(v) \in Nat /\ (Bytes(v) = 0 <=> v = << >>)
    BY TextLengths, BytesType
  <2>2. /\ Len(Data(v)) = Align(Bytes(v), 4) \div 4 /\ Len(Data(v)) \in Nat
        /\ \A k \in 1 .. Len(Data(v)) : Data(v)[k] = [of |-> v, word |-> k]
    BY DataType
  <2>. QED BY <2>1, <2>2
<1>2. 1 \in 1 .. Len(Data(v))
  <2>1. 4 * (Align(Bytes(v), 4) \div 4) = Align(Bytes(v), 4) /\ Bytes(v) <= Align(Bytes(v), 4)
    BY <1>1, Aligned
  <2>. DEFINE z == Align(Bytes(v), 4) \div 4
              a == Align(Bytes(v), 4)
              b == Bytes(v)
  <2>2. z \in Nat /\ 4 * z = a /\ b <= a /\ b \in Nat /\ b # 0 /\ Len(Data(v)) = z
    BY <1>1, <2>1
  <2>. HIDE DEF z, a, b
  <2>. QED BY <2>2
<1>. DEFINE w == At(p)
            z == Len(Data(v))
<1>3. w = [of |-> v, word |-> 1]
  <2>1. p + 4 * (1 - 1) = p
    OBVIOUS
  <2>. QED BY <1>1, <1>2, <2>1
<1>4. DOMAIN w = {"of", "word"} /\ w.of = v
  BY <1>3
<1>5. \A k \in 1 .. z : At(p + 4 * (k - 1)) = [of |-> v, word |-> k]
  BY <1>1
<1>6. StringsAt(p, Bytes(v)) = IF /\ "of" \in DOMAIN w /\ Bytes(w.of) = Bytes(v)
                                  /\ \A k \in 1 .. z : At(p + 4 * (k - 1)) = [of |-> w.of, word |-> k]
                               THEN w.of ELSE <<"?">>
  BY <1>1, Zenon DEF StringsAt
<1>. HIDE DEF w, z
<1>7. StringsAt(p, Bytes(v)) = v
  <2>1. "of" \in DOMAIN w /\ Bytes(w.of) = Bytes(v)
    BY <1>4
  <2>2. \A k \in 1 .. z : At(p + 4 * (k - 1)) = [of |-> w.of, word |-> k]
    BY <1>4, <1>5
  <2>. QED BY <1>4, <1>6, <2>1, <2>2, Zenon
<1>8. NameAt(p) = IF "of" \in DOMAIN w /\ Len(w.of) = 1 THEN w.of[1] ELSE "?"
  BY Zenon DEF NameAt, w
<1>9. Len(v) = 1 => NameAt(p) = v[1]
  BY <1>4, <1>8
<1>10. "be" \notin DOMAIN w
  BY <1>4
<1>. QED BY <1>1, <1>2, <1>3, <1>7, <1>9, <1>10 DEF w

\* What the reader makes of the words of a call.
ReadAs(c, x, y) ==
    /\ x \in Nat /\ y \in Nat /\ x < y
    /\ Number(40 + 4 * x) # FDT_END
    /\ CallAt(40 + 4 * x) = c /\ After(40 + 4 * x) = 40 + 4 * y

\* A node that was opened is read as one.
LEMMA BeginRead ==
    ASSUME NEW so, NEW total, Blob(so, total), NEW c, Typed(c), c.op = "begin",
           NEW x, NEW y, NEW off \in Nat, StandsWith(s, c, x, y, off)
    PROVE  ReadAs(c, x, y)
<1>. DEFINE v == <<c.name>>
            h == <<Big(FDT_BEGIN_NODE)>>
            w == h \o Data(v)
            p == 40 + 4 * x
            z == Len(Data(v))
<1>1. CallWords(c, off) = w
  BY DEF CallWords
<1>2. v \in Seq(Text) /\ v # << >> /\ Len(v) = 1 /\ v[1] = c.name
      /\ Bytes(v) = strlen(c.name) + 1 /\ strlen(c.name) \in Nat
  BY CallLengths
<1>. HIDE DEF v
<1>3. Data(v) \in Seq(Cells) /\ z \in Nat /\ z = Align(Bytes(v), 4) \div 4 /\ Bytes(v) \in Nat
  BY <1>2, DataType
<1>4. h \in Seq(Cells) /\ Len(h) = 1 /\ h[1] = Big(FDT_BEGIN_NODE)
  BY BigIsCell DEF FDT_BEGIN_NODE, Numbers
<1>. HIDE DEF h
<1>5. Len(w) = 1 + z /\ w[1] = Big(FDT_BEGIN_NODE) /\ \A k \in 1 .. z : w[1 + k] = Data(v)[k]
  <2>1. /\ Len(h \o Data(v)) = Len(h) + Len(Data(v))
        /\ \A k \in 1 .. Len(h) : (h \o Data(v))[k] = h[k]
        /\ \A k \in 1 .. Len(Data(v)) : (h \o Data(v))[Len(h) + k] = Data(v)[k]
    <3>1. h \in Seq(Cells) /\ Data(v) \in Seq(Cells)
      BY <1>3, <1>4
    <3>. QED BY <3>1, JoinedAny
  <2>. HIDE DEF w
  <2>2. h \o Data(v) = w
    BY DEF w
  <2>. QED BY <1>3, <1>4, <2>1, <2>2
<1>. HIDE DEF w
<1>6. x \in Nat /\ y = x + (1 + z) /\ \A j \in 1 .. 1 + z : At(36 + 4 * (x + j)) = w[j]
  BY <1>1, <1>5, CallWordAt
<1>. HIDE DEF z
<1>7. At(p) = Big(FDT_BEGIN_NODE)
  <2>1. 1 \in 1 .. 1 + z /\ 36 + 4 * (x + 1) = p
    BY <1>3, <1>6
  <2>. QED BY <1>5, <1>6, <2>1
<1>8. ASSUME NEW k \in 1 .. z PROVE At(p + 4 + 4 * (k - 1)) = Data(v)[k]
  <2>1. 1 + k \in 1 .. 1 + z /\ 36 + 4 * (x + (1 + k)) = p + 4 + 4 * (k - 1)
    BY <1>3, <1>6
  <2>. QED BY <1>5, <1>6, <2>1
<1>9. p \in Nat /\ p + 4 \in Nat
  BY <1>6
<1>. HIDE DEF p
<1>10. NameAt(p + 4) = c.name
  BY <1>2, <1>8, <1>9, DataFound DEF z
<1>11. Number(p) = FDT_BEGIN_NODE
  BY <1>7, NumberOf
<1>12. CallAt(p) = c
  <2>1. CallAt(p) = Begin(c.name)
    BY <1>10, <1>11 DEF CallAt, FDT_BEGIN_NODE, FDT_END_NODE, FDT_PROP
  <2>. QED BY <2>1 DEF Typed
<1>13. After(p) = 40 + 4 * y
  <2>1. After(p) = p + 4 + Align(Bytes(v), 4)
    BY <1>2, <1>10, <1>11 DEF After, FDT_BEGIN_NODE, FDT_PROP
  <2>2. Align(Bytes(v), 4) = 4 * z
    BY <1>3, Aligned
  <2>3. z \in Nat /\ x \in Nat /\ y = x + (1 + z) /\ After(p) = p + 4 + 4 * z
    BY <1>3, <1>6, <2>1, <2>2, Zenon
  <2>. QED BY <2>3 DEF p
<1>14. y \in Nat /\ x < y
  BY <1>3, <1>6
<1>15. Number(p) # FDT_END
  BY <1>11 DEF FDT_END, FDT_BEGIN_NODE
<1>. QED BY <1>6, <1>12, <1>13, <1>14, <1>15 DEF ReadAs, p

\* A node that was closed is read as one.
LEMMA EndRead ==
    ASSUME NEW so, NEW total, Blob(so, total), NEW c, Typed(c), c.op = "end",
           NEW x, NEW y, NEW off \in Nat, StandsWith(s, c, x, y, off)
    PROVE  ReadAs(c, x, y)
<1>. DEFINE p == 40 + 4 * x
            w == <<Big(FDT_END_NODE)>>
<1>1. CallWords(c, off) = w
  BY DEF CallWords
<1>2. Len(w) = 1 /\ w[1] = Big(FDT_END_NODE)
  OBVIOUS
<1>. HIDE DEF w
<1>3. x \in Nat /\ y = x + 1 /\ \A j \in 1 .. 1 : At(36 + 4 * (x + j)) = w[j]
  <2>1. x \in Nat /\ y = x + Len(w) /\ \A j \in 1 .. Len(w) : At(36 + 4 * (x + j)) = w[j]
    BY <1>1, CallWordAt
  <2>. QED BY <1>2, <2>1
<1>4. At(p) = Big(FDT_END_NODE)
  <2>1. 1 \in 1 .. 1 /\ 36 + 4 * (x + 1) = p
    BY <1>3
  <2>. QED BY <1>2, <1>3, <2>1
<1>. HIDE DEF p
<1>5. Number(p) = FDT_END_NODE
  BY <1>4, NumberOf
<1>6. CallAt(p) = c
  <2>1. CallAt(p) = End
    BY <1>5 DEF CallAt, FDT_BEGIN_NODE, FDT_END_NODE, FDT_PROP
  <2>. QED BY <2>1 DEF Typed
<1>7. After(p) = 40 + 4 * y
  <2>1. After(p) = p + 4
    BY <1>5 DEF After, FDT_BEGIN_NODE, FDT_END_NODE, FDT_PROP
  <2>. QED BY <1>3, <2>1 DEF p
<1>8. y \in Nat /\ x < y /\ Number(p) # FDT_END
  BY <1>3, <1>5 DEF FDT_END, FDT_END_NODE
<1>. QED BY <1>3, <1>6, <1>7, <1>8 DEF ReadAs, p

\* The head of a property, and the words after it.
PropFound(c, x, y, len, v) ==
    LET p == 40 + 4 * x
    IN  /\ x \in Nat /\ p \in Nat /\ y = x + 3 + Len(v) /\ Len(v) \in Nat
        /\ Number(p) = FDT_PROP /\ Number(p + 4) = len
        /\ StringAt(Number(12) + Number(p + 8)) = c.name
        /\ \A k \in 1 .. Len(v) : At(p + 12 + 4 * (k - 1)) = v[k]

\* It is found where a property was written.
LEMMA PropRead ==
    ASSUME NEW so, NEW total, Blob(so, total), NEW c, Typed(c), c.op \in {"str", "u32"},
           NEW x, NEW y, NEW off \in Nat, StandsWith(s, c, x, y, off),
           NEW len \in Nat, NEW v \in Seq(Cells), CallWords(c, off) = PropHead(len, off) \o v
    PROVE  PropFound(c, x, y, len, v)
<1>. DEFINE h == PropHead(len, off)
            w == h \o v
            p == 40 + 4 * x
            z == Len(v)
<1>1. h \in Seq(Cells) /\ Len(h) = 3 /\ z \in Nat
  BY HeadType
<1>2. h[1] = Big(FDT_PROP) /\ h[2] = Big(len) /\ h[3] = Big(off)
  BY DEF PropHead
<1>. HIDE DEF h
<1>3. /\ Len(w) = 3 + z /\ w[1] = h[1] /\ w[2] = h[2] /\ w[3] = h[3]
      /\ \A k \in 1 .. z : w[3 + k] = v[k]
  <2>1. /\ Len(h \o v) = Len(h) + Len(v)
        /\ \A k \in 1 .. Len(h) : (h \o v)[k] = h[k]
        /\ \A k \in 1 .. Len(v) : (h \o v)[Len(h) + k] = v[k]
    <3>1. h \in Seq(Cells) /\ v \in Seq(Cells)
      BY <1>1
    <3>. QED BY <3>1, JoinedAny
  <2>2. h \o v = w
    BY DEF w
  <2>. HIDE DEF w
  <2>. QED BY <1>1, <2>1, <2>2
<1>. HIDE DEF z
<1>4. x \in Nat /\ y = x + (3 + z) /\ \A j \in 1 .. 3 + z : At(36 + 4 * (x + j)) = w[j]
  <2>1. CallWords(c, off) = w
    BY DEF h
  <2>. HIDE DEF w
  <2>. QED BY <1>3, <2>1, CallWordAt
<1>. HIDE DEF w
<1>5. At(p) = Big(FDT_PROP) /\ At(p + 4) = Big(len) /\ At(p + 8) = Big(off)
  <2>1. 1 \in 1 .. 3 + z /\ 2 \in 1 .. 3 + z /\ 3 \in 1 .. 3 + z
    BY <1>1
  <2>2. 36 + 4 * (x + 1) = p /\ 36 + 4 * (x + 2) = p + 4 /\ 36 + 4 * (x + 3) = p + 8
    BY <1>4
  <2>. QED BY <1>2, <1>3, <1>4, <2>1, <2>2
<1>6. ASSUME NEW k \in 1 .. z PROVE At(p + 12 + 4 * (k - 1)) = v[k]
  <2>1. 3 + k \in 1 .. 3 + z /\ 36 + 4 * (x + (3 + k)) = p + 12 + 4 * (k - 1)
    BY <1>1, <1>4
  <2>. QED BY <1>3, <1>4, <2>1
<1>7. p \in Nat /\ y = x + 3 + z
  BY <1>1, <1>4
<1>. HIDE DEF p
<1>8. Number(p) = FDT_PROP /\ Number(p + 4) = len /\ Number(p + 8) = off
  BY <1>5, NumberOf
<1>9. StringAt(Number(12) + Number(p + 8)) = c.name
  <2>1. OffsetOf(s.string_table, c.name, off)
    BY DEF StandsWith
  <2>. QED BY <1>8, <2>1, NameFound
<1>. QED BY <1>1, <1>4, <1>6, <1>7, <1>8, <1>9, Zenon DEF p, z, PropFound

\* A property of strings is read as one.
LEMMA StrRead ==
    ASSUME NEW so, NEW total, Blob(so, total), NEW c, Typed(c), c.op = "str",
           NEW x, NEW y, NEW off \in Nat, StandsWith(s, c, x, y, off)
    PROVE  ReadAs(c, x, y)
<1>. DEFINE p == 40 + 4 * x
            len == Bytes(c.value)
            v == Data(c.value)
            z == Len(v)
            name == StringAt(Number(12) + Number(p + 8))
<1>1. c = Str(c.name, c.value) /\ c.value \in Seq(Text)
  BY DEF Typed
<1>2. v \in Seq(Cells) /\ len \in Nat /\ z = Align(len, 4) \div 4 /\ z \in Nat
  BY <1>1, DataType
<1>3. CallWords(c, off) = PropHead(len, off) \o v
  BY DEF CallWords
<1>4. len = 0 <=> c.value = << >>
  BY <1>1, TextLengths, BytesType
<1>5. 4 * z = Align(len, 4)
  BY <1>2, Aligned
<1>. HIDE DEF len, v
<1>6. /\ x \in Nat /\ p \in Nat /\ y = x + 3 + z
      /\ Number(p) = FDT_PROP /\ Number(p + 4) = len /\ name = c.name
      /\ \A k \in 1 .. z : At(p + 12 + 4 * (k - 1)) = v[k]
  <2>1. c.op \in {"str", "u32"} /\ v \in Seq(Cells) /\ len \in Nat
    BY <1>2
  <2>. HIDE DEF name, p
  <2>2. PropFound(c, x, y, len, v)
    BY <2>1, <1>3, PropRead
  <2>. QED BY <2>2, Zenon DEF name, p, z, PropFound
<1>. HIDE DEF z, name
<1>7. p + 12 \in Nat
  BY <1>6
<1>8. y \in Nat /\ x < y
  BY <1>2, <1>6
<1>9. After(p) = 40 + 4 * y
  <2>1. After(p) = p + 12 + Align(len, 4)
    BY <1>6 DEF After, FDT_BEGIN_NODE, FDT_PROP
  <2>. QED BY <1>2, <1>5, <1>6, <2>1
<1>. HIDE DEF p
<1>10. PropAt(p) = c
  <2>1. PropAt(p) = CASE len = 0 -> Str(name, << >>)
                      [] len > 0 /\ "be" \in DOMAIN At(p + 12) ->
                            U32(name, [k \in 1 .. len \div 4 |-> Number(p + 8 + 4 * k)])
                      [] OTHER -> Str(name, StringsAt(p + 12, len))
    BY <1>6, Zenon DEF PropAt, name
  <2>2. CASE len = 0
    <3>1. PropAt(p) = Str(name, << >>)
      BY <2>1, <2>2
    <3>. QED BY <3>1, <2>2, <1>1, <1>4, <1>6
  <2>3. CASE len # 0
    <3>1. "be" \notin DOMAIN At(p + 12) /\ StringsAt(p + 12, len) = c.value
      BY <2>3, <1>1, <1>4, <1>6, <1>7, DataFound DEF v, len, z
    <3>2. PropAt(p) = Str(name, StringsAt(p + 12, len))
      BY <2>1, <2>3, <3>1
    <3>. QED BY <3>1, <3>2, <1>1, <1>6
  <2>. QED BY <2>2, <2>3
<1>11. CallAt(p) = c
  BY <1>6, <1>10 DEF CallAt, FDT_BEGIN_NODE, FDT_END_NODE, FDT_PROP
<1>12. Number(p) # FDT_END
  BY <1>6 DEF FDT_END, FDT_PROP
<1>. QED BY <1>6, <1>8, <1>9, <1>11, <1>12 DEF ReadAs, p

\* A property of numbers is read as one.
LEMMA U32Read ==
    ASSUME NEW so, NEW total, Blob(so, total), NEW c, Typed(c), c.op = "u32",
           NEW x, NEW y, NEW off \in Nat, StandsWith(s, c, x, y, off)
    PROVE  ReadAs(c, x, y)
<1>. DEFINE p == 40 + 4 * x
            z == Len(c.value)
            v == [k \in 1 .. z |-> Big(c.value[k])]
            len == 4 * z
            name == StringAt(Number(12) + Number(p + 8))
<1>1. c = U32(c.name, c.value) /\ c.value \in Seq(Numbers) /\ z > 0 /\ z \in Nat
  BY DEF Typed
<1>2. v \in Seq(Cells) /\ Len(v) = z /\ \A k \in 1 .. z : v[k] = Big(c.value[k])
  <2>1. \A k \in 1 .. z : Big(c.value[k]) \in Cells
    BY <1>1, BigIsCell
  <2>. QED BY <1>1, <2>1
<1>3. CallWords(c, off) = PropHead(len, off) \o v
  BY DEF CallWords
<1>4. len \in Nat /\ len # 0 /\ len > 0 /\ len \div 4 = z /\ Align(len, 4) = len
  <2>. HIDE DEF z
  <2>1. len \in Nat /\ len > 0 /\ len \div 4 = z /\ (len + 4 - 1) \div 4 = z
    BY <1>1
  <2>. QED BY <2>1 DEF Align
<1>5. len = 4 * z
  OBVIOUS
<1>. HIDE DEF len, v, z
<1>6. /\ x \in Nat /\ p \in Nat /\ y = x + 3 + z
      /\ Number(p) = FDT_PROP /\ Number(p + 4) = len /\ name = c.name
      /\ \A k \in 1 .. z : At(p + 12 + 4 * (k - 1)) = v[k]
  <2>1. c.op \in {"str", "u32"} /\ v \in Seq(Cells) /\ len \in Nat
    BY <1>2, <1>4
  <2>. HIDE DEF name, p
  <2>2. PropFound(c, x, y, len, v)
    BY <2>1, <1>3, PropRead
  <2>3. /\ x \in Nat /\ p \in Nat /\ y = x + 3 + Len(v)
        /\ Number(p) = FDT_PROP /\ Number(p + 4) = len /\ name = c.name
        /\ \A k \in 1 .. Len(v) : At(p + 12 + 4 * (k - 1)) = v[k]
    BY <2>2, Zenon DEF name, p, PropFound
  <2>. QED BY <2>3, <1>2
<1>. HIDE DEF name
<1>7. y \in Nat /\ x < y
  BY <1>1, <1>6
<1>8. After(p) = 40 + 4 * y
  <2>1. After(p) = p + 12 + Align(len, 4)
    BY <1>6 DEF After, FDT_BEGIN_NODE, FDT_PROP
  <2>. QED BY <1>1, <1>4, <1>5, <1>6, <2>1
<1>. HIDE DEF p
<1>9. ASSUME NEW k \in 1 .. z
      PROVE  Number(p + 8 + 4 * k) = c.value[k] /\ "be" \in DOMAIN At(p + 8 + 4 * k)
  <2>1. p + 8 + 4 * k = p + 12 + 4 * (k - 1)
    BY <1>1, <1>6
  <2>2. At(p + 8 + 4 * k) = Big(c.value[k])
    BY <1>2, <1>6, <2>1
  <2>. QED BY <2>2, NumberOf
<1>10. PropAt(p) = c
  <2>1. PropAt(p) = CASE len = 0 -> Str(name, << >>)
                      [] len > 0 /\ "be" \in DOMAIN At(p + 12) ->
                            U32(name, [k \in 1 .. len \div 4 |-> Number(p + 8 + 4 * k)])
                      [] OTHER -> Str(name, StringsAt(p + 12, len))
    BY <1>6, Zenon DEF PropAt, name
  <2>2. "be" \in DOMAIN At(p + 12)
    <3>1. 1 \in 1 .. z /\ p + 8 + 4 * 1 = p + 12
      BY <1>1, <1>6
    <3>. QED BY <1>9, <3>1
  <2>. DEFINE r == [k \in 1 .. len \div 4 |-> Number(p + 8 + 4 * k)]
  <2>3. r = c.value
    <3>1. c.value = [k \in 1 .. z |-> c.value[k]]
      BY <1>1 DEF z
    <3>2. r = [k \in 1 .. z |-> Number(p + 8 + 4 * k)]
      BY <1>4
    <3>. QED BY <1>9, <3>1, <3>2
  <2>. HIDE DEF r
  <2>4. PropAt(p) = U32(name, r)
    BY <2>1, <2>2, <1>4 DEF r
  <2>. QED BY <2>3, <2>4, <1>1, <1>6
<1>11. CallAt(p) = c
  BY <1>6, <1>10 DEF CallAt, FDT_BEGIN_NODE, FDT_END_NODE, FDT_PROP
<1>12. Number(p) # FDT_END
  BY <1>6 DEF FDT_END, FDT_PROP
<1>. QED BY <1>6, <1>7, <1>8, <1>11, <1>12 DEF ReadAs, p

\* So every call that was written is read.
LEMMA CallRead ==
    ASSUME NEW so, NEW total, Blob(so, total), NEW c, Typed(c),
           NEW x, NEW y, Stands(s, c, x, y)
    PROVE  ReadAs(c, x, y)
<1>1. PICK off \in Nat : StandsWith(s, c, x, y, off)
  BY DEF Stands
<1>2. c.op \in {"begin", "end", "str", "u32"}
  BY DEF Typed
<1>. QED BY <1>1, <1>2, BeginRead, EndRead, StrRead, U32Read

\* The reader passes over the calls, in their order, to FDT_END.
LEMMA PlacesGrow ==
    ASSUME NEW m \in Nat, NEW at \in [0 .. m -> Nat], \A k \in 1 .. m : at[k - 1] < at[k]
    PROVE  m <= at[m]
<1>. DEFINE T == {k \in Nat : k <= m => k <= at[k]}
<1>1. 0 \in T
  OBVIOUS
<1>2. ASSUME NEW k \in Nat, k \in T PROVE k + 1 \in T
  <2>1. CASE k + 1 <= m
    <3>1. k + 1 \in 1 .. m /\ k \in 0 .. m /\ k + 1 \in 0 .. m /\ k + 1 - 1 = k
      BY <2>1
    <3>2. at[k + 1 - 1] < at[k + 1]
      BY <3>1
    <3>3. at[k] \in Nat /\ at[k + 1] \in Nat /\ at[k] < at[k + 1] /\ k <= at[k]
      BY <1>2, <3>1, <3>2
    <3>. QED BY <3>3
  <2>2. CASE ~(k + 1 <= m)
    BY <2>2
  <2>. QED BY <2>1, <2>2
<1>3. \A k \in Nat : k \in T
  <2>. HIDE DEF T
  <2>. QED BY <1>1, <1>2, Inductive
<1>. QED BY <1>3

\* The first k calls of q, and a reader after them.
LEMMA Prefix ==
    ASSUME NEW S, NEW q \in Seq(S), NEW k \in 1 .. Len(q)
    PROVE  Append(SubSeq(q, 1, k - 1), q[k]) = SubSeq(q, 1, k)
  OBVIOUS

\* The reader reads all the calls.
LEMMA WholeRead ==
    ASSUME NEW so, NEW total, Blob(so, total),
           NEW S, NEW q \in Seq(S), \A k \in 1 .. Len(q) : Typed(q[k]),
           Encoded(s, q, Len(q))
    PROVE  Tree = q
<1>. DEFINE N == Len(q)
            M == Len(s.tab)
            words == Number(36) \div 4
            Next1(r) == IF Number(r.at) = FDT_END THEN r
                        ELSE [at |-> After(r.at), calls |-> Append(r.calls, CallAt(r.at))]
            Body(g) == [k \in 0 .. words |->
                           IF k = 0 THEN [at |-> Number(8), calls |-> << >>]
                           ELSE LET r == g[k - 1]
                                IN  IF Number(r.at) = FDT_END THEN r
                                    ELSE [at |-> After(r.at), calls |-> Append(r.calls, CallAt(r.at))]]
            read == CHOOSE g : g = Body(g)
<1>1. PICK at : EncodedAt(s, q, N, at)
  BY DEF Encoded
<1>2. N \in Nat /\ M \in Nat
  BY DEF Blob, States
<1>3. at \in [0 .. N -> Nat] /\ at[0] = 0 /\ at[N] = M
  BY <1>1 DEF EncodedAt
<1>4. ASSUME NEW k \in 1 .. N PROVE ReadAs(q[k], at[k - 1], at[k])
  <2>1. Stands(s, q[k], at[k - 1], at[k]) /\ Typed(q[k])
    BY <1>1 DEF EncodedAt
  <2>. QED BY <2>1, CallRead
<1>5. N <= M
  <2>1. \A k \in 1 .. N : at[k - 1] < at[k]
    BY <1>4 DEF ReadAs
  <2>2. N <= at[N]
    BY <1>2, <1>3, <2>1, PlacesGrow
  <2>. QED BY <1>3, <2>2
<1>6. Number(8) = 40 /\ Number(36) = 4 * (M + 1) /\ Number(40 + 4 * M) = FDT_END
  <2>1. At(8) = Big(40) /\ At(36) = Big(4 * (M + 1)) /\ At(40 + 4 * M) = Big(FDT_END)
    BY DEF Blob, LaidOut, At
  <2>. QED BY <2>1, NumberOf
<1>7. words \in Nat /\ words = M + 1
  <2>. HIDE DEF M
  <2>. QED BY <1>2, <1>6
<1>8. Tree = read[words].calls
  BY Zenon DEF Tree
<1>. HIDE DEF words, N, M
<1>. DEFINE R == [k \in 0 .. words |->
                     IF k <= N THEN [at |-> 40 + 4 * at[k], calls |-> SubSeq(q, 1, k)]
                     ELSE [at |-> 40 + 4 * at[N], calls |-> q]]
<1>9. /\ \A k \in 0 .. N : k \in 0 .. words
                           /\ R[k] = [at |-> 40 + 4 * at[k], calls |-> SubSeq(q, 1, k)]
      /\ \A k \in 0 .. words : ~(k <= N) => R[k] = [at |-> 40 + 4 * at[N], calls |-> q]
      /\ SubSeq(q, 1, 0) = << >> /\ SubSeq(q, 1, N) = q
  BY <1>2, <1>5, <1>7 DEF N
<1>10. R[0] = [at |-> Number(8), calls |-> << >>] /\ 0 \in 0 .. words
  <2>1. 0 \in 0 .. N /\ 40 + 4 * at[0] = 40
    BY <1>2, <1>3
  <2>. HIDE DEF R
  <2>. QED BY <2>1, <1>6, <1>9
<1>. HIDE DEF R
<1>11. ASSUME NEW k \in 1 .. words PROVE R[k] = Next1(R[k - 1])
  <2>1. CASE k \in 1 .. N
    <3>. DEFINE p == 40 + 4 * at[k - 1]
    <3>1. k - 1 \in 0 .. N /\ k \in 0 .. N
      BY <1>2, <2>1
    <3>2. /\ R[k - 1] = [at |-> p, calls |-> SubSeq(q, 1, k - 1)]
          /\ R[k] = [at |-> 40 + 4 * at[k], calls |-> SubSeq(q, 1, k)]
      BY <1>9, <3>1
    <3>3. Number(p) # FDT_END /\ CallAt(p) = q[k] /\ After(p) = 40 + 4 * at[k]
      BY <1>4, <2>1 DEF ReadAs
    <3>4. Append(SubSeq(q, 1, k - 1), q[k]) = SubSeq(q, 1, k)
      BY <2>1, Prefix DEF N
    <3>. HIDE DEF p
    <3>5. R[k - 1].at = p /\ R[k - 1].calls = SubSeq(q, 1, k - 1)
      BY <3>2
    <3>. QED BY <3>2, <3>3, <3>4, <3>5, Zenon
  <2>2. CASE k = N + 1
    <3>1. N \in 0 .. N /\ k \in 0 .. words /\ ~(k <= N) /\ k - 1 = N
      BY <1>2, <2>2
    <3>2. /\ R[k - 1] = [at |-> 40 + 4 * at[N], calls |-> q]
          /\ R[k] = [at |-> 40 + 4 * at[N], calls |-> q]
      BY <1>9, <3>1
    <3>3. R[k - 1].at = 40 + 4 * M
      BY <1>3, <3>2
    <3>. QED BY <1>6, <3>2, <3>3, Zenon
  <2>3. CASE k > N + 1
    <3>1. k - 1 \in 0 .. words /\ k \in 0 .. words /\ ~(k - 1 <= N) /\ ~(k <= N)
      BY <1>2, <1>7, <2>3
    <3>2. /\ R[k - 1] = [at |-> 40 + 4 * at[N], calls |-> q]
          /\ R[k] = [at |-> 40 + 4 * at[N], calls |-> q]
      BY <1>9, <3>1
    <3>3. R[k - 1].at = 40 + 4 * M
      BY <1>3, <3>2
    <3>. QED BY <1>6, <3>2, <3>3, Zenon
  <2>. QED BY <1>2, <1>7, <2>1, <2>2, <2>3
<1>12. R = Body(R)
  <2>1. DOMAIN R = 0 .. words /\ R = [k \in 0 .. words |-> R[k]]
    BY Zenon DEF R
  <2>2. ASSUME NEW k \in 0 .. words
        PROVE  R[k] = IF k = 0 THEN [at |-> Number(8), calls |-> << >>] ELSE Next1(R[k - 1])
    <3>. HIDE DEF Next1
    <3>1. k = 0 \/ k \in 1 .. words
      BY <1>7
    <3>2. k \in 1 .. words => k # 0
      BY <1>7
    <3>. QED BY <3>1, <3>2, <1>10, <1>11
  <2>. QED BY <2>1, <2>2, Zenon
<1>13. read = Body(read)
  <2>. HIDE DEF Body
  <2>. QED BY <1>12, Zenon
<1>. HIDE DEF read
<1>14. read[0] = R[0] /\ \A k \in 1 .. words : read[k] = Next1(read[k - 1])
  <2>1. \A k \in 0 .. words :
            read[k] = IF k = 0 THEN [at |-> Number(8), calls |-> << >>] ELSE Next1(read[k - 1])
    BY <1>13, Zenon
  <2>. HIDE DEF Next1, Body
  <2>2. read[0] = R[0]
    BY <1>10, <2>1
  <2>3. ASSUME NEW k \in 1 .. words PROVE read[k] = Next1(read[k - 1])
    <3>1. k \in 0 .. words /\ k # 0
      BY <1>7
    <3>. QED BY <2>1, <3>1
  <2>. QED BY <2>2, <2>3
<1>. DEFINE T == {k \in Nat : k <= words => read[k] = R[k]}
<1>15. \A k \in Nat : k \in T
  <2>1. 0 \in T
    BY <1>14
  <2>2. ASSUME NEW k \in Nat, k \in T PROVE k + 1 \in T
    <3>. HIDE DEF Next1, Body
    <3>1. CASE k + 1 <= words
      <4>1. k + 1 \in 1 .. words /\ k <= words /\ k + 1 - 1 = k
        BY <3>1, <1>7
      <4>2. read[k + 1] = Next1(read[k]) /\ R[k + 1] = Next1(R[k])
        BY <4>1, <1>11, <1>14
      <4>. QED BY <2>2, <4>1, <4>2
    <3>2. CASE ~(k + 1 <= words)
      BY <3>2
    <3>. QED BY <3>1, <3>2
  <2>. HIDE DEF T
  <2>. QED BY <2>1, <2>2, Inductive
<1>16. read[words] = R[words]
  BY <1>7, <1>15
<1>17. R[words].calls = q
  <2>1. words \in 0 .. words /\ ~(words <= N)
    BY <1>2, <1>5, <1>7
  <2>. QED BY <1>9, <2>1
<1>. QED BY <1>8, <1>16, <1>17

\* The tree read is that of the options.
LEMMA TreeIs ==
    ASSUME BuildInv, blob # << >>
    PROVE  opt \in Options /\ Tree = riscv_build_fdt(opt) /\ blob[0] = FDT_MAGIC
<1>. DEFINE q == riscv_build_fdt(opt)
<1>1. opt \in Options /\ n = Len(q) /\ blob = fdt_output(s) /\ Written(opt, n, s)
  BY DEF BuildInv
<1>2. s \in States /\ Allocated(s) /\ Encoded(s, q, Len(q))
  BY <1>1 DEF Written
<1>3. PICK so, total : Blob(so, total)
  <2>1. PICK so, total : LaidOut(fdt_output(s), s, so, total)
    BY <1>2, OutputLaysOut
  <2>. QED BY <1>1, <1>2, <2>1 DEF Blob
<1>4. PICK S : q \in Seq(S)
  BY <1>1, ScriptTyped
<1>5. \A k \in 1 .. Len(q) : Typed(q[k])
  BY <1>1, ScriptTyped
<1>6. Tree = q
  BY <1>2, <1>3, <1>4, <1>5, WholeRead
<1>7. blob[0] = FDT_MAGIC
  BY <1>3 DEF Blob, LaidOut
<1>. QED BY <1>1, <1>6, <1>7

\* The blob gives back the calls that built it.
LEMMA BlobReadsBack ==
    ASSUME BuildInv
    PROVE  TreeReadBack
<1>. SUFFICES ASSUME blob # << >> PROVE TreeReadBack
  BY DEF TreeReadBack
<1>. DEFINE q == riscv_build_fdt(opt)
<1>1. Tree = q /\ blob[0] = FDT_MAGIC
  BY TreeIs, Zenon
<1>. HIDE DEF q
<1>2. \A k \in DOMAIN q : Same(q[k], q[k])
  BY DEF Same
<1>. QED BY <1>1, <1>2, Zenon DEF TreeReadBack, q

-----------------------------------------------------------------------------
(* The boot.                                                               *)

\* the provers do not know of a string that it is in STRING
Kinds == STRING \cup {"firmware", "kernel", "kernel_size", "fdt", "rom", "zero"}
Regions == [at : Nat, size : Nat, what : Kinds]

\* The tree ends below the firmware.
LEMMA FdtFits ==
    ASSUME NEW o \in Options, NEW f, Written(o, Len(riscv_build_fdt(o)), f)
    PROVE  /\ fdt_output(f)[4].be \in Nat
           /\ fdt_addr + fdt_output(f)[4].be <= fw_start_addr - 8
<1>. DEFINE q == riscv_build_fdt(o)
            x == 4 * Len(f.tab) + Bytes(f.string_table)
            N == Len(q)
            b == fdt_output(f)
<1>1. N \in Nat
  BY ScriptTyped
<1>2. f \in States /\ Allocated(f) /\ x <= 1000 * N
  BY DEF Written
<1>3. PICK so, total : LaidOut(b, f, so, total)
  BY <1>2, OutputLaysOut
<1>4. b[4] = Big(total) /\ total \in Nat /\ total <= x + 74
  BY <1>3 DEF LaidOut
<1>5. x \in Int
  <2>1. Bytes(f.string_table) \in Nat /\ Len(f.tab) \in Nat
    BY <1>2, TextLengths, BytesType DEF States
  <2>. QED BY <2>1
<1>6. N < 1000
  BY TreeFits
<1>7. b[4].be = total
  BY <1>4 DEF Big
<1>. HIDE DEF x, N, b
<1>8. total <= 1000074
  BY <1>1, <1>2, <1>4, <1>5, <1>6
<1>9. fdt_addr + total <= fw_start_addr - 8
  BY <1>4, <1>8 DEF fdt_addr, fw_start_addr
<1>. QED BY <1>4, <1>7, <1>9 DEF b

\* A region before others.
LEMMA PushedAt ==
    ASSUME NEW S, NEW q \in Seq(S), NEW r, NEW x, x = <<r>> \o q
    PROVE  /\ \A R : r \in R /\ q \in Seq(R) => x \in Seq(R)
           /\ Len(x) = Len(q) + 1 /\ Len(q) \in Nat /\ x[1] = r
           /\ \A j \in 2 .. Len(x) : j - 1 \in 1 .. Len(q) /\ x[j] = q[j - 1]
<1>1. /\ Len(x) = Len(q) + 1 /\ Len(q) \in Nat /\ x[1] = r
      /\ \A j \in 2 .. Len(x) : j - 1 \in 1 .. Len(q) /\ x[j] = q[j - 1]
  OBVIOUS
<1>2. ASSUME NEW R, r \in R, q \in Seq(R) PROVE x \in Seq(R)
  BY <1>2
<1>. QED BY <1>1, <1>2

-----------------------------------------------------------------------------
(* load_raw.                                                               *)

\* what load_raw and WRITE_WORD write, and in which order (the age)
AsRaw(o, r, a) ==
    \/ a = 0 /\ r = Region(fw_start_addr, o.image.size, "firmware")
    \/ a = 1 /\ r = Region(kern_addr(o), o.kernel_size, "kernel") /\ o.kernel
    \/ a = 2 /\ r = Region(kern_addr(o) - 8, 8, "kernel_size") /\ o.kernel
    \/ a = 3 /\ \E size \in Nat : /\ fdt_addr + size <= fw_start_addr - 8
                                  /\ r = Region(fdt_addr, size, "fdt")
    \/ a = 4 /\ r = Region(BOOT_ROM_ADDR, 20, "rom")

\* the last first, and nothing twice
RawLoaded(o, m, bound, age) ==
    /\ age \in [1 .. Len(m) -> 0 .. bound - 1]
    /\ \A j \in 1 .. Len(m) : AsRaw(o, m[j], age[j])
    /\ \A j, k \in 1 .. Len(m) : j < k => age[j] > age[k]
IsRaw(o, m, bound) == m \in Seq(Regions) /\ \E age : RawLoaded(o, m, bound, age)

\* Nothing is written at first.
LEMMA RawFirst ==
    ASSUME NEW o
    PROVE  IsRaw(o, << >>, 0)
<1>. DEFINE age == [j \in 1 .. 0 |-> 0]
<1>1. age \in [1 .. 0 -> 0 .. 0 - 1] /\ Len(<< >>) = 0 /\ << >> \in Seq(Regions)
  OBVIOUS
<1>2. \A j \in 1 .. 0 : FALSE
  OBVIOUS
<1>. HIDE DEF age
<1>3. RawLoaded(o, << >>, 0, age)
  BY <1>1, <1>2 DEF RawLoaded
<1>. QED BY <1>1, <1>3, Zenon DEF IsRaw

\* A region more, of the next age.
LEMMA RawNext ==
    ASSUME NEW o, NEW m, NEW a \in Nat, IsRaw(o, m, a), NEW r \in Regions, AsRaw(o, r, a)
    PROVE  IsRaw(o, <<r>> \o m, a + 1)
<1>. DEFINE x == <<r>> \o m
<1>1. PICK age : RawLoaded(o, m, a, age)
  BY DEF IsRaw
<1>2. m \in Seq(Regions)
  BY DEF IsRaw
<1>3. /\ x \in Seq(Regions) /\ Len(x) = Len(m) + 1 /\ Len(m) \in Nat /\ x[1] = r
      /\ \A j \in 2 .. Len(x) : j - 1 \in 1 .. Len(m) /\ x[j] = m[j - 1]
  BY <1>2, PushedAt
<1>. HIDE DEF x
<1>. DEFINE to == [j \in 1 .. Len(x) |-> IF j = 1 THEN a ELSE age[j - 1]]
<1>4. age \in [1 .. Len(m) -> 0 .. a - 1]
  BY <1>1 DEF RawLoaded
<1>5. /\ to \in [1 .. Len(x) -> 0 .. a + 1 - 1]
      /\ to[1] = a /\ \A j \in 2 .. Len(x) : to[j] = age[j - 1]
  BY <1>3, <1>4
<1>. HIDE DEF to
<1>6. ASSUME NEW j \in 1 .. Len(x) PROVE AsRaw(o, x[j], to[j])
  <2>1. CASE j = 1
    BY <2>1, <1>3, <1>5
  <2>2. CASE j # 1
    <3>1. j \in 2 .. Len(x)
      BY <2>2, <1>3
    <3>. QED BY <3>1, <1>1, <1>3, <1>5 DEF RawLoaded
  <2>. QED BY <2>1, <2>2
<1>7. ASSUME NEW j \in 1 .. Len(x), NEW k \in 1 .. Len(x), j < k PROVE to[j] > to[k]
  <2>1. k \in 2 .. Len(x)
    BY <1>3, <1>7
  <2>2. k - 1 \in 1 .. Len(m) /\ to[k] = age[k - 1] /\ age[k - 1] \in 0 .. a - 1
    BY <2>1, <1>3, <1>4, <1>5
  <2>3. CASE j = 1
    BY <2>2, <2>3, <1>5
  <2>4. CASE j # 1
    <3>1. j \in 2 .. Len(x)
      BY <2>4, <1>3
    <3>2. j - 1 \in 1 .. Len(m) /\ to[j] = age[j - 1] /\ j - 1 < k - 1
      BY <3>1, <1>3, <1>5, <1>7, <2>1
    <3>. QED BY <2>2, <3>2, <1>1 DEF RawLoaded
  <2>. QED BY <2>3, <2>4
<1>8. RawLoaded(o, x, a + 1, to)
  <2>1. \A j, k \in 1 .. Len(x) : j < k => to[j] > to[k]
    BY <1>7
  <2>. QED BY <1>5, <1>6, <2>1 DEF RawLoaded
<1>. QED BY <1>3, <1>8, Zenon DEF IsRaw, x

\* What is not written yet may be left out.
LEMMA RawSkips ==
    ASSUME NEW o, NEW m, NEW a \in Nat, NEW b \in Nat, a <= b, IsRaw(o, m, a)
    PROVE  IsRaw(o, m, b)
<1>1. PICK age : RawLoaded(o, m, a, age)
  BY DEF IsRaw
<1>2. age \in [1 .. Len(m) -> 0 .. b - 1]
  <2>1. 0 .. a - 1 \subseteq 0 .. b - 1
    OBVIOUS
  <2>. QED BY <1>1, <2>1 DEF RawLoaded
<1>3. RawLoaded(o, m, b, age)
  BY <1>1, <1>2, Zenon DEF RawLoaded
<1>. QED BY <1>3, Zenon DEF IsRaw

\* What was written later is elsewhere, but for a kernel over the firmware.
LEMMA RawApart ==
    ASSUME NEW o, o.phys_start \in Nat, o.kernel_size \in Nat, o.image.size \in Nat,
           NEW r, NEW a, AsRaw(o, r, a), NEW q, NEW b, AsRaw(o, q, b),
           b > a, Meet(q, r)
    PROVE  /\ o.kernel /\ fw_start_addr + o.image.size > kern_addr(o) - 8
           /\ r.what = "firmware"
<1>. DEFINE K == o.kernel_size
            F == o.image.size
            P == o.phys_start
<1>1. K \in Nat /\ F \in Nat /\ P \in Nat /\ kern_addr(o) = 2097152 + P
  BY DEF kern_addr
<1>2. /\ Meet(q, r) <=> /\ r.size > 0 /\ q.size > 0
                        /\ q.at < r.at + r.size /\ r.at < q.at + q.size
  BY DEF Meet
<1>3. ASSUME NEW z, NEW c, AsRaw(o, z, c)
      PROVE  \/ c = 0 /\ z.at = 2097152 /\ z.size = F /\ z.what = "firmware"
             \/ c = 1 /\ z.at = 2097152 + P /\ z.size = K /\ o.kernel
             \/ c = 2 /\ z.at = 2097152 + P - 8 /\ z.size = 8 /\ o.kernel
             \/ c = 3 /\ z.at = 65600 /\ z.size \in Nat /\ 65600 + z.size <= 2097144
             \/ c = 4 /\ z.at = 4096 /\ z.size = 20
  BY <1>1, <1>3 DEF AsRaw, Region, fw_start_addr, fdt_addr, BOOT_ROM_ADDR
<1>4. /\ \/ a = 0 /\ r.at = 2097152 /\ r.size = F /\ r.what = "firmware"
         \/ a = 1 /\ r.at = 2097152 + P /\ r.size = K
         \/ a = 2 /\ r.at = 2097152 + P - 8 /\ r.size = 8
         \/ a = 3 /\ r.at = 65600 /\ r.size \in Nat /\ 65600 + r.size <= 2097144
         \/ a = 4 /\ r.at = 4096 /\ r.size = 20
      /\ \/ b = 0 /\ q.at = 2097152 /\ q.size = F /\ q.what = "firmware"
         \/ b = 1 /\ q.at = 2097152 + P /\ q.size = K
         \/ b = 2 /\ q.at = 2097152 + P - 8 /\ q.size = 8
         \/ b = 3 /\ q.at = 65600 /\ q.size \in Nat /\ 65600 + q.size <= 2097144
         \/ b = 4 /\ q.at = 4096 /\ q.size = 20
  BY <1>3
<1>. HIDE DEF K, F, P
<1>5. a = 0 /\ (b = 1 \/ b = 2)
  BY <1>1, <1>2, <1>4
<1>7. o.kernel
  BY <1>5 DEF AsRaw
<1>6. 2097152 + F > 2097152 + P - 8
  BY <1>1, <1>2, <1>4, <1>5
<1>8. r.what = "firmware"
  BY <1>4, <1>5
<1>9. fw_start_addr + F > kern_addr(o) - 8
  BY <1>1, <1>6 DEF fw_start_addr
<1>. QED BY <1>7, <1>8, <1>9, Zenon DEF F

-----------------------------------------------------------------------------
(* load_elf.                                                               *)

\* a region that a segment became
PartOf(r, g) == r = Region(g.vaddr, g.filesz, g.what) \/ r = Region(g.vaddr, g.memsz, "zero")

\* of the first segments, each cleared before it is copied
ElfLoaded(segs, m, bound, of) ==
    /\ of \in [1 .. Len(m) -> 1 .. bound]
    /\ \A j \in 1 .. Len(m) : IsLoaded(segs[of[j]]) /\ PartOf(m[j], segs[of[j]])
    /\ \A j, k \in 1 .. Len(m) : j < k => of[j] # of[k] \/ m[k].what = "zero"
IsElf(segs, m, bound) == m \in Seq(Regions) /\ \E of : ElfLoaded(segs, m, bound, of)

\* Nothing is copied at first.
LEMMA ElfFirst ==
    ASSUME NEW segs
    PROVE  IsElf(segs, << >>, 0)
<1>. DEFINE of == [j \in 1 .. 0 |-> 0]
<1>1. of \in [1 .. 0 -> 1 .. 0] /\ Len(<< >>) = 0 /\ << >> \in Seq(Regions)
  OBVIOUS
<1>2. \A j \in 1 .. 0 : FALSE
  OBVIOUS
<1>. HIDE DEF of
<1>3. ElfLoaded(segs, << >>, 0, of)
  BY <1>1, <1>2 DEF ElfLoaded
<1>. QED BY <1>1, <1>3, Zenon DEF IsElf

\* Two regions before others.
LEMMA TwoPushed ==
    ASSUME NEW S, NEW q \in Seq(S), NEW r \in S, NEW t \in S
    PROVE  /\ <<r, t>> \o q = <<r>> \o (<<t>> \o q)
           /\ <<r, t>> \o q \in Seq(S) /\ Len(<<r, t>> \o q) = Len(q) + 2 /\ Len(q) \in Nat
           /\ (<<r, t>> \o q)[1] = r /\ (<<r, t>> \o q)[2] = t
           /\ \A j \in 3 .. Len(q) + 2 : /\ j - 2 \in 1 .. Len(q)
                                         /\ (<<r, t>> \o q)[j] = q[j - 2]
<1>1. <<r, t>> \o q = <<r>> \o (<<t>> \o q)
  <2>. DEFINE a == <<r>>
              b == <<t>>
              c == <<t>> \o q
  <2>1. c \in Seq(S) /\ Len(c) = Len(q) + 1 /\ c[1] = t /\ \A j \in 2 .. Len(q) + 1 : c[j] = q[j - 1]
    OBVIOUS
  <2>. HIDE DEF c
  <2>. DEFINE x == <<r, t>> \o q
              y == <<r>> \o c
  <2>2. /\ x \in Seq(S) /\ Len(x) = Len(q) + 2 /\ x[1] = r /\ x[2] = t
        /\ \A j \in 3 .. Len(q) + 2 : x[j] = q[j - 2]
    OBVIOUS
  <2>3. /\ y \in Seq(S) /\ Len(y) = Len(q) + 2 /\ y[1] = r /\ y[2] = t
        /\ \A j \in 3 .. Len(q) + 2 : y[j] = c[j - 1] /\ j - 1 \in 2 .. Len(q) + 1
    BY <2>1
  <2>4. \A j \in 3 .. Len(q) + 2 : y[j] = q[j - 2]
    <3>1. \A j \in 3 .. Len(q) + 2 : c[j - 1] = q[j - 1 - 1] /\ j - 1 - 1 = j - 2
      BY <2>1, <2>3
    <3>. QED BY <2>3, <3>1
  <2>. HIDE DEF x, y
  <2>5. \A j \in 1 .. Len(q) + 2 : x[j] = y[j]
    <3>1. \A j \in 1 .. Len(q) + 2 : j = 1 \/ j = 2 \/ j \in 3 .. Len(q) + 2
      OBVIOUS
    <3>. QED BY <2>2, <2>3, <2>4, <3>1
  <2>6. x = y
    BY <2>2, <2>3, <2>5
  <2>. QED BY <2>6 DEF x, y, c
<1>2. <<r, t>> \o q \in Seq(S) /\ Len(<<r, t>> \o q) = Len(q) + 2 /\ Len(q) \in Nat
  OBVIOUS
<1>3. (<<r, t>> \o q)[1] = r /\ (<<r, t>> \o q)[2] = t
  OBVIOUS
<1>4. ASSUME NEW j \in 3 .. Len(q) + 2
      PROVE  j - 2 \in 1 .. Len(q) /\ (<<r, t>> \o q)[j] = q[j - 2]
  OBVIOUS
<1>. QED BY <1>1, <1>2, <1>3, <1>4

\* The regions of a segment.
LEMMA CopiedType ==
    ASSUME NEW g \in Segment
    PROVE  /\ Region(g.vaddr, g.filesz, g.what) \in Regions
           /\ Region(g.vaddr, g.memsz, "zero") \in Regions
           /\ Region(g.vaddr, g.memsz, "zero").what = "zero"
<1>1. g.vaddr \in Nat /\ g.filesz \in Nat /\ g.memsz \in Nat /\ g.what \in STRING
  BY DEF Segment
<1>2. g.what \in Kinds /\ "zero" \in Kinds
  BY <1>1 DEF Kinds
<1>. QED BY <1>1, <1>2 DEF Region, Regions

\* A segment more.
LEMMA ElfNext ==
    ASSUME NEW segs \in Seq(Segment), NEW m, NEW b \in Nat, b < Len(segs), IsElf(segs, m, b)
    PROVE  IsElf(segs, Copied(segs[b + 1]) \o m, b + 1)
<1>. DEFINE g == segs[b + 1]
            r == Region(g.vaddr, g.filesz, g.what)
            t == Region(g.vaddr, g.memsz, "zero")
<1>1. PICK of : ElfLoaded(segs, m, b, of)
  BY DEF IsElf
<1>2. m \in Seq(Regions) /\ Len(m) \in Nat
  BY DEF IsElf
<1>3. of \in [1 .. Len(m) -> 1 .. b]
  BY <1>1 DEF ElfLoaded
<1>4. g \in Segment
  <2>1. b + 1 \in 1 .. Len(segs)
    OBVIOUS
  <2>. QED BY <2>1
<1>5. CASE ~IsLoaded(g)
  <2>1. Copied(g) \o m = m
    BY <1>2, <1>5 DEF Copied
  <2>2. of \in [1 .. Len(m) -> 1 .. b + 1]
    <3>1. 1 .. b \subseteq 1 .. b + 1
      OBVIOUS
    <3>. QED BY <1>3, <3>1
  <2>3. ElfLoaded(segs, m, b + 1, of)
    BY <1>1, <2>2 DEF ElfLoaded
  <2>. QED BY <1>2, <2>1, <2>3 DEF IsElf
<1>6. CASE IsLoaded(g)
  <2>1. r \in Regions /\ t \in Regions /\ t.what = "zero" /\ PartOf(r, g) /\ PartOf(t, g)
    BY <1>4, CopiedType DEF PartOf
  <2>2. Copied(g) = <<r, t>>
    BY <1>6 DEF Copied
  <2>. HIDE DEF r, t
  <2>. DEFINE x == <<r, t>> \o m
  <2>3. /\ x \in Seq(Regions) /\ Len(x) = Len(m) + 2 /\ x[1] = r /\ x[2] = t
        /\ \A j \in 3 .. Len(m) + 2 : j - 2 \in 1 .. Len(m) /\ x[j] = m[j - 2]
    BY <1>2, <2>1, TwoPushed
  <2>. HIDE DEF x
  <2>. DEFINE to == [j \in 1 .. Len(x) |-> IF j <= 2 THEN b + 1 ELSE of[j - 2]]
  <2>4. /\ to \in [1 .. Len(x) -> 1 .. b + 1] /\ to[1] = b + 1 /\ to[2] = b + 1
        /\ \A j \in 3 .. Len(m) + 2 : to[j] = of[j - 2]
    <3>1. \A j \in 1 .. Len(x) : j <= 2 \/ j - 2 \in 1 .. Len(m)
      BY <1>2, <2>3
    <3>2. \A j \in 1 .. Len(m) : of[j] \in 1 .. b + 1
      BY <1>3
    <3>3. b + 1 \in 1 .. b + 1
      OBVIOUS
    <3>4. \A j \in 3 .. Len(m) + 2 : j \in 1 .. Len(x) /\ ~(j <= 2)
      BY <1>2, <2>3
    <3>5. 1 \in 1 .. Len(x) /\ 2 \in 1 .. Len(x)
      BY <1>2, <2>3
    <3>. QED BY <3>1, <3>2, <3>3, <3>4, <3>5
  <2>. HIDE DEF to
  <2>5. ASSUME NEW j \in 1 .. Len(x)
        PROVE  \/ j = 1
               \/ j = 2
               \/ /\ j \in 3 .. Len(m) + 2 /\ j - 2 \in 1 .. Len(m)
                  /\ x[j] = m[j - 2] /\ to[j] = of[j - 2] /\ of[j - 2] \in 1 .. b
    <3>1. j = 1 \/ j = 2 \/ j \in 3 .. Len(m) + 2
      BY <1>2, <2>3
    <3>. QED BY <3>1, <1>3, <2>3, <2>4
  <2>6. ASSUME NEW j \in 1 .. Len(x)
        PROVE  IsLoaded(segs[to[j]]) /\ PartOf(x[j], segs[to[j]])
    <3>. HIDE DEF g
    <3>1. CASE j = 1 \/ j = 2
      <4>1. segs[to[j]] = g
        BY <2>4, <3>1 DEF g
      <4>2. PartOf(x[j], g)
        BY <2>1, <2>3, <3>1
      <4>. QED BY <1>6, <4>1, <4>2
    <3>2. CASE /\ j - 2 \in 1 .. Len(m)
               /\ x[j] = m[j - 2] /\ to[j] = of[j - 2]
      BY <3>2, <1>1 DEF ElfLoaded
    <3>. QED BY <2>5, <3>1, <3>2
  <2>7. ASSUME NEW j \in 1 .. Len(x), NEW k \in 1 .. Len(x), j < k
        PROVE  to[j] # to[k] \/ x[k].what = "zero"
    <3>1. CASE k = 2
      BY <2>1, <2>3, <3>1
    <3>2. CASE k # 2
      <4>1. k \in 3 .. Len(m) + 2 /\ k - 2 \in 1 .. Len(m)
            /\ x[k] = m[k - 2] /\ to[k] = of[k - 2] /\ of[k - 2] \in 1 .. b
        BY <2>5, <2>7, <3>2
      <4>2. CASE j = 1 \/ j = 2
        BY <4>1, <4>2, <2>4
      <4>3. CASE j \in 3 .. Len(m) + 2 /\ j - 2 \in 1 .. Len(m) /\ to[j] = of[j - 2]
        <5>1. j - 2 < k - 2
          BY <2>7, <4>1, <4>3
        <5>. QED BY <4>1, <4>3, <5>1, <1>1 DEF ElfLoaded
      <4>. QED BY <2>5, <4>2, <4>3
    <3>. QED BY <3>1, <3>2
  <2>8. ElfLoaded(segs, x, b + 1, to)
    <3>1. \A j, k \in 1 .. Len(x) : j < k => to[j] # to[k] \/ x[k].what = "zero"
      BY <2>7
    <3>. QED BY <2>4, <2>6, <3>1, Zenon DEF ElfLoaded
  <2>9. IsElf(segs, x, b + 1)
    BY <2>3, <2>8, Zenon DEF IsElf
  <2>. QED BY <2>2, <2>9 DEF x
<1>. QED BY <1>5, <1>6

\* All of them, one by one.
LEMMA LoadSteps ==
    ASSUME NEW segs \in Seq(Segment), NEW f, NEW m \in Nat, m = Len(segs),
           f[0] = << >>, \A k \in 1 .. m : f[k] = Copied(segs[k]) \o f[k - 1]
    PROVE  IsElf(segs, f[m], m)
<1>. DEFINE T == {k \in Nat : k <= m => IsElf(segs, f[k], k)}
<1>1. 0 \in T
  BY ElfFirst
<1>2. ASSUME NEW k \in Nat, k \in T PROVE k + 1 \in T
  <2>. DEFINE j == k + 1
  <2>1. CASE j <= m
    <3>1. IsElf(segs, f[k], k) /\ k < Len(segs)
      BY <1>2, <2>1
    <3>2. IsElf(segs, Copied(segs[j]) \o f[k], j)
      BY <3>1, ElfNext
    <3>3. j \in 1 .. m /\ j - 1 = k /\ j \in Nat
      BY <2>1
    <3>. HIDE DEF j
    <3>4. f[j] = Copied(segs[j]) \o f[j - 1]
      BY <3>3
    <3>5. IsElf(segs, f[j], j)
      BY <3>2, <3>3, <3>4
    <3>. QED BY <3>3, <3>5 DEF j
  <2>2. CASE ~(j <= m)
    BY <2>2
  <2>. QED BY <2>1, <2>2
<1>3. \A k \in Nat : k \in T
  <2>. HIDE DEF T
  <2>. QED BY <1>1, <1>2, Inductive
<1>. QED BY <1>3

\* All of them.
Loading(segs, m) ==
    LET loaded[k \in 0 .. Len(segs)] ==
            IF k = 0 THEN m ELSE Copied(segs[k]) \o loaded[k - 1]
    IN  loaded[Len(segs)]

\* What LoadSegments writes is the regions of its segments.
LEMMA ElfAll ==
    ASSUME NEW segs \in Seq(Segment)
    PROVE  IsElf(segs, Loading(segs, << >>), Len(segs))
<1>. DEFINE L == Len(segs)
            S == Seq(Regions)
            step == [x \in S \X (1 .. L) |-> Copied(segs[x[2]]) \o x[1]]
            Body(h) == [k \in 0 .. L |-> IF k = 0 THEN << >> ELSE Copied(segs[k]) \o h[k - 1]]
            copy == CHOOSE h : h = Body(h)
<1>1. Loading(segs, << >>) = copy[L]
  BY Zenon DEF Loading
<1>2. L \in Nat /\ << >> \in S /\ \A k \in 1 .. L : segs[k] \in Segment
  OBVIOUS
<1>3. ASSUME NEW k \in 1 .. L, NEW v \in S PROVE Copied(segs[k]) \o v \in S
  <2>. DEFINE e == segs[k]
  <2>1. Region(e.vaddr, e.filesz, e.what) \in Regions /\ Region(e.vaddr, e.memsz, "zero") \in Regions
    BY <1>2, CopiedType
  <2>2. Copied(e) \in Seq(Regions)
    BY <2>1 DEF Copied
  <2>. QED BY <2>2, JoinedAny
<1>4. \A v \in S, k \in 1 .. L : step[<<v, k>>] = Copied(segs[k]) \o v
  BY Zenon
<1>5. StaysIn(S, L, step)
  <2>. HIDE DEF step, S, L
  <2>. QED BY <1>3, <1>4 DEF StaysIn
<1>6. \E h : Recursive(h, S, L, << >>, step)
  <2>. HIDE DEF step, S, L
  <2>. QED BY <1>2, <1>5, Recursion
<1>. HIDE DEF step, S
<1>7. PICK h : Recursive(h, S, L, << >>, step)
  BY <1>6
<1>8. h = Body(h)
  <2>1. h \in [0 .. L -> S] /\ h[0] = << >> /\ \A k \in 1 .. L : h[k] = step[<<h[k - 1], k>>]
    BY <1>7 DEF Recursive
  <2>. HIDE DEF L
  <2>2. ASSUME NEW k \in 0 .. L
        PROVE  h[k] = IF k = 0 THEN << >> ELSE Copied(segs[k]) \o h[k - 1]
    <3>1. CASE k = 0
      BY <2>1, <3>1
    <3>2. CASE k # 0
      <4>1. k \in 1 .. L /\ k - 1 \in 0 .. L
        BY <1>2, <3>2
      <4>2. h[k - 1] \in S
        BY <2>1, <4>1
      <4>3. step[<<h[k - 1], k>>] = Copied(segs[k]) \o h[k - 1]
        BY <1>4, <4>1, <4>2, Zenon
      <4>. QED BY <2>1, <3>2, <4>1, <4>3
    <3>. QED BY <3>1, <3>2
  <2>3. h = [k \in 0 .. L |-> h[k]]
    BY <2>1
  <2>. QED BY <2>2, <2>3, Zenon
<1>9. copy = Body(copy)
  <2>. HIDE DEF Body
  <2>. QED BY <1>8, Zenon
<1>. HIDE DEF copy
<1>10. copy[0] = << >> /\ \A k \in 1 .. L : copy[k] = Copied(segs[k]) \o copy[k - 1]
  <2>1. \A k \in 0 .. L : copy[k] = IF k = 0 THEN << >> ELSE Copied(segs[k]) \o copy[k - 1]
    BY <1>9, Zenon
  <2>. HIDE DEF Body, L
  <2>2. 0 \in 0 .. L /\ \A k \in 1 .. L : k \in 0 .. L /\ k # 0
    BY <1>2
  <2>. QED BY <2>1, <2>2
<1>. HIDE DEF Body, L
<1>11. L = Len(segs)
  BY DEF L
<1>12. IsElf(segs, copy[L], L)
  BY <1>2, <1>10, <1>11, LoadSteps
<1>. QED BY <1>1, <1>11, <1>12

\* The parts of a segment are inside it.
LEMMA PartInside ==
    ASSUME NEW g \in Segment, NEW r, PartOf(r, g)
    PROVE  /\ r.at = g.vaddr /\ r.size \in Nat /\ Max({g.memsz, g.filesz}) \in Nat
           /\ r.size <= Max({g.memsz, g.filesz})
<1>. DEFINE a == g.memsz
            b == g.filesz
<1>1. a \in Nat /\ b \in Nat
  BY DEF Segment
<1>2. (r.at = g.vaddr) /\ (r.size = a \/ r.size = b)
  BY DEF PartOf, Region
<1>. HIDE DEF a, b
<1>3. Max({a, b}) \in {a, b} /\ \A y \in {a, b} : Max({a, b}) >= y
  <2>1. \E x \in {a, b} : \A y \in {a, b} : x >= y
    BY <1>1
  <2>. QED BY <2>1 DEF Max
<1>4. r.size <= Max({a, b}) /\ Max({a, b}) \in Nat /\ r.size \in Nat
  <2>. DEFINE z == Max({a, b})
  <2>1. (z = a \/ z = b) /\ z >= a /\ z >= b
    BY <1>3
  <2>. HIDE DEF z
  <2>2. r.size <= z /\ z \in Nat /\ r.size \in Nat
    BY <1>1, <1>2, <2>1
  <2>. QED BY <2>2 DEF z
<1>. QED BY <1>2, <1>4 DEF a, b

-----------------------------------------------------------------------------
(* The boot ROMs.                                                          *)

\* what the registers hold before each instruction, and when the ROM is left
RawAt(p, g) ==
    \/ p = 4096
    \/ p = 4100 /\ g["t0"] = fw_start_addr
    \/ p = 4104 /\ g["t0"] = fw_start_addr /\ g["a1"] = 65540
    \/ p = 4108 /\ g["t0"] = fw_start_addr /\ g["a1"] = fdt_addr
    \/ p = 4112 /\ g["t0"] = fw_start_addr /\ g["a1"] = fdt_addr /\ g["a0"] = mhartid
RawLeft(p, g) == p = fw_start_addr /\ g["a0"] = mhartid /\ g["a1"] = fdt_addr

ElfAt(o, p, g) ==
    \/ p = 4096
    \/ p \in {4100, 4104} /\ g["t0"] = 4096
    \/ p = 4108 /\ g["t0"] = 4096 /\ g["a0"] = mhartid
    \/ p = 4112 /\ g["t0"] = o.image.entry[2] /\ g["a0"] = mhartid
ElfLeft(o, p, g) == p = o.image.entry[2] /\ g["a0"] = mhartid

\* the registers that the ROMs use
Files == [{"t0", "a0", "a1"} -> Nat]

\* The words of a ROM.
LEMMA RomWord ==
    /\ RomAt(4096) = Rom[1] /\ RomAt(4100) = Rom[2] /\ RomAt(4104) = Rom[3]
    /\ RomAt(4108) = Rom[4] /\ RomAt(4112) = Rom[5] /\ RomAt(4120) = Rom[7]
<1>1. ASSUME NEW k \in Nat PROVE RomAt(4096 + 4 * k) = Rom[k + 1]
  <2>. DEFINE p == 4096 + 4 * k
              z == ((p - BOOT_ROM_ADDR) \div 4) + 1
  <2>1. z = k + 1
    BY SMT DEF BOOT_ROM_ADDR
  <2>. HIDE DEF p
  <2>2. RomAt(p) = Rom[z]
    BY Zenon DEF RomAt
  <2>. HIDE DEF z
  <2>. QED BY <2>1, <2>2, SMT DEF p
<1>2. /\ RomAt(4096 + 4 * 0) = Rom[0 + 1] /\ RomAt(4096 + 4 * 1) = Rom[1 + 1]
      /\ RomAt(4096 + 4 * 2) = Rom[2 + 1] /\ RomAt(4096 + 4 * 3) = Rom[3 + 1]
      /\ RomAt(4096 + 4 * 4) = Rom[4 + 1] /\ RomAt(4096 + 4 * 6) = Rom[6 + 1]
  BY <1>1, SMT
<1>. QED BY <1>2, SMT

\* The fields of an instruction.
LEMMA InsnParts ==
    ASSUME NEW op, NEW rd, NEW rs, NEW imm, NEW e, e = Insn(op, rd, rs, imm)
    PROVE  e.op = op /\ e.rd = rd /\ e.rs = rs /\ e.imm = imm
  BY SMT DEF Insn

\* The value of a word.
LEMMA WordValue == ASSUME NEW v PROVE Word(v).value = v
  BY SMT DEF Word

\* The ROM of load_raw.
LEMMA RawRom ==
    ASSUME Raw
    PROVE  /\ RomAt(4096) = Insn("auipc", "t0", "x0", fw_start_addr - BOOT_ROM_ADDR)
           /\ RomAt(4100) = Insn("auipc", "a1", "x0", 61440)
           /\ RomAt(4104) = Insn("addi", "a1", "a1", Imm12(fdt_addr - 4))
           /\ RomAt(4108) = Insn("csrr", "a0", "x0", 0)
           /\ RomAt(4112) = Insn("jr", "x0", "t0", 0)
           /\ RomRegion = Region(4096, 20, "rom")
<1>. DEFINE a == Insn("auipc", "t0", "x0", fw_start_addr - BOOT_ROM_ADDR)
            b == Insn("auipc", "a1", "x0", 61440)
            c == Insn("addi", "a1", "a1", Imm12(fdt_addr - 4))
            d == Insn("csrr", "a0", "x0", 0)
            e == Insn("jr", "x0", "t0", 0)
<1>1. Rom = <<a, b, c, d, e>>
  BY SMT DEF Rom, RomRaw
<1>. HIDE DEF a, b, c, d, e
<1>4. Rom[1] = a /\ Rom[2] = b /\ Rom[3] = c /\ Rom[4] = d /\ Rom[5] = e /\ Len(Rom) = 5
  BY <1>1, SMT
<1>5. RomAt(4096) = a /\ RomAt(4100) = b /\ RomAt(4104) = c /\ RomAt(4108) = d /\ RomAt(4112) = e
  BY <1>4, RomWord, SMT
<1>6. RomRegion = Region(4096, 20, "rom")
  BY <1>4, SMT DEF RomRegion, BOOT_ROM_ADDR
<1>. QED BY <1>5, <1>6, SMT DEF a, b, c, d, e

\* The ROM of load_elf.
LEMMA ElfRom ==
    ASSUME ~Raw
    PROVE  /\ RomAt(4096) = Insn("auipc", "t0", "x0", 0)
           /\ RomAt(4100) = Insn("addi", "a1", "t0", 32)
           /\ RomAt(4104) = Insn("csrr", "a0", "x0", 0)
           /\ RomAt(4108) = Insn("ld", "t0", "t0", 24)
           /\ RomAt(4112) = Insn("jr", "x0", "t0", 0)
           /\ RomAt(4120) = Word(opt.image.entry[2])
           /\ RomRegion = Region(4096, 32, "rom")
<1>. DEFINE a == Insn("auipc", "t0", "x0", 0)
            b == Insn("addi", "a1", "t0", 32)
            c == Insn("csrr", "a0", "x0", 0)
            d == Insn("ld", "t0", "t0", 24)
            e == Insn("jr", "x0", "t0", 0)
            x == Word(0)
            y == Word(opt.image.entry[2])
<1>1. Rom = <<a, b, c, d, e, x, y, x>>
  BY SMT DEF Rom, RomElf
<1>. HIDE DEF a, b, c, d, e, x, y
<1>4. /\ Rom[1] = a /\ Rom[2] = b /\ Rom[3] = c /\ Rom[4] = d /\ Rom[5] = e
      /\ Rom[7] = y /\ Len(Rom) = 8
  BY <1>1, SMT
<1>5. /\ RomAt(4096) = a /\ RomAt(4100) = b /\ RomAt(4104) = c /\ RomAt(4108) = d
      /\ RomAt(4112) = e /\ RomAt(4120) = y
  BY <1>4, RomWord, SMT
<1>6. RomRegion = Region(4096, 32, "rom")
  BY <1>4, SMT DEF RomRegion, BOOT_ROM_ADDR
<1>. QED BY <1>5, <1>6, SMT DEF a, b, c, d, e, y

\* What an instruction does.
Does(e) ==
    \/ /\ e.op \in {"auipc", "addi", "csrr", "ld"} /\ pc' = pc + 4 /\ stage' = stage
       /\ gpr' = [gpr EXCEPT ![e.rd] = CASE e.op = "auipc" -> pc + e.imm
                                         [] e.op = "addi" -> gpr[e.rs] + e.imm
                                         [] e.op = "csrr" -> mhartid
                                         [] e.op = "ld" -> RomAt(gpr[e.rs] + e.imm).value]
    \/ e.op = "jr" /\ pc' = gpr[e.rs] /\ stage' = "run" /\ gpr' = gpr

\* Exec is the effect of the instruction at pc.
LEMMA ExecDoes ==
    Exec => Does(RomAt(pc)) /\ stage = "exec" /\ UNCHANGED <<opt, fdtVars, mem, readonly>>
<1>. SUFFICES ASSUME Exec
              PROVE  Does(RomAt(pc)) /\ stage = "exec" /\ UNCHANGED <<opt, fdtVars, mem, readonly>>
  OBVIOUS
<1>. DEFINE e == RomAt(pc)
<1>1. /\ stage = "exec"
      /\ \/ e.op = "auipc" /\ Set(e.rd, pc + e.imm)
         \/ e.op = "addi"  /\ Set(e.rd, gpr[e.rs] + e.imm)
         \/ e.op = "csrr"  /\ Set(e.rd, mhartid)
         \/ e.op = "ld"    /\ Set(e.rd, RomAt(gpr[e.rs] + e.imm).value)
         \/ e.op = "jr"    /\ pc' = gpr[e.rs] /\ stage' = "run" /\ UNCHANGED gpr
      /\ UNCHANGED <<opt, fdtVars, mem, readonly>>
  BY SMT DEF Exec
<1>. HIDE DEF e
<1>2. Does(e)
  <2>1. CASE e.op = "auipc" /\ Set(e.rd, pc + e.imm)
    BY <2>1, SMT DEF Does, Set
  <2>2. CASE e.op = "addi"  /\ Set(e.rd, gpr[e.rs] + e.imm)
    BY <2>2, SMT DEF Does, Set
  <2>3. CASE e.op = "csrr"  /\ Set(e.rd, mhartid)
    BY <2>3, SMT DEF Does, Set
  <2>4. CASE e.op = "ld"    /\ Set(e.rd, RomAt(gpr[e.rs] + e.imm).value)
    BY <2>4, SMT DEF Does, Set
  <2>5. CASE e.op = "jr"    /\ pc' = gpr[e.rs] /\ stage' = "run" /\ UNCHANGED gpr
    BY <2>5, SMT DEF Does
  <2>. QED BY <1>1, <2>1, <2>2, <2>3, <2>4, <2>5, SMT
<1>. QED BY <1>1, <1>2, SMT DEF e

\* The hart in the ROM of load_raw, instruction by instruction.
LEMMA RawExec ==
    ASSUME Raw, gpr \in Files, RawAt(pc, gpr), Exec
    PROVE  /\ pc' \in Nat /\ gpr' \in Files
           /\ \/ stage' = "exec" /\ RawAt(pc', gpr')
              \/ stage' = "run" /\ RawLeft(pc', gpr')
<1>. DEFINE e == RomAt(pc)
<1>1. Does(e) /\ stage = "exec"
  BY ExecDoes, SMT
<1>2. CASE pc = 4096
  <2>0. e = Insn("auipc", "t0", "x0", fw_start_addr - BOOT_ROM_ADDR)
    BY <1>2, RawRom, SMT
  <2>. HIDE DEF e
  <2>1. e.op = "auipc" /\ e.rd = "t0" /\ e.imm = fw_start_addr - BOOT_ROM_ADDR
    BY <2>0, InsnParts, SMT
  <2>2. pc' = 4100 /\ stage' = "exec" /\ gpr' = [gpr EXCEPT !["t0"] = 2097152]
    BY <1>1, <1>2, <2>1, SMT DEF Does, fw_start_addr, BOOT_ROM_ADDR
  <2>. QED BY <2>2, SMT DEF RawAt, Files, fw_start_addr
<1>3. CASE pc = 4100 /\ gpr["t0"] = fw_start_addr
  <2>0. e = Insn("auipc", "a1", "x0", 61440)
    BY <1>3, RawRom, SMT
  <2>. HIDE DEF e
  <2>1. e.op = "auipc" /\ e.rd = "a1" /\ e.imm = 61440
    BY <2>0, InsnParts, SMT
  <2>2. pc' = 4104 /\ stage' = "exec" /\ gpr' = [gpr EXCEPT !["a1"] = 65540]
    BY <1>1, <1>3, <2>1, SMT DEF Does
  <2>. QED BY <2>2, <1>3, SMT DEF RawAt, Files
<1>4. CASE pc = 4104 /\ gpr["t0"] = fw_start_addr /\ gpr["a1"] = 65540
  <2>0. e = Insn("addi", "a1", "a1", Imm12(fdt_addr - 4))
    BY <1>4, RawRom, SMT
  <2>. HIDE DEF e
  <2>1. e.op = "addi" /\ e.rd = "a1" /\ e.rs = "a1" /\ e.imm = Imm12(fdt_addr - 4)
    BY <2>0, InsnParts, SMT
  <2>2. pc' = 4108 /\ stage' = "exec" /\ gpr' = [gpr EXCEPT !["a1"] = 65600]
    BY <1>1, <1>4, <2>1, SMT DEF Does, Imm12, fdt_addr
  <2>. QED BY <2>2, <1>4, SMT DEF RawAt, Files, fdt_addr
<1>5. CASE pc = 4108 /\ gpr["t0"] = fw_start_addr /\ gpr["a1"] = fdt_addr
  <2>0. e = Insn("csrr", "a0", "x0", 0)
    BY <1>5, RawRom, SMT
  <2>. HIDE DEF e
  <2>1. e.op = "csrr" /\ e.rd = "a0"
    BY <2>0, InsnParts, SMT
  <2>2. pc' = 4112 /\ stage' = "exec" /\ gpr' = [gpr EXCEPT !["a0"] = mhartid]
    BY <1>1, <1>5, <2>1, SMT DEF Does
  <2>. QED BY <2>2, <1>5, SMT DEF RawAt, Files, mhartid
<1>6. CASE pc = 4112 /\ gpr["t0"] = fw_start_addr /\ gpr["a1"] = fdt_addr /\ gpr["a0"] = mhartid
  <2>0. e = Insn("jr", "x0", "t0", 0)
    BY <1>6, RawRom, SMT
  <2>. HIDE DEF e
  <2>1. e.op = "jr" /\ e.rs = "t0"
    BY <2>0, InsnParts, SMT
  <2>2. pc' = gpr["t0"] /\ stage' = "run" /\ gpr' = gpr
    BY <1>1, <2>1, SMT DEF Does
  <2>. QED BY <2>2, <1>6, SMT DEF RawLeft, Files, fw_start_addr
<1>. QED BY <1>2, <1>3, <1>4, <1>5, <1>6, SMT DEF RawAt

\* The hart in the ROM of load_elf, instruction by instruction.
LEMMA ElfExec ==
    ASSUME ~Raw, opt.image.entry \in Nat \X Nat, gpr \in Files, ElfAt(opt, pc, gpr), Exec
    PROVE  /\ pc' \in Nat /\ gpr' \in Files
           /\ \/ stage' = "exec" /\ ElfAt(opt, pc', gpr')
              \/ stage' = "run" /\ ElfLeft(opt, pc', gpr')
<1>. DEFINE e == RomAt(pc)
            entry == opt.image.entry[2]
<1>1. Does(e) /\ stage = "exec"
  BY ExecDoes, SMT
<1>2. entry \in Nat
  OBVIOUS
<1>3. CASE pc = 4096
  <2>0. e = Insn("auipc", "t0", "x0", 0)
    BY <1>3, ElfRom, SMT
  <2>. HIDE DEF e
  <2>1. e.op = "auipc" /\ e.rd = "t0" /\ e.imm = 0
    BY <2>0, InsnParts, SMT
  <2>2. pc' = 4100 /\ stage' = "exec" /\ gpr' = [gpr EXCEPT !["t0"] = 4096]
    BY <1>1, <1>3, <2>1, SMT DEF Does
  <2>. QED BY <2>2, SMT DEF ElfAt, Files
<1>4. CASE pc = 4100 /\ gpr["t0"] = 4096
  <2>0. e = Insn("addi", "a1", "t0", 32)
    BY <1>4, ElfRom, SMT
  <2>. HIDE DEF e
  <2>1. e.op = "addi" /\ e.rd = "a1" /\ e.rs = "t0" /\ e.imm = 32
    BY <2>0, InsnParts, SMT
  <2>2. pc' = 4104 /\ stage' = "exec" /\ gpr' = [gpr EXCEPT !["a1"] = 4128]
    BY <1>1, <1>4, <2>1, SMT DEF Does
  <2>. QED BY <2>2, <1>4, SMT DEF ElfAt, Files
<1>5. CASE pc = 4104 /\ gpr["t0"] = 4096
  <2>0. e = Insn("csrr", "a0", "x0", 0)
    BY <1>5, ElfRom, SMT
  <2>. HIDE DEF e
  <2>1. e.op = "csrr" /\ e.rd = "a0"
    BY <2>0, InsnParts, SMT
  <2>2. pc' = 4108 /\ stage' = "exec" /\ gpr' = [gpr EXCEPT !["a0"] = mhartid]
    BY <1>1, <1>5, <2>1, SMT DEF Does
  <2>. QED BY <2>2, <1>5, SMT DEF ElfAt, Files, mhartid
<1>6. CASE pc = 4108 /\ gpr["t0"] = 4096 /\ gpr["a0"] = mhartid
  <2>0. e = Insn("ld", "t0", "t0", 24)
    BY <1>6, ElfRom, SMT
  <2>. HIDE DEF e
  <2>1. e.op = "ld" /\ e.rd = "t0" /\ e.rs = "t0" /\ e.imm = 24
    BY <2>0, InsnParts, SMT
  <2>2. RomAt(4120).value = entry
    BY ElfRom, WordValue, SMT
  <2>. HIDE DEF entry
  <2>3. gpr[e.rs] + e.imm = 4120
    BY <1>6, <2>1, SMT
  <2>4. pc' = 4112 /\ stage' = "exec" /\ gpr' = [gpr EXCEPT !["t0"] = entry]
    BY <1>1, <1>6, <2>1, <2>2, <2>3, SMT DEF Does
  <2>5. pc' = 4112 /\ gpr' \in Files /\ gpr'["t0"] = entry /\ gpr'["a0"] = mhartid
    BY <1>2, <1>6, <2>4, SMT DEF Files
  <2>. QED BY <2>4, <2>5, SMT DEF ElfAt, entry
<1>7. CASE pc = 4112 /\ gpr["t0"] = entry /\ gpr["a0"] = mhartid
  <2>0. e = Insn("jr", "x0", "t0", 0)
    BY <1>7, ElfRom, SMT
  <2>. HIDE DEF e
  <2>1. e.op = "jr" /\ e.rs = "t0"
    BY <2>0, InsnParts, SMT
  <2>2. pc' = gpr["t0"] /\ stage' = "run" /\ gpr' = gpr
    BY <1>1, <2>1, SMT DEF Does
  <2>. QED BY <2>2, <1>2, <1>7, SMT DEF ElfLeft
<1>. QED BY <1>3, <1>4, <1>5, <1>6, <1>7, SMT DEF ElfAt

-----------------------------------------------------------------------------
(* The inductive invariant.                                                *)

\* what TypeOK says of the stage
Stages == {"load", "kernel", "segments", "sections", "fdt", "rom", "exec", "run",
           "exited", "aborted", "killed"}

\* the parts of the invariant: the stage, memory and the hart
StageInv ==
    /\ stage \in Stages
    /\ stage \in {"kernel", "fdt"} => Raw
    /\ stage = "sections" => Elf /\ opt.image.fault = "none"
    /\ stage \in {"rom", "exec", "run"} => Raw \/ (Elf /\ opt.image.fault = "none")
    /\ \A r \in readonly : r.at % PageSize = 0 /\ r.size % PageSize = 0

MemInv ==
    /\ stage = "load" => mem = << >>
    /\ stage = "kernel" => IsRaw(opt, mem, 1)
    /\ stage = "fdt" => IsRaw(opt, mem, 3)
    /\ stage = "rom" /\ Raw => IsRaw(opt, mem, 4)
    /\ stage \in {"exec", "run"} /\ Raw => IsRaw(opt, mem, 5)
    /\ stage \in {"sections", "rom"} /\ Elf =>
          IsElf(opt.image.segments, mem, Len(opt.image.segments))
    /\ stage \in {"exec", "run"} /\ Elf =>
          \E q : IsElf(opt.image.segments, q, Len(opt.image.segments)) /\ mem = <<RomRegion>> \o q

RunInv ==
    /\ pc \in Nat /\ gpr \in Files
    /\ stage = "exec" => IF Raw THEN RawAt(pc, gpr) ELSE ElfAt(opt, pc, gpr)
    /\ stage = "run" => IF Raw THEN RawLeft(pc, gpr) ELSE ElfLeft(opt, pc, gpr)

BootInv == BuildInv /\ StageInv /\ MemInv /\ RunInv

\* What is assumed of the command line and the files.
LEMMA OptionTypes ==
    ASSUME NEW o \in Options
    PROVE  /\ o.phys_start \in Nat /\ o.kernel_size \in Nat /\ o.kernel \in BOOLEAN
           /\ o.image.kind = "raw" => o.image.size \in Nat
           /\ o.image.kind = "elf" /\ o.image.fault = "none" =>
                 o.image.entry \in Nat \X Nat /\ o.image.segments \in Seq(Segment)
                 /\ o.image.sections \in Seq(Section)
  BY OptionsAssumption, ImageAssumption

\* The invariant holds before the load.
LEMMA BootFirst == BootInit => BootInv
<1>. SUFFICES ASSUME BootInit PROVE BootInv
  OBVIOUS
<1>1. /\ stage = "load" /\ mem = << >> /\ readonly = {}
      /\ pc = 0 /\ gpr = [r \in {"t0", "a0", "a1"} |-> 0]
  BY DEF BootInit
<1>2. BuildInv
  BY BuildFirst DEF BootInit
<1>3. StageInv
  BY <1>1 DEF StageInv, Stages
<1>4. MemInv
  BY <1>1 DEF MemInv
<1>5. RunInv
  BY <1>1 DEF RunInv, Files
<1>. QED BY <1>2, <1>3, <1>4, <1>5 DEF BootInv

\* What a step that builds nothing leaves of the builder.
LEMMA BuildKept ==
    ASSUME BuildInv, UNCHANGED <<opt, fdtVars>>
    PROVE  BuildInv' /\ opt' = opt /\ (Raw' <=> Raw) /\ (Elf' <=> Elf)
  BY DEF BuildInv, fdtVars, Raw, Elf

\* A file that is refused.
LEMMA RefuseKeeps ==
    ASSUME BootInv, Refuse
    PROVE  BootInv'
<1>1. /\ stage = "load" /\ stage' \in {"aborted", "exited"}
      /\ UNCHANGED <<opt, fdtVars, mem, readonly, pc, gpr>>
  BY DEF Refuse, Enter
<1>2. BuildInv' /\ opt' = opt
  BY <1>1, BuildKept DEF BootInv
<1>3. StageInv'
  BY <1>1 DEF StageInv, BootInv, Stages
<1>4. MemInv'
  BY <1>1 DEF MemInv
<1>5. RunInv'
  BY <1>1 DEF RunInv, BootInv
<1>. QED BY <1>2, <1>3, <1>4, <1>5 DEF BootInv

\* The firmware is the first region.
LEMMA LoadFirmwareKeeps ==
    ASSUME BootInv, LoadFirmware
    PROVE  BootInv'
<1>. DEFINE r == Region(fw_start_addr, opt.image.size, "firmware")
<1>1. /\ Raw /\ stage = "load" /\ stage' = "kernel" /\ mem' = <<r>> \o mem
      /\ UNCHANGED <<opt, fdtVars, readonly, pc, gpr>>
  BY DEF LoadFirmware, Enter
<1>2. BuildInv' /\ opt' = opt /\ Raw' /\ opt \in Options
  BY <1>1, BuildKept DEF BootInv, BuildInv
<1>3. StageInv'
  BY <1>1, <1>2 DEF StageInv, BootInv, Stages
<1>4. MemInv'
  <2>1. r \in Regions /\ AsRaw(opt, r, 0)
    <3>1. opt.image.size \in Nat
      BY <1>1, <1>2, OptionTypes DEF Raw
    <3>. QED BY <3>1 DEF Regions, Region, Kinds, fw_start_addr, AsRaw
  <2>2. mem = << >>
    BY <1>1 DEF BootInv, MemInv
  <2>3. IsRaw(opt, mem, 0)
    BY <2>2, RawFirst
  <2>. HIDE DEF r
  <2>4. IsRaw(opt, <<r>> \o mem, 0 + 1)
    BY <2>1, <2>3, RawNext
  <2>. QED BY <1>1, <1>2, <2>4 DEF MemInv
<1>5. RunInv'
  BY <1>1 DEF RunInv, BootInv
<1>. QED BY <1>2, <1>3, <1>4, <1>5 DEF BootInv

\* The kernel and its size are the next two, if there is a kernel.
LEMMA LoadKernelKeeps ==
    ASSUME BootInv, LoadKernel
    PROVE  BootInv'
<1>. DEFINE r == Region(kern_addr(opt), opt.kernel_size, "kernel")
            t == Region(kern_addr(opt) - 8, 8, "kernel_size")
<1>1. /\ stage = "kernel" /\ stage' = "fdt"
      /\ mem' = IF ~opt.kernel THEN mem ELSE <<t, r>> \o mem
      /\ UNCHANGED <<opt, fdtVars, readonly, pc, gpr>>
  BY DEF LoadKernel, Enter
<1>2. BuildInv' /\ opt' = opt /\ Raw' /\ Raw /\ opt \in Options
  BY <1>1, BuildKept DEF BootInv, BuildInv, StageInv
<1>3. StageInv'
  BY <1>1, <1>2 DEF StageInv, BootInv, Stages
<1>4. MemInv'
  <2>1. IsRaw(opt, mem, 1)
    BY <1>1 DEF BootInv, MemInv
  <2>2. CASE ~opt.kernel
    <3>1. IsRaw(opt, mem, 3)
      BY <2>1, RawSkips
    <3>. QED BY <1>1, <1>2, <2>2, <3>1 DEF MemInv
  <2>3. CASE opt.kernel
    <3>1. opt.kernel_size \in Nat /\ opt.phys_start \in Nat
      BY <1>2, OptionTypes
    <3>2. kern_addr(opt) \in Nat /\ kern_addr(opt) - 8 \in Nat
      BY <3>1 DEF kern_addr
    <3>3. r \in Regions /\ t \in Regions
      BY <3>1, <3>2 DEF Regions, Region, Kinds
    <3>4. AsRaw(opt, r, 1) /\ AsRaw(opt, t, 2)
      BY <2>3 DEF AsRaw
    <3>. HIDE DEF r, t
    <3>5. IsRaw(opt, <<r>> \o mem, 1 + 1)
      BY <2>1, <3>3, <3>4, RawNext
    <3>6. IsRaw(opt, <<r>> \o mem, 2)
      BY <3>5
    <3>7. mem \in Seq(Regions)
      BY <2>1 DEF IsRaw
    <3>8. <<t, r>> \o mem = <<t>> \o (<<r>> \o mem)
      BY <3>3, <3>7, TwoPushed
    <3>9. IsRaw(opt, <<t, r>> \o mem, 3)
      <4>. DEFINE under == <<r>> \o mem
      <4>1. IsRaw(opt, under, 2)
        BY <3>6
      <4>. HIDE DEF under
      <4>2. IsRaw(opt, <<t>> \o under, 2 + 1)
        BY <4>1, <3>3, <3>4, RawNext
      <4>3. IsRaw(opt, <<t>> \o under, 3)
        BY <4>2
      <4>4. <<t>> \o under = <<t, r>> \o mem
        BY <3>8 DEF under
      <4>. QED BY <4>3, <4>4, Zenon
    <3>. QED BY <1>1, <1>2, <2>3, <3>9 DEF MemInv
  <2>. QED BY <2>2, <2>3
<1>5. RunInv'
  BY <1>1 DEF RunInv, BootInv
<1>. QED BY <1>2, <1>3, <1>4, <1>5 DEF BootInv

\* The builder makes a step, or its blob is the next region.
LEMMA LoadFdtKeeps ==
    ASSUME BootInv, LoadFdt
    PROVE  BootInv'
<1>1. BuildFdt /\ readonly' = readonly /\ pc' = pc /\ gpr' = gpr
  BY DEF LoadFdt
<1>2. BuildInv' /\ opt' = opt /\ opt \in Options
  BY <1>1, BuildNext DEF BootInv, BuildInv
<1>3. Raw' <=> Raw
  BY <1>2 DEF Raw
<1>4. CASE stage = "fdt" /\ stage' = stage /\ mem' = mem
  <2>1. Raw
    BY <1>4 DEF BootInv, StageInv
  <2>2. StageInv'
    BY <1>1, <1>3, <1>4, <2>1 DEF StageInv, BootInv, Stages
  <2>3. MemInv'
    BY <1>2, <1>4 DEF MemInv, BootInv
  <2>4. RunInv'
    BY <1>1, <1>4 DEF RunInv, BootInv
  <2>. QED BY <1>2, <2>2, <2>3, <2>4 DEF BootInv
<1>5. CASE /\ blob' # << >> /\ stage = "fdt" /\ stage' = "rom"
           /\ mem' = <<Region(fdt_addr, blob'[4].be, "fdt")>> \o mem
  <2>. DEFINE size == blob'[4].be
              r == Region(fdt_addr, size, "fdt")
  <2>1. Raw
    BY <1>5 DEF BootInv, StageInv
  <2>2. StageInv'
    BY <1>1, <1>3, <1>5, <2>1 DEF StageInv, BootInv, Stages
  <2>3. size \in Nat /\ fdt_addr + size <= fw_start_addr - 8
    <3>1. blob' = fdt_output(s') /\ Written(opt, Len(riscv_build_fdt(opt)), s')
      BY <1>2, <1>5 DEF BuildInv
    <3>2. /\ fdt_output(s')[4].be \in Nat
          /\ fdt_addr + fdt_output(s')[4].be <= fw_start_addr - 8
      BY <1>2, <3>1, FdtFits
    <3>. QED BY <3>1, <3>2
  <2>. HIDE DEF size
  <2>4. r \in Regions /\ AsRaw(opt, r, 3)
    <3>1. fdt_addr \in Nat
      BY DEF fdt_addr
    <3>. QED BY <2>3, <3>1 DEF Regions, Region, Kinds, AsRaw
  <2>. HIDE DEF r
  <2>5. IsRaw(opt, mem, 3)
    BY <1>5 DEF BootInv, MemInv
  <2>6. IsRaw(opt, <<r>> \o mem, 3 + 1)
    BY <2>4, <2>5, RawNext
  <2>7. mem' = <<r>> \o mem
    BY <1>5 DEF r, size
  <2>8. MemInv'
    <3>1. IsRaw(opt', mem', 4) /\ ~Elf'
      BY <1>2, <1>3, <2>1, <2>6, <2>7 DEF Raw, Elf
    <3>. QED BY <1>5, <3>1 DEF MemInv
  <2>9. RunInv'
    BY <1>1, <1>5 DEF RunInv, BootInv
  <2>. QED BY <1>2, <2>2, <2>8, <2>9 DEF BootInv
<1>. QED BY <1>4, <1>5 DEF LoadFdt, Enter

\* The segments are loaded to memory that nothing was written to.
LEMMA LoadSegmentsKeeps ==
    ASSUME BootInv, LoadSegments
    PROVE  BootInv'
<1>. DEFINE segs == opt.image.segments
<1>1. /\ Elf /\ opt.image.fault = "none" /\ stage = "load" /\ stage' = "sections"
      /\ UNCHANGED <<opt, fdtVars, readonly, pc, gpr>>
  BY DEF LoadSegments, Enter
<1>2. mem' = Loading(segs, mem)
  BY Zenon DEF LoadSegments, Loading
<1>3. BuildInv' /\ opt' = opt /\ Elf' /\ opt \in Options
  BY <1>1, BuildKept DEF BootInv, BuildInv
<1>4. ~Raw'
  BY <1>3 DEF Raw, Elf
<1>5. StageInv'
  BY <1>1, <1>3 DEF StageInv, BootInv, Stages
<1>6. MemInv'
  <2>1. mem = << >>
    BY <1>1 DEF BootInv, MemInv
  <2>2. segs \in Seq(Segment)
    BY <1>1, <1>3, OptionTypes DEF Elf
  <2>3. IsElf(segs, mem', Len(segs))
    BY <1>2, <2>1, <2>2, ElfAll
  <2>. QED BY <1>1, <1>3, <2>3 DEF MemInv
<1>7. RunInv'
  BY <1>1 DEF RunInv, BootInv
<1>. QED BY <1>3, <1>5, <1>6, <1>7 DEF BootInv

\* Whole pages are protected.
LEMMA ProtectSectionsKeeps ==
    ASSUME BootInv, ProtectSections
    PROVE  BootInv'
<1>. DEFINE sections == opt.image.sections
            code == {d \in ToSet(sections) : d.exec /\ d.addr % PageSize = 0}
<1>1. /\ stage = "sections" /\ stage' = "rom"
      /\ readonly' = {Region(c.addr, (c.size \div PageSize) * PageSize, "code") : c \in code}
      /\ UNCHANGED <<opt, fdtVars, mem, pc, gpr>>
  BY DEF ProtectSections, Enter
<1>2. BuildInv' /\ opt' = opt /\ Elf /\ Elf' /\ opt \in Options /\ opt.image.fault = "none"
  BY <1>1, BuildKept DEF BootInv, BuildInv, StageInv
<1>3. ~Raw' /\ ~Raw
  BY <1>2 DEF Raw, Elf
<1>4. ASSUME NEW r \in readonly' PROVE r.at % PageSize = 0 /\ r.size % PageSize = 0
  <2>1. PICK c \in code : r = Region(c.addr, (c.size \div PageSize) * PageSize, "code")
    BY <1>1
  <2>2. c \in Section
    <3>1. sections \in Seq(Section)
      BY <1>2, OptionTypes DEF Elf
    <3>2. c \in ToSet(sections)
      OBVIOUS
    <3>. QED BY <3>1, <3>2 DEF ToSet
  <2>3. c.addr % PageSize = 0 /\ c.size \in Nat
    BY <2>2 DEF Section
  <2>. DEFINE x == c.size
  <2>4. r.at = c.addr /\ r.size = (x \div PageSize) * PageSize
    BY <2>1 DEF Region
  <2>. HIDE DEF x
  <2>5. ((x \div PageSize) * PageSize) % PageSize = 0
    <3>. DEFINE y == x \div 4096
    <3>1. y \in Nat
      BY <2>3 DEF x
    <3>. HIDE DEF y
    <3>2. (y * 4096) % 4096 = 0
      BY <3>1
    <3>. QED BY <3>2 DEF y, PageSize
  <2>. QED BY <2>3, <2>4, <2>5
<1>5. StageInv'
  BY <1>1, <1>2, <1>4 DEF StageInv, Stages
<1>6. MemInv'
  <2>1. IsElf(opt.image.segments, mem, Len(opt.image.segments))
    BY <1>1, <1>2 DEF BootInv, MemInv
  <2>. QED BY <1>1, <1>2, <1>3, <2>1 DEF MemInv
<1>7. RunInv'
  BY <1>1 DEF RunInv, BootInv
<1>. QED BY <1>2, <1>5, <1>6, <1>7 DEF BootInv

\* The ROM is the last region.
LEMMA WriteRomKeeps ==
    ASSUME BootInv, WriteRom
    PROVE  BootInv'
<1>1. stage = "rom" /\ UNCHANGED <<opt, fdtVars, readonly, gpr>>
  BY DEF WriteRom
<1>2. BuildInv' /\ opt' = opt /\ opt \in Options /\ (Raw' <=> Raw) /\ (Elf' <=> Elf)
  BY <1>1, BuildKept DEF BootInv, BuildInv
<1>3. Raw \/ (Elf /\ opt.image.fault = "none")
  BY <1>1 DEF BootInv, StageInv
<1>4. CASE stage' = "killed" /\ mem' = mem /\ pc' = pc
  <2>1. StageInv' /\ MemInv' /\ RunInv'
    BY <1>1, <1>4 DEF StageInv, MemInv, RunInv, BootInv, Stages
  <2>. QED BY <1>2, <2>1 DEF BootInv
<1>5. CASE stage' = "exec" /\ mem' = <<RomRegion>> \o mem /\ pc' = BOOT_ROM_ADDR
  <2>1. StageInv'
    BY <1>1, <1>2, <1>3, <1>5 DEF StageInv, BootInv, Stages
  <2>2. pc' = 4096
    BY <1>5 DEF BOOT_ROM_ADDR
  <2>3. RunInv'
    BY <1>1, <1>5, <2>2 DEF RunInv, BootInv, RawAt, ElfAt
  <2>4. CASE Raw
    <3>1. RomRegion = Region(4096, 20, "rom")
      BY <2>4, RawRom
    <3>2. RomRegion \in Regions /\ AsRaw(opt, RomRegion, 4)
      BY <3>1 DEF Regions, Region, Kinds, AsRaw, BOOT_ROM_ADDR
    <3>3. IsRaw(opt, mem, 4)
      BY <1>1, <2>4 DEF BootInv, MemInv
    <3>4. IsRaw(opt, <<RomRegion>> \o mem, 4 + 1)
      BY <3>2, <3>3, RawNext
    <3>5. IsRaw(opt', mem', 5) /\ ~Elf'
      BY <1>2, <1>5, <2>4, <3>4 DEF Raw, Elf
    <3>6. MemInv'
      BY <1>5, <3>5 DEF MemInv
    <3>. QED BY <1>2, <2>1, <2>3, <3>6 DEF BootInv
  <2>5. CASE ~Raw
    <3>1. Elf /\ Elf' /\ ~Raw'
      BY <1>2, <1>3, <2>5
    <3>2. IsElf(opt.image.segments, mem, Len(opt.image.segments))
      BY <1>1, <3>1 DEF BootInv, MemInv
    <3>3. RomRegion' = RomRegion
      BY <2>5, <3>1, <1>2 DEF RomRegion, Rom, RomElf
    <3>4. MemInv'
      BY <1>2, <1>5, <3>1, <3>2, <3>3 DEF MemInv
    <3>. QED BY <1>2, <2>1, <2>3, <3>4 DEF BootInv
  <2>. QED BY <2>4, <2>5
<1>. QED BY <1>4, <1>5 DEF WriteRom

\* An instruction of the ROM changes registers only.
LEMMA ExecKeeps ==
    ASSUME BootInv, Exec
    PROVE  BootInv'
<1>1. stage = "exec" /\ UNCHANGED <<opt, fdtVars, mem, readonly>>
  BY DEF Exec
<1>2. BuildInv' /\ opt' = opt /\ opt \in Options /\ (Raw' <=> Raw) /\ (Elf' <=> Elf)
  BY <1>1, BuildKept DEF BootInv, BuildInv
<1>3. Raw \/ (Elf /\ opt.image.fault = "none")
  BY <1>1 DEF BootInv, StageInv
<1>4. gpr \in Files /\ (IF Raw THEN RawAt(pc, gpr) ELSE ElfAt(opt, pc, gpr))
  BY <1>1 DEF BootInv, RunInv
<1>5. RunInv' /\ stage' \in {"exec", "run"}
  <2>1. CASE Raw
    <3>1. /\ pc' \in Nat /\ gpr' \in Files
          /\ \/ stage' = "exec" /\ RawAt(pc', gpr')
             \/ stage' = "run" /\ RawLeft(pc', gpr')
      BY <1>4, <2>1, RawExec
    <3>. QED BY <1>2, <2>1, <3>1 DEF RunInv
  <2>2. CASE ~Raw
    <3>1. opt.image.entry \in Nat \X Nat
      BY <1>2, <1>3, <2>2, OptionTypes DEF Elf
    <3>2. /\ pc' \in Nat /\ gpr' \in Files
          /\ \/ stage' = "exec" /\ ElfAt(opt, pc', gpr')
             \/ stage' = "run" /\ ElfLeft(opt, pc', gpr')
      BY <1>4, <2>2, <3>1, ElfExec
    <3>. QED BY <1>2, <2>2, <3>2 DEF RunInv
  <2>. QED BY <2>1, <2>2
<1>6. StageInv'
  BY <1>1, <1>2, <1>3, <1>5 DEF StageInv, BootInv, Stages
<1>7. MemInv'
  <2>1. RomRegion' = RomRegion
    BY <1>2 DEF RomRegion, Rom, RomElf, RomRaw
  <2>. QED BY <1>1, <1>2, <1>5, <2>1 DEF MemInv, BootInv
<1>. QED BY <1>2, <1>5, <1>6, <1>7 DEF BootInv

\* Every step keeps the invariant.
LEMMA BootStays ==
    BootInv /\ [BootNext]_bootVars => BootInv'
<1>. SUFFICES ASSUME BootInv, [BootNext]_bootVars PROVE BootInv'
  OBVIOUS
<1>1. CASE BootNext
  BY <1>1, RefuseKeeps, LoadFirmwareKeeps, LoadKernelKeeps, LoadFdtKeeps, LoadSegmentsKeeps,
     ProtectSectionsKeeps, WriteRomKeeps, ExecKeeps DEF BootNext
<1>2. CASE UNCHANGED bootVars
  <2>1. UNCHANGED <<opt, fdtVars>> /\ UNCHANGED <<stage, mem, readonly, pc, gpr>>
    BY <1>2 DEF bootVars
  <2>2. BuildInv' /\ opt' = opt
    BY <2>1, BuildKept DEF BootInv
  <2>3. StageInv' /\ RunInv'
    BY <2>1 DEF BootInv, StageInv, RunInv, Raw, Elf
  <2>4. RomRegion' = RomRegion
    BY <2>2 DEF RomRegion, Rom, RomElf, RomRaw, Raw
  <2>5. MemInv'
    BY <2>1, <2>4 DEF BootInv, MemInv, Raw, Elf
  <2>. QED BY <2>2, <2>3, <2>5 DEF BootInv
<1>. QED BY <1>1, <1>2

-----------------------------------------------------------------------------
(* What follows.                                                           *)

\* The invariant has the types.
LEMMA BootTyped == BootInv => TypeOK
<1>. SUFFICES ASSUME BootInv PROVE TypeOK
  OBVIOUS
<1>1. /\ opt \in Options /\ n \in 0 .. Len(riscv_build_fdt(opt))
      /\ Len(s.tab) <= s.tab_size /\ Bytes(s.string_table) <= s.string_table_size
      /\ s.open_node_count \in Nat
  BY BuildTypes DEF BootInv
<1>2. stage \in Stages /\ \A r \in readonly : r.at % PageSize = 0 /\ r.size % PageSize = 0
  BY DEF BootInv, StageInv
<1>3. pc \in Nat /\ gpr \in Files
  BY DEF BootInv, RunInv
<1>. QED BY <1>1, <1>2, <1>3 DEF TypeOK, Stages, Files

\* What load_raw promises.
LEMMA RawPromise ==
    ASSUME BootInv, stage = "run", Raw
    PROVE  /\ pc = fw_start_addr /\ gpr.a0 = mhartid /\ gpr.a1 = fdt_addr
           /\ \A i \in DOMAIN mem :
                 Whole(i) \/ (KernelMeetsFirmware /\ mem[i].what \in {"firmware", "kernel"})
<1>1. RawLeft(pc, gpr) /\ IsRaw(opt, mem, 5) /\ opt \in Options
  BY DEF BootInv, BuildInv, RunInv, MemInv
<1>2. opt.phys_start \in Nat /\ opt.kernel_size \in Nat /\ opt.image.size \in Nat
  BY <1>1, OptionTypes DEF Raw
<1>3. mem \in Seq(Regions)
  BY <1>1 DEF IsRaw
<1>4. PICK age : RawLoaded(opt, mem, 5, age)
  BY <1>1 DEF IsRaw
<1>5. ASSUME NEW i \in DOMAIN mem, ~Whole(i)
      PROVE  KernelMeetsFirmware /\ mem[i].what \in {"firmware", "kernel"}
  <2>1. i \in 1 .. Len(mem)
    BY <1>3
  <2>2. PICK j \in 1 .. i - 1 : Meet(mem[j], mem[i])
    BY <1>5 DEF Whole
  <2>3. j \in 1 .. Len(mem) /\ j < i
    BY <1>3, <2>1
  <2>4. /\ AsRaw(opt, mem[i], age[i]) /\ AsRaw(opt, mem[j], age[j]) /\ age[j] > age[i]
    BY <1>4, <2>1, <2>3, Zenon DEF RawLoaded
  <2>5. /\ opt.kernel /\ fw_start_addr + opt.image.size > kern_addr(opt) - 8
        /\ mem[i].what = "firmware"
    BY <1>2, <2>2, <2>4, RawApart
  <2>. QED BY <2>5 DEF KernelMeetsFirmware
<1>. QED BY <1>1, <1>5 DEF RawLeft

\* A region inside a larger one meets what it meets.
LEMMA MeetWider ==
    ASSUME NEW r, NEW q, NEW a, NEW b, Meet(r, q),
           a.at = r.at, b.at = q.at, r.at \in Nat, q.at \in Nat,
           r.size \in Nat, q.size \in Nat, a.size \in Nat, b.size \in Nat,
           r.size <= a.size, q.size <= b.size
    PROVE  Meet(a, b) /\ Meet(b, a)
<1>. DEFINE x == r.at
            y == q.at
            k == r.size
            l == q.size
            u == a.size
            v == b.size
<1>1. k > 0 /\ l > 0 /\ x < y + l /\ y < x + k
  BY DEF Meet
<1>. HIDE DEF x, y, k, l, u, v
<1>2. /\ x \in Nat /\ y \in Nat /\ k \in Nat /\ l \in Nat /\ u \in Nat /\ v \in Nat
      /\ k <= u /\ l <= v /\ a.at = x /\ b.at = y /\ a.size = u /\ b.size = v
  BY DEF x, y, k, l, u, v
<1>3. u > 0 /\ v > 0 /\ x < y + v /\ y < x + u
  BY <1>1, <1>2
<1>. QED BY <1>2, <1>3 DEF Meet

\* What load_elf promises.
LEMMA ElfPromise ==
    ASSUME BootInv, stage = "run", Elf
    PROVE  /\ opt.image.entry[1] = 0 => pc = opt.image.entry[2]
           /\ gpr.a0 = mhartid
           /\ \A i \in DOMAIN mem : mem[i].what # "zero" => Whole(i) \/ SegmentsMeet
<1>. DEFINE g == opt.image.segments
            Of(k) == Region(g[k].vaddr, Max({g[k].memsz, g[k].filesz}), "segment")
<1>1. ~Raw /\ ElfLeft(opt, pc, gpr) /\ opt \in Options /\ opt.image.fault = "none"
  BY DEF BootInv, BuildInv, RunInv, StageInv, Raw, Elf
<1>2. g \in Seq(Segment)
  BY <1>1, OptionTypes DEF Elf
<1>3. PICK q : IsElf(g, q, Len(g)) /\ mem = <<RomRegion>> \o q
  BY DEF BootInv, MemInv
<1>4. q \in Seq(Regions)
  BY <1>3 DEF IsElf
<1>5. PICK of : ElfLoaded(g, q, Len(g), of)
  BY <1>3 DEF IsElf
<1>6. RomRegion = Region(4096, 32, "rom")
  BY <1>1, ElfRom, SMT
<1>7. RomRegion \in Regions /\ RomRegion.at \in Nat /\ RomRegion.size \in Nat
  BY <1>6, SMT DEF Region, Regions, Kinds
<1>8. /\ Len(mem) = Len(q) + 1 /\ Len(q) \in Nat /\ mem[1] = RomRegion
      /\ \A j \in 2 .. Len(mem) : j - 1 \in 1 .. Len(q) /\ mem[j] = q[j - 1]
  BY <1>3, <1>4, PushedAt
<1>9. mem \in Seq(Regions)
  BY <1>3, <1>4, <1>7, PushedAt
<1>10. ASSUME NEW j \in 1 .. Len(q)
       PROVE  /\ of[j] \in DOMAIN g /\ IsLoaded(g[of[j]])
              /\ Of(of[j]).at = q[j].at /\ Of(of[j]).at \in Nat /\ Of(of[j]).size \in Nat
              /\ q[j].size \in Nat /\ q[j].size <= Of(of[j]).size
  <2>. DEFINE k == of[j]
              e == g[k]
              top == Max({e.memsz, e.filesz})
  <2>1. k \in 1 .. Len(g) /\ IsLoaded(e) /\ PartOf(q[j], e)
    BY <1>5 DEF ElfLoaded
  <2>2. e \in Segment /\ k \in DOMAIN g
    BY <1>2, <2>1
  <2>. HIDE DEF k
  <2>. HIDE DEF e
  <2>3. q[j].at = e.vaddr /\ q[j].size \in Nat /\ top \in Nat /\ q[j].size <= top
    BY <2>1, <2>2, PartInside
  <2>4. e.vaddr \in Nat
    BY <2>2 DEF Segment
  <2>. HIDE DEF top
  <2>5. Of(k) = Region(e.vaddr, top, "segment")
    BY DEF top, e
  <2>. HIDE DEF Of
  <2>6. Of(k).at = e.vaddr /\ Of(k).size = top
    BY <2>5 DEF Region
  <2>. QED BY <2>1, <2>2, <2>3, <2>4, <2>6 DEF k, e
<1>11. ASSUME NEW i \in DOMAIN mem, mem[i].what # "zero", ~Whole(i)
       PROVE  SegmentsMeet
  <2>1. i \in 1 .. Len(mem)
    BY <1>9
  <2>2. PICK j \in 1 .. i - 1 : Meet(mem[j], mem[i])
    BY <1>11 DEF Whole
  <2>3. i \in 2 .. Len(mem) /\ j \in 1 .. Len(mem) /\ j < i
    BY <1>8, <2>1
  <2>4. i - 1 \in 1 .. Len(q) /\ mem[i] = q[i - 1]
    BY <1>8, <2>3
  <2>. DEFINE k == of[i - 1]
  <2>5. /\ k \in DOMAIN g /\ IsLoaded(g[k])
        /\ Of(k).at = mem[i].at /\ mem[i].at \in Nat /\ Of(k).size \in Nat
        /\ mem[i].size \in Nat /\ mem[i].size <= Of(k).size
    BY <1>10, <2>4
  <2>6. CASE j = 1
    <3>1. Meet(RomRegion, mem[i])
      BY <1>8, <2>2, <2>6
    <3>. HIDE DEF Of, k
    <3>2. Meet(Of(k), RomRegion)
      <4>1. RomRegion.size <= RomRegion.size
        BY <1>7
      <4>. QED BY <1>7, <2>5, <3>1, <4>1, MeetWider
    <3>. QED BY <2>5, <3>2, Zenon DEF SegmentsMeet, Of
  <2>7. CASE j # 1
    <3>1. j \in 2 .. Len(mem)
      BY <2>3, <2>7
    <3>2. j - 1 \in 1 .. Len(q) /\ mem[j] = q[j - 1] /\ j - 1 < i - 1
      BY <1>8, <2>3, <3>1
    <3>. DEFINE l == of[j - 1]
    <3>3. /\ l \in DOMAIN g /\ IsLoaded(g[l])
          /\ Of(l).at = mem[j].at /\ mem[j].at \in Nat /\ Of(l).size \in Nat
          /\ mem[j].size \in Nat /\ mem[j].size <= Of(l).size
      BY <1>10, <3>2
    <3>4. l # k
      <4>1. l # k \/ q[i - 1].what = "zero"
        BY <1>5, <2>4, <3>2 DEF ElfLoaded
      <4>. QED BY <1>11, <2>4, <4>1
    <3>. HIDE DEF Of, k, l
    <3>5. Meet(Of(k), Of(l))
      BY <2>2, <2>5, <3>3, MeetWider
    <3>. QED BY <2>5, <3>3, <3>4, <3>5, Zenon DEF SegmentsMeet, Of
  <2>. QED BY <2>6, <2>7
<1>. QED BY <1>1, <1>11 DEF ElfLeft

\* The invariant makes what was loaded whole, and the registers right.
LEMMA Promised == BootInv => HandedOver
<1>1. BootInv => RawHandedOver
  BY RawPromise, Zenon DEF RawHandedOver
<1>2. BootInv => ElfHandedOver
  BY ElfPromise, Zenon DEF ElfHandedOver
<1>. QED BY <1>1, <1>2 DEF HandedOver

\* The invariant of the whole boot.
LEMMA BootAlways == BootSpec => []BootInv
<1>1. BootInv /\ [BootNext]_bootVars => BootInv'
  BY BootStays
<1>. QED BY BootFirst, <1>1, PTL DEF BootSpec

\* The types of the boot: the tables of the tree within the sizes that were
\* allocated for them (fdt_require, fdt_require_string), nodes closed no more
\* often than opened, protected regions made of whole pages.
THEOREM BootTypes == BootSpec => []TypeOK
  BY BootAlways, BootTyped, PTL

\* The guest is entered at its first instruction (load_raw) or its entry
\* (load_elf) with the hart in a0, the tree in a1 and all that was loaded
\* where it was loaded, for every image, kernel and --phys_start.
THEOREM HandsOver == BootSpec => []HandedOver
  BY BootAlways, Promised, PTL

\* What a reader following the device tree specification reads in the blob
\* of fdt_output is the tree that riscv_build_fdt described.
THEOREM ReadsBack == BootSpec => []TreeReadBack
<1>1. BootInv => TreeReadBack
  BY BlobReadsBack DEF BootInv
<1>. QED BY BootAlways, <1>1, PTL

\* fdt_output never fails the assertion that every node was closed: after the
\* last call of riscv_build_fdt none is open, whatever the options.
THEOREM NodesClosed == BootSpec => [](~Building => s.open_node_count = 0)
<1>1. BootInv => (~Building => s.open_node_count = 0)
  <2>. SUFFICES ASSUME BootInv, ~Building PROVE s.open_node_count = 0
    OBVIOUS
  <2>1. opt \in Options /\ n \in 0 .. Len(riscv_build_fdt(opt)) /\ Written(opt, n, s)
    BY DEF BootInv, BuildInv
  <2>2. n = Len(riscv_build_fdt(opt))
    <3>1. Len(riscv_build_fdt(opt)) \in Nat
      BY <2>1, ScriptTyped
    <3>. QED BY <2>1, <3>1 DEF Building
  <2>. QED BY <2>1, <2>2 DEF Written, Depths
<1>. QED BY BootAlways, <1>1, PTL

-----------------------------------------------------------------------------
(* What the tree says.                                                     *)

\* q is in t after the first off calls
Lists(t, off, q) == \A j \in 1 .. Len(q) : t[off + j] = q[j]

\* What lists two sequences lists each.
LEMMA ListsBoth ==
    ASSUME NEW t, NEW off \in Nat, NEW p, NEW q, IsSequence(p), IsSequence(q),
           Lists(t, off, p \o q)
    PROVE  Lists(t, off, p) /\ Lists(t, off + Len(p), q)
<1>1. PICK S, R : p \in Seq(S) /\ q \in Seq(R)
  BY DEF IsSequence
<1>. DEFINE r == p \o q
<1>2. /\ Len(p) \in Nat /\ Len(q) \in Nat /\ Len(r) = Len(p) + Len(q)
      /\ \A k \in 1 .. Len(p) : r[k] = p[k]
      /\ \A k \in 1 .. Len(q) : r[Len(p) + k] = q[k]
  <2>1. p \in Seq(S \cup R) /\ q \in Seq(S \cup R)
    BY <1>1, SeqWiden
  <2>. QED BY <2>1
<1>3. \A j \in 1 .. Len(r) : t[off + j] = r[j]
  BY Zenon DEF Lists
<1>. HIDE DEF r
<1>4. \A j \in 1 .. Len(p) : t[off + j] = p[j]
  <2>1. \A j \in 1 .. Len(p) : j \in 1 .. Len(r)
    BY <1>2
  <2>. QED BY <1>2, <1>3, <2>1
<1>5. ASSUME NEW j \in 1 .. Len(q) PROVE t[off + Len(p) + j] = q[j]
  <2>1. Len(p) + j \in 1 .. Len(r) /\ off + (Len(p) + j) = off + Len(p) + j
    BY <1>2
  <2>2. t[off + (Len(p) + j)] = r[Len(p) + j]
    BY <1>3, <2>1, Zenon
  <2>3. r[Len(p) + j] = q[j]
    BY <1>2
  <2>. QED BY <2>1, <2>2, <2>3, Zenon
<1>. QED BY <1>4, <1>5, Zenon DEF Lists

\* Calls joined to calls.
LEMMA BothLen ==
    ASSUME NEW p, NEW q, IsSequence(p), IsSequence(q)
    PROVE  /\ Len(p) \in Nat /\ Len(q) \in Nat
           /\ Len(p \o q) = Len(p) + Len(q) /\ IsSequence(p \o q)
<1>1. PICK S : p \in Seq(S) /\ \A c \in S : IsCall(c)
  BY DEF IsSequence
<1>2. PICK R : q \in Seq(R) /\ \A c \in R : IsCall(c)
  BY DEF IsSequence
<1>. DEFINE U == S \cup R
<1>3. S \subseteq U /\ R \subseteq U /\ \A c \in U : IsCall(c)
  BY <1>1, <1>2
<1>. HIDE DEF U
<1>4. p \in Seq(U) /\ q \in Seq(U)
  BY <1>1, <1>2, <1>3, SeqWiden
<1>. DEFINE r == p \o q
<1>5. Len(p) \in Nat /\ Len(q) \in Nat /\ Len(r) = Len(p) + Len(q) /\ r \in Seq(U)
  BY <1>4
<1>. HIDE DEF r
<1>6. IsSequence(r)
  BY <1>3, <1>5 DEF IsSequence
<1>. QED BY <1>5, <1>6 DEF r

\* Where the calls of a node are.
LEMMA NodeLists ==
    ASSUME NEW name, NEW q, IsSequence(q)
    PROVE  /\ Len(q) \in Nat /\ Len(Node(name, q)) = Len(q) + 2
           /\ IsSequence(Node(name, q))
           /\ \A t : \A off \in Nat : Lists(t, off, Node(name, q)) =>
                 /\ t[off + 1] = Begin(name) /\ t[off + Len(q) + 2] = End
                 /\ Lists(t, off + 1, q)
<1>. DEFINE b == Begin(name)
            e == End
            p == <<b>>
            z == <<e>>
<1>1. Node(name, q) = (p \o q) \o z
  BY Zenon DEF Node
<1>2. IsCall(b) /\ IsCall(e)
  BY Zenon DEF IsCall
<1>. HIDE DEF b, e
<1>3. IsSequence(p) /\ IsSequence(z) /\ Len(p) = 1 /\ Len(z) = 1 /\ p[1] = b /\ z[1] = e
  <2>1. p \in Seq({b}) /\ z \in Seq({e}) /\ Len(p) = 1 /\ Len(z) = 1 /\ p[1] = b /\ z[1] = e
    OBVIOUS
  <2>2. \A S, c : S = {c} /\ IsCall(c) => \A x \in S : IsCall(x)
    OBVIOUS
  <2>. HIDE DEF p, z
  <2>. QED BY <1>2, <2>1, <2>2 DEF IsSequence
<1>. HIDE DEF p, z
<1>4. /\ IsSequence(p \o q) /\ Len(p \o q) = 1 + Len(q) /\ Len(q) \in Nat
      /\ IsSequence((p \o q) \o z) /\ Len((p \o q) \o z) = (1 + Len(q)) + 1
  <2>1. IsSequence(p \o q) /\ Len(p \o q) = 1 + Len(q) /\ Len(q) \in Nat
    BY <1>3, BothLen
  <2>2. IsSequence((p \o q) \o z) /\ Len((p \o q) \o z) = Len(p \o q) + Len(z)
    BY <1>3, <2>1, BothLen
  <2>. QED BY <1>3, <2>1, <2>2
<1>5. Len((p \o q) \o z) = Len(q) + 2
  BY <1>4
<1>6. ASSUME NEW t, NEW off \in Nat, Lists(t, off, (p \o q) \o z)
      PROVE  /\ t[off + 1] = b /\ t[off + Len(q) + 2] = e
             /\ Lists(t, off + 1, q)
  <2>1. Lists(t, off, p \o q) /\ Lists(t, off + (1 + Len(q)), z)
    BY <1>3, <1>4, <1>6, ListsBoth
  <2>2. Lists(t, off, p) /\ Lists(t, off + 1, q)
    BY <1>3, <2>1, ListsBoth
  <2>3. t[off + 1] = b
    BY <1>3, <2>2 DEF Lists
  <2>4. t[off + (1 + Len(q)) + 1] = e
    BY <1>3, <2>1 DEF Lists
  <2>5. off + (1 + Len(q)) + 1 = off + Len(q) + 2
    BY <1>4
  <2>. QED BY <2>2, <2>3, <2>4, <2>5
<1>. QED BY <1>1, <1>4, <1>5, <1>6, Zenon DEF b, e

\* A shape is a sequence.
LEMMA ShapeSequence == ASSUME NEW q, Shape(q) PROVE IsSequence(q)
  BY DEF Shape

\* Where those of a node with a unit address are.
LEMMA NumLists ==
    ASSUME NEW name, NEW v, NEW q, IsSequence(q)
    PROVE  /\ Len(q) \in Nat /\ Len(NodeNum(name, v, q)) = Len(q) + 2
           /\ IsSequence(NodeNum(name, v, q))
           /\ \A t : \A off \in Nat : Lists(t, off, NodeNum(name, v, q)) =>
                 /\ t[off + 1] = Begin(Unit(name, v)) /\ t[off + Len(q) + 2] = End
                 /\ Lists(t, off + 1, q)
  BY NodeLists, Zenon DEF NodeNum

\* The calls of a list of one,
LEMMA OneListed ==
    ASSUME NEW t, NEW off, NEW a, Lists(t, off, <<a>>)
    PROVE  t[off + 1] = a
  BY DEF Lists

\* two,
LEMMA TwoListed ==
    ASSUME NEW t, NEW off, NEW a, NEW b, Lists(t, off, <<a, b>>)
    PROVE  t[off + 1] = a /\ t[off + 2] = b
  BY DEF Lists

\* three,
LEMMA ThreeListed ==
    ASSUME NEW t, NEW off, NEW a, NEW b, NEW c, Lists(t, off, <<a, b, c>>)
    PROVE  t[off + 1] = a /\ t[off + 2] = b /\ t[off + 3] = c
  BY DEF Lists

\* four,
LEMMA FourListed ==
    ASSUME NEW t, NEW off, NEW a, NEW b, NEW c, NEW d, Lists(t, off, <<a, b, c, d>>)
    PROVE  t[off + 1] = a /\ t[off + 2] = b /\ t[off + 3] = c /\ t[off + 4] = d
  BY DEF Lists

\* five,
LEMMA FiveListed ==
    ASSUME NEW t, NEW off, NEW a, NEW b, NEW c, NEW d, NEW e,
           Lists(t, off, <<a, b, c, d, e>>)
    PROVE  /\ t[off + 1] = a /\ t[off + 2] = b /\ t[off + 3] = c /\ t[off + 4] = d
           /\ t[off + 5] = e
  BY DEF Lists

\* seven,
LEMMA SevenListed ==
    ASSUME NEW t, NEW off, NEW a, NEW b, NEW c, NEW d, NEW e, NEW f, NEW g,
           Lists(t, off, <<a, b, c, d, e, f, g>>)
    PROVE  /\ t[off + 1] = a /\ t[off + 2] = b /\ t[off + 3] = c /\ t[off + 4] = d
           /\ t[off + 5] = e /\ t[off + 6] = f /\ t[off + 7] = g
  BY DEF Lists

\* eight.
LEMMA EightListed ==
    ASSUME NEW t, NEW off, NEW a, NEW b, NEW c, NEW d, NEW e, NEW f, NEW g, NEW h,
           Lists(t, off, <<a, b, c, d, e, f, g, h>>)
    PROVE  /\ t[off + 1] = a /\ t[off + 2] = b /\ t[off + 3] = c /\ t[off + 4] = d
           /\ t[off + 5] = e /\ t[off + 6] = f /\ t[off + 7] = g /\ t[off + 8] = h
  BY DEF Lists

\* call i of t is a property with that value
Says(t, i, name, v) == t[i].op \in {"u32", "str"} /\ t[i].name = name /\ t[i].value = v

\* the properties that the references are about; a call that is not one of them
Names == {"phandle", "#interrupt-cells", "interrupt-controller", "interrupts-extended",
          "reg", "device_type", "#address-cells", "#size-cells"}
Plain(t, i) == t[i].op \in {"u32", "str"} => t[i].name \notin Names
Dull(t, i) == t[i].op \in {"u32", "str"} /\ t[i].name \notin Names

\* call i of t opens a node, or closes one
Opens(t, i, name) == t[i].op = "begin" /\ t[i].name = name
Closes(t, i) == t[i].op = "end"

\* Begin opens a node.
LEMMA OpensAt == ASSUME NEW t, NEW i, NEW name, t[i] = Begin(name) PROVE Opens(t, i, name)
  BY DEF Opens, Begin

\* End closes one.
LEMMA ClosesAt == ASSUME NEW t, NEW i, t[i] = End PROVE Closes(t, i)
<1>1. End.op = "end"
  BY Zenon DEF End
<1>. QED BY <1>1, Zenon DEF Closes

\* U32 gives its value.
LEMMA SaysU32 ==
    ASSUME NEW t, NEW i, NEW name, NEW v, t[i] = U32(name, v) PROVE Says(t, i, name, v)
  BY DEF Says, U32

\* So does Str.
LEMMA SaysStr ==
    ASSUME NEW t, NEW i, NEW name, NEW v, t[i] = Str(name, v) PROVE Says(t, i, name, v)
  BY DEF Says, Str

\* What it says is of no reference,
LEMMA DullAt ==
    ASSUME NEW t, NEW i, NEW name, NEW v, Says(t, i, name, v), name \notin Names
    PROVE  Dull(t, i)
  BY DEF Says, Dull

\* as is a call that opens or closes.
LEMMA PlainAt == ASSUME NEW t, NEW i, Dull(t, i) \/ Closes(t, i) \/ (\E name : Opens(t, i, name))
                 PROVE  Plain(t, i)
  BY DEF Plain, Dull, Closes, Opens

\* The other properties of the script.
LEMMA NamesAre ==
    \A name \in {"model", "timebase-frequency", "status", "compatible", "riscv,isa",
                 "riscv,isa-extensions", "mmu-type", "clock-frequency", "ranges", "riscv,ndev",
                 "interrupts", "no-loopback-test", "bootargs", "riscv,kernel-start",
                 "riscv,kernel-end"} : name \notin Names
  BY DEF Names

\* The calls of the cpu and its interrupt controller.
LEMMA CpuLists ==
    ASSUME NEW o, NEW t, Lists(t, 8, Cpu(o))
    PROVE  /\ Opens(t, 9, Unit("cpu", 0))
           /\ Says(t, 10, "device_type", <<"cpu">>)
           /\ Says(t, 11, "reg", <<0>>)
           /\ Dull(t, 12) /\ Dull(t, 13) /\ Dull(t, 14)
           /\ Dull(t, 15) /\ Dull(t, 16) /\ Dull(t, 17)
           /\ Opens(t, 18, "interrupt-controller")
           /\ Says(t, 19, "#interrupt-cells", <<1>>)
           /\ Says(t, 20, "interrupt-controller", << >>)
           /\ Dull(t, 21)
           /\ Says(t, 22, "phandle", <<1>>)
           /\ Closes(t, 23) /\ Closes(t, 24)
<1>. DEFINE isa == <<"i", "m", "a", "zba", "zbb", "zicsr", "zifencei", "zicond">>
                      \o (IF o.svnapot THEN <<"svnapot">> ELSE << >>)
            a == Str("device_type", <<"cpu">>)
            b == U32("reg", <<0>>)
            c == Str("status", <<"okay">>)
            d == Str("compatible", <<"riscv">>)
            e == Str("riscv,isa", <<"rv64ima">>)
            f == Str("riscv,isa-extensions", isa)
            g == Str("mmu-type", <<"riscv,sv39">>)
            h == U32("clock-frequency", <<o.cpu_freq>>)
            p == U32("#interrupt-cells", <<1>>)
            q == Empty("interrupt-controller")
            r == Str("compatible", <<"riscv,cpu-intc">>)
            u == U32("phandle", <<intc_phandle>>)
            y == <<a, b, c, d, e, f, g, h>>
            z == <<p, q, r, u>>
<1>1. Cpu(o) = NodeNum("cpu", 0, y \o Node("interrupt-controller", z))
  BY Zenon DEF Cpu
<1>2. IsSequence(y) /\ IsSequence(z) /\ Len(y) = 8 /\ Len(z) = 4
  <2>1. /\ IsProp(a) /\ IsProp(b) /\ IsProp(c) /\ IsProp(d)
        /\ IsProp(e) /\ IsProp(g) /\ IsProp(h)
    BY StrOne, U32One
  <2>2. IsProp(f)
    BY IsaProp
  <2>3. IsProp(p) /\ IsProp(q) /\ IsProp(r) /\ IsProp(u)
    BY StrOne, U32One, EmptyProp
  <2>. HIDE DEF a, b, c, d, e, f, g, h, p, q, r, u
  <2>4. Shape(y) /\ Shape(z)
    BY <2>1, <2>2, <2>3, EightProps, FourProps
  <2>5. Len(y) = 8 /\ Len(z) = 4
    OBVIOUS
  <2>. QED BY <2>4, <2>5, ShapeSequence
<1>. DEFINE w == Node("interrupt-controller", z)
<1>3. /\ t[9] = Begin(Unit("cpu", 0)) /\ t[24] = End
      /\ Lists(t, 9, y) /\ Lists(t, 17, w)
  <2>. HIDE DEF y, z
  <2>1. IsSequence(w) /\ Len(w) = Len(z) + 2
    BY <1>2, NodeLists, Zenon
  <2>. HIDE DEF w
  <2>2. /\ IsSequence(y \o w) /\ Len(y \o w) = Len(y) + Len(w)
    BY <1>2, <2>1, BothLen, Zenon
  <2>3. Len(y \o w) = 14 /\ 8 \in Nat /\ 9 \in Nat /\ 8 + 1 = 9
    BY <1>2, <2>1, <2>2
  <2>4. Lists(t, 8, NodeNum("cpu", 0, y \o w))
    BY <1>1, Zenon DEF w
  <2>5. /\ t[8 + 1] = Begin(Unit("cpu", 0)) /\ t[8 + Len(y \o w) + 2] = End
        /\ Lists(t, 8 + 1, y \o w)
    BY <2>2, <2>3, <2>4, NumLists, Zenon
  <2>6. Lists(t, 9, y) /\ Lists(t, 9 + Len(y), w)
    BY <1>2, <2>1, <2>3, <2>5, ListsBoth, Zenon
  <2>7. 8 + Len(y \o w) + 2 = 24 /\ 9 + Len(y) = 17
    BY <1>2, <2>3
  <2>. QED BY <2>3, <2>5, <2>6, <2>7, Zenon
<1>4. /\ t[18] = Begin("interrupt-controller") /\ t[23] = End
      /\ Lists(t, 18, z)
  <2>. HIDE DEF y, z
  <2>1. /\ t[17 + 1] = Begin("interrupt-controller") /\ t[17 + Len(z) + 2] = End
        /\ Lists(t, 17 + 1, z)
    BY <1>2, <1>3, NodeLists, Zenon
  <2>2. 17 + 1 = 18 /\ 17 + Len(z) + 2 = 23
    BY <1>2
  <2>. QED BY <2>1, <2>2, Zenon
<1>5. /\ t[10] = a /\ t[11] = b /\ t[12] = c /\ t[13] = d
      /\ t[14] = e /\ t[15] = f /\ t[16] = g /\ t[17] = h
  <2>. HIDE DEF a, b, c, d, e, f, g, h
  <2>3. Lists(t, 9, <<a, b, c, d, e, f, g, h>>)
    BY <1>3, Zenon
  <2>1. /\ t[9 + 1] = a /\ t[9 + 2] = b /\ t[9 + 3] = c /\ t[9 + 4] = d
        /\ t[9 + 5] = e /\ t[9 + 6] = f /\ t[9 + 7] = g /\ t[9 + 8] = h
    BY <2>3, EightListed
  <2>2. /\ 9 + 1 = 10 /\ 9 + 2 = 11 /\ 9 + 3 = 12
        /\ 9 + 4 = 13 /\ 9 + 5 = 14 /\ 9 + 6 = 15
        /\ 9 + 7 = 16 /\ 9 + 8 = 17
    OBVIOUS
  <2>. QED BY <2>1, <2>2, Zenon
<1>6. t[19] = p /\ t[20] = q /\ t[21] = r /\ t[22] = u
  <2>. HIDE DEF p, q, r, u
  <2>3. Lists(t, 18, <<p, q, r, u>>)
    BY <1>4, Zenon
  <2>1. /\ t[18 + 1] = p /\ t[18 + 2] = q /\ t[18 + 3] = r
        /\ t[18 + 4] = u
    BY <2>3, FourListed
  <2>2. /\ 18 + 1 = 19 /\ 18 + 2 = 20 /\ 18 + 3 = 21
        /\ 18 + 4 = 22
    OBVIOUS
  <2>. QED BY <2>1, <2>2, Zenon
<1>7. /\ Says(t, 10, "device_type", <<"cpu">>) /\ Says(t, 11, "reg", <<0>>)
      /\ Says(t, 12, "status", <<"okay">>) /\ Says(t, 13, "compatible", <<"riscv">>)
      /\ Says(t, 14, "riscv,isa", <<"rv64ima">>)
      /\ Says(t, 15, "riscv,isa-extensions", isa)
      /\ Says(t, 16, "mmu-type", <<"riscv,sv39">>)
      /\ Says(t, 17, "clock-frequency", <<o.cpu_freq>>)
  BY <1>5, SaysU32, SaysStr, Zenon
<1>8. /\ Says(t, 19, "#interrupt-cells", <<1>>)
      /\ Says(t, 20, "interrupt-controller", << >>)
      /\ Says(t, 21, "compatible", <<"riscv,cpu-intc">>)
      /\ Says(t, 22, "phandle", <<1>>)
  BY <1>6, SaysU32, SaysStr, Zenon DEF Empty, intc_phandle
<1>9. /\ Dull(t, 12) /\ Dull(t, 13) /\ Dull(t, 14)
      /\ Dull(t, 15) /\ Dull(t, 16) /\ Dull(t, 17) /\ Dull(t, 21)
  <2>1. /\ "status" \notin Names /\ "compatible" \notin Names /\ "riscv,isa" \notin Names
        /\ "riscv,isa-extensions" \notin Names /\ "mmu-type" \notin Names
        /\ "clock-frequency" \notin Names
    BY NamesAre
  <2>. QED BY <1>7, <1>8, <2>1, DullAt, Zenon
<1>10. /\ Opens(t, 9, Unit("cpu", 0)) /\ Opens(t, 18, "interrupt-controller")
       /\ Closes(t, 23) /\ Closes(t, 24)
  BY <1>3, <1>4, OpensAt, ClosesAt, Zenon
<1>. QED BY <1>7, <1>8, <1>9, <1>10, Zenon

\* The lengths of lists.
LEMMA TupleLens ==
    /\ \A a, b : Len(<<a, b>>) = 2
    /\ \A a, b, c : Len(<<a, b, c>>) = 3
    /\ \A a, b, c, d : Len(<<a, b, c, d>>) = 4
    /\ \A a, b, c, d, e : Len(<<a, b, c, d, e>>) = 5
    /\ \A a, b, c, d, e, f, g : Len(<<a, b, c, d, e, f, g>>) = 7
    /\ \A a, b, c, d, e, f, g, h : Len(<<a, b, c, d, e, f, g, h>>) = 8
  OBVIOUS

\* The calls of the cpu are 16.
LEMMA CpuLen == ASSUME NEW o PROVE Len(Cpu(o)) = 16
<1>. DEFINE isa == <<"i", "m", "a", "zba", "zbb", "zicsr", "zifencei", "zicond">>
                      \o (IF o.svnapot THEN <<"svnapot">> ELSE << >>)
            a == Str("device_type", <<"cpu">>)
            b == U32("reg", <<0>>)
            c == Str("status", <<"okay">>)
            d == Str("compatible", <<"riscv">>)
            e == Str("riscv,isa", <<"rv64ima">>)
            f == Str("riscv,isa-extensions", isa)
            g == Str("mmu-type", <<"riscv,sv39">>)
            h == U32("clock-frequency", <<o.cpu_freq>>)
            p == U32("#interrupt-cells", <<1>>)
            q == Empty("interrupt-controller")
            r == Str("compatible", <<"riscv,cpu-intc">>)
            u == U32("phandle", <<intc_phandle>>)
            y == <<a, b, c, d, e, f, g, h>>
            z == <<p, q, r, u>>
            w == Node("interrupt-controller", z)
<1>1. Cpu(o) = NodeNum("cpu", 0, y \o w)
  BY Zenon DEF Cpu
<1>2. IsSequence(y) /\ IsSequence(z) /\ Len(y) = 8 /\ Len(z) = 4
  <2>1. /\ IsProp(a) /\ IsProp(b) /\ IsProp(c) /\ IsProp(d)
        /\ IsProp(e) /\ IsProp(g) /\ IsProp(h)
    BY StrOne, U32One
  <2>2. IsProp(f)
    BY IsaProp
  <2>3. IsProp(p) /\ IsProp(q) /\ IsProp(r) /\ IsProp(u)
    BY StrOne, U32One, EmptyProp
  <2>. HIDE DEF a, b, c, d, e, f, g, h, p, q, r, u
  <2>4. Shape(y) /\ Shape(z)
    BY <2>1, <2>2, <2>3, EightProps, FourProps
  <2>5. Len(y) = 8 /\ Len(z) = 4
    BY TupleLens
  <2>. QED BY <2>4, <2>5, ShapeSequence
<1>. HIDE DEF y, z
<1>3. IsSequence(w) /\ Len(w) = Len(z) + 2
  BY <1>2, NodeLists, Zenon
<1>. HIDE DEF w
<1>4. IsSequence(y \o w) /\ Len(y \o w) = Len(y) + Len(w)
  BY <1>2, <1>3, BothLen, Zenon
<1>5. Len(NodeNum("cpu", 0, y \o w)) = Len(y \o w) + 2
  BY <1>4, NumLists, Zenon
<1>. QED BY <1>1, <1>2, <1>3, <1>4, <1>5

\* The calls of the node around it.
LEMMA CpusLists ==
    ASSUME NEW o
    PROVE  /\ Len(Cpus(o)) = 21
           /\ \A t : Lists(t, 4, Cpus(o)) =>
                 /\ Opens(t, 5, "cpus")
                 /\ Says(t, 6, "#address-cells", <<1>>) /\ Says(t, 7, "#size-cells", <<0>>)
                 /\ Dull(t, 8) /\ Lists(t, 8, Cpu(o)) /\ Closes(t, 25)
<1>. DEFINE a == U32("#address-cells", <<1>>)
            b == U32("#size-cells", <<0>>)
            c == U32("timebase-frequency", <<o.cpu_freq>>)
            y == <<a, b, c>>
            z == Cpu(o)
<1>1. Cpus(o) = Node("cpus", y \o z)
  BY Zenon DEF Cpus
<1>2. IsSequence(y) /\ IsSequence(z) /\ Len(y) = 3 /\ Len(z) = 16
  <2>1. IsProp(a) /\ IsProp(b) /\ IsProp(c)
    BY U32One
  <2>2. Len(z) = 16 /\ IsSequence(z)
    BY CpuLen, CpuShape, ShapeSequence, Zenon
  <2>. HIDE DEF a, b, c, z
  <2>3. Shape(y) /\ Len(y) = 3
    BY <2>1, ThreeProps, TupleLens
  <2>. QED BY <2>2, <2>3, ShapeSequence
<1>. HIDE DEF y, z
<1>3. IsSequence(y \o z) /\ Len(y \o z) = Len(y) + Len(z)
  BY <1>2, BothLen, Zenon
<1>4. /\ Len(Node("cpus", y \o z)) = Len(y \o z) + 2
      /\ \A t : \A off \in Nat : Lists(t, off, Node("cpus", y \o z)) =>
            /\ t[off + 1] = Begin("cpus") /\ t[off + Len(y \o z) + 2] = End
            /\ Lists(t, off + 1, y \o z)
  BY <1>3, NodeLists, Zenon
<1>5. Len(y \o z) = 19 /\ Len(Cpus(o)) = 21
  BY <1>1, <1>2, <1>3, <1>4
<1>6. ASSUME NEW t, Lists(t, 4, Cpus(o))
      PROVE  /\ Opens(t, 5, "cpus")
             /\ Says(t, 6, "#address-cells", <<1>>) /\ Says(t, 7, "#size-cells", <<0>>)
             /\ Dull(t, 8) /\ Lists(t, 8, Cpu(o)) /\ Closes(t, 25)
  <2>1. 4 \in Nat /\ 5 \in Nat /\ 4 + 1 = 5 /\ 4 + Len(y \o z) + 2 = 25 /\ 5 + Len(y) = 8
    BY <1>2, <1>5
  <2>2. t[5] = Begin("cpus") /\ t[25] = End /\ Lists(t, 5, y \o z)
    <3>1. Lists(t, 4, Node("cpus", y \o z))
      BY <1>1, <1>6, Zenon
    <3>2. /\ t[4 + 1] = Begin("cpus") /\ t[4 + Len(y \o z) + 2] = End
          /\ Lists(t, 4 + 1, y \o z)
      BY <1>4, <2>1, <3>1, Zenon
    <3>. QED BY <2>1, <3>2, Zenon
  <2>3. Lists(t, 5, y) /\ Lists(t, 5 + Len(y), z)
    BY <1>2, <2>1, <2>2, ListsBoth, Zenon
  <2>4. t[6] = a /\ t[7] = b /\ t[8] = c
    <3>. HIDE DEF a, b, c
    <3>1. Lists(t, 5, <<a, b, c>>)
      BY <2>3, Zenon DEF y
    <3>2. t[5 + 1] = a /\ t[5 + 2] = b /\ t[5 + 3] = c
      BY <3>1, ThreeListed
    <3>. QED BY <3>2
  <2>5. /\ Says(t, 6, "#address-cells", <<1>>) /\ Says(t, 7, "#size-cells", <<0>>)
        /\ Says(t, 8, "timebase-frequency", <<o.cpu_freq>>)
    BY <2>4, SaysU32, Zenon
  <2>6. "timebase-frequency" \notin Names
    BY NamesAre
  <2>7. Dull(t, 8)
    BY <2>5, <2>6, DullAt, Zenon
  <2>. QED BY <2>1, <2>2, <2>3, <2>5, <2>7, OpensAt, ClosesAt, Zenon DEF z
<1>. QED BY <1>5, <1>6, Zenon

\* The calls of the memory.
LEMMA MemoryLists ==
    ASSUME NEW o \in Options
    PROVE  /\ Len(Memory(o)) = 4
           /\ \A t : Lists(t, 25, Memory(o)) =>
                 /\ Opens(t, 26, Unit("memory", o.phys_start))
                 /\ Says(t, 27, "device_type", <<"memory">>)
                 /\ Says(t, 28, "reg", Halves(o.phys_start) \o o.ram_size)
                 /\ Closes(t, 29)
<1>. DEFINE v == Halves(o.phys_start) \o o.ram_size
            a == Str("device_type", <<"memory">>)
            b == U32("reg", v)
            y == <<a, b>>
            x == NodeNum("memory", o.phys_start, y)
<1>1. Memory(o) = x
  BY Zenon DEF Memory
<1>2. IsSequence(y) /\ Len(y) = 2
  <2>1. IsProp(a) /\ IsProp(b)
    BY StrOne, MemoryReg, Zenon
  <2>. HIDE DEF a, b
  <2>2. Shape(y) /\ Len(y) = 2
    BY <2>1, TwoProps, TupleLens
  <2>. QED BY <2>2, ShapeSequence
<1>. HIDE DEF y
<1>3. /\ Len(x) = Len(y) + 2
      /\ \A t : \A off \in Nat : Lists(t, off, x) =>
            /\ t[off + 1] = Begin(Unit("memory", o.phys_start)) /\ t[off + Len(y) + 2] = End
            /\ Lists(t, off + 1, y)
  BY <1>2, NumLists, Zenon
<1>. HIDE DEF x
<1>4. Len(Memory(o)) = 4
  BY <1>1, <1>2, <1>3
<1>5. ASSUME NEW t, Lists(t, 25, Memory(o))
      PROVE  /\ Opens(t, 26, Unit("memory", o.phys_start))
             /\ Says(t, 27, "device_type", <<"memory">>)
             /\ Says(t, 28, "reg", Halves(o.phys_start) \o o.ram_size)
             /\ Closes(t, 29)
  <2>1. 25 \in Nat /\ 25 + 1 = 26 /\ 25 + Len(y) + 2 = 29
    BY <1>2
  <2>2. t[26] = Begin(Unit("memory", o.phys_start)) /\ t[29] = End /\ Lists(t, 26, y)
    BY <1>1, <1>3, <1>5, <2>1, Zenon
  <2>3. t[27] = a /\ t[28] = b
    <3>. HIDE DEF a, b
    <3>1. Lists(t, 26, <<a, b>>)
      BY <2>2, Zenon DEF y
    <3>2. t[26 + 1] = a /\ t[26 + 2] = b
      BY <3>1, TwoListed
    <3>. QED BY <3>2
  <2>4. Says(t, 27, "device_type", <<"memory">>) /\ Says(t, 28, "reg", v)
    BY <2>3, SaysU32, SaysStr, Zenon
  <2>. QED BY <2>2, <2>4, OpensAt, ClosesAt, Zenon
<1>. QED BY <1>4, <1>5, Zenon

\* The calls of the CLINT.
LEMMA ClintLists ==
    /\ Len(Clint) = 5
    /\ \A t : Lists(t, 37, Clint) =>
          /\ Opens(t, 38, Unit("clint", CLINT.base)) /\ Dull(t, 39)
          /\ Says(t, 40, "interrupts-extended", <<1, 3, 1, 7>>)
          /\ Says(t, 41, "reg", <<0, CLINT.base, 0, CLINT.size>>)
          /\ Closes(t, 42)
<1>. DEFINE a == Str("compatible", <<"riscv,clint0">>)
            b == U32("interrupts-extended", <<intc_phandle, 3, intc_phandle, 7>>)
            c == Reg(CLINT)
            y == <<a, b, c>>
            x == NodeNum("clint", CLINT.base, y)
<1>1. Clint = x
  BY Zenon DEF Clint
<1>2. IsSequence(y) /\ Len(y) = 3
  <2>1. IsProp(a) /\ IsProp(b) /\ IsProp(c)
    BY StrOne, U32Four, RegProp
  <2>. HIDE DEF a, b, c
  <2>2. Shape(y) /\ Len(y) = 3
    BY <2>1, ThreeProps, TupleLens
  <2>. QED BY <2>2, ShapeSequence
<1>. HIDE DEF y
<1>3. /\ Len(x) = Len(y) + 2
      /\ \A t : \A off \in Nat : Lists(t, off, x) =>
            /\ t[off + 1] = Begin(Unit("clint", CLINT.base)) /\ t[off + Len(y) + 2] = End
            /\ Lists(t, off + 1, y)
  BY <1>2, NumLists, Zenon
<1>. HIDE DEF x
<1>4. Len(Clint) = 5
  BY <1>1, <1>2, <1>3
<1>5. ASSUME NEW t, Lists(t, 37, Clint)
      PROVE  /\ Opens(t, 38, Unit("clint", CLINT.base)) /\ Dull(t, 39)
             /\ Says(t, 40, "interrupts-extended", <<1, 3, 1, 7>>)
             /\ Says(t, 41, "reg", <<0, CLINT.base, 0, CLINT.size>>)
             /\ Closes(t, 42)
  <2>1. 37 \in Nat /\ 37 + 1 = 38 /\ 37 + Len(y) + 2 = 42
    BY <1>2
  <2>2. t[38] = Begin(Unit("clint", CLINT.base)) /\ t[42] = End /\ Lists(t, 38, y)
    <3>1. Lists(t, 37, x)
      BY <1>1, <1>5, Zenon
    <3>2. t[37 + 1] = Begin(Unit("clint", CLINT.base)) /\ t[37 + Len(y) + 2] = End /\ Lists(t, 37 + 1, y)
      BY <1>3, <2>1, <3>1, Zenon
    <3>. QED BY <2>1, <3>2, Zenon
  <2>3. t[39] = a /\ t[40] = b /\ t[41] = c
    <3>. HIDE DEF a, b, c
    <3>1. Lists(t, 38, <<a, b, c>>)
      BY <2>2, Zenon DEF y
    <3>2. t[38 + 1] = a /\ t[38 + 2] = b /\ t[38 + 3] = c
      BY <3>1, ThreeListed
    <3>. QED BY <3>2
  <2>4. /\ Says(t, 39, "compatible", <<"riscv,clint0">>)
        /\ Says(t, 40, "interrupts-extended", <<1, 3, 1, 7>>)
        /\ Says(t, 41, "reg", <<0, CLINT.base, 0, CLINT.size>>)
    BY <2>3, SaysU32, SaysStr, Zenon DEF Reg, intc_phandle
  <2>5. "compatible" \notin Names
    BY NamesAre
  <2>. QED BY <2>2, <2>4, <2>5, OpensAt, ClosesAt, DullAt, Zenon
<1>. QED BY <1>4, <1>5, Zenon

\* The calls of the PLIC.
LEMMA PlicLists ==
    /\ Len(Plic) = 9
    /\ \A t : Lists(t, 42, Plic) =>
          /\ Opens(t, 43, Unit("plic", PLIC.base))
          /\ Says(t, 44, "#interrupt-cells", <<1>>)
          /\ Says(t, 45, "interrupt-controller", << >>) /\ Dull(t, 46) /\ Dull(t, 47)
          /\ Says(t, 48, "reg", <<0, PLIC.base, 0, PLIC.size>>)
          /\ Says(t, 49, "interrupts-extended", <<1, 9, 1, 11>>)
          /\ Says(t, 50, "phandle", <<2>>) /\ Closes(t, 51)
<1>. DEFINE a == U32("#interrupt-cells", <<1>>)
            b == Empty("interrupt-controller")
            c == Str("compatible", <<"riscv,plic0">>)
            d == U32("riscv,ndev", <<31>>)
            e == Reg(PLIC)
            f == U32("interrupts-extended", <<intc_phandle, 9, intc_phandle, 11>>)
            g == U32("phandle", <<plic_phandle>>)
            y == <<a, b, c, d, e, f, g>>
            x == NodeNum("plic", PLIC.base, y)
<1>1. Plic = x
  BY Zenon DEF Plic
<1>2. IsSequence(y) /\ Len(y) = 7
  <2>1. /\ IsProp(a) /\ IsProp(b) /\ IsProp(c) /\ IsProp(d)
        /\ IsProp(e) /\ IsProp(f) /\ IsProp(g)
    BY StrOne, U32One, U32Four, EmptyProp, RegProp
  <2>. HIDE DEF a, b, c, d, e, f, g
  <2>2. Shape(y) /\ Len(y) = 7
    BY <2>1, SevenProps, TupleLens
  <2>. QED BY <2>2, ShapeSequence
<1>. HIDE DEF y
<1>3. /\ Len(x) = Len(y) + 2
      /\ \A t : \A off \in Nat : Lists(t, off, x) =>
            /\ t[off + 1] = Begin(Unit("plic", PLIC.base)) /\ t[off + Len(y) + 2] = End
            /\ Lists(t, off + 1, y)
  BY <1>2, NumLists, Zenon
<1>. HIDE DEF x
<1>4. Len(Plic) = 9
  BY <1>1, <1>2, <1>3
<1>5. ASSUME NEW t, Lists(t, 42, Plic)
      PROVE  /\ Opens(t, 43, Unit("plic", PLIC.base))
             /\ Says(t, 44, "#interrupt-cells", <<1>>)
             /\ Says(t, 45, "interrupt-controller", << >>) /\ Dull(t, 46) /\ Dull(t, 47)
             /\ Says(t, 48, "reg", <<0, PLIC.base, 0, PLIC.size>>)
             /\ Says(t, 49, "interrupts-extended", <<1, 9, 1, 11>>)
             /\ Says(t, 50, "phandle", <<2>>) /\ Closes(t, 51)
  <2>1. 42 \in Nat /\ 42 + 1 = 43 /\ 42 + Len(y) + 2 = 51
    BY <1>2
  <2>2. t[43] = Begin(Unit("plic", PLIC.base)) /\ t[51] = End /\ Lists(t, 43, y)
    <3>1. Lists(t, 42, x)
      BY <1>1, <1>5, Zenon
    <3>2. t[42 + 1] = Begin(Unit("plic", PLIC.base)) /\ t[42 + Len(y) + 2] = End /\ Lists(t, 42 + 1, y)
      BY <1>3, <2>1, <3>1, Zenon
    <3>. QED BY <2>1, <3>2, Zenon
  <2>3. /\ t[44] = a /\ t[45] = b /\ t[46] = c /\ t[47] = d
        /\ t[48] = e /\ t[49] = f /\ t[50] = g
    <3>. HIDE DEF a, b, c, d, e, f, g
    <3>1. Lists(t, 43, <<a, b, c, d, e, f, g>>)
      BY <2>2, Zenon DEF y
    <3>2. /\ t[43 + 1] = a /\ t[43 + 2] = b /\ t[43 + 3] = c /\ t[43 + 4] = d
          /\ t[43 + 5] = e /\ t[43 + 6] = f /\ t[43 + 7] = g
      BY <3>1, SevenListed
    <3>. QED BY <3>2
  <2>4. /\ Says(t, 44, "#interrupt-cells", <<1>>)
        /\ Says(t, 45, "interrupt-controller", << >>)
        /\ Says(t, 46, "compatible", <<"riscv,plic0">>) /\ Says(t, 47, "riscv,ndev", <<31>>)
        /\ Says(t, 48, "reg", <<0, PLIC.base, 0, PLIC.size>>)
        /\ Says(t, 49, "interrupts-extended", <<1, 9, 1, 11>>)
        /\ Says(t, 50, "phandle", <<2>>)
    BY <2>3, SaysU32, SaysStr, Zenon DEF Reg, Empty, intc_phandle, plic_phandle
  <2>5. "compatible" \notin Names /\ "riscv,ndev" \notin Names
    BY NamesAre
  <2>. QED BY <2>2, <2>4, <2>5, OpensAt, ClosesAt, DullAt, Zenon
<1>. QED BY <1>4, <1>5, Zenon

\* The calls of the UART, if there is one.
LEMMA SerialLists ==
    ASSUME NEW o
    PROVE  /\ ~o.uart => Len(Serial(o)) = 0
           /\ o.uart =>
                 /\ Len(Serial(o)) = 7
                 /\ \A t : Lists(t, 51, Serial(o)) =>
                       /\ Opens(t, 52, Unit("serial", UART.base)) /\ Dull(t, 53) /\ Dull(t, 54)
                       /\ Says(t, 55, "reg", <<0, UART.base, 0, UART.size>>)
                       /\ Dull(t, 56) /\ Dull(t, 57) /\ Closes(t, 58)
<1>1. CASE ~o.uart
  <2>1. Serial(o) = << >>
    BY <1>1, SMT DEF Serial
  <2>2. Len(<< >>) = 0
    OBVIOUS
  <2>. QED BY <1>1, <2>1, <2>2, Zenon
<1>2. CASE o.uart
  <2>. DEFINE m == 5000000
              a == Str("compatible", <<"ns16550">>)
              b == U32("clock-frequency", <<m>>)
              c == Reg(UART)
              d == U32("interrupts", <<1>>)
              e == U32("no-loopback-test", <<1>>)
              y == <<a, b, c, d, e>>
              x == NodeNum("serial", UART.base, y)
  <2>1. Serial(o) = x
    BY <1>2, SMT DEF Serial
  <2>. HIDE DEF m
  <2>2. IsSequence(y) /\ Len(y) = 5
    <3>1. IsProp(a) /\ IsProp(b) /\ IsProp(c) /\ IsProp(d) /\ IsProp(e)
      BY StrOne, U32One, RegProp, Zenon
    <3>. HIDE DEF a, b, c, d, e
    <3>2. Shape(y) /\ Len(y) = 5
      BY <3>1, FiveProps, TupleLens
    <3>. QED BY <3>2, ShapeSequence
  <2>. HIDE DEF y
  <2>3. /\ Len(x) = Len(y) + 2
        /\ \A t : \A off \in Nat : Lists(t, off, x) =>
              /\ t[off + 1] = Begin(Unit("serial", UART.base)) /\ t[off + Len(y) + 2] = End
              /\ Lists(t, off + 1, y)
    BY <2>2, NumLists, Zenon
  <2>. HIDE DEF x
  <2>4. Len(Serial(o)) = 7
    BY <2>1, <2>2, <2>3
  <2>5. ASSUME NEW t, Lists(t, 51, Serial(o))
        PROVE  /\ Opens(t, 52, Unit("serial", UART.base)) /\ Dull(t, 53) /\ Dull(t, 54)
               /\ Says(t, 55, "reg", <<0, UART.base, 0, UART.size>>)
               /\ Dull(t, 56) /\ Dull(t, 57) /\ Closes(t, 58)
    <3>1. 51 \in Nat /\ 51 + 1 = 52 /\ 51 + Len(y) + 2 = 58
      BY <2>2
    <3>2. t[52] = Begin(Unit("serial", UART.base)) /\ t[58] = End /\ Lists(t, 52, y)
      <4>1. Lists(t, 51, x)
        BY <2>1, <2>5, Zenon
      <4>2. t[51 + 1] = Begin(Unit("serial", UART.base)) /\ t[51 + Len(y) + 2] = End /\ Lists(t, 51 + 1, y)
        BY <2>3, <3>1, <4>1, Zenon
      <4>. QED BY <3>1, <4>2, Zenon
    <3>3. t[53] = a /\ t[54] = b /\ t[55] = c /\ t[56] = d /\ t[57] = e
      <4>. HIDE DEF a, b, c, d, e
      <4>1. Lists(t, 52, <<a, b, c, d, e>>)
        BY <3>2, Zenon DEF y
      <4>2. t[52 + 1] = a /\ t[52 + 2] = b /\ t[52 + 3] = c /\ t[52 + 4] = d /\ t[52 + 5] = e
        BY <4>1, FiveListed
      <4>. QED BY <4>2
    <3>4. /\ Says(t, 53, "compatible", <<"ns16550">>)
          /\ Says(t, 55, "reg", <<0, UART.base, 0, UART.size>>)
          /\ Says(t, 56, "interrupts", <<1>>) /\ Says(t, 57, "no-loopback-test", <<1>>)
          /\ Says(t, 54, "clock-frequency", <<m>>)
      BY <3>3, SaysU32, SaysStr, Zenon DEF Reg
    <3>5. /\ "compatible" \notin Names /\ "clock-frequency" \notin Names
          /\ "interrupts" \notin Names /\ "no-loopback-test" \notin Names
      BY NamesAre
    <3>6. Opens(t, 52, Unit("serial", UART.base)) /\ Closes(t, 58)
      BY <3>2, OpensAt, ClosesAt, Zenon
    <3>7. Dull(t, 53) /\ Dull(t, 54) /\ Dull(t, 56) /\ Dull(t, 57)
      BY <3>4, <3>5, DullAt, Zenon
    <3>. QED BY <3>4, <3>6, <3>7, Zenon
  <2>. QED BY <1>2, <2>4, <2>5, Zenon
<1>. QED BY <1>1, <1>2

\* The calls of the bus.
LEMMA SocLists ==
    ASSUME NEW o, Len(Serial(o)) \in Nat
    PROVE  /\ Len(Soc(o)) = 20 + Len(Serial(o))
           /\ \A t : Lists(t, 32, Soc(o)) =>
                 /\ Opens(t, 33, "soc")
                 /\ Says(t, 34, "#address-cells", <<2>>) /\ Says(t, 35, "#size-cells", <<2>>)
                 /\ Dull(t, 36) /\ Dull(t, 37)
                 /\ Lists(t, 37, Clint) /\ Lists(t, 42, Plic) /\ Lists(t, 51, Serial(o))
                 /\ Closes(t, 52 + Len(Serial(o)))
<1>. DEFINE a == U32("#address-cells", <<2>>)
            b == U32("#size-cells", <<2>>)
            c == Str("compatible", <<"ucbbar,riscvemu-bar-soc", "simple-bus">>)
            d == Empty("ranges")
            y == <<a, b, c, d>>
            z == Serial(o)
            body == y \o Clint \o Plic \o z
            x == Node("soc", body)
<1>1. Soc(o) = x
  BY Zenon DEF Soc
<1>2. /\ IsSequence(y) /\ Len(y) = 4 /\ IsSequence(Clint) /\ Len(Clint) = 5
      /\ IsSequence(Plic) /\ Len(Plic) = 9 /\ IsSequence(z)
  <2>1. IsProp(a) /\ IsProp(b) /\ IsProp(c) /\ IsProp(d)
    BY StrTwo, U32One, EmptyProp
  <2>2. IsSequence(Clint) /\ IsSequence(Plic) /\ IsSequence(z)
    BY ClintShape, PlicShape, SerialShape, ShapeSequence, Zenon
  <2>. HIDE DEF a, b, c, d, z
  <2>3. Shape(y) /\ Len(y) = 4
    BY <2>1, FourProps, TupleLens
  <2>. QED BY <2>2, <2>3, ShapeSequence, ClintLists, PlicLists, Zenon
<1>. HIDE DEF y, z
<1>3. IsSequence(y \o Clint) /\ Len(y \o Clint) = Len(y) + Len(Clint)
  BY <1>2, BothLen, Zenon
<1>4. /\ IsSequence(y \o Clint \o Plic)
      /\ Len(y \o Clint \o Plic) = Len(y \o Clint) + Len(Plic)
  BY <1>2, <1>3, BothLen, Zenon
<1>5. IsSequence(body) /\ Len(body) = Len(y \o Clint \o Plic) + Len(z)
  BY <1>2, <1>4, BothLen, Zenon
<1>. HIDE DEF body
<1>6. /\ Len(x) = Len(body) + 2
      /\ \A t : \A off \in Nat : Lists(t, off, x) =>
            /\ t[off + 1] = Begin("soc") /\ t[off + Len(body) + 2] = End
            /\ Lists(t, off + 1, body)
  BY <1>5, NodeLists, Zenon
<1>. HIDE DEF x
<1>7. Len(z) \in Nat
  BY DEF z
<1>8. /\ Len(y \o Clint) = 9 /\ Len(y \o Clint \o Plic) = 18 /\ Len(body) = 18 + Len(z)
      /\ Len(Soc(o)) = 20 + Len(z)
  BY <1>1, <1>2, <1>3, <1>4, <1>5, <1>6, <1>7
<1>9. ASSUME NEW t, Lists(t, 32, Soc(o))
      PROVE  /\ Opens(t, 33, "soc")
             /\ Says(t, 34, "#address-cells", <<2>>) /\ Says(t, 35, "#size-cells", <<2>>)
             /\ Dull(t, 36) /\ Dull(t, 37)
             /\ Lists(t, 37, Clint) /\ Lists(t, 42, Plic) /\ Lists(t, 51, z)
             /\ Closes(t, 52 + Len(z))
  <2>1. /\ 32 \in Nat /\ 33 \in Nat /\ 32 + 1 = 33 /\ 32 + Len(body) + 2 = 52 + Len(z)
        /\ 33 + Len(y) = 37 /\ 33 + Len(y \o Clint) = 42 /\ 33 + Len(y \o Clint \o Plic) = 51
    BY <1>2, <1>7, <1>8
  <2>2. t[33] = Begin("soc") /\ t[52 + Len(z)] = End /\ Lists(t, 33, body)
    <3>1. Lists(t, 32, x)
      BY <1>1, <1>9, Zenon
    <3>2. /\ t[32 + 1] = Begin("soc") /\ t[32 + Len(body) + 2] = End
          /\ Lists(t, 32 + 1, body)
      BY <1>6, <2>1, <3>1, Zenon
    <3>. QED BY <2>1, <3>2, Zenon
  <2>3. Lists(t, 33, y \o Clint \o Plic) /\ Lists(t, 33 + Len(y \o Clint \o Plic), z)
    BY <1>2, <1>4, <2>1, <2>2, ListsBoth, Zenon DEF body
  <2>4. Lists(t, 33, y \o Clint) /\ Lists(t, 33 + Len(y \o Clint), Plic)
    BY <1>2, <1>3, <2>1, <2>3, ListsBoth, Zenon
  <2>5. Lists(t, 33, y) /\ Lists(t, 33 + Len(y), Clint)
    BY <1>2, <2>1, <2>4, ListsBoth, Zenon
  <2>6. t[34] = a /\ t[35] = b /\ t[36] = c /\ t[37] = d
    <3>. HIDE DEF a, b, c, d
    <3>1. Lists(t, 33, <<a, b, c, d>>)
      BY <2>5, Zenon DEF y
    <3>2. t[33 + 1] = a /\ t[33 + 2] = b /\ t[33 + 3] = c /\ t[33 + 4] = d
      BY <3>1, FourListed
    <3>. QED BY <3>2
  <2>7. /\ Says(t, 34, "#address-cells", <<2>>) /\ Says(t, 35, "#size-cells", <<2>>)
        /\ Says(t, 36, "compatible", <<"ucbbar,riscvemu-bar-soc", "simple-bus">>)
        /\ Says(t, 37, "ranges", << >>)
    BY <2>6, SaysU32, SaysStr, Zenon DEF Empty
  <2>8. Dull(t, 36) /\ Dull(t, 37)
    <3>1. "compatible" \notin Names /\ "ranges" \notin Names
      BY NamesAre
    <3>. QED BY <2>7, <3>1, DullAt, Zenon
  <2>9. Opens(t, 33, "soc") /\ Closes(t, 52 + Len(z))
    BY <2>2, OpensAt, ClosesAt, Zenon
  <2>10. Lists(t, 37, Clint) /\ Lists(t, 42, Plic) /\ Lists(t, 51, z)
    BY <2>1, <2>3, <2>4, <2>5, Zenon
  <2>. QED BY <2>7, <2>8, <2>9, <2>10, Zenon
<1>. QED BY <1>8, <1>9, Zenon DEF z

\* A sequence lists itself.
LEMMA ItsOwn == ASSUME NEW q, Len(q) \in Nat PROVE Lists(q, 0, q)
  BY DEF Lists

\* No reference is about the boot arguments.
LEMMA ChosenPlain ==
    ASSUME NEW o
    PROVE  /\ Len(Chosen(o)) \in Nat
           /\ \A i \in 1 .. Len(Chosen(o)) : Plain(Chosen(o), i)
<1>. DEFINE a == Str("bootargs", <<"debug keep_bootcon console=csr_console">>)
            b == U32("riscv,kernel-start", Halves(kern_addr(o)))
            c == U32("riscv,kernel-end", Halves(kern_addr(o) + o.kernel_size))
            k == IF o.kernel_size = 0 THEN << >> ELSE <<b, c>>
            y == <<a>>
            t == Chosen(o)
<1>1. t = Node("chosen", y \o k)
  BY Zenon DEF Chosen
<1>2. /\ \A q, i : q[i] = a => Dull(q, i)
      /\ \A q, i : q[i] = b => Dull(q, i)
      /\ \A q, i : q[i] = c => Dull(q, i)
  <2>1. /\ "bootargs" \notin Names /\ "riscv,kernel-start" \notin Names
        /\ "riscv,kernel-end" \notin Names
    BY NamesAre
  <2>2. ASSUME NEW q, NEW i, q[i] = a PROVE Dull(q, i)
    BY <2>1, <2>2, SaysStr, DullAt, Zenon
  <2>3. ASSUME NEW q, NEW i, q[i] = b PROVE Dull(q, i)
    BY <2>1, <2>3, SaysU32, DullAt, Zenon
  <2>4. ASSUME NEW q, NEW i, q[i] = c PROVE Dull(q, i)
    BY <2>1, <2>4, SaysU32, DullAt, Zenon
  <2>. QED BY <2>2, <2>3, <2>4, Zenon
<1>3. IsProp(a) /\ IsProp(b) /\ IsProp(c)
  BY StrOne, U32Halves, Zenon
<1>. HIDE DEF a, b, c, t
<1>4. /\ IsSequence(y) /\ Len(y) = 1 /\ IsSequence(k)
      /\ k = << >> \/ k = <<b, c>>
  <2>1. Shape(<<a>>) /\ Shape(<<b, c>>) /\ Shape(<< >>) /\ Len(<<a>>) = 1
    BY <1>3, OneProps, TwoProps, NoCalls
  <2>. QED BY <2>1, ShapeSequence
<1>. HIDE DEF k
<1>5. IsSequence(y \o k) /\ Len(y \o k) = Len(y) + Len(k) /\ Len(k) \in Nat
  BY <1>4, BothLen, Zenon
<1>6. /\ Len(t) = Len(y \o k) + 2
      /\ \A q : \A off \in Nat : Lists(q, off, t) =>
            /\ q[off + 1] = Begin("chosen") /\ q[off + Len(y \o k) + 2] = End
            /\ Lists(q, off + 1, y \o k)
  BY <1>1, <1>5, NodeLists, Zenon
<1>7. Len(y \o k) = 1 + Len(k) /\ Len(t) = 3 + Len(k) /\ Len(t) \in Nat
  BY <1>4, <1>5, <1>6
<1>8. t[1] = Begin("chosen") /\ t[3 + Len(k)] = End /\ Lists(t, 1, y \o k)
  <2>1. Lists(t, 0, t)
    BY <1>7, ItsOwn
  <2>2. 0 \in Nat /\ 0 + 1 = 1 /\ 0 + Len(y \o k) + 2 = 3 + Len(k)
    BY <1>5, <1>7
  <2>3. /\ t[0 + 1] = Begin("chosen") /\ t[0 + Len(y \o k) + 2] = End
        /\ Lists(t, 0 + 1, y \o k)
    BY <1>6, <2>1, <2>2, Zenon
  <2>. QED BY <2>2, <2>3, Zenon
<1>9. Lists(t, 1, y) /\ Lists(t, 2, k)
  <2>1. Lists(t, 1, y) /\ Lists(t, 1 + Len(y), k)
    <3>1. 1 \in Nat
      OBVIOUS
    <3>. QED BY <1>4, <1>8, <3>1, ListsBoth, Zenon
  <2>2. 1 + Len(y) = 2
    BY <1>4
  <2>. QED BY <2>1, <2>2, Zenon
<1>10. Dull(t, 2)
  <2>1. t[1 + 1] = a
    BY <1>9, OneListed
  <2>2. t[2] = a
    BY <2>1
  <2>. QED BY <1>2, <2>2, Zenon
<1>11. \A i \in 3 .. 2 + Len(k) : Dull(t, i)
  <2>1. CASE k = << >>
    BY <2>1
  <2>2. CASE k = <<b, c>>
    <3>1. t[2 + 1] = b /\ t[2 + 2] = c
      BY <1>9, <2>2, TwoListed
    <3>2. t[3] = b /\ t[4] = c /\ Len(k) = 2
      BY <2>2, <3>1
    <3>3. Dull(t, 3) /\ Dull(t, 4)
      BY <1>2, <3>2, Zenon
    <3>. QED BY <3>2, <3>3
  <2>. QED BY <1>4, <2>1, <2>2
<1>12. Plain(t, 1) /\ Plain(t, 3 + Len(k))
  BY <1>8, OpensAt, ClosesAt, PlainAt, Zenon
<1>13. ASSUME NEW i \in 1 .. Len(t) PROVE Plain(t, i)
  <2>1. i = 1 \/ i = 2 \/ i \in 3 .. 2 + Len(k) \/ i = 3 + Len(k)
    BY <1>5, <1>7
  <2>. QED BY <1>10, <1>11, <1>12, <2>1, PlainAt, Zenon
<1>. QED BY <1>7, <1>13, Zenon DEF t

\* the calls of riscv_build_fdt, up to the interrupt controllers,
Table(t, o) ==
    /\ \E name : Opens(t, 1, name)
    /\ Says(t, 2, "#address-cells", <<2>>) /\ Says(t, 3, "#size-cells", <<2>>) /\ Dull(t, 4)
    /\ Opens(t, 5, "cpus")
    /\ Says(t, 6, "#address-cells", <<1>>) /\ Says(t, 7, "#size-cells", <<0>>) /\ Dull(t, 8)
    /\ Opens(t, 9, Unit("cpu", 0))
    /\ Says(t, 10, "device_type", <<"cpu">>) /\ Says(t, 11, "reg", <<0>>)
    /\ \A i \in 12 .. 17 : Dull(t, i)
    /\ Opens(t, 18, "interrupt-controller")
    /\ Says(t, 19, "#interrupt-cells", <<1>>) /\ Says(t, 20, "interrupt-controller", << >>)
    /\ Dull(t, 21) /\ Says(t, 22, "phandle", <<1>>)
    /\ Closes(t, 23) /\ Closes(t, 24) /\ Closes(t, 25)
    /\ Opens(t, 26, Unit("memory", o.phys_start))
    /\ Says(t, 27, "device_type", <<"memory">>)
    /\ Says(t, 28, "reg", Halves(o.phys_start) \o o.ram_size)
    /\ Closes(t, 29)
    /\ Opens(t, 30, "htif") /\ Dull(t, 31) /\ Closes(t, 32)
    /\ Opens(t, 33, "soc")
    /\ Says(t, 34, "#address-cells", <<2>>) /\ Says(t, 35, "#size-cells", <<2>>)
    /\ Dull(t, 36) /\ Dull(t, 37)
    /\ Opens(t, 38, Unit("clint", CLINT.base)) /\ Dull(t, 39)
    /\ Says(t, 40, "interrupts-extended", <<1, 3, 1, 7>>)
    /\ Says(t, 41, "reg", <<0, CLINT.base, 0, CLINT.size>>)
    /\ Closes(t, 42)
    /\ Opens(t, 43, Unit("plic", PLIC.base))
    /\ Says(t, 44, "#interrupt-cells", <<1>>) /\ Says(t, 45, "interrupt-controller", << >>)
    /\ Dull(t, 46) /\ Dull(t, 47)
    /\ Says(t, 48, "reg", <<0, PLIC.base, 0, PLIC.size>>)
    /\ Says(t, 49, "interrupts-extended", <<1, 9, 1, 11>>)
    /\ Says(t, 50, "phandle", <<2>>) /\ Closes(t, 51)

\* the UART, and the rest, which no reference is about
SerialTable(t) ==
    /\ Opens(t, 52, Unit("serial", UART.base)) /\ Dull(t, 53) /\ Dull(t, 54)
    /\ Says(t, 55, "reg", <<0, UART.base, 0, UART.size>>)
    /\ Dull(t, 56) /\ Dull(t, 57) /\ Closes(t, 58)
Listed(o) == IF o.uart THEN 58 ELSE 51
Rest(t, o) ==
    /\ DOMAIN t = 1 .. Len(t) /\ Len(t) \in Nat /\ Len(t) > Listed(o)
    /\ \A i \in Listed(o) + 1 .. Len(t) : Plain(t, i)

\* The calls of the host interface.
LEMMA HtifLists ==
    LET x == Node("htif", <<Str("compatible", <<"ucb,htif0">>)>>)
    IN  /\ IsSequence(x) /\ Len(x) = 3
        /\ \A t : Lists(t, 29, x) => Opens(t, 30, "htif") /\ Dull(t, 31) /\ Closes(t, 32)
<1>. DEFINE a == Str("compatible", <<"ucb,htif0">>)
            y == <<a>>
            x == Node("htif", y)
<1>1. IsSequence(y) /\ Len(y) = 1
  <2>1. IsProp(a)
    BY StrOne
  <2>. HIDE DEF a
  <2>2. Shape(y) /\ Len(y) = 1
    BY <2>1, OneProps
  <2>. QED BY <2>2, ShapeSequence
<1>. HIDE DEF y
<1>2. /\ IsSequence(x) /\ Len(x) = Len(y) + 2
      /\ \A t : \A off \in Nat : Lists(t, off, x) =>
            /\ t[off + 1] = Begin("htif") /\ t[off + Len(y) + 2] = End
            /\ Lists(t, off + 1, y)
  BY <1>1, NodeLists, Zenon
<1>. HIDE DEF x
<1>3. Len(x) = 3
  BY <1>1, <1>2
<1>4. ASSUME NEW t, Lists(t, 29, x)
      PROVE  Opens(t, 30, "htif") /\ Dull(t, 31) /\ Closes(t, 32)
  <2>1. 29 \in Nat /\ 29 + 1 = 30 /\ 29 + Len(y) + 2 = 32
    BY <1>1
  <2>2. /\ t[29 + 1] = Begin("htif") /\ t[29 + Len(y) + 2] = End /\ Lists(t, 29 + 1, y)
    BY <1>2, <1>4, <2>1, Zenon
  <2>3. t[30] = Begin("htif") /\ t[32] = End /\ Lists(t, 30, y)
    BY <2>1, <2>2, Zenon
  <2>4. t[31] = a
    <3>. HIDE DEF a
    <3>1. Lists(t, 30, <<a>>)
      BY <2>3, Zenon DEF y
    <3>2. t[30 + 1] = a
      BY <3>1, OneListed
    <3>. QED BY <3>2
  <2>5. "compatible" \notin Names
    BY NamesAre
  <2>6. Dull(t, 31)
    BY <2>4, <2>5, SaysStr, DullAt, Zenon
  <2>. QED BY <2>3, <2>6, OpensAt, ClosesAt, Zenon
<1>. QED BY <1>2, <1>3, <1>4, Zenon DEF x, y

\* Where everything is in the script.
LEMMA ScriptTable ==
    ASSUME NEW o \in Options
    PROVE  LET t == riscv_build_fdt(o)
           IN  Table(t, o) /\ (o.uart => SerialTable(t)) /\ Rest(t, o)
<1>. DEFINE a == U32("#address-cells", <<2>>)
            b == U32("#size-cells", <<2>>)
            c == Str("model", <<"dsheffie,rv64core">>)
            h == Node("htif", <<Str("compatible", <<"ucb,htif0">>)>>)
            name == ""
            y == <<a, b, c>>
            A == Cpus(o)
            B == Memory(o)
            C == Soc(o)
            D == Chosen(o)
            body == y \o A \o B \o h \o C \o D
            t == riscv_build_fdt(o)
            L == Len(Serial(o))
<1>1. t = Node(name, body)
  BY Zenon DEF riscv_build_fdt
<1>. HIDE DEF name, t
<1>2. L \in Nat /\ L = IF o.uart THEN 7 ELSE 0
  BY SerialLists
<1>. HIDE DEF L
<1>3. /\ IsSequence(y) /\ Len(y) = 3 /\ IsSequence(A) /\ Len(A) = 21
      /\ IsSequence(B) /\ Len(B) = 4 /\ IsSequence(h) /\ Len(h) = 3
      /\ IsSequence(C) /\ Len(C) = 20 + L /\ IsSequence(D) /\ Len(D) \in Nat
  <2>1. IsProp(a) /\ IsProp(b) /\ IsProp(c)
    BY StrOne, U32One, Zenon
  <2>2. IsSequence(A) /\ IsSequence(B) /\ IsSequence(C) /\ IsSequence(D)
    BY CpusShape, MemoryShape, SocShape, ChosenShape, ShapeSequence, Zenon
  <2>3. Len(A) = 21 /\ Len(B) = 4
    BY CpusLists, MemoryLists, Zenon
  <2>4. Len(C) = 20 + L /\ Len(D) \in Nat
    BY <1>2, SocLists, ChosenPlain, Zenon DEF L
  <2>5. IsSequence(h) /\ Len(h) = 3
    BY HtifLists, Zenon
  <2>. HIDE DEF a, b, c, h, A, B, C, D
  <2>6. Shape(y) /\ Len(y) = 3
    BY <2>1, ThreeProps, TupleLens
  <2>. QED BY <2>2, <2>3, <2>4, <2>5, <2>6, ShapeSequence, Zenon
<1>. HIDE DEF h, y, A, B, C, D
<1>4. IsSequence(y \o A) /\ Len(y \o A) = Len(y) + Len(A)
  BY <1>3, BothLen, Zenon
<1>5. IsSequence(y \o A \o B) /\ Len(y \o A \o B) = Len(y \o A) + Len(B)
  BY <1>3, <1>4, BothLen, Zenon
<1>6. IsSequence(y \o A \o B \o h) /\ Len(y \o A \o B \o h) = Len(y \o A \o B) + Len(h)
  BY <1>3, <1>5, BothLen, Zenon
<1>7. /\ IsSequence(y \o A \o B \o h \o C)
      /\ Len(y \o A \o B \o h \o C) = Len(y \o A \o B \o h) + Len(C)
  BY <1>3, <1>6, BothLen, Zenon
<1>8. IsSequence(body) /\ Len(body) = Len(y \o A \o B \o h \o C) + Len(D)
  BY <1>3, <1>7, BothLen, Zenon
<1>. HIDE DEF body
<1>9. /\ Len(t) = Len(body) + 2 /\ IsSequence(t)
      /\ \A q : \A off \in Nat : Lists(q, off, t) =>
            /\ q[off + 1] = Begin(name) /\ q[off + Len(body) + 2] = End
            /\ Lists(q, off + 1, body)
  BY <1>1, <1>8, NodeLists, Zenon
<1>10. /\ Len(y \o A) = 24 /\ Len(y \o A \o B) = 28 /\ Len(y \o A \o B \o h) = 31
       /\ Len(y \o A \o B \o h \o C) = 51 + L /\ Len(body) = 51 + L + Len(D)
       /\ Len(t) = 53 + L + Len(D) /\ Len(t) \in Nat
  BY <1>2, <1>3, <1>4, <1>5, <1>6, <1>7, <1>8, <1>9
<1>11. t[1] = Begin(name) /\ t[53 + L + Len(D)] = End /\ Lists(t, 1, body)
  <2>1. Lists(t, 0, t)
    BY <1>10, ItsOwn
  <2>2. 0 \in Nat /\ 0 + 1 = 1 /\ 0 + Len(body) + 2 = 53 + L + Len(D)
    BY <1>2, <1>3, <1>10
  <2>3. t[0 + 1] = Begin(name) /\ t[0 + Len(body) + 2] = End /\ Lists(t, 0 + 1, body)
    BY <1>9, <2>1, <2>2, Zenon
  <2>. QED BY <2>2, <2>3, Zenon
<1>12. /\ 1 \in Nat /\ 1 + Len(y) = 4 /\ 1 + Len(y \o A) = 25 /\ 1 + Len(y \o A \o B) = 29
       /\ 1 + Len(y \o A \o B \o h) = 32 /\ 1 + Len(y \o A \o B \o h \o C) = 52 + L
  BY <1>2, <1>3, <1>10
<1>13. Lists(t, 1, y \o A \o B \o h \o C) /\ Lists(t, 52 + L, D)
  <2>1. Lists(t, 1 + Len(y \o A \o B \o h \o C), D) /\ Lists(t, 1, y \o A \o B \o h \o C)
    BY <1>3, <1>7, <1>11, <1>12, ListsBoth, Zenon DEF body
  <2>. QED BY <1>12, <2>1, Zenon
<1>14. Lists(t, 1, y \o A \o B \o h) /\ Lists(t, 32, C)
  <2>1. Lists(t, 1 + Len(y \o A \o B \o h), C) /\ Lists(t, 1, y \o A \o B \o h)
    BY <1>3, <1>6, <1>12, <1>13, ListsBoth, Zenon
  <2>. QED BY <1>12, <2>1, Zenon
<1>15. Lists(t, 1, y \o A \o B) /\ Lists(t, 29, h)
  <2>1. Lists(t, 1 + Len(y \o A \o B), h) /\ Lists(t, 1, y \o A \o B)
    BY <1>3, <1>5, <1>12, <1>14, ListsBoth, Zenon
  <2>. QED BY <1>12, <2>1, Zenon
<1>16. Lists(t, 1, y \o A) /\ Lists(t, 25, B)
  <2>1. Lists(t, 1 + Len(y \o A), B) /\ Lists(t, 1, y \o A)
    BY <1>3, <1>4, <1>12, <1>15, ListsBoth, Zenon
  <2>. QED BY <1>12, <2>1, Zenon
<1>17. Lists(t, 1, y) /\ Lists(t, 4, A)
  <2>1. Lists(t, 1 + Len(y), A) /\ Lists(t, 1, y)
    BY <1>3, <1>12, <1>16, ListsBoth, Zenon
  <2>. QED BY <1>12, <2>1, Zenon
<1>18. /\ Says(t, 2, "#address-cells", <<2>>) /\ Says(t, 3, "#size-cells", <<2>>) /\ Dull(t, 4)
  <2>1. t[2] = a /\ t[3] = b /\ t[4] = c
    <3>. HIDE DEF a, b, c
    <3>1. Lists(t, 1, <<a, b, c>>)
      BY <1>17, Zenon DEF y
    <3>2. t[1 + 1] = a /\ t[1 + 2] = b /\ t[1 + 3] = c
      BY <3>1, ThreeListed
    <3>. QED BY <3>2
  <2>2. "model" \notin Names
    BY NamesAre
  <2>. QED BY <2>1, <2>2, SaysU32, SaysStr, DullAt, Zenon
<1>19. /\ Opens(t, 5, "cpus")
       /\ Says(t, 6, "#address-cells", <<1>>) /\ Says(t, 7, "#size-cells", <<0>>)
       /\ Dull(t, 8) /\ Lists(t, 8, Cpu(o)) /\ Closes(t, 25)
  BY <1>17, CpusLists, Zenon DEF A
<1>20. \A i \in 12 .. 17 : Dull(t, i)
  <2>1. /\ Dull(t, 12) /\ Dull(t, 13) /\ Dull(t, 14) /\ Dull(t, 15) /\ Dull(t, 16) /\ Dull(t, 17)
    BY <1>19, CpuLists, Zenon
  <2>. QED BY <2>1
<1>21. /\ Opens(t, 30, "htif") /\ Dull(t, 31) /\ Closes(t, 32)
  BY <1>15, HtifLists, Zenon DEF h
<1>22. /\ Opens(t, 33, "soc")
       /\ Says(t, 34, "#address-cells", <<2>>) /\ Says(t, 35, "#size-cells", <<2>>)
       /\ Dull(t, 36) /\ Dull(t, 37)
       /\ Lists(t, 37, Clint) /\ Lists(t, 42, Plic) /\ Lists(t, 51, Serial(o))
       /\ Closes(t, 52 + L)
  BY <1>2, <1>14, SocLists, Zenon DEF C, L
<1>23. \E x : Opens(t, 1, x)
  BY <1>11, OpensAt, Zenon
<1>24. Table(t, o)
  <2>1. /\ Opens(t, 26, Unit("memory", o.phys_start))
        /\ Says(t, 27, "device_type", <<"memory">>)
        /\ Says(t, 28, "reg", Halves(o.phys_start) \o o.ram_size)
        /\ Closes(t, 29)
    BY <1>16, MemoryLists, Zenon DEF B
  <2>2. /\ Opens(t, 9, Unit("cpu", 0))
        /\ Says(t, 10, "device_type", <<"cpu">>) /\ Says(t, 11, "reg", <<0>>)
        /\ Opens(t, 18, "interrupt-controller")
        /\ Says(t, 19, "#interrupt-cells", <<1>>) /\ Says(t, 20, "interrupt-controller", << >>)
        /\ Dull(t, 21) /\ Says(t, 22, "phandle", <<1>>) /\ Closes(t, 23) /\ Closes(t, 24)
    BY <1>19, CpuLists, Zenon
  <2>3. /\ Opens(t, 38, Unit("clint", CLINT.base)) /\ Dull(t, 39)
        /\ Says(t, 40, "interrupts-extended", <<1, 3, 1, 7>>)
        /\ Says(t, 41, "reg", <<0, CLINT.base, 0, CLINT.size>>)
        /\ Closes(t, 42)
    BY <1>22, ClintLists, Zenon
  <2>4. /\ Opens(t, 43, Unit("plic", PLIC.base))
        /\ Says(t, 44, "#interrupt-cells", <<1>>) /\ Says(t, 45, "interrupt-controller", << >>)
        /\ Dull(t, 46) /\ Dull(t, 47)
        /\ Says(t, 48, "reg", <<0, PLIC.base, 0, PLIC.size>>)
        /\ Says(t, 49, "interrupts-extended", <<1, 9, 1, 11>>)
        /\ Says(t, 50, "phandle", <<2>>) /\ Closes(t, 51)
    BY <1>22, PlicLists, Zenon
  <2>. QED BY <1>18, <1>19, <1>20, <1>21, <1>22, <1>23, <2>1, <2>2, <2>3, <2>4, Zenon DEF Table
<1>25. o.uart => SerialTable(t)
  BY <1>22, SerialLists, Zenon DEF SerialTable
<1>26. DOMAIN t = 1 .. Len(t)
  BY <1>9 DEF IsSequence
<1>27. Listed(o) = 51 + L
  BY <1>2 DEF Listed
<1>28. ASSUME NEW i \in Listed(o) + 1 .. Len(t) PROVE Plain(t, i)
  <2>1. i = 52 + L \/ i - (52 + L) \in 1 .. Len(D) \/ i = 53 + L + Len(D)
    BY <1>2, <1>3, <1>10, <1>27
  <2>2. CASE i = 52 + L
    BY <1>22, <2>2, PlainAt, Zenon
  <2>3. CASE i = 53 + L + Len(D)
    BY <1>11, <2>3, ClosesAt, PlainAt, Zenon
  <2>4. CASE i - (52 + L) \in 1 .. Len(D)
    <3>. DEFINE j == i - (52 + L)
    <3>1. t[52 + L + j] = D[j]
      BY <1>13, <2>4, Zenon DEF Lists
    <3>2. 52 + L + j = i
      BY <1>2, <1>10, <1>27
    <3>3. Plain(D, j)
      BY <2>4, ChosenPlain, Zenon DEF D
    <3>4. t[i] = D[j]
      BY <3>1, <3>2, Zenon
    <3>. QED BY <3>3, <3>4, Zenon DEF Plain
  <2>. QED BY <2>1, <2>2, <2>3, <2>4
<1>29. Len(t) > Listed(o)
  BY <1>2, <1>3, <1>10, <1>27
<1>30. Rest(t, o)
  BY <1>10, <1>26, <1>28, <1>29, Zenon DEF Rest
<1>. QED BY <1>24, <1>25, <1>30, Zenon DEF t

\* calls i to j are of properties
Flat(t, i, j) == \A k \in i .. j : t[k].op \in {"u32", "str"}

\* The maximum of a set.
LEMMA MaxIs ==
    ASSUME NEW S, NEW x \in S, x \in Int, \A y \in S : y \in Int /\ y <= x
    PROVE  Max(S) = x
<1>1. x \in S /\ \A y \in S : x >= y
  OBVIOUS
<1>2. Max(S) \in S /\ \A y \in S : Max(S) >= y
  BY <1>1, Zenon DEF Max
<1>3. Max(S) >= x /\ Max(S) <= x /\ Max(S) \in Int
  BY <1>2
<1>. QED BY <1>3

\* The nodes open before and after a call.
LEMMA DepthNext ==
    ASSUME NEW t, NEW i \in Nat, i > 0
    PROVE  /\ Depth(t, i - 1) \in Int
           /\ Depth(t, i) = Depth(t, i - 1) + Delta(t[i])
<1>. DEFINE B(k) == {j \in 1 .. k : t[j].op = "begin"}
            E(k) == {j \in 1 .. k : t[j].op = "end"}
<1>1. i - 1 \in Nat /\ 1 .. i = 1 .. i - 1 \cup {i} /\ i \notin 1 .. i - 1
  OBVIOUS
<1>2. IsFiniteSet(B(i - 1)) /\ IsFiniteSet(E(i - 1))
  <2>1. IsFiniteSet(1 .. i - 1)
    BY <1>1, FS_Interval
  <2>2. B(i - 1) \in SUBSET (1 .. i - 1) /\ E(i - 1) \in SUBSET (1 .. i - 1)
    OBVIOUS
  <2>. HIDE DEF B, E
  <2>. QED BY <2>1, <2>2, FS_Subset
<1>3. Cardinality(B(i - 1)) \in Nat /\ Cardinality(E(i - 1)) \in Nat
  <2>. HIDE DEF B, E
  <2>. QED BY <1>2, FS_CardinalityType
<1>4. i \notin B(i - 1) /\ i \notin E(i - 1)
  BY <1>1
<1>5. /\ B(i) = IF t[i].op = "begin" THEN B(i - 1) \cup {i} ELSE B(i - 1)
      /\ E(i) = IF t[i].op = "end" THEN E(i - 1) \cup {i} ELSE E(i - 1)
  <2>. HIDE DEF Delta
  <2>. QED BY <1>1
<1>6. /\ Depth(t, i) = Cardinality(B(i)) - Cardinality(E(i))
      /\ Depth(t, i - 1) = Cardinality(B(i - 1)) - Cardinality(E(i - 1))
  BY Zenon DEF Depth
<1>. HIDE DEF B, E
<1>7. /\ Cardinality(B(i)) = Cardinality(B(i - 1)) + (IF t[i].op = "begin" THEN 1 ELSE 0)
      /\ Cardinality(E(i)) = Cardinality(E(i - 1)) + (IF t[i].op = "end" THEN 1 ELSE 0)
  <2>1. /\ Cardinality(B(i - 1) \cup {i}) = Cardinality(B(i - 1)) + 1
        /\ Cardinality(E(i - 1) \cup {i}) = Cardinality(E(i - 1)) + 1
    BY <1>2, <1>4, FS_AddElement
  <2>. QED BY <1>3, <1>5, <2>1
<1>8. Delta(t[i]) = (IF t[i].op = "begin" THEN 1 ELSE 0) - (IF t[i].op = "end" THEN 1 ELSE 0)
  BY DEF Delta
<1>. QED BY <1>3, <1>6, <1>7, <1>8

\* No node is open at first.
LEMMA DepthFirst == ASSUME NEW t PROVE Depth(t, 0) = 0
<1>1. 1 .. 0 = {} /\ Cardinality({}) = 0
  BY FS_EmptySet
<1>2. /\ {k \in 1 .. 0 : t[k].op = "begin"} = {}
      /\ {k \in 1 .. 0 : t[k].op = "end"} = {}
  BY <1>1
<1>. QED BY <1>1, <1>2 DEF Depth

\* After a call that opens a node one more is open,
LEMMA DepthOpens ==
    ASSUME NEW t, NEW i \in Nat, i > 0, t[i].op = "begin"
    PROVE  Depth(t, i) = Depth(t, i - 1) + 1
<1>1. Delta(t[i]) = 1
  BY DEF Delta
<1>. QED BY <1>1, DepthNext

\* one less,
LEMMA DepthCloses ==
    ASSUME NEW t, NEW i \in Nat, i > 0, t[i].op = "end"
    PROVE  Depth(t, i) = Depth(t, i - 1) - 1
<1>1. Delta(t[i]) = -1
  BY DEF Delta
<1>. QED BY <1>1, DepthNext

\* as many.
LEMMA DepthFlat ==
    ASSUME NEW t, NEW i \in Nat, NEW j \in Nat, i <= j, Flat(t, i + 1, j)
    PROVE  Depth(t, j) = Depth(t, i)
<1>1. \A k \in i + 1 .. j : t[k].op # "begin" /\ t[k].op # "end"
  BY DEF Flat
<1>2. /\ {k \in 1 .. j : t[k].op = "begin"} = {k \in 1 .. i : t[k].op = "begin"}
      /\ {k \in 1 .. j : t[k].op = "end"} = {k \in 1 .. i : t[k].op = "end"}
  <2>1. \A k \in 1 .. j : k \in 1 .. i \/ k \in i + 1 .. j
    OBVIOUS
  <2>2. \A k \in 1 .. i : k \in 1 .. j
    OBVIOUS
  <2>. QED BY <1>1, <2>1, <2>2
<1>. QED BY <1>2, Zenon DEF Depth

\* The node that a property is of, when no other opens or closes between.
LEMMA OwnerIs ==
    ASSUME NEW t, Len(t) \in Nat, DOMAIN t = 1 .. Len(t), NEW b \in DOMAIN t, NEW i \in DOMAIN t,
           b < i, t[b].op = "begin", Flat(t, b + 1, i)
    PROVE  Owner(t, i) = b
<1>. DEFINE S == {k \in NodesOf(t) : k <= i /\ Depth(t, k) = Depth(t, i)}
<1>1. Depth(t, i) = Depth(t, b)
  BY DepthFlat
<1>2. b \in S
  BY <1>1 DEF NodesOf
<1>3. ASSUME NEW y \in S PROVE y \in Int /\ y <= b
  <2>1. y \in 1 .. Len(t) /\ t[y].op = "begin" /\ y <= i
    BY DEF NodesOf
  <2>2. ~(y \in b + 1 .. i)
    BY <2>1 DEF Flat
  <2>. QED BY <2>1, <2>2
<1>4. Owner(t, i) = Max(S)
  BY Zenon DEF Owner, Around
<1>. HIDE DEF S
<1>. QED BY <1>2, <1>3, <1>4, MaxIs

\* The node around a node.
LEMMA ParentIs ==
    ASSUME NEW t, Len(t) \in Nat, DOMAIN t = 1 .. Len(t), NEW b \in DOMAIN t, NEW i \in DOMAIN t,
           b < i, t[b].op = "begin", Depth(t, b) = Depth(t, i) - 1,
           \A k \in b + 1 .. i : t[k].op = "begin" => Depth(t, k) # Depth(t, i) - 1
    PROVE  Parent(t, i) = b
<1>. DEFINE S == {k \in NodesOf(t) : k <= i /\ Depth(t, k) = Depth(t, i) - 1}
<1>2. b \in S
  BY DEF NodesOf
<1>3. ASSUME NEW y \in S PROVE y \in Int /\ y <= b
  <2>1. y \in 1 .. Len(t) /\ t[y].op = "begin" /\ y <= i /\ Depth(t, y) = Depth(t, i) - 1
    BY DEF NodesOf
  <2>2. ~(y \in b + 1 .. i)
    BY <2>1
  <2>. QED BY <2>1, <2>2
<1>4. Parent(t, i) = Max(S)
  BY Zenon DEF Parent, Around
<1>. HIDE DEF S
<1>. QED BY <1>2, <1>3, <1>4, MaxIs

\* The one property of a node with a name.
LEMMA ValueIs ==
    ASSUME NEW t, NEW node, NEW name, NEW i \in PropsNamed(t, name), Owner(t, i) = node,
           \A j \in PropsNamed(t, name) : Owner(t, j) = node => j = i
    PROVE  Has(t, node, name) /\ Value(t, node, name) = t[i].value
<1>1. (CHOOSE j \in PropsNamed(t, name) : Owner(t, j) = node) = i
  BY Zenon
<1>. QED BY <1>1, Zenon DEF Has, Value

\* The calls between those that open and close.
LEMMA TableProps ==
    ASSUME NEW t, NEW o, Table(t, o)
    PROVE  /\ Flat(t, 2, 4) /\ Flat(t, 6, 8) /\ Flat(t, 10, 17) /\ Flat(t, 19, 22)
           /\ Flat(t, 27, 28) /\ Flat(t, 31, 31) /\ Flat(t, 34, 37) /\ Flat(t, 39, 41)
           /\ Flat(t, 44, 50)
<1>. DEFINE P(i) == t[i].op \in {"u32", "str"}
<1>1. (\A i, x, y : Says(t, i, x, y) => P(i)) /\ (\A i : Dull(t, i) => P(i))
  BY DEF Says, Dull
<1>. HIDE DEF P
<1>2. /\ P(2) /\ P(3) /\ P(4) /\ P(6) /\ P(7) /\ P(8)
      /\ P(10) /\ P(11) /\ (\A i \in 12 .. 17 : P(i)) /\ P(19) /\ P(20) /\ P(21) /\ P(22)
      /\ P(27) /\ P(28) /\ P(31) /\ P(34) /\ P(35) /\ P(36) /\ P(37)
      /\ P(39) /\ P(40) /\ P(41)
      /\ P(44) /\ P(45) /\ P(46) /\ P(47) /\ P(48) /\ P(49) /\ P(50)
  <2>1. P(2) /\ P(3) /\ P(6) /\ P(7) /\ P(10) /\ P(11) /\ P(19) /\ P(20) /\ P(22)
    BY <1>1, Zenon DEF Table
  <2>2. P(4) /\ P(8) /\ (\A i \in 12 .. 17 : P(i)) /\ P(21)
    BY <1>1, Zenon DEF Table
  <2>3. P(27) /\ P(28) /\ P(34) /\ P(35) /\ P(40) /\ P(41)
    BY <1>1, Zenon DEF Table
  <2>4. P(31) /\ P(36) /\ P(37) /\ P(39) /\ P(46) /\ P(47)
    BY <1>1, Zenon DEF Table
  <2>5. P(44) /\ P(45) /\ P(48) /\ P(49) /\ P(50)
    BY <1>1, Zenon DEF Table
  <2>. QED BY <2>1, <2>2, <2>3, <2>4, <2>5, Zenon
<1>3. /\ \A k \in 2 .. 4 : P(k)
      /\ \A k \in 6 .. 8 : P(k)
      /\ \A k \in 10 .. 17 : P(k)
      /\ \A k \in 19 .. 22 : P(k)
  BY <1>2
<1>4. /\ \A k \in 27 .. 28 : P(k)
      /\ \A k \in 31 .. 31 : P(k)
      /\ \A k \in 34 .. 37 : P(k)
      /\ \A k \in 39 .. 41 : P(k)
      /\ \A k \in 44 .. 50 : P(k)
  BY <1>2
<1>. QED BY <1>3, <1>4, Zenon DEF P, Flat

\* The nodes of the script.
LEMMA TableNodes ==
    ASSUME NEW t, NEW o, Table(t, o)
    PROVE  /\ \A i \in {1, 5, 9, 18, 26, 30, 33, 38, 43} : t[i].op = "begin"
           /\ \A i \in {23, 24, 25, 29, 32, 42, 51} : t[i].op = "end"
<1>1. /\ \A i, x : Opens(t, i, x) => t[i].op = "begin"
      /\ \A i : Closes(t, i) => t[i].op = "end"
  BY DEF Opens, Closes
<1>2. /\ t[1].op = "begin" /\ t[5].op = "begin" /\ t[9].op = "begin" /\ t[18].op = "begin"
      /\ t[26].op = "begin" /\ t[30].op = "begin" /\ t[33].op = "begin" /\ t[38].op = "begin"
      /\ t[43].op = "begin"
  BY <1>1, Zenon DEF Table
<1>3. /\ t[23].op = "end" /\ t[24].op = "end" /\ t[25].op = "end" /\ t[29].op = "end"
      /\ t[32].op = "end" /\ t[42].op = "end" /\ t[51].op = "end"
  BY <1>1, Zenon DEF Table
<1>. QED BY <1>2, <1>3

\* How deep each call is.
LEMMA TableDepths ==
    ASSUME NEW t, NEW o, Table(t, o)
    PROVE  /\ Depth(t, 1) = 1 /\ Depth(t, 5) = 2 /\ Depth(t, 9) = 3 /\ Depth(t, 18) = 4
           /\ Depth(t, 26) = 2 /\ Depth(t, 30) = 2 /\ Depth(t, 33) = 2 /\ Depth(t, 38) = 3
           /\ Depth(t, 43) = 3 /\ Depth(t, 51) = 2
<1>1. Depth(t, 1) = 1
  BY TableNodes, DepthFirst, DepthOpens
<1>2. Depth(t, 4) = 1
  BY <1>1, TableProps, DepthFlat
<1>3. Depth(t, 5) = 2
  BY <1>2, TableNodes, DepthOpens
<1>4. Depth(t, 8) = 2
  BY <1>3, TableProps, DepthFlat
<1>5. Depth(t, 9) = 3
  BY <1>4, TableNodes, DepthOpens
<1>6. Depth(t, 17) = 3
  BY <1>5, TableProps, DepthFlat
<1>7. Depth(t, 18) = 4
  BY <1>6, TableNodes, DepthOpens
<1>8. Depth(t, 22) = 4
  BY <1>7, TableProps, DepthFlat
<1>9. Depth(t, 23) = 3
  BY <1>8, TableNodes, DepthCloses
<1>10. Depth(t, 24) = 2
  BY <1>9, TableNodes, DepthCloses
<1>11. Depth(t, 25) = 1
  BY <1>10, TableNodes, DepthCloses
<1>12. Depth(t, 26) = 2
  BY <1>11, TableNodes, DepthOpens
<1>13. Depth(t, 28) = 2
  BY <1>12, TableProps, DepthFlat
<1>14. Depth(t, 29) = 1
  BY <1>13, TableNodes, DepthCloses
<1>15. Depth(t, 30) = 2
  BY <1>14, TableNodes, DepthOpens
<1>16. Depth(t, 31) = 2
  BY <1>15, TableProps, DepthFlat
<1>17. Depth(t, 32) = 1
  BY <1>16, TableNodes, DepthCloses
<1>18. Depth(t, 33) = 2
  BY <1>17, TableNodes, DepthOpens
<1>19. Depth(t, 37) = 2
  BY <1>18, TableProps, DepthFlat
<1>20. Depth(t, 38) = 3
  BY <1>19, TableNodes, DepthOpens
<1>21. Depth(t, 41) = 3
  BY <1>20, TableProps, DepthFlat
<1>22. Depth(t, 42) = 2
  BY <1>21, TableNodes, DepthCloses
<1>23. Depth(t, 43) = 3
  BY <1>22, TableNodes, DepthOpens
<1>24. Depth(t, 50) = 3
  BY <1>23, TableProps, DepthFlat
<1>25. Depth(t, 51) = 2
  BY <1>24, TableNodes, DepthCloses
<1>. QED BY <1>1, <1>3, <1>5, <1>7, <1>12, <1>15, <1>18, <1>20, <1>23, <1>25, Zenon

\* How deep the nodes are.
LEMMA TablePlaces ==
    ASSUME NEW t, NEW o, Table(t, o), Rest(t, o)
    PROVE  /\ DOMAIN t = 1 .. Len(t) /\ Len(t) \in Nat /\ Len(t) > 51
           /\ \A i \in 1 .. 51 : i \in DOMAIN t
<1>1. DOMAIN t = 1 .. Len(t) /\ Len(t) \in Nat /\ Len(t) > Listed(o)
  BY DEF Rest
<1>2. Listed(o) = 58 \/ Listed(o) = 51
  BY DEF Listed
<1>. QED BY <1>1, <1>2

\* The node of each property.
LEMMA TableOwners ==
    ASSUME NEW t, NEW o, Table(t, o), Rest(t, o)
    PROVE  /\ Owner(t, 2) = 1 /\ Owner(t, 3) = 1 /\ Owner(t, 6) = 5 /\ Owner(t, 7) = 5
           /\ Owner(t, 10) = 9 /\ Owner(t, 11) = 9
           /\ Owner(t, 19) = 18 /\ Owner(t, 20) = 18 /\ Owner(t, 22) = 18
           /\ Owner(t, 27) = 26 /\ Owner(t, 28) = 26 /\ Owner(t, 34) = 33 /\ Owner(t, 35) = 33
           /\ Owner(t, 40) = 38 /\ Owner(t, 41) = 38
           /\ Owner(t, 44) = 43 /\ Owner(t, 45) = 43 /\ Owner(t, 48) = 43 /\ Owner(t, 49) = 43
           /\ Owner(t, 50) = 43
<1>. DEFINE Q(b, j) == \A i \in b + 1 .. j : Owner(t, i) = b
<1>1. DOMAIN t = 1 .. Len(t) /\ Len(t) \in Nat /\ \A i \in 1 .. 51 : i \in DOMAIN t
  BY TablePlaces
<1>2. ASSUME NEW b \in 1 .. 51, NEW j \in 1 .. 51, t[b].op = "begin", Flat(t, b + 1, j)
      PROVE  Q(b, j)
  <2>. SUFFICES ASSUME NEW i \in b + 1 .. j PROVE Owner(t, i) = b
    OBVIOUS
  <2>1. Flat(t, b + 1, i)
    BY <1>2 DEF Flat
  <2>2. b \in DOMAIN t /\ i \in DOMAIN t /\ b < i
    <3>1. b \in 1 .. 51 /\ i \in 1 .. 51 /\ b < i
      OBVIOUS
    <3>. QED BY <1>1, <3>1, Zenon
  <2>. QED BY <1>1, <1>2, <2>1, <2>2, OwnerIs
<1>. HIDE DEF Q
<1>3. Q(1, 4) /\ Q(5, 8) /\ Q(9, 17) /\ Q(18, 22)
  BY <1>2, TableProps, TableNodes
<1>4. Q(26, 28) /\ Q(33, 37) /\ Q(38, 41) /\ Q(43, 50)
  BY <1>2, TableProps, TableNodes
<1>. QED BY <1>3, <1>4 DEF Q

\* The node around each.
LEMMA TableParents ==
    ASSUME NEW t, NEW o, Table(t, o), Rest(t, o)
    PROVE  Parent(t, 9) = 5 /\ Parent(t, 26) = 1 /\ Parent(t, 38) = 33 /\ Parent(t, 43) = 33
<1>1. DOMAIN t = 1 .. Len(t) /\ Len(t) \in Nat /\ \A i \in 1 .. 51 : i \in DOMAIN t
  BY TablePlaces
<1>2. ASSUME NEW k \in 2 .. 51, t[k].op = "begin"
      PROVE  k \in {5, 9, 18, 26, 30, 33, 38, 43}
  <2>1. \A i, j : k \in i .. j => ~Flat(t, i, j)
    BY <1>2 DEF Flat
  <2>2. /\ ~(k \in 2 .. 4) /\ ~(k \in 6 .. 8) /\ ~(k \in 10 .. 17) /\ ~(k \in 19 .. 22)
        /\ ~(k \in 27 .. 28) /\ ~(k \in 31 .. 31) /\ ~(k \in 34 .. 37) /\ ~(k \in 39 .. 41)
        /\ ~(k \in 44 .. 50)
    BY <2>1, TableProps, Zenon
  <2>3. k \notin {23, 24, 25, 29, 32, 42, 51}
    BY <1>2, TableNodes
  <2>. QED BY <2>2, <2>3
<1>3. Parent(t, 9) = 5
  <2>1. \A k \in 5 + 1 .. 9 : t[k].op = "begin" => k = 9
    BY <1>2
  <2>2. /\ 5 \in DOMAIN t /\ 9 \in DOMAIN t /\ t[5].op = "begin" /\ 5 < 9
    <3>1. 5 \in 1 .. 51 /\ 9 \in 1 .. 51 /\ 5 < 9
      OBVIOUS
    <3>2. t[5].op = "begin"
      BY TableNodes
    <3>. QED BY <1>1, <3>1, <3>2, Zenon
  <2>3. Depth(t, 5) = Depth(t, 9) - 1
    BY TableDepths
  <2>4. \A k \in 5 + 1 .. 9 : t[k].op = "begin" => Depth(t, k) # Depth(t, 9) - 1
    BY <2>1, TableDepths
  <2>. QED BY <1>1, <2>2, <2>3, <2>4, ParentIs, Zenon
<1>4. Parent(t, 26) = 1
  <2>1. \A k \in 1 + 1 .. 26 : t[k].op = "begin" => k \in {5, 9, 18, 26}
    BY <1>2
  <2>2. /\ 1 \in DOMAIN t /\ 26 \in DOMAIN t /\ t[1].op = "begin" /\ 1 < 26
    <3>1. 1 \in 1 .. 51 /\ 26 \in 1 .. 51 /\ 1 < 26
      OBVIOUS
    <3>2. t[1].op = "begin"
      BY TableNodes
    <3>. QED BY <1>1, <3>1, <3>2, Zenon
  <2>3. Depth(t, 1) = Depth(t, 26) - 1
    BY TableDepths
  <2>4. \A k \in 1 + 1 .. 26 : t[k].op = "begin" => Depth(t, k) # Depth(t, 26) - 1
    BY <2>1, TableDepths
  <2>. QED BY <1>1, <2>2, <2>3, <2>4, ParentIs, Zenon
<1>5. Parent(t, 38) = 33
  <2>1. \A k \in 33 + 1 .. 38 : t[k].op = "begin" => k = 38
    BY <1>2
  <2>2. /\ 33 \in DOMAIN t /\ 38 \in DOMAIN t /\ t[33].op = "begin" /\ 33 < 38
    <3>1. 33 \in 1 .. 51 /\ 38 \in 1 .. 51 /\ 33 < 38
      OBVIOUS
    <3>2. t[33].op = "begin"
      BY TableNodes
    <3>. QED BY <1>1, <3>1, <3>2, Zenon
  <2>3. Depth(t, 33) = Depth(t, 38) - 1
    BY TableDepths
  <2>4. \A k \in 33 + 1 .. 38 : t[k].op = "begin" => Depth(t, k) # Depth(t, 38) - 1
    BY <2>1, TableDepths
  <2>. QED BY <1>1, <2>2, <2>3, <2>4, ParentIs, Zenon
<1>6. Parent(t, 43) = 33
  <2>1. \A k \in 33 + 1 .. 43 : t[k].op = "begin" => k \in {38, 43}
    BY <1>2
  <2>2. /\ 33 \in DOMAIN t /\ 43 \in DOMAIN t /\ t[33].op = "begin" /\ 33 < 43
    <3>1. 33 \in 1 .. 51 /\ 43 \in 1 .. 51 /\ 33 < 43
      OBVIOUS
    <3>2. t[33].op = "begin"
      BY TableNodes
    <3>. QED BY <1>1, <3>1, <3>2, Zenon
  <2>3. Depth(t, 33) = Depth(t, 43) - 1
    BY TableDepths
  <2>4. \A k \in 33 + 1 .. 43 : t[k].op = "begin" => Depth(t, k) # Depth(t, 43) - 1
    BY <2>1, TableDepths
  <2>. QED BY <1>1, <2>2, <2>3, <2>4, ParentIs, Zenon
<1>. QED BY <1>3, <1>4, <1>5, <1>6

\* The same for the UART.
LEMMA SerialPlaces ==
    ASSUME NEW t, NEW o, Table(t, o), Rest(t, o), o.uart, SerialTable(t)
    PROVE  /\ Len(t) > 58 /\ t[52].op = "begin"
           /\ \A i \in 1 .. 58 : i \in DOMAIN t
           /\ Owner(t, 55) = 52 /\ Parent(t, 52) = 33
<1>1. DOMAIN t = 1 .. Len(t) /\ Len(t) \in Nat /\ Len(t) > 58
  BY DEF Rest, Listed
<1>2. 33 \in DOMAIN t /\ 52 \in DOMAIN t /\ 55 \in DOMAIN t /\ \A i \in 1 .. 58 : i \in DOMAIN t
  BY <1>1
<1>3. t[52].op = "begin"
  BY DEF SerialTable, Opens
<1>4. Flat(t, 52 + 1, 55) /\ 52 < 55
  <2>1. /\ t[53].op \in {"u32", "str"} /\ t[54].op \in {"u32", "str"}
        /\ t[55].op \in {"u32", "str"}
    BY DEF SerialTable, Dull, Says
  <2>. QED BY <2>1 DEF Flat
<1>5. Owner(t, 55) = 52
  BY <1>1, <1>2, <1>3, <1>4, OwnerIs, Zenon
<1>6. Depth(t, 52) = 3
  BY <1>3, TableDepths, DepthOpens
<1>7. ASSUME NEW k \in 33 + 1 .. 52, t[k].op = "begin" PROVE k \in {38, 43, 52}
  <2>1. \A i, j : k \in i .. j => ~Flat(t, i, j)
    BY <1>7 DEF Flat
  <2>2. ~(k \in 34 .. 37) /\ ~(k \in 39 .. 41) /\ ~(k \in 44 .. 50)
    BY <2>1, TableProps, Zenon
  <2>3. k \notin {42, 51}
    BY <1>7, TableNodes
  <2>. QED BY <2>2, <2>3
<1>8. t[33].op = "begin" /\ Depth(t, 33) = Depth(t, 52) - 1 /\ 33 < 52
  BY <1>6, TableNodes, TableDepths
<1>9. \A k \in 33 + 1 .. 52 : t[k].op = "begin" => Depth(t, k) # Depth(t, 52) - 1
  BY <1>6, <1>7, TableDepths
<1>10. Parent(t, 52) = 33
  BY <1>1, <1>2, <1>8, <1>9, ParentIs, Zenon
<1>. QED BY <1>1, <1>2, <1>3, <1>5, <1>10, Zenon

\* the properties of the script with a name in Names
Listings(o) == {2, 3, 6, 7, 10, 11, 19, 20, 22, 27, 28, 34, 35, 40, 41, 44, 45, 48, 49, 50}
                   \cup (IF o.uart THEN {55} ELSE {})

\* The script has no others.
LEMMA TableListings ==
    ASSUME NEW t, NEW o, Table(t, o), Rest(t, o), o.uart => SerialTable(t),
           NEW i \in DOMAIN t, t[i].op \in {"u32", "str"}, t[i].name \in Names
    PROVE  i \in Listings(o)
<1>1. i \in 1 .. Len(t) /\ Len(t) \in Nat /\ i \in Nat /\ 1 <= i
  <2>1. DOMAIN t = 1 .. Len(t) /\ Len(t) \in Nat
    BY DEF Rest
  <2>2. i \in 1 .. Len(t)
    BY <2>1
  <2>. QED BY <2>1, <2>2
<1>2. ~Dull(t, i) /\ ~Plain(t, i) /\ t[i].op # "begin" /\ t[i].op # "end"
  BY DEF Dull, Plain
<1>3. i <= Listed(o)
  BY <1>1, <1>2 DEF Rest, Listed
<1>4. i \notin {1, 5, 9, 18, 26, 30, 33, 38, 43} /\ i \notin {23, 24, 25, 29, 32, 42, 51}
  BY <1>2, TableNodes
<1>5. /\ i # 4 /\ i # 8 /\ ~(i \in 12 .. 17) /\ i # 21 /\ i # 31 /\ i # 36 /\ i # 37
      /\ i # 39 /\ i # 46 /\ i # 47
  BY <1>2, Zenon DEF Table
<1>6. CASE i <= 51
  <2>1. i \in {2, 3, 6, 7, 10, 11, 19, 20, 22, 27, 28, 34, 35, 40, 41, 44, 45, 48, 49, 50}
    <3>1. i \in 1 .. 51
      <4>1. \A j \in Nat : 1 <= j /\ j <= 51 => j \in 1 .. 51
        OBVIOUS
      <4>. QED BY <1>1, <1>6, <4>1, Zenon
    <3>2. CASE i <= 18
      BY <1>4, <1>5, <3>1, <3>2
    <3>3. CASE 18 < i /\ i <= 33
      BY <1>4, <1>5, <3>1, <3>3
    <3>4. CASE 33 < i
      BY <1>4, <1>5, <3>1, <3>4
    <3>. QED BY <3>1, <3>2, <3>3, <3>4
  <2>. QED BY <2>1, Zenon DEF Listings
<1>7. CASE i > 51
  <2>1. o.uart /\ i <= 58
    BY <1>1, <1>3, <1>7 DEF Listed
  <2>2. i # 52 /\ i # 58
    BY <1>2, <2>1 DEF SerialTable, Opens, Closes
  <2>3. i # 53 /\ i # 54 /\ i # 56 /\ i # 57
    BY <1>2, <2>1, Zenon DEF SerialTable
  <2>4. i = 55
    BY <1>1, <1>7, <2>1, <2>2, <2>3
  <2>. QED BY <2>1, <2>4 DEF Listings
<1>. QED BY <1>1, <1>6, <1>7

\* call i of t is a property with that name
Named(t, i, name) == t[i].op \in {"u32", "str"} /\ t[i].name = name

\* The names of the properties.
LEMMA TableNames ==
    ASSUME NEW t, NEW o, Table(t, o), o.uart => SerialTable(t)
    PROVE  /\ Named(t, 2, "#address-cells") /\ Named(t, 3, "#size-cells")
           /\ Named(t, 6, "#address-cells") /\ Named(t, 7, "#size-cells")
           /\ Named(t, 10, "device_type") /\ Named(t, 11, "reg")
           /\ Named(t, 19, "#interrupt-cells") /\ Named(t, 20, "interrupt-controller")
           /\ Named(t, 22, "phandle") /\ Named(t, 27, "device_type")
           /\ Named(t, 28, "reg") /\ Named(t, 34, "#address-cells")
           /\ Named(t, 35, "#size-cells") /\ Named(t, 40, "interrupts-extended")
           /\ Named(t, 41, "reg") /\ Named(t, 44, "#interrupt-cells")
           /\ Named(t, 45, "interrupt-controller") /\ Named(t, 48, "reg")
           /\ Named(t, 49, "interrupts-extended") /\ Named(t, 50, "phandle")
           /\ o.uart => Named(t, 55, "reg")
<1>1. \A i, x, y : Says(t, i, x, y) => Named(t, i, x)
  BY DEF Says, Named
<1>2. /\ Named(t, 2, "#address-cells") /\ Named(t, 3, "#size-cells")
      /\ Named(t, 6, "#address-cells") /\ Named(t, 7, "#size-cells")
      /\ Named(t, 10, "device_type")
  BY <1>1, Zenon DEF Table
<1>3. /\ Named(t, 11, "reg") /\ Named(t, 19, "#interrupt-cells")
      /\ Named(t, 20, "interrupt-controller") /\ Named(t, 22, "phandle")
  BY <1>1, Zenon DEF Table
<1>4. /\ Named(t, 27, "device_type") /\ Named(t, 28, "reg")
      /\ Named(t, 34, "#address-cells") /\ Named(t, 35, "#size-cells")
      /\ Named(t, 40, "interrupts-extended") /\ Named(t, 41, "reg")
  BY <1>1, Zenon DEF Table
<1>5. /\ Named(t, 44, "#interrupt-cells") /\ Named(t, 45, "interrupt-controller")
      /\ Named(t, 48, "reg") /\ Named(t, 49, "interrupts-extended")
      /\ Named(t, 50, "phandle")
  BY <1>1, Zenon DEF Table
<1>6. o.uart => Named(t, 55, "reg")
  BY <1>1, Zenon DEF SerialTable
<1>. QED BY <1>2, <1>3, <1>4, <1>5, <1>6, Zenon

\* The properties with a name are those that have it.
LEMMA NamedAre ==
    ASSUME NEW t, NEW name, NEW S,
           \A i \in S : i \in DOMAIN t /\ t[i].op \in {"u32", "str"} /\ t[i].name = name,
           \A i \in DOMAIN t : t[i].op \in {"u32", "str"} /\ t[i].name = name => i \in S
    PROVE  PropsNamed(t, name) = S
  BY Zenon DEF PropsNamed

\* Which have each name.
LEMMA TableNamed ==
    ASSUME NEW t, NEW o, Table(t, o), Rest(t, o), o.uart => SerialTable(t)
    PROVE  /\ PropsNamed(t, "phandle") = {22, 50}
           /\ PropsNamed(t, "#interrupt-cells") = {19, 44}
           /\ PropsNamed(t, "interrupt-controller") = {20, 45}
           /\ PropsNamed(t, "interrupts-extended") = {40, 49}
           /\ PropsNamed(t, "device_type") = {10, 27}
           /\ PropsNamed(t, "#address-cells") = {2, 6, 34}
           /\ PropsNamed(t, "#size-cells") = {3, 7, 35}
           /\ PropsNamed(t, "reg") = {11, 28, 41, 48} \cup (IF o.uart THEN {55} ELSE {})
<1>. DEFINE P(i) == t[i].op \in {"u32", "str"}
            L == Listings(o)
            N(i) == t[i].name
<1>1. \A i \in L : i \in DOMAIN t /\ P(i)
  <2>1. \A i \in L : i \in 1 .. 51 \/ (o.uart /\ i = 55)
    BY DEF Listings
  <2>2. \A i \in 1 .. 51 : i \in DOMAIN t
    BY TablePlaces, Zenon
  <2>3. o.uart => 55 \in DOMAIN t
    <3>1. 55 \in 1 .. 58
      OBVIOUS
    <3>. QED BY <3>1, SerialPlaces, Zenon
  <2>4. \A i \in L : P(i)
    <3>1. \A i, x : Named(t, i, x) => P(i)
      BY Zenon DEF Named
    <3>. HIDE DEF P
    <3>2. P(2) /\ P(3) /\ P(6) /\ P(7) /\ P(10)
      BY <3>1, TableNames, Zenon
    <3>3. P(11) /\ P(19) /\ P(20) /\ P(22)
      BY <3>1, TableNames, Zenon
    <3>4. P(27) /\ P(28) /\ P(34) /\ P(35) /\ P(40) /\ P(41)
      BY <3>1, TableNames, Zenon
    <3>5. P(44) /\ P(45) /\ P(48) /\ P(49) /\ P(50)
      BY <3>1, TableNames, Zenon
    <3>6. o.uart => P(55)
      BY <3>1, TableNames, Zenon
    <3>. QED BY <3>2, <3>3, <3>4, <3>5, <3>6 DEF Listings
  <2>. HIDE DEF L
  <2>. QED BY <2>1, <2>2, <2>3, <2>4, Zenon
<1>2. \A i \in DOMAIN t : P(i) /\ N(i) \in Names => i \in L
  BY TableListings, Zenon
<1>3. /\ N(2) = "#address-cells" /\ N(6) = "#address-cells" /\ N(34) = "#address-cells"
      /\ N(3) = "#size-cells" /\ N(7) = "#size-cells" /\ N(35) = "#size-cells"
      /\ N(10) = "device_type" /\ N(27) = "device_type"
      /\ N(11) = "reg" /\ N(28) = "reg" /\ N(41) = "reg" /\ N(48) = "reg"
      /\ N(19) = "#interrupt-cells" /\ N(44) = "#interrupt-cells"
      /\ N(20) = "interrupt-controller" /\ N(45) = "interrupt-controller"
      /\ N(22) = "phandle" /\ N(50) = "phandle"
      /\ N(40) = "interrupts-extended" /\ N(49) = "interrupts-extended"
      /\ o.uart => N(55) = "reg"
  <2>1. \A i, x : Named(t, i, x) => N(i) = x
    BY Zenon DEF Named
  <2>. HIDE DEF N
  <2>2. /\ N(2) = "#address-cells" /\ N(3) = "#size-cells" /\ N(6) = "#address-cells"
         /\ N(7) = "#size-cells" /\ N(10) = "device_type"
    BY <2>1, TableNames
  <2>3. /\ N(11) = "reg" /\ N(19) = "#interrupt-cells" /\ N(20) = "interrupt-controller"
         /\ N(22) = "phandle"
    BY <2>1, TableNames
  <2>4. /\ N(27) = "device_type" /\ N(28) = "reg" /\ N(34) = "#address-cells"
         /\ N(35) = "#size-cells" /\ N(40) = "interrupts-extended" /\ N(41) = "reg"
    BY <2>1, TableNames
  <2>5. /\ N(44) = "#interrupt-cells" /\ N(45) = "interrupt-controller" /\ N(48) = "reg"
         /\ N(49) = "interrupts-extended" /\ N(50) = "phandle"
    BY <2>1, TableNames
  <2>6. o.uart => N(55) = "reg"
    BY <2>1, TableNames
  <2>. QED BY <2>2, <2>3, <2>4, <2>5, <2>6, Zenon
<1>4. L = {2, 3, 6, 7, 10, 11, 19, 20, 22, 27, 28, 34, 35, 40, 41, 44, 45, 48, 49, 50}
              \cup (IF o.uart THEN {55} ELSE {})
  BY Zenon DEF Listings
<1>5. ASSUME NEW name \in Names, NEW S, S \subseteq L,
             \A i \in S : N(i) = name, \A i \in L : N(i) = name => i \in S
      PROVE  PropsNamed(t, name) = S
  <2>. HIDE DEF L
  <2>1. \A i \in S : i \in DOMAIN t /\ t[i].op \in {"u32", "str"} /\ t[i].name = name
    BY <1>1, <1>5, Zenon
  <2>2. \A i \in DOMAIN t : t[i].op \in {"u32", "str"} /\ t[i].name = name => i \in S
    BY <1>2, <1>5, Zenon
  <2>. QED BY <2>1, <2>2, NamedAre, Zenon
<1>. HIDE DEF L, N, P
<1>6. PropsNamed(t, "phandle") = {22, 50}
  <2>. DEFINE S == {22, 50}
  <2>1. /\ "phandle" \in Names /\ S \subseteq L /\ \A i \in S : N(i) = "phandle"
        /\ \A i \in L : N(i) = "phandle" => i \in S
    BY <1>3, <1>4 DEF Names
  <2>. HIDE DEF S
  <2>2. PropsNamed(t, "phandle") = S
    BY <1>5, <2>1, Zenon
  <2>. QED BY <2>2 DEF S
<1>7. PropsNamed(t, "#interrupt-cells") = {19, 44}
  <2>. DEFINE S == {19, 44}
  <2>1. /\ "#interrupt-cells" \in Names /\ S \subseteq L /\ \A i \in S : N(i) = "#interrupt-cells"
        /\ \A i \in L : N(i) = "#interrupt-cells" => i \in S
    BY <1>3, <1>4 DEF Names
  <2>. HIDE DEF S
  <2>2. PropsNamed(t, "#interrupt-cells") = S
    BY <1>5, <2>1, Zenon
  <2>. QED BY <2>2 DEF S
<1>8. PropsNamed(t, "interrupt-controller") = {20, 45}
  <2>. DEFINE S == {20, 45}
  <2>1. /\ "interrupt-controller" \in Names /\ S \subseteq L
        /\ \A i \in S : N(i) = "interrupt-controller"
        /\ \A i \in L : N(i) = "interrupt-controller" => i \in S
    BY <1>3, <1>4 DEF Names
  <2>. HIDE DEF S
  <2>2. PropsNamed(t, "interrupt-controller") = S
    BY <1>5, <2>1, Zenon
  <2>. QED BY <2>2 DEF S
<1>9. PropsNamed(t, "interrupts-extended") = {40, 49}
  <2>. DEFINE S == {40, 49}
  <2>1. /\ "interrupts-extended" \in Names /\ S \subseteq L
        /\ \A i \in S : N(i) = "interrupts-extended"
        /\ \A i \in L : N(i) = "interrupts-extended" => i \in S
    BY <1>3, <1>4 DEF Names
  <2>. HIDE DEF S
  <2>2. PropsNamed(t, "interrupts-extended") = S
    BY <1>5, <2>1, Zenon
  <2>. QED BY <2>2 DEF S
<1>10. PropsNamed(t, "device_type") = {10, 27}
  <2>. DEFINE S == {10, 27}
  <2>1. /\ "device_type" \in Names /\ S \subseteq L /\ \A i \in S : N(i) = "device_type"
        /\ \A i \in L : N(i) = "device_type" => i \in S
    BY <1>3, <1>4 DEF Names
  <2>. HIDE DEF S
  <2>2. PropsNamed(t, "device_type") = S
    BY <1>5, <2>1, Zenon
  <2>. QED BY <2>2 DEF S
<1>11. PropsNamed(t, "#address-cells") = {2, 6, 34}
  <2>. DEFINE S == {2, 6, 34}
  <2>1. /\ "#address-cells" \in Names /\ S \subseteq L /\ \A i \in S : N(i) = "#address-cells"
        /\ \A i \in L : N(i) = "#address-cells" => i \in S
    BY <1>3, <1>4 DEF Names
  <2>. HIDE DEF S
  <2>2. PropsNamed(t, "#address-cells") = S
    BY <1>5, <2>1, Zenon
  <2>. QED BY <2>2 DEF S
<1>12. PropsNamed(t, "#size-cells") = {3, 7, 35}
  <2>. DEFINE S == {3, 7, 35}
  <2>1. /\ "#size-cells" \in Names /\ S \subseteq L /\ \A i \in S : N(i) = "#size-cells"
        /\ \A i \in L : N(i) = "#size-cells" => i \in S
    BY <1>3, <1>4 DEF Names
  <2>. HIDE DEF S
  <2>2. PropsNamed(t, "#size-cells") = S
    BY <1>5, <2>1, Zenon
  <2>. QED BY <2>2 DEF S
<1>13. PropsNamed(t, "reg") = {11, 28, 41, 48} \cup (IF o.uart THEN {55} ELSE {})
  <2>. DEFINE S == {11, 28, 41, 48} \cup (IF o.uart THEN {55} ELSE {})
  <2>1. /\ "reg" \in Names /\ S \subseteq L /\ \A i \in S : N(i) = "reg"
        /\ \A i \in L : N(i) = "reg" => i \in S
    BY <1>3, <1>4 DEF Names
  <2>. HIDE DEF S
  <2>2. PropsNamed(t, "reg") = S
    BY <1>5, <2>1, Zenon
  <2>. QED BY <2>2 DEF S
<1>. QED BY <1>6, <1>7, <1>8, <1>9, <1>10, <1>11, <1>12, <1>13, Zenon

\* The value of that property of that node.
Holds(t, node, name, v) == Has(t, node, name) /\ Value(t, node, name) = v

\* the value of call i; call i, alone of those in S, is of that node
Gives(t, i, v) == t[i].value = v
Sole(t, S, node, i) ==
    /\ i \in S /\ Owner(t, i) = node
    /\ \A j \in S : Owner(t, j) = node => j = i

\* A property that one call gives is the one that is read.
LEMMA HoldsIf ==
    ASSUME NEW t, NEW node, NEW name, NEW i, NEW v, NEW S,
           PropsNamed(t, name) = S, Sole(t, S, node, i), Gives(t, i, v)
    PROVE  Holds(t, node, name, v)
<1>1. Has(t, node, name) /\ Value(t, node, name) = t[i].value
  BY ValueIs, Zenon DEF Sole
<1>. QED BY <1>1, Zenon DEF Holds, Gives

\* The values that the script gives.
LEMMA TableValues ==
    ASSUME NEW t, NEW o, Table(t, o), o.uart => SerialTable(t)
    PROVE  /\ Gives(t, 2, <<2>>) /\ Gives(t, 3, <<2>>)
           /\ Gives(t, 6, <<1>>) /\ Gives(t, 7, <<0>>)
           /\ Gives(t, 11, <<0>>) /\ Gives(t, 19, <<1>>)
           /\ Gives(t, 22, <<1>>) /\ Gives(t, 28, Halves(o.phys_start) \o o.ram_size)
           /\ Gives(t, 34, <<2>>) /\ Gives(t, 35, <<2>>)
           /\ Gives(t, 40, <<1, 3, 1, 7>>) /\ Gives(t, 41, <<0, CLINT.base, 0, CLINT.size>>)
           /\ Gives(t, 44, <<1>>) /\ Gives(t, 48, <<0, PLIC.base, 0, PLIC.size>>)
           /\ Gives(t, 49, <<1, 9, 1, 11>>) /\ Gives(t, 50, <<2>>)
           /\ o.uart => Gives(t, 55, <<0, UART.base, 0, UART.size>>)
<1>1. \A i, x, v : Says(t, i, x, v) => Gives(t, i, v)
  BY Zenon DEF Says, Gives
<1>2. /\ Gives(t, 2, <<2>>) /\ Gives(t, 3, <<2>>)
      /\ Gives(t, 6, <<1>>) /\ Gives(t, 7, <<0>>)
      /\ Gives(t, 11, <<0>>) /\ Gives(t, 19, <<1>>)
      /\ Gives(t, 22, <<1>>)
  BY <1>1, Zenon DEF Table
<1>3. /\ Gives(t, 28, Halves(o.phys_start) \o o.ram_size) /\ Gives(t, 34, <<2>>)
      /\ Gives(t, 35, <<2>>) /\ Gives(t, 40, <<1, 3, 1, 7>>)
      /\ Gives(t, 41, <<0, CLINT.base, 0, CLINT.size>>)
  BY <1>1, Zenon DEF Table
<1>4. /\ Gives(t, 44, <<1>>) /\ Gives(t, 48, <<0, PLIC.base, 0, PLIC.size>>)
      /\ Gives(t, 49, <<1, 9, 1, 11>>) /\ Gives(t, 50, <<2>>)
  BY <1>1, Zenon DEF Table
<1>5. o.uart => Gives(t, 55, <<0, UART.base, 0, UART.size>>)
  BY <1>1, Zenon DEF SerialTable
<1>. QED BY <1>2, <1>3, <1>4, <1>5, Zenon

\* The properties of the interrupt controllers.
LEMMA ControllerValues ==
    ASSUME NEW t, NEW o, Table(t, o), Rest(t, o), o.uart => SerialTable(t)
    PROVE  /\ Holds(t, 18, "phandle", <<1>>) /\ Holds(t, 43, "phandle", <<2>>)
           /\ Holds(t, 18, "#interrupt-cells", <<1>>) /\ Holds(t, 43, "#interrupt-cells", <<1>>)
           /\ Has(t, 18, "interrupt-controller") /\ Has(t, 43, "interrupt-controller")
           /\ \A c : Has(t, c, "phandle") => c \in {18, 43}
<1>1. Holds(t, 18, "phandle", <<1>>) /\ Holds(t, 43, "phandle", <<2>>)
  <2>. DEFINE S == {22, 50}
  <2>1. /\ Sole(t, S, 18, 22)
        /\ Sole(t, S, 43, 50)
    BY TableOwners DEF Sole
  <2>2. PropsNamed(t, "phandle") = S
    BY TableNamed, Zenon
  <2>. HIDE DEF S
  <2>. QED BY <2>1, <2>2, TableValues, HoldsIf, Zenon
<1>2. Holds(t, 18, "#interrupt-cells", <<1>>) /\ Holds(t, 43, "#interrupt-cells", <<1>>)
  <2>. DEFINE S == {19, 44}
  <2>1. /\ Sole(t, S, 18, 19)
        /\ Sole(t, S, 43, 44)
    BY TableOwners DEF Sole
  <2>2. PropsNamed(t, "#interrupt-cells") = S
    BY TableNamed, Zenon
  <2>. HIDE DEF S
  <2>. QED BY <2>1, <2>2, TableValues, HoldsIf, Zenon
<1>3. Has(t, 18, "interrupt-controller") /\ Has(t, 43, "interrupt-controller")
  <2>1. PropsNamed(t, "interrupt-controller") = {20, 45}
    BY TableNamed, Zenon
  <2>2. Owner(t, 20) = 18 /\ Owner(t, 45) = 43
    BY TableOwners, Zenon
  <2>. QED BY <2>1, <2>2, Zenon DEF Has
<1>4. ASSUME NEW c, Has(t, c, "phandle") PROVE c \in {18, 43}
  <2>1. PropsNamed(t, "phandle") = {22, 50}
    BY TableNamed, Zenon
  <2>2. PICK i \in {22, 50} : Owner(t, i) = c
    BY <1>4, <2>1, Zenon DEF Has
  <2>. QED BY <2>2, TableOwners
<1>. QED BY <1>1, <1>2, <1>3, <1>4, Zenon

\* The cells of the nodes around others.
LEMMA CellValues ==
    ASSUME NEW t, NEW o, Table(t, o), Rest(t, o), o.uart => SerialTable(t)
    PROVE  /\ Holds(t, 1, "#address-cells", <<2>>) /\ Holds(t, 5, "#address-cells", <<1>>)
           /\ Holds(t, 33, "#address-cells", <<2>>)
           /\ Holds(t, 1, "#size-cells", <<2>>) /\ Holds(t, 5, "#size-cells", <<0>>)
           /\ Holds(t, 33, "#size-cells", <<2>>)
           /\ Has(t, 9, "device_type") /\ Has(t, 26, "device_type")
<1>1. /\ Holds(t, 1, "#address-cells", <<2>>) /\ Holds(t, 5, "#address-cells", <<1>>)
      /\ Holds(t, 33, "#address-cells", <<2>>)
  <2>. DEFINE S == {2, 6, 34}
  <2>1. /\ Sole(t, S, 1, 2)
        /\ Sole(t, S, 5, 6)
        /\ Sole(t, S, 33, 34)
    BY TableOwners DEF Sole
  <2>2. PropsNamed(t, "#address-cells") = S
    BY TableNamed, Zenon
  <2>. HIDE DEF S
  <2>. QED BY <2>1, <2>2, TableValues, HoldsIf, Zenon
<1>2. /\ Holds(t, 1, "#size-cells", <<2>>) /\ Holds(t, 5, "#size-cells", <<0>>)
      /\ Holds(t, 33, "#size-cells", <<2>>)
  <2>. DEFINE S == {3, 7, 35}
  <2>1. /\ Sole(t, S, 1, 3)
        /\ Sole(t, S, 5, 7)
        /\ Sole(t, S, 33, 35)
    BY TableOwners DEF Sole
  <2>2. PropsNamed(t, "#size-cells") = S
    BY TableNamed, Zenon
  <2>. HIDE DEF S
  <2>. QED BY <2>1, <2>2, TableValues, HoldsIf, Zenon
<1>3. Has(t, 9, "device_type") /\ Has(t, 26, "device_type")
  <2>1. PropsNamed(t, "device_type") = {10, 27}
    BY TableNamed, Zenon
  <2>2. Owner(t, 10) = 9 /\ Owner(t, 27) = 26
    BY TableOwners, Zenon
  <2>. QED BY <2>1, <2>2, Zenon DEF Has
<1>. QED BY <1>1, <1>2, <1>3, Zenon

\* the nodes with a reg
Regs(t) == {Owner(t, i) : i \in PropsNamed(t, "reg")}

\* The registers of each node.
LEMMA RegValues ==
    ASSUME NEW t, NEW o, Table(t, o), Rest(t, o), o.uart => SerialTable(t)
    PROVE  /\ Regs(t) = {9, 26, 38, 43} \cup (IF o.uart THEN {52} ELSE {})
           /\ Holds(t, 9, "reg", <<0>>)
           /\ Holds(t, 26, "reg", Halves(o.phys_start) \o o.ram_size)
           /\ Holds(t, 38, "reg", <<0, CLINT.base, 0, CLINT.size>>)
           /\ Holds(t, 43, "reg", <<0, PLIC.base, 0, PLIC.size>>)
           /\ o.uart => Holds(t, 52, "reg", <<0, UART.base, 0, UART.size>>)
<1>. DEFINE S == {11, 28, 41, 48} \cup (IF o.uart THEN {55} ELSE {})
<1>1. PropsNamed(t, "reg") = S
  BY TableNamed, Zenon
<1>2. o.uart => Owner(t, 55) = 52
  BY SerialPlaces, Zenon
<1>3. Owner(t, 11) = 9 /\ Owner(t, 28) = 26 /\ Owner(t, 41) = 38 /\ Owner(t, 48) = 43
  BY TableOwners, Zenon
<1>4. /\ Sole(t, S, 9, 11)
      /\ Sole(t, S, 26, 28)
      /\ Sole(t, S, 38, 41)
      /\ Sole(t, S, 43, 48)
      /\ o.uart => Sole(t, S, 52, 55)
  BY <1>2, <1>3 DEF Sole
<1>5. {Owner(t, i) : i \in S} = {9, 26, 38, 43} \cup (IF o.uart THEN {52} ELSE {})
  BY <1>2, <1>3
<1>. HIDE DEF S
<1>11. Regs(t) = {9, 26, 38, 43} \cup (IF o.uart THEN {52} ELSE {})
  <2>1. Regs(t) = {Owner(t, i) : i \in S}
    BY <1>1, Zenon DEF Regs
  <2>. QED BY <1>5, <2>1, Zenon
<1>6. Holds(t, 9, "reg", <<0>>)
  BY <1>1, <1>4, TableValues, HoldsIf, Zenon
<1>7. Holds(t, 26, "reg", Halves(o.phys_start) \o o.ram_size)
  BY <1>1, <1>4, TableValues, HoldsIf, Zenon
<1>8. Holds(t, 38, "reg", <<0, CLINT.base, 0, CLINT.size>>)
  BY <1>1, <1>4, TableValues, HoldsIf, Zenon
<1>9. Holds(t, 43, "reg", <<0, PLIC.base, 0, PLIC.size>>)
  BY <1>1, <1>4, TableValues, HoldsIf, Zenon
<1>10. o.uart => Holds(t, 52, "reg", <<0, UART.base, 0, UART.size>>)
  BY <1>1, <1>4, TableValues, HoldsIf, Zenon
<1>. QED BY <1>11, <1>6, <1>7, <1>8, <1>9, <1>10, Zenon

\* The controllers are those of the cpu and the PLIC.
LEMMA TableControllers ==
    ASSUME NEW t, NEW o, Table(t, o), Rest(t, o), o.uart => SerialTable(t)
    PROVE  {c \in NodesOf(t) : Has(t, c, "phandle")} = {18, 43}
<1>1. 18 \in NodesOf(t) /\ 43 \in NodesOf(t)
  <2>1. 18 \in 1 .. 51 /\ 43 \in 1 .. 51
    OBVIOUS
  <2>2. 18 \in DOMAIN t /\ 43 \in DOMAIN t
    BY <2>1, TablePlaces, Zenon
  <2>3. t[18].op = "begin" /\ t[43].op = "begin"
    BY TableNodes
  <2>. QED BY <2>2, <2>3, Zenon DEF NodesOf
<1>2. Has(t, 18, "phandle") /\ Has(t, 43, "phandle")
  BY ControllerValues, Zenon DEF Holds
<1>3. \A c : Has(t, c, "phandle") => c \in {18, 43}
  BY ControllerValues, Zenon
<1>. QED BY <1>1, <1>2, <1>3, Zenon

\* A phandle is of one controller.
LEMMA PhandlesDiffer ==
    ASSUME NEW t, NEW o, Table(t, o), Rest(t, o), o.uart => SerialTable(t),
           NEW c \in {18, 43}, NEW d \in {18, 43},
           Value(t, c, "phandle") = Value(t, d, "phandle")
    PROVE  c = d
<1>1. Value(t, 18, "phandle") = <<1>> /\ Value(t, 43, "phandle") = <<2>>
  BY ControllerValues, Zenon DEF Holds
<1>2. <<1>> # <<2>>
  OBVIOUS
<1>3. Value(t, 18, "phandle") # Value(t, 43, "phandle")
  BY <1>1, <1>2, Zenon
<1>. QED BY <1>3

\* An interrupt goes to the controller of the cpu.
LEMMA InterruptsResolve ==
    ASSUME NEW t, NEW o, Table(t, o), Rest(t, o), o.uart => SerialTable(t),
           NEW i \in PropsNamed(t, "interrupts-extended")
    PROVE  LET v == t[i].value
           IN  /\ Len(v) % 2 = 0
               /\ \A k \in {j \in DOMAIN v : j % 2 = 1} : \E c \in {18, 43} :
                     /\ Value(t, c, "phandle") = <<v[k]>>
                     /\ Value(t, c, "#interrupt-cells") = <<1>>
                     /\ Has(t, c, "interrupt-controller") /\ c # Owner(t, i)
<1>1. i \in {40, 49}
  BY TableNamed, Zenon
<1>. DEFINE v == t[i].value
<1>2. v = <<1, 3, 1, 7>> \/ v = <<1, 9, 1, 11>>
  <2>1. Gives(t, 40, <<1, 3, 1, 7>>) /\ Gives(t, 49, <<1, 9, 1, 11>>)
    BY TableValues, Zenon
  <2>. QED BY <1>1, <2>1, Zenon DEF Gives
<1>3. 18 # Owner(t, i)
  BY <1>1, TableOwners
<1>4. /\ Value(t, 18, "phandle") = <<1>> /\ Value(t, 18, "#interrupt-cells") = <<1>>
      /\ Has(t, 18, "interrupt-controller")
  BY ControllerValues, Zenon DEF Holds
<1>. HIDE DEF v
<1>5. Len(v) % 2 = 0 /\ DOMAIN v = 1 .. 4 /\ v[1] = 1 /\ v[3] = 1
  <2>1. CASE v = <<1, 3, 1, 7>>
    <3>1. Len(v) = 4 /\ DOMAIN v = 1 .. 4 /\ v[1] = 1 /\ v[3] = 1
      BY <2>1
    <3>. QED BY <3>1
  <2>2. CASE v = <<1, 9, 1, 11>>
    <3>1. Len(v) = 4 /\ DOMAIN v = 1 .. 4 /\ v[1] = 1 /\ v[3] = 1
      BY <2>2
    <3>. QED BY <3>1
  <2>. QED BY <1>2, <2>1, <2>2
<1>6. ASSUME NEW k \in {j \in DOMAIN v : j % 2 = 1} PROVE v[k] = 1
  <2>1. k \in 1 .. 4 /\ k % 2 = 1
    BY <1>5
  <2>2. k = 1 \/ k = 3
    BY <2>1
  <2>. QED BY <1>5, <2>2
<1>7. ASSUME NEW k \in {j \in DOMAIN v : j % 2 = 1}
      PROVE  \E c \in {18, 43} :
                 /\ Value(t, c, "phandle") = <<v[k]>>
                 /\ Value(t, c, "#interrupt-cells") = <<1>>
                 /\ Has(t, c, "interrupt-controller") /\ c # Owner(t, i)
  <2>1. Value(t, 18, "phandle") = <<v[k]>>
    BY <1>4, <1>6, Zenon
  <2>. QED BY <1>3, <1>4, <2>1, Zenon
<1>. QED BY <1>5, <1>7, Zenon DEF v

\* The cells of what is around a node with a reg.
LEMMA TableCells ==
    ASSUME NEW t, NEW o, Table(t, o), Rest(t, o), o.uart => SerialTable(t)
    PROVE  /\ Value(t, Parent(t, 9), "#address-cells")[1] = 1
           /\ Value(t, Parent(t, 9), "#size-cells")[1] = 0
           /\ Value(t, Parent(t, 26), "#address-cells")[1] = 2
           /\ Value(t, Parent(t, 26), "#size-cells")[1] = 2
           /\ \A r \in {38, 43} \cup (IF o.uart THEN {52} ELSE {}) :
                 /\ Value(t, Parent(t, r), "#address-cells")[1] = 2
                 /\ Value(t, Parent(t, r), "#size-cells")[1] = 2
<1>1. /\ Value(t, 1, "#address-cells") = <<2>> /\ Value(t, 1, "#size-cells") = <<2>>
      /\ Value(t, 5, "#address-cells") = <<1>> /\ Value(t, 5, "#size-cells") = <<0>>
      /\ Value(t, 33, "#address-cells") = <<2>> /\ Value(t, 33, "#size-cells") = <<2>>
  BY CellValues, Zenon DEF Holds
<1>2. /\ Value(t, 1, "#address-cells")[1] = 2 /\ Value(t, 1, "#size-cells")[1] = 2
      /\ Value(t, 5, "#address-cells")[1] = 1 /\ Value(t, 5, "#size-cells")[1] = 0
      /\ Value(t, 33, "#address-cells")[1] = 2 /\ Value(t, 33, "#size-cells")[1] = 2
  BY <1>1
<1>3. Parent(t, 9) = 5 /\ Parent(t, 26) = 1 /\ Parent(t, 38) = 33 /\ Parent(t, 43) = 33
  BY TableParents, Zenon
<1>4. o.uart => Parent(t, 52) = 33
  BY SerialPlaces, Zenon
<1>5. \A r \in {38, 43} \cup (IF o.uart THEN {52} ELSE {}) : Parent(t, r) = 33
  BY <1>3, <1>4
<1>. QED BY <1>2, <1>3, <1>5, Zenon

\* A reg of an address and a size of two words each, the first of the address
\* naming the node.
LEMMA RegFits ==
    ASSUME NEW t, NEW o \in Options, Table(t, o), Rest(t, o), o.uart => SerialTable(t),
           NEW r \in Regs(t)
    PROVE  LET A == Value(t, Parent(t, r), "#address-cells")[1]
               W == Value(t, r, "reg")
           IN  /\ Len(W) = A + Value(t, Parent(t, r), "#size-cells")[1]
               /\ \E base \in {"cpu", "memory", "clint", "plic", "serial"} :
                     t[r].name = Unit(base, Address(W, A))
<1>1. r \in {9, 26, 38, 43} \cup (IF o.uart THEN {52} ELSE {})
  <2>. DEFINE S == {9, 26, 38, 43} \cup (IF o.uart THEN {52} ELSE {})
  <2>1. Regs(t) = S
    BY RegValues, Zenon
  <2>. HIDE DEF S
  <2>2. r \in S
    BY <2>1
  <2>. QED BY <2>2 DEF S
<1>2. CASE r = 9
  <2>1. Value(t, 9, "reg") = <<0>> /\ t[9].name = Unit("cpu", 0)
    BY RegValues, Zenon DEF Holds, Table, Opens
  <2>2. /\ Value(t, Parent(t, 9), "#address-cells")[1] = 1
        /\ Value(t, Parent(t, 9), "#size-cells")[1] = 0
    BY TableCells, Zenon
  <2>3. /\ Address(Value(t, 9, "reg"), 1) = 0 /\ Len(Value(t, 9, "reg")) = 1 + 0
    BY <2>1 DEF Address
  <2>. QED BY <1>2, <2>1, <2>2, <2>3, Zenon
<1>3. CASE r = 26
  <2>. DEFINE v == Halves(o.phys_start) \o o.ram_size
  <2>1. Value(t, 26, "reg") = v /\ t[26].name = Unit("memory", o.phys_start)
    <3>1. Holds(t, 26, "reg", v)
      BY RegValues, Zenon
    <3>2. Opens(t, 26, Unit("memory", o.phys_start))
      BY Zenon DEF Table
    <3>. HIDE DEF v
    <3>. QED BY <3>1, <3>2, Zenon DEF Holds, Opens
  <2>2. /\ Value(t, Parent(t, 26), "#address-cells")[1] = 2
        /\ Value(t, Parent(t, 26), "#size-cells")[1] = 2
    BY TableCells, Zenon
  <2>3. Address(v, 2) = o.phys_start /\ Len(v) = 2 + 2
    <3>1. PICK x \in Nat, y \in Nat : o.ram_size = <<x, y>>
      BY OptionsAssumption
    <3>. DEFINE h == Halves(o.phys_start)
    <3>2. h \in Seq(Nat) /\ Len(h) = 2 /\ h[1] * WordSize + h[2] = o.phys_start
      BY HalvesType, OptionsAssumption
    <3>. HIDE DEF h
    <3>3. (h \o o.ram_size)[1] = h[1] /\ (h \o o.ram_size)[2] = h[2]
          /\ Len(h \o o.ram_size) = 2 + 2
      <4>. DEFINE q == h \o <<x, y>>
      <4>1. Len(q) = 4 /\ q[1] = h[1] /\ q[2] = h[2]
        BY <3>2, FourWords, Zenon
      <4>2. h \o o.ram_size = q
        BY <3>1, Zenon
      <4>. HIDE DEF q
      <4>. QED BY <4>1, <4>2
    <3>4. v = h \o o.ram_size
      BY DEF h
    <3>. HIDE DEF v
    <3>5. Address(v, 2) = v[1] * WordSize + v[2]
      BY DEF Address
    <3>. QED BY <3>2, <3>3, <3>4, <3>5
  <2>. HIDE DEF v
  <2>. QED BY <1>3, <2>1, <2>2, <2>3, Zenon
<1>4. ASSUME NEW base \in {"clint", "plic", "serial"}, NEW at \in Nat, NEW size,
             r \in {38, 43} \cup (IF o.uart THEN {52} ELSE {}),
             Value(t, r, "reg") = <<0, at, 0, size>>, t[r].name = Unit(base, at)
      PROVE  LET A == Value(t, Parent(t, r), "#address-cells")[1]
                 W == Value(t, r, "reg")
             IN  /\ Len(W) = A + Value(t, Parent(t, r), "#size-cells")[1]
                 /\ \E b \in {"cpu", "memory", "clint", "plic", "serial"} :
                       t[r].name = Unit(b, Address(W, A))
  <2>1. /\ Value(t, Parent(t, r), "#address-cells")[1] = 2
        /\ Value(t, Parent(t, r), "#size-cells")[1] = 2
    BY <1>4, TableCells, Zenon
  <2>2. Address(Value(t, r, "reg"), 2) = at /\ Len(Value(t, r, "reg")) = 2 + 2
    <3>1. Value(t, r, "reg")[1] = 0 /\ Value(t, r, "reg")[2] = at
      BY <1>4
    <3>2. 0 * WordSize + at = at
      BY <1>4, OptionsAssumption
    <3>3. Len(Value(t, r, "reg")) = 2 + 2
      BY <1>4
    <3>. QED BY <3>1, <3>2, <3>3 DEF Address
  <2>. QED BY <1>4, <2>1, <2>2, Zenon
<1>5. CASE r = 38
  <2>1. Value(t, 38, "reg") = <<0, CLINT.base, 0, CLINT.size>>
    BY RegValues, Zenon DEF Holds
  <2>2. t[38].name = Unit("clint", CLINT.base)
    BY Zenon DEF Table, Opens
  <2>3. CLINT.base \in Nat
    BY SMT DEF CLINT
  <2>. QED BY <1>4, <1>5, <2>1, <2>2, <2>3, Zenon
<1>6. CASE r = 43
  <2>1. Value(t, 43, "reg") = <<0, PLIC.base, 0, PLIC.size>>
    BY RegValues, Zenon DEF Holds
  <2>2. t[43].name = Unit("plic", PLIC.base)
    BY Zenon DEF Table, Opens
  <2>3. PLIC.base \in Nat
    BY SMT DEF PLIC
  <2>. QED BY <1>4, <1>6, <2>1, <2>2, <2>3, Zenon
<1>7. CASE o.uart /\ r = 52
  <2>1. Value(t, 52, "reg") = <<0, UART.base, 0, UART.size>>
    BY <1>7, RegValues, Zenon DEF Holds
  <2>2. t[52].name = Unit("serial", UART.base)
    BY <1>7, Zenon DEF SerialTable, Opens
  <2>3. UART.base \in Nat
    BY SMT DEF UART
  <2>. QED BY <1>4, <1>7, <2>1, <2>2, <2>3, Zenon
<1>8. r = 9 \/ r = 26 \/ r = 38 \/ r = 43 \/ (o.uart /\ r = 52)
  BY <1>1
<1>. QED BY <1>2, <1>3, <1>5, <1>6, <1>7, <1>8, Zenon

\* The devices are the CLINT, the PLIC and the UART, in this order.
LEMMA DeviceWindows ==
    ASSUME NEW t, NEW o, Table(t, o), Rest(t, o), o.uart => SerialTable(t),
           NEW d \in Regs(t), ~Has(t, d, "device_type")
    PROVE  \/ d = 38 /\ Window(Value(t, d, "reg")) = CLINT
           \/ d = 43 /\ Window(Value(t, d, "reg")) = PLIC
           \/ d = 52 /\ Window(Value(t, d, "reg")) = UART
<1>1. d \in {9, 26, 38, 43} \cup (IF o.uart THEN {52} ELSE {})
  <2>. DEFINE S == {9, 26, 38, 43} \cup (IF o.uart THEN {52} ELSE {})
  <2>1. Regs(t) = S
    BY RegValues, Zenon
  <2>. HIDE DEF S
  <2>2. d \in S
    BY <2>1
  <2>. QED BY <2>2 DEF S
<1>2. d # 9 /\ d # 26
  BY CellValues, Zenon
<1>3. ASSUME NEW base, NEW size PROVE Window(<<0, base, 0, size>>) = [base |-> base, size |-> size]
  BY DEF Window
<1>4. /\ CLINT = [base |-> CLINT.base, size |-> CLINT.size]
      /\ PLIC = [base |-> PLIC.base, size |-> PLIC.size]
      /\ UART = [base |-> UART.base, size |-> UART.size]
  BY SMT DEF CLINT, PLIC, UART
<1>5. CASE d = 38
  <2>1. Value(t, 38, "reg") = <<0, CLINT.base, 0, CLINT.size>>
    BY RegValues, Zenon DEF Holds
  <2>. QED BY <1>3, <1>4, <1>5, <2>1, Zenon
<1>6. CASE d = 43
  <2>1. Value(t, 43, "reg") = <<0, PLIC.base, 0, PLIC.size>>
    BY RegValues, Zenon DEF Holds
  <2>. QED BY <1>3, <1>4, <1>6, <2>1, Zenon
<1>7. CASE o.uart /\ d = 52
  <2>1. Value(t, 52, "reg") = <<0, UART.base, 0, UART.size>>
    BY <1>7, RegValues, Zenon DEF Holds
  <2>. QED BY <1>3, <1>4, <1>7, <2>1, Zenon
<1>8. d = 38 \/ d = 43 \/ (o.uart /\ d = 52)
  BY <1>1, <1>2
<1>. QED BY <1>5, <1>6, <1>7, <1>8, Zenon

\* The references of a blob that was handed over agree.
LEMMA Resolved ==
    ASSUME BuildInv
    PROVE  ReferencesResolve
<1>. SUFFICES ASSUME blob # << >> PROVE ReferencesResolve
  BY DEF ReferencesResolve
<1>. DEFINE t == Tree
            o == opt
            controllers == {c \in NodesOf(t) : Has(t, c, "phandle")}
            Cells1(node, what) == Value(t, Parent(t, node), what)[1]
            regs == {Owner(t, i) : i \in PropsNamed(t, "reg")}
            buses == {r \in regs : Cells1(r, "#size-cells") = 2}
            W(r) == Value(t, r, "reg")
            devices == {r \in buses : ~Has(t, r, "device_type")}
<1>1. o \in Options /\ Table(t, o) /\ Rest(t, o) /\ (o.uart => SerialTable(t))
  BY TreeIs, ScriptTable, Zenon
<1>. HIDE DEF t, o
<1>2. \A c, d \in controllers :
          Value(t, c, "phandle") = Value(t, d, "phandle") => c = d
  <2>1. controllers = {18, 43}
    BY <1>1, TableControllers, Zenon
  <2>. HIDE DEF controllers
  <2>. QED BY <1>1, <2>1, PhandlesDiffer, Zenon
<1>3. \A i \in PropsNamed(t, "interrupts-extended") :
          LET v == t[i].value
          IN  /\ Len(v) % 2 = 0
              /\ \A k \in {j \in DOMAIN v : j % 2 = 1} : \E c \in controllers :
                    /\ Value(t, c, "phandle") = <<v[k]>>
                    /\ Value(t, c, "#interrupt-cells") = <<1>>
                    /\ Has(t, c, "interrupt-controller") /\ c # Owner(t, i)
  <2>1. controllers = {18, 43}
    BY <1>1, TableControllers, Zenon
  <2>. HIDE DEF controllers
  <2>. QED BY <1>1, <2>1, InterruptsResolve, Zenon
<1>4. \A r \in regs :
          /\ Len(W(r)) = Cells1(r, "#address-cells") + Cells1(r, "#size-cells")
          /\ \E base \in {"cpu", "memory", "clint", "plic", "serial"} :
                t[r].name = Unit(base, Address(W(r), Cells1(r, "#address-cells")))
  BY <1>1, RegFits, Zenon DEF Regs
<1>5. ASSUME NEW d \in devices
      PROVE  \/ d = 38 /\ Window(W(d)) = CLINT
             \/ d = 43 /\ Window(W(d)) = PLIC
             \/ d = 52 /\ Window(W(d)) = UART
  <2>1. d \in Regs(t) /\ ~Has(t, d, "device_type")
    BY Zenon DEF Regs
  <2>. QED BY <1>1, <2>1, DeviceWindows, Zenon
<1>6. /\ CLINT.base + CLINT.size <= PLIC.base /\ PLIC.base + PLIC.size <= UART.base
      /\ CLINT.base + CLINT.size <= UART.base
      /\ PLIC.base >= CLINT.base /\ UART.base >= CLINT.base /\ CLINT.base >= CLINT.base
  BY SMT DEF CLINT, PLIC, UART
<1>7. \A d, e \in devices : d # e =>
          LET v == Window(W(d))
              w == Window(W(e))
          IN  v.base + v.size <= w.base \/ w.base + w.size <= v.base
  <2>. SUFFICES ASSUME NEW d \in devices, NEW e \in devices, d # e
                PROVE  \/ Window(W(d)).base + Window(W(d)).size <= Window(W(e)).base
                       \/ Window(W(e)).base + Window(W(e)).size <= Window(W(d)).base
    BY Zenon
  <2>1. /\ \/ d = 38 /\ Window(W(d)) = CLINT
           \/ d = 43 /\ Window(W(d)) = PLIC
           \/ d = 52 /\ Window(W(d)) = UART
        /\ \/ e = 38 /\ Window(W(e)) = CLINT
           \/ e = 43 /\ Window(W(e)) = PLIC
           \/ e = 52 /\ Window(W(e)) = UART
    BY <1>5, Zenon
  <2>. DEFINE v == Window(W(d))
              w == Window(W(e))
  <2>2. \/ d = 38 /\ v = CLINT
        \/ d = 43 /\ v = PLIC
        \/ d = 52 /\ v = UART
    BY <2>1, Zenon
  <2>3. \/ e = 38 /\ w = CLINT
        \/ e = 43 /\ w = PLIC
        \/ e = 52 /\ w = UART
    BY <2>1, Zenon
  <2>. HIDE DEF v, w, W, devices
  <2>4. v.base + v.size <= w.base \/ w.base + w.size <= v.base
    <3>1. CASE d = 38 /\ v = CLINT
      <4>1. CASE e = 38 /\ w = CLINT
        BY <3>1, <4>1, Zenon
      <4>2. CASE e = 43 /\ w = PLIC
        BY <1>6, <3>1, <4>2, Zenon
      <4>3. CASE e = 52 /\ w = UART
        BY <1>6, <3>1, <4>3, Zenon
      <4>. QED BY <2>3, <4>1, <4>2, <4>3, Zenon
    <3>2. CASE d = 43 /\ v = PLIC
      <4>1. CASE e = 38 /\ w = CLINT
        BY <1>6, <3>2, <4>1, Zenon
      <4>2. CASE e = 43 /\ w = PLIC
        BY <3>2, <4>2, Zenon
      <4>3. CASE e = 52 /\ w = UART
        BY <1>6, <3>2, <4>3, Zenon
      <4>. QED BY <2>3, <4>1, <4>2, <4>3, Zenon
    <3>3. CASE d = 52 /\ v = UART
      <4>1. CASE e = 38 /\ w = CLINT
        BY <1>6, <3>3, <4>1, Zenon
      <4>2. CASE e = 43 /\ w = PLIC
        BY <1>6, <3>3, <4>2, Zenon
      <4>3. CASE e = 52 /\ w = UART
        BY <3>3, <4>3, Zenon
      <4>. QED BY <2>3, <4>1, <4>2, <4>3, Zenon
    <3>. QED BY <2>2, <3>1, <3>2, <3>3, Zenon
  <2>. QED BY <2>4, Zenon DEF v, w
<1>8. \A d \in devices : Window(W(d)).base >= CLINT.base
  <2>. SUFFICES ASSUME NEW d \in devices PROVE Window(W(d)).base >= CLINT.base
    OBVIOUS
  <2>1. \/ d = 38 /\ Window(W(d)) = CLINT
        \/ d = 43 /\ Window(W(d)) = PLIC
        \/ d = 52 /\ Window(W(d)) = UART
    BY <1>5, Zenon
  <2>. HIDE DEF W, devices
  <2>. QED BY <1>6, <2>1, Zenon
<1>. QED BY <1>2, <1>3, <1>4, <1>7, <1>8, Zenon DEF ReferencesResolve, t

\* What the tree says is consistent: cells, unit addresses, phandles and
\* windows, with the UART and without, for every --ram_size and --phys_start
\* (riscv_build_fdt).
THEOREM ReferencesAgree == BootSpec => []ReferencesResolve
<1>1. BootInv => ReferencesResolve
  BY Resolved DEF BootInv
<1>. QED BY BootAlways, <1>1, PTL
=============================================================================
