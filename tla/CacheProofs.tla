----------------------------- MODULE CacheProofs -----------------------------
(***************************************************************************)
(* Proofs about Cache and CacheSweep, for every number of ways and sets,   *)
(* every set of lines and traces of every length: the linked lists of      *)
(* struct way never lose a node, they are LRU stacks, and a cache with     *)
(* fewer ways keeps a prefix of each stack of a cache with more.           *)
(*                                                                         *)
(* The proofs go from links to lists to stacks.  Linked says that a        *)
(* sequence of nodes is what the next links lead through; ListsBut says    *)
(* which two sequences the lists of a way are.  Each of Fill, Replace and  *)
(* ToFront takes one node out of a sequence and puts one in front of       *)
(* another, and AccessLists is the sum of that.  The walk of the code is   *)
(* a function defined by recursion; that a sequence so linked is what the  *)
(* walk visits (WalkIsList) is by induction on the place, from             *)
(* SetInduction, which rests on the well-foundedness of finite sets.       *)
(***************************************************************************)
EXTENDS CacheSweep, FiniteSetTheorems, TLAPS

\* next leads from head along q and ends there; prev leads back
Linked(nx, head, q) ==
    /\ head = IF q = << >> THEN Null ELSE q[1]
    /\ \A i \in DOMAIN q : nx[q[i]] = IF i = Len(q) THEN Null ELSE q[i + 1]
LinkedBack(pv, q) == \A i \in DOMAIN q : pv[q[i]] = IF i = 1 THEN Null ELSE q[i - 1]
Distinct(q) == \A i, j \in DOMAIN q : q[i] = q[j] => i = j

\* q is the list that starts at head
IsList(w, head, q) ==
    q \in Seq(Nodes(w.ways)) /\ Len(q) <= w.ways /\ Linked(w.next, head, q)

\* Every nonempty set of naturals has a least element.
LEMMA Least ==
  ASSUME NEW T \in SUBSET Nat, T # {}
  PROVE  \E m \in T : \A k \in T : m <= k
<1> DEFINE Below(n) == 0 .. n - 1
           W == {Below(n) : n \in T}
<1>1. W \subseteq FiniteSubsetsOf(Nat)
  <2> SUFFICES ASSUME NEW n \in T PROVE Below(n) \in FiniteSubsetsOf(Nat)
    OBVIOUS
  <2>1. IsFiniteSet(Below(n)) BY FS_Interval
  <2> QED BY <2>1 DEF FiniteSubsetsOf
<1>2. PICK w \in W : \A v \in W : <<v, w>> \notin StrictSubsetOrdering(Nat)
  <2> HIDE DEF W
  <2>1. W # {} BY DEF W
  <2> QED BY <1>1, <2>1, WFMin, FS_StrictSubsetOrderingWellFounded
<1>3. PICK m \in T : w = Below(m)
  OBVIOUS
<1>4. ASSUME NEW k \in T, k < m PROVE FALSE
  <2>1. Below(k) \subseteq Below(m) /\ Below(k) # Below(m)
    <3>1. k \in Below(m) /\ k \notin Below(k) BY <1>4
    <3> QED BY <1>4, <3>1
  <2>2. <<Below(k), Below(m)>> \in StrictSubsetOrdering(Nat)
    <3>1. Below(k) \in SUBSET Nat /\ Below(m) \in SUBSET Nat
      OBVIOUS
    <3> DEFINE pair == <<Below(k), Below(m)>>
    <3>2. pair \in (SUBSET Nat) \X (SUBSET Nat) /\ pair[1] = Below(k) /\ pair[2] = Below(m)
      BY <3>1
    <3> HIDE DEF pair, Below
    <3>3. pair \in StrictSubsetOrdering(Nat)
      BY <2>1, <3>2 DEF StrictSubsetOrdering
    <3> QED BY <3>3 DEF pair
  <2> QED BY <1>2, <1>3, <2>2
<1> QED
  BY <1>4

\* Induction: a set with 0 that is closed under successor is Nat.
LEMMA SetInduction ==
  ASSUME NEW S \in SUBSET Nat, 0 \in S, \A n \in S : n + 1 \in S
  PROVE  S = Nat
<1> SUFFICES ASSUME Nat \ S # {} PROVE FALSE
  OBVIOUS
<1>1. PICK m \in Nat \ S : \A k \in Nat \ S : m <= k
  BY Least
<1>2. m # 0 /\ m - 1 \in S
  BY <1>1
<1> QED BY <1>2

\* The search loop of way::access visits exactly the nodes of the list.
LEMMA WalkIsList ==
  ASSUME NEW w, w.ways \in Nat, NEW head, NEW q, IsList(w, head, q)
  PROVE  Walk(w, head) = q
<1> DEFINE n == w.ways
           Step(g) == [i \in 0 .. n |-> IF i = 0 THEN head
                 ELSE IF g[i - 1] = Null THEN Null ELSE w.next[g[i - 1]]]
           along == [i \in 0 .. n |-> IF i < Len(q) THEN q[i + 1] ELSE Null]
           node == CHOOSE g : g = Step(g)
<1>0. q \in Seq(1 .. n) /\ Len(q) \in Nat /\ Len(q) <= n /\ DOMAIN q = 1 .. Len(q)
  BY DEF IsList, Nodes
<1>f. along = [i \in 0 .. n |-> along[i]]
  OBVIOUS
<1>1. \A i \in 0 .. n : along[i] = IF i < Len(q) THEN q[i + 1] ELSE Null
  OBVIOUS
<1> HIDE DEF along
<1>2. along[0] = head /\ 0 \in 0 .. n
  <2>1. 0 \in 0 .. n /\ along[0] = IF 0 < Len(q) THEN q[1] ELSE Null
    BY <1>1
  <2>2. 0 < Len(q) <=> q # << >>
    BY <1>0
  <2> QED BY <2>1, <2>2 DEF IsList, Linked
<1>3. ASSUME NEW i \in 0 .. n, i # 0
      PROVE  along[i] = IF along[i - 1] = Null THEN Null ELSE w.next[along[i - 1]]
  <2>1. i - 1 \in 0 .. n
    BY <1>3
  <2>2. CASE i - 1 < Len(q)
    <3>1. i \in DOMAIN q /\ along[i - 1] = q[i] /\ q[i] # Null
      <4>1. i \in 1 .. Len(q) /\ (i - 1) + 1 = i
        BY <2>2, <1>0, <1>3
      <4>2. along[i - 1] = q[(i - 1) + 1]
        BY <2>1, <2>2, <1>1
      <4>3. q[i] \in 1 .. n
        BY <4>1, <1>0
      <4> QED BY <4>1, <4>2, <4>3, <1>0 DEF Null
    <3>2. w.next[q[i]] = IF i = Len(q) THEN Null ELSE q[i + 1]
      BY <3>1 DEF IsList, Linked
    <3>3. along[i] = IF i = Len(q) THEN Null ELSE q[i + 1]
      <4>1. i < Len(q) <=> i # Len(q)
        <5>1. Len(q) \in Int /\ i \in Int
          BY <1>0
        <5> HIDE DEF n
        <5> QED BY <5>1, <2>2
      <4> QED BY <4>1, <1>1
    <3> QED BY <3>1, <3>2, <3>3
  <2>3. CASE ~(i - 1 < Len(q))
    BY <2>3, <2>1, <1>0, <1>1, <1>3
  <2> QED BY <2>2, <2>3
<1>4. along = Step(along)
  BY <1>f, <1>2, <1>3
<1>5. node = Step(node)
  <2> HIDE DEF Step
  <2> QED BY <1>4
<1> HIDE DEF node
<1>6. node[0] = head /\ \A i \in 0 .. n : i # 0 =>
        node[i] = IF node[i - 1] = Null THEN Null ELSE w.next[node[i - 1]]
  BY <1>5, <1>2
<1>7. \A i \in 0 .. n : node[i] = along[i]
  <2> HIDE DEF Step
  <2> DEFINE S == {j \in Nat : j <= n => node[j] = along[j]}
  <2>1. 0 \in S
    BY <1>6, <1>2
  <2>2. ASSUME NEW j \in S PROVE j + 1 \in S
    <3>1. CASE j + 1 <= n
      <4>1. j + 1 \in 0 .. n /\ j + 1 # 0 /\ (j + 1) - 1 = j /\ node[j] = along[j]
        BY <3>1
      <4>2. node[j + 1] = IF node[j] = Null THEN Null ELSE w.next[node[j]]
        BY <4>1, <1>6
      <4>3. along[j + 1] = IF along[j] = Null THEN Null ELSE w.next[along[j]]
        BY <4>1, <1>3
      <4> QED BY <4>1, <4>2, <4>3
    <3> QED BY <3>1
  <2>3. S = Nat
    <3> HIDE DEF S
    <3>1. S \in SUBSET Nat BY DEF S
    <3> QED BY <2>1, <2>2, <3>1, SetInduction
  <2> QED BY <2>3
<1>8. {k \in 1 .. n : node[k - 1] # Null} = 1 .. Len(q)
  <2> HIDE DEF Step
  <2>1. ASSUME NEW k \in 1 .. n PROVE node[k - 1] # Null <=> k \in 1 .. Len(q)
    <3>1. k - 1 \in 0 .. n /\ (k - 1) + 1 = k
      OBVIOUS
    <3>2. node[k - 1] = IF k - 1 < Len(q) THEN q[(k - 1) + 1] ELSE Null
      BY <3>1, <1>7, <1>1
    <3>3. k - 1 < Len(q) => q[(k - 1) + 1] # Null
      BY <3>1, <1>0 DEF Null
    <3> QED BY <3>2, <3>3, <1>0
  <2> QED BY <2>1, <1>0
<1>9. Walk(w, head) = [i \in 1 .. Len(q) |-> node[i - 1]]
  BY <1>8 DEF Walk, node
<1>10. [i \in 1 .. Len(q) |-> node[i - 1]] = q
  BY <1>0, <1>1, <1>7
<1> QED BY <1>9, <1>10

\* x in front of q, and q without its place k
Consed(x, q) == [i \in 1 .. Len(q) + 1 |-> IF i = 1 THEN x ELSE q[i - 1]]
Without(q, k) == [i \in 1 .. Len(q) - 1 |-> IF i < k THEN q[i] ELSE q[i + 1]]

\* what is where in them
IsConsed(c, x, q) ==
    /\ Len(c) = Len(q) + 1 /\ DOMAIN c = 1 .. Len(q) + 1 /\ c[1] = x
    /\ \A i \in 2 .. Len(q) + 1 : i - 1 \in DOMAIN q /\ c[i] = q[i - 1]

IsWithout(c, q, k) ==
    /\ Len(c) = Len(q) - 1 /\ DOMAIN c = 1 .. Len(q) - 1
    /\ \A i \in 1 .. Len(q) - 1 :
          /\ i \in DOMAIN q /\ i + 1 \in DOMAIN q
          /\ c[i] = IF i < k THEN q[i] ELSE q[i + 1]

\* A function on 1 .. n is a sequence of length n.
LEMMA FunctionIsSeq ==
  ASSUME NEW S, NEW n \in Nat, NEW q \in [1 .. n -> S]
  PROVE  q \in Seq(S) /\ Len(q) = n /\ DOMAIN q = 1 .. n
  OBVIOUS

\* What is where after x went in front of q.
LEMMA ConsedFacts ==
  ASSUME NEW S, NEW x \in S, NEW q \in Seq(S)
  PROVE  /\ Consed(x, q) \in Seq(S) /\ Len(Consed(x, q)) = Len(q) + 1
         /\ DOMAIN Consed(x, q) = 1 .. Len(q) + 1
         /\ Consed(x, q)[1] = x
         /\ \A i \in 2 .. Len(q) + 1 : i - 1 \in DOMAIN q /\ Consed(x, q)[i] = q[i - 1]
<1> DEFINE c == Consed(x, q)
<1>1. Len(q) + 1 \in Nat /\ DOMAIN q = 1 .. Len(q) /\ \A i \in DOMAIN q : q[i] \in S
  OBVIOUS
<1>2. \A i \in 1 .. Len(q) + 1 : i # 1 => i - 1 \in DOMAIN q
  BY <1>1
<1>3. c \in [1 .. Len(q) + 1 -> S]
  BY <1>1, <1>2 DEF Consed
<1>4. c[1] = x /\ \A i \in 2 .. Len(q) + 1 : c[i] = q[i - 1]
  BY <1>1 DEF Consed
<1> HIDE DEF c
<1>5. c \in Seq(S) /\ Len(c) = Len(q) + 1 /\ DOMAIN c = 1 .. Len(q) + 1
  BY <1>1, <1>3, FunctionIsSeq
<1> QED BY <1>1, <1>2, <1>4, <1>5 DEF c

\* The same, for citing.
LEMMA ConsedIs ==
  ASSUME NEW S, NEW x \in S, NEW q \in Seq(S)
  PROVE  Consed(x, q) \in Seq(S) /\ IsConsed(Consed(x, q), x, q)
<1>1. /\ Consed(x, q) \in Seq(S) /\ Len(Consed(x, q)) = Len(q) + 1
      /\ DOMAIN Consed(x, q) = 1 .. Len(q) + 1
      /\ Consed(x, q)[1] = x
      /\ \A i \in 2 .. Len(q) + 1 : i - 1 \in DOMAIN q /\ Consed(x, q)[i] = q[i - 1]
  BY ConsedFacts
<1> QED BY <1>1 DEF IsConsed

\* What is where after place k left q.
LEMMA WithoutFacts ==
  ASSUME NEW S, NEW q \in Seq(S), NEW k \in DOMAIN q
  PROVE  /\ Without(q, k) \in Seq(S) /\ Len(Without(q, k)) = Len(q) - 1
         /\ DOMAIN Without(q, k) = 1 .. Len(q) - 1
         /\ \A i \in 1 .. Len(q) - 1 :
              /\ i \in DOMAIN q /\ i + 1 \in DOMAIN q
              /\ Without(q, k)[i] = IF i < k THEN q[i] ELSE q[i + 1]
<1> DEFINE c == Without(q, k)
<1>1. Len(q) - 1 \in Nat /\ DOMAIN q = 1 .. Len(q) /\ \A i \in DOMAIN q : q[i] \in S
  OBVIOUS
<1>2. \A i \in 1 .. Len(q) - 1 : i \in DOMAIN q /\ i + 1 \in DOMAIN q
  BY <1>1
<1>3. c \in [1 .. Len(q) - 1 -> S]
  BY <1>1, <1>2 DEF Without
<1>4. \A i \in 1 .. Len(q) - 1 : c[i] = IF i < k THEN q[i] ELSE q[i + 1]
  BY <1>1 DEF Without
<1> HIDE DEF c
<1>5. c \in Seq(S) /\ Len(c) = Len(q) - 1 /\ DOMAIN c = 1 .. Len(q) - 1
  BY <1>1, <1>3, FunctionIsSeq
<1> QED BY <1>2, <1>4, <1>5 DEF c

\* The same, for citing.
LEMMA WithoutIs ==
  ASSUME NEW S, NEW q \in Seq(S), NEW k \in DOMAIN q
  PROVE  Without(q, k) \in Seq(S) /\ IsWithout(Without(q, k), q, k)
<1>1. /\ Without(q, k) \in Seq(S) /\ Len(Without(q, k)) = Len(q) - 1
      /\ DOMAIN Without(q, k) = 1 .. Len(q) - 1
      /\ \A i \in 1 .. Len(q) - 1 :
              /\ i \in DOMAIN q /\ i + 1 \in DOMAIN q
              /\ Without(q, k)[i] = IF i < k THEN q[i] ELSE q[i + 1]
  BY WithoutFacts
<1> QED BY <1>1 DEF IsWithout

\* the links after Push
NextIn(nx, head, x) == [nx EXCEPT ![x] = head]
PrevIn(pv, head, x) ==
    IF head = Null THEN [pv EXCEPT ![x] = Null] ELSE [pv EXCEPT ![x] = Null, ![head] = x]

\* The three assignments of Push put a node in front of a list.
LEMMA PushLinks ==
  ASSUME NEW n \in Nat, NEW q \in Seq(Nodes(n)), NEW x \in Nodes(n),
         NEW nx, DOMAIN nx = Nodes(n), NEW pv, DOMAIN pv = Nodes(n), NEW head,
         Linked(nx, head, q), LinkedBack(pv, q), Distinct(q),
         \A i \in DOMAIN q : q[i] # x,
         NEW nx2, nx2 = NextIn(nx, head, x), NEW pv2, pv2 = PrevIn(pv, head, x)
  PROVE  /\ Linked(nx2, x, Consed(x, q)) /\ LinkedBack(pv2, Consed(x, q))
         /\ Distinct(Consed(x, q))
<1> DEFINE c == Consed(x, q)
<1>1. /\ c \in Seq(Nodes(n)) /\ Len(c) = Len(q) + 1 /\ DOMAIN c = 1 .. Len(q) + 1
      /\ c[1] = x
      /\ \A i \in 2 .. Len(q) + 1 : i - 1 \in DOMAIN q /\ c[i] = q[i - 1]
  BY ConsedFacts
<1> HIDE DEF c
<1>2. DOMAIN q = 1 .. Len(q) /\ Len(q) \in Nat /\ \A i \in DOMAIN q : q[i] \in Nodes(n) /\ q[i] # Null
  BY DEF Nodes, Null
<1>3. q = << >> <=> Len(q) = 0
  OBVIOUS
<1>4. \A y \in Nodes(n) : nx2[y] = IF y = x THEN head ELSE nx[y]
  BY DEF NextIn
<1>5. \A y \in Nodes(n) : pv2[y] = IF y = head /\ y # x THEN x ELSE IF y = x THEN Null ELSE pv[y]
  <2>1. head # Null => head \in Nodes(n) /\ head # x
    BY <1>2, <1>3 DEF Linked
  <2>2. \A y \in Nodes(n) : y # Null
    BY DEF Nodes, Null
  <2> QED BY <2>1, <2>2 DEF PrevIn
<1>6. ASSUME NEW i \in DOMAIN c
      PROVE  nx2[c[i]] = IF i = Len(c) THEN Null ELSE c[i + 1]
  <2>1. CASE i = 1
    <3>1. nx2[c[i]] = head
      BY <2>1, <1>1, <1>4
    <3>2. CASE Len(q) = 0
      BY <3>1, <3>2, <2>1, <1>1, <1>3 DEF Linked
    <3>3. CASE Len(q) # 0
      <4>1. c[2] = q[1] /\ i # Len(c)
        BY <3>3, <1>1, <1>2, <2>1
      <4> QED BY <4>1, <3>1, <3>3, <2>1, <1>3 DEF Linked
    <3> QED BY <3>2, <3>3
  <2>2. CASE i # 1
    <3>1. i \in 2 .. Len(q) + 1 /\ i - 1 \in DOMAIN q /\ c[i] = q[i - 1]
      BY <2>2, <1>1, <1>2
    <3>2. nx2[c[i]] = nx[q[i - 1]]
      BY <3>1, <1>2, <1>4
    <3>3. nx[q[i - 1]] = IF i - 1 = Len(q) THEN Null ELSE q[(i - 1) + 1]
      BY <3>1 DEF Linked
    <3>4. i - 1 = Len(q) <=> i = Len(c)
      BY <3>1, <1>1, <1>2
    <3>5. i # Len(c) => c[i + 1] = q[(i - 1) + 1]
      BY <3>1, <1>1, <1>2
    <3> QED BY <3>2, <3>3, <3>4, <3>5
  <2> QED BY <2>1, <2>2
<1>7. ASSUME NEW i \in DOMAIN c
      PROVE  pv2[c[i]] = IF i = 1 THEN Null ELSE c[i - 1]
  <2>1. CASE i = 1
    BY <2>1, <1>1, <1>5
  <2>2. CASE i # 1
    <3>1. i \in 2 .. Len(q) + 1 /\ i - 1 \in DOMAIN q /\ c[i] = q[i - 1]
      BY <2>2, <1>1, <1>2
    <3>2. CASE i = 2
      <4>1. c[i] = head /\ c[i] # x
        BY <3>1, <3>2, <1>2, <1>3 DEF Linked
      <4> QED BY <4>1, <3>1, <3>2, <1>1, <1>2, <1>5
    <3>3. CASE i # 2
      <4>1. i - 1 \in 2 .. Len(q) + 1 /\ c[i - 1] = q[(i - 1) - 1] /\ i - 1 # 1
        BY <3>1, <3>3, <1>1, <1>2
      <4>2. q[i - 1] # q[1]
        BY <4>1, <3>1, <1>2 DEF Distinct
      <4>3. head = q[1]
        BY <3>1, <1>2, <1>3 DEF Linked
      <4>4. pv2[c[i]] = pv[q[i - 1]]
        BY <4>2, <4>3, <3>1, <1>2, <1>5
      <4>5. pv[q[i - 1]] = q[(i - 1) - 1]
        BY <3>1, <4>1 DEF LinkedBack
      <4> QED BY <4>1, <4>4, <4>5, <2>2
    <3> QED BY <3>2, <3>3
  <2> QED BY <2>1, <2>2
<1>8. Distinct(c)
  <2> SUFFICES ASSUME NEW i \in DOMAIN c, NEW j \in DOMAIN c, c[i] = c[j]
               PROVE  i = j
    BY DEF Distinct
  <2>1. \A k \in DOMAIN c : k # 1 => k - 1 \in DOMAIN q /\ c[k] = q[k - 1] /\ c[k] # x
    BY <1>1, <1>2
  <2>2. CASE i = 1 \/ j = 1
    BY <2>2, <2>1, <1>1
  <2>3. CASE i # 1 /\ j # 1
    <3>1. i - 1 = j - 1
      BY <2>1, <2>3 DEF Distinct
    <3> QED BY <3>1, <1>1
  <2> QED BY <2>2, <2>3
<1>9. Linked(nx2, x, c)
  <2>1. c # << >>
    BY <1>1, <1>2
  <2> QED BY <2>1, <1>1, <1>6 DEF Linked
<1>10. LinkedBack(pv2, c)
  BY <1>7 DEF LinkedBack
<1> QED BY <1>8, <1>9, <1>10 DEF c

\* the links after a node was unlinked
NextOut(nx, pv, x) == [nx EXCEPT ![pv[x]] = nx[x]]
PrevOut(nx, pv, x) == IF nx[x] # Null THEN [pv EXCEPT ![nx[x]] = pv[x]] ELSE pv

\* The two assignments of ToFront take a node below the head out of a list.
LEMMA UnlinkLinks ==
  ASSUME NEW n \in Nat, NEW q \in Seq(Nodes(n)), NEW k \in DOMAIN q, k # 1,
         NEW nx, DOMAIN nx = Nodes(n), NEW pv, DOMAIN pv = Nodes(n), NEW head,
         Linked(nx, head, q), LinkedBack(pv, q), Distinct(q),
         NEW nx2, nx2 = NextOut(nx, pv, q[k]), NEW pv2, pv2 = PrevOut(nx, pv, q[k])
  PROVE  /\ Linked(nx2, head, Without(q, k)) /\ LinkedBack(pv2, Without(q, k))
         /\ Distinct(Without(q, k))
         /\ \A i \in DOMAIN Without(q, k) : Without(q, k)[i] # q[k]
         /\ pv[q[k]] = q[k - 1] /\ k - 1 \in DOMAIN q /\ q[k] # head
         /\ nx[q[k]] = IF k = Len(q) THEN Null ELSE q[k + 1]
<1> DEFINE c == Without(q, k)
<1>1. DOMAIN q = 1 .. Len(q) /\ Len(q) \in Nat /\ \A i \in DOMAIN q : q[i] \in Nodes(n) /\ q[i] # Null
  BY DEF Nodes, Null
<1>2. /\ Len(c) = Len(q) - 1 /\ DOMAIN c = 1 .. Len(q) - 1
      /\ \A i \in 1 .. Len(q) - 1 :
           i \in DOMAIN q /\ i + 1 \in DOMAIN q /\ c[i] = IF i < k THEN q[i] ELSE q[i + 1]
  BY WithoutFacts
<1>3. pv[q[k]] = q[k - 1] /\ k - 1 \in DOMAIN q
  BY <1>1 DEF LinkedBack
<1>4. nx[q[k]] = IF k = Len(q) THEN Null ELSE q[k + 1]
  BY DEF Linked
<1>5. \A i, j \in DOMAIN q : q[i] = q[j] <=> i = j
  BY DEF Distinct
<1> HIDE DEF c
<1>6. \A i \in DOMAIN q : nx2[q[i]] = IF i = k - 1 THEN nx[q[k]] ELSE nx[q[i]]
  BY <1>1, <1>3, <1>5 DEF NextOut
<1>7. \A i \in DOMAIN q : pv2[q[i]] = IF i = k + 1 THEN q[k - 1] ELSE pv[q[i]]
  <2>1. CASE k = Len(q)
    BY <2>1, <1>1, <1>4 DEF PrevOut
  <2>2. CASE k # Len(q)
    <3>1. k + 1 \in DOMAIN q /\ nx[q[k]] = q[k + 1] /\ q[k + 1] # Null /\ q[k + 1] \in Nodes(n)
      BY <2>2, <1>1, <1>4
    <3>2. pv2 = [pv EXCEPT ![q[k + 1]] = q[k - 1]]
      BY <3>1, <1>3 DEF PrevOut
    <3> QED BY <3>1, <3>2, <1>1, <1>5
  <2> QED BY <2>1, <2>2
<1>8. ASSUME NEW i \in DOMAIN c
      PROVE  nx2[c[i]] = IF i = Len(c) THEN Null ELSE c[i + 1]
  <2>0. i \in Nat /\ i \in DOMAIN q /\ i + 1 \in DOMAIN q /\ k \in Nat
    BY <1>1, <1>2
  <2>1. CASE i < k - 1
    <3>1. c[i] = q[i] /\ c[i + 1] = q[i + 1] /\ i # Len(c) /\ i # Len(q)
      BY <2>1, <2>0, <1>1, <1>2
    <3> QED BY <2>1, <2>0, <3>1, <1>6 DEF Linked
  <2>2. CASE i = k - 1
    <3>1. c[i] = q[i] /\ nx2[c[i]] = nx[q[k]]
      BY <2>2, <2>0, <1>2, <1>6
    <3>2. i = Len(c) <=> k = Len(q)
      BY <2>2, <2>0, <1>1, <1>2
    <3>3. i # Len(c) => c[i + 1] = q[k + 1]
      BY <2>2, <2>0, <1>1, <1>2
    <3> QED BY <3>1, <3>2, <3>3, <1>4
  <2>3. CASE i >= k
    <3>1. c[i] = q[i + 1] /\ nx2[c[i]] = nx[q[i + 1]]
      BY <2>3, <2>0, <1>2, <1>6
    <3>2. nx[q[i + 1]] = IF i + 1 = Len(q) THEN Null ELSE q[(i + 1) + 1]
      BY <2>0 DEF Linked
    <3>3. i = Len(c) <=> i + 1 = Len(q)
      BY <2>0, <1>1, <1>2
    <3>4. i # Len(c) => c[i + 1] = q[(i + 1) + 1]
      BY <2>3, <2>0, <1>1, <1>2
    <3> QED BY <3>1, <3>2, <3>3, <3>4
  <2> QED BY <2>0, <2>1, <2>2, <2>3
<1>9. ASSUME NEW i \in DOMAIN c
      PROVE  pv2[c[i]] = IF i = 1 THEN Null ELSE c[i - 1]
  <2>0. i \in Nat /\ i \in DOMAIN q /\ i + 1 \in DOMAIN q /\ k \in Nat /\ k > 1
    BY <1>1, <1>2
  <2>1. CASE i < k
    <3>1. c[i] = q[i] /\ pv2[c[i]] = pv[q[i]]
      BY <2>1, <2>0, <1>2, <1>7
    <3>2. i # 1 => c[i - 1] = q[i - 1]
      BY <2>1, <2>0, <1>1, <1>2
    <3>3. pv[q[i]] = IF i = 1 THEN Null ELSE q[i - 1]
      BY <2>0 DEF LinkedBack
    <3> QED BY <3>1, <3>2, <3>3
  <2>2. CASE i = k
    <3>1. c[i] = q[k + 1] /\ pv2[c[i]] = q[k - 1]
      BY <2>2, <2>0, <1>2, <1>7
    <3>2. c[i - 1] = q[k - 1]
      BY <2>2, <2>0, <1>1, <1>2
    <3> QED BY <3>1, <3>2, <2>0, <2>2
  <2>3. CASE i > k
    <3>1. c[i] = q[i + 1] /\ pv2[c[i]] = pv[q[i + 1]]
      BY <2>3, <2>0, <1>2, <1>7
    <3>2. pv[q[i + 1]] = q[(i + 1) - 1]
      BY <2>0 DEF LinkedBack
    <3>3. c[i - 1] = q[i] /\ i # 1
      BY <2>3, <2>0, <1>1, <1>2
    <3> QED BY <3>1, <3>2, <3>3, <2>0
  <2> QED BY <2>0, <2>1, <2>2, <2>3
<1>10. /\ Distinct(c) /\ \A i \in DOMAIN c : c[i] # q[k]
  <2>1. \A i \in DOMAIN c : /\ i \in Nat /\ i \in DOMAIN q /\ i + 1 \in DOMAIN q /\ k \in Nat
                            /\ c[i] = IF i < k THEN q[i] ELSE q[i + 1]
    BY <1>1, <1>2
  <2>2. \A i \in DOMAIN c : c[i] # q[k]
    BY <2>1, <1>5
  <2>3. ASSUME NEW i \in DOMAIN c, NEW j \in DOMAIN c, c[i] = c[j] PROVE i = j
    BY <2>1, <2>3, <1>5
  <2> QED BY <2>2, <2>3 DEF Distinct
<1>11. Linked(nx2, head, c)
  <2>1. Len(q) >= 2 /\ c # << >> /\ q # << >>
    BY <1>1, <1>2
  <2>2. c[1] = q[1] /\ head = q[1]
    BY <2>1, <1>1, <1>2 DEF Linked
  <2> QED BY <2>1, <2>2, <1>8 DEF Linked
<1>12. LinkedBack(pv2, c)
  BY <1>9 DEF LinkedBack
<1>13. q[k] # head
  <2>1. q # << >> /\ 1 \in DOMAIN q
    BY <1>1
  <2> QED BY <2>1, <1>5 DEF Linked
<1> QED BY <1>3, <1>4, <1>10, <1>11, <1>12, <1>13 DEF c

\* x is a node of q
On(x, q) == \E i \in DOMAIN q : q[i] = x
\* no two nodes of q hold the same line
LinesApart(w, q) == \A i, j \in DOMAIN q : w.addr[q[i]] = w.addr[q[j]] => i = j

\* u is the list in use of w and f its free list; the nodes of X are on neither
ListsBut(n, L, w, u, f, X) ==
    /\ w \in Way(n, L) /\ u \in Seq(Nodes(n)) /\ f \in Seq(Nodes(n))
    /\ Linked(w.next, w.lrulist, u) /\ LinkedBack(w.prev, u) /\ Distinct(u)
    /\ Linked(w.next, w.freelist, f) /\ Distinct(f)
    /\ \A x \in Nodes(n) : x \notin X => On(x, u) \/ On(x, f)
    /\ \A x \in Nodes(n) : ~(On(x, u) /\ On(x, f))
    /\ \A x \in X : ~On(x, u) /\ ~On(x, f)
    /\ LinesApart(w, u)

\* the two lists of a way
Lists(n, L, w, u, f) == ListsBut(n, L, w, u, f, {}) /\ Len(u) + Len(f) = n

\* The fields of a way.
LEMMA WayFields ==
  ASSUME NEW n, NEW L, NEW w \in Way(n, L)
  PROVE  /\ w.ways = n /\ w.next \in [Nodes(n) -> Links(n)] /\ w.prev \in [Nodes(n) -> Links(n)]
         /\ w.addr \in [Nodes(n) -> L] /\ w.freelist \in Links(n) /\ w.lrulist \in Links(n)
  BY DEF Way

\* The fields of a way after Push.
LEMMA PushFields ==
  ASSUME NEW n \in Nat, NEW L, NEW w \in Way(n, L), NEW x \in Nodes(n)
  PROVE  /\ Push(w, x) \in Way(n, L)
         /\ Push(w, x).next = NextIn(w.next, w.lrulist, x)
         /\ Push(w, x).prev = PrevIn(w.prev, w.lrulist, x)
         /\ Push(w, x).addr = w.addr
         /\ Push(w, x).freelist = w.freelist /\ Push(w, x).lrulist = x
<1> DEFINE p == Push(w, x)
           pv == IF w.lrulist = Null THEN [w.prev EXCEPT ![x] = Null]
                 ELSE [w.prev EXCEPT ![x] = Null, ![w.lrulist] = x]
           nx == [w.next EXCEPT ![x] = w.lrulist]
<1>1. /\ w.next \in [Nodes(n) -> Links(n)] /\ w.prev \in [Nodes(n) -> Links(n)]
      /\ w.lrulist \in Links(n) /\ x \in Links(n) /\ Null \in Links(n)
  BY WayFields DEF Links
<1>2. nx \in [Nodes(n) -> Links(n)] /\ pv \in [Nodes(n) -> Links(n)]
  BY <1>1
<1>3. p = [w EXCEPT !.lrulist = x, !.next = nx, !.prev = pv]
  BY DEF Push, Way
<1> HIDE DEF nx, pv, p
<1>4. p \in Way(n, L)
  BY <1>1, <1>2, <1>3 DEF Way
<1>5. p.next = nx /\ p.prev = pv /\ p.addr = w.addr /\ p.freelist = w.freelist /\ p.lrulist = x
  BY <1>3 DEF Way
<1> QED BY <1>4, <1>5 DEF p, nx, pv, NextIn, PrevIn

\* A node on no list is in front of the list in use after Push.
LEMMA PushLists ==
  ASSUME NEW n \in Nat, NEW L, NEW w, NEW u, NEW f, NEW x \in Nodes(n),
         ListsBut(n, L, w, u, f, {x}), \A i \in DOMAIN u : w.addr[u[i]] # w.addr[x]
  PROVE  ListsBut(n, L, Push(w, x), Consed(x, u), f, {})
<1> DEFINE p == Push(w, x)
           c == Consed(x, u)
<1>1. /\ w \in Way(n, L) /\ u \in Seq(Nodes(n)) /\ f \in Seq(Nodes(n))
      /\ Linked(w.next, w.lrulist, u) /\ LinkedBack(w.prev, u) /\ Distinct(u)
      /\ Linked(w.next, w.freelist, f) /\ Distinct(f)
      /\ ~On(x, u) /\ ~On(x, f)
      /\ LinesApart(w, u)
  BY DEF ListsBut
<1>2. /\ p \in Way(n, L)
      /\ p.next = NextIn(w.next, w.lrulist, x)
      /\ p.prev = PrevIn(w.prev, w.lrulist, x)
      /\ p.addr = w.addr
      /\ p.freelist = w.freelist /\ p.lrulist = x
  <2>1. w \in Way(n, L)
    BY <1>1
  <2> QED BY <2>1, PushFields DEF p
<1>3. /\ c \in Seq(Nodes(n)) /\ DOMAIN c = 1 .. Len(u) + 1 /\ c[1] = x
      /\ \A i \in 2 .. Len(u) + 1 : i - 1 \in DOMAIN u /\ c[i] = u[i - 1]
  BY <1>1, ConsedFacts
<1>4. /\ w.next \in [Nodes(n) -> Links(n)] /\ w.prev \in [Nodes(n) -> Links(n)]
  BY <1>1, WayFields
<1>5. DOMAIN u = 1 .. Len(u) /\ Len(u) \in Nat
  BY <1>1
<1> HIDE DEF p, c
<1>6. Linked(p.next, p.lrulist, c) /\ LinkedBack(p.prev, c) /\ Distinct(c)
  <2>1. \A i \in DOMAIN u : u[i] # x
    BY <1>1 DEF On
  <2>2. DOMAIN w.next = Nodes(n) /\ DOMAIN w.prev = Nodes(n)
    BY <1>4
  <2> DEFINE nx == w.next
             pv == w.prev
             nx2 == p.next
             pv2 == p.prev
             head == w.lrulist
  <2>3. Linked(nx, head, u) /\ LinkedBack(pv, u) /\ Distinct(u) /\ u \in Seq(Nodes(n))
    BY <1>1
  <2>4. nx2 = NextIn(nx, head, x)
    BY <1>2
  <2>5. pv2 = PrevIn(pv, head, x)
    BY <1>2
  <2> HIDE DEF nx, pv, nx2, pv2, head
  <2>6. DOMAIN nx = Nodes(n) /\ DOMAIN pv = Nodes(n)
    BY <2>2 DEF nx, pv
  <2>7. Linked(nx2, x, Consed(x, u)) /\ LinkedBack(pv2, Consed(x, u)) /\ Distinct(Consed(x, u))
    BY <2>1, <2>3, <2>4, <2>5, <2>6, PushLinks
  <2> QED BY <2>7, <1>2 DEF c, nx2, pv2
<1>7. Linked(p.next, p.freelist, f)
  <2>1. \A i \in DOMAIN f : f[i] \in Nodes(n) /\ f[i] # x
    BY <1>1 DEF On
  <2>2. \A i \in DOMAIN f : p.next[f[i]] = w.next[f[i]]
    BY <2>1, <1>2, <1>4 DEF NextIn
  <2> QED BY <2>2, <1>1, <1>2 DEF Linked
<1>8. \A y : On(y, c) <=> y = x \/ On(y, u)
  <2>1. ASSUME NEW y, On(y, c) PROVE y = x \/ On(y, u)
    BY <2>1, <1>3, <1>5 DEF On
  <2>2. On(x, c)
    BY <1>3, <1>5 DEF On
  <2>3. ASSUME NEW y, On(y, u) PROVE On(y, c)
    <3>1. PICK i \in DOMAIN u : u[i] = y
      BY <2>3 DEF On
    <3>2. i + 1 \in 2 .. Len(u) + 1 /\ (i + 1) - 1 = i
      BY <1>5
    <3> QED BY <3>1, <3>2, <1>3 DEF On
  <2> QED BY <2>1, <2>2, <2>3
<1>9. LinesApart(p, c)
  <2> SUFFICES ASSUME NEW i \in DOMAIN c, NEW j \in DOMAIN c, w.addr[c[i]] = w.addr[c[j]]
               PROVE  i = j
    BY <1>2 DEF LinesApart
  <2>1. \A k \in DOMAIN c : k # 1 => k - 1 \in DOMAIN u /\ c[k] = u[k - 1] /\ w.addr[c[k]] # w.addr[x]
    BY <1>3, <1>5
  <2>2. CASE i = 1 \/ j = 1
    BY <2>2, <2>1, <1>3
  <2>3. CASE i # 1 /\ j # 1
    <3>1. i - 1 = j - 1
      BY <2>1, <2>3, <1>1 DEF LinesApart
    <3> QED BY <3>1, <1>3, <1>5
  <2> QED BY <2>2, <2>3
<1>10. /\ \A y \in Nodes(n) : On(y, c) \/ On(y, f)
       /\ \A y \in Nodes(n) : ~(On(y, c) /\ On(y, f))
  BY <1>1, <1>8 DEF ListsBut
<1> QED
  BY <1>1, <1>2, <1>3, <1>6, <1>7, <1>9, <1>10 DEF ListsBut, p, c

\* Only the node at place k left.
LEMMA OnWithout ==
  ASSUME NEW S, NEW q \in Seq(S), NEW k \in DOMAIN q, Distinct(q), NEW y
  PROVE  On(y, Without(q, k)) <=> On(y, q) /\ y # q[k]
<1> DEFINE c == Without(q, k)
<1>1. /\ DOMAIN q = 1 .. Len(q) /\ Len(q) \in Nat /\ k \in Nat
      /\ DOMAIN c = 1 .. Len(q) - 1
      /\ \A i \in 1 .. Len(q) - 1 :
           i \in DOMAIN q /\ i + 1 \in DOMAIN q /\ c[i] = IF i < k THEN q[i] ELSE q[i + 1]
  <2>1. IsWithout(c, q, k)
    BY WithoutIs
  <2> HIDE DEF c
  <2> QED BY <2>1 DEF IsWithout
<1> HIDE DEF c
<1>2. ASSUME On(y, c) PROVE On(y, q) /\ y # q[k]
  <2>1. PICK i \in DOMAIN c : c[i] = y
    BY <1>2 DEF On
  <2>2. i \in Nat /\ i \in DOMAIN q /\ i + 1 \in DOMAIN q /\ y = IF i < k THEN q[i] ELSE q[i + 1]
    BY <1>1, <2>1
  <2>3. y = q[k] => IF i < k THEN i = k ELSE i + 1 = k
    BY <2>2 DEF Distinct
  <2> QED BY <1>1, <2>2, <2>3 DEF On
<1>3. ASSUME On(y, q), y # q[k] PROVE On(y, c)
  <2>1. PICK i \in DOMAIN q : q[i] = y
    BY <1>3 DEF On
  <2>2. CASE i < k
    BY <2>1, <2>2, <1>1 DEF On
  <2>3. CASE i > k
    <3>1. i - 1 \in DOMAIN c /\ ~(i - 1 < k) /\ (i - 1) + 1 = i
      BY <2>3, <2>1, <1>1
    <3>2. c[i - 1] = y
      BY <3>1, <2>1, <1>1
    <3> QED BY <3>1, <3>2 DEF On
  <2> QED BY <2>1, <2>2, <2>3, <1>1, <1>3
<1> QED BY <1>2, <1>3 DEF c

\* A node that was unlinked is on no list, and the others are where they were.
LEMMA UnlinkLists ==
  ASSUME NEW n \in Nat, NEW L, NEW w, NEW u, NEW f, Lists(n, L, w, u, f),
         NEW k \in DOMAIN u, k # 1, NEW v \in Way(n, L),
         v.next = NextOut(w.next, w.prev, u[k]),
         v.prev = PrevOut(w.next, w.prev, u[k]),
         v.freelist = w.freelist, v.lrulist = w.lrulist,
         \A y \in Nodes(n) : y # u[k] => v.addr[y] = w.addr[y]
  PROVE  ListsBut(n, L, v, Without(u, k), f, {u[k]})
<1> DEFINE c == Without(u, k)
           nx == w.next
           pv == w.prev
           nx2 == v.next
           pv2 == v.prev
           head == w.lrulist
<1>1. /\ w \in Way(n, L) /\ u \in Seq(Nodes(n)) /\ f \in Seq(Nodes(n))
      /\ Linked(nx, head, u) /\ LinkedBack(pv, u) /\ Distinct(u)
      /\ Linked(nx, w.freelist, f) /\ Distinct(f)
      /\ \A x \in Nodes(n) : On(x, u) \/ On(x, f)
      /\ \A x \in Nodes(n) : ~(On(x, u) /\ On(x, f))
      /\ LinesApart(w, u)
  BY DEF ListsBut, Lists
<1>2. /\ nx \in [Nodes(n) -> Links(n)] /\ pv \in [Nodes(n) -> Links(n)]
  BY <1>1, WayFields
<1>3. nx2 = NextOut(nx, pv, u[k])
  OBVIOUS
<1>4. pv2 = PrevOut(nx, pv, u[k])
  OBVIOUS
<1>5. c \in Seq(Nodes(n)) /\ DOMAIN c = 1 .. Len(u) - 1
      /\ \A i \in 1 .. Len(u) - 1 :
           i \in DOMAIN u /\ i + 1 \in DOMAIN u /\ c[i] = IF i < k THEN u[i] ELSE u[i + 1]
  BY <1>1, WithoutFacts
<1>6. \A y : On(y, c) <=> On(y, u) /\ y # u[k]
  BY <1>1, OnWithout
<1> HIDE DEF nx, pv, nx2, pv2, head
<1>7. /\ Linked(nx2, head, c) /\ LinkedBack(pv2, c) /\ Distinct(c)
      /\ pv[u[k]] = u[k - 1] /\ k - 1 \in DOMAIN u
  <2>1. DOMAIN nx = Nodes(n) /\ DOMAIN pv = Nodes(n)
    BY <1>2
  <2>2. u \in Seq(Nodes(n)) /\ Linked(nx, head, u) /\ LinkedBack(pv, u) /\ Distinct(u)
    BY <1>1
  <2>3. /\ Linked(nx2, head, Without(u, k)) /\ LinkedBack(pv2, Without(u, k)) /\ Distinct(Without(u, k))
        /\ pv[u[k]] = u[k - 1] /\ k - 1 \in DOMAIN u
    BY <1>3, <1>4, <2>1, <2>2, UnlinkLinks
  <2> QED BY <2>3 DEF c
<1> HIDE DEF c
<1>8. Linked(nx2, w.freelist, f)
  <2>1. \A i \in DOMAIN f : f[i] \in Nodes(n) /\ f[i] # u[k - 1]
    BY <1>1, <1>7 DEF On
  <2>2. \A i \in DOMAIN f : nx2[f[i]] = nx[f[i]]
    BY <2>1, <1>2, <1>3, <1>7 DEF NextOut
  <2> QED BY <2>2, <1>1 DEF Linked
<1>9. LinesApart(v, c)
  <2> SUFFICES ASSUME NEW i \in DOMAIN c, NEW j \in DOMAIN c, v.addr[c[i]] = v.addr[c[j]]
               PROVE  i = j
    BY DEF LinesApart
  <2>1. \A h \in DOMAIN c : c[h] \in Nodes(n) /\ c[h] # u[k]
    <3> TAKE h \in DOMAIN c
    <3>1. On(c[h], c)
      BY DEF On
    <3>2. c[h] \in Nodes(n)
      BY <1>5
    <3> QED BY <3>1, <3>2, <1>6
  <2>2. w.addr[c[i]] = w.addr[c[j]]
    BY <2>1
  <2>3. On(c[i], u) /\ On(c[j], u)
    BY <1>6 DEF On
  <2>4. c[i] = c[j]
    BY <2>2, <2>3, <1>1 DEF On, LinesApart
  <2> QED BY <2>4, <1>7 DEF Distinct
<1>10. /\ \A y \in Nodes(n) : y \notin {u[k]} => On(y, c) \/ On(y, f)
       /\ \A y \in Nodes(n) : ~(On(y, c) /\ On(y, f))
       /\ \A y \in {u[k]} : ~On(y, c) /\ ~On(y, f)
  <2>1. On(u[k], u) /\ u[k] \in Nodes(n)
    BY <1>1 DEF On
  <2> QED BY <2>1, <1>1, <1>6
<1>11. Linked(v.next, v.lrulist, c) /\ LinkedBack(v.prev, c) /\ Linked(v.next, v.freelist, f)
  BY <1>7, <1>8 DEF nx2, pv2, head
<1> QED
  BY <1>1, <1>5, <1>7, <1>9, <1>10, <1>11 DEF ListsBut, c

\* the lines of the nodes in u
StackOf(w, u) == [i \in DOMAIN u |-> w.addr[u[i]]]

\* The lists that are walked are the lists.
LEMMA UsedIs ==
  ASSUME NEW n \in Nat, NEW L, NEW w, NEW u, NEW f, Lists(n, L, w, u, f)
  PROVE  /\ Used(w) = u /\ Walk(w, w.freelist) = f /\ Stack(w) = StackOf(w, u)
<1>1. w.ways = n
  BY WayFields DEF Lists, ListsBut
<1>2. Len(u) <= n /\ Len(f) <= n
  BY DEF Lists, ListsBut
<1>3. IsList(w, w.lrulist, u) /\ IsList(w, w.freelist, f)
  BY <1>1, <1>2 DEF IsList, Lists, ListsBut
<1>4. Used(w) = u
  BY <1>1, <1>3, WalkIsList DEF Used
<1>5. Walk(w, w.freelist) = f
  BY <1>1, <1>3, WalkIsList
<1> QED BY <1>4, <1>5 DEF Stack, StackOf

\* st is what Stack(w) is when u is the list in use
IsStack(st, w, u) ==
    /\ Len(st) = Len(u) /\ DOMAIN st = 1 .. Len(u)
    /\ \A i \in 1 .. Len(u) : st[i] = w.addr[u[i]]

\* The lines of a way are those of the nodes in use, each once.
LEMMA StackFacts ==
  ASSUME NEW n \in Nat, NEW L, NEW w, NEW u, NEW f, Lists(n, L, w, u, f)
  PROVE  /\ Stack(w) \in Seq(L) /\ Len(Stack(w)) = Len(u) /\ DOMAIN Stack(w) = 1 .. Len(u)
         /\ DOMAIN u = 1 .. Len(u) /\ Len(u) \in 0 .. n
         /\ \A i \in 1 .. Len(u) : Stack(w)[i] = w.addr[u[i]]
         /\ \A i, j \in 1 .. Len(u) : Stack(w)[i] = Stack(w)[j] => i = j
<1>1. Stack(w) = StackOf(w, u)
  BY UsedIs
<1>2. /\ u \in Seq(Nodes(n)) /\ f \in Seq(Nodes(n)) /\ w \in Way(n, L) /\ LinesApart(w, u)
      /\ Len(u) + Len(f) = n
  BY DEF Lists, ListsBut
<1>3. w.addr \in [Nodes(n) -> L]
  BY <1>2, WayFields
<1>4. DOMAIN u = 1 .. Len(u) /\ Len(u) \in 0 .. n /\ \A i \in DOMAIN u : u[i] \in Nodes(n)
  BY <1>2
<1>5. Stack(w) \in [1 .. Len(u) -> L]
  BY <1>1, <1>3, <1>4 DEF StackOf
<1>6. \A i \in 1 .. Len(u) : Stack(w)[i] = w.addr[u[i]]
  BY <1>1, <1>4 DEF StackOf
<1>7. Stack(w) \in Seq(L) /\ Len(Stack(w)) = Len(u) /\ DOMAIN Stack(w) = 1 .. Len(u)
  BY <1>4, <1>5, FunctionIsSeq
<1> QED BY <1>2, <1>4, <1>6, <1>7 DEF LinesApart

\* The same, for citing.
LEMMA StackIs ==
  ASSUME NEW n \in Nat, NEW L, NEW w, NEW u, NEW f, Lists(n, L, w, u, f)
  PROVE  Stack(w) \in Seq(L) /\ IsStack(Stack(w), w, u)
<1>1. /\ Stack(w) \in Seq(L) /\ Len(Stack(w)) = Len(u) /\ DOMAIN Stack(w) = 1 .. Len(u)
      /\ \A i \in 1 .. Len(u) : Stack(w)[i] = w.addr[u[i]]
  BY StackFacts
<1> QED BY <1>1 DEF IsStack

\* The search finds the node that holds the line, if there is one.
LEMMA FoundIs ==
  ASSUME NEW n \in Nat, NEW L, NEW w, NEW u, NEW f, Lists(n, L, w, u, f), NEW line
  PROVE  /\ (\A i \in DOMAIN u : w.addr[u[i]] # line) => Found(w, line) = Null
         /\ \A k \in DOMAIN u : w.addr[u[k]] = line => Found(w, line) = u[k] /\ u[k] # Null
<1>1. /\ Used(w) = u /\ DOMAIN u = 1 .. Len(u) /\ DOMAIN Stack(w) = 1 .. Len(u)
      /\ \A i \in 1 .. Len(u) : Stack(w)[i] = w.addr[u[i]]
      /\ \A i, j \in 1 .. Len(u) : Stack(w)[i] = Stack(w)[j] => i = j
      /\ Len(u) \in 0 .. n
  BY UsedIs, StackFacts
<1>2. ASSUME \A i \in DOMAIN u : w.addr[u[i]] # line PROVE Found(w, line) = Null
  BY <1>1, <1>2 DEF Found, Holders
<1>3. ASSUME NEW k \in DOMAIN u, w.addr[u[k]] = line PROVE Found(w, line) = u[k] /\ u[k] # Null
  <2>1. Holders(w, line) = {k}
    BY <1>1, <1>3 DEF Holders
  <2>2. Min({k}) = k
    BY <1>1 DEF Min
  <2>3. u[k] \in Nodes(n)
    BY DEF Lists, ListsBut
  <2> QED BY <2>1, <2>2, <2>3, <1>1 DEF Found, Nodes, Null
<1> QED BY <1>2, <1>3

\* A miss while nodes are free moves the first free node to the front.
LEMMA FillLists ==
  ASSUME NEW n \in Nat, NEW L, NEW w, NEW u, NEW f, Lists(n, L, w, u, f),
         NEW line \in L, w.freelist # Null, \A i \in DOMAIN u : w.addr[u[i]] # line
  PROVE  /\ f # << >> /\ f[1] \in Nodes(n) /\ ~On(f[1], u)
         /\ Lists(n, L, Fill(w, line), Consed(f[1], u), Without(f, 1))
         /\ Fill(w, line).addr = [w.addr EXCEPT ![f[1]] = line]
<1> DEFINE x == f[1]
           v == [w EXCEPT !.addr[w.freelist] = line, !.freelist = w.next[w.freelist]]
           g == Without(f, 1)
<1>1. /\ w \in Way(n, L) /\ u \in Seq(Nodes(n)) /\ f \in Seq(Nodes(n))
      /\ Linked(w.next, w.lrulist, u) /\ LinkedBack(w.prev, u) /\ Distinct(u)
      /\ Linked(w.next, w.freelist, f) /\ Distinct(f)
      /\ \A y \in Nodes(n) : On(y, u) \/ On(y, f)
      /\ \A y \in Nodes(n) : ~(On(y, u) /\ On(y, f))
      /\ LinesApart(w, u)
      /\ Len(u) + Len(f) = n
  BY DEF Lists, ListsBut
<1>2. /\ w.next \in [Nodes(n) -> Links(n)] /\ w.prev \in [Nodes(n) -> Links(n)]
      /\ w.addr \in [Nodes(n) -> L]
  BY <1>1, WayFields
<1>3. f # << >> /\ w.freelist = x /\ 1 \in DOMAIN f /\ x \in Nodes(n) /\ On(x, f) /\ ~On(x, u)
  <2>1. f # << >> /\ w.freelist = x
    BY <1>1 DEF Linked
  <2>2. 1 \in DOMAIN f /\ x \in Nodes(n)
    BY <1>1, <2>1
  <2>3. On(x, f)
    BY <2>2 DEF On
  <2> QED BY <2>1, <2>2, <2>3, <1>1
<1>4. /\ v \in Way(n, L) /\ v.next = w.next /\ v.prev = w.prev
      /\ v.addr = [w.addr EXCEPT ![x] = line] /\ v.freelist = w.next[x] /\ v.lrulist = w.lrulist
  <2> DEFINE a == [w.addr EXCEPT ![x] = line]
             h == w.next[x]
  <2>1. a \in [Nodes(n) -> L] /\ h \in Links(n)
    BY <1>2, <1>3
  <2>2. v = [w EXCEPT !.addr = a, !.freelist = h]
    BY <1>1, <1>3 DEF Way
  <2> HIDE DEF a, h, v
  <2>3. v \in Way(n, L)
    BY <1>1, <2>1, <2>2 DEF Way
  <2>4. v.next = w.next /\ v.prev = w.prev /\ v.addr = a /\ v.freelist = h /\ v.lrulist = w.lrulist
    BY <1>1, <2>2 DEF Way
  <2> QED BY <2>3, <2>4 DEF a, h
<1>5. /\ g \in Seq(Nodes(n)) /\ Len(g) = Len(f) - 1 /\ DOMAIN g = 1 .. Len(f) - 1
      /\ \A i \in 1 .. Len(f) - 1 : i \in DOMAIN f /\ i + 1 \in DOMAIN f /\ g[i] = f[i + 1]
  <2>1. /\ g \in Seq(Nodes(n)) /\ Len(g) = Len(f) - 1 /\ DOMAIN g = 1 .. Len(f) - 1
        /\ \A i \in 1 .. Len(f) - 1 : i \in DOMAIN f /\ i + 1 \in DOMAIN f
                /\ g[i] = IF i < 1 THEN f[i] ELSE f[i + 1]
    BY <1>1, <1>3, WithoutFacts
  <2> HIDE DEF g
  <2> QED BY <2>1
<1>6. \A y : On(y, g) <=> On(y, f) /\ y # x
  BY <1>1, <1>3, OnWithout
<1> HIDE DEF v, g, x
<1>7. Distinct(g)
  <2>1. ASSUME NEW i \in DOMAIN g, NEW j \in DOMAIN g, g[i] = g[j] PROVE i = j
    <3>1. i + 1 \in DOMAIN f /\ j + 1 \in DOMAIN f /\ f[i + 1] = f[j + 1]
      BY <2>1, <1>5
    <3>2. i + 1 = j + 1
      BY <3>1, <1>1 DEF Distinct
    <3> QED BY <3>2, <1>5, <1>1
  <2> QED BY <2>1 DEF Distinct
<1>8. Linked(v.next, v.freelist, g)
  <2>0. Len(f) \in Nat /\ Len(f) >= 1 /\ DOMAIN f = 1 .. Len(f)
    BY <1>1, <1>3
  <2>1. w.next[x] = IF 1 = Len(f) THEN Null ELSE f[1 + 1]
    BY <1>1, <1>3 DEF Linked, x
  <2>2. w.next[x] = IF g = << >> THEN Null ELSE g[1]
    <3>1. g = << >> <=> Len(f) = 1
      BY <1>5, <2>0
    <3>2. Len(f) # 1 => g[1] = f[1 + 1]
      BY <1>5, <2>0
    <3> QED BY <2>1, <3>1, <3>2
  <2>3. ASSUME NEW i \in DOMAIN g PROVE w.next[g[i]] = IF i = Len(g) THEN Null ELSE g[i + 1]
    <3>1. i \in Nat /\ i + 1 \in DOMAIN f /\ g[i] = f[i + 1]
      BY <1>5, <2>0
    <3>2. w.next[f[i + 1]] = IF i + 1 = Len(f) THEN Null ELSE f[(i + 1) + 1]
      BY <1>1, <3>1 DEF Linked
    <3>3. i = Len(g) <=> i + 1 = Len(f)
      BY <1>5, <2>0, <3>1
    <3>4. i # Len(g) => g[i + 1] = f[(i + 1) + 1]
      BY <1>5, <2>0, <3>1
    <3> QED BY <3>1, <3>2, <3>3, <3>4
  <2> QED BY <1>4, <2>2, <2>3 DEF Linked
<1>9. LinesApart(v, u) /\ \A i \in DOMAIN u : v.addr[u[i]] # v.addr[x]
  <2>1. \A i \in DOMAIN u : u[i] \in Nodes(n) /\ u[i] # x
    BY <1>1, <1>3 DEF On
  <2>2. \A i \in DOMAIN u : v.addr[u[i]] = w.addr[u[i]]
    BY <2>1, <1>2, <1>4
  <2>3. v.addr[x] = line
    BY <1>2, <1>3, <1>4
  <2> QED BY <2>2, <2>3, <1>1 DEF LinesApart
<1>10. ListsBut(n, L, v, u, g, {x})
  <2>1. /\ \A y \in Nodes(n) : y \notin {x} => On(y, u) \/ On(y, g)
        /\ \A y \in Nodes(n) : ~(On(y, u) /\ On(y, g))
        /\ \A y \in {x} : ~On(y, u) /\ ~On(y, g)
    BY <1>1, <1>3, <1>6
  <2>2. Linked(v.next, v.lrulist, u) /\ LinkedBack(v.prev, u)
    BY <1>1, <1>4
  <2> QED BY <2>1, <2>2, <1>1, <1>4, <1>5, <1>7, <1>8, <1>9 DEF ListsBut
<1>11. ListsBut(n, L, Push(v, x), Consed(x, u), g, {})
  BY <1>3, <1>9, <1>10, PushLists
<1>12. Fill(w, line) = Push(v, x)
  <2>1. Fill(w, line) = Push(v, w.freelist)
    BY Zenon DEF Fill, v
  <2> QED BY <2>1, <1>3
<1>13. Push(v, x).addr = v.addr
  BY <1>3, <1>4, PushFields
<1>14. Len(Consed(x, u)) + Len(g) = n
  <2>1. Len(Consed(x, u)) = Len(u) + 1
    BY <1>1, <1>3, ConsedFacts
  <2> QED BY <2>1, <1>1, <1>5
<1> QED
  BY <1>3, <1>4, <1>11, <1>12, <1>13, <1>14 DEF Lists, x, g

\* A miss in a full set moves the last node to the front.
LEMMA ReplaceLists ==
  ASSUME NEW n \in Nat, n > 1, NEW L, NEW w, NEW u, NEW f, Lists(n, L, w, u, f),
         NEW line \in L, w.freelist = Null, \A i \in DOMAIN u : w.addr[u[i]] # line
  PROVE  /\ f = << >> /\ n \in DOMAIN u /\ Len(u) = n
         /\ Lists(n, L, Replace(w, line), Consed(u[n], Without(u, n)), f)
         /\ Replace(w, line).addr = [w.addr EXCEPT ![u[n]] = line]
<1> DEFINE x == u[n]
           v == [w EXCEPT !.addr[x] = line, !.next[w.prev[x]] = Null]
           c == Without(u, n)
<1>1. /\ w \in Way(n, L) /\ u \in Seq(Nodes(n)) /\ f \in Seq(Nodes(n))
      /\ Linked(w.next, w.lrulist, u) /\ LinkedBack(w.prev, u) /\ Distinct(u)
      /\ Linked(w.next, w.freelist, f) /\ Distinct(f)
      /\ \A y \in Nodes(n) : On(y, u) \/ On(y, f)
      /\ LinesApart(w, u)
      /\ Len(u) + Len(f) = n
  BY DEF Lists, ListsBut
<1>2. /\ w.next \in [Nodes(n) -> Links(n)] /\ w.prev \in [Nodes(n) -> Links(n)]
      /\ w.addr \in [Nodes(n) -> L]
  BY <1>1, WayFields
<1>3. f = << >>
  <2> SUFFICES ASSUME f # << >> PROVE FALSE
    OBVIOUS
  <2>1. f[1] \in Nodes(n) /\ f[1] = Null
    BY <1>1 DEF Linked
  <2> QED BY <2>1 DEF Nodes, Null
<1>4. Len(u) = n /\ DOMAIN u = 1 .. n /\ n \in DOMAIN u /\ n # 1 /\ x \in Nodes(n) /\ n - 1 \in DOMAIN u
      /\ u[n - 1] \in Nodes(n) /\ u[n - 1] # Null
  <2>1. Len(u) = n
    BY <1>1, <1>3
  <2>2. DOMAIN u = 1 .. n /\ n \in DOMAIN u /\ n - 1 \in DOMAIN u
    BY <1>1, <2>1
  <2> QED BY <1>1, <2>1, <2>2 DEF Nodes, Null
<1>5. w.next[x] = Null /\ w.prev[x] = u[n - 1]
  BY <1>1, <1>4 DEF Linked, LinkedBack
<1>6. Replace(w, line) = Push(v, x)
  <2>1. LastUsed(w) = x
    <3>1. Used(w) = u
      BY UsedIs
    <3> QED BY <3>1, <1>4 DEF LastUsed
  <2>2. Replace(w, line) =
          Push([w EXCEPT !.addr[LastUsed(w)] = line, !.next[w.prev[LastUsed(w)]] = Null], LastUsed(w))
    BY Zenon DEF Replace
  <2> QED BY <2>1, <2>2
<1>7. /\ v \in Way(n, L) /\ v.next = NextOut(w.next, w.prev, x)
      /\ v.prev = PrevOut(w.next, w.prev, x)
      /\ v.addr = [w.addr EXCEPT ![x] = line] /\ v.freelist = w.freelist /\ v.lrulist = w.lrulist
  <2> DEFINE a == [w.addr EXCEPT ![x] = line]
             h == [w.next EXCEPT ![w.prev[x]] = Null]
  <2>1. a \in [Nodes(n) -> L] /\ h \in [Nodes(n) -> Links(n)]
    BY <1>2, <1>4, <1>5 DEF Links
  <2>2. v = [w EXCEPT !.addr = a, !.next = h]
    BY <1>1, <1>4 DEF Way
  <2>3. h = NextOut(w.next, w.prev, x) /\ w.prev = PrevOut(w.next, w.prev, x)
    BY <1>5 DEF NextOut, PrevOut
  <2> HIDE DEF a, h, v
  <2>4. v \in Way(n, L)
    BY <1>1, <2>1, <2>2 DEF Way
  <2>5. v.next = h /\ v.prev = w.prev /\ v.addr = a /\ v.freelist = w.freelist /\ v.lrulist = w.lrulist
    BY <1>1, <2>2 DEF Way
  <2> QED BY <2>3, <2>4, <2>5 DEF a
<1> HIDE DEF v
<1>8. \A y \in Nodes(n) : v.addr[y] = IF y = x THEN line ELSE w.addr[y]
  BY <1>2, <1>4, <1>7
<1>9. ListsBut(n, L, v, c, f, {x})
  <2>1. \A y \in Nodes(n) : y # x => v.addr[y] = w.addr[y]
    BY <1>8
  <2>2. v \in Way(n, L) /\ v.freelist = w.freelist /\ v.lrulist = w.lrulist
    BY <1>7
  <2>3. v.next = NextOut(w.next, w.prev, u[n]) /\ v.prev = PrevOut(w.next, w.prev, u[n])
    BY <1>7
  <2> HIDE DEF x
  <2>4. \A y \in Nodes(n) : y # u[n] => v.addr[y] = w.addr[y]
    BY <2>1 DEF x
  <2>5. ListsBut(n, L, v, Without(u, n), f, {u[n]})
    BY <1>4, <2>2, <2>3, <2>4, UnlinkLists
  <2> QED BY <2>5 DEF x
<1>10. \A i \in DOMAIN c : v.addr[c[i]] # v.addr[x]
  <2>1. \A y : On(y, c) => On(y, u) /\ y # x
    BY <1>1, <1>4, OnWithout
  <2> HIDE DEF c
  <2> TAKE i \in DOMAIN c
  <2>2. On(c[i], c)
    BY DEF On
  <2>3. On(c[i], u) /\ c[i] # x
    BY <2>1, <2>2
  <2>4. PICK j \in DOMAIN u : u[j] = c[i]
    BY <2>3 DEF On
  <2>5. c[i] \in Nodes(n) /\ w.addr[c[i]] # line
    BY <2>4, <1>1
  <2> QED BY <2>3, <2>5, <1>8, <1>4
<1>11. Push(v, x).addr = v.addr
  BY <1>4, <1>7, PushFields
<1>12. Len(Consed(x, c)) + Len(f) = n
  <2>1. c \in Seq(Nodes(n)) /\ Len(c) = n - 1
    BY <1>1, <1>4, WithoutFacts
  <2> HIDE DEF c
  <2>2. Len(Consed(x, c)) = Len(c) + 1
    BY <1>4, <2>1, ConsedFacts
  <2> QED BY <2>1, <2>2, <1>3
<1> HIDE DEF x, c
<1>13. ListsBut(n, L, Push(v, x), Consed(x, c), f, {})
  BY <1>4, <1>9, <1>10, PushLists
<1> QED
  BY <1>3, <1>4, <1>6, <1>7, <1>11, <1>12, <1>13 DEF Lists, x, c

\* A hit below the head moves the node that was hit to the front.
LEMMA ToFrontLists ==
  ASSUME NEW n \in Nat, NEW L, NEW w, NEW u, NEW f, Lists(n, L, w, u, f),
         NEW k \in DOMAIN u, k # 1
  PROVE  /\ u[k] # w.lrulist
         /\ Lists(n, L, ToFront(w, u[k]), Consed(u[k], Without(u, k)), f)
         /\ ToFront(w, u[k]).addr = w.addr
<1> DEFINE x == u[k]
           nx == w.next[x]
           pv == w.prev[x]
           v == [w EXCEPT
                !.prev = IF nx # Null THEN [@ EXCEPT ![nx] = pv] ELSE @,
                !.next = IF pv # Null THEN [@ EXCEPT ![pv] = nx] ELSE @]
           c == Without(u, k)
<1>1. /\ w \in Way(n, L) /\ u \in Seq(Nodes(n)) /\ f \in Seq(Nodes(n))
      /\ Linked(w.next, w.lrulist, u) /\ LinkedBack(w.prev, u) /\ Distinct(u)
      /\ LinesApart(w, u)
      /\ Len(u) + Len(f) = n
  BY DEF Lists, ListsBut
<1>2. /\ w.next \in [Nodes(n) -> Links(n)] /\ w.prev \in [Nodes(n) -> Links(n)]
      /\ w.addr \in [Nodes(n) -> L]
  BY <1>1, WayFields
<1>3. x \in Nodes(n) /\ x # w.lrulist /\ pv = u[k - 1] /\ pv \in Nodes(n) /\ pv # Null /\ nx \in Links(n)
  <2>1. k - 1 \in DOMAIN u /\ 1 \in DOMAIN u /\ u # << >>
    BY <1>1
  <2>2. x \in Nodes(n) /\ x # w.lrulist
    BY <1>1, <2>1 DEF Linked, Distinct
  <2>3. pv = u[k - 1]
    BY <1>1 DEF LinkedBack
  <2> QED BY <2>1, <2>2, <2>3, <1>1, <1>2 DEF Nodes, Null
<1>4. ToFront(w, x) = Push(v, x)
  BY Zenon DEF ToFront
<1>7. /\ v \in Way(n, L) /\ v.next = NextOut(w.next, w.prev, x)
      /\ v.prev = PrevOut(w.next, w.prev, x)
      /\ v.addr = w.addr /\ v.freelist = w.freelist /\ v.lrulist = w.lrulist
  <2> DEFINE a == PrevOut(w.next, w.prev, x)
             h == NextOut(w.next, w.prev, x)
  <2>1. a \in [Nodes(n) -> Links(n)] /\ h \in [Nodes(n) -> Links(n)]
    BY <1>2, <1>3 DEF NextOut, PrevOut, Links
  <2>2. v = [w EXCEPT !.prev = a, !.next = h]
    BY <1>1, <1>3 DEF Way, NextOut, PrevOut
  <2> HIDE DEF a, h, v
  <2>4. v \in Way(n, L)
    BY <1>1, <2>1, <2>2 DEF Way
  <2>5. v.next = h /\ v.prev = a /\ v.addr = w.addr /\ v.freelist = w.freelist /\ v.lrulist = w.lrulist
    BY <1>1, <2>2 DEF Way
  <2> QED BY <2>4, <2>5 DEF a, h
<1> HIDE DEF v
<1>9. ListsBut(n, L, v, c, f, {x})
  <2>2. /\ v \in Way(n, L) /\ v.freelist = w.freelist /\ v.lrulist = w.lrulist
        /\ v.next = NextOut(w.next, w.prev, u[k]) /\ v.prev = PrevOut(w.next, w.prev, u[k])
        /\ v.addr = w.addr
    BY <1>7
  <2>4. \A y \in Nodes(n) : y # u[k] => v.addr[y] = w.addr[y]
    BY <2>2
  <2> QED BY <2>2, <2>4, UnlinkLists
<1>10. \A i \in DOMAIN c : v.addr[c[i]] # v.addr[x]
  <2>1. \A y : On(y, c) => On(y, u) /\ y # x
    BY <1>1, OnWithout
  <2> HIDE DEF c
  <2> TAKE i \in DOMAIN c
  <2>2. On(c[i], c)
    BY DEF On
  <2>3. On(c[i], u) /\ c[i] # x
    BY <2>1, <2>2
  <2>4. PICK j \in DOMAIN u : u[j] = c[i]
    BY <2>3 DEF On
  <2>5. j # k
    BY <2>3, <2>4
  <2>6. w.addr[u[j]] # w.addr[u[k]]
    BY <2>5, <1>1 DEF LinesApart
  <2> QED BY <2>4, <2>6, <1>7
<1>11. Push(v, x).addr = v.addr
  BY <1>3, <1>7, PushFields
<1>12. Len(Consed(x, c)) + Len(f) = n
  <2>1. c \in Seq(Nodes(n)) /\ Len(c) = Len(u) - 1
    BY <1>1, WithoutFacts
  <2> HIDE DEF c
  <2>2. Len(Consed(x, c)) = Len(c) + 1
    BY <1>3, <2>1, ConsedFacts
  <2> QED BY <2>1, <2>2, <1>1
<1> HIDE DEF x, c
<1>13. ListsBut(n, L, Push(v, x), Consed(x, c), f, {})
  BY <1>3, <1>9, <1>10, PushLists
<1> QED
  BY <1>3, <1>4, <1>7, <1>11, <1>12, <1>13 DEF Lists, x, c

\* A new way has all its nodes on the free list.
LEMMA NewWayLists ==
  ASSUME NEW n \in Nat, n > 1, NEW L, 0 \in L
  PROVE  Lists(n, L, NewWay(n), << >>, [i \in 1 .. n |-> i])
<1> DEFINE w == NewWay(n)
           f == [i \in 1 .. n |-> i]
<1>1. f \in Seq(Nodes(n)) /\ Len(f) = n /\ DOMAIN f = 1 .. n
  <2>1. f \in [1 .. n -> Nodes(n)]
    BY DEF Nodes
  <2> HIDE DEF f
  <2> QED BY <2>1, FunctionIsSeq
<1>2. /\ w \in Way(n, L) /\ w.lrulist = Null /\ w.freelist = 1
      /\ w.next = [y \in Nodes(n) |-> IF y < n THEN y + 1 ELSE Null]
  BY DEF NewWay, Way, Nodes, Links, Null
<1>3. \A i \in 1 .. n : f[i] = i
  OBVIOUS
<1> HIDE DEF w, f
<1>4. Linked(w.next, w.freelist, f)
  <2>1. f # << >> /\ f[1] = 1
    BY <1>1, <1>3
  <2>2. \A i \in 1 .. n : w.next[i] = IF i = n THEN Null ELSE i + 1
    BY <1>2 DEF Nodes
  <2>3. \A i \in 1 .. n : i # n => f[i + 1] = i + 1
    BY <1>3
  <2> QED BY <1>1, <1>2, <1>3, <2>1, <2>2, <2>3 DEF Linked
<1>5. \A y \in Nodes(n) : On(y, f) /\ ~On(y, << >>)
  BY <1>1, <1>3 DEF On, Nodes
<1>6. Distinct(f)
  BY <1>1, <1>3 DEF Distinct
<1>7. << >> \in Seq(Nodes(n)) /\ Len(<< >>) = 0 /\ DOMAIN << >> = {}
  OBVIOUS
<1>8. /\ Linked(w.next, w.lrulist, << >>) /\ LinkedBack(w.prev, << >>) /\ Distinct(<< >>)
      /\ LinesApart(w, << >>)
  BY <1>2, <1>7 DEF Linked, LinkedBack, Distinct, LinesApart
<1> QED
  BY <1>1, <1>2, <1>4, <1>5, <1>6, <1>7, <1>8 DEF Lists, ListsBut, w, f

\* What identifies the abstract stack after an access.
LEMMA TouchedIs ==
  ASSUME NEW n \in Nat, n > 1, NEW S, NEW st \in Seq(S), NEW line,
         NEW m \in Nat, m = Stacks!Moved(n, st, line), NEW S2, NEW st2 \in Seq(S2),
         Len(st2) = IF m = Len(st) THEN Len(st) + 1 ELSE Len(st),
         \A i \in 1 .. Len(st2) :
            st2[i] = IF i = 1 THEN line ELSE IF i <= m + 1 THEN st[i - 1] ELSE st[i]
  PROVE  st2 = Stacks!Touched(n, st, line)
<1> DEFINE T == [i \in 1 .. (IF m = Len(st) THEN Len(st) + 1 ELSE Len(st)) |->
            IF i = 1 THEN line ELSE IF i <= m + 1 THEN st[i - 1] ELSE st[i]]
<1>1. Stacks!Touched(n, st, line) = T
  BY DEF Stacks!Touched
<1>2. st2 = [i \in 1 .. Len(st2) |-> st2[i]]
  OBVIOUS
<1>3. st2 = T
  BY <1>2
<1> QED BY <1>1, <1>3

\* How many lines move back, on a miss and on a hit.
LEMMA MovedIs ==
  ASSUME NEW n \in Nat, n > 1, NEW S, NEW st \in Seq(S), NEW line, Len(st) <= n
  PROVE  /\ (\A i \in DOMAIN st : st[i] # line) =>
                /\ Stacks!At(st, line) = {}
                /\ Stacks!Moved(n, st, line) = IF Len(st) < n THEN Len(st) ELSE n - 1
         /\ \A k \in DOMAIN st :
                (\A i \in DOMAIN st : st[i] = line <=> i = k) =>
                    Stacks!At(st, line) = {k} /\ Stacks!Moved(n, st, line) = k - 1
<1>1. ASSUME \A i \in DOMAIN st : st[i] # line
      PROVE  /\ Stacks!At(st, line) = {}
             /\ Stacks!Moved(n, st, line) = IF Len(st) < n THEN Len(st) ELSE n - 1
  BY <1>1 DEF Stacks!At, Stacks!Moved
<1>2. ASSUME NEW k \in DOMAIN st, \A i \in DOMAIN st : st[i] = line <=> i = k
      PROVE  Stacks!At(st, line) = {k} /\ Stacks!Moved(n, st, line) = k - 1
  <2>1. Stacks!At(st, line) = {k}
    BY <1>2 DEF Stacks!At
  <2>2. (CHOOSE i \in {k} : TRUE) = k
    OBVIOUS
  <2> QED BY <2>1, <2>2 DEF Stacks!Moved
<1> QED BY <1>1, <1>2

\* way::access keeps the lists, whatever they are, and does to their lines what
\* the abstract stack does; it reports a hit iff the line is there, and mru iff
\* it is first.
LEMMA AccessLists ==
  ASSUME NEW n \in Nat, n > 1, NEW L, NEW w, NEW u, NEW f, Lists(n, L, w, u, f), NEW line \in L
  PROVE  /\ \E u2, f2 : Lists(n, L, access(w, line), u2, f2)
         /\ Stack(access(w, line)) = Stacks!Touched(n, Stack(w), line)
         /\ IsHit(w, line) <=> Stacks!At(Stack(w), line) # {}
         /\ IsMru(w, line) <=> 1 \in Stacks!At(Stack(w), line)
<1> DEFINE st == Stack(w)
<1>1. /\ w \in Way(n, L) /\ u \in Seq(Nodes(n)) /\ f \in Seq(Nodes(n))
      /\ Linked(w.next, w.lrulist, u) /\ Linked(w.next, w.freelist, f) /\ Distinct(u)
      /\ Len(u) + Len(f) = n
  BY DEF Lists, ListsBut
<1>2. /\ st \in Seq(L) /\ Len(st) = Len(u) /\ DOMAIN st = 1 .. Len(u)
      /\ DOMAIN u = 1 .. Len(u) /\ Len(u) \in 0 .. n
      /\ \A i \in 1 .. Len(u) : st[i] = w.addr[u[i]] /\ u[i] \in Nodes(n)
      /\ \A i, j \in 1 .. Len(u) : st[i] = st[j] => i = j
  BY <1>1, StackFacts
<1>3. w.addr \in [Nodes(n) -> L]
  BY <1>1, WayFields
<1> HIDE DEF st
<1>4. ASSUME \A i \in DOMAIN u : w.addr[u[i]] # line, w.freelist # Null
      PROVE  /\ \E u2, f2 : Lists(n, L, Fill(w, line), u2, f2)
             /\ Stack(Fill(w, line)) = Stacks!Touched(n, st, line)
  <2> DEFINE v == Fill(w, line)
             c == Consed(f[1], u)
             st2 == Stack(v)
  <2>1. /\ f # << >> /\ f[1] \in Nodes(n) /\ ~On(f[1], u)
        /\ Lists(n, L, v, c, Without(f, 1)) /\ v.addr = [w.addr EXCEPT ![f[1]] = line]
    BY <1>4, FillLists
  <2>2. /\ c \in Seq(Nodes(n)) /\ Len(c) = Len(u) + 1 /\ c[1] = f[1]
        /\ \A i \in 2 .. Len(u) + 1 : i - 1 \in DOMAIN u /\ c[i] = u[i - 1]
    <3>1. u \in Seq(Nodes(n)) /\ f[1] \in Nodes(n)
      BY <1>1, <2>1
    <3>2. c \in Seq(Nodes(n)) /\ IsConsed(c, f[1], u)
      BY <3>1, ConsedIs
    <3> HIDE DEF c
    <3> QED BY <3>2 DEF IsConsed
  <2>a. Lists(n, L, v, c, Without(f, 1)) /\ v.addr = [w.addr EXCEPT ![f[1]] = line]
    BY <2>1
  <2> HIDE DEF c, v
  <2>3. /\ st2 \in Seq(L) /\ Len(st2) = Len(u) + 1
        /\ \A i \in 1 .. Len(u) + 1 : st2[i] = v.addr[c[i]]
    <3>1. st2 \in Seq(L) /\ Len(st2) = Len(c) /\ \A i \in 1 .. Len(c) : st2[i] = v.addr[c[i]]
      <4>1. st2 \in Seq(L) /\ IsStack(st2, v, c)
        BY <2>a, StackIs
      <4> HIDE DEF st2
      <4> QED BY <4>1 DEF IsStack
    <3> QED BY <3>1, <2>2
  <2>4. Stacks!Moved(n, st, line) = Len(st)
    <3>1. Len(st) < n
      BY <1>1, <1>2, <2>1
    <3>2. \A i \in DOMAIN st : st[i] # line
      BY <1>2, <1>4
    <3> QED BY <1>2, <3>1, <3>2, MovedIs
  <2>5. \A i \in 1 .. Len(st2) :
            st2[i] = IF i = 1 THEN line ELSE IF i <= Len(st) + 1 THEN st[i - 1] ELSE st[i]
    <3> TAKE i \in 1 .. Len(st2)
    <3>1. CASE i = 1
      BY <3>1, <1>3, <2>1, <2>2, <2>3
    <3>2. CASE i # 1
      <4>1. i \in 2 .. Len(u) + 1 /\ i - 1 \in 1 .. Len(u) /\ c[i] = u[i - 1] /\ i <= Len(st) + 1
        BY <3>2, <2>2, <2>3, <1>2
      <4>2. u[i - 1] \in Nodes(n) /\ u[i - 1] # f[1]
        BY <4>1, <2>1, <1>2 DEF On
      <4>3. v.addr[u[i - 1]] = w.addr[u[i - 1]]
        BY <4>2, <2>1, <1>3
      <4>4. st2[i] = st[i - 1]
        BY <4>1, <4>3, <2>3, <1>2
      <4> QED BY <3>2, <4>1, <4>4
    <3> QED BY <3>1, <3>2
  <2>6. st2 = Stacks!Touched(n, st, line)
    <3> HIDE DEF st2
    <3> QED BY <1>2, <2>3, <2>4, <2>5, TouchedIs
  <2> QED BY <2>1, <2>6 DEF v
<1>5. ASSUME \A i \in DOMAIN u : w.addr[u[i]] # line, w.freelist = Null
      PROVE  /\ \E u2, f2 : Lists(n, L, Replace(w, line), u2, f2)
             /\ Stack(Replace(w, line)) = Stacks!Touched(n, st, line)
  <2> DEFINE v == Replace(w, line)
             q == Without(u, n)
             c == Consed(u[n], q)
             st2 == Stack(v)
  <2>1. /\ f = << >> /\ n \in DOMAIN u /\ Len(u) = n
        /\ Lists(n, L, v, c, f) /\ v.addr = [w.addr EXCEPT ![u[n]] = line]
    BY <1>5, ReplaceLists
  <2>2. /\ q \in Seq(Nodes(n)) /\ Len(q) = n - 1 /\ DOMAIN q = 1 .. n - 1
        /\ \A i \in 1 .. n - 1 : i \in DOMAIN u /\ q[i] = u[i]
    <3>1. /\ q \in Seq(Nodes(n)) /\ Len(q) = n - 1 /\ DOMAIN q = 1 .. n - 1
          /\ \A i \in 1 .. n - 1 : i \in DOMAIN u /\ q[i] = IF i < n THEN u[i] ELSE u[i + 1]
      BY <1>1, <2>1, WithoutFacts
    <3> HIDE DEF q
    <3> QED BY <3>1
  <2> HIDE DEF q
  <2>3. /\ c \in Seq(Nodes(n)) /\ Len(c) = n /\ c[1] = u[n]
        /\ \A i \in 2 .. n : c[i] = u[i - 1]
    <3>1. /\ c \in Seq(Nodes(n)) /\ Len(c) = Len(q) + 1 /\ c[1] = u[n]
          /\ \A i \in 2 .. Len(q) + 1 : i - 1 \in DOMAIN q /\ c[i] = q[i - 1]
      <4>1. q \in Seq(Nodes(n)) /\ u[n] \in Nodes(n)
        BY <1>1, <2>1, <2>2
      <4>2. c \in Seq(Nodes(n)) /\ IsConsed(c, u[n], q)
        BY <4>1, ConsedIs
      <4> HIDE DEF c
      <4> QED BY <4>2 DEF IsConsed
    <3> HIDE DEF c
    <3> QED BY <3>1, <2>2
  <2>a. Lists(n, L, v, c, f) /\ v.addr = [w.addr EXCEPT ![u[n]] = line]
    BY <2>1
  <2> HIDE DEF c, v
  <2>4. st2 \in Seq(L) /\ Len(st2) = n /\ \A i \in 1 .. n : st2[i] = v.addr[c[i]]
    <3>1. st2 \in Seq(L) /\ Len(st2) = Len(c) /\ \A i \in 1 .. Len(c) : st2[i] = v.addr[c[i]]
      <4>1. st2 \in Seq(L) /\ IsStack(st2, v, c)
        BY <2>a, StackIs
      <4> HIDE DEF st2
      <4> QED BY <4>1 DEF IsStack
    <3> QED BY <3>1, <2>3
  <2>5. Stacks!Moved(n, st, line) = n - 1 /\ Len(st) = n
    <3>1. \A i \in DOMAIN st : st[i] # line
      BY <1>2, <1>5
    <3>2. Len(st) = n
      BY <1>2, <2>1
    <3> QED BY <1>2, <3>1, <3>2, MovedIs
  <2>6. \A i \in 1 .. Len(st2) :
            st2[i] = IF i = 1 THEN line ELSE IF i <= (n - 1) + 1 THEN st[i - 1] ELSE st[i]
    <3> TAKE i \in 1 .. Len(st2)
    <3>1. CASE i = 1
      BY <3>1, <1>2, <1>3, <2>1, <2>3, <2>4
    <3>2. CASE i # 1
      <4>1. i \in 2 .. n /\ i - 1 \in 1 .. Len(u) /\ c[i] = u[i - 1] /\ i - 1 # n /\ n \in 1 .. Len(u)
        BY <3>2, <2>1, <2>3, <2>4
      <4>2. u[i - 1] \in Nodes(n) /\ u[i - 1] # u[n]
        BY <4>1, <1>1, <1>2 DEF Distinct
      <4>3. v.addr[u[i - 1]] = w.addr[u[i - 1]]
        BY <4>2, <2>1, <1>3
      <4>4. st2[i] = st[i - 1]
        BY <4>1, <4>3, <2>4, <1>2
      <4> QED BY <3>2, <4>1, <4>4
    <3> QED BY <3>1, <3>2
  <2>7. st2 = Stacks!Touched(n, st, line)
    <3>1. n - 1 \in Nat /\ Len(st2) = IF n - 1 = Len(st) THEN Len(st) + 1 ELSE Len(st)
      BY <2>4, <2>5
    <3> HIDE DEF st2
    <3> QED BY <1>2, <2>4, <2>5, <2>6, <3>1, TouchedIs
  <2> QED BY <2>1, <2>7 DEF v
<1>6. ASSUME NEW k \in DOMAIN u, k # 1, w.addr[u[k]] = line
      PROVE  /\ \E u2, f2 : Lists(n, L, ToFront(w, u[k]), u2, f2)
             /\ Stack(ToFront(w, u[k])) = Stacks!Touched(n, st, line)
  <2> DEFINE v == ToFront(w, u[k])
             q == Without(u, k)
             c == Consed(u[k], q)
             st2 == Stack(v)
  <2>0. k \in 1 .. Len(u) /\ k \in Nat
    BY <1>2
  <2>1. Lists(n, L, v, c, f) /\ v.addr = w.addr
    BY <1>6, ToFrontLists
  <2>2. /\ q \in Seq(Nodes(n)) /\ Len(q) = Len(u) - 1 /\ DOMAIN q = 1 .. Len(u) - 1
        /\ \A i \in 1 .. Len(u) - 1 : q[i] = IF i < k THEN u[i] ELSE u[i + 1]
    BY <1>1, WithoutFacts
  <2> HIDE DEF q
  <2>3. /\ c \in Seq(Nodes(n)) /\ Len(c) = Len(u) /\ c[1] = u[k]
        /\ \A i \in 2 .. Len(u) : c[i] = q[i - 1]
    <3>1. /\ c \in Seq(Nodes(n)) /\ Len(c) = Len(q) + 1 /\ c[1] = u[k]
          /\ \A i \in 2 .. Len(q) + 1 : i - 1 \in DOMAIN q /\ c[i] = q[i - 1]
      <4>1. q \in Seq(Nodes(n)) /\ u[k] \in Nodes(n)
        BY <1>2, <2>0, <2>2
      <4>2. c \in Seq(Nodes(n)) /\ IsConsed(c, u[k], q)
        BY <4>1, ConsedIs
      <4> HIDE DEF c
      <4> QED BY <4>2 DEF IsConsed
    <3> HIDE DEF c
    <3> QED BY <3>1, <2>2, <1>2
  <2> HIDE DEF c, v
  <2>4. st2 \in Seq(L) /\ Len(st2) = Len(u) /\ \A i \in 1 .. Len(u) : st2[i] = w.addr[c[i]]
    BY <2>1, <2>3, StackFacts
  <2>5. Stacks!Moved(n, st, line) = k - 1
    <3>1. \A i \in DOMAIN st : st[i] = line <=> i = k
      BY <1>2, <1>6, <2>0
    <3>2. k \in DOMAIN st /\ Len(st) <= n
      BY <1>2
    <3> QED BY <1>2, <3>1, <3>2, MovedIs
  <2>6. \A i \in 1 .. Len(st2) :
            st2[i] = IF i = 1 THEN line ELSE IF i <= (k - 1) + 1 THEN st[i - 1] ELSE st[i]
    <3> TAKE i \in 1 .. Len(st2)
    <3>0. i \in 1 .. Len(u) /\ i \in Nat
      BY <2>4, <1>2
    <3>1. CASE i = 1
      BY <3>0, <3>1, <2>3, <2>4, <1>6
    <3>2. CASE i # 1 /\ i <= k
      <4>1. c[i] = q[i - 1] /\ q[i - 1] = u[i - 1] /\ i - 1 \in 1 .. Len(u)
        BY <3>0, <3>2, <2>0, <2>2, <2>3, <1>2
      <4> QED BY <3>0, <3>2, <2>0, <4>1, <2>4, <1>2
    <3>3. CASE i # 1 /\ i > k
      <4>1. i - 1 \in 1 .. Len(u) - 1 /\ ~(i - 1 < k) /\ (i - 1) + 1 = i /\ i \in 2 .. Len(u)
        BY <3>0, <3>3, <2>0, <1>2
      <4>2. c[i] = q[i - 1] /\ q[i - 1] = u[(i - 1) + 1]
        BY <4>1, <2>2, <2>3
      <4>3. st2[i] = st[i]
        BY <4>1, <4>2, <3>0, <2>4, <1>2
      <4> QED BY <3>0, <3>3, <2>0, <4>3
    <3> QED BY <3>0, <2>0, <3>1, <3>2, <3>3
  <2>7. st2 = Stacks!Touched(n, st, line)
    <3>1. k - 1 \in Nat /\ Len(st2) = IF k - 1 = Len(st) THEN Len(st) + 1 ELSE Len(st)
      BY <2>0, <2>4, <1>2
    <3> HIDE DEF st2
    <3> QED BY <1>2, <2>4, <2>5, <2>6, <3>1, TouchedIs
  <2> QED BY <2>1, <2>7 DEF v
<1>7. ASSUME 1 \in DOMAIN u, w.addr[u[1]] = line
      PROVE  st = Stacks!Touched(n, st, line) /\ u[1] = w.lrulist
  <2>1. Stacks!Moved(n, st, line) = 0
    <3>1. \A i \in DOMAIN st : st[i] = line <=> i = 1
      BY <1>2, <1>7
    <3>2. 1 \in DOMAIN st /\ Len(st) <= n
      BY <1>2, <1>7
    <3>3. st \in Seq(L) /\ 1 \in DOMAIN st
      BY <1>2, <1>7
    <3>4. Stacks!Moved(n, st, line) = 1 - 1
      BY <3>1, <3>2, <3>3, MovedIs
    <3> QED BY <3>4
  <2>0. Len(st) \in Nat /\ Len(st) >= 1 /\ st[1] = line
    BY <1>2, <1>7
  <2>2. Len(st) = IF 0 = Len(st) THEN Len(st) + 1 ELSE Len(st)
    BY <2>0
  <2>3. \A i \in 1 .. Len(st) :
            st[i] = IF i = 1 THEN line ELSE IF i <= 0 + 1 THEN st[i - 1] ELSE st[i]
    BY <2>0
  <2>4. st = Stacks!Touched(n, st, line)
    <3>1. st \in Seq(L) /\ 0 \in Nat
      BY <1>2
    <3> QED BY <3>1, <2>1, <2>2, <2>3, TouchedIs
  <2>5. u[1] = w.lrulist
    BY <1>1, <1>7 DEF Linked
  <2> QED BY <2>4, <2>5
<1>8. /\ (\A i \in DOMAIN u : w.addr[u[i]] # line) => Found(w, line) = Null
      /\ \A k \in DOMAIN u : w.addr[u[k]] = line => Found(w, line) = u[k] /\ u[k] # Null
  BY FoundIs
<1>9. CASE \A i \in DOMAIN u : w.addr[u[i]] # line
  <2>1. Stacks!At(st, line) = {}
    BY <1>2, <1>9 DEF Stacks!At
  <2>2. CASE w.freelist # Null
    <3>1. access(w, line) = Fill(w, line)
      BY <1>8, <1>9, <2>2 DEF access
    <3> QED BY <3>1, <2>1, <2>2, <1>4, <1>8, <1>9 DEF IsHit, IsMru, st
  <2>3. CASE w.freelist = Null
    <3>1. access(w, line) = Replace(w, line)
      BY <1>8, <1>9, <2>3 DEF access
    <3> QED BY <3>1, <2>1, <2>3, <1>5, <1>8, <1>9 DEF IsHit, IsMru, st
  <2> QED BY <2>2, <2>3
<1>10. ASSUME NEW k \in DOMAIN u, w.addr[u[k]] = line
       PROVE  /\ \E u2, f2 : Lists(n, L, access(w, line), u2, f2)
              /\ Stack(access(w, line)) = Stacks!Touched(n, st, line)
              /\ IsHit(w, line) <=> Stacks!At(st, line) # {}
              /\ IsMru(w, line) <=> 1 \in Stacks!At(st, line)
  <2>1. Stacks!At(st, line) = {k}
    BY <1>2, <1>10 DEF Stacks!At
  <2>2. CASE k # 1
    <3>1. u[k] # w.lrulist
      BY <2>2, ToFrontLists
    <3>2. access(w, line) = ToFront(w, u[k])
      BY <1>8, <1>10, <3>1 DEF access
    <3> QED BY <3>1, <3>2, <2>1, <2>2, <1>6, <1>8, <1>10 DEF IsHit, IsMru
  <2>3. CASE k = 1
    <3>1. st = Stacks!Touched(n, st, line) /\ u[1] = w.lrulist
      BY <1>7, <1>10, <2>3
    <3>2. access(w, line) = w
      BY <1>8, <1>10, <2>3, <3>1 DEF access
    <3> QED BY <3>1, <3>2, <2>1, <2>3, <1>8, <1>10 DEF IsHit, IsMru, st
  <2> QED BY <2>2, <2>3
<1> QED BY <1>9, <1>10 DEF st

\* what addr can hold: a line, or the 0 of a node never used
Kept == Lines \cup {0}

\* The lists of w are in order, and its lines belong to set s.
WayOk(n, w, s) ==
    /\ Lists(n, Kept, w, Used(w), Walk(w, w.freelist))
    /\ \A i \in DOMAIN Stack(w) : Stack(w)[i] % Sets = s

\* Every line has a set.
LEMMA IndexOf == \A line \in Lines : line % Sets \in Index
  BY CacheAssumption DEF Index

\* A new way is in order and empty.
LEMMA NewWayOk ==
  ASSUME NEW n \in Nat, n > 1, NEW s
  PROVE  WayOk(n, NewWay(n), s) /\ Stack(NewWay(n)) = << >>
<1> DEFINE w == NewWay(n)
           f == [i \in 1 .. n |-> i]
<1>1. Lists(n, Kept, w, << >>, f)
  BY NewWayLists DEF Kept
<1> HIDE DEF w, f
<1>2. Used(w) = << >> /\ Walk(w, w.freelist) = f /\ Stack(w) = StackOf(w, << >>)
  BY <1>1, UsedIs
<1>3. Stack(w) = << >>
  BY <1>2 DEF StackOf
<1> QED BY <1>1, <1>2, <1>3 DEF WayOk, w

\* t is st after an access to line that moved m lines back
IsTouched(t, m, st, line) ==
    /\ m <= Len(st)
    /\ Len(t) = IF m = Len(st) THEN Len(st) + 1 ELSE Len(st)
    /\ DOMAIN t = 1 .. (IF m = Len(st) THEN Len(st) + 1 ELSE Len(st))
    /\ \A i \in DOMAIN t : t[i] = IF i = 1 THEN line ELSE IF i <= m + 1 THEN st[i - 1] ELSE st[i]

\* What is where in the abstract stack after an access.
LEMMA TouchedFacts ==
  ASSUME NEW n \in Nat, n > 1, NEW S, NEW st \in Seq(S), NEW line
  PROVE  /\ Stacks!Moved(n, st, line) \in Nat
         /\ IsTouched(Stacks!Touched(n, st, line), Stacks!Moved(n, st, line), st, line)
<1> DEFINE m == Stacks!Moved(n, st, line)
           t == Stacks!Touched(n, st, line)
<1>1. Len(st) \in Nat /\ DOMAIN st = 1 .. Len(st)
  OBVIOUS
<1>2. m \in Nat /\ m <= Len(st)
  <2>1. CASE Stacks!At(st, line) # {}
    <3>1. PICK i \in DOMAIN st : m = i - 1
      BY <2>1 DEF Stacks!At, Stacks!Moved
    <3> HIDE DEF m
    <3> QED BY <3>1, <1>1
  <2>2. CASE Stacks!At(st, line) = {}
    <3>1. m = IF Len(st) < n THEN Len(st) ELSE n - 1
      BY <2>2 DEF Stacks!Moved
    <3> HIDE DEF m
    <3> QED BY <3>1, <1>1
  <2> QED BY <2>1, <2>2
<1>3. t = [i \in 1 .. (IF m = Len(st) THEN Len(st) + 1 ELSE Len(st)) |->
            IF i = 1 THEN line ELSE IF i <= m + 1 THEN st[i - 1] ELSE st[i]]
  BY DEF Stacks!Touched
<1> HIDE DEF m, t
<1>4. (IF m = Len(st) THEN Len(st) + 1 ELSE Len(st)) \in Nat
  BY <1>1
<1> DEFINE k == IF m = Len(st) THEN Len(st) + 1 ELSE Len(st)
           e(i) == IF i = 1 THEN line ELSE IF i <= m + 1 THEN st[i - 1] ELSE st[i]
<1>5. k \in Nat /\ t = [i \in 1 .. k |-> e(i)]
  BY <1>3, <1>4
<1> HIDE DEF k, e
<1>6. Len(t) = k /\ DOMAIN t = 1 .. k /\ \A i \in DOMAIN t : t[i] = e(i)
  BY <1>5
<1> QED BY <1>2, <1>6 DEF k, e, m, t, IsTouched

\* The places of an abstract stack after an access, and those before.
LEMMA TouchedPlaces ==
  ASSUME NEW m \in Nat, NEW l \in Nat, m <= l, NEW i \in 1 .. (IF m = l THEN l + 1 ELSE l), i # 1
  PROVE  /\ i <= m + 1 => i - 1 \in 1 .. l
         /\ ~(i <= m + 1) => i \in 1 .. l
<1>1. CASE m = l
  BY <1>1
<1>2. CASE m # l
  BY <1>2
<1> QED BY <1>1, <1>2

\* An access to a line of set s keeps set s in order.
LEMMA WayStep ==
  ASSUME NEW n \in Nat, n > 1, NEW s, NEW w, WayOk(n, w, s), NEW line \in Lines, line % Sets = s
  PROVE  WayOk(n, access(w, line), s)
<1> DEFINE v == access(w, line)
<1>0. line \in Kept
  BY DEF Kept
<1>1. /\ \E u2, f2 : Lists(n, Kept, v, u2, f2)
      /\ Stack(v) = Stacks!Touched(n, Stack(w), line)
  BY <1>0, AccessLists DEF WayOk
<1> HIDE DEF v
<1>2. PICK u2, f2 : Lists(n, Kept, v, u2, f2)
  BY <1>1
<1>3. Lists(n, Kept, v, Used(v), Walk(v, v.freelist))
  BY <1>2, UsedIs
<1>4. Stack(w) \in Seq(Kept) /\ Len(Stack(w)) <= n /\ DOMAIN Stack(w) = 1 .. Len(Stack(w))
  BY StackFacts DEF WayOk
<1>5. ASSUME NEW i \in DOMAIN Stack(v) PROVE Stack(v)[i] % Sets = s
  <2> DEFINE st == Stack(w)
             t == Stacks!Touched(n, st, line)
             m == Stacks!Moved(n, st, line)
  <2>1. m \in Nat /\ IsTouched(t, m, st, line)
    BY <1>4, TouchedFacts
  <2>2. i \in DOMAIN t /\ Stack(v)[i] = t[i]
    BY <1>1
  <2>3. \A j \in DOMAIN st : st[j] % Sets = s
    BY DEF WayOk
  <2> HIDE DEF st, t, m
  <2>4. DOMAIN st = 1 .. Len(st) /\ Len(st) \in Nat
    BY <1>4 DEF st
  <2>8. /\ i \in 1 .. (IF m = Len(st) THEN Len(st) + 1 ELSE Len(st))
        /\ t[i] = IF i = 1 THEN line ELSE IF i <= m + 1 THEN st[i - 1] ELSE st[i]
    BY <2>1, <2>2 DEF IsTouched
  <2>9. m <= Len(st)
    BY <2>1 DEF IsTouched
  <2>5. CASE i = 1
    BY <2>2, <2>5, <2>8
  <2>6. CASE i # 1 /\ i <= m + 1
    <3>1. i - 1 \in 1 .. Len(st)
      BY <2>1, <2>4, <2>6, <2>8, <2>9, TouchedPlaces
    <3>2. t[i] = st[i - 1]
      BY <2>6, <2>8
    <3> QED BY <3>1, <3>2, <2>2, <2>3, <2>4
  <2>7. CASE i # 1 /\ ~(i <= m + 1)
    <3>1. i \in 1 .. Len(st)
      BY <2>1, <2>4, <2>7, <2>8, <2>9, TouchedPlaces
    <3>2. t[i] = st[i]
      BY <2>7, <2>8
    <3> QED BY <3>1, <3>2, <2>2, <2>3, <2>4
  <2> QED BY <2>5, <2>6, <2>7
<1> QED BY <1>3, <1>5 DEF WayOk, v

\* The inductive invariant of Cache: every set is in order.
CacheInv ==
    /\ way \in [Index -> Way(Ways, Kept)]
    /\ \A s \in Index : WayOk(Ways, way[s], s)
    /\ accesses \in 0 .. MaxAccesses /\ hits \in 0 .. accesses /\ hitMru \in 0 .. hits
    /\ distribution \in [Index -> 0 .. accesses]
    /\ seen \subseteq Lines

\* The constructor establishes the invariant.
LEMMA CacheInvInit == Init => CacheInv
<1> SUFFICES ASSUME Init PROVE CacheInv
  OBVIOUS
<1>1. \A s \in Index : WayOk(Ways, NewWay(Ways), s)
  BY CacheAssumption, NewWayOk
<1>2. \A s \in Index : NewWay(Ways) \in Way(Ways, Kept)
  BY <1>1 DEF WayOk, Lists, ListsBut
<1>3. way = [s \in Index |-> NewWay(Ways)]
  BY DEF Init
<1>4. way \in [Index -> Way(Ways, Kept)] /\ \A s \in Index : WayOk(Ways, way[s], s)
  BY <1>1, <1>2, <1>3
<1> QED BY <1>4, CacheAssumption DEF Init, CacheInv

\* An access preserves the invariant.
LEMMA CacheInvStep ==
  ASSUME CacheInv, NEW line \in Lines, Access(line)
  PROVE  CacheInv'
<1> DEFINE s == line % Sets
           v == access(way[s], line)
<1>1. s \in Index /\ WayOk(Ways, way[s], s) /\ way[s] \in Way(Ways, Kept)
  BY IndexOf DEF CacheInv
<1>2. WayOk(Ways, v, s)
  BY <1>1, CacheAssumption, WayStep
<1>3. v \in Way(Ways, Kept)
  BY <1>2 DEF WayOk, Lists, ListsBut
<1>4. way' = [way EXCEPT ![s] = v]
  BY DEF Access
<1> HIDE DEF v, s
<1>5. way' \in [Index -> Way(Ways, Kept)] /\ \A r \in Index : WayOk(Ways, way'[r], r)
  BY <1>1, <1>2, <1>3, <1>4 DEF CacheInv
<1>6. /\ accesses' = accesses + 1 /\ accesses < MaxAccesses
      /\ distribution' = [distribution EXCEPT ![s] = distribution[s] + 1]
      /\ seen' = seen \cup {line}
  BY DEF Access, s
<1>7. accesses' \in 0 .. MaxAccesses
  BY <1>6, CacheAssumption DEF CacheInv
<1>8. hits' \in 0 .. accesses' /\ hitMru' \in 0 .. hits'
  <2>1. /\ hits' = hits + Flag(IsHit(way[s], line)) /\ hitMru' = hitMru + Flag(IsMru(way[s], line))
    BY DEF Access, Count, s
  <2>2. /\ Flag(IsHit(way[s], line)) \in {0, 1} /\ Flag(IsMru(way[s], line)) \in {0, 1}
        /\ Flag(IsMru(way[s], line)) <= Flag(IsHit(way[s], line))
    BY DEF Flag, IsMru
  <2>3. accesses \in Nat /\ hits \in 0 .. accesses /\ hitMru \in 0 .. hits
    BY CacheAssumption DEF CacheInv
  <2> QED BY <2>1, <2>2, <2>3, <1>6
<1>9. distribution' \in [Index -> 0 .. accesses']
  <2>1. accesses \in Nat /\ distribution \in [Index -> 0 .. accesses]
    BY CacheAssumption DEF CacheInv
  <2> QED BY <2>1, <1>1, <1>6
<1>10. seen' \subseteq Lines
  BY <1>6 DEF CacheInv
<1> QED BY <1>5, <1>7, <1>8, <1>9, <1>10 DEF CacheInv, Index, WayOk, Kept

\* The invariant always holds.
LEMMA CacheInvAlways == Spec => []CacheInv
<1>1. CacheInv /\ [Next]_vars => CacheInv'
  <2>1. ASSUME CacheInv, Next PROVE CacheInv'
    BY <2>1, CacheInvStep DEF Next
  <2>2. ASSUME CacheInv, UNCHANGED vars PROVE CacheInv'
    BY <2>2 DEF vars, CacheInv
  <2> QED BY <2>1, <2>2
<1> QED BY CacheInvInit, <1>1, PTL DEF Spec

\* Type correctness: the links of every way are nodes or null, and the counters
\* are ordered (hits on the head among hits, hits among accesses).
THEOREM CacheTypeCorrect == Spec => []TypeOK
<1>1. CacheInv => TypeOK
  <2> SUFFICES ASSUME CacheInv PROVE TypeOK
    OBVIOUS
  <2>1. distribution \in [Index -> 0 .. MaxAccesses]
    BY CacheAssumption DEF CacheInv
  <2> QED BY <2>1 DEF CacheInv, TypeOK, Kept
<1> QED BY CacheInvAlways, <1>1, PTL

\* What the invariant says of one set, in the words of ListsWellFormed.
LEMMA WayWellFormed ==
  ASSUME NEW n \in Nat, n > 1, NEW w, NEW s, WayOk(n, w, s)
  PROVE  LET used == Used(w)
         IN  /\ Len(used) + Len(Free(w)) = n
             /\ {used[i] : i \in DOMAIN used} \cup {Free(w)[i] : i \in DOMAIN Free(w)} = Nodes(n)
             /\ \A i \in DOMAIN used :
                 /\ w.prev[used[i]] = IF i = 1 THEN Null ELSE used[i - 1]
                 /\ w.addr[used[i]] % Sets = s
                 /\ \A j \in DOMAIN used : w.addr[used[i]] = w.addr[used[j]] => i = j
<1> DEFINE u == Used(w)
           f == Free(w)
<1>1. Lists(n, Kept, w, u, f)
  BY DEF WayOk, Free
<1>2. /\ Stack(w) = [i \in DOMAIN u |-> w.addr[u[i]]]
  BY DEF Stack
<1>3. \A i \in DOMAIN Stack(w) : Stack(w)[i] % Sets = s
  BY DEF WayOk
<1> HIDE DEF u, f
<1>4. \A i \in DOMAIN u : w.addr[u[i]] % Sets = s
  BY <1>2, <1>3
<1>5. /\ u \in Seq(Nodes(n)) /\ f \in Seq(Nodes(n)) /\ Len(u) + Len(f) = n
      /\ LinkedBack(w.prev, u) /\ LinesApart(w, u)
      /\ \A y \in Nodes(n) : On(y, u) \/ On(y, f)
  BY <1>1 DEF Lists, ListsBut
<1>6. {u[i] : i \in DOMAIN u} \cup {f[i] : i \in DOMAIN f} = Nodes(n)
  <2>1. \A i \in DOMAIN u : u[i] \in Nodes(n)
    BY <1>5
  <2>2. \A i \in DOMAIN f : f[i] \in Nodes(n)
    BY <1>5
  <2> QED BY <2>1, <2>2, <1>5 DEF On
<1> QED BY <1>4, <1>5, <1>6 DEF LinkedBack, LinesApart, u, f

\* No access loses a node, breaks a back link, or leaves a line twice or in the
\* wrong set.
THEOREM CacheListsWellFormed == Spec => []ListsWellFormed
<1>1. CacheInv => ListsWellFormed
  <2> SUFFICES ASSUME CacheInv PROVE ListsWellFormed
    OBVIOUS
  <2>1. \A s \in Index : WayOk(Ways, way[s], s)
    BY DEF CacheInv
  <2>2. Ways \in Nat /\ Ways > 1
    BY CacheAssumption
  <2> QED BY <2>1, <2>2, WayWellFormed, Zenon DEF ListsWellFormed
<1> QED BY CacheInvAlways, <1>1, PTL

\* Refinement: the doubly linked lists implement LRU stacks, and the statistics
\* are those of the stacks.
THEOREM CacheIsLru == Spec => LruSpec
<1>1. Init => Stacks!Init
  <2> SUFFICES ASSUME Init PROVE Stacks!Init
    OBVIOUS
  <2>1. Stack(NewWay(Ways)) = << >>
    BY CacheAssumption, NewWayOk
  <2>2. way = [s \in Index |-> NewWay(Ways)]
    BY DEF Init
  <2>3. [s \in Index |-> Stack(way[s])] = [s \in 0 .. Sets - 1 |-> << >>]
    BY <2>1, <2>2 DEF Index
  <2> QED BY <2>3 DEF Init, Stacks!Init
<1>2. ASSUME CacheInv, NEW line \in Lines, Access(line) PROVE Stacks!Access(line)
  <2> DEFINE s == line % Sets
             w == way[s]
             stack == [r \in Index |-> Stack(way[r])]
             stack2 == [r \in Index |-> Stack(way'[r])]
  <2>1. s \in Index /\ WayOk(Ways, w, s) /\ way \in [Index -> Way(Ways, Kept)]
    BY IndexOf, <1>2 DEF CacheInv
  <2>2. /\ Stack(access(w, line)) = Stacks!Touched(Ways, Stack(w), line)
        /\ IsHit(w, line) <=> Stacks!At(Stack(w), line) # {}
        /\ IsMru(w, line) <=> 1 \in Stacks!At(Stack(w), line)
    <3>1. line \in Kept
      BY DEF Kept
    <3> QED BY <3>1, <2>1, CacheAssumption, AccessLists DEF WayOk
  <2>3. /\ way' = [way EXCEPT ![s] = access(w, line)]
        /\ accesses < MaxAccesses /\ accesses' = accesses + 1
        /\ hits' = hits + Flag(IsHit(w, line)) /\ hitMru' = hitMru + Flag(IsMru(w, line))
    BY <1>2 DEF Access, Count
  <2>4. stack[s] = Stack(w)
    BY <2>1
  <2>5. stack2 = [stack EXCEPT ![s] = Stacks!Touched(Ways, stack[s], line)]
    <3>1. way'[s] = access(w, line) /\ \A r \in Index : r # s => way'[r] = way[r]
      BY <2>1, <2>3
    <3>2. \A r \in Index : Stack(way'[r]) = IF r = s THEN Stacks!Touched(Ways, Stack(w), line) ELSE stack[r]
      BY <3>1, <2>2
    <3> QED BY <3>2, <2>4
  <2>6. hits' = hits + (IF Stacks!At(stack[s], line) # {} THEN 1 ELSE 0)
    BY <2>2, <2>3, <2>4 DEF Flag
  <2>7. hitMru' = hitMru + (IF 1 \in Stacks!At(stack[s], line) THEN 1 ELSE 0)
    BY <2>2, <2>3, <2>4 DEF Flag
  <2> QED BY <2>3, <2>5, <2>6, <2>7 DEF Stacks!Access
<1>3. ASSUME CacheInv, [Next]_vars
      PROVE  [Stacks!Next]_<<[s \in Index |-> Stack(way[s])], hits, hitMru, accesses>>
  <2>1. CASE Next
    BY <2>1, <1>2, <1>3 DEF Next, Stacks!Next
  <2>2. CASE UNCHANGED vars
    BY <2>2 DEF vars
  <2> QED BY <2>1, <2>2, <1>3
<1> QED BY <1>1, <1>3, CacheInvAlways, PTL DEF Spec, LruSpec, Stacks!Spec

\* The cache with few ways runs the same code.
LEMMA FewDefs ==
  /\ Few!Index = Index
  /\ \A w, line : /\ Few!access(w, line) = access(w, line)
                  /\ Few!IsHit(w, line) = IsHit(w, line)
                  /\ Few!IsMru(w, line) = IsMru(w, line)
  /\ \A n : Few!NewWay(n) = NewWay(n)
  /\ \A p : Few!Flag(p) = Flag(p)
<1>0. Few!Null = Null /\ \A n : Few!Nodes(n) = Nodes(n)
  BY Zenon DEF Few!Null, Null, Few!Nodes, Nodes
<1>1. \A w, head : Few!Walk(w, head) = Walk(w, head)
  BY Zenon DEF Few!Walk, Walk, Few!Null, Null
<1>2. \A w : Few!Used(w) = Used(w)
  BY <1>1, Zenon DEF Few!Used, Used
<1>3. \A w : Few!Stack(w) = Stack(w)
  BY <1>2, Zenon DEF Few!Stack, Stack
<1>4. \A w, line : Few!Holders(w, line) = Holders(w, line)
  BY <1>3, Zenon DEF Few!Holders, Holders
<1>4a. \A S : Few!Min(S) = Min(S)
  BY Zenon DEF Few!Min, Min
<1>5. \A w, line : Few!Found(w, line) = Found(w, line)
  BY <1>0, <1>2, <1>4, <1>4a, Zenon DEF Few!Found, Found
<1>6. \A w : Few!LastUsed(w) = LastUsed(w)
  BY <1>2, Zenon DEF Few!LastUsed, LastUsed
<1>7. \A w, n : Few!Push(w, n) = Push(w, n)
  BY <1>0, Zenon DEF Few!Push, Push
<1>8. \A w, line : Few!Fill(w, line) = Fill(w, line)
  BY <1>7, Zenon DEF Few!Fill, Fill
<1>9. \A w, line : Few!Replace(w, line) = Replace(w, line)
  BY <1>0, <1>6, <1>7, Zenon DEF Few!Replace, Replace
<1>10. \A w, p : Few!ToFront(w, p) = ToFront(w, p)
  BY <1>0, <1>7, Zenon DEF Few!ToFront, ToFront
<1>11. \A w, line : Few!access(w, line) = access(w, line)
  BY <1>0, <1>5, <1>8, <1>9, <1>10, Zenon DEF Few!access, access
<1>12. \A w, line : Few!IsHit(w, line) = IsHit(w, line) /\ Few!IsMru(w, line) = IsMru(w, line)
  BY <1>0, <1>5, Zenon DEF Few!IsHit, IsHit, Few!IsMru, IsMru
<1>13. \A n : Few!NewWay(n) = NewWay(n)
  BY <1>0, Zenon DEF Few!NewWay, NewWay
<1>14. Few!Index = Index
  BY Zenon DEF Few!Index, Index
<1>15. \A p : Few!Flag(p) = Flag(p)
  BY Zenon DEF Few!Flag, Flag
<1> QED BY <1>11, <1>12, <1>13, <1>14, <1>15, Zenon

\* st2 is what is left of st when only n lines fit.
IsPrefix(n, st2, st) ==
    /\ Len(st2) = IF Len(st) < n THEN Len(st) ELSE n
    /\ \A i \in 1 .. Len(st2) : st2[i] = st[i]
\* no line twice
Apart(st) == \A i, j \in DOMAIN st : st[i] = st[j] => i = j

\* How many lines move back in a stack and in its prefix, and that the prefix
\* never hits alone.
LEMMA PrefixMoved ==
  ASSUME NEW n \in Nat, NEW n2 \in Nat, 1 < n2, n2 < n, NEW S, NEW st \in Seq(S), NEW st2 \in Seq(S),
         Len(st) <= n, Apart(st), IsPrefix(n2, st2, st), NEW line
  PROVE  LET m == Stacks!Moved(n, st, line)
             m2 == Stacks!Moved(n2, st2, line)
         IN  /\ \/ m = m2 /\ m < Len(st2)
                \/ m = m2 /\ m = Len(st) /\ Len(st) < n2
                \/ n2 <= m /\ m <= Len(st) /\ m2 = n2 - 1 /\ n2 <= Len(st)
             /\ Stacks!At(st2, line) # {} => Stacks!At(st, line) # {}
             /\ 1 \in Stacks!At(st2, line) <=> 1 \in Stacks!At(st, line)
<1> DEFINE m == Stacks!Moved(n, st, line)
           m2 == Stacks!Moved(n2, st2, line)
<1>0. /\ Len(st) \in Nat /\ DOMAIN st = 1 .. Len(st) /\ Len(st2) \in Nat /\ DOMAIN st2 = 1 .. Len(st2)
      /\ Len(st2) = IF Len(st) < n2 THEN Len(st) ELSE n2
      /\ \A i \in 1 .. Len(st2) : st2[i] = st[i]
  BY DEF IsPrefix
<1>a. Len(st2) <= Len(st) /\ Len(st2) <= n2
  BY <1>0
<1>1. CASE \E k \in DOMAIN st2 : st2[k] = line
  <2>1. PICK k \in DOMAIN st2 : st2[k] = line
    BY <1>1
  <2>2. k \in 1 .. Len(st2) /\ k \in DOMAIN st /\ st[k] = line
    BY <2>1, <1>0, <1>a
  <2>3. \A i \in DOMAIN st : st[i] = line <=> i = k
    BY <2>2 DEF Apart
  <2>4. \A i \in DOMAIN st2 : st2[i] = line <=> i = k
    BY <2>1, <2>3, <1>0, <1>a
  <2>5. Stacks!At(st, line) = {k} /\ m = k - 1
    BY <2>2, <2>3, MovedIs
  <2>6. Stacks!At(st2, line) = {k} /\ m2 = k - 1
    BY <2>1, <2>4, <1>a, MovedIs
  <2> HIDE DEF m, m2
  <2>7. m = m2 /\ m < Len(st2)
    BY <2>2, <2>5, <2>6, <1>0
  <2> QED BY <2>5, <2>6, <2>7 DEF m, m2
<1>2. CASE ~\E k \in DOMAIN st2 : st2[k] = line
  <2>1. Stacks!At(st2, line) = {} /\ m2 = IF Len(st2) < n2 THEN Len(st2) ELSE n2 - 1
    BY <1>2, <1>a, MovedIs
  <2>2. 1 \notin Stacks!At(st, line)
    <3>1. 1 \in DOMAIN st => 1 \in DOMAIN st2 /\ st2[1] = st[1]
      BY <1>0
    <3> QED BY <3>1, <1>2 DEF Stacks!At
  <2>3. CASE Len(st) < n2
    <3>1. Len(st2) = Len(st) /\ DOMAIN st2 = DOMAIN st /\ \A i \in DOMAIN st : st2[i] = st[i]
      BY <2>3, <1>0
    <3>2. \A i \in DOMAIN st : st[i] # line
      BY <3>1, <1>2
    <3>3. m = IF Len(st) < n THEN Len(st) ELSE n - 1
      BY <3>2, MovedIs
    <3> HIDE DEF m, m2
    <3>4. m = m2 /\ m = Len(st)
      BY <2>1, <2>3, <3>1, <3>3, <1>0
    <3> QED BY <3>4, <2>1, <2>2, <2>3 DEF m, m2
  <2>4. CASE ~(Len(st) < n2)
    <3>1. Len(st2) = n2 /\ m2 = n2 - 1 /\ n2 <= Len(st)
      BY <2>1, <2>4, <1>0
    <3>2. n2 <= m /\ m <= Len(st)
      <4>1. CASE \E k \in DOMAIN st : st[k] = line
        <5>1. PICK k \in DOMAIN st : st[k] = line
          BY <4>1
        <5>2. \A i \in DOMAIN st : st[i] = line <=> i = k
          BY <5>1 DEF Apart
        <5>3. m = k - 1
          BY <5>1, <5>2, MovedIs
        <5>4. k \notin DOMAIN st2
          BY <5>1, <1>0, <1>2
        <5>5. k \in 1 .. Len(st) /\ ~(k \in 1 .. n2)
          BY <5>4, <3>1, <1>0
        <5> HIDE DEF m
        <5> QED BY <5>3, <5>5, <1>0
      <4>2. CASE \A i \in DOMAIN st : st[i] # line
        <5>1. m = IF Len(st) < n THEN Len(st) ELSE n - 1
          BY <4>2, MovedIs
        <5>2. n2 <= Len(st) /\ Len(st) \in Nat
          BY <3>1, <1>0
        <5> HIDE DEF m
        <5> QED BY <5>1, <5>2
      <4> QED BY <4>1, <4>2
    <3> QED BY <3>1, <3>2, <2>1, <2>2
  <2> QED BY <2>3, <2>4
<1> QED BY <1>1, <1>2

\* An access keeps the prefix.
LEMMA PrefixStep ==
  ASSUME NEW n \in Nat, NEW n2 \in Nat, 1 < n2, n2 < n, NEW S, NEW st \in Seq(S), NEW st2 \in Seq(S),
         Len(st) <= n, Apart(st), IsPrefix(n2, st2, st), NEW line
  PROVE  IsPrefix(n2, Stacks!Touched(n2, st2, line), Stacks!Touched(n, st, line))
<1> DEFINE m == Stacks!Moved(n, st, line)
           m2 == Stacks!Moved(n2, st2, line)
           t == Stacks!Touched(n, st, line)
           t2 == Stacks!Touched(n2, st2, line)
           l == Len(st)
           l2 == Len(st2)
<1>1. m \in Nat /\ IsTouched(t, m, st, line)
  BY TouchedFacts
<1>2. m2 \in Nat /\ IsTouched(t2, m2, st2, line)
  BY TouchedFacts
<1>3. \/ m = m2 /\ m < l2
      \/ m = m2 /\ m = l /\ l < n2
      \/ n2 <= m /\ m <= l /\ m2 = n2 - 1 /\ n2 <= l
  BY PrefixMoved
<1>4. /\ l \in Nat /\ l2 \in Nat /\ l2 = (IF l < n2 THEN l ELSE n2)
      /\ \A i \in 1 .. l2 : st2[i] = st[i]
  BY DEF IsPrefix
<1> HIDE DEF m, m2, t, t2
<1>5. /\ Len(t) = (IF m = l THEN l + 1 ELSE l) /\ Len(t2) = (IF m2 = l2 THEN l2 + 1 ELSE l2)
      /\ \A i \in 1 .. (IF m = l THEN l + 1 ELSE l) :
            t[i] = IF i = 1 THEN line ELSE IF i <= m + 1 THEN st[i - 1] ELSE st[i]
      /\ \A i \in 1 .. (IF m2 = l2 THEN l2 + 1 ELSE l2) :
            t2[i] = IF i = 1 THEN line ELSE IF i <= m2 + 1 THEN st2[i - 1] ELSE st2[i]
  BY <1>1, <1>2 DEF IsTouched
<1> HIDE DEF l, l2
<1>6. CASE m = m2 /\ m < l2
  <2>1. m # l /\ m2 # l2
    BY <1>6, <1>1, <1>4
  <2>2. Len(t) = l /\ Len(t2) = l2
    BY <2>1, <1>5
  <2>3. ASSUME NEW i \in 1 .. l2 PROVE t2[i] = t[i]
    <3>1. i \in 1 .. l /\ i \in Nat
      BY <1>4
    <3>2. t[i] = (IF i = 1 THEN line ELSE IF i <= m + 1 THEN st[i - 1] ELSE st[i])
      BY <3>1, <2>1, <1>5
    <3>3. t2[i] = (IF i = 1 THEN line ELSE IF i <= m + 1 THEN st2[i - 1] ELSE st2[i])
      BY <2>1, <1>5, <1>6
    <3>4. st2[i] = st[i] /\ (i # 1 => st2[i - 1] = st[i - 1])
      BY <3>1, <1>4
    <3> QED BY <3>2, <3>3, <3>4
  <2> QED BY <2>2, <2>3, <1>4 DEF IsPrefix, t, t2
<1>7. CASE m = m2 /\ m = l /\ l < n2
  <2>1. l2 = l /\ m2 = l2
    BY <1>7, <1>4
  <2>2. Len(t) = l + 1 /\ Len(t2) = l + 1
    BY <2>1, <1>5, <1>7
  <2>3. ASSUME NEW i \in 1 .. l + 1 PROVE t2[i] = t[i]
    <3>1. i \in Nat /\ i <= l + 1
      BY <1>4
    <3>2. t[i] = (IF i = 1 THEN line ELSE st[i - 1])
      BY <3>1, <1>5, <1>7
    <3>3. t2[i] = (IF i = 1 THEN line ELSE st2[i - 1])
      BY <3>1, <2>1, <1>5
    <3>4. i # 1 => st2[i - 1] = st[i - 1]
      BY <3>1, <2>1, <1>4
    <3> QED BY <3>2, <3>3, <3>4
  <2>4. l + 1 = (IF l + 1 < n2 THEN l + 1 ELSE n2)
    BY <1>7, <1>4
  <2> QED BY <2>2, <2>3, <2>4 DEF IsPrefix, t, t2
<1>8. CASE n2 <= m /\ m <= l /\ m2 = n2 - 1 /\ n2 <= l
  <2>1. l2 = n2 /\ m2 # l2
    BY <1>8, <1>4
  <2>2. Len(t2) = n2 /\ Len(t) >= n2
    BY <2>1, <1>4, <1>5, <1>8
  <2>3. ASSUME NEW i \in 1 .. n2 PROVE t2[i] = t[i]
    <3>1. i \in Nat /\ i \in 1 .. (IF m = l THEN l + 1 ELSE l) /\ i <= m + 1 /\ i <= m2 + 1
      BY <1>1, <1>4, <1>8
    <3>2. t[i] = (IF i = 1 THEN line ELSE st[i - 1])
      BY <3>1, <1>5
    <3>3. t2[i] = (IF i = 1 THEN line ELSE st2[i - 1])
      BY <3>1, <2>1, <1>5
    <3>4. i # 1 => st2[i - 1] = st[i - 1]
      BY <3>1, <2>1, <1>4
    <3> QED BY <3>2, <3>3, <3>4
  <2>4. Len(t) \in Nat
    BY <1>4, <1>5
  <2>5. n2 = (IF Len(t) < n2 THEN Len(t) ELSE n2)
    BY <2>2, <2>4
  <2> QED BY <2>2, <2>3, <2>5 DEF IsPrefix, t, t2
<1> QED BY <1>3, <1>6, <1>7, <1>8 DEF l, l2

\* The inductive invariant of the sweep: both caches are in order, and each
\* stack of the one is a prefix of the other's.
SweepInv ==
    /\ CacheInv
    /\ DOMAIN way2 = Index
    /\ \A s \in Index : WayOk(FewWays, way2[s], s) /\ IsPrefix(FewWays, Stack(way2[s]), Stack(way[s]))
    /\ hits2 \in Nat /\ hits2 <= hits /\ hitMru2 = hitMru

\* The lines of a way in order are a stack that fits.
LEMMA WayStack ==
  ASSUME NEW n \in Nat, NEW w, NEW s, WayOk(n, w, s)
  PROVE  Stack(w) \in Seq(Kept) /\ Len(Stack(w)) <= n /\ Apart(Stack(w))
<1>1. /\ Stack(w) \in Seq(Kept) /\ DOMAIN Stack(w) = 1 .. Len(Used(w)) /\ Len(Stack(w)) = Len(Used(w))
      /\ Len(Used(w)) \in 0 .. n
      /\ \A i, j \in 1 .. Len(Used(w)) : Stack(w)[i] = Stack(w)[j] => i = j
  BY StackFacts DEF WayOk
<1> QED BY <1>1 DEF Apart

\* Two new caches.
LEMMA SweepInvInit == SweepInit => SweepInv
<1> SUFFICES ASSUME SweepInit PROVE SweepInv
  OBVIOUS
<1>1. CacheInv
  BY CacheInvInit DEF SweepInit
<1>2. way = [s \in Index |-> NewWay(Ways)] /\ hits = 0 /\ hitMru = 0
  BY DEF SweepInit, Init
<1>3. way2 = [s \in Index |-> NewWay(FewWays)] /\ hits2 = 0 /\ hitMru2 = 0
  <2>1. way2 = [s \in Few!Index |-> Few!NewWay(FewWays)] /\ hits2 = 0 /\ hitMru2 = 0
    BY DEF SweepInit, Few!Init
  <2> QED BY <2>1, FewDefs
<1>4. ASSUME NEW s \in Index
      PROVE  WayOk(FewWays, way2[s], s) /\ IsPrefix(FewWays, Stack(way2[s]), Stack(way[s]))
  <2>1. /\ WayOk(FewWays, NewWay(FewWays), s) /\ Stack(NewWay(FewWays)) = << >>
        /\ Stack(NewWay(Ways)) = << >>
    BY NewWayOk, SweepAssumption, CacheAssumption
  <2>2. IsPrefix(FewWays, << >>, << >>)
    BY SweepAssumption DEF IsPrefix
  <2> QED BY <2>1, <2>2, <1>2, <1>3
<1> QED BY <1>1, <1>2, <1>3, <1>4 DEF SweepInv

\* An access to both caches preserves the invariant of the sweep.
LEMMA SweepInvStep ==
  ASSUME SweepInv, NEW line \in Lines, SweepAccess(line)
  PROVE  SweepInv'
<1> DEFINE s == line % Sets
           w == way[s]
           w2 == way2[s]
<1>0. FewWays \in Nat /\ 1 < FewWays /\ FewWays < Ways /\ Ways \in Nat /\ Ways > 1 /\ line \in Kept
  BY SweepAssumption, CacheAssumption DEF Kept
<1>1. s \in Index /\ WayOk(Ways, w, s) /\ WayOk(FewWays, w2, s) /\ IsPrefix(FewWays, Stack(w2), Stack(w))
  BY IndexOf DEF SweepInv, CacheInv
<1>2. CacheInv'
  BY CacheInvStep DEF SweepAccess, SweepInv
<1>3. /\ way' = [way EXCEPT ![s] = access(w, line)]
      /\ hits' = hits + Flag(IsHit(w, line)) /\ hitMru' = hitMru + Flag(IsMru(w, line))
  BY DEF SweepAccess, Access, Count
<1>4. /\ way2' = [way2 EXCEPT ![s] = access(w2, line)]
      /\ hits2' = hits2 + Flag(IsHit(w2, line)) /\ hitMru2' = hitMru2 + Flag(IsMru(w2, line))
  <2>1. /\ way2' = [way2 EXCEPT ![s] = Few!access(w2, line)]
        /\ hits2' = hits2 + Few!Flag(Few!IsHit(w2, line)) /\ hitMru2' = hitMru2 + Few!Flag(Few!IsMru(w2, line))
    BY DEF SweepAccess, Few!Access, Few!Count
  <2> QED BY <2>1, FewDefs
<1>5. /\ Stack(access(w, line)) = Stacks!Touched(Ways, Stack(w), line)
      /\ IsHit(w, line) <=> Stacks!At(Stack(w), line) # {}
      /\ IsMru(w, line) <=> 1 \in Stacks!At(Stack(w), line)
  BY <1>0, <1>1, AccessLists DEF WayOk
<1>6. /\ Stack(access(w2, line)) = Stacks!Touched(FewWays, Stack(w2), line)
      /\ IsHit(w2, line) <=> Stacks!At(Stack(w2), line) # {}
      /\ IsMru(w2, line) <=> 1 \in Stacks!At(Stack(w2), line)
  BY <1>0, <1>1, AccessLists DEF WayOk
<1>7. WayOk(FewWays, access(w2, line), s)
  BY <1>0, <1>1, WayStep
<1>8. /\ Stack(w) \in Seq(Kept) /\ Len(Stack(w)) <= Ways /\ Apart(Stack(w)) /\ Stack(w2) \in Seq(Kept)
  BY <1>0, <1>1, WayStack
<1>9. IsPrefix(FewWays, Stack(access(w2, line)), Stack(access(w, line)))
  BY <1>0, <1>1, <1>5, <1>6, <1>8, PrefixStep
<1>10. /\ IsHit(w2, line) => IsHit(w, line)
       /\ IsMru(w2, line) <=> IsMru(w, line)
  BY <1>0, <1>1, <1>5, <1>6, <1>8, PrefixMoved
<1> HIDE DEF s, w, w2
<1>11. /\ DOMAIN way2' = Index
       /\ \A r \in Index : WayOk(FewWays, way2'[r], r) /\ IsPrefix(FewWays, Stack(way2'[r]), Stack(way'[r]))
  <2>1. DOMAIN way2 = Index /\ DOMAIN way = Index
    BY DEF SweepInv, CacheInv
  <2>2. DOMAIN way2' = Index
    BY <2>1, <1>4
  <2>3. ASSUME NEW r \in Index
        PROVE  WayOk(FewWays, way2'[r], r) /\ IsPrefix(FewWays, Stack(way2'[r]), Stack(way'[r]))
    <3>1. CASE r = s
      <4>1. way2'[r] = access(w2, line) /\ way'[r] = access(w, line)
        BY <3>1, <2>1, <1>3, <1>4
      <4> QED BY <4>1, <3>1, <1>7, <1>9
    <3>2. CASE r # s
      <4>1. way2'[r] = way2[r] /\ way'[r] = way[r]
        BY <3>2, <2>1, <1>3, <1>4
      <4> QED BY <4>1 DEF SweepInv
    <3> QED BY <3>1, <3>2
  <2> QED BY <2>2, <2>3
<1>12. hits2' \in Nat /\ hits2' <= hits' /\ hitMru2' = hitMru'
  <2>1. hits \in Nat /\ hits2 \in Nat /\ hits2 <= hits /\ hitMru2 = hitMru
    BY CacheAssumption DEF SweepInv, CacheInv
  <2>2. /\ Flag(IsHit(w, line)) \in {0, 1} /\ Flag(IsHit(w2, line)) \in {0, 1}
        /\ Flag(IsHit(w2, line)) <= Flag(IsHit(w, line)) /\ Flag(IsMru(w2, line)) = Flag(IsMru(w, line))
    BY <1>10 DEF Flag
  <2> QED BY <2>1, <2>2, <1>3, <1>4
<1> QED BY <1>2, <1>11, <1>12 DEF SweepInv, Index, WayOk, Kept

\* The stack property of LRU: of two caches that differ in their ways, the one
\* with more keeps every line the other keeps, has at least its hits, and as
\* many hits on the head.
THEOREM SweepInclusion == SweepSpec => []Inclusion
<1>1. SweepInv /\ [SweepNext]_sweepVars => SweepInv'
  <2>1. ASSUME SweepInv, SweepNext PROVE SweepInv'
    BY <2>1, SweepInvStep DEF SweepNext
  <2>2. ASSUME SweepInv, UNCHANGED sweepVars PROVE SweepInv'
    BY <2>2 DEF sweepVars, vars, few, SweepInv, CacheInv
  <2> QED BY <2>1, <2>2
<1>2. SweepInv => Inclusion
  <2> SUFFICES ASSUME SweepInv PROVE Inclusion
    OBVIOUS
  <2>1. ASSUME NEW s \in Index PROVE LinesOf(way2[s]) \subseteq LinesOf(way[s])
    <3> DEFINE st == Stack(way[s])
               st2 == Stack(way2[s])
    <3>1. /\ IsPrefix(FewWays, st2, st) /\ st \in Seq(Kept) /\ st2 \in Seq(Kept)
          /\ FewWays \in Nat
      BY WayStack, SweepAssumption, CacheAssumption DEF SweepInv, CacheInv
    <3> HIDE DEF st, st2
    <3>2. /\ DOMAIN st = 1 .. Len(st) /\ DOMAIN st2 = 1 .. Len(st2) /\ Len(st) \in Nat
          /\ Len(st2) <= Len(st) /\ \A i \in 1 .. Len(st2) : st2[i] = st[i]
      BY <3>1 DEF IsPrefix
    <3>3. \A i \in DOMAIN st2 : i \in DOMAIN st /\ st2[i] = st[i]
      BY <3>1, <3>2
    <3> QED BY <3>3 DEF LinesOf, st, st2
  <2> QED BY <2>1 DEF Inclusion, SweepInv
<1> QED BY SweepInvInit, <1>1, <1>2, PTL DEF SweepSpec
=============================================================================
