----------------------------- MODULE MmuProofs -----------------------------
(***************************************************************************)
(* Theorems about Mmu, for every size of the tables and of the TLB, every  *)
(* page table the boot code and the program may write.                     *)
(***************************************************************************)
EXTENDS Mmu, TLAPS

\* Page tables only point to page tables.
PointersIn(mem) ==
    \A a \in Tables \X Index : IsPointer(mem[a]) => mem[a].ppn \in Tables

\* mem and new differ at most in accessed and dirty bits.
SameButAd(mem, new) ==
    \A a \in Tables \X Index :
        /\ new[a].v = mem[a].v /\ new[a].r = mem[a].r /\ new[a].w = mem[a].w
        /\ new[a].x = mem[a].x /\ new[a].u = mem[a].u /\ new[a].n = mem[a].n
        /\ new[a].ppn = mem[a].ppn
        /\ mem[a].a => new[a].a
        /\ mem[a].d => new[a].d

GoodMemory(mem) == mem \in Memory /\ PointersIn(mem)

\* what TlbCoherent says of one entry, for memory mem
GoodEntry(mem, e) ==
    /\ EntryPa(e) = WalkPa(mem, e.vpn)
    /\ LeafOf(mem, e.vpn).v /\ LeafOf(mem, e.vpn).a
    /\ e.dirty => LeafOf(mem, e.vpn).d
    /\ priv = U => LeafOf(mem, e.vpn).u

-----------------------------------------------------------------------------
(* The walk stays inside the page tables and does not look at A and D.     *)

LEMMA IndexType ==
    ASSUME NEW v \in Pages
    PROVE  VpnIndex(v, 0) \in Index /\ VpnIndex(v, 1) \in Index /\ VpnIndex(v, 2) \in Index
<1>1. v \in Nat
  BY SizesAssumption DEF Pages
<1>2. \A n \in Nat : n % Radix \in Index
  BY SizesAssumption DEF Index
<1>3. v \div Radix \in Nat /\ v \div (Radix * Radix) \in Nat
  BY <1>1, SizesAssumption
<1>. QED BY <1>1, <1>2, <1>3 DEF VpnIndex

LEMMA LeafAddrType ==
    ASSUME NEW mem, GoodMemory(mem), satp \in Tables, NEW v \in Pages
    PROVE  /\ LeafAddr(mem, v) \in Tables \X Index
           /\ Addr2(v) \in Tables \X Index
           /\ IsPointer(mem[Addr2(v)]) => Addr1(mem, v) \in Tables \X Index
           /\ LeafOf(mem, v) \in Pte
<1>1. Addr2(v) \in Tables \X Index
  BY IndexType DEF Addr2
<1>2. IsPointer(mem[Addr2(v)]) => Addr1(mem, v) \in Tables \X Index
  BY <1>1, IndexType DEF Addr1, GoodMemory, PointersIn
<1>3. IsPointer(mem[Addr2(v)]) /\ IsPointer(mem[Addr1(mem, v)])
        => Addr0(mem, v) \in Tables \X Index
  BY <1>2, IndexType DEF Addr0, GoodMemory, PointersIn
<1>4. LeafAddr(mem, v) \in Tables \X Index
  BY <1>1, <1>2, <1>3 DEF LeafAddr, LeafLevel
<1>. QED BY <1>1, <1>2, <1>4 DEF GoodMemory, Memory, LeafOf

LEMMA SameWalk ==
    ASSUME NEW mem, NEW new, GoodMemory(mem), SameButAd(mem, new),
           satp \in Tables, NEW v \in Pages
    PROVE  /\ LeafLevel(new, v) = LeafLevel(mem, v)
           /\ LeafAddr(new, v) = LeafAddr(mem, v)
           /\ Span(new, v) = Span(mem, v)
           /\ WalkPa(new, v) = WalkPa(mem, v)
<1>1. \A a \in Tables \X Index :
        /\ IsPointer(new[a]) = IsPointer(mem[a])
        /\ new[a].ppn = mem[a].ppn /\ new[a].n = mem[a].n
  BY DEF SameButAd, IsPointer
<1>2. IsPointer(mem[Addr2(v)]) => Addr1(new, v) = Addr1(mem, v)
  BY <1>1, LeafAddrType DEF Addr1
<1>3. LeafLevel(new, v) = LeafLevel(mem, v)
  BY <1>1, <1>2, LeafAddrType DEF LeafLevel
<1>4. IsPointer(mem[Addr2(v)]) /\ IsPointer(mem[Addr1(mem, v)])
        => Addr0(new, v) = Addr0(mem, v)
  BY <1>1, <1>2, LeafAddrType DEF Addr0
<1>5. LeafAddr(new, v) = LeafAddr(mem, v)
  BY <1>2, <1>3, <1>4 DEF LeafAddr, LeafLevel
<1>6. Span(new, v) = Span(mem, v)
  BY <1>1, <1>3, <1>5, LeafAddrType DEF Span
<1>. QED BY <1>1, <1>3, <1>5, <1>6, LeafAddrType DEF WalkPa

LEMMA SameButAdTrans ==
    ASSUME NEW m1, NEW m2, NEW m3, SameButAd(m1, m2), SameButAd(m2, m3)
    PROVE  SameButAd(m1, m3)
BY DEF SameButAd

LEMMA SameGood ==
    ASSUME NEW mem, NEW new \in Memory, GoodMemory(mem), SameButAd(mem, new)
    PROVE  GoodMemory(new)
BY DEF GoodMemory, PointersIn, SameButAd, IsPointer

\* An entry that was good stays good when A and D bits are set.
LEMMA SameEntry ==
    ASSUME NEW mem, NEW new, GoodMemory(mem), SameButAd(mem, new),
           satp \in Tables, NEW e, e.vpn \in Pages, GoodEntry(mem, e)
    PROVE  GoodEntry(new, e)
<1>1. LeafAddr(mem, e.vpn) \in Tables \X Index
  BY LeafAddrType
<1>. QED BY <1>1, SameWalk DEF GoodEntry, LeafOf, SameButAd

LEMMA SpanType ==
    ASSUME NEW mem, NEW v
    PROVE  Span(mem, v) \in Spans
BY DEF Span, Spans

\* The arithmetic of a big page stays among the physical pages.
LEMMA MaskedType ==
    ASSUME NEW ppn \in Pages, NEW v \in Pages,
           NEW span \in Spans
    PROVE  Masked(ppn, v, span) \in Pages
<1>. DEFINE N == Radix * Radix * Radix
<1>1. PICK k \in Nat : N = k * span
  <2>1. N = Radix * (Radix * Radix) /\ N = (Radix * Radix) * Radix /\ N = N * 1
    BY SizesAssumption
  <2>2. Radix \in Nat /\ Radix * Radix \in Nat /\ N \in Nat
    BY SizesAssumption
  <2>3. PICK j \in Nat : Radix = j * Napot
    <3>1. Radix \div Napot \in Nat /\ Radix = (Radix \div Napot) * Napot
      BY SizesAssumption
    <3>. QED BY <3>1
  <2>4. N = ((Radix * Radix) * j) * Napot /\ (Radix * Radix) * j \in Nat
    BY <2>1, <2>2, <2>3, SizesAssumption
  <2>. HIDE DEF N
  <2>. QED BY <2>1, <2>2, <2>4 DEF Spans
<1>2. span \in Nat \ {0}
  BY SizesAssumption DEF Spans
<1>3. N \in Nat /\ ppn \in 0 .. N - 1 /\ v \in Nat
  BY SizesAssumption DEF Pages
<1>. HIDE DEF N
<1>. DEFINE q == ppn \div span
<1>4. q \in Nat /\ q * span <= ppn
  BY <1>2, <1>3
<1>5. v % span \in 0 .. span - 1
  BY <1>2, <1>3
<1>. HIDE DEF q
<1>6. q * span < k * span
  BY <1>1, <1>2, <1>3, <1>4
<1>7. q < k
  BY <1>2, <1>4, <1>6
<1>8. (q + 1) * span <= k * span
  BY <1>2, <1>4, <1>7
<1>9. (q + 1) * span = q * span + span
  BY <1>2, <1>4
<1>10. q * span + (v % span) \in 0 .. N - 1
  BY <1>1, <1>2, <1>4, <1>5, <1>8, <1>9
<1>. QED BY <1>10 DEF Masked, Pages, N, q

-----------------------------------------------------------------------------
(* Marking a leaf, and walks in a row.                                     *)

\* what TlbCoherent says, for memory mem and TLB t
CoherentTlb(mem, t) ==
    \A i \in 0 .. Slots - 1 : t[i] # None =>
        /\ ~Unpaged
        /\ Slot(t[i].vpn) = i
        /\ ~edited => GoodEntry(mem, t[i])

AdSet(pte, new) ==
    \E x, y \in BOOLEAN : new = [pte EXCEPT !.a = @ \/ x, !.d = @ \/ y]

LEMMA MarkedType ==
    ASSUME NEW pte \in Pte, NEW kind \in Kinds, NEW new, new = Marked(pte, kind)
    PROVE  /\ new \in Pte
           /\ new.a
           /\ new.d <=> pte.d \/ kind = "store"
           /\ new.v = pte.v /\ new.r = pte.r /\ new.w = pte.w /\ new.x = pte.x
           /\ new.u = pte.u /\ new.n = pte.n /\ new.ppn = pte.ppn
           /\ AdSet(pte, new)
<1>. DEFINE d == pte.d \/ kind = "store"
            a == pte.a \/ TRUE
<1>1. d \in BOOLEAN /\ a = TRUE
  OBVIOUS
<1>2. new = [pte EXCEPT !.a = TRUE, !.d = d]
  BY DEF Marked
<1>3. new = [pte EXCEPT !.a = a, !.d = d]
  <2>. HIDE DEF d, a
  <2>. QED BY <1>1, <1>2
<1>4. /\ new \in Pte
      /\ new.a
      /\ new.d = d
      /\ new.v = pte.v /\ new.r = pte.r /\ new.w = pte.w /\ new.x = pte.x
      /\ new.u = pte.u /\ new.n = pte.n /\ new.ppn = pte.ppn
  <2>. HIDE DEF d
  <2>. QED BY <1>1, <1>2 DEF Pte
<1>5. new.d <=> d
  BY <1>4, Zenon
<1>6. AdSet(pte, new)
  <2>. DEFINE y == kind = "store"
  <2>1. new = [pte EXCEPT !.a = @ \/ TRUE, !.d = @ \/ y]
    BY <1>3
  <2>2. y \in BOOLEAN /\ TRUE \in BOOLEAN
    OBVIOUS
  <2>. HIDE DEF y
  <2>. QED BY <2>1, <2>2, Zenon DEF AdSet
<1>. QED BY <1>4, <1>5, <1>6, Zenon

LEMMA OnlyAdSame ==
    ASSUME NEW mem \in Memory, NEW new \in Memory, OnlyAd(mem, new)
    PROVE  SameButAd(mem, new)
<1>. SUFFICES ASSUME NEW a \in Tables \X Index, new[a] # mem[a]
              PROVE  /\ new[a].v = mem[a].v /\ new[a].r = mem[a].r
                     /\ new[a].w = mem[a].w /\ new[a].x = mem[a].x
                     /\ new[a].u = mem[a].u /\ new[a].n = mem[a].n
                     /\ new[a].ppn = mem[a].ppn
                     /\ mem[a].a => new[a].a
                     /\ mem[a].d => new[a].d
  BY DEF SameButAd
<1>1. mem[a] \in Pte
  BY DEF Memory
<1>2. PICK x, y \in BOOLEAN : new[a] = [mem[a] EXCEPT !.a = @ \/ x, !.d = @ \/ y]
  BY DEF OnlyAd
<1>. QED BY <1>1, <1>2 DEF Pte

LEMMA OnlyAdTrans ==
    ASSUME NEW m1 \in Memory, NEW m2 \in Memory, NEW m3 \in Memory,
           OnlyAd(m1, m2), OnlyAd(m2, m3)
    PROVE  OnlyAd(m1, m3)
<1>1. SameButAd(m1, m2) /\ SameButAd(m2, m3)
  BY OnlyAdSame
<1>. SUFFICES ASSUME NEW a \in Tables \X Index, m3[a] # m1[a]
              PROVE  /\ m1[a].v /\ ~IsPointer(m1[a])
                     /\ \E x, y \in BOOLEAN :
                            m3[a] = [m1[a] EXCEPT !.a = @ \/ x, !.d = @ \/ y]
                     /\ m3[a].d /\ ~m1[a].d => m1[a].w /\ m3[a].a
  BY DEF OnlyAd
<1>2. m1[a] \in Pte /\ m2[a] \in Pte /\ m3[a] \in Pte
  BY DEF Memory
<1>3. CASE m2[a] = m1[a]
  <2>1. m3[a] # m2[a]
    BY <1>3
  <2>2. \E x, y \in BOOLEAN : m3[a] = [m1[a] EXCEPT !.a = @ \/ x, !.d = @ \/ y]
    <3>1. PICK x, y \in BOOLEAN : m3[a] = [m2[a] EXCEPT !.a = @ \/ x, !.d = @ \/ y]
      BY <2>1 DEF OnlyAd
    <3>. QED BY <1>3, <3>1, Zenon
  <2>. QED BY <1>3, <2>1, <2>2 DEF OnlyAd
<1>5. CASE m3[a] = m2[a]
  <2>1. m2[a] # m1[a]
    BY <1>5
  <2>2. \E x, y \in BOOLEAN : m3[a] = [m1[a] EXCEPT !.a = @ \/ x, !.d = @ \/ y]
    <3>1. PICK x, y \in BOOLEAN : m2[a] = [m1[a] EXCEPT !.a = @ \/ x, !.d = @ \/ y]
      BY <2>1 DEF OnlyAd
    <3>. QED BY <1>5, <3>1, Zenon
  <2>. QED BY <1>5, <2>1, <2>2 DEF OnlyAd
<1>4. CASE m2[a] # m1[a] /\ m3[a] # m2[a]
  <2>1. m1[a].v /\ ~IsPointer(m1[a])
    BY <1>4 DEF OnlyAd
  <2>2. \E x, y \in BOOLEAN : m3[a] = [m1[a] EXCEPT !.a = @ \/ x, !.d = @ \/ y]
    <3>1. PICK x1, y1 \in BOOLEAN : m2[a] = [m1[a] EXCEPT !.a = @ \/ x1, !.d = @ \/ y1]
      BY <1>4 DEF OnlyAd
    <3>2. PICK x2, y2 \in BOOLEAN : m3[a] = [m2[a] EXCEPT !.a = @ \/ x2, !.d = @ \/ y2]
      BY <1>4 DEF OnlyAd
    <3>. DEFINE x == x1 \/ x2
                y == y1 \/ y2
                p == m1[a].a \/ x1
                q == m1[a].d \/ y1
                s == p \/ x2
                t == q \/ y2
    <3>3. p \in BOOLEAN /\ q \in BOOLEAN /\ s \in BOOLEAN /\ t \in BOOLEAN
      OBVIOUS
    <3>4. s = (m1[a].a \/ x) /\ t = (m1[a].d \/ y)
      OBVIOUS
    <3>5. m2[a] = [m1[a] EXCEPT !.a = p, !.d = q]
      BY <3>1
    <3>6. m2[a].a = p /\ m2[a].d = q
      <4>. HIDE DEF p, q
      <4>. QED BY <1>2, <3>5 DEF Pte
    <3>7. m3[a] = [m2[a] EXCEPT !.a = s, !.d = t]
      BY <3>2, <3>6
    <3>8. m3[a] = [m1[a] EXCEPT !.a = s, !.d = t]
      <4>. HIDE DEF p, q, s, t
      <4>. QED BY <1>2, <3>3, <3>5, <3>7 DEF Pte
    <3>9. m3[a] = [m1[a] EXCEPT !.a = @ \/ x, !.d = @ \/ y]
      BY <3>4, <3>8
    <3>10. x \in BOOLEAN /\ y \in BOOLEAN
      OBVIOUS
    <3>. HIDE DEF x, y
    <3>. QED BY <3>9, <3>10
  <2>3. m3[a].d /\ ~m1[a].d => m1[a].w /\ m3[a].a
    BY <1>1, <1>4 DEF OnlyAd, SameButAd
  <2>. QED BY <2>1, <2>2, <2>3
<1>. QED BY <1>3, <1>4, <1>5

-----------------------------------------------------------------------------
(* translate.                                                              *)

GoodTlb(mem, t) ==
    /\ t \in [0 .. Slots - 1 -> Entry \cup {None}]
    /\ CoherentTlb(mem, t)

LEMMA SlotType ==
    ASSUME NEW v \in Pages
    PROVE  Slot(v) \in 0 .. Slots - 1
<1>1. v \in Nat
  BY SizesAssumption DEF Pages
<1>. QED BY <1>1, SizesAssumption DEF Slot

LEMMA WalkPaType ==
    ASSUME NEW mem, GoodMemory(mem), satp \in Tables, NEW v \in Pages
    PROVE  WalkPa(mem, v) \in Pages
<1>1. LeafOf(mem, v).ppn \in Pages
  BY LeafAddrType DEF Pte
<1>. QED BY <1>1, SpanType, MaskedType DEF WalkPa, LeafOf

\* One walk that does not fault.
LEMMA WalkMarks ==
    ASSUME NEW mem, GoodMemory(mem), satp \in Tables, NEW v \in Pages,
           NEW kind \in Kinds, Permitted(mem[LeafAddr(mem, v)], kind),
           NEW new, new = [mem EXCEPT ![LeafAddr(mem, v)] = Marked(@, kind)]
    PROVE  /\ GoodMemory(new)
           /\ OnlyAd(mem, new)
           /\ SameButAd(mem, new)
           /\ LeafOf(new, v) = Marked(LeafOf(mem, v), kind)
<1>. DEFINE a == LeafAddr(mem, v)
<1>1. a \in Tables \X Index /\ mem[a] \in Pte /\ mem \in Memory
  BY LeafAddrType DEF GoodMemory, LeafOf
<1>. HIDE DEF a
<1>2. new = [mem EXCEPT ![a] = Marked(mem[a], kind)]
  BY DEF a
<1>3. Marked(mem[a], kind) \in Pte
  BY <1>1, MarkedType
<1>4. new \in Memory
  BY <1>1, <1>2, <1>3 DEF Memory
<1>5. new[a] = Marked(mem[a], kind) /\ \A b \in Tables \X Index : b # a => new[b] = mem[b]
  BY <1>1, <1>2 DEF Memory
<1>6. mem[a].v /\ ~IsPointer(mem[a]) /\ (kind = "store" => mem[a].w)
  BY DEF Permitted, IsPointer, Kinds, a
<1>7. OnlyAd(mem, new)
  <2>. SUFFICES ASSUME NEW b \in Tables \X Index, new[b] # mem[b]
                PROVE  /\ mem[b].v /\ ~IsPointer(mem[b])
                       /\ \E x, y \in BOOLEAN :
                            new[b] = [mem[b] EXCEPT !.a = @ \/ x, !.d = @ \/ y]
                       /\ new[b].d /\ ~mem[b].d => mem[b].w /\ new[b].a
    BY DEF OnlyAd
  <2>1. b = a
    BY <1>5
  <2>2. AdSet(mem[a], new[a])
    BY <1>1, <1>5, MarkedType
  <2>3. \E x, y \in BOOLEAN : new[a] = [mem[a] EXCEPT !.a = @ \/ x, !.d = @ \/ y]
    BY <2>2, Zenon DEF AdSet
  <2>4. new[a].a /\ (new[a].d => mem[a].d \/ kind = "store")
    BY <1>1, <1>5, MarkedType, Zenon
  <2>5. new[a].d /\ ~mem[a].d => mem[a].w /\ new[a].a
    <3>. DEFINE st == kind = "store"
    <3>1. /\ new[a].a
          /\ new[a].d => mem[a].d \/ st
          /\ st => mem[a].w
      BY <1>6, <2>4
    <3>. HIDE DEF st
    <3>. QED BY <3>1, Zenon
  <2>. QED BY <1>6, <2>1, <2>3, <2>5, Zenon
<1>8. SameButAd(mem, new)
  BY <1>1, <1>4, <1>7, OnlyAdSame
<1>9. LeafAddr(new, v) = a
  BY <1>8, SameWalk DEF a
<1>. QED BY <1>4, <1>5, <1>7, <1>8, <1>9, SameGood DEF LeafOf, a

\* The whole of translate, with or without the TLB.
LEMMA TranslateSound ==
    ASSUME NEW mem, GoodMemory(mem), NEW t, GoodTlb(mem, t),
           satp \in Roots \cup {None}, priv \in Privs,
           NEW v \in Pages, NEW kind \in Kinds,
           NEW r, r = Translate(mem, t, v, kind)
    PROVE  /\ GoodMemory(r.pt) /\ OnlyAd(mem, r.pt)
           /\ GoodTlb(r.pt, r.tlb)
           /\ r.fault \in BOOLEAN /\ r.pa \in Pages
           /\ Unpaged => r.pa = v
           /\ ~Unpaged /\ ~edited /\ ~r.fault => r.pa = WalkPa(mem, v)
<1>. DEFINE a == LeafAddr(mem, v)
            walked == [mem EXCEPT ![a] = Marked(@, kind)]
            same == [pt |-> mem, tlb |-> t, pa |-> v, fault |-> FALSE]
            Goal == /\ GoodMemory(r.pt) /\ OnlyAd(mem, r.pt)
                    /\ GoodTlb(r.pt, r.tlb)
                    /\ r.fault \in BOOLEAN /\ r.pa \in Pages
                    /\ Unpaged => r.pa = v
                    /\ ~Unpaged /\ ~edited /\ ~r.fault => r.pa = WalkPa(mem, v)
<1>1. OnlyAd(mem, mem)
  BY DEF OnlyAd
<1>2. CASE Unpaged
  <2>1. r = same
    BY <1>2 DEF Translate
  <2>. QED BY <1>1, <1>2, <2>1
<1>3. CASE ~Unpaged /\ Usable(t, v, kind)
  <2>. DEFINE e == t[Slot(v)]
  <2>1. r = [same EXCEPT !.pa = EntryPa(e)]
    BY <1>3 DEF Translate
  <2>2. e \in Entry /\ e # None /\ e.vpn = v /\ Slot(v) \in 0 .. Slots - 1
    BY <1>3, SlotType, PagesAssumption DEF Usable, Hit, GoodTlb
  <2>3. ~edited => EntryPa(e) = WalkPa(mem, v)
    BY <2>2 DEF GoodTlb, CoherentTlb, GoodEntry
  <2>4. EntryPa(e) \in Pages
    BY <2>2, MaskedType DEF EntryPa, Entry
  <2>. HIDE DEF e
  <2>. QED BY <1>1, <1>3, <2>1, <2>3, <2>4
<1>4. CASE ~Unpaged /\ ~Usable(t, v, kind) /\ ~Permitted(mem[a], kind)
  <2>1. r = [same EXCEPT !.fault = TRUE]
    BY <1>4 DEF Translate
  <2>. QED BY <1>1, <1>4, <2>1
<1>5. CASE ~Unpaged /\ ~Usable(t, v, kind) /\ Permitted(mem[a], kind)
  <2>1. r = [pt |-> walked, tlb |-> Inserted(t, walked, v),
             pa |-> WalkPa(mem, v), fault |-> FALSE]
    BY <1>5 DEF Translate
  <2>2. satp \in Tables
    BY <1>5, PagesAssumption DEF Unpaged
  <2>3. /\ GoodMemory(walked) /\ OnlyAd(mem, walked) /\ SameButAd(mem, walked)
        /\ LeafOf(walked, v) = Marked(LeafOf(mem, v), kind)
    BY <1>5, <2>2, WalkMarks
  <2>4. WalkPa(mem, v) \in Pages
    BY <2>2, WalkPaType
  <2>. DEFINE ins == [vpn |-> v, ppn |-> LeafOf(walked, v).ppn,
                      span |-> Span(walked, v), dirty |-> LeafOf(walked, v).d]
              new == Inserted(t, walked, v)
  <2>. HIDE DEF walked
  <2>5. new = [t EXCEPT ![Slot(v)] = ins]
    BY DEF Inserted, LeafOf
  <2>6. ins \in Entry
    BY <2>2, <2>3, LeafAddrType, SpanType DEF Entry, Pte
  <2>7. GoodEntry(walked, ins)
    <3>1. LeafOf(mem, v) \in Pte
      BY <2>2, LeafAddrType
    <3>2. LeafOf(mem, v).v /\ (priv = U => LeafOf(mem, v).u)
      BY <1>5 DEF Permitted, LeafOf
    <3>3. EntryPa(ins) = WalkPa(walked, v)
      BY DEF EntryPa, WalkPa, LeafOf
    <3>4. LeafOf(walked, v).v /\ LeafOf(walked, v).a
          /\ (priv = U => LeafOf(walked, v).u)
      BY <2>3, <3>1, <3>2, MarkedType
    <3>5. ins.vpn = v /\ (ins.dirty => LeafOf(walked, v).d)
      <4>. DEFINE ppn == LeafOf(walked, v).ppn
                  dirty == LeafOf(walked, v).d
                  span == Span(walked, v)
      <4>1. ins = [vpn |-> v, ppn |-> ppn, span |-> span, dirty |-> dirty]
        OBVIOUS
      <4>2. dirty \in BOOLEAN
        BY <2>3, <3>1, MarkedType DEF Pte
      <4>. HIDE DEF ppn, span, dirty, ins
      <4>3. ins.vpn = v /\ ins.dirty = dirty
        BY <4>1
      <4>. QED BY <4>2, <4>3 DEF dirty
    <3>. HIDE DEF ins
    <3>. QED BY <3>3, <3>4, <3>5 DEF GoodEntry
  <2>8. GoodTlb(walked, new)
    <3>1. new \in [0 .. Slots - 1 -> Entry \cup {None}]
      BY <2>5, <2>6, SlotType DEF GoodTlb
    <3>2. ASSUME NEW i \in 0 .. Slots - 1, new[i] # None
          PROVE  Slot(new[i].vpn) = i /\ (~edited => GoodEntry(walked, new[i]))
      <4>1. CASE i = Slot(v)
        <5>1. new[i] = ins
          BY <2>5, <4>1 DEF GoodTlb
        <5>. HIDE DEF new
        <5>. QED BY <2>7, <4>1, <5>1
      <4>2. CASE i # Slot(v)
        <5>1. new[i] = t[i]
          BY <2>5, <4>2 DEF GoodTlb
        <5>2. t[i] # None /\ t[i].vpn \in Pages
          BY <3>2, <5>1 DEF GoodTlb, Entry
        <5>. HIDE DEF new
        <5>. QED BY <2>2, <2>3, <5>1, <5>2, SameEntry DEF GoodTlb, CoherentTlb
      <4>. QED BY <4>1, <4>2
    <3>. HIDE DEF new
    <3>. QED BY <1>5, <3>1, <3>2 DEF GoodTlb, CoherentTlb
  <2>. HIDE DEF new
  <2>. QED BY <1>5, <2>1, <2>3, <2>4, <2>8 DEF new
<1>. QED BY <1>2, <1>3, <1>4, <1>5

-----------------------------------------------------------------------------
(* The inductive invariant.  It adds to the properties that memory never   *)
(* points outside the page tables.                                         *)

IInv ==
    /\ TypeOK
    /\ PointersIn(pt)
    /\ CoherentTlb(pt, tlb)
    /\ SavedPageCoherent

\* r is what a sequence of translations from this state may leave
GoodResult(r) ==
    /\ GoodMemory(r.pt) /\ OnlyAd(pt, r.pt)
    /\ GoodTlb(r.pt, r.tlb)
    /\ r.fault \in BOOLEAN /\ r.pa \in Pages

GoodFetch(v, f) ==
    /\ GoodResult(f)
    /\ ~f.fault /\ FetchFresh(v) => f.pa = IF Unpaged THEN v ELSE WalkPa(f.pt, v)

LEMMA FetchSound ==
    ASSUME IInv, NEW v \in Vpns, NEW f, f = Fetched(v)
    PROVE  GoodFetch(v, f)
<1>1. /\ GoodMemory(pt) /\ GoodTlb(pt, tlb) /\ OnlyAd(pt, pt)
      /\ satp \in Roots \cup {None} /\ priv \in Privs /\ v \in Pages
  BY PagesAssumption DEF IInv, TypeOK, GoodMemory, GoodTlb, OnlyAd
<1>2. CASE Reuse(v)
  <2>1. f = [pt |-> pt, tlb |-> tlb, pa |-> lastPhys, fault |-> FALSE]
    BY <1>2 DEF Fetched
  <2>2. lastPhys \in Pages /\ lastPhys # -1 /\ lastPage = v
    BY <1>2 DEF Reuse, IInv, TypeOK
  <2>3. FetchFresh(v) = fresh
    BY <1>2 DEF FetchFresh
  <2>4. fresh => lastPhys = IF Unpaged THEN v ELSE WalkPa(pt, v)
    BY <2>2 DEF IInv, SavedPageCoherent
  <2>. QED BY <1>1, <2>1, <2>2, <2>3, <2>4 DEF GoodFetch, GoodResult
<1>3. CASE ~Reuse(v)
  <2>1. f = Translate(pt, tlb, v, "fetch") /\ (FetchFresh(v) => ~edited)
    BY <1>3 DEF Fetched, FetchFresh
  <2>2. GoodResult(f) /\ (Unpaged => f.pa = v)
        /\ (~Unpaged /\ ~edited /\ ~f.fault => f.pa = WalkPa(pt, v))
    BY <1>1, <2>1, TranslateSound DEF Kinds, GoodResult
  <2>3. ~Unpaged => WalkPa(f.pt, v) = WalkPa(pt, v)
    BY <1>1, <2>2, OnlyAdSame, SameWalk, PagesAssumption
       DEF GoodResult, GoodMemory, Unpaged
  <2>. QED BY <2>1, <2>2, <2>3 DEF GoodFetch
<1>. QED BY <1>2, <1>3

LEMMA AccessSound ==
    ASSUME IInv, NEW f, GoodResult(f), NEW d \in Vpns, NEW kind \in Kinds,
           NEW r, r = Translate(f.pt, f.tlb, d, kind)
    PROVE  GoodResult(r) /\ OnlyAd(f.pt, r.pt)
<1>1. satp \in Roots \cup {None} /\ priv \in Privs /\ d \in Pages /\ pt \in Memory
  BY PagesAssumption DEF IInv, TypeOK
<1>2. /\ GoodMemory(r.pt) /\ OnlyAd(f.pt, r.pt) /\ GoodTlb(r.pt, r.tlb)
      /\ r.fault \in BOOLEAN /\ r.pa \in Pages
  BY <1>1, TranslateSound DEF GoodResult
<1>3. OnlyAd(pt, r.pt)
  BY <1>1, <1>2, OnlyAdTrans DEF GoodResult, GoodMemory
<1>. QED BY <1>2, <1>3 DEF GoodResult

\* What a step that keeps priv and satp owes.
LEMMA Kept ==
    ASSUME UNCHANGED <<priv, satp, edited>>, CoherentTlb(pt', tlb')
    PROVE  CoherentTlb(pt, tlb)'
<1>. SUFFICES ASSUME NEW i \in 0 .. Slots - 1, tlb'[i] # None
              PROVE  /\ ~Unpaged' /\ (Slot(tlb[i].vpn) = i)'
                     /\ ~edited' => GoodEntry(pt, tlb[i])'
  BY DEF CoherentTlb
<1>1. ~Unpaged /\ Slot(tlb'[i].vpn) = i
  BY DEF CoherentTlb
<1>2. ASSUME ~edited'  PROVE GoodEntry(pt, tlb[i])'
  <2>1. GoodEntry(pt', tlb'[i])
    BY <1>2 DEF CoherentTlb
  <2>. QED BY <2>1 DEF GoodEntry, LeafOf, EntryPa, WalkPa, LeafAddr, LeafLevel, Span,
                       Addr2, Addr1, Addr0
<1>. QED BY <1>1, <1>2 DEF Unpaged, Slot

LEMMA KeptPage ==
    ASSUME UNCHANGED <<priv, satp>>,
           fresh' /\ lastPhys' # -1 =>
               lastPhys' = IF Unpaged THEN lastPage' ELSE WalkPa(pt', lastPage')
    PROVE  SavedPageCoherent'
BY DEF SavedPageCoherent, WalkPa, LeafAddr, LeafLevel, Span, Addr2, Addr1, Addr0, Unpaged

\* An empty TLB and a forgotten page agree with anything.
LEMMA EmptyTlb ==
    ASSUME tlb' = NoTlb
    PROVE  CoherentTlb(pt, tlb)' /\ tlb' \in [0 .. Slots - 1 -> Entry \cup {None}]
BY DEF CoherentTlb, NoTlb

-----------------------------------------------------------------------------
(* Every step keeps the invariant.                                         *)

LEMMA SetPrivSound ==
    ASSUME IInv, NEW r, GoodResult(r), NEW p \in Privs, SetPriv(p, r.tlb),
           pt' = r.pt, satp' = satp
    PROVE  /\ priv' \in Privs /\ edited' \in BOOLEAN
           /\ tlb' \in [0 .. Slots - 1 -> Entry \cup {None}]
           /\ CoherentTlb(pt, tlb)'
<1>1. priv' \in Privs /\ edited' \in BOOLEAN
  BY DEF SetPriv
<1>2. CASE p = priv
  <2>1. priv' = priv /\ tlb' = r.tlb
    BY <1>2 DEF SetPriv
  <2>2. edited' = edited
    BY <1>2, Zenon DEF SetPriv, IInv, TypeOK
  <2>3. CoherentTlb(pt', tlb')
    BY <2>1 DEF GoodResult, GoodTlb
  <2>. QED BY <1>1, <2>1, <2>2, <2>3, Kept DEF GoodResult, GoodTlb
<1>3. CASE p # priv
  BY <1>1, <1>3, EmptyTlb DEF SetPriv
<1>. QED BY <1>2, <1>3

\* handle_exception, in its two settings
LEMMA TrapSound ==
    ASSUME IInv, NEW r, GoodResult(r), NEW p \in Privs, SetPriv(p, r.tlb),
           pt' = r.pt, lastPage' \in Pages, lastPhys' = -1, fresh' = TRUE,
           UNCHANGED <<satp, dtlb, edits>>
    PROVE  IInv' /\ OnlyAd(pt, pt')
<1>1. GoodMemory(pt') /\ OnlyAd(pt, pt')
  BY DEF GoodResult
<1>2. /\ priv' \in Privs /\ edited' \in BOOLEAN
      /\ tlb' \in [0 .. Slots - 1 -> Entry \cup {None}]
      /\ CoherentTlb(pt, tlb)'
  BY SetPrivSound
<1>3. SavedPageCoherent'
  BY DEF SavedPageCoherent
<1>4. TypeOK'
  BY <1>1, <1>2 DEF IInv, TypeOK, GoodMemory
<1>. QED BY <1>1, <1>2, <1>3, <1>4 DEF IInv, GoodMemory, PointersIn

\* what a completed instruction leaves in last_pc and last_phys_pc
LEMMA RememberSound ==
    ASSUME IInv, NEW v \in Vpns, NEW f, GoodFetch(v, f), ~f.fault,
           Remember(v, f), UNCHANGED <<priv, satp>>,
           fresh' => FetchFresh(v), GoodMemory(f.pt), OnlyAd(f.pt, pt'), pt' \in Memory
    PROVE  SavedPageCoherent'
<1>1. lastPage' = v /\ lastPhys' = f.pa /\ v \in Pages
  BY PagesAssumption DEF Remember
<1>2. fresh' => f.pa = IF Unpaged THEN v ELSE WalkPa(f.pt, v)
  BY DEF GoodFetch
<1>3. ~Unpaged => WalkPa(pt', v) = WalkPa(f.pt, v)
  BY <1>1, OnlyAdSame, SameWalk, PagesAssumption DEF IInv, TypeOK, Unpaged, GoodMemory
<1>. QED BY <1>1, <1>2, <1>3, KeptPage

LEMMA CompleteSound ==
    ASSUME IInv, NEW v \in Vpns, NEW f, GoodFetch(v, f), ~f.fault,
           NEW r, GoodResult(r), OnlyAd(f.pt, r.pt), Complete(v, f, r)
    PROVE  IInv' /\ OnlyAd(pt, pt')
<1>1. /\ pt' = r.pt /\ tlb' = r.tlb /\ Remember(v, f) /\ fresh' = FetchFresh(v)
      /\ UNCHANGED <<priv, satp, dtlb, edits, edited>>
  BY DEF Complete
<1>2. /\ GoodMemory(pt') /\ OnlyAd(pt, pt') /\ GoodTlb(pt', tlb')
      /\ GoodMemory(f.pt) /\ OnlyAd(f.pt, pt') /\ pt' \in Memory
  BY <1>1 DEF GoodResult, GoodFetch, GoodMemory
<1>3. CoherentTlb(pt, tlb)'
  BY <1>1, <1>2, Kept DEF GoodTlb
<1>4. SavedPageCoherent'
  BY <1>1, <1>2, RememberSound
<1>5. TypeOK'
  <2>1. FetchFresh(v) \in BOOLEAN
    BY DEF FetchFresh, IInv, TypeOK
  <2>2. lastPage' \in Pages /\ lastPhys' \in Pages
    BY <1>1, PagesAssumption DEF Remember, GoodFetch, GoodResult
  <2>. QED BY <1>1, <1>2, <2>1, <2>2 DEF IInv, TypeOK, GoodTlb
<1>. QED BY <1>2, <1>3, <1>4, <1>5 DEF IInv, GoodMemory, PointersIn

LEMMA InstructionTrapSound ==
    ASSUME IInv, NEW v \in Vpns, NEW f, NEW r, GoodResult(r), InstructionTrap(v, f, r)
    PROVE  IInv' /\ OnlyAd(pt, pt')
<1>1. PICK p \in {S, M} : SetPriv(p, r.tlb)
  BY DEF InstructionTrap
<1>2. p \in Privs /\ v \in Pages
  BY PagesAssumption DEF Privs
<1>. QED BY <1>1, <1>2, TrapSound DEF InstructionTrap

LEMMA StorePteSound ==
    ASSUME IInv, NEW v \in Vpns, NEW f, GoodFetch(v, f), NEW r, GoodResult(r),
           r.pa \in Tables, NEW i \in Index, NEW pte \in PteWrites,
           StorePte(v, f, r, i, pte)
    PROVE  IInv' /\ edits' # edits
<1>1. /\ edits < MaxEdits /\ edits' = edits + 1
      /\ pt' = [r.pt EXCEPT ![<<r.pa, i>>] = pte] /\ tlb' = r.tlb
      /\ lastPage' = v /\ lastPhys' = f.pa /\ fresh' = FALSE /\ edited' = TRUE
      /\ UNCHANGED <<priv, satp, dtlb>>
  BY DEF StorePte, Remember
<1>2. r.pt \in Memory /\ PointersIn(r.pt) /\ pte \in Pte /\ <<r.pa, i>> \in Tables \X Index
  BY PagesAssumption DEF GoodResult, GoodMemory
<1>3. pt' \in Memory
  BY <1>1, <1>2 DEF Memory
<1>4. PointersIn(pt)'
  <2>1. ASSUME NEW a \in Tables \X Index, IsPointer(pt'[a])
        PROVE  pt'[a].ppn \in Tables
    BY <1>1, <1>2, <2>1, TablesAssumption DEF Memory, PointersIn
  <2>. QED BY <2>1 DEF PointersIn, IsPointer
<1>5. CoherentTlb(pt, tlb)'
  BY <1>1 DEF GoodResult, GoodTlb, CoherentTlb, Unpaged, Slot
<1>6. SavedPageCoherent'
  BY <1>1 DEF SavedPageCoherent
<1>7. edits' \in 0 .. MaxEdits /\ edits' # edits
  BY <1>1, SizesAssumption DEF IInv, TypeOK
<1>8. lastPage' \in Pages /\ lastPhys' \in Pages
  BY <1>1, PagesAssumption DEF GoodFetch, GoodResult
<1>9. TypeOK'
  BY <1>1, <1>3, <1>7, <1>8 DEF IInv, TypeOK, GoodResult, GoodTlb
<1>. QED BY <1>4, <1>5, <1>6, <1>7, <1>9 DEF IInv

LEMMA SfenceSound ==
    ASSUME IInv, NEW v \in Vpns, NEW f, GoodFetch(v, f), ~f.fault, Sfence(v, f)
    PROVE  IInv' /\ OnlyAd(pt, pt')
<1>1. /\ pt' = f.pt /\ tlb' = NoTlb /\ Remember(v, f) /\ fresh' = FetchFresh(v)
      /\ edited' = FALSE /\ UNCHANGED <<priv, satp, dtlb, edits>>
  BY DEF Sfence
<1>2. GoodMemory(pt') /\ OnlyAd(pt, pt') /\ GoodMemory(f.pt) /\ pt' \in Memory
      /\ OnlyAd(f.pt, pt')
  BY <1>1 DEF GoodResult, GoodFetch, GoodMemory, OnlyAd
<1>3. SavedPageCoherent'
  BY <1>1, <1>2, RememberSound
<1>4. TypeOK'
  <2>1. FetchFresh(v) \in BOOLEAN
    BY DEF FetchFresh, IInv, TypeOK
  <2>2. lastPage' \in Pages /\ lastPhys' \in Pages
    BY <1>1, PagesAssumption DEF Remember, GoodFetch, GoodResult
  <2>. QED BY <1>1, <1>2, <2>1, <2>2, EmptyTlb DEF IInv, TypeOK
<1>. QED BY <1>1, <1>2, <1>3, <1>4, EmptyTlb DEF IInv, GoodMemory, PointersIn

LEMMA WriteSatpSound ==
    ASSUME IInv, NEW v \in Vpns, NEW f, GoodFetch(v, f), NEW root \in Roots,
           WriteSatp(v, f, root)
    PROVE  IInv' /\ OnlyAd(pt, pt')
<1>1. /\ pt' = f.pt /\ satp' = root /\ tlb' = NoTlb /\ edited' = FALSE
      /\ lastPage' = v /\ lastPhys' = -1 /\ fresh' = TRUE
      /\ UNCHANGED <<priv, dtlb, edits>>
  BY DEF WriteSatp
<1>2. GoodMemory(pt') /\ OnlyAd(pt, pt')
  BY <1>1 DEF GoodResult, GoodFetch
<1>3. TypeOK'
  BY <1>1, <1>2, EmptyTlb, PagesAssumption DEF IInv, TypeOK, GoodMemory
<1>4. SavedPageCoherent'
  BY <1>1 DEF SavedPageCoherent
<1>. QED BY <1>1, <1>2, <1>3, <1>4, EmptyTlb DEF IInv, GoodMemory, PointersIn

LEMMA XretSound ==
    ASSUME IInv, NEW v \in Vpns, NEW f, GoodFetch(v, f), ~f.fault,
           NEW p \in Privs, Xret(v, f, p)
    PROVE  IInv' /\ OnlyAd(pt, pt')
<1>1. /\ SetPriv(p, f.tlb) /\ pt' = f.pt /\ Remember(v, f)
      /\ fresh' = (FetchFresh(v) /\ p = priv) /\ UNCHANGED <<satp, dtlb, edits>>
  BY DEF Xret
<1>2. GoodMemory(pt') /\ OnlyAd(pt, pt') /\ GoodMemory(f.pt) /\ pt' \in Memory
      /\ OnlyAd(f.pt, pt')
  BY <1>1 DEF GoodResult, GoodFetch, GoodMemory, OnlyAd
<1>3. /\ priv' \in Privs /\ edited' \in BOOLEAN
      /\ tlb' \in [0 .. Slots - 1 -> Entry \cup {None}]
      /\ CoherentTlb(pt, tlb)'
  BY <1>1, SetPrivSound DEF GoodFetch
<1>4. SavedPageCoherent'
  <2>1. CASE p = priv
    <3>1. UNCHANGED <<priv, satp>> /\ (fresh' => FetchFresh(v))
      BY <1>1, <2>1 DEF SetPriv
    <3>. QED BY <1>1, <1>2, <3>1, RememberSound
  <2>2. CASE p # priv
    BY <1>1, <2>2 DEF SavedPageCoherent
  <2>. QED BY <2>1, <2>2
<1>5. TypeOK'
  <2>1. fresh' \in BOOLEAN
    BY <1>1
  <2>2. lastPage' \in Pages /\ lastPhys' \in Pages
    BY <1>1, PagesAssumption DEF Remember, GoodFetch, GoodResult
  <2>. QED BY <1>1, <1>2, <1>3, <2>1, <2>2 DEF IInv, TypeOK
<1>. QED BY <1>2, <1>3, <1>4, <1>5 DEF IInv, GoodMemory, PointersIn

LEMMA SampledSound ==
    ASSUME IInv, NEW v \in Vpns, NEW f, GoodFetch(v, f), ~f.fault, Sampled(v, f)
    PROVE  IInv' /\ OnlyAd(pt, pt')
<1>1. PICK r \in {Translate(f.pt, f.tlb, v, "fetch")} :
            Complete(v, f, [r EXCEPT !.fault = FALSE])
  BY DEF Sampled
<1>2. GoodResult(r) /\ OnlyAd(f.pt, r.pt)
  BY AccessSound DEF GoodFetch, Kinds
<1>. DEFINE q == [r EXCEPT !.fault = FALSE]
<1>3. q.pt = r.pt /\ q.tlb = r.tlb /\ q.pa = r.pa /\ q.fault = FALSE
  <2>. DEFINE translated == Translate(f.pt, f.tlb, v, "fetch")
              a == LeafAddr(f.pt, v)
              walked == [f.pt EXCEPT ![a] = Marked(@, "fetch")]
              same == [pt |-> f.pt, tlb |-> f.tlb, pa |-> v, fault |-> FALSE]
  <2>1. \E x, y, z, w : translated = [pt |-> x, tlb |-> y, pa |-> z, fault |-> w]
    <3>1. \/ translated = same
          \/ translated = [same EXCEPT !.pa = EntryPa(f.tlb[Slot(v)])]
          \/ translated = [same EXCEPT !.fault = TRUE]
          \/ translated = [pt |-> walked, tlb |-> Inserted(f.tlb, walked, v),
                           pa |-> WalkPa(f.pt, v), fault |-> FALSE]
      BY DEF Translate
    <3>. HIDE DEF translated, walked
    <3>. QED BY <3>1
  <2>. HIDE DEF translated
  <2>. QED BY <2>1 DEF translated
<1>4. GoodResult(q) /\ OnlyAd(f.pt, q.pt)
  <2>. HIDE DEF q
  <2>. QED BY <1>2, <1>3 DEF GoodResult
<1>. QED BY <1>1, <1>4, CompleteSound

\* The translation that an atomic instruction makes before.
LEMMA BeforeSound ==
    ASSUME IInv, NEW v \in Vpns, NEW f, GoodFetch(v, f), ~f.fault, NEW d \in Vpns,
           NEW s \in Before(f, d)
    PROVE  GoodResult(s) /\ OnlyAd(f.pt, s.pt)
<1>1. PICK kind \in {"load", "store"} : s = Translate(f.pt, f.tlb, d, kind)
  BY DEF Before
<1>. QED BY <1>1, AccessSound DEF Kinds, GoodFetch

\* A store after its translation.
LEMMA StoredSound ==
    ASSUME IInv, NEW v \in Vpns, NEW f, GoodFetch(v, f), ~f.fault,
           NEW r, GoodResult(r), OnlyAd(f.pt, r.pt), Stored(v, f, r)
    PROVE  IInv' /\ (edits' = edits => OnlyAd(pt, pt'))
<1>1. CASE r.fault /\ InstructionTrap(v, f, r)
  BY <1>1, InstructionTrapSound
<1>2. CASE ~r.fault /\ r.pa \notin Tables /\ Complete(v, f, r)
  BY <1>2, CompleteSound
<1>3. CASE /\ ~r.fault /\ r.pa \in Tables
           /\ \E i \in Index, pte \in PteWrites : StorePte(v, f, r, i, pte)
  BY <1>3, StorePteSound
<1>. QED BY <1>1, <1>2, <1>3 DEF Stored

LEMMA AccessStep ==
    ASSUME IInv, NEW v \in Vpns, NEW f, GoodFetch(v, f), ~f.fault, NEW d \in Vpns,
           Load(v, f, d) \/ Lr(v, f, d) \/ Store(v, f, d) \/ Amo(v, f, d)
    PROVE  IInv' /\ (edits' = edits => OnlyAd(pt, pt'))
<1>1. GoodResult(f)
  BY DEF GoodFetch
<1>2. "load" \in Kinds /\ "store" \in Kinds
  BY DEF Kinds
<1>3. CASE Load(v, f, d)
  <2>1. PICK r \in {Translate(f.pt, f.tlb, d, "load")} :
            Complete(v, f, r) \/ (r.fault /\ InstructionTrap(v, f, r))
    BY <1>3 DEF Load
  <2>2. GoodResult(r) /\ OnlyAd(f.pt, r.pt)
    BY <1>1, <1>2, AccessSound
  <2>. QED BY <2>1, <2>2, CompleteSound, InstructionTrapSound
<1>4. CASE Lr(v, f, d)
  <2>1. PICK s \in Before(f, d) :
            \E r \in {Translate(s.pt, s.tlb, d, "load")} :
                Complete(v, f, r) \/ (r.fault /\ InstructionTrap(v, f, r))
    BY <1>4 DEF Lr
  <2>2. PICK r \in {Translate(s.pt, s.tlb, d, "load")} :
            Complete(v, f, r) \/ (r.fault /\ InstructionTrap(v, f, r))
    BY <2>1
  <2>3. GoodResult(s) /\ OnlyAd(f.pt, s.pt)
    BY BeforeSound
  <2>4. GoodResult(r) /\ OnlyAd(s.pt, r.pt)
    BY <1>2, <2>3, AccessSound
  <2>5. OnlyAd(f.pt, r.pt)
    BY <1>1, <2>3, <2>4, OnlyAdTrans DEF GoodResult, GoodMemory
  <2>. QED BY <2>2, <2>4, <2>5, CompleteSound, InstructionTrapSound
<1>5. CASE Store(v, f, d)
  <2>1. PICK r \in {Translate(f.pt, f.tlb, d, "store")} : Stored(v, f, r)
    BY <1>5 DEF Store
  <2>2. GoodResult(r) /\ OnlyAd(f.pt, r.pt)
    BY <1>1, <1>2, AccessSound
  <2>. QED BY <2>1, <2>2, StoredSound
<1>6. CASE Amo(v, f, d)
  <2>1. PICK s \in Before(f, d) :
            \E r \in {Translate(s.pt, s.tlb, d, "store")} :
                Stored(v, f, r) \/ Complete(v, f, r)
    BY <1>6 DEF Amo
  <2>2. PICK r \in {Translate(s.pt, s.tlb, d, "store")} :
            Stored(v, f, r) \/ Complete(v, f, r)
    BY <2>1
  <2>3. GoodResult(s) /\ OnlyAd(f.pt, s.pt)
    BY BeforeSound
  <2>4. GoodResult(r) /\ OnlyAd(s.pt, r.pt)
    BY <1>2, <2>3, AccessSound
  <2>5. OnlyAd(f.pt, r.pt)
    BY <1>1, <2>3, <2>4, OnlyAdTrans DEF GoodResult, GoodMemory
  <2>. QED BY <2>2, <2>4, <2>5, CompleteSound, StoredSound
<1>. QED BY <1>3, <1>4, <1>5, <1>6

LEMMA PeekSound ==
    ASSUME IInv, NEW v \in Vpns, Peek(v)
    PROVE  IInv' /\ OnlyAd(pt, pt')
<1>1. PICK r \in {Translate(pt, tlb, v, "load")} : pt' = r.pt /\ tlb' = r.tlb
  BY DEF Peek
<1>2. UNCHANGED <<priv, satp, lastPage, lastPhys, dtlb, edits, edited, fresh>>
  BY DEF Peek
<1>3. /\ GoodMemory(pt) /\ GoodTlb(pt, tlb) /\ v \in Pages
      /\ satp \in Roots \cup {None} /\ priv \in Privs
  BY PagesAssumption DEF IInv, TypeOK, GoodMemory, GoodTlb
<1>4. GoodMemory(pt') /\ OnlyAd(pt, pt') /\ GoodTlb(pt', tlb')
  BY <1>1, <1>3, TranslateSound DEF Kinds
<1>5. CoherentTlb(pt, tlb)'
  BY <1>2, <1>4, Kept DEF GoodTlb
<1>6. SavedPageCoherent'
  <2>1. lastPage \in Pages
    BY DEF IInv, TypeOK
  <2>2. ~Unpaged => WalkPa(pt', lastPage) = WalkPa(pt, lastPage)
    BY <1>3, <1>4, <2>1, OnlyAdSame, SameWalk, PagesAssumption DEF Unpaged, GoodMemory
  <2>3. fresh' /\ lastPhys' # -1 =>
            lastPhys' = IF Unpaged THEN lastPage' ELSE WalkPa(pt', lastPage')
    BY <1>2, <2>2 DEF IInv, SavedPageCoherent
  <2>. QED BY <1>2, <2>3, KeptPage
<1>7. TypeOK'
  BY <1>2, <1>4 DEF IInv, TypeOK, GoodMemory, GoodTlb
<1>. QED BY <1>4, <1>5, <1>6, <1>7 DEF IInv, GoodMemory, PointersIn

LEMMA NextSound ==
    ASSUME IInv, [Next]_vars
    PROVE  IInv' /\ (edits' = edits => OnlyAd(pt, pt') \/ UNCHANGED vars)
<1>. DEFINE now == [pt |-> pt, tlb |-> tlb, pa |-> 0, fault |-> FALSE]
<1>1. GoodResult(now)
  BY SizesAssumption DEF GoodResult, IInv, TypeOK, GoodMemory, GoodTlb, OnlyAd, Pages
<1>2. ASSUME Trap(pt, tlb)  PROVE IInv' /\ OnlyAd(pt, pt')
  <2>1. PICK p \in {S, M} : SetPriv(p, now.tlb)
    BY <1>2 DEF Trap
  <2>2. p \in Privs /\ lastPage' \in Pages
    BY <1>2 DEF Privs, Trap, IInv, TypeOK
  <2>. QED BY <1>1, <1>2, <2>1, <2>2, TrapSound DEF Trap
<1>3. CASE Interrupt
  BY <1>2, <1>3 DEF Interrupt
<1>4. CASE \E v \in Vpns : Peek(v)
  BY <1>4, PeekSound
<1>5. CASE \E v \in Vpns :
              /\ CanFetch(v)
              /\ \E f \in {Fetched(v)} :
                    FetchFault(f) \/ (~f.fault /\ Instruction(v, f))
  <2>1. PICK v \in Vpns : \E f \in {Fetched(v)} :
                    FetchFault(f) \/ (~f.fault /\ Instruction(v, f))
    BY <1>5
  <2>2. PICK f \in {Fetched(v)} : FetchFault(f) \/ (~f.fault /\ Instruction(v, f))
    BY <2>1
  <2>3. GoodFetch(v, f) /\ GoodResult(f) /\ OnlyAd(f.pt, f.pt)
    BY FetchSound DEF GoodFetch, OnlyAd
  <2>4. CASE FetchFault(f)
    BY <1>2, <2>4 DEF FetchFault
  <2>5. CASE ~f.fault /\ InstructionTrap(v, f, f)
    BY <2>3, <2>5, InstructionTrapSound
  <2>6. CASE ~f.fault /\ Complete(v, f, f)
    BY <2>3, <2>6, CompleteSound
  <2>11. CASE ~f.fault /\ Sampled(v, f)
    BY <2>3, <2>11, SampledSound
  <2>7. CASE ~f.fault /\ Sfence(v, f)
    BY <2>3, <2>7, SfenceSound
  <2>8. CASE ~f.fault /\ \E root \in Roots : WriteSatp(v, f, root)
    BY <2>3, <2>8, WriteSatpSound
  <2>9. CASE ~f.fault /\ \E p \in Privs : p <= priv /\ Xret(v, f, p)
    BY <2>3, <2>9, XretSound
  <2>10. CASE ~f.fault /\ \E d \in Vpns :
                /\ CanAccess(f, d)
                /\ Load(v, f, d) \/ Lr(v, f, d) \/ Store(v, f, d) \/ Amo(v, f, d)
    BY <2>3, <2>10, AccessStep
  <2>. QED BY <2>2, <2>4, <2>5, <2>6, <2>7, <2>8, <2>9, <2>10, <2>11 DEF Instruction
<1>6. CASE UNCHANGED vars
  <2>1. UNCHANGED <<priv, satp, pt, tlb, lastPage, lastPhys, dtlb, edits, edited, fresh>>
    BY <1>6 DEF vars
  <2>2. TypeOK'
    BY <2>1 DEF IInv, TypeOK
  <2>3. PointersIn(pt)'
    <3>1. PointersIn(pt')
      BY <2>1 DEF IInv
    <3>. QED BY <3>1 DEF PointersIn, IsPointer
  <2>4. CoherentTlb(pt, tlb)'
    BY <2>1, Kept DEF IInv
  <2>5. SavedPageCoherent'
    <3>1. fresh' /\ lastPhys' # -1 =>
              lastPhys' = IF Unpaged THEN lastPage' ELSE WalkPa(pt', lastPage')
      BY <2>1 DEF IInv, SavedPageCoherent
    <3>. QED BY <2>1, <3>1, KeptPage
  <2>. QED BY <1>6, <2>2, <2>3, <2>4, <2>5 DEF IInv
<1>. QED BY <1>3, <1>4, <1>5, <1>6 DEF Next

LEMMA InitSound == Init => IInv
<1>. SUFFICES ASSUME Init PROVE IInv
  OBVIOUS
<1>1. pt \in Memory /\ DOMAIN pt = Tables \X Index
  BY PagesAssumption DEF Init, Memory
<1>2. PointersIn(pt)
  BY <1>1, TablesAssumption DEF Init, PointersIn
<1>3. TypeOK
  <2>1. 0 \in Pages
    BY SizesAssumption DEF Pages
  <2>2. edits \in 0 .. MaxEdits
    BY SizesAssumption DEF Init
  <2>3. tlb \in [0 .. Slots - 1 -> Entry \cup {None}]
    BY DEF Init, NoTlb
  <2>4. priv \in Privs /\ dtlb \in BOOLEAN /\ edited \in BOOLEAN /\ fresh \in BOOLEAN
    BY DEF Init, Privs
  <2>. QED BY <1>1, <2>1, <2>2, <2>3, <2>4 DEF Init, TypeOK
<1>4. CoherentTlb(pt, tlb) /\ SavedPageCoherent
  BY DEF Init, CoherentTlb, NoTlb, SavedPageCoherent
<1>. QED BY <1>2, <1>3, <1>4 DEF IInv

-----------------------------------------------------------------------------
(* The theorems.                                                           *)

LEMMA Invariant == Spec => []IInv
<1>1. IInv /\ [Next]_vars => IInv'
  BY NextSound
<1>. QED BY InitSound, <1>1, PTL DEF Spec

\* Every variable keeps its type: translations stay among physical pages and
\* walks inside the page tables.
THEOREM TypeCorrect == Spec => []TypeOK
<1>1. IInv => TypeOK
  BY DEF IInv
<1>. QED BY Invariant, <1>1, PTL

\* The TLB agrees with the page tables as long as edits are fenced.
THEOREM TlbIsCoherent == Spec => []TlbCoherent
<1>1. IInv => TlbCoherent
  BY DEF IInv, CoherentTlb, GoodEntry, TlbCoherent
<1>. QED BY Invariant, <1>1, PTL

\* The page saved for the next fetch is the translation of the last pc.
THEOREM SavedPageIsCoherent == Spec => []SavedPageCoherent
<1>1. IInv => SavedPageCoherent
  BY DEF IInv
<1>. QED BY Invariant, <1>1, PTL

\* A store that completes goes where the page tables say and leaves its leaf
\* accessed and dirty.
THEOREM StoresMarkDirty == Spec => []StoreMarksDirty
<1>1. ASSUME IInv PROVE StoreMarksDirty
  <2>. SUFFICES ASSUME ~Unpaged, ~edited, NEW v \in Vpns,
                       NEW r, r = Translate(pt, tlb, v, "store"), ~r.fault
                PROVE  /\ r.pa = WalkPa(pt, v)
                       /\ LeafOf(r.pt, v).a /\ LeafOf(r.pt, v).d
    BY DEF StoreMarksDirty
  <2>. DEFINE a == LeafAddr(pt, v)
  <2>1. /\ GoodMemory(pt) /\ GoodTlb(pt, tlb) /\ v \in Pages /\ "store" \in Kinds
        /\ satp \in Roots \cup {None} /\ priv \in Privs /\ satp \in Tables
    BY <1>1, PagesAssumption DEF IInv, TypeOK, GoodMemory, GoodTlb, Unpaged, Kinds
  <2>2. r.pa = WalkPa(pt, v)
    BY <2>1, TranslateSound
  <2>3. CASE Usable(tlb, v, "store")
    <3>1. r = [pt |-> pt, tlb |-> tlb, pa |-> EntryPa(tlb[Slot(v)]), fault |-> FALSE]
      BY <2>3 DEF Translate
    <3>2. tlb[Slot(v)] # None /\ tlb[Slot(v)].vpn = v /\ tlb[Slot(v)].dirty
      BY <2>3 DEF Usable, Hit
    <3>3. LeafOf(pt, v).a /\ LeafOf(pt, v).d
      BY <2>1, <3>2, SlotType DEF GoodTlb, CoherentTlb, GoodEntry
    <3>. QED BY <2>2, <3>1, <3>3
  <2>4. CASE ~Usable(tlb, v, "store")
    <3>. DEFINE walked == [pt EXCEPT ![a] = Marked(@, "store")]
    <3>1. Permitted(pt[a], "store")
      BY <2>4 DEF Translate
    <3>2. r.pt = walked
      BY <2>4, <3>1 DEF Translate
    <3>3. LeafOf(walked, v) = Marked(LeafOf(pt, v), "store")
      BY <2>1, <3>1, WalkMarks
    <3>4. LeafOf(pt, v) \in Pte
      BY <2>1, LeafAddrType
    <3>5. LeafOf(walked, v).a /\ LeafOf(walked, v).d
      BY <2>1, <3>3, <3>4, MarkedType
    <3>. QED BY <2>2, <3>2, <3>5
  <2>. QED BY <2>3, <2>4
<1>. QED BY Invariant, <1>1, PTL

\* Apart from the program's own stores, memory changes only in accessed and
\* dirty bits of valid leaves.
THEOREM WalksWriteOnlyAd == Spec => WalkWritesOnlyAd
<1>1. IInv /\ [Next]_vars => [edits' = edits => OnlyAd(pt, pt')]_vars
  BY NextSound
<1>. QED BY Invariant, <1>1, PTL DEF Spec, WalkWritesOnlyAd
=============================================================================
