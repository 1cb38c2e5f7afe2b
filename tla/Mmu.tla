-------------------------------- MODULE Mmu --------------------------------
(***************************************************************************)
(* Address translation of one hart: the Sv39 walk with its accessed and    *)
(* dirty bits, the direct-mapped TLB in front of it, the physical page     *)
(* that execRiscv_ saves for the next fetch, and what traps, returns,      *)
(* fences and satp writes do to them (interpret.cc).                       *)
(*                                                                         *)
(* A step is one call of execRiscv_: an interrupt, or a fetch followed by  *)
(* one instruction.  Addresses are page numbers; offsets in a page play no *)
(* role.  The page tables live in the memory the program stores to.        *)
(***************************************************************************)
EXTENDS Integers

CONSTANTS
    Radix,      \* entries of a page table (512)
    Napot,      \* pages of a contiguous (N = 1) leaf (16)
    Slots,      \* entries of the TLB (32)
    Tables,     \* physical pages that hold page tables
    Roots,      \* the root tables among them
    Vpns,       \* virtual pages the program uses
    Memories,   \* page tables as the boot code may have written them
    PteWrites,  \* entries the program writes later
    MaxEdits,   \* bound on those writes
    None        \* an invalid TLB entry, satp in Bare mode

U == 0
S == 1
M == 3                              \* H is unpaged too and adds nothing here
Privs == {U, S, M}
Kinds == {"fetch", "load", "store"}
Index == 0 .. Radix - 1
Pages == 0 .. Radix * Radix * Radix - 1

Pte == [v : BOOLEAN, r : BOOLEAN, w : BOOLEAN, x : BOOLEAN, u : BOOLEAN,
        a : BOOLEAN, d : BOOLEAN, n : BOOLEAN, ppn : Pages]

Memory == [Tables \X Index -> Pte]

\* tlb_entry: paddr and mask_bits are the leaf's ppn and the size of its page
Spans == {Radix * Radix, Radix, Napot, 1}
Entry == [vpn : Pages, ppn : Pages, span : Spans, dirty : BOOLEAN]

IsPointer(pte) == pte.v /\ ~ (pte.r \/ pte.w \/ pte.x)

ASSUME SizesAssumption ==
    /\ Radix \in Nat \ {0} /\ Napot \in Nat \ {0} /\ Slots \in Nat \ {0}
    /\ Radix % Napot = 0
    /\ MaxEdits \in Nat
ASSUME PagesAssumption ==
    /\ Tables \subseteq Pages /\ Roots \subseteq Tables /\ Vpns \subseteq Pages
    /\ Memories \subseteq Memory /\ PteWrites \subseteq Pte
    /\ None \notin Entry /\ None \notin Tables
\* page tables only point to page tables
ASSUME TablesAssumption ==
    /\ \A pte \in PteWrites : IsPointer(pte) => pte.ppn \in Tables
    /\ \A m \in Memories : \A a \in DOMAIN m : IsPointer(m[a]) => m[a].ppn \in Tables

VARIABLES
    priv,
    satp,       \* the root table, or None in Bare mode
    pt,         \* the page tables in memory
    tlb,
    lastPage,   \* page of last_pc
    lastPhys,   \* page of last_phys_pc; -1 when it is zero
    dtlb,       \* the -dtlb statistics are on, which bypasses the TLB's hits
    \* history variables, read by no guard but the bound on edits:
    edits,      \* stores of the program into page tables
    edited,     \* one of them came after the last clear_tlb
    fresh       \* neither an edit nor a return to another level came after
                \* lastPhys was translated or forgotten

vars == <<priv, satp, pt, tlb, lastPage, lastPhys, dtlb, edits, edited, fresh>>

NoTlb == [i \in 0 .. Slots - 1 |-> None]

TypeOK ==
    /\ priv \in Privs
    /\ satp \in Roots \cup {None}
    /\ pt \in Memory
    /\ tlb \in [0 .. Slots - 1 -> Entry \cup {None}]
    /\ lastPage \in Pages /\ lastPhys \in Pages \cup {-1}
    /\ dtlb \in BOOLEAN /\ edited \in BOOLEAN /\ fresh \in BOOLEAN
    /\ edits \in 0 .. MaxEdits

Init ==
    /\ priv = M /\ satp = None
    /\ pt \in Memories
    /\ tlb = NoTlb
    /\ lastPage = 0 /\ lastPhys = -1
    /\ dtlb \in BOOLEAN
    /\ edits = 0 /\ edited = FALSE /\ fresh = TRUE

-----------------------------------------------------------------------------
(* The walk.                                                               *)

Unpaged == priv = M \/ satp = None          \* unpaged_mode

VpnIndex(v, level) ==
    CASE level = 2 -> (v \div (Radix * Radix)) % Radix
      [] level = 1 -> (v \div Radix) % Radix
      [] level = 0 -> v % Radix

\* where the entries of the three levels are, if the walk gets there
Addr2(v)      == <<satp, VpnIndex(v, 2)>>
Addr1(mem, v) == <<mem[Addr2(v)].ppn, VpnIndex(v, 1)>>
Addr0(mem, v) == <<mem[Addr1(mem, v)].ppn, VpnIndex(v, 0)>>

LeafLevel(mem, v) ==
    CASE ~IsPointer(mem[Addr2(v)]) -> 2
      [] IsPointer(mem[Addr2(v)]) /\ ~IsPointer(mem[Addr1(mem, v)]) -> 1
      [] OTHER -> 0

\* the entry at which the walk ends: a leaf, or one that faults
LeafAddr(mem, v) ==
    CASE LeafLevel(mem, v) = 2 -> Addr2(v)
      [] LeafLevel(mem, v) = 1 -> Addr1(mem, v)
      [] OTHER -> Addr0(mem, v)

\* pages that the leaf maps: 1 << (mask_bits - 12)
Span(mem, v) ==
    CASE LeafLevel(mem, v) = 2 -> Radix * Radix
      [] LeafLevel(mem, v) = 1 -> Radix
      [] OTHER -> IF mem[LeafAddr(mem, v)].n THEN Napot ELSE 1

\* Variant: the offset in a big page is not masked.
MaskedOffsetKept(ppn, v, span) == ((ppn \div span) * span) + v

\* (ppn & ~m) | (va & m)
Masked(ppn, v, span) == ((ppn \div span) * span) + (v % span)

WalkPa(mem, v) == Masked(mem[LeafAddr(mem, v)].ppn, v, Span(mem, v))

\* the assertions on N: not above level 0, and a 64KB encoding at level 0
Asserts(mem, v) ==
    LET level == LeafLevel(mem, v)
        pte   == mem[LeafAddr(mem, v)]
    IN  /\ ~mem[Addr2(v)].n
        /\ level < 2 => ~mem[Addr1(mem, v)].n
        /\ level = 0 /\ pte.v /\ pte.n => pte.ppn % Napot = Napot \div 2

\* the block "permission checks", and the valid bit
Permitted(pte, kind) ==
    /\ pte.v
    /\ kind = "fetch" => pte.x
    /\ kind = "store" => pte.w
    /\ pte.w => pte.r
    /\ kind = "load" => pte.r
    /\ priv = U => pte.u
    /\ pte.u /\ kind = "fetch" => priv = U

-----------------------------------------------------------------------------
(* The TLB.                                                                *)

Slot(v) == v % Slots

Hit(t, v) == t[Slot(v)] # None /\ t[Slot(v)].vpn = v     \* lookup_tlb

\* Variant: any entry serves a store.
UsableClean(t, v, kind) == ~dtlb /\ Hit(t, v)

\* a store may use an entry only if it has recorded the dirty bit
Usable(t, v, kind) == ~dtlb /\ Hit(t, v) /\ (t[Slot(v)].dirty \/ kind # "store")

EntryPa(e) == Masked(e.ppn, e.vpn, e.span)

\* Variant: every access sets the dirty bit.
MarkedDirty(pte, kind) == [pte EXCEPT !.a = TRUE, !.d = TRUE]

Marked(pte, kind) == [pte EXCEPT !.a = TRUE, !.d = @ \/ kind = "store"]

\* insert_tlb after a walk of mem, whose leaf is already marked
Inserted(t, mem, v) ==
    [t EXCEPT ![Slot(v)] = [vpn   |-> v,
                            ppn   |-> mem[LeafAddr(mem, v)].ppn,
                            span  |-> Span(mem, v),
                            dirty |-> mem[LeafAddr(mem, v)].d]]

\* translate, from memory mem and TLB t: the memory, the TLB and the physical
\* page after it, and whether it faults
Translate(mem, t, v, kind) ==
    LET a      == LeafAddr(mem, v)
        walked == [mem EXCEPT ![a] = Marked(@, kind)]
        same   == [pt |-> mem, tlb |-> t, pa |-> v, fault |-> FALSE]
    IN  CASE Unpaged -> same
          [] ~Unpaged /\ Usable(t, v, kind) ->
                [same EXCEPT !.pa = EntryPa(t[Slot(v)])]
          [] ~Unpaged /\ ~Usable(t, v, kind) /\ ~Permitted(mem[a], kind) ->
                [same EXCEPT !.fault = TRUE]
          [] OTHER ->
                [pt |-> walked, tlb |-> Inserted(t, walked, v),
                 pa |-> WalkPa(mem, v), fault |-> FALSE]

-----------------------------------------------------------------------------
(* The parts of a step.                                                    *)

\* Variant: a change of level keeps the TLB.
SetPrivKeepsTlb(p, t) == priv' = p /\ tlb' = t /\ edited' = edited

\* set_priv, from TLB t
SetPriv(p, t) ==
    /\ priv' = p
    /\ tlb' = IF p = priv THEN t ELSE NoTlb
    /\ edited' = (edited /\ p = priv)

\* handle_exception, after the memory and the TLB became mem and t
Trap(mem, t) ==
    /\ \E p \in {S, M} : p >= priv /\ SetPriv(p, t)
    /\ pt' = mem
    /\ lastPhys' = -1 /\ fresh' = TRUE
    /\ UNCHANGED <<satp, lastPage, dtlb, edits>>

Reuse(v) == v = lastPage /\ lastPhys # -1

\* the fetch of an instruction in page v
Fetched(v) ==
    IF Reuse(v) THEN [pt |-> pt, tlb |-> tlb, pa |-> lastPhys, fault |-> FALSE]
    ELSE Translate(pt, tlb, v, "fetch")

FetchFresh(v) == IF Reuse(v) THEN fresh ELSE ~edited

\* no assertion stops the simulator
CanFetch(v) == ~Unpaged /\ ~Reuse(v) => Asserts(pt, v)
CanAccess(f, d) == ~Unpaged => Asserts(f.pt, d)

\* a fetch f leaves its page behind for the next one
Remember(v, f) == lastPage' = v /\ lastPhys' = f.pa

-----------------------------------------------------------------------------
(* Steps.  v is the page of the pc, f the result of its fetch, d the page  *)
(* of the data and r the result of its translation.                        *)

Interrupt == Trap(pt, tlb)

FetchFault(f) == f.fault /\ Trap(pt, tlb)

\* an exception of an instruction that was fetched: its access faults, or it
\* is an ecall, an ebreak or illegal
InstructionTrap(v, f, r) ==
    /\ \E p \in {S, M} : p >= priv /\ SetPriv(p, r.tlb)
    /\ pt' = r.pt
    /\ lastPage' = v /\ lastPhys' = -1 /\ fresh' = TRUE
    /\ UNCHANGED <<satp, dtlb, edits>>

\* an instruction that accesses no memory (r = f), or one whose access did
\* not write to a page table
Complete(v, f, r) ==
    /\ ~r.fault
    /\ pt' = r.pt /\ tlb' = r.tlb
    /\ Remember(v, f)
    /\ fresh' = FetchFresh(v)
    /\ UNCHANGED <<priv, satp, dtlb, edits, edited>>

\* a jump or a branch whose block is sampled (bblog): the page of the pc is
\* translated once more, and a fault of that is ignored
Sampled(v, f) ==
    \E r \in {Translate(f.pt, f.tlb, v, "fetch")} :
        Complete(v, f, [r EXCEPT !.fault = FALSE])

Load(v, f, d) ==
    \E r \in {Translate(f.pt, f.tlb, d, "load")} :
        Complete(v, f, r) \/ (r.fault /\ InstructionTrap(v, f, r))

\* An atomic instruction translates once before, on a word as a store, on a
\* doubleword as a load, and a fault of that is ignored.
Before(f, d) == {Translate(f.pt, f.tlb, d, kind) : kind \in {"load", "store"}}

Lr(v, f, d) ==
    \E s \in Before(f, d) :
    \E r \in {Translate(s.pt, s.tlb, d, "load")} :
        Complete(v, f, r) \/ (r.fault /\ InstructionTrap(v, f, r))

\* a store that hits a page table writes pte to its entry i
StorePte(v, f, r, i, pte) ==
    /\ edits < MaxEdits
    /\ pt' = [r.pt EXCEPT ![<<r.pa, i>>] = pte]
    /\ tlb' = r.tlb
    /\ Remember(v, f)
    /\ fresh' = FALSE /\ edited' = TRUE
    /\ edits' = edits + 1
    /\ UNCHANGED <<priv, satp, dtlb>>

Stored(v, f, r) ==
    \/ r.fault /\ InstructionTrap(v, f, r)
    \/ ~r.fault /\ r.pa \notin Tables /\ Complete(v, f, r)
    \/ /\ ~r.fault /\ r.pa \in Tables
       /\ \E i \in Index, pte \in PteWrites : StorePte(v, f, r, i, pte)

Store(v, f, d) ==
    \E r \in {Translate(f.pt, f.tlb, d, "store")} : Stored(v, f, r)

\* AMOs and sc, which may fail and write nothing
Amo(v, f, d) ==
    \E s \in Before(f, d) :
    \E r \in {Translate(s.pt, s.tlb, d, "store")} :
        Stored(v, f, r) \/ Complete(v, f, r)

\* sfence.vma: the saved fetch page stays
Sfence(v, f) ==
    /\ pt' = f.pt /\ tlb' = NoTlb
    /\ Remember(v, f)
    /\ fresh' = FetchFresh(v)
    /\ edited' = FALSE
    /\ UNCHANGED <<priv, satp, dtlb, edits>>

\* Variant: a new root does not forget the saved fetch page.
WriteSatpKeepsPage(v, f, root) ==
    /\ pt' = f.pt
    /\ satp' = root
    /\ tlb' = NoTlb /\ edited' = FALSE
    /\ Remember(v, f) /\ fresh' = TRUE
    /\ UNCHANGED <<priv, dtlb, edits>>

\* a csrw of satp; a value that is not Sv39 with ASID 0 is ignored (Complete)
WriteSatp(v, f, root) ==
    /\ pt' = f.pt
    /\ satp' = root
    /\ tlb' = NoTlb /\ edited' = FALSE
    /\ lastPage' = v /\ lastPhys' = -1 /\ fresh' = TRUE
    /\ UNCHANGED <<priv, dtlb, edits>>

\* mret from M, sret from M or S: the saved fetch page stays
Xret(v, f, p) ==
    /\ priv # U
    /\ SetPriv(p, f.tlb)
    /\ pt' = f.pt
    /\ Remember(v, f)
    /\ fresh' = (FetchFresh(v) /\ p = priv)
    /\ UNCHANGED <<satp, dtlb, edits>>

\* runInteractiveRiscv translates the next pc, as a load, to print it
Peek(v) ==
    /\ ~Unpaged => Asserts(pt, v)
    /\ \E r \in {Translate(pt, tlb, v, "load")} : pt' = r.pt /\ tlb' = r.tlb
    /\ UNCHANGED <<priv, satp, lastPage, lastPhys, dtlb, edits, edited, fresh>>

Instruction(v, f) ==
    \/ InstructionTrap(v, f, f)
    \/ Complete(v, f, f)
    \/ CanAccess(f, v) /\ Sampled(v, f)
    \/ Sfence(v, f)
    \/ \E root \in Roots : WriteSatp(v, f, root)
    \/ \E p \in Privs : p <= priv /\ Xret(v, f, p)
    \/ \E d \in Vpns :
        /\ CanAccess(f, d)
        /\ Load(v, f, d) \/ Lr(v, f, d) \/ Store(v, f, d) \/ Amo(v, f, d)

Next ==
    \/ Interrupt
    \/ \E v \in Vpns : Peek(v)
    \/ \E v \in Vpns :
        /\ CanFetch(v)
        /\ \E f \in {Fetched(v)} : FetchFault(f) \/ (~f.fault /\ Instruction(v, f))

Spec == Init /\ [][Next]_vars

-----------------------------------------------------------------------------
(* Properties.                                                             *)

LeafOf(mem, v) == mem[LeafAddr(mem, v)]

\* The TLB agrees with the page tables: entries sit in their slot and exist
\* only while translation is on; and as long as the program fences its edits,
\* an entry maps where the walk would, its leaf is valid and accessed, a dirty
\* entry has a dirty leaf, and at U every entry belongs to a user page.
TlbCoherent ==
    \A i \in 0 .. Slots - 1 : tlb[i] # None =>
        /\ ~Unpaged
        /\ Slot(tlb[i].vpn) = i
        /\ ~edited => LET leaf == LeafOf(pt, tlb[i].vpn)
                      IN  /\ EntryPa(tlb[i]) = WalkPa(pt, tlb[i].vpn)
                          /\ leaf.v /\ leaf.a
                          /\ tlb[i].dirty => leaf.d
                          /\ priv = U => leaf.u

\* A store that completes, from the TLB or after a walk, goes where the page
\* tables say and leaves its leaf marked accessed and dirty, so an operating
\* system that clears the bits and fences never misses a write.
StoreMarksDirty ==
    ~Unpaged /\ ~edited =>
        \A v \in Vpns :
            LET r == Translate(pt, tlb, v, "store")
            IN  ~r.fault => /\ r.pa = WalkPa(pt, v)
                            /\ LeafOf(r.pt, v).a /\ LeafOf(r.pt, v).d

\* The physical page saved for the next fetch is the translation of the page
\* of last_pc: across traps, which forget it, satp writes and level changes.
\* (Edits of the page tables and returns to another level are excepted.)
SavedPageCoherent ==
    fresh /\ lastPhys # -1 =>
        lastPhys = IF Unpaged THEN lastPage ELSE WalkPa(pt, lastPage)

\* mem became new by walks alone
OnlyAd(mem, new) ==
    \A a \in Tables \X Index : new[a] # mem[a] =>
        /\ mem[a].v /\ ~IsPointer(mem[a])
        /\ \E x, y \in BOOLEAN : new[a] = [mem[a] EXCEPT !.a = @ \/ x, !.d = @ \/ y]
        /\ new[a].d /\ ~mem[a].d => mem[a].w /\ new[a].a

\* The walk itself changes nothing in memory but accessed and dirty bits of
\* valid leaves, only from 0 to 1, and dirty only where stores are allowed.
WalkWritesOnlyAd == [][edits' = edits => OnlyAd(pt, pt')]_vars

\* "if we're on the same page as the past instruction, reuse the saved
\* physical address": the saved page is the physical page of that page
\* whenever the program has fenced its edits.
SavedPageIsTranslation ==
    lastPhys # -1 /\ ~edited =>
        lastPhys = IF Unpaged THEN lastPage ELSE WalkPa(pt, lastPage)

=============================================================================
