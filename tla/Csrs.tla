-------------------------------- MODULE Csrs --------------------------------
(***************************************************************************)
(* The control and status registers as the CSR instructions see them:      *)
(* read_csr, write_csr and the six instructions of opcode 0x73.  A value   *)
(* is the set of its bits that are 1.  What the bits do is in Traps, Mmu   *)
(* and Console.  The code does not ask for the level of the hart here.     *)
(***************************************************************************)
EXTENDS Integers

CONSTANTS
    Plain,          \* registers read and written as they are, of AllPlain
    Values,         \* contents of the source register, sets of Bits
    Zimms,          \* immediates of 5 bits, sets of SIE and MIE
    MaxCsrs         \* bound on the instructions

\* One bit of each kind: in mstatus those that both numbers write, mstatus
\* alone, sstatus alone, and neither (sstatus shows it); in satp.
SIE == 1
MIE == 3
XS == 15
UXL == 33
ASID == 44
MODE == 63
Bits == {SIE, MIE, XS, UXL, ASID, MODE}

VARIABLES
    csr,            \* the fields of state_t
    x1,             \* a destination register
    aborted,        \* an assertion failed
    trapped,        \* history: the last instruction trapped
    wrote,          \* history: the number and the value that the last one wrote
    count           \* instructions so far

csrVars == <<csr, x1, aborted, trapped, wrote, count>>

-----------------------------------------------------------------------------
(* Numbers.                                                                *)

AllPlain == {"mie", "mip", "mideleg", "medeleg", "misa", "mtvec", "mscratch", "mepc",
             "stvec", "sscratch", "sepc", "scause", "stval",
             "pmpcfg0", "pmpaddr0", "pmpaddr1", "pmpaddr2", "pmpaddr3"}
Fields == Plain \cup {"mstatus", "satp", "mcause", "mhartid", "scounteren"}    \* and mcounteren

Zero == {"0xc03", "0xc09"}            \* and 0xc04, 0xc0a .. 0xc10, 0xf11 .. 0xf13
Views == {"sstatus", "sie", "sip", "mtval"}
Readable == Plain \cup {"mstatus", "satp", "mcause", "mhartid"} \cup Views \cup Zero
Writable == Plain \cup {"mstatus", "satp", "scounteren",
                        "sstatus", "sie", "sip", "0xc03"}
Numbers == Readable \cup Writable \cup {"undefined"}

Nothing == [number |-> "none", value |-> {}]

Init ==
    /\ csr = [f \in Fields |-> CASE f = "mstatus" -> {UXL} [] f = "misa" -> {MODE} [] OTHER -> {}]
    /\ x1 = {} /\ aborted = FALSE /\ trapped = FALSE
    /\ wrote = Nothing
    /\ count = 0

SSTATUS_READ == {SIE, XS, UXL}          \* 0x3000de133
SSTATUS_WRITE == {SIE, XS}              \* 0xde133
MSTATUS_MASK == {SIE, MIE}

\* v where mask says so, and old elsewhere
Merge(old, mask, v) == (old \ mask) \cup (v \cap mask)

read_csr(c, f) ==
    CASE c = "sstatus" -> f.mstatus \cap SSTATUS_READ
      [] c = "sie" -> f.mie \cap f.mideleg
      [] c = "sip" -> f.mip \cap f.mideleg
      [] c = "mtval" -> f.mtvec
      [] c \in Zero -> {}
      [] OTHER -> f[c]

\* Variant: the bits that are not delegated are cleared.
write_csr_all(c, v, f) ==
    CASE c = "sstatus" -> [f EXCEPT !.mstatus = Merge(@, SSTATUS_WRITE, v)]
      [] c = "mstatus" -> [f EXCEPT !.mstatus = Merge(@, MSTATUS_MASK, v)]
      [] c = "sie" -> [f EXCEPT !.mie = v \cap f.mideleg]
      [] c = "sip" -> [f EXCEPT !.mip = v \cap f.mideleg]
      [] c = "satp" -> IF MODE \in v /\ ASID \notin v THEN [f EXCEPT !.satp = v] ELSE f
      [] c \in Zero -> f
      [] OTHER -> [f EXCEPT ![c] = v]

write_csr(c, v, f) ==
    CASE c = "sstatus" -> [f EXCEPT !.mstatus = Merge(@, SSTATUS_WRITE, v)]
      [] c = "mstatus" -> [f EXCEPT !.mstatus = Merge(@, MSTATUS_MASK, v)]
      [] c = "sie" -> [f EXCEPT !.mie = Merge(@, f.mideleg, v)]
      [] c = "sip" -> [f EXCEPT !.mip = Merge(@, f.mideleg, v)]
      [] c = "satp" -> IF MODE \in v /\ ASID \notin v THEN [f EXCEPT !.satp = v] ELSE f
      [] c \in Zero -> f
      [] OTHER -> [f EXCEPT ![c] = v]

\* stvec with a mode, or sstatus when mstatus has lost its UXL
Asserts(c, v, f) ==
    \/ c = "stvec" /\ SIE \in v
    \/ c = "sstatus" /\ UXL \notin write_csr(c, v, f).mstatus

-----------------------------------------------------------------------------
(* Instructions.                                                           *)

\* csrrs and csrrc, and their immediate forms, write only if the source is not
\* x0 or 0; csrrw reads only if the destination is not x0
Written(op, v, t) ==
    CASE op = "rw" -> v
      [] op = "rs" -> t \cup v
      [] op = "rc" -> t \ v

Reads(op, rd) == op # "rw" \/ rd # 0
Writes(op, source) == op = "rw" \/ source # 0

Undefined(op, c, rd, source) ==
    \/ Reads(op, rd) /\ c \notin Readable
    \/ Writes(op, source) /\ c \notin Writable

\* an illegal instruction: nothing was read or written
Illegal(op, c, rd, source) ==
    /\ Undefined(op, c, rd, source)
    /\ trapped' = TRUE /\ wrote' = Nothing
    /\ UNCHANGED <<csr, x1, aborted>>

Execute(op, c, rd, source, v) ==
    LET t == IF Reads(op, rd) THEN read_csr(c, csr) ELSE {}
        w == Written(op, v, t)
    IN  /\ ~Undefined(op, c, rd, source)
        /\ trapped' = FALSE
        /\ IF ~Writes(op, source) THEN wrote' = Nothing /\ UNCHANGED <<csr, aborted>>
           ELSE IF Asserts(c, w, csr)
                THEN aborted' = TRUE /\ wrote' = Nothing /\ UNCHANGED csr
           ELSE /\ csr' = write_csr(c, w, csr)
                /\ wrote' = [number |-> c, value |-> w]
                /\ UNCHANGED aborted
        /\ x1' = IF rd # 0 /\ ~aborted' THEN t ELSE x1

\* the source is a register, x0 among them, or an immediate
Csr(op, c, rd) ==
    /\ ~aborted /\ count < MaxCsrs
    /\ count' = count + 1
    /\ \/ Illegal(op, c, rd, 0) \/ Illegal(op, c, rd, 1)
       \/ Execute(op, c, rd, 0, {})
       \/ \E v \in Values : Execute(op, c, rd, 1, v)
       \/ \E z \in Zimms : Execute(op, c, rd, IF z = {} THEN 0 ELSE 1, z)

Next == \E op \in {"rw", "rs", "rc"}, c \in Numbers, rd \in {0, 1} : Csr(op, c, rd)

Spec == Init /\ [][Next]_csrVars

-----------------------------------------------------------------------------
(* Properties.                                                             *)

\* the numbers that show a register that a write to number c may change
Shows(c) ==
    CASE c \in {"mstatus", "sstatus"} -> {"mstatus", "sstatus"}
      [] c = "mideleg" -> {"mideleg", "sie", "sip"}
      [] c \in {"mie", "sie"} -> {"mie", "sie"}
      [] c \in {"mip", "sip"} -> {"mip", "sip"}
      [] c = "mtvec" -> {"mtvec", "mtval"}
      [] OTHER -> {c}

\* the bits of number c that a write of v changes
Owned(c, v) ==
    CASE c = "sstatus" -> SSTATUS_WRITE
      [] c = "mstatus" -> MSTATUS_MASK
      [] c \in {"sie", "sip"} -> csr.mideleg
      [] c \in Zero -> {}
      [] c = "satp" -> IF MODE \in v /\ ASID \notin v THEN Bits ELSE {}
      [] OTHER -> Bits

CsrStep ==
    LET c == wrote'.number
        changed == {d \in Readable : read_csr(d, csr') # read_csr(d, csr)}
    IN  /\ trapped' \/ aborted' => UNCHANGED <<csr, x1>>
        /\ wrote' = Nothing => csr' = csr
        /\ c \in Readable =>
            /\ changed \subseteq Shows(c)
            /\ read_csr(c, csr') = Merge(read_csr(c, csr), Owned(c, wrote'.value), wrote'.value)
        /\ c \in {"sie", "sip"} =>
            \A d \in {"mie", "mip"} : csr'[d] \ csr.mideleg = csr[d] \ csr.mideleg
        /\ csr'.satp # csr.satp => MODE \in csr'.satp /\ ASID \notin csr'.satp
        /\ UXL \in csr'.mstatus

\* A CSR instruction that traps or only reads has changed nothing, and no write
\* is lost: it changes only what its number and the views of the same register
\* show, and there the bits that it owns become those written; a supervisor's
\* number leaves the machine's bits alone, and of satp it is all or nothing
\* (read_csr, write_csr).
CsrViews == [][CsrStep]_csrVars
=============================================================================
