-------------------------------- MODULE Fdt --------------------------------
(***************************************************************************)
(* riscv_build_fdt: a script of calls, each of which appends big-endian    *)
(* words to the structure block (tab) and property names to the string     *)
(* table; fdt_output lays both out behind a header.  Then a reader, from   *)
(* the header alone, as firmware and kernel read the blob.                 *)
(*                                                                         *)
(* A word of a number is [be |-> n]; word k of bytes is [of |-> strings,   *)
(* word |-> k].  Strings are NUL-terminated, one byte per character.       *)
(***************************************************************************)
EXTENDS Integers, Sequences, SequencesExt, FiniteSets, FiniteSetsExt

CONSTANTS
    Options,    \* the command line and the files: see opt
    WordSize    \* the values of a word, 2^32

VARIABLES
    opt,        \* uart, svnapot, cpu_freq, ram_size as <<high, low>> word,
                \* phys_start, kernel (is there a kernel.bin), its size, image
    n,          \* calls made
    s,          \* FDTState; the string table as a sequence of its strings
    blob        \* byte offset -> word or string, when fdt_output is done

fdtVars == <<n, s, blob>>

FDT_MAGIC == [be |-> <<53261, 65261>>]      \* 0xd00dfeed
FDT_VERSION == 17
FDT_BEGIN_NODE == 1
FDT_END_NODE == 2
FDT_PROP == 3
FDT_END == 9
CLINT == [base |-> 1073741824, size |-> 786432]         \* 0x40000000, 0xc0000
PLIC  == [base |-> 1074790400, size |-> 4194304]        \* 0x40100000, 0x400000
UART  == [base |-> 1078984704, size |-> 4096]           \* 0x40500000

fdt_init ==
    [tab |-> << >>, tab_size |-> 0, open_node_count |-> 0,
     string_table |-> << >>, string_table_size |-> 0]

Init == opt \in Options /\ n = 0 /\ s = fdt_init /\ blob = << >>

-----------------------------------------------------------------------------
(* The writer.                                                             *)

strlen(str) == Len(str)

\* where each string ends, one after the other, and at 0 where the first begins
Ends(strings) ==
    LET upTo[k \in 0 .. Len(strings)] ==
            IF k = 0 THEN 0 ELSE upTo[k - 1] + strlen(strings[k]) + 1
    IN  upTo

Bytes(strings) == Ends(strings)[Len(strings)]
Align(pos, to) == ((pos + to - 1) \div to) * to

\* Variant: room for half as much again is room enough.
GrownByHalf(size, len) ==
    IF len > size THEN (size * 3) \div 2 ELSE size

\* what realloc makes of a size that is too small
Grown(size, len) ==
    IF len > size THEN Max({len, (size * 3) \div 2}) ELSE size

\* fdt_alloc_len, and the words
Put(f, words) ==
    [f EXCEPT !.tab = @ \o words, !.tab_size = Grown(@, Len(f.tab) + Len(words))]

fdt_put32(f, v) == Put(f, <<[be |-> v]>>)

\* Variant: bytes that do not fill a word are not counted.
fdt_put_data_down(f, strings) ==
    Put(f, [k \in 1 .. Bytes(strings) \div 4 |-> [of |-> strings, word |-> k]])
fdt_put_data(f, strings) ==
    Put(f, [k \in 1 .. Align(Bytes(strings), 4) \div 4 |-> [of |-> strings, word |-> k]])

fdt_get_string_offset(f, name) ==
    LET t == f.string_table
    IN  IF name \in ToSet(t)
        THEN Ends(t)[Min({i \in DOMAIN t : t[i] = name}) - 1]
        ELSE Bytes(t)

Interned(f, name) ==
    IF name \in ToSet(f.string_table) THEN f
    ELSE [f EXCEPT !.string_table = Append(@, name),
                   !.string_table_size = Grown(@, Bytes(Append(f.string_table, name)))]

\* the head of a property: token, length in bytes, name
Prop(f, name, len) ==
    Interned(fdt_put32(fdt_put32(fdt_put32(f, FDT_PROP), len),
                       fdt_get_string_offset(f, name)), name)

fdt_begin_node(f, name) ==
    [fdt_put_data(fdt_put32(f, FDT_BEGIN_NODE), <<name>>) EXCEPT !.open_node_count = @ + 1]
fdt_end_node(f) ==
    [fdt_put32(f, FDT_END_NODE) EXCEPT !.open_node_count = @ - 1]
fdt_prop(f, name, strings) ==
    fdt_put_data(Prop(f, name, Bytes(strings)), strings)
fdt_prop_tab_u32(f, name, tab) ==
    LET put[k \in 0 .. Len(tab)] ==
            IF k = 0 THEN Prop(f, name, 4 * Len(tab)) ELSE fdt_put32(put[k - 1], tab[k])
    IN  put[Len(tab)]

\* parts of memory that do not overlap
Beside(a, b) == [p \in DOMAIN a \cup DOMAIN b |-> IF p \in DOMAIN a THEN a[p] ELSE b[p]]

Piece(at, words) == [p \in {at + 4 * k : k \in 0 .. Len(words) - 1} |-> words[((p - at) \div 4) + 1]]

\* header, structure block, empty reservation map, strings
fdt_output(f) ==
    LET g == fdt_put32(f, FDT_END)
        t == g.string_table
        off_dt_struct   == 40
        off_mem_rsvmap  == Align(off_dt_struct + 4 * Len(g.tab), 8)
        off_dt_strings  == off_mem_rsvmap + 16
        strings == [p \in {off_dt_strings + Ends(t)[i - 1] : i \in DOMAIN t} |->
                       [string |-> t[CHOOSE i \in DOMAIN t : off_dt_strings + Ends(t)[i - 1] = p]]]
        totalsize == Align(off_dt_strings + Bytes(t), 8)
        header == <<FDT_MAGIC>> \o [k \in 1 .. 9 |-> [be |->
                      <<totalsize, off_dt_struct, off_dt_strings, off_mem_rsvmap,
                        FDT_VERSION, 16, 0, Bytes(t), 4 * Len(g.tab)>>[k]]]
    IN  Beside(Beside(Piece(0, header), Piece(off_dt_struct, g.tab)),
               Beside(Piece(off_mem_rsvmap, [k \in 1 .. 4 |-> [be |-> 0]]), strings))

-----------------------------------------------------------------------------
(* The script.                                                             *)

Begin(name) == [op |-> "begin", name |-> name, value |-> << >>]
End == [op |-> "end", name |-> "", value |-> << >>]
U32(name, tab) == [op |-> "u32", name |-> name, value |-> tab]
Str(name, strings) == [op |-> "str", name |-> name, value |-> strings]
Empty(name) == Str(name, << >>)

Node(name, body) == <<Begin(name)>> \o body \o <<End>>

Hex(v) ==
    LET digits == <<"0", "1", "2", "3", "4", "5", "6", "7",
                    "8", "9", "a", "b", "c", "d", "e", "f">>
        hex[k \in Nat] == IF k < 16 THEN digits[k + 1]
                          ELSE hex[k \div 16] \o digits[(k % 16) + 1]
    IN  hex[v]

Unit(name, v) == name \o "@" \o Hex(v)
Halves(v) == <<v \div WordSize, v % WordSize>>      \* v >> 32, v
NodeNum(name, v, body) == Node(Unit(name, v), body)
Reg(r) == U32("reg", <<0, r.base, 0, r.size>>)

\* cur_phandle
intc_phandle == 1
plic_phandle == 2

Cpu(o) == NodeNum("cpu", 0, <<
    Str("device_type", <<"cpu">>), U32("reg", <<0>>), Str("status", <<"okay">>),
    Str("compatible", <<"riscv">>), Str("riscv,isa", <<"rv64ima">>),
    Str("riscv,isa-extensions",
        <<"i", "m", "a", "zba", "zbb", "zicsr", "zifencei", "zicond">>
            \o (IF o.svnapot THEN <<"svnapot">> ELSE << >>)),
    Str("mmu-type", <<"riscv,sv39">>), U32("clock-frequency", <<o.cpu_freq>>)>>
    \o Node("interrupt-controller", <<
        U32("#interrupt-cells", <<1>>), Empty("interrupt-controller"),
        Str("compatible", <<"riscv,cpu-intc">>), U32("phandle", <<intc_phandle>>)>>))

Cpus(o) == Node("cpus", <<
    U32("#address-cells", <<1>>), U32("#size-cells", <<0>>),
    U32("timebase-frequency", <<o.cpu_freq>>)>> \o Cpu(o))

Memory(o) == NodeNum("memory", o.phys_start, <<
    Str("device_type", <<"memory">>),
    U32("reg", Halves(o.phys_start) \o o.ram_size)>>)

Clint == NodeNum("clint", CLINT.base, <<
    Str("compatible", <<"riscv,clint0">>),
    U32("interrupts-extended", <<intc_phandle, 3, intc_phandle, 7>>), Reg(CLINT)>>)

\* Variant: the phandle is counted up before it is given out.
PlicAgain == NodeNum("plic", PLIC.base, <<
    U32("#interrupt-cells", <<1>>), Empty("interrupt-controller"),
    Str("compatible", <<"riscv,plic0">>), U32("riscv,ndev", <<31>>), Reg(PLIC),
    U32("interrupts-extended", <<plic_phandle, 9, plic_phandle, 11>>),
    U32("phandle", <<intc_phandle>>)>>)
Plic == NodeNum("plic", PLIC.base, <<
    U32("#interrupt-cells", <<1>>), Empty("interrupt-controller"),
    Str("compatible", <<"riscv,plic0">>), U32("riscv,ndev", <<31>>), Reg(PLIC),
    U32("interrupts-extended", <<intc_phandle, 9, intc_phandle, 11>>),
    U32("phandle", <<plic_phandle>>)>>)

Serial(o) ==
    IF ~o.uart THEN << >>
    ELSE NodeNum("serial", UART.base, <<
        Str("compatible", <<"ns16550">>), U32("clock-frequency", <<5000000>>), Reg(UART),
        U32("interrupts", <<1>>), U32("no-loopback-test", <<1>>)>>)

Soc(o) == Node("soc", <<
    U32("#address-cells", <<2>>), U32("#size-cells", <<2>>),
    Str("compatible", <<"ucbbar,riscvemu-bar-soc", "simple-bus">>), Empty("ranges")>>
    \o Clint \o Plic \o Serial(o))

\* where load_raw puts the kernel; there is no initrd
kern_addr(o) == 2097152 + o.phys_start

Chosen(o) == Node("chosen", <<
    Str("bootargs", <<"debug keep_bootcon console=csr_console">>)>>
    \o (IF o.kernel_size = 0 THEN << >>
        ELSE <<U32("riscv,kernel-start", Halves(kern_addr(o))),
               U32("riscv,kernel-end", Halves(kern_addr(o) + o.kernel_size))>>))

riscv_build_fdt(o) == Node("", <<
    U32("#address-cells", <<2>>), U32("#size-cells", <<2>>),
    Str("model", <<"dsheffie,rv64core">>)>>
    \o Cpus(o) \o Memory(o) \o Node("htif", <<Str("compatible", <<"ucb,htif0">>)>>)
    \o Soc(o) \o Chosen(o))

\* no less than the bytes that a call appends to both tables
CallBytes(c) ==
    16 + strlen(c.name) + (IF c.op = "u32" THEN 4 * Len(c.value) ELSE Bytes(c.value))

\* of the command line; and that the strings have lengths, of which the
\* provers know nothing
ASSUME OptionsAssumption ==
    /\ WordSize \in Nat \ {0}
    /\ \A o \in Options :
        /\ o.phys_start \in Nat /\ o.kernel_size \in Nat /\ o.ram_size \in Nat \X Nat
        /\ \A c \in ToSet(riscv_build_fdt(o)) :
              /\ strlen(c.name) \in Nat
              /\ c.op = "str" => \A i \in DOMAIN c.value : strlen(c.value[i]) \in Nat

Building == n < Len(riscv_build_fdt(opt))
Asked == riscv_build_fdt(opt)[n + 1]

Step(op) ==
    /\ Building /\ Asked.op = op
    /\ n' = n + 1 /\ UNCHANGED <<opt, blob>>

BeginNode == Step("begin") /\ s' = fdt_begin_node(s, Asked.name)
EndNode == Step("end") /\ s' = fdt_end_node(s)
PropStr == Step("str") /\ s' = fdt_prop(s, Asked.name, Asked.value)
PropU32 == Step("u32") /\ s' = fdt_prop_tab_u32(s, Asked.name, Asked.value)

\* fdt_output asserts that no node is open
Output ==
    /\ ~Building /\ blob = << >> /\ s.open_node_count = 0
    /\ blob' = fdt_output(s)
    /\ UNCHANGED <<opt, n, s>>

BuildFdt == BeginNode \/ EndNode \/ PropStr \/ PropU32 \/ Output

-----------------------------------------------------------------------------
(* A reader of the device tree.                                            *)

At(p) == IF p \in DOMAIN blob THEN blob[p] ELSE [be |-> -1]
Number(p) == LET w == At(p) IN IF "be" \in DOMAIN w THEN w.be ELSE -1

\* len bytes at p, when they were written as one
StringsAt(p, len) ==
    LET w == At(p)
    IN  IF "of" \in DOMAIN w /\ Bytes(w.of) = len
           /\ \A k \in 1 .. Align(len, 4) \div 4 :
                 At(p + 4 * (k - 1)) = [of |-> w.of, word |-> k]
        THEN w.of ELSE <<"?">>

StringAt(p) ==
    LET w == At(p) IN IF "string" \in DOMAIN w THEN w.string ELSE "?"
NameAt(p) ==
    LET w == At(p) IN IF "of" \in DOMAIN w /\ Len(w.of) = 1 THEN w.of[1] ELSE "?"

PropAt(p) ==
    LET len  == Number(p + 4)
        name == StringAt(Number(12) + Number(p + 8))
        word == "be" \in DOMAIN At(p + 12)
    IN  CASE len = 0 -> Str(name, << >>)
          [] len > 0 /\ word -> U32(name, [k \in 1 .. len \div 4 |-> Number(p + 8 + 4 * k)])
          [] OTHER -> Str(name, StringsAt(p + 12, len))

\* the call of which p is the token, and where the next token is
CallAt(p) ==
    CASE Number(p) = FDT_BEGIN_NODE -> Begin(NameAt(p + 4))
      [] Number(p) = FDT_END_NODE -> End
      [] Number(p) = FDT_PROP -> PropAt(p)
      [] OTHER -> Begin("?")
After(p) ==
    CASE Number(p) = FDT_BEGIN_NODE -> p + 4 + Align(strlen(NameAt(p + 4)) + 1, 4)
      [] Number(p) = FDT_PROP -> p + 12 + Align(Number(p + 4), 4)
      [] OTHER -> p + 4

\* the calls that the structure block stands for, up to FDT_END
Tree ==
    LET words == Number(36) \div 4
        read[k \in 0 .. words] ==
            IF k = 0 THEN [at |-> Number(8), calls |-> << >>]
            ELSE LET r == read[k - 1]
                 IN  IF Number(r.at) = FDT_END THEN r
                     ELSE [at |-> After(r.at), calls |-> Append(r.calls, CallAt(r.at))]
    IN  read[words].calls

Same(c, d) == c.op = d.op /\ c.name = d.name /\ c.value = d.value

\* Reading the blob from its header gives the calls that built it: nodes,
\* names and values, the words aligned, names shared in the string table
\* (fdt_put_data, fdt_get_string_offset, fdt_output).
TreeReadBack ==
    blob # << >> =>
        LET calls == riscv_build_fdt(opt)
            tree  == Tree
        IN  /\ blob[0] = FDT_MAGIC
            /\ Len(tree) = Len(calls)
            /\ \A k \in DOMAIN calls : Same(tree[k], calls[k])

-----------------------------------------------------------------------------
(* What the tree says, over the calls read back.                           *)

Depth(t, i) ==
    Cardinality({k \in 1 .. i : t[k].op = "begin"}) - Cardinality({k \in 1 .. i : t[k].op = "end"})
NodesOf(t) == {i \in DOMAIN t : t[i].op = "begin"}

\* the node of call i of depth d: of a property, or the parent of a node
Around(t, i, d) == Max({k \in NodesOf(t) : k <= i /\ Depth(t, k) = d})
Owner(t, i) == Around(t, i, Depth(t, i))
Parent(t, node) == Around(t, node, Depth(t, node) - 1)

PropsNamed(t, name) == {i \in DOMAIN t : t[i].op \in {"u32", "str"} /\ t[i].name = name}
Has(t, node, name) == \E i \in PropsNamed(t, name) : Owner(t, i) = node
Value(t, node, name) ==
    t[CHOOSE i \in PropsNamed(t, name) : Owner(t, i) = node].value

\* an address of that many cells
Address(v, cells) == IF cells = 1 THEN v[1] ELSE v[1] * WordSize + v[2]

Window(v) == [base |-> v[Len(v) - 2], size |-> v[Len(v)]]

\* The root's and each bus's cells say how long the regs below are, a unit
\* address is that of its reg (a memory beyond 4 GB among them), and every
\* interrupt goes to a phandle that one interrupt controller has, in as many
\* cells as it asks for (the phandles counted up by riscv_build_fdt).  The
\* windows of the devices do not meet, and none begins below the CLINT, at
\* 1 GB.
ReferencesResolve ==
    blob # << >> =>
        LET t == Tree
            controllers == {c \in NodesOf(t) : Has(t, c, "phandle")}
            Cells(node, what) == Value(t, Parent(t, node), what)[1]
            regs == {Owner(t, i) : i \in PropsNamed(t, "reg")}
            buses == {r \in regs : Cells(r, "#size-cells") = 2}
            W(r) == Value(t, r, "reg")
            devices == {r \in buses : ~Has(t, r, "device_type")}
        IN  /\ \A c, d \in controllers :
                  Value(t, c, "phandle") = Value(t, d, "phandle") => c = d
            /\ \A i \in PropsNamed(t, "interrupts-extended") :
                  LET v == t[i].value
                  IN  /\ Len(v) % 2 = 0
                      /\ \A k \in {j \in DOMAIN v : j % 2 = 1} : \E c \in controllers :
                            /\ Value(t, c, "phandle") = <<v[k]>>
                            /\ Value(t, c, "#interrupt-cells") = <<1>>
                            /\ Has(t, c, "interrupt-controller") /\ c # Owner(t, i)
            /\ \A r \in regs :
                  /\ Len(W(r)) = Cells(r, "#address-cells") + Cells(r, "#size-cells")
                  /\ \E base \in {"cpu", "memory", "clint", "plic", "serial"} :
                        t[r].name = Unit(base, Address(W(r), Cells(r, "#address-cells")))
            /\ \A d, e \in devices : d # e =>
                  LET v == Window(W(d))
                      w == Window(W(e))
                  IN  v.base + v.size <= w.base \/ w.base + w.size <= v.base
            /\ \A d \in devices : Window(W(d)).base >= CLINT.base
=============================================================================
