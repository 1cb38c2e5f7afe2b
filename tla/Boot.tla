-------------------------------- MODULE Boot --------------------------------
(***************************************************************************)
(* main before the first instruction of the guest.  load_raw copies the    *)
(* firmware and kernel.bin to memory, builds the device tree there and     *)
(* writes a boot ROM; load_elf copies segments, write-protects code and    *)
(* writes another ROM.  Then the hart runs the ROM.  Memory is the list of *)
(* the regions written to it, the last write first.                        *)
(***************************************************************************)
EXTENDS Fdt

VARIABLES
    stage,      \* what the program does next
    mem,        \* regions: at, size, what
    readonly,   \* the regions mprotect took the write permission from
    pc, gpr

bootVars == <<opt, fdtVars, stage, mem, readonly, pc, gpr>>

BOOT_ROM_ADDR == 4096
fw_start_addr == 2097152
fdt_addr == 65536 + 64
mhartid == 0
PageSize == 4096

Region(at, size, what) == [at |-> at, size |-> size, what |-> what]
Meet(r, q) == r.size > 0 /\ q.size > 0 /\ r.at < q.at + q.size /\ q.at < r.at + r.size

Segment == [load : BOOLEAN, vaddr : Nat, filesz : Nat, memsz : Nat, what : STRING]
Section == [exec : BOOLEAN, addr : Nat, size : Nat]

\* a segment that load_elf copies
IsLoaded(g) == g.load /\ g.memsz # 0

ASSUME ImageAssumption ==
    \A o \in Options :
        /\ o.kernel \in BOOLEAN /\ (~o.kernel => o.kernel_size = 0)
        /\ o.image.kind = "raw" => o.image.size \in Nat
        /\ o.image.kind = "elf" /\ o.image.fault = "none" =>
              /\ o.image.entry \in Nat \X Nat
              /\ o.image.segments \in Seq(Segment) /\ o.image.sections \in Seq(Section)

\* The tree fits between where it is written and the firmware, which nothing
\* in load_raw checks: it has less than a thousand calls of less than 1 KB.
ASSUME TreeFits ==
    \A o \in Options :
        /\ Len(riscv_build_fdt(o)) < 1000
        /\ \A c \in ToSet(riscv_build_fdt(o)) : CallBytes(c) < 1000

TypeOK ==
    /\ opt \in Options /\ n \in 0 .. Len(riscv_build_fdt(opt))
    /\ Len(s.tab) <= s.tab_size /\ Bytes(s.string_table) <= s.string_table_size
    /\ s.open_node_count \in Nat
    /\ stage \in {"load", "kernel", "segments", "sections", "fdt", "rom", "exec", "run",
                  "exited", "aborted", "killed"}
    /\ pc \in Nat /\ gpr \in [{"t0", "a0", "a1"} -> Nat]
    /\ \A r \in readonly : r.at % PageSize = 0 /\ r.size % PageSize = 0

BootInit ==
    /\ Init
    /\ stage = "load" /\ mem = << >> /\ readonly = {}
    /\ pc = 0 /\ gpr = [r \in {"t0", "a0", "a1"} |-> 0]

Raw == opt.image.kind = "raw"
Elf == opt.image.kind = "elf"
Enter(from, to) == stage = from /\ stage' = to

\* an open or a header that load_raw or load_elf refuses
Refuse ==
    /\ opt.image.fault # "none"
    /\ Enter("load", IF opt.image.fault = "endian" THEN "aborted" ELSE "exited")
    /\ UNCHANGED <<opt, fdtVars, mem, readonly, pc, gpr>>

-----------------------------------------------------------------------------
(* load_raw.                                                               *)

LoadFirmware ==
    /\ Raw /\ opt.image.fault = "none" /\ Enter("load", "kernel")
    /\ mem' = <<Region(fw_start_addr, opt.image.size, "firmware")>> \o mem
    /\ UNCHANGED <<opt, fdtVars, readonly, pc, gpr>>

\* the size of the kernel, 0 or not, is kept in the doubleword before it
LoadKernel ==
    /\ Enter("kernel", "fdt")
    /\ mem' = IF ~opt.kernel THEN mem
              ELSE <<Region(kern_addr(opt) - 8, 8, "kernel_size"),
                     Region(kern_addr(opt), opt.kernel_size, "kernel")>> \o mem
    /\ UNCHANGED <<opt, fdtVars, readonly, pc, gpr>>

\* the tree is built beside memory, and fdt_output writes it there
LoadFdt ==
    /\ BuildFdt
    /\ IF blob' = << >>
       THEN stage = "fdt" /\ UNCHANGED <<stage, mem>>
       ELSE /\ Enter("fdt", "rom")
            /\ mem' = <<Region(fdt_addr, blob'[4].be, "fdt")>> \o mem
    /\ UNCHANGED <<readonly, pc, gpr>>

-----------------------------------------------------------------------------
(* load_elf.                                                               *)

\* Variant: a segment is cleared after it was copied.
CopiedCleared(g) ==
    IF IsLoaded(g) THEN <<Region(g.vaddr, g.memsz, "zero"), Region(g.vaddr, g.filesz, g.what)>>
    ELSE << >>

\* a segment is cleared, and as much copied as the file has
Copied(g) ==
    IF IsLoaded(g) THEN <<Region(g.vaddr, g.filesz, g.what), Region(g.vaddr, g.memsz, "zero")>>
    ELSE << >>

LoadSegments ==
    /\ Elf /\ opt.image.fault = "none" /\ Enter("load", "sections")
    /\ LET segments == opt.image.segments
           loaded[k \in 0 .. Len(segments)] ==
               IF k = 0 THEN mem ELSE Copied(segments[k]) \o loaded[k - 1]
       IN  mem' = loaded[Len(segments)]
    /\ UNCHANGED <<opt, fdtVars, readonly, pc, gpr>>

\* whole pages of code that starts at a page
ProtectSections ==
    /\ Enter("sections", "rom")
    /\ readonly' = {Region(c.addr, (c.size \div PageSize) * PageSize, "code") :
                      c \in {d \in ToSet(opt.image.sections) : d.exec /\ d.addr % PageSize = 0}}
    /\ UNCHANGED <<opt, fdtVars, mem, pc, gpr>>

-----------------------------------------------------------------------------
(* The boot ROMs.                                                          *)

Insn(op, rd, rs, imm) == [op |-> op, rd |-> rd, rs |-> rs, imm |-> imm]
Word(v) == [op |-> "word", value |-> v]

\* an immediate of 12 bits
Imm12(v) == IF v % 4096 < 2048 THEN v % 4096 ELSE (v % 4096) - 4096

RomRaw == <<
    Insn("auipc", "t0", "x0", fw_start_addr - BOOT_ROM_ADDR),
    Insn("auipc", "a1", "x0", 61440),
    Insn("addi", "a1", "a1", Imm12(fdt_addr - 4)),
    Insn("csrr", "a0", "x0", 0),
    Insn("jr", "x0", "t0", 0)>>

\* the upper half of the entry is dropped
RomElf == <<
    Insn("auipc", "t0", "x0", 0), Insn("addi", "a1", "t0", 32), Insn("csrr", "a0", "x0", 0),
    Insn("ld", "t0", "t0", 24), Insn("jr", "x0", "t0", 0),
    Word(0), Word(opt.image.entry[2]), Word(0)>>

Rom == IF Raw THEN RomRaw ELSE RomElf
RomRegion == Region(BOOT_ROM_ADDR, 4 * Len(Rom), "rom")

\* WRITE_WORD, at addresses the program itself may have protected
WriteRom ==
    /\ stage = "rom"
    /\ IF \E r \in readonly : Meet(r, RomRegion)
       THEN stage' = "killed" /\ UNCHANGED <<mem, pc>>
       ELSE /\ stage' = "exec"
            /\ mem' = <<RomRegion>> \o mem
            /\ pc' = BOOT_ROM_ADDR
    /\ UNCHANGED <<opt, fdtVars, readonly, gpr>>

RomAt(a) == Rom[((a - BOOT_ROM_ADDR) \div 4) + 1]
Set(rd, v) == gpr' = [gpr EXCEPT ![rd] = v] /\ pc' = pc + 4 /\ UNCHANGED stage

\* one instruction of the ROM; nothing interrupts the hart before mie is written
Exec ==
    LET i == RomAt(pc)
    IN  /\ stage = "exec"
        /\ \/ i.op = "auipc" /\ Set(i.rd, pc + i.imm)
           \/ i.op = "addi"  /\ Set(i.rd, gpr[i.rs] + i.imm)
           \/ i.op = "csrr"  /\ Set(i.rd, mhartid)
           \/ i.op = "ld"    /\ Set(i.rd, RomAt(gpr[i.rs] + i.imm).value)
           \/ i.op = "jr"    /\ pc' = gpr[i.rs] /\ stage' = "run" /\ UNCHANGED gpr
    /\ UNCHANGED <<opt, fdtVars, mem, readonly>>

BootNext ==
    \/ Refuse \/ LoadFirmware \/ LoadKernel \/ LoadFdt
    \/ LoadSegments \/ ProtectSections \/ WriteRom \/ Exec

BootSpec == BootInit /\ [][BootNext]_bootVars

-----------------------------------------------------------------------------
(* What the guest finds.                                                   *)

\* memory holds what was written to region i of mem last
Whole(i) == \A j \in 1 .. i - 1 : ~Meet(mem[j], mem[i])

KernelMeetsFirmware ==
    opt.kernel /\ fw_start_addr + opt.image.size > kern_addr(opt) - 8

SegmentsMeet ==
    LET g == opt.image.segments
        Of(k) == Region(g[k].vaddr, Max({g[k].memsz, g[k].filesz}), "segment")
    IN  \E k \in {j \in DOMAIN g : IsLoaded(g[j])} :
            \/ Meet(Of(k), RomRegion)
            \/ \E l \in DOMAIN g : IsLoaded(g[l]) /\ l # k /\ Meet(Of(k), Of(l))

\* The firmware is entered at its first byte with the hart in a0 and the
\* device tree in a1, and all that was loaded is still there, unless firmware
\* and kernel were loaded to the same place, as they always are with
\* --phys_start 0 (load_raw).
RawHandedOver ==
    stage = "run" /\ Raw =>
        /\ pc = fw_start_addr /\ gpr.a0 = mhartid /\ gpr.a1 = fdt_addr
        /\ \A i \in DOMAIN mem :
              Whole(i) \/ (KernelMeetsFirmware /\ mem[i].what \in {"firmware", "kernel"})

\* An ELF program is entered at its entry, if that has 32 bits, and finds its
\* segments as the file has them, unless they meet each other or the ROM.
ElfHandedOver ==
    stage = "run" /\ Elf =>
        /\ opt.image.entry[1] = 0 => pc = opt.image.entry[2]
        /\ gpr.a0 = mhartid
        /\ \A i \in DOMAIN mem : mem[i].what # "zero" => Whole(i) \/ SegmentsMeet

HandedOver == RawHandedOver /\ ElfHandedOver

=============================================================================
