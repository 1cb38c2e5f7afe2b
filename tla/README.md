# A TLA+ model of interp_rv64

`interp_rv64` is a RISC-V RV64IMA instruction-set simulator in C++: one hart with
machine, supervisor and user levels, Sv39 translation, a timer, cache and branch
predictor statistics, checkpoints and SimPoint profiling.  This directory models
its parts in TLA+, checks the models with TLC and proves theorems about them with
TLAPS.  Paths and line numbers refer to `../src`.

## Inventory

| component | state | operations | what is hard about it |
|---|---|---|---|
| traps and interrupts (`interpret.cc`, `temu_code.cc`) | `priv`, `mstatus`, `mip`, `mie`, `mideleg`, `medeleg`, `mepc`, `sepc`, `mtvec`, `stvec`, `mtimecmp`, `icnt` | sample the timer, take an interrupt, raise an exception, `mret`, `sret`, CSR writes, the store to `mtimecmp` | nesting: an M trap inside an S handler; delegation; interrupts re-taken; `mip.mtip` set by the timer and by software |
| translation (`interpret.cc`) | page tables in memory, `satp`, the TLB (32 entries), `last_pc`, `last_phys_pc` | `translate`, `insert_tlb`, `lookup_tlb`, `clear_tlb`, `set_priv`, `sfence.vma`, writes of `satp` | three caches of one truth; dirty bits; big and contiguous pages; code that edits the tables it runs under |
| CSRs and console (`interpret.cc`) | `mstatus` ... `satp`, `cons_buf`, `curr_pos`, `brk` | `read_csr`, `write_csr`, the six CSR instructions | several numbers show one register through masks of their own; `satp` takes a write or ignores it; lines longer than the buffer |
| instruction semantics (`interpret.cc`) | `gpr` | opcodes 0x13, 0x1b, 0x33, 0x3b, 0x63 | widths: 64-bit and 32-bit forms, signs, shifts, zero operands |
| LR/SC and AMOs (`interpret.cc`) | `llsc_addr`, memory | `lr`, `sc`, `amo*` | a reservation that outlives what it reserves |
| caches (`nway_cache.cc`, `trace.cc`) | per set two linked lists; counters | `access` | pointer surgery; results of different configurations are compared |
| branch predictors (`branch_predictor.cc`, `tage_base.cc`) | counters, tagged tables, histories | `predict`, `update` | provider and alternate, allocation, the history an index was computed from |
| checkpoints and loops (`main.cc`, `saveState.cc`) | `icnt`, memory, the files | three loops, `dumpState`, `loadState` | traps leave `icnt` where it is; a file written twice; kills |
| SimPoint (`av.cc`) | `bblog`, `mlog`, `bbsz` | `addSample`, `nextSample` | intervals and traps, two logs that must agree |
| trace files (`trace.cc`) | a buffer, the file | `add`, `write_to_disk`, and in a second program `simulate` | what is left in the buffer at the end; a signal inside `fwrite`; a file read while it is written, cut inside a record |
| loaders (`elf.cc`, `raw.cc`, `main.cc`) | memory, protected pages, `pc`, two ROMs | `load_elf`, `load_raw` | regions written in turn to fixed addresses; code pages protected before all is written |
| device tree (`fdt.cc`) | two growing tables, interned names, phandles | `riscv_build_fdt`, `fdt_output` | offsets into a table that grows; padding; references by number |
| uart, virtio, syscalls, disassembler | | | unreachable or formatting: not modelled |

Everything happens in one thread.  `main` picks a loop; the loop calls
`execRiscv_`; one call takes an interrupt, or fetches and executes one
instruction, which retires (`icnt++`) or traps.  `execRiscv_` calls `translate` for
the fetch and for data, which call the caches; branches call the predictor; with
profiling on, `av` is called.  The only asynchrony is what the *guest* can do
between two calls (interrupts from the timer, edits of its own page tables), the
SIGINT handler, and the end of the process, after which the only state left is in
the checkpoint and trace files.  `trace::simulate` is a program of its own (the
`STANDALONE` part of `trace.cc`), and may read a trace that is still being written.

## Modules

`Traps` — one action per kind of call of `execRiscv_` as far as levels, `mstatus`,
interrupt registers, timer and exception program counters are concerned.  Which
instruction runs is a nondeterministic choice, so the model covers every guest
program.  `mframe` and `sframe` are history variables: the trap being handled at M
and at S, forgotten as soon as software writes a register that describes it
(`mstatus`, `mepc`, ...) and when a trap from M itself overwrites an M frame.

`Mmu` — one call of `execRiscv_` as far as translation is concerned: the fetch
(through the saved page or `translate`), then one instruction, which may be a load,
a store (possibly into a page table), an `lr`, a fence, a `satp` write, a return or a
trap.  The page tables are a function from table and index to entries, of any
radix; `Translate` returns the new memory, the new TLB, the physical page and the
fault together, as `translate` computes them.  An atomic instruction translates twice, first as
its width says (a word as a store, a double word as a load) and then as the instruction itself;
an `sc` that fails completes and writes nothing.  `edited` and `fresh` are history
variables.  In the code "no saved page" is `last_phys_pc == 0`, so code in physical
page 0 is never reused, and -1 stands for it here.

`LruStacks`, `Way`, `Cache`, `CacheSweep` — an abstract LRU cache, the linked lists of one
set of `nway_cache`, all its sets, and two caches on one trace beside a direct-mapped one.  `Cache`
implements `LruStacks` under the mapping `stack <- ` the lines on the list in use.

`Checkpoints` — sessions (processes) that start from an image or from a checkpoint,
run one of the loops of `main`, write files step by step and end or are killed
between any two steps.  The registers a checkpoint saves are abstracted to the number
of calls of `execRiscv` that made them, so "the same state" is "the same number of
calls and the same memory".

`Trace` — the simulator's side of `--tracename` and the second program side by side, with
the file between them.  A call of `execRiscv_` fetches, accesses memory and completes or
traps, and may report a fetch at the first two; a full buffer is inside `write_to_disk`
until `WriteToDisk` (or `Close`, in the destructor) is done.  Between two of these steps the
process may exit or be killed: `catchUnixSignal` runs where it interrupts.  In `fwrite` the
C library may flush at any moment and anywhere, so the file is counted in halves of a
record; an exit there writes any part of the buffer, and perhaps a second time the block
that the interrupted call had just written (`disk` passes `intact` by at most `BLOCK`).

`Fdt`, `Boot` — `riscv_build_fdt` as the list of calls it makes for given options, each of
which is a step on the three tables (structure, strings, open nodes) with their sizes in
words and their reallocations; `Boot` adds the loaders around it, as the list of regions
written to memory, the last first, and the pages `load_elf` protects.  A step that writes to
a protected page kills the process.

`SimPoint` — the two logs of `runRiscvSimPoint`.  The samples of a vector are summed by a
recursive function, `Weight`.

`Alu` — what the integer opcodes compute: a record per opcode whose fields are the
instructions and whose values go to `rd`.  Widths are constants (8, 4, 3 and 2 bits stand
for 64, 32, 16 and 8), so that the corner values of a word are few and all there.
Where the code divides without a guard the outcome depends on the host: on x86 the
divide instruction ends the process (`Dead`), on ARM it wraps.  `Atomics` adds `lr`, `sc` and the
AMOs with two lines of memory and the reservation, which `sc` does not clear.

`Csrs`, `Console`, `Hart` — `read_csr`, `write_csr` and the six CSR instructions on
registers that are sets of bits (what reads and writes do depends on single bits, never on
arithmetic); registers without a rule of their own are the constant `Plain`.  `Console` is
numbers 0xc03 and 0xc04.  `Hart` runs a program of one of the three kinds: integer, CSR or
console instructions.  The three share no state, so interleaving them would only multiply.

`Tage`, `Gem5Tage`, `Gshare`, `Predictors` — the two TAGE predictors, gshare and the choice `main` makes
between them.  A branch is one action: `predict`, the outcome, `update`; jumps pass
`true` for prediction and outcome whatever `predict` said.  `boost::hash_combine` is a
constant operator; everything around it (the words of the register that are seen, slot,
tag) is modelled.  The words of the history registers and the places in the tables of `gem5_tage` and
`gshare` are sets of bits, which is all that shifts and xors need.  `Gem5Tage` is only what `gem5_tage` calls: it never calls
the function that sets the allocation up (`tage_base.hh:44`), so its tagged tables keep their first content.

The `MC` modules hold the values of constants for TLC, the modules named
`...Proofs` the theorems.  The operators whose comment begins with
"Variant" are the wrong versions of the definition that follows them; no action uses
them, they exist to check that each property can tell the difference.

## What is checked

Fairness is assumed in `Trace` only: weak fairness of the run loop and of the loop of
`trace::simulate`.  Both are plain loops of a process that the host schedules, with nothing
to wait for.  Nobody is bound to send a signal, to flush early or to open the trace, and the
guest is not bound to anything: one whose trap vector faults traps forever with `icnt`
standing still, hence the `[]<>trapped` in `RunsEnd`, which is the strongest the simulator
can promise.  The other modules state safety only.  Runs over bounded histories say
`CHECK_DEADLOCK FALSE` because a trace, a run or a process ends; `Traps` and `Mmu` do check
deadlock.

| run | what it shows | bounds and why they are enough |
|---|---|---|
| `traps` | interrupts are routed by delegation, do not pile up and never overwrite a trap being handled (`InterruptRouting`, `BurstBounded`); frames stay intact through nesting and `mret`/`sret` restore them (`FramesIntact`, `ReturnRestores`); `mip.mtip` is honest (`MtipHonest`) | two interrupts, either of which may be delegated; two addresses (symmetric); 3 retired instructions and any number of traps: one nests S in U and M in S; an `mret` to U, S and H |
| `mmu` | `TlbCoherent`, `StoreMarksDirty`, `SavedPageCoherent`, `WalkWritesOnlyAd` | tables of 2 entries, three levels, 8 pages, leaves at all levels, a contiguous leaf, a table mapped into the kernel, one entry of any table remapped |
| `mmu_saved_page` | finding: the saved page survives a fence | |
| `cache` | lists are well formed, `nway_cache` implements LRU stacks, and more ways lose no line and no hit (`ListsWellFormed`, `LruSpec`, `Inclusion`) | 3 ways (head, middle and tail differ) beside 2; 2 sets, 6 lines of which 5 compete for one set, 7 accesses |
| `cache_roofline` | finding: the direct-mapped cache beats the roofline | |
| `checkpoints` | checkpoints that load are what they are named after, none is missed, the budget is kept (`CheckpointsAreStates`, `ListedAreTaken`, `IntervalsAreTaken`, `BudgetKept`) | two pages, 4 calls, 2 sessions; lists with and without duplicates, `--dump 2` |
| `simpoint` | no sample lost, no interval mixed (`NothingLost`, `VectorsAreIntervals`) | intervals of 2, 6 calls, starts on and inside an interval |
| `simpoint_locations` | finding: a trap at a boundary shifts the vectors | |
| `hart` | divisions satisfy the division identity; forms that can compute the same (W and full width, branches and comparisons, minima, rotations, bit counts) agree; AMOs agree with the instructions of the same name and with AMOs of half the width (`DivisionIdentity`, `FormsAgree`, `AmosAgree`); a CSR instruction that writes leaves in each view what its number owns of the written value and shows the rest as before, one that reads or traps changes nothing (`CsrViews`); a console line stops the run iff it starts with a marker (`ConsoleStops`) | words of 8 bits from corner values (0, 1, -1, the extremes of both widths) and all results of one instruction on them, on hosts whose divide traps and whose divide wraps; 3 CSR instructions (a write, a write through another view, a read), two values that between them set and clear a bit of each kind; a buffer of 4 and lines of up to 8 characters, twice the buffer |
| `predictors` | the history register is the last outcomes; an allocated entry is never taken away and no useful counter ever drops; a branch of constant direction is mispredicted at most 5 times in a row by `gem5_tage`, and at most the width of the history and two more by `gshare` (`HistoryIsOutcomes`, `EntriesStay`, `BranchesLearn`) | `tage`: 6 branches of three addresses that share slots and tags, 2 words of 2 bits; `gem5_tage` and `gshare`: no bound, their states are finite; addresses that hit no, one and both tables, and counters that addresses share |
| `trace` | fetches reach the file once and in order, and an exit loses a buffer at most, a whole one only if the signal meets `write_to_disk` (`NothingLostButTheBuffer`); a simulation reads a beginning of the trace, whatever the simulator does meanwhile, its assertion holds, and a file opened after the simulator returned is simulated in full (`SimulatesPrefix`); a run ends unless the guest traps forever, a simulation ends (`RunsEnd`) | a buffer of 2 and up to 3 records: below, at and past a full buffer; 3 instructions; a block of 3 halves, more than a record and not a multiple of it |
| `boot` | what the loaders announce to the guest is where they say when its first instruction runs (`HandedOver`); the tree reads back as what was put into it and its references resolve (`TreeReadBack`, `ReferencesResolve`); tables never overflow (in `TypeOK`) | all combinations of firmware sizes around the kernel's address, kernels that are missing, empty, small and big, memory sizes on both sides of 4 GB, optional nodes; `WordSize` is 2^30, as TLC's numbers end at 2^31, so that memory from 1 GB on has an address of two words; ELF files whose code lies beside, on and across the ROM's page, and those that are refused |

Excluded by assumptions: `--dump 0` with `--checkpoints` (a division by zero that ends
the process), cache line numbers beyond the 32-bit `MASK`, a trace file that cannot be opened
and a disk that is full (`fwrite`'s result is not looked at).

## What is proved

Every property of a passing run is a theorem too, for all values of the constants, except
`RunsEnd`, which is liveness.

`TrapsProofs` proves, for all constants, that `Spec` implies `TypeOK`,
`FramesIntact`, `BurstBounded`, `MtipHonest` and the three action properties.  The
frames need each other: an S frame survives because either S runs with SIE off, or M
runs on top of it with an M frame that will give back S with SIE off.  So the
invariant that is inductive is the conjunction of types and both frame parts; the
burst bound needs the enable bits as they are after each entry, and the timer property is
inductive by itself.

`MmuProofs` proves `TypeOK`, `TlbCoherent`, `SavedPageCoherent`, `StoreMarksDirty` and
`WalkWritesOnlyAd` for every radix, table set and memory that satisfy the assumptions.
`TlbCoherent` is not inductive alone: that page tables point only to page tables
(`PointersIn`) has to be kept by walks (they touch A and D of leaves) and by the
program's writes (`TablesAssumption`); the key lemma says that marking a leaf changes no
other leaf's address, so a walk cannot invalidate a TLB entry; and the user bit
of every entry at U relies on the TLB being dropped at each change of level.

`ObserverProofs` is about `Trace` and `SimPoint`.  It proves `TypeOK`, `NothingLostButTheBuffer` and `SimulatesPrefix` of `Trace` for every
buffer length.  The invariant adds that what the reader counted stays within the file and
that the file is a beginning of the trace, but for what an exit out of `fwrite` writes twice;
`GivenIsPrefix` says so of what the C library was given, `AddAppends` of the buffer, and
`Going` that a call began below `maxicnt`.

It also proves `VectorsAreIntervals` of `SimPoint`: inside an interval the last vector holds
this interval only, and a new interval cannot begin without a call at its first `icnt`.
`NothingLost` says that the weights of the vectors and of the block that goes on add up to the
calls; the lemmas are about `Weight`, the sum of a vector, when a block is added to it.

`CheckpointsProofs` proves all five invariants of `Checkpoints`, for every memory and every
sequence of sessions and kills.  A file that is incomplete may hold anything that
belongs to the state in which it was opened (`FileOk`), and while it is written the hart
stands still (`Writing`); that its pages are counted and distinct is what makes a complete
file hold all of them.  For the lists and intervals the history of the session is added:
everything behind the loop is saved, what the list points at is not behind it, and a location
is reached before any trap there (`Taken`).  The assumption that the call bound is below
`~0` stands for 64-bit counters that do not run out.

`CacheProofs` proves for every number of ways and sets and every trace that the linked lists
are well formed (`ListsWellFormed`), that they implement LRU stacks step by step (`LruSpec`),
and the stack property (`Inclusion`).  The state of a set is related to two sequences, the
nodes in use and the free ones: each of `next`, `prev`, head and tail is what the sequence says.
A fill, a replacement and a move to the front each take one node out of a sequence and put it in
front of one.  `Inclusion` has an invariant of its own: the stacks of the smaller cache are prefixes
of the larger's.

`PredictorsProofs` proves the types and the three properties of the predictors for every
size and hash.  `HistoryIsOutcomes` relates each bit of each word to an outcome, and a shift
moves every one of them, across words too.  `BranchesLearn` needs an invariant that ties the
mispredictions of a streak to the counters: each one has moved the branch's counter
towards the direction, or, in `gshare`, happened while the history filled with it.  For
`EntriesStay` an entry is free or has the one tag of its slot (`TagInSlot`), and a free one
whose slot's tag is not 0 was never useful.

`HartProofs` proves everything `hart` checks, for every width.  For the console the invariant
says that the buffer holds the line as long as it fits; for the CSRs that registers are typed
and `mstatus` keeps UXL.  For the integer instructions the invariant is only the type
(`AtomicTypeOK`): registers are words and x0 is 0, and the properties are theorems about any two
words.  What they rest on is a small theory of words, the first half of the module:

1. powers of two (the library counts the subsets of a set of n members as 2^n, which is where
   the provers get `2 ^ (n + 1) = 2 * 2 ^ n` from), and that quotient and remainder are unique;
2. sums (`Total`) and numbers as digits of w bits: a number is its digits.  With w = 1 a word
   is its set of bits, with w = `ByteBits` its bytes;
3. two's complement (`SignedInIs`): the only number in the range that is congruent;
4. a word as two parts (`Join`), of which rotations, halves and shifts are made, with their bits
   (`BitsOfJoin`) and the number of their ones (`CountOfJoin`).

From these: division rounds toward zero in both widths and the overflow is the only
exception; truncation to a word commutes with sum, difference, product and shift
(`LowRing`), hence the W forms; a rotation exchanges two parts, hence it is undone and keeps
the ones; the bits below the lowest one are what `a - 1` has and `a` has not, hence `ctz`.

`BootProofs` proves `TreeReadBack`, `ReferencesResolve`, `HandedOver` and the type of `Boot` for all
options, firmware, kernels and ELF files, and that the assertion of `fdt_output` holds (`NodesClosed`).  The argument
follows the data from the options to the guest:

1. the calls of `riscv_build_fdt` close each node they open and no other (`Shape`, `ScriptShape`);
2. each call appends the words that stand for it (`Did`), its name is in the string table where the
   offset says (`OffsetOf`), and both stay while tables grow, so that after m calls the structure
   block is the words of the first m (`Encoded`, the inductive part) and at most 1000 m bytes long;
3. `fdt_output` puts them where its header says (`LaidOut`), and a reader who starts at the header
   and goes from token to token makes each call again (`ReadAs`, `WholeRead`), so that what is said
   of the blob is said of the script (`TreeIs`);
4. for `load_raw` the regions of memory have ages, the last written first (`RawLoaded`), and of two
   of different ages the later lies elsewhere, except for a kernel over the firmware (`RawApart`);
   here the bound of step 2 keeps the tree below the firmware;
5. for `load_elf` each region is a part of a segment, and of one segment only the cleared
   region is below the copied one (`ElfLoaded`), so a region that is not whole shows two segments, or
   a segment and the ROM, that meet;
6. between the ROM's first instruction and its jump the registers are what `RawAt` and `ElfAt` say
   for each pc.

`ReferencesResolve` then speaks of the script alone.  Its first 51 calls do not depend on the options,
except in their values, the UART is the next seven, and no later call is of a name that a reference
is about (`Table`, `SerialTable`, `Rest`, from the lengths of the parts).  How deep each call is
follows call by call, hence the node each property is of and the node around it (`DepthNext`, `OwnerIs`,
`ParentIs`), hence which nodes have which values (`TableValues`, `RegValues`), and the five parts of the
property from these.

The assumptions are those in the modules: sizes are positive, a contiguous leaf fits a
table, page tables, as the boot code wrote them and as the program writes them, point
to page tables; and a register has two words of `WordBits` bits, with `WordBits` a divisor of
`2 ^ WordBits`, so that the low word decides its shift amounts (`WidthsAssumption`, which 64 and 32
bits satisfy).  The predictors assume only that a tag is a part of the slot's index and
that the hash yields natural numbers (`TageAssumption`, `HashAssumption`).  The boot assumes numbers
where the options and the files have numbers, two words for the size of memory (`OptionsAssumption`,
`ImageAssumption`), that the
strings of the tree have lengths, of which the provers know nothing, and that the tree is less than
a thousand calls of less than 1 KB each (`TreeFits`): the code has room for it below the firmware
and does not check it.  It makes fewer than a hundred, of at most 80 bytes, and TLC evaluates all three
for the options of the run.

One property stays with TLC, beside the counterexamples: `RunsEnd` is liveness under fairness, which is
out of the prover's reach, as is ENABLED.

The library's theorems for induction over data take operators, which no prover here can
instantiate.  Induction is done from the least number for which a statement fails (`Inductive`), or
along finite sets (`SetInduction`), over recursive functions, never over recursive operators.  That a
recursive function is what its equation says is proved from a function that is (`Recursion` in
`BootProofs`), built value by value.

What the predictor runs show is worth spelling out.  In `tage` the 12 bits of a tag are among
the 16 of the slot's index, so a tag only says that its slot was ever allocated:
`EntriesStay` is the consequence, and with it the useful counters, which exist to choose a
victim, never choose one.  Both table lengths are cut to the register's 192 bits, and the
mask of the last word is empty for a multiple of 16, so both tables see the same 176
outcomes.  These are properties of the code as it is; a change of hash or
tag width will break them, and should.

Met while modelling, with no document to compare with, so without a run that is expected to
fail:

- `cpopw` of a zero word is all ones, as are `clzw` and `ctzw` of it, while `cpop` of zero is 0
  (`interpret.cc:1330`); `remu`
  by zero has no guard; `amomaxu.w` returns its word without sign extension, the other AMOs
  with it.
- `mtval` reads `mtvec` (`interpret.cc:521`), and a `stvec` with a mode aborts the simulator
  (`interpret.cc:593`).
- `gem5_tage` never allocates (`tage_base.hh:44`): mispredictions only train.
- a duplicate in a list of checkpoint locations, or one before the start, stalls the list
  (`main.cc:330`): every later location is skipped.  `ListedAreTaken` assumes lists without.
- the tracer misses fetches that the saved page or the TLB answers (`interpret.cc:294`), so a
  trace is a trace of TLB misses; `NothingLostButTheBuffer` speaks of what is reported.
- the serial node of the device tree has `interrupts` and no `interrupt-parent`; with
  `--phys_start 0` the kernel is copied over the firmware; the default memory node covers CLINT
  and PLIC.

## Plan

1. Done: traps, translation, caches, checkpoints, SimPoint, integer and CSR instructions, the
   console, predictors, trace files, loaders and the device tree; proofs of all their safety
   properties.
2. Left: `Traps` and `Mmu` composed over one level and one `satp`, shown to implement both;
   the reservation of LR/SC under a guest that switches tasks; the statistics of `--dtlb_entries` and
   `--store_to_load`.
3. Proofs left: none of a safety property a run checks.  `RunsEnd` needs a prover for liveness.

## Not modelled

uart, virtio, syscalls and the disassembler (unreachable or formatting); `branch_tracer`,
`uberhistory`, `condBranchUpdate` and the rest of `tage_base.cc` that nothing calls; the
compressed decoder, which aborts the simulator before it decodes; floating point behind
`--hacky_fp32` (TLA+ has no floats); byte-level loads and stores (plain memory); the symbols
`load_elf` collects (read by dead code); `--dtlb_entries` and `--store_to_load`, counters that
only a report reads; the interactive loop, `--dump 0` and `extract_kernel`, which copies
memory to a file.
