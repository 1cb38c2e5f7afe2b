----------------------------- MODULE Checkpoints -----------------------------
(***************************************************************************)
(* The loops of main that run the hart and write checkpoints, dumpState    *)
(* and loadState (main.cc, saveState.cc, runRiscv in interpret.cc).        *)
(*                                                                         *)
(* A session is one process.  It starts from the program's image or from a *)
(* checkpoint an earlier one left, runs one of the loops, and ends or is   *)
(* killed, also in the middle of a file.  The registers a checkpoint saves *)
(* are abstracted to the number of calls of execRiscv that produced them.  *)
(***************************************************************************)
EXTENDS Integers, Sequences, FiniteSets, FiniteSetsExt, SequencesExt

CONSTANTS
    Pages,          \* pages of memory
    Lists,          \* sorted lists of icnts, from a simpoint file
    DumpIcnts,      \* values of --dump other than 0
    MaxInsns,       \* values of --maxicnt
    Unlimited,      \* ~0, its default
    MaxCalls,       \* bound on the calls of execRiscv in a row of sessions
    MaxSessions     \* bound on the sessions

ASSUME CheckpointsAssumption ==
    /\ IsFiniteSet(Pages) /\ Pages \subseteq Nat
    /\ \A l \in Lists : l \in Seq(Nat) /\ \A i, j \in DOMAIN l : i < j => l[i] <= l[j]
    /\ DumpIcnts \subseteq Nat \ {0}
    /\ Unlimited \in Nat /\ MaxInsns \subseteq 0 .. Unlimited
    /\ MaxCalls \in Nat /\ MaxCalls < Unlimited /\ MaxSessions \in Nat

Modes == {"list", "interval", "plain"}
Icnts == 0 .. MaxCalls
Memory == [Pages -> BOOLEAN]            \* is the page's content not zero

VARIABLES
    phase,          \* "idle", "head" of the loop, "header", "pages", "exec"
    mode, list, chIdx, dumpIcnt, maxicnt,
    icnt, calls, mem, brk,
    files,          \* icnt in the name |-> what is on the disk
    \* history variables
    sessions, init, insns,      \* init_icnt, and this session's --maxicnt
    opened,         \* icnt in the name |-> <<icnt, calls, mem>> when the file
                    \* was opened last
    first, last     \* calls made when an icnt was reached first and left, in
                    \* this session

loop == <<mode, list, dumpIcnt, maxicnt, init, insns>>
hart == <<icnt, calls, mem, brk, first, last>>
disk == <<files, opened>>
vars == <<phase, chIdx, disk, loop, hart, sessions>>

\* A file: the header, if it was written, and the pages after it.
NoHeader == [icnt |-> -1, calls |-> 0, pages |-> 0]
File == [header : [icnt : Icnts \cup {-1}, calls : Icnts, pages : 0 .. Cardinality(Pages)],
         pages : Seq(Pages)]

\* loadState reads a file to its end
Complete(f) == f.header # NoHeader /\ Len(f.pages) = f.header.pages

TypeOK ==
    /\ phase \in {"idle", "head", "header", "pages", "exec"}
    /\ mode \in Modes /\ list \in Lists \cup {<< >>} /\ chIdx \in 0 .. Len(list)
    /\ dumpIcnt \in DumpIcnts \cup {0, Unlimited} /\ maxicnt \in Nat
    /\ icnt \in Icnts /\ calls \in icnt .. MaxCalls /\ mem \in Memory /\ brk \in BOOLEAN
    /\ DOMAIN files \subseteq Icnts /\ \A n \in DOMAIN files : files[n] \in File

Zero == [p \in Pages |-> FALSE]

\* no process
Init ==
    /\ phase = "idle"
    /\ mode = "plain" /\ list = << >> /\ chIdx = 0 /\ dumpIcnt = 0 /\ maxicnt = 0
    /\ icnt = 0 /\ calls = 0 /\ mem = Zero /\ brk = FALSE
    /\ init = 0 /\ insns = 0 /\ first = << >> /\ last = << >>
    /\ files = << >> /\ opened = << >> /\ sessions = 0

-----------------------------------------------------------------------------
(* Sessions.                                                               *)

\* main up to its loop, with the hart in state <<n, c, m>>
Enter(n, c, m) ==
    /\ phase = "idle" /\ sessions < MaxSessions
    /\ phase' = "head" /\ sessions' = sessions + 1
    /\ \/ mode' = "list" /\ list' \in Lists /\ dumpIcnt' = Unlimited
       \/ mode' \in {"interval", "plain"} /\ dumpIcnt' \in DumpIcnts /\ list' = << >>
    /\ chIdx' = 0
    /\ icnt' = n /\ calls' = c /\ mem' = m /\ brk' = FALSE
    /\ init' = n
    /\ first' = [i \in {n} |-> c] /\ last' = [i \in {n} |-> c]
    /\ UNCHANGED disk

\* load_elf or load_raw
StartImage(m) ==
    /\ Enter(0, 0, m)
    /\ \E max \in MaxInsns : maxicnt' = max /\ insns' = max

\* what loadState makes of the pages of a file, in memory that is zero
Loaded(f) == [p \in Pages |-> p \in ToSet(f.pages)]

\* Variant: the limit counts from the start of the program.
StartDumpTotal(n) ==
    /\ n \in DOMAIN files /\ Complete(files[n])
    /\ \E max \in MaxInsns : maxicnt' = max /\ insns' = max
    /\ Enter(files[n].header.icnt, files[n].header.calls, Loaded(files[n]))

\* loadState; its assertions stop it on a file cut short
StartDump(n) ==
    /\ n \in DOMAIN files /\ Complete(files[n])
    /\ \E max \in MaxInsns :
        /\ maxicnt' = IF max = Unlimited THEN max ELSE max + files[n].header.icnt
        /\ insns' = max
    /\ Enter(files[n].header.icnt, files[n].header.calls, Loaded(files[n]))

\* the end of main, SIGINT (catchUnixSignal) or any other end of the process
Exit ==
    /\ phase' = "idle"
    /\ mode' = "plain" /\ list' = << >> /\ chIdx' = 0 /\ dumpIcnt' = 0 /\ maxicnt' = 0
    /\ icnt' = 0 /\ calls' = 0 /\ mem' = Zero /\ brk' = FALSE
    /\ init' = 0 /\ insns' = 0 /\ first' = << >> /\ last' = << >>
    /\ UNCHANGED <<disk, sessions>>

Kill == phase # "idle" /\ Exit

-----------------------------------------------------------------------------
(* The loops.                                                              *)

Continue ==
    /\ icnt < maxicnt /\ ~brk
    /\ mode = "list" => chIdx < Len(list)
    /\ mode = "plain" => icnt < dumpIcnt

\* Variant: a checkpoint that is there is not taken again.
DueOnce ==
    \/ mode = "list" /\ Continue /\ list[chIdx + 1] = icnt
    \/ mode = "interval" /\ Continue /\ icnt % dumpIcnt = 0 /\ icnt \notin DOMAIN files
    \/ mode = "plain" /\ ~Continue /\ icnt >= dumpIcnt

\* a checkpoint is due at the head of the loop
Due ==
    \/ mode = "list" /\ Continue /\ list[chIdx + 1] = icnt
    \/ mode = "interval" /\ Continue /\ icnt % dumpIcnt = 0
    \/ mode = "plain" /\ ~Continue /\ icnt >= dumpIcnt

\* the loop goes on to execRiscv
Go == phase = "head" /\ Continue /\ ~Due /\ phase' = "exec"
      /\ UNCHANGED <<chIdx, disk, loop, hart, sessions>>

\* the loop ends, and main with it
End == phase = "head" /\ ~Continue /\ ~Due /\ Exit

\* dumpState opens the file of this icnt and truncates it
OpenDump ==
    /\ phase = "head" /\ Due
    /\ phase' = "header"
    /\ files' = [n \in DOMAIN files \cup {icnt} |->
                    IF n = icnt THEN [header |-> NoHeader, pages |-> << >>] ELSE files[n]]
    /\ opened' = [n \in DOMAIN files \cup {icnt} |->
                    IF n = icnt THEN <<icnt, calls, mem>> ELSE opened[n]]
    /\ UNCHANGED <<chIdx, loop, hart, sessions>>

\* Variant: the search starts behind page 0.
NonZeroButFirst == {p \in Pages : mem[p] /\ p > 0}

NonZero == {p \in Pages : mem[p]}

WriteHeader ==
    /\ phase = "header" /\ phase' = "pages"
    /\ files' = [files EXCEPT ![icnt].header =
                    [icnt |-> icnt, calls |-> calls, pages |-> Cardinality(NonZero)]]
    /\ UNCHANGED <<chIdx, opened, loop, hart, sessions>>

\* the next page that is not zero, in order
WritePage ==
    LET left == NonZero \ ToSet(files[icnt].pages)
    IN  /\ phase = "pages" /\ left # {}
        /\ files' = [files EXCEPT ![icnt].pages = Append(@, Min(left))]
        /\ UNCHANGED <<phase, chIdx, opened, loop, hart, sessions>>

\* Variant: the index of the list does not move.
CloseDumpSameIndex ==
    /\ phase = "pages" /\ NonZero \subseteq ToSet(files[icnt].pages)
    /\ \/ mode = "plain" /\ Exit
       \/ mode # "plain" /\ phase' = "exec" /\ UNCHANGED <<chIdx, disk, loop, hart, sessions>>

\* Variant: the index moves in the other loop too.
CloseDumpAnyMode ==
    /\ phase = "pages" /\ NonZero \subseteq ToSet(files[icnt].pages)
    /\ \/ mode = "plain" /\ Exit
       \/ /\ mode # "plain" /\ phase' = "exec" /\ chIdx' = chIdx + 1
          /\ UNCHANGED <<disk, loop, hart, sessions>>

\* dumpState returns; the plain loop is over, the others go on to execRiscv
CloseDump ==
    /\ phase = "pages" /\ NonZero \subseteq ToSet(files[icnt].pages)
    /\ \/ mode = "plain" /\ Exit
       \/ /\ mode # "plain" /\ phase' = "exec"
          /\ chIdx' = IF mode = "list" THEN chIdx + 1 ELSE chIdx
          /\ UNCHANGED <<disk, loop, hart, sessions>>

\* one call of execRiscv: n is the new icnt
Exec(n, m, b) ==
    /\ phase = "exec" /\ calls < MaxCalls
    /\ phase' = "head"
    /\ icnt' = n /\ calls' = calls + 1 /\ mem' = m /\ brk' = b
    /\ first' = IF n \in DOMAIN first THEN first
                ELSE [i \in DOMAIN first \cup {n} |-> IF i = n THEN calls + 1 ELSE first[i]]
    /\ last' = [i \in DOMAIN last \cup {n} |-> IF i = n THEN calls + 1 ELSE last[i]]
    /\ UNCHANGED <<chIdx, disk, loop, sessions>>

\* an instruction completes, and may have written to memory
Retire == \E p \in Pages, x \in BOOLEAN : Exec(icnt + 1, [mem EXCEPT ![p] = x], FALSE)
\* an interrupt or an exception
Trap == Exec(icnt, mem, FALSE)
\* a csrw of one of the CSRs that stop the simulation
Break == Exec(icnt + 1, mem, TRUE)

Next ==
    \/ \E m \in Memory : StartImage(m)
    \/ \E n \in Icnts : StartDump(n)
    \/ Kill
    \/ Go \/ End
    \/ OpenDump \/ WriteHeader \/ WritePage \/ CloseDump
    \/ Retire \/ Trap \/ Break

Spec == Init /\ [][Next]_vars

-----------------------------------------------------------------------------
(* Properties.                                                             *)

\* A checkpoint that loads is of its icnt and gives back the state the hart
\* was in when it was taken, however the sessions that wrote it ended.
CheckpointsAreStates ==
    \A n \in DOMAIN files : Complete(files[n]) =>
        <<n, files[n].header.calls, Loaded(files[n])>> = opened[n]

\* Where the loop is past icnt n, so that n's checkpoint is not being written.
Passed(n) == init <= n /\ n < icnt /\ phase # "idle"

Increasing(l) == \A i, j \in DOMAIN l : i < j => l[i] < l[j]

\* A simpoint file without duplicates that lists nothing before the start of
\* the session: every location that was passed has its checkpoint, and it is
\* the state in which the hart got there first, before any trap.
ListedAreTaken ==
    mode = "list" /\ Increasing(list) /\ (list # << >> => init <= list[1]) =>
        \A n \in ToSet(list) : Passed(n) =>
            /\ n \in DOMAIN files /\ Complete(files[n])
            /\ files[n].header.calls = first[n]

\* --checkpoints: every multiple of --dump has its checkpoint, and it is the
\* state after all traps, in which the next instruction completes.
IntervalsAreTaken ==
    mode = "interval" =>
        \A n \in Icnts : Passed(n) /\ n % dumpIcnt = 0 =>
            /\ n \in DOMAIN files /\ Complete(files[n])
            /\ files[n].header.calls = last[n]

\* "max instructions to execute" counts from where the session started: a
\* session executes no more, and no fewer unless something else ends it.
BudgetKept ==
    /\ icnt - init <= insns
    /\ phase = "head" /\ ~Continue =>
        \/ icnt - init = insns \/ brk
        \/ mode = "list" /\ chIdx = Len(list)
        \/ mode = "plain" /\ icnt >= dumpIcnt
=============================================================================
