------------------------------- MODULE Trace -------------------------------
(***************************************************************************)
(* --tracename: translate reports fetches to trace::add, which buffers     *)
(* them and writes the buffer to a file when it is full; a second program  *)
(* (trace.cc, STANDALONE) gives every record of the file to a cache.  The  *)
(* simulator leaves its run loop, or exits (an instruction it does not     *)
(* know, or SIGINT, whose handler interrupts it anywhere, in the middle of *)
(* fwrite too), or is killed.                                              *)
(***************************************************************************)
EXTENDS Integers, Sequences

CONSTANTS
    BUFLEN,         \* records in the buffer
    BLOCK,          \* the C library's buffer, in halves of a record
    Lines,          \* physical addresses
    None,           \* an access that translate does not report
    MaxIcnt,        \* state_t::maxicnt
    MaxRecords      \* bound on the records

ASSUME TraceAssumption ==
    /\ BUFLEN \in Nat \ {0} /\ BLOCK \in Nat /\ None \notin Lines
    /\ MaxIcnt \in Nat /\ MaxRecords \in Nat

VARIABLES
    retired,        \* state_t::icnt
    brk, entered_user,
    proc,           \* how the simulator stands
    at,             \* and where, when it runs
    tracer,         \* buf[0 .. pos - 1], and what fwrite was given so far
    disk,           \* the length of the file, in halves of a record
    intact,         \* as much of it as is a beginning of the trace
    sim, n_entries, i, unique_paddrs,   \* trace::simulate
    added,          \* history: the fetches reported, in order
    trapped,        \* history: the last call of execRiscv_ trapped
    opened          \* history: proc when the file was opened to simulate it

hartVars == <<retired, brk, entered_user, trapped>>
fileVars == <<disk, intact>>
simVars  == <<sim, n_entries, i, unique_paddrs, opened>>
vars     == <<hartVars, proc, at, tracer, added, fileVars, simVars>>

\* Variant: the buffer is written when it is full and one more arrives.
FullLate == Len(tracer.buf) > BUFLEN
Full == Len(tracer.buf) = BUFLEN

\* in write_to_disk, called by add, or in ~trace
Writing == Full \/ at = "delete"

\* what the C library may have got from the tracer
Given == tracer.fp \o IF Writing THEN tracer.buf ELSE << >>

TypeOK ==
    /\ retired \in 0 .. MaxIcnt /\ brk \in BOOLEAN /\ entered_user \in BOOLEAN
    /\ proc \in {"running", "ended", "exited", "killed"}
    /\ at \in {"loop", "execute", "complete", "delete"}
    /\ tracer \in [buf : Seq(Lines), fp : Seq(Lines)] /\ Len(tracer.buf) <= BUFLEN
    /\ intact \in 0 .. 2 * Len(Given) /\ disk \in intact .. intact + BLOCK
    /\ sim \in {"idle", "reading", "done", "failed"}
    /\ n_entries \in Nat /\ i \in 0 .. n_entries /\ unique_paddrs \subseteq Lines
    /\ added \in Seq(Lines) /\ trapped \in BOOLEAN
    /\ opened \in {"no", "running", "ended", "exited", "killed"}

Init ==
    /\ retired = 0 /\ brk = FALSE /\ entered_user = FALSE /\ proc = "running" /\ at = "loop"
    /\ tracer = [buf |-> << >>, fp |-> << >>] /\ disk = 0 /\ intact = 0
    /\ sim = "idle" /\ n_entries = 0 /\ i = 0 /\ unique_paddrs = {}
    /\ added = << >> /\ trapped = FALSE /\ opened = "no"

-----------------------------------------------------------------------------
(* The simulator.  Between two of its steps a signal may end it.           *)

ISIDE == 1
DSIDE == 2

\* Variant: pos is not reset.
write_to_disk_again(t) == [t EXCEPT !.fp = @ \o t.buf]
write_to_disk(t) == [buf |-> << >>, fp |-> t.fp \o t.buf]

\* up to pos++; a buffer that is full then is written by WriteToDisk
add(t, line, type) ==
    IF type # ISIDE THEN t ELSE [t EXCEPT !.buf = Append(@, line)]

\* translate: a TLB hit returns before the tracer is asked, as does a fault,
\* and a fetch from the saved page does not come here
translate(t, line, type, entered) ==
    IF line # None /\ entered THEN add(t, line, type) ELSE t

KeepGoing == ~brk /\ retired < MaxIcnt

Move(from, to) == proc = "running" /\ ~Full /\ at = from /\ at' = to

\* an access that translate may report
Reported(line, type) ==
    /\ tracer' = translate(tracer, line, type, entered_user')
    /\ added' = IF line # None /\ type = ISIDE /\ entered_user'
                THEN Append(added, line) ELSE added
    /\ Len(added') <= MaxRecords

\* a call of execRiscv_ fetches,
Fetch ==
    /\ Move("loop", "execute") /\ KeepGoing
    /\ \E user \in BOOLEAN : entered_user' = (entered_user \/ user)
    /\ \E line \in Lines \cup {None} : Reported(line, ISIDE)
    /\ UNCHANGED <<retired, brk, trapped, proc, fileVars, simVars>>

\* accesses data, or translates its pc again if its block is sampled,
AccessMemory ==
    /\ Move("execute", "complete")
    /\ UNCHANGED entered_user
    /\ \E line \in Lines \cup {None}, type \in {ISIDE, DSIDE} : Reported(line, type)
    /\ UNCHANGED <<retired, brk, trapped, proc, fileVars, simVars>>

\* Variant: icnt stays.
RetireStays ==
    /\ Move("complete", "loop")
    /\ trapped' = FALSE /\ UNCHANGED <<retired, brk>>
    /\ UNCHANGED <<entered_user, proc, tracer, added, fileVars, simVars>>

\* and completes: one instruction in the run loop may set brk
Retire ==
    /\ Move("complete", "loop")
    /\ trapped' = FALSE /\ retired' = retired + 1 /\ brk' \in BOOLEAN
    /\ UNCHANGED <<entered_user, proc, tracer, added, fileVars, simVars>>

\* or traps
Trap ==
    /\ Move("complete", "loop")
    /\ trapped' = TRUE /\ UNCHANGED <<retired, brk>>
    /\ UNCHANGED <<entered_user, proc, tracer, added, fileVars, simVars>>

\* fwrite returns to add, and pos = 0
WriteToDisk ==
    /\ proc = "running" /\ Full
    /\ tracer' = write_to_disk(tracer)
    /\ UNCHANGED <<hartVars, proc, at, added, fileVars, simVars>>

\* the end of main deletes the tracer,
Delete ==
    /\ Move("loop", "delete") /\ ~KeepGoing
    /\ UNCHANGED <<hartVars, proc, tracer, added, fileVars, simVars>>

\* which writes the rest and closes the file
Close ==
    /\ proc = "running" /\ at = "delete" /\ proc' = "ended"
    /\ tracer' = write_to_disk(tracer)
    /\ disk' = 2 * Len(tracer'.fp) /\ intact' = disk'
    /\ UNCHANGED <<hartVars, at, added, simVars>>

\* The C library writes in fwrite and fclose, in blocks that do not end at
\* records.
Flush ==
    /\ proc = "running" /\ Writing
    /\ disk' \in disk + 1 .. 2 * Len(Given) /\ intact' = disk'
    /\ UNCHANGED <<hartVars, proc, at, tracer, added, simVars>>

\* catchUnixSignal, at any place, and the unknown opcodes: exit flushes what
\* the C library has.  In fwrite that is any part of the buffer; and a block
\* that was just written, but is not yet marked so, is written again.
Exit ==
    /\ proc = "running" /\ proc' = "exited"
    /\ intact' \in {k \in 2 * Len(tracer.fp) .. 2 * Len(Given) : k >= intact}
    /\ disk' \in intact' .. intact' + IF Writing THEN BLOCK ELSE 0
    /\ UNCHANGED <<hartVars, at, tracer, added, simVars>>

\* an assertion or a SIGKILL flushes nothing
Kill ==
    /\ proc = "running" /\ proc' = "killed"
    /\ UNCHANGED <<hartVars, at, tracer, added, fileVars, simVars>>

-----------------------------------------------------------------------------
(* trace::simulate, which may run beside the simulator.                    *)

simulatorVars == <<hartVars, proc, at, tracer, added, fileVars>>

\* Variant: a record at the end that is not whole is counted.
OpenRoundsUp ==
    /\ sim = "idle" /\ sim' = "reading"
    /\ n_entries' = (disk + 1) \div 2
    /\ opened' = proc
    /\ UNCHANGED <<simulatorVars, i, unique_paddrs>>

\* end / sizeof(entry)
Open ==
    /\ sim = "idle" /\ sim' = "reading"
    /\ n_entries' = disk \div 2
    /\ opened' = proc
    /\ UNCHANGED <<simulatorVars, i, unique_paddrs>>

\* record k of the file; where that is no trace, whatever the bytes are
Record(k) == IF 2 * k <= intact THEN {Given[k]} ELSE Lines

\* fread and access; a record that is not there fails the assertion sz == 1
Read ==
    /\ sim = "reading" /\ i < n_entries
    /\ \/ /\ 2 * (i + 1) > disk
          /\ sim' = "failed" /\ UNCHANGED <<i, unique_paddrs>>
       \/ /\ 2 * (i + 1) <= disk
          /\ i' = i + 1
          /\ \E line \in Record(i + 1) : unique_paddrs' = unique_paddrs \cup {line}
          /\ UNCHANGED sim
    /\ UNCHANGED <<simulatorVars, n_entries, opened>>

\* the rates are printed
Report ==
    /\ sim = "reading" /\ i = n_entries
    /\ sim' = "done"
    /\ UNCHANGED <<simulatorVars, n_entries, i, unique_paddrs, opened>>

-----------------------------------------------------------------------------

Loop == Fetch \/ AccessMemory \/ Retire \/ Trap \/ WriteToDisk \/ Delete \/ Close
Simulate == Read \/ Report

Next == Loop \/ Flush \/ Exit \/ Kill \/ Open \/ Simulate

\* The run loop and the loop over the records are plain loops of a process
\* that the host schedules.  Nobody is bound to send a signal, to flush a
\* file early or to start the second program, and the guest may trap forever.
Spec == Init /\ [][Next]_vars /\ WF_vars(Loop) /\ WF_vars(Simulate)

-----------------------------------------------------------------------------
(* Properties.                                                             *)

Lost == Len(added) - intact \div 2

\* The records given to fwrite and those in the buffer are the fetches in
\* order, none twice (trace::add, write_to_disk).  A simulator that ended has
\* them all in the file, and one that exited lost no more than the buffer: all
\* of it only if the signal met write_to_disk.  Only there can the file go on
\* with something else, and by a block at most.
NothingLostButTheBuffer ==
    /\ proc # "ended" => added = tracer.fp \o tracer.buf
    /\ proc = "ended" => added = tracer.fp /\ Lost = 0 /\ disk = 2 * Len(added)
    /\ proc = "exited" => Lost <= BUFLEN /\ (Lost = BUFLEN => Full)
    /\ disk # intact => proc = "exited" /\ Writing /\ disk <= intact + BLOCK

\* What is simulated are the first records of the trace, however the writer
\* ended and whatever it still does, unless the file was opened after an exit
\* out of write_to_disk; the assertion in trace::simulate holds.  Opened after
\* the simulator ended, a file is simulated in full; after it exited, but for a
\* buffer.
SimulatesPrefix ==
    /\ sim # "failed"
    /\ 2 * i <= intact => unique_paddrs = {added[k] : k \in 1 .. i}
    /\ 2 * i > intact => opened = "exited" /\ Writing
    /\ sim = "done" /\ opened = "ended" => i = Len(added)
    /\ sim = "done" /\ opened = "exited" => i >= Len(added) - BUFLEN

\* The run loop ends at maxicnt unless the guest traps forever (a trap leaves
\* icnt alone), and a trace that is opened is simulated to its end.
RunsEnd ==
    /\ <>(proc # "running") \/ []<>trapped
    /\ sim = "reading" ~> sim = "done"
=============================================================================
