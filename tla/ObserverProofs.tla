-------------------------- MODULE ObserverProofs --------------------------
(***************************************************************************)
(* Theorems about what watches the hart and changes nothing of it: Trace,  *)
(* for every length of the buffer and of the run, and SimPoint, for every  *)
(* interval, start and length of a run.                                    *)
(***************************************************************************)
EXTENDS Trace, SimPoint, FiniteSetTheorems, TLAPS

Tracer == [buf : Seq(Lines), fp : Seq(Lines)]

\* the records in the order in which they were added
Content(t) == t.fp \o t.buf

\* The first records of added are those that fwrite was given, the rest is in
\* the buffer, which a process that returns from main has written.  Only after
\* an exit out of fwrite the file has anything else.
Written ==
    /\ proc # "ended" => added = Content(tracer)
    /\ proc = "ended" => added = tracer.fp /\ intact = 2 * Len(added) /\ Len(tracer.buf) = 0
    /\ proc = "exited" => intact >= 2 * Len(tracer.fp)
    /\ disk # intact => proc = "exited" /\ Writing

\* What the second program has counted stays in the file, and what it has read
\* stays the beginning of the trace, as far as the file is one.
ReadBack ==
    /\ sim # "failed"
    /\ 2 * n_entries <= disk
    /\ 2 * i <= intact => unique_paddrs = {added[k] : k \in 1 .. i}
    /\ sim = "idle" => i = 0 /\ n_entries = 0
    /\ sim = "done" => i = n_entries
    /\ opened # "exited" => 2 * n_entries <= intact
    /\ opened \in {"ended", "exited"} => proc = opened /\ n_entries = disk \div 2

IInv == TypeOK /\ Written /\ ReadBack

\* a call of execRiscv_ began below maxicnt
Going == at \in {"execute", "complete"} => retired < MaxIcnt

-----------------------------------------------------------------------------
(* Sequences.                                                              *)

LEMMA AppendToConcat ==
    ASSUME NEW s \in Seq(Lines), NEW t \in Seq(Lines), NEW e \in Lines
    PROVE  s \o Append(t, e) = Append(s \o t, e)
<1>. DEFINE u == s \o Append(t, e)
            v == Append(s \o t, e)
<1>1. u \in Seq(Lines) /\ v \in Seq(Lines) /\ Len(u) = Len(v)
  OBVIOUS
<1>2. ASSUME NEW k \in 1 .. Len(u) PROVE u[k] = v[k]
  OBVIOUS
<1>. QED BY <1>1, <1>2, SMTT(30)

LEMMA ConcatEmpty ==
    ASSUME NEW s \in Seq(Lines)
    PROVE  s \o << >> = s
  OBVIOUS

\* A beginning of the second sequence after the first one.
LEMMA ConcatPrefix ==
    ASSUME NEW s \in Seq(Lines), NEW t \in Seq(Lines), NEW u \in Seq(Lines),
           Len(u) <= Len(t), \A k \in 1 .. Len(u) : u[k] = t[k]
    PROVE  /\ Len(s) <= Len(s \o u) /\ Len(s \o u) <= Len(s \o t)
           /\ Len(s \o t) \in Nat /\ Len(s \o u) \in Nat /\ Len(s) \in Nat
           /\ \A k \in 1 .. Len(s \o u) : (s \o u)[k] = (s \o t)[k] /\ (s \o u)[k] \in Lines
<1>1. Len(s) \in Nat /\ Len(t) \in Nat /\ Len(u) \in Nat
  OBVIOUS
<1>2. Len(s \o u) = Len(s) + Len(u) /\ Len(s \o t) = Len(s) + Len(t)
  OBVIOUS
<1>3. ASSUME NEW k \in 1 .. Len(s \o u) PROVE (s \o u)[k] = (s \o t)[k]
  <2>1. CASE k <= Len(s)
    <3>1. (s \o u)[k] = s[k] /\ (s \o t)[k] = s[k]
      BY <1>1, <1>2, <2>1
    <3>. QED BY <3>1
  <2>2. CASE k > Len(s)
    <3>1. k - Len(s) \in 1 .. Len(u) /\ k - Len(s) \in 1 .. Len(t)
      BY <1>1, <1>2, <2>2
    <3>2. (s \o u)[k] = u[k - Len(s)] /\ (s \o t)[k] = t[k - Len(s)]
      BY <1>1, <1>2, <2>2, <3>1
    <3>. QED BY <3>1, <3>2
  <2>. QED BY <1>1, <1>2, <2>1, <2>2
<1>4. ASSUME NEW k \in 1 .. Len(s \o u) PROVE (s \o u)[k] \in Lines
  <2>1. s \o u \in Seq(Lines)
    OBVIOUS
  <2>. QED BY <2>1
<1>. QED BY <1>1, <1>2, <1>3, <1>4

\* Writing the buffer moves it behind what was written.
LEMMA WriteKeepsContent ==
    ASSUME NEW t \in Tracer
    PROVE  LET u == write_to_disk(t)
           IN  /\ u \in Tracer /\ u.buf = << >> /\ Len(u.buf) = 0
               /\ Content(u) = Content(t)
               /\ u.fp = Content(t)
               /\ Len(u.fp) >= Len(t.fp)
<1>1. t.fp \o t.buf \in Seq(Lines) /\ Len(t.fp \o t.buf) >= Len(t.fp)
  BY DEF Tracer
<1>. QED BY <1>1, ConcatEmpty DEF write_to_disk, Content, Tracer

\* A record that is added is the new end.
LEMMA AddAppends ==
    ASSUME NEW t \in Tracer, NEW line \in Lines, Len(t.buf) < BUFLEN
    PROVE  LET u == add(t, line, ISIDE)
           IN  /\ u \in Tracer /\ Len(u.buf) <= BUFLEN
               /\ Content(u) = Append(Content(t), line)
               /\ u.fp = t.fp
<1>. DEFINE u == [t EXCEPT !.buf = Append(@, line)]
<1>1. Append(t.buf, line) \in Seq(Lines) /\ Len(Append(t.buf, line)) = Len(t.buf) + 1
      /\ Len(t.buf) \in Nat
  BY DEF Tracer
<1>2. u.fp = t.fp /\ u.buf = Append(t.buf, line)
  BY DEF Tracer
<1>3. u \in Tracer
  BY <1>1 DEF Tracer
<1>4. Content(u) = Append(Content(t), line)
  BY <1>2, AppendToConcat DEF Content, Tracer
<1>5. add(t, line, ISIDE) = u
  BY DEF add
<1>6. Len(u.buf) <= BUFLEN
  BY <1>1, <1>2, TraceAssumption
<1>. QED BY <1>2, <1>3, <1>4, <1>5, <1>6

\* What the C library has is a beginning of the trace.
LEMMA GivenIsPrefix ==
    ASSUME IInv
    PROVE  /\ Len(tracer.fp) <= Len(Given) /\ Len(Given) <= Len(added)
           /\ Len(added) \in Nat /\ Len(Given) \in Nat /\ Len(tracer.fp) \in Nat
           /\ \A k \in 1 .. Len(Given) : Given[k] = added[k] /\ Given[k] \in Lines
<1>1. tracer.fp \in Seq(Lines) /\ tracer.buf \in Seq(Lines) /\ added \in Seq(Lines)
  BY DEF IInv, TypeOK
<1>. DEFINE rest == IF Writing THEN tracer.buf ELSE << >>
<1>2. rest \in Seq(Lines) /\ Len(rest) <= Len(tracer.buf) /\ Given = tracer.fp \o rest
  <2>1. CASE Writing
    BY <1>1, <2>1 DEF Given
  <2>2. CASE ~Writing
    <3>1. Given = tracer.fp \o << >>
      BY <2>2 DEF Given
    <3>. QED BY <1>1, <2>2, <3>1
  <2>. QED BY <2>1, <2>2
<1>3. Writing => rest = tracer.buf
  OBVIOUS
<1>4. ~Writing => rest = << >>
  OBVIOUS
<1>. HIDE DEF rest
<1>5. CASE proc = "ended"
  <2>1. added = tracer.fp /\ Len(tracer.buf) = 0
    BY <1>5 DEF IInv, Written
  <2>. QED BY <1>1, <1>2, <2>1
<1>6. CASE proc # "ended"
  <2>1. added = tracer.fp \o tracer.buf
    BY <1>6 DEF IInv, Written, Content
  <2>2. \A k \in 1 .. Len(rest) : rest[k] = tracer.buf[k]
    <3>1. CASE Writing
      BY <1>3, <3>1
    <3>2. CASE ~Writing
      BY <1>4, <3>2
    <3>. QED BY <3>1, <3>2
  <2>3. Len(rest) <= Len(tracer.buf)
    BY <1>2
  <2>. QED BY <1>1, <1>2, <2>1, <2>2, <2>3, ConcatPrefix
<1>. QED BY <1>5, <1>6

-----------------------------------------------------------------------------
(* A call of execRiscv_.                                                   *)

\* An access adds its address to the trace, if translate reports it, and
\* leaves what was given to fwrite.
LEMMA ReportedKeeps ==
    ASSUME IInv, proc = "running", ~Full, entered_user' \in BOOLEAN,
           NEW line \in Lines \cup {None}, NEW type \in {ISIDE, DSIDE},
           Reported(line, type)
    PROVE  /\ tracer' \in Tracer /\ Len(tracer'.buf) <= BUFLEN
           /\ added' = Content(tracer') /\ added' \in Seq(Lines)
           /\ tracer'.fp = tracer.fp
           /\ Len(added') >= Len(added)
           /\ \A k \in 1 .. Len(added) : added'[k] = added[k]
<1>1. tracer \in Tracer /\ Len(tracer.buf) \in Nat /\ Len(tracer.buf) <= BUFLEN
      /\ Len(tracer.buf) # BUFLEN /\ added = Content(tracer) /\ added \in Seq(Lines)
  BY DEF IInv, TypeOK, Written, Tracer, Full
<1>2. Len(tracer.buf) < BUFLEN
  BY <1>1, TraceAssumption
<1>3. CASE line # None /\ type = ISIDE /\ entered_user'
  <2>1. tracer' = add(tracer, line, ISIDE) /\ added' = Append(added, line)
    BY <1>3 DEF translate, Reported
  <2>2. line \in Lines
    BY <1>3
  <2>3. /\ tracer' \in Tracer /\ Len(tracer'.buf) <= BUFLEN
        /\ Content(tracer') = Append(Content(tracer), line)
        /\ tracer'.fp = tracer.fp
    BY <2>1, <2>2, <1>1, <1>2, AddAppends
  <2>. QED BY <2>1, <2>2, <2>3, <1>1
<1>4. CASE ~(line # None /\ type = ISIDE /\ entered_user')
  <2>1. tracer' = tracer /\ added' = added
    BY <1>4 DEF translate, Reported, add
  <2>. QED BY <2>1, <1>1
<1>. QED BY <1>3, <1>4

\* A step that only adds to the buffer keeps the invariant.
LEMMA ReportedInv ==
    ASSUME IInv, proc = "running", ~Writing, entered_user' \in BOOLEAN,
           at' \in {"execute", "complete"},
           NEW line \in Lines \cup {None}, NEW type \in {ISIDE, DSIDE},
           Reported(line, type),
           UNCHANGED <<retired, brk, trapped, proc, fileVars, simVars>>
    PROVE  IInv'
<1>1. /\ tracer' \in Tracer /\ Len(tracer'.buf) <= BUFLEN
      /\ added' = Content(tracer') /\ added' \in Seq(Lines)
      /\ tracer'.fp = tracer.fp /\ Len(added') >= Len(added)
      /\ \A k \in 1 .. Len(added) : added'[k] = added[k]
  BY ReportedKeeps DEF Writing
<1>2. /\ retired' = retired /\ brk' = brk /\ trapped' = trapped /\ proc' = "running"
      /\ disk' = disk /\ intact' = intact /\ sim' = sim /\ n_entries' = n_entries
      /\ i' = i /\ unique_paddrs' = unique_paddrs /\ opened' = opened
  BY DEF fileVars, simVars
<1>3. intact <= 2 * Len(tracer.fp) /\ intact \in Nat
  <2>1. tracer.fp \in Seq(Lines) /\ Given = tracer.fp \o << >>
    BY DEF IInv, TypeOK, Given
  <2>2. Given = tracer.fp
    BY <2>1, ConcatEmpty
  <2>3. Len(tracer.fp) \in Nat
    BY <2>1
  <2>. QED BY <2>2, <2>3 DEF IInv, TypeOK
<1>4. Len(Given') >= Len(tracer'.fp) /\ Len(Given') \in Nat /\ Len(tracer'.fp) \in Nat
  <2>1. tracer'.fp \in Seq(Lines) /\ tracer'.buf \in Seq(Lines)
    BY <1>1 DEF Tracer
  <2>. DEFINE rest == IF Writing' THEN tracer'.buf ELSE << >>
  <2>2. rest \in Seq(Lines)
    BY <2>1
  <2>3. Given' = tracer'.fp \o rest
    BY DEF Given
  <2>. HIDE DEF rest
  <2>. QED BY <2>1, <2>2, <2>3
<1>5. intact' \in 0 .. 2 * Len(Given')
  BY <1>1, <1>2, <1>3, <1>4
<1>6. TypeOK'
  BY <1>1, <1>2, <1>5 DEF IInv, TypeOK, Tracer
<1>7. Written'
  BY <1>1, <1>2 DEF IInv, Written
<1>8. \A k \in 1 .. i : added'[k] = added[k]
  <2>1. 2 * i <= intact /\ i \in Nat
    BY DEF IInv, TypeOK, Written, ReadBack
  <2>2. i <= Len(added)
    BY <1>3, <2>1, GivenIsPrefix
  <2>. QED BY <2>1, <2>2, <1>1, GivenIsPrefix
<1>9. ReadBack'
  BY <1>2, <1>8 DEF IInv, ReadBack
<1>. QED BY <1>6, <1>7, <1>9 DEF IInv

LEMMA FetchInv == IInv /\ (Fetch \/ AccessMemory) => IInv'
<1>1. ASSUME IInv, Fetch PROVE IInv'
  <2>1. PICK line \in Lines \cup {None} : Reported(line, ISIDE)
    BY <1>1 DEF Fetch
  <2>2. /\ proc = "running" /\ ~Writing /\ at' = "execute" /\ entered_user' \in BOOLEAN
        /\ UNCHANGED <<retired, brk, trapped, proc, fileVars, simVars>>
    BY <1>1 DEF Fetch, Move, Writing, IInv, TypeOK
  <2>. QED BY <1>1, <2>1, <2>2, ReportedInv
<1>2. ASSUME IInv, AccessMemory PROVE IInv'
  <2>1. PICK line \in Lines \cup {None}, type \in {ISIDE, DSIDE} : Reported(line, type)
    BY <1>2 DEF AccessMemory
  <2>2. /\ proc = "running" /\ ~Writing /\ at' = "complete" /\ entered_user' \in BOOLEAN
        /\ UNCHANGED <<retired, brk, trapped, proc, fileVars, simVars>>
    BY <1>2 DEF AccessMemory, Move, Writing, IInv, TypeOK
  <2>. QED BY <1>2, <2>1, <2>2, ReportedInv
<1>. QED BY <1>1, <1>2

LEMMA CompleteInv == IInv /\ Going /\ (Retire \/ Trap) => IInv'
<1>. SUFFICES ASSUME IInv, Going, Retire \/ Trap PROVE IInv'
  OBVIOUS
<1>1. /\ at = "complete" /\ at' = "loop" /\ ~Full /\ entered_user' = entered_user
      /\ proc' = proc /\ tracer' = tracer /\ added' = added
      /\ disk' = disk /\ intact' = intact /\ sim' = sim /\ n_entries' = n_entries
      /\ i' = i /\ unique_paddrs' = unique_paddrs /\ opened' = opened
  BY DEF Retire, Trap, Move, fileVars, simVars
<1>2. retired' \in 0 .. MaxIcnt /\ brk' \in BOOLEAN /\ trapped' \in BOOLEAN
  <2>1. retired < MaxIcnt /\ retired \in 0 .. MaxIcnt /\ brk \in BOOLEAN
    BY <1>1 DEF Going, IInv, TypeOK
  <2>2. retired' \in {retired, retired + 1} /\ brk' \in {brk} \cup BOOLEAN
        /\ trapped' \in BOOLEAN
    BY DEF Retire, Trap
  <2>3. retired' \in 0 .. MaxIcnt
    BY <2>1, <2>2, TraceAssumption
  <2>. QED BY <2>1, <2>2, <2>3, Zenon
<1>3. Given' = Given /\ Writing' = Writing
  BY <1>1 DEF Given, Writing, Full
<1>4. TypeOK'
  BY <1>1, <1>2, <1>3 DEF IInv, TypeOK
<1>. QED BY <1>1, <1>3, <1>4 DEF IInv, Written, Content, ReadBack

-----------------------------------------------------------------------------
(* The invariant.                                                          *)

LEMMA InitInv == Init => IInv
<1>. SUFFICES ASSUME Init PROVE IInv
  OBVIOUS
<1>1. << >> \in Seq(Lines) /\ Len(<< >>) = 0
  OBVIOUS
<1>2. tracer \in [buf : Seq(Lines), fp : Seq(Lines)] /\ tracer.buf = << >> /\ tracer.fp = << >>
  BY <1>1 DEF Init
<1>3. Given = << >> /\ Content(tracer) = << >>
  BY <1>1, <1>2, ConcatEmpty DEF Given, Content
<1>4. TypeOK
  <2>1. retired \in 0 .. MaxIcnt /\ Len(tracer.buf) <= BUFLEN
    BY <1>1, <1>2, TraceAssumption DEF Init
  <2>2. intact \in 0 .. 2 * Len(Given) /\ disk \in intact .. intact + BLOCK
    BY <1>1, <1>3, TraceAssumption DEF Init
  <2>3. n_entries \in Nat /\ i \in 0 .. n_entries
    BY DEF Init
  <2>4. unique_paddrs \subseteq Lines /\ added \in Seq(Lines)
    BY <1>1 DEF Init
  <2>5. /\ brk \in BOOLEAN /\ entered_user \in BOOLEAN /\ trapped \in BOOLEAN
        /\ proc \in {"running", "ended", "exited", "killed"}
        /\ at \in {"loop", "execute", "complete", "delete"}
        /\ sim \in {"idle", "reading", "done", "failed"}
        /\ opened \in {"no", "running", "ended", "exited", "killed"}
    BY DEF Init
  <2>. QED BY <1>2, <2>1, <2>2, <2>3, <2>4, <2>5 DEF TypeOK
<1>5. Written
  BY <1>3 DEF Init, Written
<1>6. ReadBack
  BY DEF Init, ReadBack
<1>. QED BY <1>4, <1>5, <1>6 DEF IInv

LEMMA WriteInv == IInv /\ WriteToDisk => IInv'
<1>. SUFFICES ASSUME IInv, WriteToDisk PROVE IInv'
  OBVIOUS
<1>1. tracer \in Tracer /\ added = Content(tracer) /\ proc = "running"
  BY DEF WriteToDisk, IInv, TypeOK, Written, Tracer
<1>2. /\ tracer' \in Tracer /\ tracer'.buf = << >> /\ Len(tracer'.buf) = 0
      /\ Content(tracer') = added /\ tracer'.fp = added
  BY <1>1, WriteKeepsContent DEF WriteToDisk
<1>3. Given = added
  BY <1>1 DEF WriteToDisk, Given, Writing, Content
<1>4. Given' = added
  <2>1. Given' = tracer'.fp \o << >>
    BY <1>2 DEF Given
  <2>. QED BY <1>2, <2>1, ConcatEmpty DEF Tracer
<1>5. /\ retired' = retired /\ brk' = brk /\ trapped' = trapped /\ proc' = proc
      /\ disk' = disk /\ intact' = intact /\ sim' = sim /\ n_entries' = n_entries
      /\ i' = i /\ unique_paddrs' = unique_paddrs /\ opened' = opened
      /\ entered_user' = entered_user /\ at' = at /\ added' = added
  BY DEF WriteToDisk, hartVars, fileVars, simVars
<1>6. TypeOK'
  BY <1>2, <1>3, <1>4, <1>5, TraceAssumption DEF IInv, TypeOK, Tracer
<1>7. Written'
  BY <1>1, <1>2, <1>5 DEF IInv, Written
<1>8. ReadBack'
  BY <1>5 DEF IInv, ReadBack
<1>. QED BY <1>6, <1>7, <1>8 DEF IInv

LEMMA DeleteInv == IInv /\ Delete => IInv'
<1>. SUFFICES ASSUME IInv, Delete PROVE IInv'
  OBVIOUS
<1>1. /\ retired' = retired /\ brk' = brk /\ trapped' = trapped
      /\ proc' = proc /\ proc = "running" /\ at' = "delete" /\ tracer' = tracer
      /\ disk' = disk /\ intact' = intact /\ sim' = sim /\ n_entries' = n_entries
      /\ i' = i /\ unique_paddrs' = unique_paddrs /\ opened' = opened
      /\ entered_user' = entered_user /\ added' = added
  BY DEF Delete, Move, hartVars, fileVars, simVars
<1>2. Given' = Content(tracer) /\ Content(tracer) = added
  BY <1>1 DEF IInv, Written, Given, Writing, Content
<1>3. intact \in 0 .. 2 * Len(Given')
  BY <1>2, GivenIsPrefix DEF IInv, TypeOK
<1>4. TypeOK'
  BY <1>1, <1>3 DEF IInv, TypeOK
<1>5. Written'
  BY <1>1 DEF IInv, Written, Content
<1>6. ReadBack'
  BY <1>1 DEF IInv, ReadBack
<1>. QED BY <1>4, <1>5, <1>6 DEF IInv

\* While the simulator runs, a longer file keeps what the second program knows.
LEMMA LongerFile ==
    ASSUME IInv, proc = "running", intact' \in Nat, disk' \in Nat,
           intact' >= intact, disk' >= intact', UNCHANGED <<added, simVars>>
    PROVE  ReadBack'
<1>1. /\ disk = intact /\ 2 * n_entries <= intact /\ opened \notin {"ended", "exited"}
      /\ i \in Nat /\ n_entries \in Nat /\ i <= n_entries /\ intact \in Nat
  BY DEF IInv, TypeOK, Written, ReadBack
<1>2. 2 * i <= intact /\ 2 * n_entries <= intact' /\ 2 * n_entries <= disk'
  BY <1>1
<1>3. unique_paddrs = {added[k] : k \in 1 .. i}
  BY <1>2 DEF IInv, ReadBack
<1>. QED BY <1>1, <1>2, <1>3 DEF IInv, ReadBack, simVars

LEMMA CloseInv == IInv /\ Close => IInv'
<1>. SUFFICES ASSUME IInv, Close PROVE IInv'
  OBVIOUS
<1>1. tracer \in Tracer /\ added = Content(tracer) /\ proc = "running"
  BY DEF Close, IInv, TypeOK, Written, Tracer
<1>2. tracer' \in Tracer /\ tracer'.buf = << >> /\ Len(tracer'.buf) = 0 /\ tracer'.fp = added
  BY <1>1, WriteKeepsContent DEF Close
<1>3. /\ retired' = retired /\ brk' = brk /\ trapped' = trapped /\ proc' = "ended"
      /\ sim' = sim /\ n_entries' = n_entries
      /\ i' = i /\ unique_paddrs' = unique_paddrs /\ opened' = opened
      /\ entered_user' = entered_user /\ at' = at /\ added' = added
  BY DEF Close, hartVars, simVars
<1>4. Given' = added
  <2>1. Given' = tracer'.fp \o << >>
    BY <1>2 DEF Given
  <2>. QED BY <1>2, <2>1, ConcatEmpty DEF Tracer
<1>5. /\ disk' = 2 * Len(added) /\ intact' = disk' /\ disk' \in Nat
      /\ intact' >= intact
  <2>1. intact <= 2 * Len(added) /\ Len(added) \in Nat /\ intact \in Nat
    BY GivenIsPrefix DEF IInv, TypeOK
  <2>. QED BY <1>2, <2>1 DEF Close
<1>6. TypeOK'
  <2>1. intact' \in 0 .. 2 * Len(Given') /\ disk' \in intact' .. intact' + BLOCK
    BY <1>4, <1>5, TraceAssumption
  <2>2. Len(tracer'.buf) <= BUFLEN /\ tracer' \in Tracer
    BY <1>2, TraceAssumption
  <2>. QED BY <1>3, <2>1, <2>2 DEF IInv, TypeOK, Tracer
<1>7. Written'
  BY <1>2, <1>3, <1>5 DEF Written
<1>8. ReadBack'
  BY <1>1, <1>5, LongerFile DEF Close
<1>. QED BY <1>6, <1>7, <1>8 DEF IInv

LEMMA DeathInv == IInv /\ (Flush \/ Exit \/ Kill) => IInv'
<1>. SUFFICES ASSUME IInv, Flush \/ Exit \/ Kill PROVE IInv'
  OBVIOUS
<1>1. /\ proc = "running" /\ proc' \in {"running", "exited", "killed"}
      /\ tracer' = tracer /\ added' = added /\ retired' = retired /\ brk' = brk
      /\ entered_user' = entered_user /\ trapped' = trapped /\ at' = at
      /\ sim' = sim /\ n_entries' = n_entries /\ i' = i
      /\ unique_paddrs' = unique_paddrs /\ opened' = opened
  BY DEF Flush, Exit, Kill, hartVars, simVars
<1>2. Given' = Given /\ Writing' = Writing
  BY <1>1 DEF Given, Writing, Full
<1>3. disk = intact /\ intact \in Nat /\ intact <= 2 * Len(Given)
  BY <1>1 DEF IInv, TypeOK, Written
<1>4. /\ intact' \in 0 .. 2 * Len(Given) /\ intact' >= intact
      /\ disk' \in intact' .. intact' + BLOCK
      /\ disk' # intact' => proc' = "exited" /\ Writing
      /\ proc' = "exited" => intact' >= 2 * Len(tracer.fp)
  <2>1. CASE Flush
    <3>1. /\ disk' \in disk + 1 .. 2 * Len(Given) /\ intact' = disk' /\ proc' = "running"
      BY <1>1, <2>1 DEF Flush
    <3>2. Len(Given) \in Nat
      BY GivenIsPrefix
    <3>3. disk' = intact' /\ intact' \in Nat /\ intact' >= intact
      BY <1>3, <3>1, <3>2
    <3>4. intact' \in 0 .. 2 * Len(Given) /\ disk' \in intact' .. intact' + BLOCK
      BY <3>1, <3>2, <3>3, <1>3, TraceAssumption
    <3>. QED BY <3>1, <3>3, <3>4
  <2>2. CASE Exit
    <3>1. /\ intact' \in 2 * Len(tracer.fp) .. 2 * Len(Given) /\ intact' >= intact
          /\ Writing => disk' \in intact' .. intact' + BLOCK
          /\ ~Writing => disk' \in intact' .. intact' + 0
          /\ proc' = "exited"
      BY <2>2 DEF Exit
    <3>. QED BY <1>3, <3>1, GivenIsPrefix, TraceAssumption
  <2>3. CASE Kill
    BY <1>3, <2>3, TraceAssumption DEF Kill, fileVars
  <2>. QED BY <2>1, <2>2, <2>3
<1>5. TypeOK'
  BY <1>1, <1>2, <1>4 DEF IInv, TypeOK
<1>6. Written'
  BY <1>1, <1>2, <1>4 DEF IInv, Written
<1>7. ReadBack'
  <2>1. intact' \in Nat /\ disk' \in Nat /\ disk' >= intact'
    BY <1>4, TraceAssumption
  <2>2. UNCHANGED <<added, simVars>>
    BY <1>1 DEF simVars
  <2>. QED BY <1>1, <1>4, <2>1, <2>2, LongerFile
<1>. QED BY <1>5, <1>6, <1>7 DEF IInv

\* The second program leaves the simulator and the file alone.
LEMMA SimulatorStays ==
    ASSUME IInv, UNCHANGED simulatorVars
    PROVE  Written' /\ Given' = Given /\ Writing' = Writing
  BY DEF IInv, Written, Content, Given, Writing, Full, simulatorVars, hartVars, fileVars

LEMMA OpenKeeps == IInv /\ Open => IInv'
<1>. SUFFICES ASSUME IInv, Open PROVE IInv'
  OBVIOUS
<1>1. disk \in Nat /\ (disk # intact => proc = "exited")
  BY TraceAssumption DEF IInv, TypeOK, Written
<1>2. n_entries' \in Nat /\ 2 * n_entries' <= disk
  BY <1>1 DEF Open
<1>3. Written' /\ Given' = Given
  BY SimulatorStays DEF Open
<1>4. i = 0 /\ i' = 0 /\ unique_paddrs' = unique_paddrs /\ opened' = proc
      /\ n_entries' = disk \div 2 /\ sim' = "reading" /\ UNCHANGED simulatorVars
  BY DEF Open, IInv, ReadBack
<1>5. TypeOK'
  BY <1>2, <1>3, <1>4 DEF IInv, TypeOK, simulatorVars, hartVars, fileVars
<1>6. ReadBack'
  <2>1. opened' # "exited" => 2 * n_entries' <= intact
    BY <1>1, <1>2, <1>4
  <2>2. 2 * i' <= intact => unique_paddrs' = {added[k] : k \in 1 .. i'}
    BY <1>4 DEF IInv, ReadBack
  <2>. QED BY <1>2, <1>4, <2>1, <2>2 DEF ReadBack, simulatorVars, fileVars
<1>. QED BY <1>3, <1>5, <1>6 DEF IInv

LEMMA ReadInv == IInv /\ Read => IInv'
<1>. SUFFICES ASSUME IInv, Read PROVE IInv'
  OBVIOUS
<1>1. /\ i \in Nat /\ n_entries \in Nat /\ i < n_entries /\ 2 * n_entries <= disk
      /\ disk \in Nat /\ intact \in Nat
  BY TraceAssumption DEF Read, IInv, TypeOK, ReadBack
<1>2. ~(2 * (i + 1) > disk)
  BY <1>1
<1>3. /\ i' = i + 1 /\ sim' = sim /\ sim = "reading" /\ n_entries' = n_entries
      /\ opened' = opened /\ UNCHANGED simulatorVars
  BY <1>2 DEF Read
<1>4. PICK line \in Record(i + 1) : unique_paddrs' = unique_paddrs \cup {line}
  BY <1>2 DEF Read
<1>5. ASSUME 2 * (i + 1) <= intact PROVE line = added[i + 1] /\ line \in Lines
  <2>1. line = Given[i + 1]
    BY <1>4, <1>5 DEF Record
  <2>2. intact <= 2 * Len(Given)
    BY DEF IInv, TypeOK
  <2>3. i + 1 \in 1 .. Len(Given)
    BY <1>1, <1>5, <2>2, GivenIsPrefix
  <2>. QED BY <2>1, <2>3, GivenIsPrefix
<1>6. line \in Lines
  BY <1>4, <1>5 DEF Record
<1>7. ASSUME 2 * (i + 1) <= intact PROVE unique_paddrs' = {added[k] : k \in 1 .. i + 1}
  <2>1. unique_paddrs = {added[k] : k \in 1 .. i}
    BY <1>1, <1>7 DEF IInv, ReadBack
  <2>2. 1 .. i + 1 = (1 .. i) \cup {i + 1}
    BY <1>1
  <2>3. {added[k] : k \in 1 .. i + 1} = {added[k] : k \in 1 .. i} \cup {added[i + 1]}
    BY <2>2
  <2>. QED BY <1>4, <1>5, <1>7, <2>1, <2>3
<1>8. Written' /\ Given' = Given
  BY <1>3, SimulatorStays
<1>9. TypeOK'
  BY <1>1, <1>3, <1>4, <1>6, <1>8 DEF IInv, TypeOK, simulatorVars, hartVars, fileVars
<1>10. ReadBack'
  BY <1>1, <1>3, <1>7 DEF IInv, ReadBack, simulatorVars, fileVars
<1>. QED BY <1>8, <1>9, <1>10 DEF IInv

LEMMA ReportInv == IInv /\ Report => IInv'
<1>. SUFFICES ASSUME IInv, Report PROVE IInv'
  OBVIOUS
<1>1. Written' /\ Given' = Given
  BY SimulatorStays DEF Report
<1>2. TypeOK'
  BY <1>1 DEF Report, IInv, TypeOK, simulatorVars, hartVars, fileVars
<1>3. ReadBack'
  BY DEF Report, IInv, TypeOK, ReadBack, simulatorVars, fileVars
<1>. QED BY <1>1, <1>2, <1>3 DEF IInv

\* Only Fetch enters a call, and only Retire counts.
LEMMA GoingKeeps == Going /\ [Next]_vars => Going'
<1>. SUFFICES ASSUME Going, [Next]_vars PROVE Going'
  OBVIOUS
<1>1. CASE Fetch
  BY <1>1 DEF Fetch, Move, KeepGoing, Going
<1>2. CASE AccessMemory
  BY <1>2 DEF AccessMemory, Move, Going
<1>3. CASE Retire \/ Trap \/ Delete
  BY <1>3 DEF Retire, Trap, Delete, Move, Going
<1>4. CASE UNCHANGED <<at, retired>>
  BY <1>4 DEF Going
<1>. QED
  BY <1>1, <1>2, <1>3, <1>4
     DEF Next, Loop, Simulate, WriteToDisk, Close, Flush, Exit, Kill, Open, Read, Report,
         simulatorVars, hartVars, vars

LEMMA NextInv == IInv /\ Going /\ [Next]_vars => IInv'
<1>. SUFFICES ASSUME IInv, Going, [Next]_vars PROVE IInv'
  OBVIOUS
<1>1. CASE Fetch \/ AccessMemory
  BY <1>1, FetchInv
<1>2. CASE Retire \/ Trap
  BY <1>2, CompleteInv
<1>3. CASE WriteToDisk
  BY <1>3, WriteInv
<1>4. CASE Delete
  BY <1>4, DeleteInv
<1>5. CASE Close
  BY <1>5, CloseInv
<1>6. CASE Flush \/ Exit \/ Kill
  BY <1>6, DeathInv
<1>7. CASE Open
  BY <1>7, OpenKeeps
<1>8. CASE Read
  BY <1>8, ReadInv
<1>9. CASE Report
  BY <1>9, ReportInv
<1>10. CASE UNCHANGED vars
  <2>1. UNCHANGED simulatorVars /\ UNCHANGED simVars
    BY <1>10 DEF vars, simulatorVars
  <2>2. Written' /\ Given' = Given
    BY <2>1, SimulatorStays
  <2>3. TypeOK'
    BY <2>1, <2>2 DEF IInv, TypeOK, simulatorVars, hartVars, fileVars, simVars
  <2>4. ReadBack'
    BY <2>1 DEF IInv, ReadBack, simulatorVars, fileVars, simVars
  <2>. QED BY <2>2, <2>3, <2>4 DEF IInv
<1>. QED
  BY <1>1, <1>2, <1>3, <1>4, <1>5, <1>6, <1>7, <1>8, <1>9, <1>10 DEF Next, Loop, Simulate

LEMMA Invariant == Spec => []IInv
<1>1. Init => Going
  BY DEF Init, Going
<1>. QED BY <1>1, InitInv, GoingKeeps, NextInv, PTL DEF Spec

-----------------------------------------------------------------------------
(* The theorems.                                                           *)

\* The buffer never overflows, and the file is never longer than what fwrite
\* was given and a block (trace::add, write_to_disk).
THEOREM TypeCorrect == Spec => []TypeOK
<1>1. IInv => TypeOK
  BY DEF IInv
<1>. QED BY <1>1, Invariant, PTL

\* What an exit leaves out of the file.
LEMMA LostIsBuffer ==
    ASSUME IInv, proc = "exited"
    PROVE  /\ Lost \in Int /\ Lost <= Len(tracer.buf) /\ Len(tracer.buf) <= BUFLEN
           /\ Len(tracer.buf) \in Nat
<1>1. /\ Len(tracer.fp) \in Nat /\ Len(tracer.buf) \in Nat
      /\ Len(added) = Len(tracer.fp) + Len(tracer.buf)
  BY DEF IInv, TypeOK, Written, Content
<1>2. intact \in Nat /\ intact >= 2 * Len(tracer.fp) /\ Len(tracer.buf) <= BUFLEN
  BY DEF IInv, TypeOK, Written
<1>3. intact \div 2 >= Len(tracer.fp) /\ intact \div 2 \in Nat
  BY <1>1, <1>2
<1>. QED BY <1>1, <1>2, <1>3 DEF Lost

\* Fetches reach the file once and in order; only an exit or a kill loses any,
\* and an exit, wherever the signal interrupts trace::add, write_to_disk or
\* ~trace, no more than one buffer.
THEOREM NothingIsLost == Spec => []NothingLostButTheBuffer
<1>1. IInv => NothingLostButTheBuffer
  <2>. SUFFICES ASSUME IInv PROVE NothingLostButTheBuffer
    OBVIOUS
  <2>1. ASSUME proc = "ended" PROVE Lost = 0 /\ disk = 2 * Len(added)
    <3>1. intact = 2 * Len(added) /\ disk = intact /\ Len(added) \in Nat
      BY <2>1, GivenIsPrefix DEF IInv, Written
    <3>2. intact \div 2 = Len(added)
      BY <3>1
    <3>. QED BY <3>1, <3>2 DEF Lost
  <2>2. ASSUME proc = "exited" PROVE Lost <= BUFLEN /\ (Lost = BUFLEN => Full)
    BY <2>2, LostIsBuffer, TraceAssumption DEF Full
  <2>3. disk <= intact + BLOCK
    BY TraceAssumption DEF IInv, TypeOK
  <2>. QED BY <2>1, <2>2, <2>3 DEF IInv, Written, Content, NothingLostButTheBuffer
<1>. QED BY <1>1, Invariant, PTL

\* trace::simulate reads a beginning of the trace and never hits its assertion,
\* whatever the simulator does meanwhile, unless the file was cut by an exit
\* out of fwrite; and all of a file that was complete (trace.cc, simulate).
THEOREM SimulationIsPrefix == Spec => []SimulatesPrefix
<1>1. IInv => SimulatesPrefix
  <2>. SUFFICES ASSUME IInv PROVE SimulatesPrefix
    OBVIOUS
  <2>1. /\ i \in Nat /\ n_entries \in Nat /\ i <= n_entries /\ 2 * n_entries <= disk
        /\ intact \in Nat /\ disk \in Nat /\ Len(added) \in Nat /\ intact <= disk
    BY GivenIsPrefix, TraceAssumption DEF IInv, TypeOK, ReadBack
  <2>2. ASSUME 2 * i > intact PROVE opened = "exited" /\ Writing
    <3>1. 2 * n_entries > intact /\ disk # intact
      BY <2>1, <2>2
    <3>2. (disk # intact => Writing) /\ (opened # "exited" => 2 * n_entries <= intact)
      BY Zenon DEF IInv, Written, ReadBack
    <3>3. ~(2 * n_entries <= intact)
      BY <2>1, <3>1
    <3>. QED BY <3>1, <3>2, <3>3, Zenon
  <2>3. ASSUME sim = "done", opened = "ended" PROVE i = Len(added)
    <3>1. i = disk \div 2 /\ disk = intact /\ intact = 2 * Len(added)
      BY <2>3 DEF IInv, Written, ReadBack
    <3>. QED BY <2>1, <3>1
  <2>4. ASSUME sim = "done", opened = "exited" PROVE i >= Len(added) - BUFLEN
    <3>1. i = disk \div 2 /\ proc = "exited"
      BY <2>4 DEF IInv, ReadBack
    <3>2. disk \div 2 >= intact \div 2 /\ intact \div 2 \in Nat
      BY <2>1
    <3>3. Lost <= Len(tracer.buf) /\ Len(tracer.buf) <= BUFLEN /\ Len(tracer.buf) \in Nat
      BY <3>1, LostIsBuffer
    <3>4. Len(added) - intact \div 2 <= BUFLEN
      <4>1. Lost = Len(added) - intact \div 2
        BY DEF Lost
      <4>2. Lost <= BUFLEN
        <5>1. Lost \in Int
          BY <4>1, <2>1, <3>2
        <5>. QED BY <5>1, <3>3, TraceAssumption
      <4>. QED BY <4>1, <4>2
    <3>. QED BY <2>1, <3>1, <3>2, <3>4, TraceAssumption
  <2>. QED BY <2>2, <2>3, <2>4 DEF IInv, ReadBack, SimulatesPrefix
<1>. QED BY <1>1, Invariant, PTL

-----------------------------------------------------------------------------
(* SimPoint.                                                               *)

Log == Seq([weight : Nat, during : SUBSET Nat])

\* the interval in which the hart is
Current == icnt \div Interval

\* Inside an interval the last vector holds samples of this interval only; at
\* its first instruction the vector may be the previous one's.
LogOk(log) ==
    /\ log \in Log
    /\ \A x \in DOMAIN log :
        /\ \A a, b \in log[x].during : a = b
        /\ \A a \in log[x].during : a <= Current
        /\ \A j \in DOMAIN log : x < j => \A a \in log[x].during, b \in log[j].during : a <= b
        /\ icnt % Interval # 0 /\ x = Len(log) => \A a \in log[x].during : a = Current

VectorInv == icnt \in Nat /\ bbsz \in Nat /\ calls \in Nat /\ LogOk(bblog) /\ LogOk(mlog)

\* LogOk of a log that may take samples now
Ready(log) ==
    /\ LogOk(log)
    /\ log # << >> => \A a \in log[Len(log)].during : a = Current

-----------------------------------------------------------------------------
(* Intervals.                                                              *)

\* The next icnt is in the same interval, unless it begins one.
LEMMA NextInterval ==
    ASSUME NEW n \in Nat, NEW d \in Nat \ {0}
    PROVE  /\ n \div d \in Nat /\ (n + 1) \div d \in Nat
           /\ n \div d <= (n + 1) \div d
           /\ (n + 1) % d # 0 => (n + 1) \div d = n \div d
<1>. DEFINE q == n \div d
            r == n % d
            k == (n + 1) \div d
            m == (n + 1) % d
<1>1. q \in Nat /\ r \in 0 .. d - 1 /\ n = d * q + r
  BY SMTT(30)
<1>2. k \in Nat /\ m \in 0 .. d - 1 /\ n + 1 = d * k + m
  BY SMTT(30)
<1>. HIDE DEF q, r, k, m
<1>3. d * (k - q) = r + 1 - m /\ k - q \in Int
  BY <1>1, <1>2, SMTT(30)
<1>4. ~(k - q <= -1)
  <2>. SUFFICES ASSUME k - q <= -1 PROVE FALSE
    OBVIOUS
  <2>1. d * (k - q) <= -d
    BY <1>3, SMTT(30)
  <2>. QED BY <2>1, <1>1, <1>2, <1>3
<1>5. ASSUME m # 0 PROVE ~(k - q >= 1)
  <2>. SUFFICES ASSUME k - q >= 1 PROVE FALSE
    OBVIOUS
  <2>1. d * (k - q) >= d
    BY <1>3, SMTT(30)
  <2>. QED BY <2>1, <1>1, <1>2, <1>3, <1>5
<1>6. q <= k /\ (m # 0 => k = q)
  BY <1>1, <1>2, <1>3, <1>4, <1>5
<1>. QED BY <1>1, <1>2, <1>6 DEF q, k, m

-----------------------------------------------------------------------------
(* nextSample and addSample.                                               *)

LEMMA EmptyVector == Empty \in [weight : Nat, during : SUBSET Nat] /\ Empty.during = {}
  BY DEF Empty

LEMMA ElementType ==
    ASSUME NEW S, NEW s \in Seq(S), NEW x \in DOMAIN s
    PROVE  s[x] \in S
  OBVIOUS

LEMMA NextSampleReady ==
    ASSUME icnt \in Nat, NEW log, LogOk(log)
    PROVE  Ready(nextSample(log))
<1>1. CASE icnt % Interval # 0
  <2>1. nextSample(log) = log
    BY <1>1 DEF nextSample
  <2>2. log # << >> => Len(log) \in DOMAIN log
    BY DEF LogOk, Log
  <2>. QED BY <1>1, <2>1, <2>2 DEF Ready, LogOk
<1>2. CASE icnt % Interval = 0
  <2>. DEFINE l == Append(log, Empty)
  <2>1. nextSample(log) = l
    BY <1>2 DEF nextSample
  <2>2. log \in Log /\ Len(log) \in Nat
    BY DEF LogOk, Log
  <2>3. /\ l \in Log /\ Len(l) = Len(log) + 1 /\ DOMAIN log = 1 .. Len(log)
        /\ DOMAIN l = 1 .. Len(log) + 1
        /\ l[Len(log) + 1].during = {}
        /\ \A x \in DOMAIN log : l[x] = log[x]
    BY <2>2, EmptyVector DEF Log
  <2>. HIDE DEF l
  <2>4. ASSUME NEW x \in DOMAIN l, NEW a \in l[x].during
        PROVE  x \in DOMAIN log /\ l[x] = log[x] /\ a \in log[x].during
    BY <2>2, <2>3, <2>4
  <2>5. LogOk(l)
    BY <1>2, <2>3, <2>4 DEF LogOk
  <2>. QED BY <2>1, <2>2, <2>3, <2>5 DEF Ready
<1>. QED BY <1>1, <1>2

LEMMA AddSampleReady ==
    ASSUME Current \in Nat, NEW log, Ready(log), NEW size \in Nat
    PROVE  Ready(addSample(log, size))
<1>. DEFINE l == IF log = << >> THEN <<Empty>> ELSE log
            v == [weight |-> l[Len(l)].weight + size,
                  during |-> l[Len(l)].during \cup {icnt \div Interval}]
            new == [l EXCEPT ![Len(l)] = v]
<1>1. addSample(log, size) = new
  BY DEF addSample
<1>2. l \in Log /\ Len(l) \in Nat \ {0} /\ DOMAIN l = 1 .. Len(l)
  <2>1. <<Empty>> \in Log /\ Len(<<Empty>>) = 1
    BY EmptyVector DEF Log
  <2>2. log # << >> => log \in Log /\ Len(log) \in Nat \ {0}
    BY DEF Ready, LogOk, Log
  <2>3. l \in Log /\ Len(l) \in Nat \ {0}
    BY <2>1, <2>2
  <2>. HIDE DEF l
  <2>. QED BY <2>3 DEF Log
<1>3. /\ \A a \in l[Len(l)].during : a = Current
      /\ \A x \in DOMAIN l :
          /\ \A a, b \in l[x].during : a = b
          /\ \A a \in l[x].during : a <= Current
          /\ \A j \in DOMAIN l : x < j => \A a \in l[x].during, b \in l[j].during : a <= b
  <2>1. CASE log = << >>
    <3>1. Len(l) = 1 /\ DOMAIN l = {1} /\ l[1].during = {}
      BY <2>1, EmptyVector
    <3>. QED BY <3>1
  <2>2. CASE log # << >>
    BY <2>2 DEF Ready, LogOk
  <2>. QED BY <2>1, <2>2
<1>4. v \in [weight : Nat, during : SUBSET Nat] /\ v.during = l[Len(l)].during \cup {Current}
  <2>1. l[Len(l)] \in [weight : Nat, during : SUBSET Nat]
    <3>. HIDE DEF l
    <3>1. Len(l) \in DOMAIN l
      BY <1>2
    <3>. QED BY <1>2, <3>1, ElementType DEF Log
  <2>. QED BY <2>1 DEF Current
<1>. HIDE DEF l, v
<1>5. v.during = {Current}
  BY <1>3, <1>4
<1>6. /\ new \in Log /\ Len(new) = Len(l) /\ DOMAIN new = DOMAIN l
      /\ new[Len(l)] = v /\ \A x \in DOMAIN l \ {Len(l)} : new[x] = l[x]
  BY <1>2, <1>4 DEF Log
<1>. HIDE DEF new
<1>7. ASSUME NEW x \in DOMAIN new, NEW a \in new[x].during
      PROVE  a <= Current /\ (x = Len(l) => a = Current)
             /\ (x # Len(l) => a \in l[x].during /\ x < Len(l))
  <2>1. CASE x = Len(l)
    BY <1>5, <1>6, <2>1
  <2>2. CASE x # Len(l)
    <3>1. new[x] = l[x] /\ x \in DOMAIN l /\ x < Len(l)
      BY <1>2, <1>6, <2>2
    <3>. QED BY <3>1, <1>3, <2>2
  <2>. QED BY <2>1, <2>2
<1>8. ASSUME NEW x \in DOMAIN new, NEW j \in DOMAIN new, x < j,
             NEW a \in new[x].during, NEW b \in new[j].during
      PROVE  a <= b
  <2>1. x # Len(l) /\ a \in l[x].during /\ a <= Current
    BY <1>2, <1>6, <1>7, <1>8
  <2>2. CASE j = Len(l)
    BY <1>7, <2>1, <2>2
  <2>3. CASE j # Len(l)
    BY <1>3, <1>6, <1>7, <1>8, <2>1, <2>3
  <2>. QED BY <2>2, <2>3
<1>9. ASSUME NEW x \in DOMAIN new, NEW a \in new[x].during, NEW b \in new[x].during
      PROVE  a = b
  <2>1. CASE x = Len(l)
    BY <1>7, <2>1
  <2>2. CASE x # Len(l)
    BY <1>3, <1>6, <1>7, <2>2
  <2>. QED BY <2>1, <2>2
<1>10. LogOk(new)
  BY <1>6, <1>7, <1>8, <1>9 DEF LogOk
<1>. QED BY <1>1, <1>2, <1>6, <1>7, <1>10 DEF Ready

\* A log that was ready stays good, whether the call retires or traps.
LEMMA ReadyLater ==
    ASSUME icnt \in Nat, icnt' \in {icnt, icnt + 1}, NEW log, Ready(log)
    PROVE  /\ log \in Log
           /\ \A x \in DOMAIN log :
               /\ \A a, b \in log[x].during : a = b
               /\ \A a \in log[x].during : a <= Current'
               /\ \A j \in DOMAIN log : x < j => \A a \in log[x].during, b \in log[j].during : a <= b
               /\ icnt' % Interval # 0 /\ x = Len(log) => \A a \in log[x].during : a = Current'
<1>1. /\ Current \in Nat /\ Current' \in Nat /\ Current <= Current'
      /\ icnt' % Interval # 0 => Current' = Current
  <2>. DEFINE Div(n) == n \div Interval
  <2>1. /\ Div(icnt) \in Nat /\ Div(icnt + 1) \in Nat /\ Div(icnt) <= Div(icnt + 1)
        /\ (icnt + 1) % Interval # 0 => Div(icnt + 1) = Div(icnt)
    BY NextInterval, SimPointAssumption
  <2>2. Current = Div(icnt) /\ Current' = Div(icnt')
    BY DEF Current
  <2>. HIDE DEF Div
  <2>3. CASE icnt' = icnt
    BY <2>1, <2>2, <2>3
  <2>4. CASE icnt' = icnt + 1
    BY <2>1, <2>2, <2>4
  <2>. QED BY <2>3, <2>4
<1>2. ASSUME NEW x \in DOMAIN log, NEW a \in log[x].during PROVE a \in Nat /\ a <= Current
  <2>1. log \in Log /\ a <= Current
    BY <1>2 DEF Ready, LogOk
  <2>2. log[x] \in [weight : Nat, during : SUBSET Nat]
    BY <2>1, ElementType DEF Log
  <2>. QED BY <2>1, <2>2, <1>2
<1>3. ASSUME NEW x \in DOMAIN log, x = Len(log), NEW a \in log[x].during PROVE a = Current
  <2>1. log # << >>
    OBVIOUS
  <2>. QED BY <2>1, <1>3 DEF Ready
<1>. QED BY <1>1, <1>2, <1>3 DEF Ready, LogOk

-----------------------------------------------------------------------------
(* Sums.                                                                   *)

\* Every nonempty set of naturals has a least element.
LEMMA Least ==
  ASSUME NEW T \in SUBSET Nat, T # {}
  PROVE  \E m \in T : \A k \in T : m <= k
<1> DEFINE Below(n) == 0 .. n - 1
           W == {Below(n) : n \in T}
<1>1. W \subseteq FiniteSubsetsOf(Nat)
  <2> SUFFICES ASSUME NEW n \in T PROVE Below(n) \in FiniteSubsetsOf(Nat)
    OBVIOUS
  <2>1. IsFiniteSet(Below(n)) BY FS_Interval
  <2> QED BY <2>1 DEF FiniteSubsetsOf
<1>2. PICK w \in W : \A v \in W : <<v, w>> \notin StrictSubsetOrdering(Nat)
  <2> HIDE DEF W
  <2>1. W # {} BY DEF W
  <2> QED BY <1>1, <2>1, WFMin, FS_StrictSubsetOrderingWellFounded
<1>3. PICK m \in T : w = Below(m)
  OBVIOUS
<1>4. ASSUME NEW k \in T, k < m PROVE FALSE
  <2>1. Below(k) \subseteq Below(m) /\ Below(k) # Below(m)
    <3>1. k \in Below(m) /\ k \notin Below(k) BY <1>4
    <3> QED BY <1>4, <3>1
  <2>2. <<Below(k), Below(m)>> \in StrictSubsetOrdering(Nat)
    <3>1. Below(k) \in SUBSET Nat /\ Below(m) \in SUBSET Nat
      OBVIOUS
    <3> DEFINE pair == <<Below(k), Below(m)>>
    <3>2. pair \in (SUBSET Nat) \X (SUBSET Nat) /\ pair[1] = Below(k) /\ pair[2] = Below(m)
      BY <3>1
    <3> HIDE DEF pair, Below
    <3>3. pair \in StrictSubsetOrdering(Nat)
      BY <2>1, <3>2 DEF StrictSubsetOrdering
    <3> QED BY <3>3 DEF pair
  <2> QED BY <1>2, <1>3, <2>2
<1> QED
  BY <1>4

\* Induction: a set with 0 that is closed under successor is Nat.
LEMMA SetInduction ==
  ASSUME NEW S \in SUBSET Nat, 0 \in S, \A n \in S : n + 1 \in S
  PROVE  S = Nat
<1> SUFFICES ASSUME Nat \ S # {} PROVE FALSE
  OBVIOUS
<1>1. PICK m \in Nat \ S : \A k \in Nat \ S : m <= k
  BY Least
<1>2. m # 0 /\ m - 1 \in S
  BY <1>1
<1> QED BY <1>2

\* sum is what the weights of log add up to, vector by vector
IsSum(sum, log) ==
    /\ sum \in [0 .. Len(log) -> Nat] /\ sum[0] = 0
    /\ \A n \in 1 .. Len(log) : sum[n] = sum[n - 1] + log[n].weight

\* The recursion of Weight computes it.
LEMMA SumIsWeight ==
    ASSUME NEW log \in Log, NEW sum, IsSum(sum, log)
    PROVE  Weight(log) = sum[Len(log)]
<1>. DEFINE l == Len(log)
            Step(g) == [n \in 0 .. l |-> IF n = 0 THEN 0 ELSE g[n - 1] + log[n].weight]
            upTo == CHOOSE g : g = Step(g)
<1>1. l \in Nat
  BY DEF Log
<1>2. sum = Step(sum)
  <2>1. \A n \in 0 .. l : sum[n] = IF n = 0 THEN 0 ELSE sum[n - 1] + log[n].weight
    BY <1>1 DEF IsSum
  <2>2. sum = [n \in 0 .. l |-> sum[n]]
    BY DEF IsSum
  <2>. QED BY <2>1, <2>2
<1>3. upTo = Step(upTo)
  <2>. HIDE DEF Step
  <2>. QED BY <1>2
<1>4. Weight(log) = upTo[l]
  BY DEF Weight
<1>. HIDE DEF upTo
<1>5. \A n \in 0 .. l : upTo[n] = IF n = 0 THEN 0 ELSE upTo[n - 1] + log[n].weight
  BY <1>3
<1>. HIDE DEF Step, l
<1>6. \A n \in Nat : n <= l => upTo[n] = sum[n]
  <2>. DEFINE S == {n \in Nat : n <= l => upTo[n] = sum[n]}
  <2>1. 0 \in S
    BY <1>1, <1>5 DEF IsSum
  <2>2. ASSUME NEW n \in S PROVE n + 1 \in S
    <3>1. CASE n + 1 <= l
      <4>1. n \in Nat /\ n + 1 \in 0 .. l /\ n + 1 \in 1 .. l /\ n + 1 # 0 /\ (n + 1) - 1 = n /\ upTo[n] = sum[n]
        BY <1>1, <3>1
      <4>2. upTo[n + 1] = upTo[n] + log[n + 1].weight
        BY <4>1, <1>5
      <4>3. sum[n + 1] = sum[n] + log[n + 1].weight
        BY <4>1 DEF IsSum, l
      <4>. QED BY <4>1, <4>2, <4>3
    <3>2. CASE ~(n + 1 <= l)
      BY <3>2
    <3>. QED BY <3>1, <3>2
  <2>3. S = Nat
    <3>. HIDE DEF S
    <3>1. S \in SUBSET Nat
      BY DEF S
    <3>. QED BY <2>1, <2>2, <3>1, SetInduction
  <2>. QED BY <2>3
<1>. QED BY <1>1, <1>4, <1>6 DEF l

\* A vector of weight 0 at the end adds nothing.
LEMMA NextSampleSum ==
    ASSUME NEW log \in Log, NEW sum, IsSum(sum, log)
    PROVE  \E sum2 : /\ nextSample(log) \in Log /\ IsSum(sum2, nextSample(log))
                     /\ sum2[Len(nextSample(log))] = sum[Len(log)]
<1>1. CASE icnt % Interval # 0
  BY <1>1 DEF nextSample
<1>2. CASE icnt % Interval = 0
  <2>. DEFINE l == Append(log, Empty)
              k == Len(log)
              sum2 == [n \in 0 .. k + 1 |-> IF n <= k THEN sum[n] ELSE sum[k]]
  <2>1. nextSample(log) = l
    BY <1>2 DEF nextSample
  <2>2. /\ l \in Log /\ Len(l) = k + 1 /\ k \in Nat
        /\ l[k + 1] = Empty /\ \A x \in 1 .. k : l[x] = log[x]
    BY EmptyVector DEF Log
  <2>3. /\ \A n \in 0 .. k : sum[n] \in Nat
        /\ sum[0] = 0 /\ \A n \in 1 .. k : sum[n] = sum[n - 1] + log[n].weight
    BY DEF IsSum
  <2>. HIDE DEF l, k
  <2>4. sum2 \in [0 .. k + 1 -> Nat]
    BY <2>2, <2>3
  <2>5. \A n \in 0 .. k + 1 : sum2[n] = IF n <= k THEN sum[n] ELSE sum[k]
    OBVIOUS
  <2>. HIDE DEF sum2
  <2>6. ASSUME NEW n \in 1 .. k + 1 PROVE sum2[n] = sum2[n - 1] + l[n].weight
    <3>0. sum2[n - 1] = sum[n - 1]
      BY <2>2, <2>5
    <3>1. CASE n <= k
      <4>1. n \in 1 .. k /\ sum2[n] = sum[n]
        BY <2>2, <2>5, <3>1
      <4>. QED BY <3>0, <4>1, <2>2, <2>3
    <3>2. CASE ~(n <= k)
      <4>1. n = k + 1 /\ n - 1 = k
        BY <2>2, <3>2
      <4>2. sum2[n] = sum[k] /\ sum2[n - 1] = sum[k] /\ sum[k] \in Nat
        BY <2>2, <2>3, <2>5, <3>0, <3>2, <4>1
      <4>3. l[n].weight = 0
        BY <2>2, <4>1 DEF Empty
      <4>. QED BY <4>2, <4>3
    <3>. QED BY <3>1, <3>2
  <2>7. sum2[0] = 0 /\ sum2[k + 1] = sum[k]
    BY <2>2, <2>3, <2>5
  <2>8. IsSum(sum2, l)
    BY <2>2, <2>4, <2>6, <2>7 DEF IsSum
  <2>. QED BY <2>1, <2>2, <2>7, <2>8 DEF k
<1>. QED BY <1>1, <1>2

\* A sample adds its size, also to a log that was empty.
LEMMA AddSampleSum ==
    ASSUME NEW log \in Log, NEW sum, IsSum(sum, log), NEW size \in Nat
    PROVE  \E sum2 : /\ IsSum(sum2, addSample(log, size))
                     /\ sum2[Len(addSample(log, size))] = sum[Len(log)] + size
<1>. DEFINE l == IF log = << >> THEN <<Empty>> ELSE log
            v == [weight |-> l[Len(l)].weight + size,
                  during |-> l[Len(l)].during \cup {icnt \div Interval}]
            new == [l EXCEPT ![Len(l)] = v]
            k == Len(l)
<1>1. addSample(log, size) = new
  BY DEF addSample
<1>2. l \in Log /\ k \in Nat \ {0} /\ DOMAIN l = 1 .. k
  <2>1. <<Empty>> \in Log /\ Len(<<Empty>>) = 1
    BY EmptyVector DEF Log
  <2>2. log # << >> => log \in Log /\ Len(log) \in Nat \ {0}
    BY DEF Log
  <2>3. l \in Log /\ Len(l) \in Nat \ {0}
    BY <2>1, <2>2
  <2>. HIDE DEF l
  <2>. QED BY <2>3 DEF Log
<1>3. PICK s : IsSum(s, l) /\ s[k] = sum[Len(log)]
  <2>1. CASE log = << >>
    <3>. DEFINE s == [n \in 0 .. 1 |-> 0]
    <3>1. l = <<Empty>> /\ Len(l) = 1 /\ l[1].weight = 0 /\ Len(log) = 0
      BY <2>1 DEF Empty
    <3>2. s \in [0 .. 1 -> Nat] /\ s[0] = 0 /\ s[1] = 0
      OBVIOUS
    <3>. HIDE DEF l, s
    <3>3. \A n \in 1 .. 1 : s[n] = s[n - 1] + l[n].weight
      BY <3>1, <3>2
    <3>4. IsSum(s, l) /\ s[Len(l)] = 0
      BY <3>1, <3>2, <3>3 DEF IsSum
    <3>5. sum[Len(log)] = 0
      BY <3>1 DEF IsSum
    <3>. QED BY <3>4, <3>5
  <2>2. CASE log # << >>
    BY <2>2
  <2>. QED BY <2>1, <2>2
<1>. HIDE DEF l
<1>4. l[k] \in [weight : Nat, during : SUBSET Nat]
  <2>1. k \in DOMAIN l
    BY <1>2
  <2>. HIDE DEF k
  <2>. QED BY <1>2, <2>1, ElementType DEF Log
<1>5. v \in [weight : Nat, during : SUBSET (Nat \cup {icnt \div Interval})] /\ v.weight = l[k].weight + size
  BY <1>4
<1>. HIDE DEF v
<1>6. Len(new) = k /\ new[k] = v /\ \A x \in 1 .. k - 1 : new[x] = l[x]
  <2>1. k \in DOMAIN l /\ new = [l EXCEPT ![k] = v]
    BY <1>2
  <2>. HIDE DEF k, new
  <2>2. DOMAIN new = 1 .. k /\ new[k] = v /\ \A x \in 1 .. k : x # k => new[x] = l[x]
    BY <1>2, <2>1
  <2>3. Len(new) = k
    <3>1. l \in Seq([weight : Nat, during : SUBSET Nat])
      BY <1>2 DEF Log
    <3>2. Len(new) = Len(l)
      BY <2>1, <3>1
    <3>. QED BY <3>2 DEF k
  <2>. QED BY <1>2, <2>2, <2>3
<1>. HIDE DEF new, k
<1>. DEFINE sum2 == [s EXCEPT ![k] = s[k] + size]
<1>7. /\ s \in [0 .. k -> Nat] /\ s[0] = 0 /\ \A n \in 1 .. k : s[n] = s[n - 1] + l[n].weight
  BY <1>3 DEF IsSum, k
<1>8. /\ sum2 \in [0 .. k -> Nat] /\ \A n \in 0 .. k - 1 : sum2[n] = s[n]
      /\ sum2[k] = s[k] + size
  BY <1>2, <1>7
<1>. HIDE DEF sum2
<1>9. ASSUME NEW n \in 1 .. k PROVE sum2[n] = sum2[n - 1] + new[n].weight
  <2>0. n - 1 \in 0 .. k - 1 /\ sum2[n - 1] = s[n - 1] /\ s[n - 1] \in Nat
    BY <1>2, <1>7, <1>8
  <2>1. CASE n = k
    <3>1. s[k] = s[n - 1] + l[k].weight /\ l[k].weight \in Nat
      BY <2>1, <1>4, <1>7
    <3>. QED BY <3>1, <2>0, <2>1, <1>5, <1>6, <1>8
  <2>2. CASE n # k
    <3>1. n \in 1 .. k - 1 /\ n \in 0 .. k - 1
      BY <2>2, <1>2
    <3>. QED BY <3>1, <2>0, <1>6, <1>7, <1>8
  <2>. QED BY <2>1, <2>2
<1>10. IsSum(sum2, new) /\ sum2[Len(new)] = s[k] + size
  <2>1. sum2[0] = 0
    BY <1>2, <1>7, <1>8
  <2>. QED BY <2>1, <1>6, <1>8, <1>9 DEF IsSum
<1>. QED BY <1>1, <1>3, <1>10 DEF k

-----------------------------------------------------------------------------

LEMMA VectorKept ==
    ASSUME VectorInv, NEW retires \in BOOLEAN, NEW branches \in BOOLEAN, NEW accesses \in BOOLEAN,
           Profile(retires, branches, accesses)
    PROVE  VectorInv'
<1>1. icnt \in Nat /\ bbsz \in Nat /\ calls \in Nat /\ Current \in Nat
  BY NextInterval, SimPointAssumption DEF VectorInv, Current
<1>2. icnt' \in {icnt, icnt + 1} /\ icnt' \in Nat /\ bbsz' \in Nat /\ calls' \in Nat
  BY <1>1 DEF Profile
<1>3. Ready(nextSample(bblog)) /\ Ready(nextSample(mlog))
  BY NextSampleReady DEF VectorInv
<1>4. Ready(addSample(nextSample(bblog), bbsz + 1)) /\ Ready(addSample(nextSample(mlog), 1))
  <2>1. bbsz + 1 \in Nat /\ 1 \in Nat
    BY <1>1
  <2>. QED BY <2>1, <1>1, <1>3, AddSampleReady
<1>5. \E log : Ready(log) /\ bblog' = log
  BY <1>3, <1>4 DEF Profile
<1>6. \E log : Ready(log) /\ mlog' = log
  BY <1>3, <1>4 DEF Profile
<1>7. LogOk(bblog)' /\ LogOk(mlog)'
  BY <1>1, <1>2, <1>5, <1>6, ReadyLater DEF LogOk
<1>. QED BY <1>2, <1>7 DEF VectorInv

LEMMA VectorFirst == SimPointInit => VectorInv
<1>. SUFFICES ASSUME SimPointInit PROVE VectorInv
  OBVIOUS
<1>1. << >> \in Log /\ DOMAIN << >> = {}
  BY DEF Log
<1>2. LogOk(bblog) /\ LogOk(mlog)
  BY <1>1 DEF SimPointInit, LogOk
<1>. QED BY <1>2, SimPointAssumption DEF SimPointInit, VectorInv

LEMMA VectorNext == VectorInv /\ [SimPointNext]_simPointVars => VectorInv'
<1>. SUFFICES ASSUME VectorInv, [SimPointNext]_simPointVars PROVE VectorInv'
  OBVIOUS
<1>1. CASE SimPointNext
  BY <1>1, VectorKept DEF SimPointNext, Trapping, Branch, Access, Other
<1>2. CASE UNCHANGED simPointVars
  BY <1>2 DEF simPointVars, VectorInv, LogOk, Current
<1>. QED BY <1>1, <1>2

\* No vector of the profile mixes two intervals, and their order is that of
\* time, wherever the run starts and traps (class av, runRiscvSimPoint).
THEOREM VectorsDoNotMix == SimPointSpec => []VectorsAreIntervals
<1>1. VectorInv => VectorsAreIntervals
  BY DEF VectorInv, LogOk, VectorsAreIntervals, Mixes, Ordered
<1>. QED BY <1>1, VectorFirst, VectorNext, PTL DEF SimPointSpec

-----------------------------------------------------------------------------

\* What has been called is in the vectors, or in the basic block that goes on.
SumInv == \E sum : IsSum(sum, bblog) /\ sum[Len(bblog)] + bbsz = calls

LEMMA CallSum ==
    ASSUME VectorInv, SumInv, NEW retires \in BOOLEAN, NEW branches \in BOOLEAN, NEW accesses \in BOOLEAN,
           Profile(retires, branches, accesses)
    PROVE  SumInv'
<1>1. bblog \in Log /\ bbsz \in Nat /\ calls \in Nat
  BY DEF VectorInv, LogOk
<1>2. PICK sum : IsSum(sum, bblog) /\ sum[Len(bblog)] + bbsz = calls
  BY DEF SumInv
<1>. DEFINE next == nextSample(bblog)
<1>3. PICK sum2 : next \in Log /\ IsSum(sum2, next) /\ sum2[Len(next)] = sum[Len(bblog)]
  BY <1>1, <1>2, NextSampleSum
<1>4. calls' = calls + 1
  BY DEF Profile
<1>5. CASE branches
  <2>1. bbsz + 1 \in Nat
    BY <1>1
  <2>2. PICK sum3 : /\ IsSum(sum3, addSample(next, bbsz + 1))
                    /\ sum3[Len(addSample(next, bbsz + 1))] = sum2[Len(next)] + (bbsz + 1)
    BY <1>3, <2>1, AddSampleSum
  <2>3. bblog' = addSample(next, bbsz + 1) /\ bbsz' = 0
    BY <1>5 DEF Profile
  <2>4. sum[Len(bblog)] \in Nat
    <3>1. Len(bblog) \in Nat
      BY <1>1 DEF Log
    <3>. QED BY <3>1, <1>2 DEF IsSum
  <2>5. sum3[Len(bblog')] + bbsz' = calls'
    BY <1>1, <1>2, <1>3, <1>4, <2>2, <2>3, <2>4
  <2>6. IsSum(sum3, bblog')
    BY <2>2, <2>3
  <2>. QED BY <2>5, <2>6 DEF SumInv, IsSum
<1>6. CASE ~branches
  <2>1. bblog' = next /\ bbsz' = bbsz + 1
    BY <1>6 DEF Profile
  <2>2. sum[Len(bblog)] \in Nat
    <3>1. Len(bblog) \in Nat
      BY <1>1 DEF Log
    <3>. QED BY <3>1, <1>2 DEF IsSum
  <2>3. sum2[Len(bblog')] + bbsz' = calls' /\ IsSum(sum2, bblog')
    BY <1>1, <1>2, <1>3, <1>4, <2>1, <2>2
  <2>. QED BY <2>3 DEF SumInv, IsSum
<1>. QED BY <1>5, <1>6

\* No call of execRiscv is lost or counted twice by the vectors of basic
\* blocks: neither the first sample of a log, nor those around the end of an
\* interval, nor those of a call that trapped.
THEOREM SamplesAreKept == SimPointSpec => []NothingLost
<1>1. SimPointInit => SumInv
  <2>. SUFFICES ASSUME SimPointInit PROVE SumInv
    OBVIOUS
  <2>. DEFINE sum == [n \in 0 .. 0 |-> 0]
  <2>1. sum \in [0 .. 0 -> Nat] /\ sum[0] = 0 /\ bblog = << >> /\ Len(<< >>) = 0
        /\ bbsz = 0 /\ calls = 0
    BY DEF SimPointInit
  <2>. HIDE DEF sum
  <2>2. IsSum(sum, bblog)
    BY <2>1 DEF IsSum
  <2>3. sum[Len(bblog)] + bbsz = calls
    BY <2>1
  <2>. QED BY <2>2, <2>3 DEF SumInv
<1>2. VectorInv /\ SumInv /\ [SimPointNext]_simPointVars => SumInv'
  <2>. SUFFICES ASSUME VectorInv, SumInv, [SimPointNext]_simPointVars PROVE SumInv'
    OBVIOUS
  <2>1. CASE SimPointNext
    BY <2>1, CallSum DEF SimPointNext, Trapping, Branch, Access, Other
  <2>2. CASE UNCHANGED simPointVars
    BY <2>2 DEF simPointVars, SumInv, IsSum
  <2>. QED BY <2>1, <2>2
<1>3. VectorInv /\ SumInv => NothingLost
  BY SumIsWeight DEF VectorInv, LogOk, SumInv, NothingLost
<1>. QED BY <1>1, <1>2, <1>3, VectorFirst, VectorNext, PTL DEF SimPointSpec
=============================================================================
