------------------------------ MODULE Console ------------------------------
(***************************************************************************)
(* CSRs 0xc03 and 0xc04, the guest's console and its way to stop the run:  *)
(* write_csr keeps the characters of a line in cons_buf and compares them  *)
(* with two markers when the line ends.                                    *)
(***************************************************************************)
EXTENDS Integers, Sequences, SequencesExt

CONSTANTS
    Chars,          \* characters that do not end a line
    Newline, Nul,
    Markers,        \* "fpga_done" and "Kernel panic"
    ConsSize,       \* characters of cons_buf
    MaxChars        \* bound on the characters written

Ends == {Newline, Nul}

VARIABLES
    cons_buf, curr_pos, brk,
    line,           \* history: the characters of this line
    expected,       \* history: brk, if a line is compared as it was written
    chars           \* characters so far

consoleVars == <<cons_buf, curr_pos, brk, line, expected, chars>>

Blank == [i \in 0 .. ConsSize - 1 |-> Nul]

Init ==
    /\ cons_buf = Blank /\ curr_pos = 0 /\ brk = FALSE
    /\ line = << >> /\ expected = FALSE /\ chars = 0

\* strncmp(marker, cons_buf, length of marker) = 0
Matches(buf, marker) == \A i \in DOMAIN marker : buf[i - 1] = marker[i]

\* Variant: only the buffer is cleared.
EndLineStays(buf) ==
    /\ brk' = (brk \/ \E m \in Markers : Matches(buf, m))
    /\ cons_buf' = Blank /\ curr_pos' = (curr_pos + 1) % ConsSize

EndLine(buf) ==
    /\ brk' = (brk \/ \E m \in Markers : Matches(buf, m))
    /\ cons_buf' = Blank /\ curr_pos' = 0

\* csrrw x0, 0xc03, c; csrrc writes a Nul whatever its source is
Write(c) ==
    LET buf == [cons_buf EXCEPT ![curr_pos] = c]
    IN  /\ chars < MaxChars /\ chars' = chars + 1
        /\ IF c \in Ends THEN EndLine(buf)
           ELSE cons_buf' = buf /\ curr_pos' = (curr_pos + 1) % ConsSize /\ UNCHANGED brk
        /\ line' = IF c \in Ends THEN << >> ELSE Append(line, c)
        /\ expected' =
              CASE c \notin Ends -> expected
                [] c \in Ends /\ Len(line) < ConsSize ->
                      (expected \/ \E m \in Markers : IsPrefix(m, line))
                [] OTHER -> brk'

\* csrrw x0, 0xc04, v; read with csrrs, it is 0, and csrrc clears brk
Stop(v) ==
    /\ chars < MaxChars /\ chars' = chars + 1
    /\ brk' = v /\ expected' = v
    /\ UNCHANGED <<cons_buf, curr_pos, line>>

Next == (\E c \in Chars \cup Ends : Write(c)) \/ (\E v \in BOOLEAN : Stop(v))

Spec == Init /\ [][Next]_consoleVars

-----------------------------------------------------------------------------

\* The run is stopped at the end of a line that starts with a marker, and of
\* no other, also after lines that were longer than the buffer; a line that is
\* longer wraps in the buffer, and what it is compared with is not its start
\* (write_csr 0xc03).
ConsoleStops == brk = expected
=============================================================================
