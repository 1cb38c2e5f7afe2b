-------------------------------- MODULE Hart --------------------------------
(***************************************************************************)
(* Programs of integer instructions and atomics, of CSR instructions, or   *)
(* of writes to the console.  The three have no state in common but the    *)
(* general registers, so a program of one kind shows what a mixture does.  *)
(***************************************************************************)
EXTENDS Atomics, Sequences

CONSTANTS
    Plain, Values, Zimms, MaxCsrs,                          \* Csrs
    Chars, Newline, Nul, Markers, ConsSize, MaxChars        \* Console

VARIABLES
    program,
    csr, x1, aborted, trapped, wrote, count,                \* Csrs
    cons_buf, curr_pos, brk, line, expected, chars          \* Console

C == INSTANCE Csrs
O == INSTANCE Console

ASSUME CsrValues ==
    /\ {"mie", "mip", "mideleg", "mtvec", "stvec"} \subseteq Plain /\ Plain \subseteq C!AllPlain
    /\ Values \subseteq SUBSET C!Bits /\ Zimms \subseteq SUBSET {C!SIE, C!MIE} /\ MaxCsrs \in Nat
ASSUME ConsoleValues ==
    /\ Newline \notin Chars /\ Nul \notin Chars /\ ConsSize \in Nat \ {0} /\ MaxChars \in Nat
    /\ \A m \in Markers : m \in Seq(Chars) /\ m # << >> /\ Len(m) < ConsSize

csrState == <<csr, x1, aborted, trapped, wrote, count>>
consoleState == <<cons_buf, curr_pos, brk, line, expected, chars>>
hartVars == <<program, atomicVars, csrState, consoleState>>

HartInit ==
    /\ program \in {"integer", "csr", "console"}
    /\ AtomicInit /\ C!Init /\ O!Init
    /\ program # "integer" => host = "x86" /\ \A r \in Regs : gpr[r] = 0

Integer ==
    /\ program = "integer" /\ AtomicNext
    /\ UNCHANGED <<program, csrState, consoleState>>
Csr ==
    /\ program = "csr" /\ C!Next
    /\ UNCHANGED <<program, atomicVars, consoleState>>
PutChars ==
    /\ program = "console" /\ O!Next
    /\ UNCHANGED <<program, atomicVars, csrState>>

HartNext == Integer \/ Csr \/ PutChars

HartSpec == HartInit /\ [][HartNext]_hartVars

-----------------------------------------------------------------------------
(* Properties of the parts, here for the program of their kind.            *)

\* CSR numbers change only what they own (read_csr, write_csr).
CsrViews == C!CsrViews

\* Lines that start with a marker stop the run (write_csr 0xc03).
ConsoleStops == O!ConsoleStops
=============================================================================
