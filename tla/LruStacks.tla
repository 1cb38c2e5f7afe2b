------------------------------ MODULE LruStacks ------------------------------
(***************************************************************************)
(* What a set-associative cache with LRU replacement promises: each set    *)
(* keeps the lines it was asked for last, most recent first, and an access *)
(* hits iff its line is among them.  It has no other state.                *)
(***************************************************************************)
EXTENDS Integers, Sequences

CONSTANTS
    Ways,           \* lines a set can keep
    Sets,           \* number of sets
    Lines,          \* line numbers, ea >> CL_LEN
    MaxAccesses     \* bound on the accesses

VARIABLES stack, hits, hitMru, accesses

Init ==
    /\ stack = [s \in 0 .. Sets - 1 |-> << >>]
    /\ hits = 0 /\ hitMru = 0 /\ accesses = 0

\* the positions of line in st
At(st, line) == {i \in DOMAIN st : st[i] = line}

\* how many lines of st move back by one: those before the old place of the
\* line, or as many as fit beside it
Moved(ways, st, line) ==
    IF At(st, line) # {} THEN (CHOOSE i \in At(st, line) : TRUE) - 1
    ELSE IF Len(st) < ways THEN Len(st) ELSE ways - 1

\* line is now the most recent of the lines in st
Touched(ways, st, line) ==
    LET moved == Moved(ways, st, line)
    IN  [i \in 1 .. (IF moved = Len(st) THEN Len(st) + 1 ELSE Len(st)) |->
            IF i = 1 THEN line ELSE IF i <= moved + 1 THEN st[i - 1] ELSE st[i]]

Access(line) ==
    LET s == line % Sets
    IN  /\ accesses < MaxAccesses
        /\ accesses' = accesses + 1
        /\ stack' = [stack EXCEPT ![s] = Touched(Ways, @, line)]
        /\ hits' = hits + (IF At(stack[s], line) # {} THEN 1 ELSE 0)
        /\ hitMru' = hitMru + (IF 1 \in At(stack[s], line) THEN 1 ELSE 0)

Next == \E line \in Lines : Access(line)

Spec == Init /\ [][Next]_<<stack, hits, hitMru, accesses>>
=============================================================================
