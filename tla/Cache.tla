-------------------------------- MODULE Cache --------------------------------
(***************************************************************************)
(* nway_cache: a struct way per set, and the counters.                     *)
(***************************************************************************)
EXTENDS Way

CONSTANTS
    Ways,           \* nodes of a set; make_cache gives 1 way to another class
    Sets,           \* 1 << lg2_lines
    Lines,          \* line numbers, ea >> CL_LEN
    MaxAccesses     \* bound on the accesses

ASSUME CacheAssumption ==
    /\ Ways \in Nat /\ Ways > 1
    /\ Sets \in Nat \ {0} /\ Lines \subseteq Nat /\ MaxAccesses \in Nat

Index == 0 .. Sets - 1

VARIABLES
    way,            \* the sets
    hits, hitMru, accesses, distribution,
    seen            \* history: the lines accessed

vars == <<way, hits, hitMru, accesses, distribution, seen>>

TypeOK ==
    /\ way \in [Index -> Way(Ways, Lines \cup {0})]
    /\ accesses \in 0 .. MaxAccesses /\ hits \in 0 .. accesses /\ hitMru \in 0 .. hits
    /\ distribution \in [Index -> 0 .. MaxAccesses]
    /\ seen \subseteq Lines

Init ==
    /\ way = [s \in Index |-> NewWay(Ways)]
    /\ hits = 0 /\ hitMru = 0 /\ accesses = 0
    /\ distribution = [s \in Index |-> 0]
    /\ seen = {}

\* 1 for what is counted
Flag(p) == IF p THEN 1 ELSE 0

\* Variant: a hit on the head is not counted among the hits.
CountMruApart(w, line) ==
    /\ hits' = hits + Flag(IsHit(w, line) /\ ~IsMru(w, line))
    /\ hitMru' = hitMru + Flag(IsMru(w, line))

Count(w, line) ==
    /\ hits' = hits + Flag(IsHit(w, line))
    /\ hitMru' = hitMru + Flag(IsMru(w, line))

\* nway_cache::access
Access(line) ==
    LET s == line % Sets
    IN  /\ accesses < MaxAccesses
        /\ accesses' = accesses + 1
        /\ distribution' = [distribution EXCEPT ![s] = @ + 1]
        /\ way' = [way EXCEPT ![s] = access(@, line)]
        /\ Count(way[s], line)
        /\ seen' = seen \cup {line}

Next == \E line \in Lines : Access(line)

Spec == Init /\ [][Next]_vars

-----------------------------------------------------------------------------
(* Properties.                                                             *)

Free(w) == Walk(w, w.freelist)

\* Every node is on exactly one of the two lists of its set, the links of the
\* list in use go both ways, and no line is there twice or in the wrong set.
ListsWellFormed ==
    \A s \in Index :
        LET w == way[s]
            used == Used(w)
        IN  /\ Len(used) + Len(Free(w)) = Ways
            /\ {used[i] : i \in DOMAIN used} \cup {Free(w)[i] : i \in DOMAIN Free(w)} = Nodes(Ways)
            /\ \A i \in DOMAIN used :
                /\ w.prev[used[i]] = IF i = 1 THEN Null ELSE used[i - 1]
                /\ w.addr[used[i]] % Sets = s
                /\ \A j \in DOMAIN used : w.addr[used[i]] = w.addr[used[j]] => i = j

\* The linked lists are LRU stacks, and the statistics are those of the stacks.
Stacks == INSTANCE LruStacks WITH stack <- [s \in Index |-> Stack(way[s])]
LruSpec == Stacks!Spec
=============================================================================
