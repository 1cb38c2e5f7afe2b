------------------------------ MODULE SimPoint ------------------------------
(***************************************************************************)
(* Profiling for SimPoint: runRiscvSimPoint fills one vector per interval  *)
(* of Interval instructions with the basic blocks that ended in it (bblog) *)
(* and one with the pages accessed in it (mlog); class av keeps them.      *)
(* simpoints.py picks vectors by number, and a later session checkpoints   *)
(* at that number times Interval.                                          *)
(***************************************************************************)
EXTENDS Integers, Sequences

CONSTANTS
    Interval,   \* --simpoint_interval
    Starts,     \* icnts at which the run may start: not 0 after loadState
    MaxCalls    \* bound on the calls of execRiscv

ASSUME SimPointAssumption ==
    Interval \in Nat \ {0} /\ Starts \subseteq Nat /\ MaxCalls \in Nat

VARIABLES
    icnt,
    bbsz,       \* calls of execRiscv since the last sample of bblog
    bblog, mlog,    \* the vectors: their weight, and (history) the intervals
                    \* during which samples were added
    \* history variables
    start, calls

simPointVars == <<icnt, bbsz, bblog, mlog, start, calls>>

Empty == [weight |-> 0, during |-> {}]

SimPointInit ==
    /\ start \in Starts /\ icnt = start
    /\ bbsz = 0 /\ calls = 0
    /\ bblog = << >> /\ mlog = << >>

nextSample(log) == IF icnt % Interval = 0 THEN Append(log, Empty) ELSE log

\* Variant: a sample in an empty log is dropped.
addSampleNotFirst(log, size) ==
    IF log = << >> THEN log
    ELSE [log EXCEPT ![Len(log)] = [weight |-> @.weight + size,
                                    during |-> @.during \cup {icnt \div Interval}]]

\* Variant: samples go to the first vector.
addSampleToFirst(log, size) ==
    LET l == IF log = << >> THEN <<Empty>> ELSE log
    IN  [l EXCEPT ![1] = [weight |-> @.weight + size,
                          during |-> @.during \cup {icnt \div Interval}]]

addSample(log, size) ==
    LET l == IF log = << >> THEN <<Empty>> ELSE log
    IN  [l EXCEPT ![Len(l)] = [weight |-> @.weight + size,
                               during |-> @.during \cup {icnt \div Interval}]]

\* one call of execRiscv_<false, false, true, true>
Profile(retires, branches, accesses) ==
    /\ calls < MaxCalls
    /\ calls' = calls + 1
    /\ icnt' = IF retires THEN icnt + 1 ELSE icnt
    /\ bbsz' = IF branches THEN 0 ELSE bbsz + 1
    /\ bblog' = IF branches THEN addSample(nextSample(bblog), bbsz + 1) ELSE nextSample(bblog)
    /\ mlog' = IF accesses THEN addSample(nextSample(mlog), 1) ELSE nextSample(mlog)
    /\ UNCHANGED start

Trapping == Profile(FALSE, FALSE, FALSE)    \* an interrupt or an exception
Branch == Profile(TRUE, TRUE, FALSE)        \* jal, jalr, taken or not: a branch
Access == Profile(TRUE, FALSE, TRUE)        \* a load or a store
Other == Profile(TRUE, FALSE, FALSE)

SimPointNext == Trapping \/ Branch \/ Access \/ Other

SimPointSpec == SimPointInit /\ [][SimPointNext]_simPointVars

-----------------------------------------------------------------------------
(* Properties.                                                             *)

Weight(log) ==
    LET upTo[n \in 0 .. Len(log)] == IF n = 0 THEN 0 ELSE upTo[n - 1] + log[n].weight
    IN  upTo[Len(log)]

\* Every call of execRiscv is in exactly one vector, or still in the basic
\* block that has not ended.
NothingLost == Weight(bblog) + bbsz = calls

Mixes(log) == \E i \in DOMAIN log : \E a, b \in log[i].during : a # b
Ordered(log) ==
    \A i, j \in DOMAIN log : i < j =>
        \A a \in log[i].during, b \in log[j].during : a <= b

\* No vector mixes two intervals, and the vectors are in the order of time,
\* also in a run that starts inside an interval.
VectorsAreIntervals ==
    ~Mixes(bblog) /\ ~Mixes(mlog) /\ Ordered(bblog) /\ Ordered(mlog)

\* "simpoint checkpoint locations": main takes the number of a vector times
\* Interval for the icnt where it begins.
LocationsAreVectors ==
    start = 0 =>
        \A i \in DOMAIN bblog : \A a \in bblog[i].during : a = i - 1
=============================================================================
