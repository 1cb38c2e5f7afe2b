------------------------------- MODULE Gshare -------------------------------
(***************************************************************************)
(* Class gshare of branch_predictor.cc: two-bit counters, chosen by the    *)
(* branch's address and the last outcomes.  predict reads the history      *)
(* register through to_integer, which is its first word, so the folding of *)
(* 64 bits to 16 changes nothing and the other words are left out.  The    *)
(* statistics are left out too: the states are then finite, and a run      *)
(* covers branches without bound.  A number is written as the set of its   *)
(* bits where its bits are what matters.                                   *)
(***************************************************************************)
EXTENDS Integers

CONSTANTS
    Pcs,                    \* addresses of branches
    WordBits,               \* bits of a word of sim_bitvec
    lg_pht_entries, pc_shift

VARIABLES
    history,                \* the bits set in the first word of bhr, the newest
                            \* outcome lowest
    counters,               \* pht
    run                     \* history: the mispredictions of one branch in one
                            \* direction, with no other branch between

vars == <<history, counters, run>>

Bits == 0 .. WordBits - 1
Entries == SUBSET (0 .. lg_pht_entries - 1)

TypeOK ==
    /\ history \in SUBSET Bits /\ counters \in [Entries -> 0 .. 3]
    /\ run.pc \in Nat /\ run.taken \in BOOLEAN /\ run.wrong \in Nat

Init ==
    /\ history = {} /\ counters = [i \in Entries |-> 1]
    /\ run = [pc |-> 0, taken |-> FALSE, wrong |-> 0]

\* a bit of addr << pc_shift
Bit(pc, i) == i >= pc_shift /\ (pc \div 2 ^ (i - pc_shift)) % 2 = 1

\* the xor with the history
idx(pc) == {i \in 0 .. lg_pht_entries - 1 : Bit(pc, i) # (i \in history)}
predict(pc) == counters[idx(pc)] > 1

Trained(v, taken) ==
    IF taken THEN (IF v > 2 THEN v ELSE v + 1) ELSE (IF v = 0 THEN v ELSE v - 1)

\* predict, update_ and update_bhr; jal and jalr pass TRUE for the prediction
update(pc, prediction, taken) ==
    /\ counters' = [counters EXCEPT ![idx(pc)] = Trained(@, taken)]
    /\ history' = ({i + 1 : i \in history} \cap Bits) \cup (IF taken THEN {0} ELSE {})
    /\ run' = [pc |-> pc, taken |-> taken,
               wrong |-> (IF run.pc = pc /\ run.taken = taken THEN run.wrong ELSE 0)
                         + (IF prediction # taken THEN 1 ELSE 0)]

Conditional == \E pc \in Pcs, taken \in BOOLEAN : update(pc, predict(pc), taken)
Jump == \E pc \in Pcs : update(pc, TRUE, TRUE)

Next == Conditional \/ Jump
Spec == Init /\ [][Next]_vars

-----------------------------------------------------------------------------

\* A branch that keeps its direction is soon predicted: it meets each counter
\* on the way to a history of its own outcomes at most once, and the last one
\* until that is trained (gshare::predict, gshare::update_).
BranchesLearn == run.wrong <= WordBits + 2
=============================================================================
