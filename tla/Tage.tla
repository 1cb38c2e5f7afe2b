-------------------------------- MODULE Tage --------------------------------
(***************************************************************************)
(* Class tage of branch_predictor.cc: tagged tables indexed by a hash of   *)
(* the branch's address and the history register bhr, a sim_bitvec of      *)
(* several words, beside one bimodal counter.  Tables are numbered from 1  *)
(* here, and table 0 is the bimodal counter (-1 in the code).              *)
(*                                                                         *)
(* One action is one branch instruction: predict, the outcome, update.     *)
(***************************************************************************)
EXTENDS Integers, Sequences, SequencesExt, FiniteSetsExt

CONSTANTS
    Pcs,            \* addresses of branches
    WordBits,       \* bits of a word of sim_bitvec
    TableLengths,   \* table_lengths, in bits
    Slots, Tags,    \* entries of a table, and values of a tag
    Hash(_, _),     \* boost::hash_combine over an address and some words
    MaxBranches     \* bound on the branches executed

Tables == DOMAIN TableLengths
HistoryBits == Last(TableLengths)
Words == 1 .. (HistoryBits + WordBits - 1) \div WordBits
Bits == 0 .. WordBits - 1

\* the sizes of class tage: 12 bits of tag are among 16 bits of slot
ASSUME TageAssumption ==
    /\ TableLengths \in Seq(Nat \ {0}) /\ TableLengths # << >>
    /\ WordBits \in Nat \ {0} /\ MaxBranches \in Nat
    /\ Tags \in Nat \ {0} /\ Slots \in Nat \ {0} /\ Slots % Tags = 0

ASSUME HashAssumption ==
    \A pc \in Pcs, last \in Words : \A seen \in [1 .. last -> SUBSET Bits] :
        Hash(pc, seen) \in Nat

VARIABLES
    bhr,            \* the history register: of each word the bits that are set,
                    \* the newest outcomes first and lowest
    tables,         \* table and slot -> pred, useful and tag
    pht,            \* the bimodal counter: every branch uses pht[0]
    used, right,    \* pred_table and corr_pred_table; those of 0 count for pht
    n_branches, n_mispredicts,
    outcomes        \* history: the last HistoryBits outcomes, the newest first

vars == <<bhr, tables, pht, used, right, n_branches, n_mispredicts, outcomes>>

Counter == 0 .. 3
Entry == [pred : Counter, useful : Counter, tag : 0 .. Tags - 1]
Sources == Tables \cup {0}

TypeOK ==
    /\ bhr \in [Words -> SUBSET Bits]
    /\ tables \in [Tables -> [0 .. Slots - 1 -> Entry]]
    /\ pht \in Counter
    /\ used \in [Sources -> 0 .. MaxBranches] /\ right \in [Sources -> 0 .. MaxBranches]
    /\ n_branches \in 0 .. MaxBranches /\ n_mispredicts \in 0 .. n_branches
    /\ outcomes \in Seq(BOOLEAN) /\ Len(outcomes) <= HistoryBits

Cleared == [pred |-> 0, useful |-> 0, tag |-> 0]

Init ==
    /\ bhr = [w \in Words |-> {}]
    /\ tables = [t \in Tables |-> [s \in 0 .. Slots - 1 |-> Cleared]]
    /\ pht = 1
    /\ used = [t \in Sources |-> 0] /\ right = [t \in Sources |-> 0]
    /\ n_branches = 0 /\ n_mispredicts = 0 /\ outcomes = << >>

-----------------------------------------------------------------------------
(* The history register.                                                   *)

Shifted(word) == {i + 1 : i \in word \ {WordBits - 1}}

\* Variant: the bit that leaves a word is lost.
shift_left_in_words == [w \in Words |-> Shifted(bhr[w])]

\* by one: the bit that leaves a word enters the next
shift_left ==
    [w \in Words |-> Shifted(bhr[w]) \cup
                      (IF w > 1 /\ WordBits - 1 \in bhr[w - 1] THEN {0} ELSE {})]

update_bhr(taken) ==
    bhr' = IF taken THEN [shift_left EXCEPT ![1] = @ \cup {0}] ELSE shift_left

\* sim_bitvec::hash: a length beyond the register is cut to it, and the mask of
\* the last word is empty when the length is a multiple of WordBits
Seen(t) ==
    LET bits == IF TableLengths[t] > HistoryBits THEN HistoryBits ELSE TableLengths[t]
        last == (bits + WordBits - 1) \div WordBits
    IN  [w \in 1 .. last |-> IF w < last THEN bhr[w]
                              ELSE bhr[w] \cap 0 .. (bits % WordBits) - 1]

FullHash(pc, t) == Hash(pc, Seen(t))
Slot(pc, t) == FullHash(pc, t) % Slots

\* Variant: the tag holds the bits of the hash above those of the slot.
TagAbove(pc, t) == (FullHash(pc, t) \div Slots) % Tags
Tag(pc, t) == FullHash(pc, t) % Tags

-----------------------------------------------------------------------------
(* predict and update_.                                                    *)

Matching(pc) == {t \in Tables : tables[t][Slot(pc, t)].tag = Tag(pc, t)}
Provider(pc) == Max(Matching(pc) \cup {0})
Alternate(pc) == Max({t \in Matching(pc) : t # Provider(pc)} \cup {0})

Says(pc, t) == IF t = 0 THEN pht > 1 ELSE tables[t][Slot(pc, t)].pred > 1

\* Variant: the counter goes below zero.
ClampAbove(n) == IF n > 3 THEN 3 ELSE n
Clamp(n) == IF n > 3 THEN 3 ELSE IF n < 0 THEN 0 ELSE n
Trained(counter, taken) == Clamp(IF taken THEN counter + 1 ELSE counter - 1)

\* the tables in which a misprediction may allocate, and the one it takes
Free(pc) == {t \in Tables : t > Provider(pc) /\ tables[t][Slot(pc, t)].useful = 0}

Allocated(pc) == IF Free(pc) = {} THEN 0 ELSE Min(Free(pc))

Count(p, correct) ==
    /\ used' = [used EXCEPT ![p] = @ + 1]
    /\ right' = IF correct THEN [right EXCEPT ![p] = @ + 1] ELSE right
    /\ n_branches' = n_branches + 1
    /\ n_mispredicts' = IF correct THEN n_mispredicts ELSE n_mispredicts + 1

\* the branch's entry of table t: update_correct, update_incorrect and the
\* useful bits
NewEntry(pc, prediction, taken, t) ==
    LET p == Provider(pc)
        correct == prediction = taken
        earned == IF correct /\ Says(pc, p) # Says(pc, Alternate(pc)) THEN 1 ELSE 0
        e == tables[t][Slot(pc, t)]
    IN  IF t = p
        THEN [e EXCEPT !.pred = Trained(@, taken), !.useful = Clamp(@ + earned)]
        ELSE IF correct \/ t < p THEN e
        ELSE IF Allocated(pc) = 0 THEN [e EXCEPT !.useful = Clamp(@ - 1)]
        ELSE IF t = Allocated(pc) THEN [e EXCEPT !.tag = Tag(pc, t), !.pred = 1]
        ELSE e

update_(pc, prediction, taken) ==
    /\ pht' = IF Provider(pc) = 0 THEN Trained(pht, taken) ELSE pht
    /\ tables' = [t \in Tables |->
          [tables[t] EXCEPT ![Slot(pc, t)] = NewEntry(pc, prediction, taken, t)]]
    /\ Count(Provider(pc), prediction = taken)

\* branch_predictor::update
update(pc, prediction, taken) ==
    /\ n_branches < MaxBranches
    /\ update_(pc, prediction, taken)
    /\ update_bhr(taken)
    /\ outcomes' = IF Len(outcomes) < HistoryBits THEN <<taken>> \o outcomes
                   ELSE <<taken>> \o Front(outcomes)

\* opcode 0x63
Conditional == \E pc \in Pcs, taken \in BOOLEAN : update(pc, Says(pc, Provider(pc)), taken)

\* jal and jalr: what predict returns is dropped, and true is passed for both
Jump == \E pc \in Pcs : update(pc, TRUE, TRUE)

Next == Conditional \/ Jump
Spec == Init /\ [][Next]_vars

-----------------------------------------------------------------------------
(* Properties.                                                             *)

\* The words of the history register hold the last outcomes, jumps included,
\* in order and across the words.
HistoryIsOutcomes ==
    \A i \in 0 .. HistoryBits - 1 :
        i % WordBits \in bhr[i \div WordBits + 1] <=> (i < Len(outcomes) /\ outcomes[i + 1])

\* A tag is part of its slot's number, so an entry with a tag matches whatever
\* comes to its slot.  Hence allocation never takes an entry from another
\* branch, and no useful counter is ever lowered: an entry, once allocated, is
\* only trained.
EntriesStay == [][
    \A t \in Tables, s \in 0 .. Slots - 1 :
        LET e == tables[t][s]
            f == tables'[t][s]
        IN  /\ f.useful >= e.useful
            /\ e.tag # 0 => f.tag = e.tag /\ f.pred - e.pred \in {-1, 0, 1}
    ]_vars
=============================================================================
