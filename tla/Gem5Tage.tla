------------------------------ MODULE Gem5Tage ------------------------------
(***************************************************************************)
(* Class gem5_tage of branch_predictor.cc with as much of TAGEBase as it   *)
(* calls: tagePredict and handleTAGEUpdate.  Neither condBranchUpdate nor  *)
(* updateHistories is called, so the histories stay zero, and the slots    *)
(* and tags of a branch depend on its address only.  n_branches and         *)
(* n_mispredicts, which are never read here, are left out: the states are   *)
(* then finite, and a run covers branches without bound.                   *)
(*                                                                         *)
(* A place in a table is written as the set of the bits of its number.     *)
(***************************************************************************)
EXTENDS Integers, Sequences, FiniteSetsExt

CONSTANTS
    Pcs,            \* addresses of branches
    TagWidths,      \* tagTableTagWidths[1 ..]
    LogTagged,      \* logTagTableSizes[1 ..], the same for all tables
    LogBimodal,     \* logTagTableSizes[0]
    LogRatio        \* logRatioBiModalHystEntries

Banks == DOMAIN TagWidths

VARIABLES
    gtable,         \* bank and slot -> counter, useful counter and tag
    btable,         \* btablePrediction
    hysteresis,     \* btableHysteresis, shared by 2^LogRatio predictions
    streak          \* history: the mispredictions of one branch in one
                    \* direction, with no other branch between

vars == <<gtable, btable, hysteresis, streak>>

Places == SUBSET (0 .. LogTagged - 1)
Bimodals == SUBSET (0 .. LogBimodal - 1)
Groups == SUBSET (LogRatio .. LogBimodal - 1)
Entry == [ctr : -4 .. 3, u : 0 .. 3, tag : Nat]

TypeOK ==
    /\ gtable \in [Banks -> [Places -> Entry]]
    /\ btable \in [Bimodals -> BOOLEAN] /\ hysteresis \in [Groups -> BOOLEAN]
    /\ streak.pc \in Nat /\ streak.taken \in BOOLEAN /\ streak.wrong \in Nat

Init ==
    /\ gtable = [b \in Banks |-> [i \in Places |-> [ctr |-> 0, u |-> 0, tag |-> 0]]]
    /\ btable = [i \in Bimodals |-> FALSE] /\ hysteresis = [g \in Groups |-> TRUE]
    /\ streak = [pc |-> 0, taken |-> FALSE, wrong |-> 0]

-----------------------------------------------------------------------------

Bit(n, i) == (n \div 2 ^ i) % 2 = 1

\* the xor of the address with itself shifted
gindex(pc, b) ==
    LET shift == (IF LogTagged > b THEN LogTagged - b ELSE b - LogTagged) + 1
    IN  {i \in 0 .. LogTagged - 1 : Bit(pc, i) # Bit(pc, i + shift)}
gtag(pc, b) == pc % 2 ^ TagWidths[b]
bindex(pc) == {i \in 0 .. LogBimodal - 1 : Bit(pc, i)}
Group(bimodal) == bimodal \ (0 .. LogRatio - 1)

\* the entry of a bank that a branch uses
At(pc, b) == gtable[b][gindex(pc, b)]

\* tagePredict: bank 0 stands for the bimodal table
Hits(pc) == {b \in Banks : At(pc, b).tag = gtag(pc, b)} \cup {0}
hitBank(pc) == Max(Hits(pc))
altBank(pc) == Max({b \in Hits(pc) : b # hitBank(pc)} \cup {0})

Says(pc, b) == IF b = 0 THEN btable[bindex(pc)] ELSE At(pc, b).ctr >= 0
pseudoNewAlloc(pc) == hitBank(pc) # 0 /\ At(pc, hitBank(pc)).ctr \in {-1, 0}
altTaken(pc) == Says(pc, altBank(pc))

\* useAltPredForNewlyAllocated keeps its 0, so that a weak entry is not trusted
tagePred(pc) == IF pseudoNewAlloc(pc) THEN altTaken(pc) ELSE Says(pc, hitBank(pc))

\* Variant: the counter stops one short of its end.
ctrUpdateShort(ctr, taken) ==
    IF taken THEN (IF ctr < 3 THEN ctr + 1 ELSE ctr) ELSE (IF ctr > 0 THEN ctr - 1 ELSE ctr)

ctrUpdate(ctr, taken) ==
    IF taken THEN (IF ctr < 3 THEN ctr + 1 ELSE ctr) ELSE (IF ctr > -4 THEN ctr - 1 ELSE ctr)

unsignedCtrUpdate(u, up) ==
    IF up THEN (IF u < 3 THEN u + 1 ELSE u) ELSE (IF u > 0 THEN u - 1 ELSE u)

\* prediction and hysteresis are the two bits of one counter
baseUpdate(pc, taken) ==
    LET i == bindex(pc)
        g == Group(i)
        inter == (IF btable[i] THEN 2 ELSE 0) + (IF hysteresis[g] THEN 1 ELSE 0)
        next == IF taken THEN (IF inter < 3 THEN inter + 1 ELSE inter)
                ELSE (IF inter > 0 THEN inter - 1 ELSE inter)
    IN  /\ btable' = [btable EXCEPT ![i] = next >= 2]
        /\ hysteresis' = [hysteresis EXCEPT ![g] = next % 2 = 1]

\* the branch's entry of a bank: the alternate is trained beside a hit that has
\* not been useful yet
unproven(pc) == hitBank(pc) # 0 /\ At(pc, hitBank(pc)).u = 0

NewEntry(pc, taken, b) ==
    LET e == At(pc, b)
        trained == [e EXCEPT !.ctr = ctrUpdate(@, taken)]
    IN  IF b = hitBank(pc)
        THEN IF tagePred(pc) # altTaken(pc)
             THEN [trained EXCEPT !.u = unsignedCtrUpdate(@, tagePred(pc) = taken)]
             ELSE trained
        ELSE IF b = altBank(pc) /\ unproven(pc) THEN trained ELSE e

handleTAGEUpdate(pc, taken) ==
    /\ gtable' = [b \in Banks |->
          [gtable[b] EXCEPT ![gindex(pc, b)] = NewEntry(pc, taken, b)]]
    /\ IF hitBank(pc) = 0 \/ (unproven(pc) /\ altBank(pc) = 0)
       THEN baseUpdate(pc, taken)
       ELSE UNCHANGED <<btable, hysteresis>>

\* gem5_tage::update_ after predict; jal and jalr pass TRUE for the prediction
update_(pc, prediction, taken) ==
    /\ handleTAGEUpdate(pc, taken)
    /\ streak' = [pc |-> pc, taken |-> taken,
                  wrong |-> (IF streak.pc = pc /\ streak.taken = taken THEN streak.wrong ELSE 0)
                            + (IF prediction # taken THEN 1 ELSE 0)]

Conditional == \E pc \in Pcs, taken \in BOOLEAN : update_(pc, tagePred(pc), taken)
Jump == \E pc \in Pcs : update_(pc, TRUE, TRUE)

Next == Conditional \/ Jump
Spec == Init /\ [][Next]_vars

-----------------------------------------------------------------------------
(* Properties.                                                             *)

\* A branch that keeps its direction is soon predicted: whatever the counters
\* hold, and however they disagree, at most LearningBound mispredictions.
LearningBound == 5
BranchesLearn == streak.wrong <= LearningBound
=============================================================================
