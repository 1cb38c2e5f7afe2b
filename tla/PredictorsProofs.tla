-------------------------- MODULE PredictorsProofs --------------------------
(***************************************************************************)
(* Theorems about Predictors: for every hash and all sizes of tables,      *)
(* words and counter arrays in which tage's tags divide its slots.  Each  *)
(* predictor has an invariant of its own, kept by its branches and by      *)
(* those of the others, which leave its state alone.                       *)
(***************************************************************************)
EXTENDS Predictors, TLAPS, WellFoundedInduction

SlotNumbers == 0 .. Slots - 1

-----------------------------------------------------------------------------
(* Numbers.                                                                *)

LEMMA DivisionUnique ==
    ASSUME NEW d \in Nat \ {0}, NEW q \in Nat, NEW r \in 0 .. d - 1
    PROVE  (d * q + r) % d = r /\ (d * q + r) \div d = q
<1>. DEFINE n == d * q + r
            k == n \div d
            m == n % d
<1>1. n \in Nat /\ k \in Int /\ m \in 0 .. d - 1 /\ n = d * k + m
  BY SMTT(30)
<1>. HIDE DEF k, m
<1>2. d * (q - k) = m - r /\ -d < m - r /\ m - r < d
  BY <1>1
<1>3. q - k \in Int
  BY <1>1
<1>4. ~(q - k >= 1)
  <2>. SUFFICES ASSUME q - k >= 1 PROVE FALSE
    OBVIOUS
  <2>1. d * (q - k) >= d
    BY <1>3, SMTT(30)
  <2>. QED BY <2>1, <1>1, <1>2
<1>5. ~(q - k <= -1)
  <2>. SUFFICES ASSUME q - k <= -1 PROVE FALSE
    OBVIOUS
  <2>1. d * (q - k) <= -d
    BY <1>3, SMTT(30)
  <2>. QED BY <2>1, <1>1, <1>2
<1>6. q = k
  BY <1>1, <1>3, <1>4, <1>5
<1>. QED BY <1>1, <1>2, <1>6 DEF k, m

LEMMA DivisionType ==
    ASSUME NEW d \in Nat \ {0}, NEW n \in Nat
    PROVE  n \div d \in Nat /\ n % d \in 0 .. d - 1 /\ n = d * (n \div d) + (n % d)
  BY SMTT(30)

LEMMA DivisionMonotone ==
    ASSUME NEW d \in Nat \ {0}, NEW m \in Nat, NEW n \in Nat, m <= n
    PROVE  m \div d <= n \div d
<1>. DEFINE a == m \div d
            b == n \div d
<1>1. a \in Nat /\ b \in Nat /\ d * a <= m /\ n < d * b + d
  <2>1. a \in Nat /\ m % d \in 0 .. d - 1 /\ m = d * a + (m % d)
    BY DivisionType
  <2>2. b \in Nat /\ n % d \in 0 .. d - 1 /\ n = d * b + (n % d)
    BY DivisionType
  <2>. HIDE DEF a, b
  <2>3. d * a \in Nat /\ d * b \in Nat
    BY <2>1, <2>2
  <2>. QED BY <2>1, <2>2, <2>3
<1>. HIDE DEF a, b
<1>2. ~(a >= b + 1)
  <2>. SUFFICES ASSUME a >= b + 1 PROVE FALSE
    OBVIOUS
  <2>1. PICK c \in Nat : a = b + 1 + c
    <3>1. a - b - 1 \in Nat /\ a = b + 1 + (a - b - 1)
      BY <1>1
    <3>. QED BY <3>1
  <2>2. d * a = d * b + d + d * c
    BY <2>1, <1>1, SMTT(30)
  <2>3. d * c \in Nat /\ d * a \in Nat /\ d * b \in Nat
    BY <2>1, <1>1
  <2>. QED BY <2>2, <2>3, <1>1
<1>3. a <= b
  BY <1>1, <1>2
<1>. QED BY <1>3 DEF a, b

\* The tag of a hash is the tag of its slot.
LEMMA TagOfSlot ==
    ASSUME NEW n \in Nat
    PROVE  n % Slots \in SlotNumbers /\ (n % Slots) % Tags = n % Tags
<1>. DEFINE a == n \div Slots
            r == n % Slots
            b == r \div Tags
            c == r % Tags
            q == Slots \div Tags
<1>1. Slots \in Nat \ {0} /\ Tags \in Nat \ {0} /\ Slots % Tags = 0
  BY TageAssumption
<1>2. a \in Nat /\ r \in 0 .. Slots - 1 /\ n = Slots * a + r
  BY <1>1, SMTT(30)
<1>3. q \in Nat /\ Slots = Tags * q
  BY <1>1, SMTT(30)
<1>4. b \in Nat /\ c \in 0 .. Tags - 1 /\ r = Tags * b + c
  BY <1>1, <1>2, SMTT(30)
<1>. HIDE DEF a, r, b, c, q
<1>5. n = Tags * (q * a + b) + c /\ q * a + b \in Nat
  BY <1>1, <1>2, <1>3, <1>4, SMTT(30)
<1>6. n % Tags = c
  BY <1>1, <1>4, <1>5, DivisionUnique
<1>. QED BY <1>2, <1>6 DEF r, c, SlotNumbers

-----------------------------------------------------------------------------
(* The history register.                                                   *)

LEMMA Sizes ==
    /\ HistoryBits \in Nat \ {0} /\ WordBits \in Nat \ {0}
    /\ \E n \in Nat : Words = 1 .. n /\ n = (HistoryBits + WordBits - 1) \div WordBits
    /\ \E n \in Nat \ {0} : Tables = 1 .. n
    /\ \A t \in Tables : TableLengths[t] \in Nat \ {0}
<1>1. /\ TableLengths \in Seq(Nat \ {0}) /\ TableLengths # << >>
      /\ WordBits \in Nat \ {0}
  BY TageAssumption
<1>2. Len(TableLengths) \in Nat \ {0} /\ DOMAIN TableLengths = 1 .. Len(TableLengths)
  BY <1>1
<1>3. HistoryBits \in Nat \ {0}
  BY <1>1, <1>2 DEF HistoryBits, Last
<1>4. HistoryBits + WordBits - 1 \in Nat
  BY <1>1, <1>3
<1>5. (HistoryBits + WordBits - 1) \div WordBits \in Nat
  BY <1>1, <1>4, DivisionType
<1>6. \E n \in Nat : Words = 1 .. n /\ n = (HistoryBits + WordBits - 1) \div WordBits
  BY <1>5 DEF Words
<1>7. \E n \in Nat \ {0} : Tables = 1 .. n
  BY <1>2 DEF Tables
<1>8. \A t \in Tables : TableLengths[t] \in Nat \ {0}
  BY <1>1 DEF Tables
<1>. QED BY <1>1, <1>3, <1>6, <1>7, <1>8

\* A number of bits of the register fills some of its words.
LEMMA WordOfBit ==
    ASSUME NEW bits \in 1 .. HistoryBits
    PROVE  (bits + WordBits - 1) \div WordBits \in Words
<1>1. HistoryBits \in Nat \ {0} /\ WordBits \in Nat \ {0}
  BY Sizes
<1>2. /\ WordBits \in Nat /\ bits + WordBits - 1 \in Nat /\ HistoryBits + WordBits - 1 \in Nat
      /\ WordBits <= bits + WordBits - 1 /\ bits + WordBits - 1 <= HistoryBits + WordBits - 1
  BY <1>1
<1>3. WordBits \div WordBits = 1
  <2>1. WordBits = WordBits * 1 + 0 /\ 0 \in 0 .. WordBits - 1
    BY <1>1
  <2>. QED BY <2>1, <1>1, DivisionUnique
<1>4. WordBits \div WordBits <= (bits + WordBits - 1) \div WordBits
  BY <1>1, <1>2, DivisionMonotone
<1>5. (bits + WordBits - 1) \div WordBits <= (HistoryBits + WordBits - 1) \div WordBits
  BY <1>1, <1>2, DivisionMonotone
<1>6. /\ (bits + WordBits - 1) \div WordBits \in Nat
      /\ (HistoryBits + WordBits - 1) \div WordBits \in Nat
  BY <1>1, <1>2, DivisionType
<1>. QED BY <1>3, <1>4, <1>5, <1>6 DEF Words

LEMMA BitInWord ==
    ASSUME NEW i \in 0 .. HistoryBits - 1
    PROVE  i \div WordBits + 1 \in Words /\ i % WordBits \in Bits
<1>1. HistoryBits \in Nat \ {0} /\ WordBits \in Nat \ {0} /\ i \in Nat
  BY Sizes
<1>2. i \div WordBits \in Nat /\ i % WordBits \in Bits /\ i = WordBits * (i \div WordBits) + (i % WordBits)
  BY <1>1, DivisionType DEF Bits
<1>3. i + 1 \in 1 .. HistoryBits
  BY <1>1
<1>4. (i + 1 + WordBits - 1) \div WordBits \in Words
  BY <1>3, WordOfBit
<1>5. (i + 1 + WordBits - 1) \div WordBits = i \div WordBits + 1
  <2>. DEFINE q == i \div WordBits
              r == i % WordBits
  <2>1. q \in Nat /\ r \in 0 .. WordBits - 1 /\ i = WordBits * q + r
    BY <1>2 DEF Bits
  <2>. HIDE DEF q, r
  <2>2. i + 1 + WordBits - 1 = WordBits * (q + 1) + r /\ q + 1 \in Nat
    BY <2>1, <1>1, SMTT(30)
  <2>3. (WordBits * (q + 1) + r) \div WordBits = q + 1
    BY <2>1, <2>2, <1>1, DivisionUnique
  <2>. QED BY <2>2, <2>3 DEF q
<1>. QED BY <1>2, <1>4, <1>5

\* The place of a bit follows the place of the one before it.
LEMMA BitBefore ==
    ASSUME NEW i \in 1 .. HistoryBits - 1
    PROVE  LET q == i \div WordBits
               r == i % WordBits
           IN  IF r > 0 THEN (i - 1) \div WordBits = q /\ (i - 1) % WordBits = r - 1
               ELSE q > 0 /\ (i - 1) \div WordBits = q - 1 /\ (i - 1) % WordBits = WordBits - 1
<1>. DEFINE q == i \div WordBits
            r == i % WordBits
<1>1. HistoryBits \in Nat \ {0} /\ WordBits \in Nat \ {0} /\ i \in Nat \ {0}
  BY Sizes
<1>2. q \in Nat /\ r \in 0 .. WordBits - 1 /\ i = WordBits * q + r
  BY <1>1, DivisionType
<1>. HIDE DEF q, r
<1>3. CASE r > 0
  <2>1. i - 1 = WordBits * q + (r - 1) /\ r - 1 \in 0 .. WordBits - 1
    BY <1>1, <1>2, <1>3
  <2>2. (WordBits * q + (r - 1)) % WordBits = r - 1 /\ (WordBits * q + (r - 1)) \div WordBits = q
    BY <1>1, <1>2, <2>1, DivisionUnique
  <2>. QED BY <2>1, <2>2, <1>3 DEF q, r
<1>4. CASE r = 0
  <2>1. q # 0
    <3>. SUFFICES ASSUME q = 0 PROVE FALSE
      OBVIOUS
    <3>1. WordBits * q = 0
      BY <1>1
    <3>. QED BY <3>1, <1>1, <1>2, <1>4
  <2>2. /\ i - 1 = WordBits * (q - 1) + (WordBits - 1)
        /\ q - 1 \in Nat /\ WordBits - 1 \in 0 .. WordBits - 1
    BY <1>1, <1>2, <1>4, <2>1, SMTT(30)
  <2>3. /\ (WordBits * (q - 1) + (WordBits - 1)) % WordBits = WordBits - 1
        /\ (WordBits * (q - 1) + (WordBits - 1)) \div WordBits = q - 1
    BY <1>1, <2>2, DivisionUnique
  <2>. QED BY <2>1, <2>2, <2>3, <1>2, <1>4 DEF q, r
<1>. QED BY <1>2, <1>3, <1>4 DEF q, r

LEMMA ShiftType ==
    ASSUME bhr \in [Words -> SUBSET Bits]
    PROVE  shift_left \in [Words -> SUBSET Bits]
<1>1. WordBits \in Nat \ {0}
  BY Sizes
<1>2. \A word \in SUBSET Bits : Shifted(word) \in SUBSET Bits
  BY <1>1 DEF Shifted, Bits
<1>3. 0 \in Bits
  BY <1>1 DEF Bits
<1>. QED BY <1>2, <1>3 DEF shift_left

\* A bit of the register enters the next place, across the words.
LEMMA ShiftMoves ==
    ASSUME bhr \in [Words -> SUBSET Bits], NEW i \in 1 .. HistoryBits - 1
    PROVE  i % WordBits \in shift_left[i \div WordBits + 1]
              <=> (i - 1) % WordBits \in bhr[(i - 1) \div WordBits + 1]
<1>. DEFINE q == i \div WordBits
            r == i % WordBits
            p == i - 1
<1>1. HistoryBits \in Nat \ {0} /\ WordBits \in Nat \ {0} /\ \E n \in Nat : Words = 1 .. n
  BY Sizes
<1>2. q + 1 \in Words /\ r \in 0 .. WordBits - 1 /\ q \in Nat
  <2>1. i \in 0 .. HistoryBits - 1 /\ i \in Nat
    BY <1>1
  <2>. QED BY <2>1, <1>1, BitInWord, DivisionType DEF Bits
<1>3. IF r > 0 THEN p \div WordBits = q /\ p % WordBits = r - 1
      ELSE q > 0 /\ p \div WordBits = q - 1 /\ p % WordBits = WordBits - 1
  BY BitBefore
<1>. HIDE DEF q, r, p
<1>4. shift_left[q + 1] = Shifted(bhr[q + 1]) \cup
          (IF q + 1 > 1 /\ WordBits - 1 \in bhr[q + 1 - 1] THEN {0} ELSE {})
  BY <1>2 DEF shift_left
<1>5. bhr[q + 1] \in SUBSET Bits
  BY <1>2
<1>6. CASE r > 0
  <2>1. r \in Shifted(bhr[q + 1]) <=> r - 1 \in bhr[q + 1]
    BY <1>1, <1>2, <1>5, <1>6 DEF Shifted, Bits
  <2>2. r \in shift_left[q + 1] <=> r - 1 \in bhr[q + 1]
    BY <2>1, <1>4, <1>6
  <2>. QED BY <2>2, <1>3, <1>6 DEF q, r, p
<1>7. CASE ~(r > 0)
  <2>1. r = 0 /\ q > 0 /\ p \div WordBits + 1 = q
    BY <1>2, <1>3, <1>7
  <2>2. r \notin Shifted(bhr[q + 1])
    BY <1>1, <1>5, <2>1 DEF Shifted, Bits
  <2>3. r \in shift_left[q + 1] <=> WordBits - 1 \in bhr[q]
    <3>1. q + 1 > 1 /\ q + 1 - 1 = q
      BY <2>1, <1>2
    <3>. QED BY <1>4, <2>1, <2>2, <3>1
  <2>. QED BY <2>1, <2>3, <1>3, <1>7 DEF q, r, p
<1>. QED BY <1>6, <1>7

LEMMA PrependNew ==
    ASSUME NEW s \in Seq(BOOLEAN), NEW b \in BOOLEAN
    PROVE  LET t == <<b>> \o s
           IN  /\ t \in Seq(BOOLEAN) /\ Len(t) = Len(s) + 1 /\ t[1] = b
               /\ \A j \in 1 .. Len(s) : t[j + 1] = s[j]
  OBVIOUS

\* The register follows the outcomes (update_bhr).
LEMMA HistoryStep ==
    ASSUME TypeOK, HistoryIsOutcomes, NEW taken \in BOOLEAN, update_bhr(taken),
           outcomes' = IF Len(outcomes) < HistoryBits THEN <<taken>> \o outcomes
                       ELSE <<taken>> \o Front(outcomes)
    PROVE  /\ bhr' \in [Words -> SUBSET Bits]
           /\ outcomes' \in Seq(BOOLEAN) /\ Len(outcomes') <= HistoryBits
           /\ HistoryIsOutcomes'
<1>1. /\ HistoryBits \in Nat \ {0} /\ WordBits \in Nat \ {0} /\ bhr \in [Words -> SUBSET Bits]
      /\ outcomes \in Seq(BOOLEAN) /\ Len(outcomes) <= HistoryBits
  BY Sizes DEF TypeOK
<1>2. 1 \in Words /\ 0 \in Bits
  <2>1. 0 \in 0 .. HistoryBits - 1 /\ 0 \div WordBits = 0 /\ 0 % WordBits = 0
    <3>1. 0 = WordBits * 0 + 0 /\ 0 \in 0 .. WordBits - 1
      BY <1>1
    <3>. QED BY <3>1, <1>1, DivisionUnique
  <2>2. 0 \div WordBits + 1 \in Words /\ 0 % WordBits \in Bits
    BY <2>1, BitInWord
  <2>. QED BY <2>1, <2>2
<1>3. shift_left \in [Words -> SUBSET Bits]
  BY <1>1, ShiftType
<1>4. bhr' = IF taken THEN [shift_left EXCEPT ![1] = shift_left[1] \cup {0}] ELSE shift_left
  BY DEF update_bhr
<1>5. bhr' \in [Words -> SUBSET Bits]
  BY <1>2, <1>3, <1>4
<1>6. /\ outcomes' \in Seq(BOOLEAN) /\ Len(outcomes') <= HistoryBits
      /\ Len(outcomes') >= 1 /\ outcomes'[1] = taken
      /\ \A i \in 1 .. HistoryBits - 1 :
            /\ i < Len(outcomes') <=> i - 1 < Len(outcomes)
            /\ i < Len(outcomes') => outcomes'[i + 1] = outcomes[i]
  <2>1. CASE Len(outcomes) < HistoryBits
    <3>1. outcomes' = <<taken>> \o outcomes
      BY <2>1
    <3>2. /\ Len(outcomes') = Len(outcomes) + 1 /\ outcomes' \in Seq(BOOLEAN)
          /\ outcomes'[1] = taken /\ \A j \in 1 .. Len(outcomes) : outcomes'[j + 1] = outcomes[j]
      <4>. DEFINE t == <<taken>> \o outcomes
      <4>1. /\ t \in Seq(BOOLEAN) /\ Len(t) = Len(outcomes) + 1 /\ t[1] = taken
            /\ \A j \in 1 .. Len(outcomes) : t[j + 1] = outcomes[j]
        BY <1>1, PrependNew
      <4>2. outcomes' = t
        BY <3>1
      <4>. HIDE DEF t
      <4>. QED BY <4>1, <4>2
    <3>. QED BY <3>2, <2>1, <1>1
  <2>2. CASE ~(Len(outcomes) < HistoryBits)
    <3>1. Len(outcomes) = HistoryBits /\ outcomes' = <<taken>> \o Front(outcomes)
      BY <2>2, <1>1
    <3>2. /\ Front(outcomes) \in Seq(BOOLEAN) /\ Len(Front(outcomes)) = HistoryBits - 1
          /\ \A j \in 1 .. HistoryBits - 1 : Front(outcomes)[j] = outcomes[j]
      BY <3>1, <1>1 DEF Front
    <3>3. /\ Len(outcomes') = Len(Front(outcomes)) + 1 /\ outcomes' \in Seq(BOOLEAN)
          /\ outcomes'[1] = taken
          /\ \A j \in 1 .. Len(Front(outcomes)) : outcomes'[j + 1] = Front(outcomes)[j]
      <4>. DEFINE s == Front(outcomes)
                  t == <<taken>> \o s
      <4>1. /\ t \in Seq(BOOLEAN) /\ Len(t) = Len(s) + 1 /\ t[1] = taken
            /\ \A j \in 1 .. Len(s) : t[j + 1] = s[j]
        BY <3>2, PrependNew
      <4>2. outcomes' = t
        BY <3>1
      <4>. HIDE DEF t
      <4>. QED BY <4>1, <4>2
    <3>. QED BY <3>1, <3>2, <3>3, <1>1
  <2>. QED BY <2>1, <2>2
<1>7. ASSUME NEW i \in 0 .. HistoryBits - 1
      PROVE  i % WordBits \in bhr'[i \div WordBits + 1]
                <=> (i < Len(outcomes') /\ outcomes'[i + 1])
  <2>1. CASE i = 0
    <3>1. 0 \div WordBits = 0 /\ 0 % WordBits = 0
      <4>1. 0 = WordBits * 0 + 0 /\ 0 \in 0 .. WordBits - 1
        BY <1>1
      <4>. QED BY <4>1, <1>1, DivisionUnique
    <3>2. 0 \notin shift_left[1]
      <4>1. 0 \notin Shifted(bhr[1])
        BY <1>1, <1>2 DEF Shifted, Bits
      <4>2. shift_left[1] = Shifted(bhr[1])
        BY <1>2 DEF shift_left
      <4>. QED BY <4>1, <4>2
    <3>3. 0 \in bhr'[1] <=> taken
      BY <1>2, <1>3, <1>4, <3>2
    <3>4. 0 < Len(outcomes') /\ outcomes'[0 + 1] = taken
      BY <1>6
    <3>. QED BY <2>1, <3>1, <3>3, <3>4
  <2>2. CASE i # 0
    <3>1. i \in 1 .. HistoryBits - 1 /\ i - 1 \in 0 .. HistoryBits - 1
      BY <2>2, <1>1
    <3>2. i % WordBits \in shift_left[i \div WordBits + 1]
             <=> (i - 1) % WordBits \in bhr[(i - 1) \div WordBits + 1]
      BY <3>1, <1>1, ShiftMoves
    <3>3. (i - 1) % WordBits \in bhr[(i - 1) \div WordBits + 1]
             <=> (i - 1 < Len(outcomes) /\ outcomes[i - 1 + 1])
      BY <3>1 DEF HistoryIsOutcomes
    <3>4. ~(i \div WordBits + 1 = 1 /\ i % WordBits = 0)
      <4>. i \in Nat
        BY <3>1, <1>1
      <4>1. i \div WordBits \in Nat /\ i = WordBits * (i \div WordBits) + (i % WordBits)
        BY <1>1, DivisionType
      <4>2. ASSUME i \div WordBits = 0 PROVE WordBits * (i \div WordBits) = 0
        BY <4>2, <1>1
      <4>. QED BY <4>1, <4>2, <2>2
    <3>5. i % WordBits \in bhr'[i \div WordBits + 1]
             <=> i % WordBits \in shift_left[i \div WordBits + 1]
      <4>1. i \div WordBits + 1 \in Words
        BY BitInWord
      <4>. DEFINE w == i \div WordBits + 1
                  b == i % WordBits
      <4>. HIDE DEF w, b
      <4>2. w \in Words /\ ~(w = 1 /\ b = 0)
        BY <4>1, <3>4 DEF w, b
      <4>3. b \in bhr'[w] <=> b \in shift_left[w]
        BY <4>2, <1>2, <1>3, <1>4
      <4>. QED BY <4>3 DEF w, b
    <3>6. i - 1 + 1 = i
      BY <3>1
    <3>. QED BY <3>1, <3>2, <3>3, <3>5, <3>6, <1>6
  <2>. QED BY <2>1, <2>2
<1>8. HistoryIsOutcomes'
  BY <1>7 DEF HistoryIsOutcomes
<1>. QED BY <1>5, <1>6, <1>8

-----------------------------------------------------------------------------
(* Class tage: provider, alternate, allocation.                            *)

\* An entry is free, or has the one tag that its slot can get; a free entry that
\* some branch would have to allocate has never been useful.
EntryOk(s, e) ==
    /\ e \in Entry
    /\ e.tag = 0 \/ e.tag = s % Tags
    /\ s % Tags # 0 /\ e.tag = 0 => e.useful = 0

EntriesOk ==
    /\ tables \in [Tables -> [SlotNumbers -> Entry]]
    /\ \A t \in Tables, s \in SlotNumbers : EntryOk(s, tables[t][s])

\* What a branch may do to an entry.
Kept(e, f) ==
    /\ f.useful >= e.useful
    /\ e.tag # 0 => f.tag = e.tag /\ f.pred - e.pred \in {-1, 0, 1}

LEMMA MinIsMember ==
    ASSUME NEW S \in SUBSET Nat, S # {}
    PROVE  Min(S) \in S
<1>. DEFINE less == {ss \in Nat \X Nat : ss[1] < ss[2]}
<1>1. less = OpToRel(<, Nat)
  BY Zenon DEF OpToRel
<1>2. IsWellFoundedOn(less, Nat)
  BY <1>1, NatLessThanWellFounded, Zenon
<1>3. PICK x \in S : \A y \in S : ~(<<y, x>> \in less)
  BY <1>2, WFMin, Zenon
<1>4. ASSUME NEW y \in S PROVE x <= y
  <2>1. <<y, x>> \in Nat \X Nat /\ ~(<<y, x>> \in less)
    BY <1>3
  <2>. QED BY <2>1
<1>. QED BY <1>4 DEF Min

LEMMA MaxIsMember ==
    ASSUME NEW n \in Nat, NEW S \in SUBSET (0 .. n), S # {}
    PROVE  Max(S) \in S /\ \A y \in S : y <= Max(S)
<1>. DEFINE T == {n - x : x \in S}
            less == {ss \in Nat \X Nat : ss[1] < ss[2]}
<1>1. T \subseteq Nat /\ T # {}
  <2>1. \A x \in S : x \in 0 .. n /\ n - x \in Nat
    OBVIOUS
  <2>. QED BY <2>1
<1>2. IsWellFoundedOn(less, Nat)
  <2>1. less = OpToRel(<, Nat)
    BY Zenon DEF OpToRel
  <2>. QED BY <2>1, NatLessThanWellFounded, Zenon
<1>. HIDE DEF T
<1>3. PICK d \in T : \A y \in T : ~(<<y, d>> \in less)
  BY <1>1, <1>2, WFMin, Zenon
<1>4. PICK x \in S : d = n - x
  BY DEF T
<1>5. ASSUME NEW y \in S PROVE x >= y
  <2>1. n - y \in T /\ n - y \in Nat /\ n - x \in Nat
    BY DEF T
  <2>2. ~(n - y < n - x)
    BY <2>1, <1>3, <1>4
  <2>. QED BY <2>2
<1>. QED BY <1>5 DEF Max

-----------------------------------------------------------------------------
(* Provider and alternate.                                                 *)

LEMMA ProviderIsLongest ==
    ASSUME NEW pc
    PROVE  /\ Provider(pc) \in Matching(pc) \cup {0}
           /\ \A t \in Matching(pc) : t <= Provider(pc)
           /\ Provider(pc) \in Nat
<1>1. PICK n \in Nat : Tables = 1 .. n
  BY Sizes
<1>2. Matching(pc) \cup {0} \in SUBSET (0 .. n) /\ Matching(pc) \cup {0} # {}
  BY <1>1 DEF Matching
<1>3. /\ Provider(pc) \in Matching(pc) \cup {0}
      /\ \A t \in Matching(pc) \cup {0} : t <= Provider(pc)
  BY <1>2, MaxIsMember, Zenon DEF Provider
<1>. QED BY <1>2, <1>3

LEMMA SlotType ==
    ASSUME TypeOK, NEW pc \in Pcs, NEW t \in Tables
    PROVE  /\ FullHash(pc, t) \in Nat
           /\ Slot(pc, t) \in SlotNumbers /\ Tag(pc, t) = Slot(pc, t) % Tags
<1>. DEFINE bits == IF TableLengths[t] > HistoryBits THEN HistoryBits ELSE TableLengths[t]
            last == (bits + WordBits - 1) \div WordBits
<1>1. bits \in 1 .. HistoryBits
  BY Sizes
<1>2. last \in Words
  BY <1>1, WordOfBit
<1>3. \E n \in Nat : Words = 1 .. n
  BY Sizes
<1>4. bhr \in [Words -> SUBSET Bits]
  BY DEF TypeOK
<1>5. Seen(t) = [w \in 1 .. last |-> IF w < last THEN bhr[w]
                                     ELSE bhr[w] \cap 0 .. (bits % WordBits) - 1]
  BY Zenon DEF Seen
<1>. HIDE DEF last, bits
<1>6. Seen(t) \in [1 .. last -> SUBSET Bits]
  <2>1. \A w \in 1 .. last : w \in Words
    BY <1>2, <1>3
  <2>2. \A w \in 1 .. last : bhr[w] \in SUBSET Bits
    BY <2>1, <1>4
  <2>. QED BY <2>2, <1>5
<1>7. FullHash(pc, t) \in Nat
  BY <1>2, <1>6, HashAssumption, Zenon DEF FullHash
<1>. QED BY <1>7, TagOfSlot DEF Slot, Tag

\* A table beyond the provider that does not know the branch has a free entry.
LEMMA UnknownIsFree ==
    ASSUME EntriesOk, TypeOK, NEW pc \in Pcs, NEW t \in Tables, t > Provider(pc)
    PROVE  LET e == tables[t][Slot(pc, t)]
           IN  e.tag = 0 /\ e.useful = 0 /\ Tag(pc, t) # 0
<1>. DEFINE s == Slot(pc, t)
            e == tables[t][s]
<1>1. s \in SlotNumbers /\ Tag(pc, t) = s % Tags
  BY SlotType
<1>2. EntryOk(s, e)
  BY <1>1 DEF EntriesOk
<1>3. t \in Nat /\ Provider(pc) \in Nat
  BY Sizes, ProviderIsLongest
<1>4. t \notin Matching(pc)
  BY <1>3, ProviderIsLongest
<1>5. e.tag # Tag(pc, t)
  BY <1>4 DEF Matching
<1>. QED BY <1>1, <1>2, <1>5 DEF EntryOk

LEMMA SomethingIsFree ==
    ASSUME EntriesOk, TypeOK, NEW pc \in Pcs, NEW t \in Tables, t > Provider(pc)
    PROVE  Allocated(pc) \in Free(pc) /\ Allocated(pc) # 0
<1>1. t \in Free(pc)
  BY UnknownIsFree DEF Free
<1>2. Free(pc) \subseteq Nat \ {0}
  BY Sizes DEF Free
<1>3. Min(Free(pc)) \in Free(pc)
  BY <1>1, <1>2, MinIsMember
<1>. QED BY <1>1, <1>2, <1>3 DEF Allocated

-----------------------------------------------------------------------------
(* Entries.                                                                *)

LEMMA TrainedType ==
    ASSUME NEW c \in Counter, NEW taken \in BOOLEAN
    PROVE  Trained(c, taken) \in Counter /\ Trained(c, taken) - c \in {-1, 0, 1}
  BY DEF Counter, Trained, Clamp

LEMMA ClampType ==
    ASSUME NEW c \in Counter, NEW n \in {0, 1}
    PROVE  Clamp(c + n) \in Counter /\ Clamp(c + n) >= c
  BY DEF Counter, Clamp

LEMMA NewEntryOk ==
    ASSUME EntriesOk, TypeOK, NEW pc \in Pcs, NEW prediction, NEW taken \in BOOLEAN, NEW t \in Tables
    PROVE  LET e == tables[t][Slot(pc, t)]
               f == NewEntry(pc, prediction, taken, t)
           IN  EntryOk(Slot(pc, t), f) /\ Kept(e, f)
<1>. DEFINE s == Slot(pc, t)
            e == tables[t][s]
            f == NewEntry(pc, prediction, taken, t)
            p == Provider(pc)
            correct == prediction = taken
            earned == IF correct /\ Says(pc, p) # Says(pc, Alternate(pc)) THEN 1 ELSE 0
<1>1. s \in SlotNumbers /\ Tag(pc, t) = s % Tags
  BY SlotType
<1>2. EntryOk(s, e)
  BY <1>1 DEF EntriesOk
<1>3. e \in Entry /\ e.pred \in Counter /\ e.useful \in Counter /\ e.tag \in 0 .. Tags - 1
  BY <1>2 DEF EntryOk, Entry
<1>4. p \in Matching(pc) \cup {0} /\ p \in Nat /\ t \in Nat \ {0}
  BY ProviderIsLongest, Sizes
<1>5. Kept(e, e)
  BY <1>3 DEF Kept, Counter
<1>6. CASE t = p
  <2>1. f = [e EXCEPT !.pred = Trained(e.pred, taken), !.useful = Clamp(e.useful + earned)]
    BY <1>6, Zenon DEF NewEntry
  <2>2. e.tag = s % Tags
    BY <1>1, <1>4, <1>6 DEF Matching
  <2>3. earned \in {0, 1}
    OBVIOUS
  <2>. HIDE DEF earned, e, f
  <2>4. /\ f \in Entry /\ f.tag = e.tag /\ f.useful = Clamp(e.useful + earned)
        /\ f.pred = Trained(e.pred, taken)
    BY <2>1, <2>3, <1>3, TrainedType, ClampType DEF Entry
  <2>5. f.useful >= e.useful /\ f.pred - e.pred \in {-1, 0, 1}
    BY <2>3, <2>4, <1>3, TrainedType, ClampType
  <2>. QED BY <2>2, <2>4, <2>5 DEF EntryOk, Kept, e, f
<1>7. CASE t # p /\ (correct \/ t < p)
  <2>1. f = e
    BY <1>7, Zenon DEF NewEntry
  <2>. QED BY <2>1, <1>2, <1>5
<1>8. CASE t # p /\ ~(correct \/ t < p)
  <2>1. t > p
    BY <1>4, <1>8
  <2>2. e.tag = 0 /\ e.useful = 0 /\ Tag(pc, t) # 0 /\ Allocated(pc) # 0
    BY <2>1, UnknownIsFree, SomethingIsFree
  <2>3. CASE t = Allocated(pc)
    <3>1. f = [e EXCEPT !.tag = Tag(pc, t), !.pred = 1]
      BY <1>8, <2>2, <2>3, Zenon DEF NewEntry
    <3>2. Tag(pc, t) \in 0 .. Tags - 1
      <4>1. FullHash(pc, t) \in Nat /\ Tags \in Nat \ {0}
        BY SlotType, TageAssumption
      <4>. QED BY <4>1 DEF Tag
    <3>. HIDE DEF e, f
    <3>3. f \in Entry /\ f.tag = Tag(pc, t) /\ f.useful = e.useful
      <4>1. 1 \in Counter
        BY DEF Counter
      <4>2. e \in [pred : Counter, useful : Counter, tag : 0 .. Tags - 1]
        BY <1>3 DEF Entry
      <4>. QED BY <3>1, <3>2, <4>1, <4>2 DEF Entry
    <3>. QED BY <3>3, <1>1, <1>3, <2>2 DEF EntryOk, Kept, Counter, e, f
  <2>4. CASE t # Allocated(pc)
    <3>1. f = e
      BY <1>8, <2>2, <2>4, Zenon DEF NewEntry
    <3>. QED BY <3>1, <1>2, <1>5
  <2>. QED BY <2>3, <2>4
<1>. QED BY <1>6, <1>7, <1>8

\* One branch: the entries stay good and are kept, in the slot of the branch and
\* in the others.
LEMMA UpdateOk ==
    ASSUME EntriesOk, TypeOK, NEW pc \in Pcs, NEW prediction, NEW taken \in BOOLEAN,
           update_(pc, prediction, taken)
    PROVE  /\ EntriesOk'
           /\ \A t \in Tables, s \in SlotNumbers : Kept(tables[t][s], tables'[t][s])
<1>1. tables' = [t \in Tables |->
          [tables[t] EXCEPT ![Slot(pc, t)] = NewEntry(pc, prediction, taken, t)]]
  BY Zenon DEF update_
<1>2. ASSUME NEW t \in Tables
      PROVE  /\ tables'[t] \in [SlotNumbers -> Entry]
             /\ \A s \in SlotNumbers :
                   EntryOk(s, tables'[t][s]) /\ Kept(tables[t][s], tables'[t][s])
  <2>. DEFINE f == NewEntry(pc, prediction, taken, t)
  <2>1. tables'[t] = [tables[t] EXCEPT ![Slot(pc, t)] = f]
    BY <1>1
  <2>2. EntryOk(Slot(pc, t), f) /\ Kept(tables[t][Slot(pc, t)], f) /\ f \in Entry
    BY NewEntryOk DEF EntryOk
  <2>3. Slot(pc, t) \in SlotNumbers /\ tables[t] \in [SlotNumbers -> Entry]
    BY SlotType DEF EntriesOk
  <2>. HIDE DEF f
  <2>4. ASSUME NEW s \in SlotNumbers
        PROVE  EntryOk(s, tables'[t][s]) /\ Kept(tables[t][s], tables'[t][s])
    <3>1. CASE s = Slot(pc, t)
      BY <3>1, <2>1, <2>2, <2>3
    <3>2. CASE s # Slot(pc, t)
      <4>1. tables'[t][s] = tables[t][s] /\ EntryOk(s, tables[t][s])
        BY <3>2, <2>1, <2>3 DEF EntriesOk
      <4>. QED BY <4>1 DEF Kept, EntryOk, Entry, Counter
    <3>. QED BY <3>1, <3>2
  <2>. QED BY <2>1, <2>2, <2>3, <2>4
<1>3. tables' \in [Tables -> [SlotNumbers -> Entry]]
  BY <1>1, <1>2
<1>. QED BY <1>2, <1>3 DEF EntriesOk

-----------------------------------------------------------------------------
(* Class tage: the invariant.                                              *)

\* No counter is ahead of the number of branches.
CountsOk == \A t \in Sources : used[t] <= n_branches /\ right[t] <= n_branches

TageInv == TypeOK /\ EntriesOk /\ HistoryIsOutcomes /\ CountsOk

LEMMA CountStep ==
    ASSUME TypeOK, CountsOk, NEW p \in Sources, NEW correct \in BOOLEAN,
           n_branches < MaxBranches, Count(p, correct)
    PROVE  /\ used' \in [Sources -> 0 .. MaxBranches] /\ right' \in [Sources -> 0 .. MaxBranches]
           /\ n_branches' \in 0 .. MaxBranches /\ n_mispredicts' \in 0 .. n_branches'
           /\ CountsOk'
<1>1. MaxBranches \in Nat
  BY TageAssumption
<1>2. /\ used \in [Sources -> 0 .. MaxBranches] /\ right \in [Sources -> 0 .. MaxBranches]
      /\ n_branches \in 0 .. MaxBranches /\ n_mispredicts \in 0 .. n_branches
  BY DEF TypeOK
<1>3. /\ used' = [used EXCEPT ![p] = used[p] + 1]
      /\ right' = IF correct THEN [right EXCEPT ![p] = right[p] + 1] ELSE right
      /\ n_branches' = n_branches + 1
      /\ n_mispredicts' = IF correct THEN n_mispredicts ELSE n_mispredicts + 1
  BY DEF Count
<1>4. n_branches' \in 0 .. MaxBranches /\ n_mispredicts' \in 0 .. n_branches'
  BY <1>1, <1>2, <1>3
<1>5. ASSUME NEW t \in Sources
      PROVE  /\ used'[t] \in 0 .. n_branches' /\ used'[t] <= MaxBranches
             /\ right'[t] \in 0 .. n_branches' /\ right'[t] <= MaxBranches
  <2>1. /\ used[t] \in 0 .. MaxBranches /\ right[t] \in 0 .. MaxBranches
        /\ used[t] <= n_branches /\ right[t] <= n_branches
    BY <1>2 DEF CountsOk
  <2>2. used'[t] \in {used[t], used[t] + 1} /\ right'[t] \in {right[t], right[t] + 1}
    <3>1. used'[t] = IF t = p THEN used[p] + 1 ELSE used[t]
      BY <1>2, <1>3
    <3>2. right'[t] = IF correct /\ t = p THEN right[p] + 1 ELSE right[t]
      BY <1>2, <1>3
    <3>. QED BY <3>1, <3>2
  <2>. QED BY <2>1, <2>2, <1>1, <1>2, <1>3
<1>6. used' = [t \in Sources |-> used'[t]] /\ right' = [t \in Sources |-> right'[t]]
  BY <1>2, <1>3
<1>7. \A t \in Sources : used'[t] \in 0 .. MaxBranches /\ right'[t] \in 0 .. MaxBranches
  BY <1>1, <1>4, <1>5
<1>8. used' \in [Sources -> 0 .. MaxBranches] /\ right' \in [Sources -> 0 .. MaxBranches]
  BY <1>6, <1>7
<1>9. CountsOk'
  BY <1>4, <1>5 DEF CountsOk
<1>. QED BY <1>4, <1>8, <1>9

LEMMA UpdateKeepsInv ==
    ASSUME TageInv, NEW pc \in Pcs, NEW prediction, NEW taken \in BOOLEAN,
           update(pc, prediction, taken)
    PROVE  TageInv' /\ \A t \in Tables, s \in SlotNumbers : Kept(tables[t][s], tables'[t][s])
<1>1. TypeOK /\ EntriesOk /\ HistoryIsOutcomes /\ CountsOk
  BY DEF TageInv
<1>2. /\ n_branches < MaxBranches /\ update_(pc, prediction, taken) /\ update_bhr(taken)
      /\ outcomes' = IF Len(outcomes) < HistoryBits THEN <<taken>> \o outcomes
                     ELSE <<taken>> \o Front(outcomes)
  BY DEF update
<1>3. EntriesOk' /\ \A t \in Tables, s \in SlotNumbers : Kept(tables[t][s], tables'[t][s])
  BY <1>1, <1>2, UpdateOk
<1>4. /\ bhr' \in [Words -> SUBSET Bits]
      /\ outcomes' \in Seq(BOOLEAN) /\ Len(outcomes') <= HistoryBits
      /\ HistoryIsOutcomes'
  BY <1>1, <1>2, HistoryStep
<1>5. /\ used' \in [Sources -> 0 .. MaxBranches] /\ right' \in [Sources -> 0 .. MaxBranches]
      /\ n_branches' \in 0 .. MaxBranches /\ n_mispredicts' \in 0 .. n_branches'
      /\ CountsOk'
  <2>1. Provider(pc) \in Sources
    BY ProviderIsLongest DEF Matching, Sources
  <2>2. (prediction = taken) \in BOOLEAN /\ Count(Provider(pc), prediction = taken)
    BY <1>2 DEF update_
  <2>. DEFINE correct == prediction = taken
  <2>3. correct \in BOOLEAN /\ Count(Provider(pc), correct)
    BY <2>2
  <2>. HIDE DEF correct
  <2>. QED BY <2>1, <2>3, <1>1, <1>2, CountStep
<1>6. pht' \in Counter
  <2>1. pht \in Counter /\ pht' = IF Provider(pc) = 0 THEN Trained(pht, taken) ELSE pht
    BY <1>1, <1>2 DEF TypeOK, update_
  <2>. QED BY <2>1, TrainedType
<1>7. TypeOK'
  BY <1>3, <1>4, <1>5, <1>6 DEF TypeOK, EntriesOk, SlotNumbers
<1>. QED BY <1>3, <1>4, <1>5, <1>7 DEF TageInv

LEMMA InitOk == Init => TageInv
<1>. SUFFICES ASSUME Init PROVE TageInv
  OBVIOUS
<1>1. /\ HistoryBits \in Nat \ {0} /\ MaxBranches \in Nat /\ Tags \in Nat \ {0}
  BY Sizes, TageAssumption
<1>2. Cleared \in Entry /\ Cleared.tag = 0 /\ Cleared.useful = 0
  BY <1>1 DEF Cleared, Entry, Counter
<1>3. EntriesOk
  BY <1>2 DEF Init, EntriesOk, EntryOk, SlotNumbers
<1>4. outcomes \in Seq(BOOLEAN) /\ Len(outcomes) = 0
  BY DEF Init
<1>5. TypeOK
  <2>1. bhr \in [Words -> SUBSET Bits]
    BY DEF Init
  <2>2. used \in [Sources -> 0 .. MaxBranches] /\ right \in [Sources -> 0 .. MaxBranches]
    BY <1>1 DEF Init
  <2>3. pht \in Counter /\ n_branches \in 0 .. MaxBranches /\ n_mispredicts \in 0 .. n_branches
    BY <1>1 DEF Init, Counter
  <2>. QED BY <2>1, <2>2, <2>3, <1>1, <1>3, <1>4 DEF TypeOK, EntriesOk, SlotNumbers
<1>6. HistoryIsOutcomes
  <2>1. ASSUME NEW i \in 0 .. HistoryBits - 1
        PROVE  bhr[i \div WordBits + 1] = {} /\ ~(i < Len(outcomes))
    <3>1. i \div WordBits + 1 \in Words
      BY BitInWord
    <3>. QED BY <3>1, <1>4 DEF Init
  <2>. QED BY <2>1 DEF HistoryIsOutcomes
<1>7. CountsOk
  BY DEF Init, CountsOk
<1>. QED BY <1>3, <1>5, <1>6, <1>7 DEF TageInv

LEMMA TageStep ==
    TageInv /\ [Next]_vars =>
        TageInv' /\ [\A t \in Tables, s \in SlotNumbers : Kept(tables[t][s], tables'[t][s])]_vars
<1>. SUFFICES ASSUME TageInv, [Next]_vars
              PROVE  /\ TageInv'
                     /\ [\A t \in Tables, s \in SlotNumbers :
                            Kept(tables[t][s], tables'[t][s])]_vars
  OBVIOUS
<1>1. CASE Conditional
  <2>1. PICK pc \in Pcs, taken \in BOOLEAN : update(pc, Says(pc, Provider(pc)), taken)
    BY <1>1 DEF Conditional
  <2>. QED BY <2>1, UpdateKeepsInv
<1>2. CASE Jump
  <2>1. PICK pc \in Pcs : update(pc, TRUE, TRUE)
    BY <1>2 DEF Jump
  <2>. QED BY <2>1, UpdateKeepsInv
<1>3. CASE UNCHANGED vars
  <2>1. UNCHANGED <<bhr, tables, pht, used, right, n_branches, n_mispredicts, outcomes>>
    BY <1>3 DEF vars
  <2>2. TypeOK' /\ EntriesOk' /\ HistoryIsOutcomes' /\ CountsOk'
    <3>1. TypeOK /\ EntriesOk /\ HistoryIsOutcomes /\ CountsOk
      BY DEF TageInv
    <3>. QED BY <2>1, <3>1 DEF TypeOK, EntriesOk, HistoryIsOutcomes, CountsOk
  <2>. QED BY <2>2, <1>3 DEF TageInv
<1>. QED BY <1>1, <1>2, <1>3 DEF Next

-----------------------------------------------------------------------------
(* Class gem5_tage.                                                        *)

Least(m, n) == IF m <= n THEN m ELSE n

\* The two bits of the bimodal counter of a branch.
Bimodal(pc) ==
    (IF btable[G!bindex(pc)] THEN 2 ELSE 0)
        + (IF hysteresis[G!Group(G!bindex(pc))] THEN 1 ELSE 0)

\* How often a branch may have been mispredicted in one direction: as often as
\* its counter was moved that way, up to where nothing can outvote it.
MayMiss(pc, taken) ==
    LET c == G!At(pc, G!hitBank(pc)).ctr
    IN  IF G!hitBank(pc) # 0 THEN Least(IF taken THEN c + 4 ELSE 3 - c, G!LearningBound)
        ELSE Least(IF taken THEN Bimodal(pc) ELSE 3 - Bimodal(pc), 2)

Gem5Inv == G!TypeOK /\ streak.wrong <= MayMiss(streak.pc, streak.taken)

LEMMA BanksType == \E n \in Nat : G!Banks = 1 .. n
<1>1. TagWidths \in Seq(Nat)
  BY Gem5Assumption
<1>2. Len(TagWidths) \in Nat /\ DOMAIN TagWidths = 1 .. Len(TagWidths)
  BY <1>1
<1>. QED BY <1>2 DEF G!Banks

LEMMA HitType ==
    ASSUME NEW pc
    PROVE  G!hitBank(pc) \in G!Banks \cup {0}
<1>1. PICK n \in Nat : G!Banks = 1 .. n
  BY BanksType
<1>2. G!Hits(pc) \in SUBSET (0 .. n) /\ G!Hits(pc) # {}
  BY <1>1 DEF G!Hits
<1>3. Max(G!Hits(pc)) \in G!Hits(pc)
  BY <1>2, MaxIsMember
<1>4. G!Hits(pc) \subseteq G!Banks \cup {0}
  BY Zenon DEF G!Hits
<1>5. G!hitBank(pc) = Max(G!Hits(pc))
  BY Zenon DEF G!hitBank, G!Max, Max
<1>. QED BY <1>3, <1>4, <1>5

LEMMA PlaceType ==
    ASSUME NEW pc, NEW b
    PROVE  G!gindex(pc, b) \in G!Places
  BY Zenon DEF G!gindex, G!Places

LEMMA BimodalType ==
    ASSUME G!TypeOK, NEW pc
    PROVE  /\ G!bindex(pc) \in G!Bimodals /\ G!Group(G!bindex(pc)) \in G!Groups
           /\ Bimodal(pc) \in 0 .. 3
<1>1. LogBimodal \in Nat /\ LogRatio \in Nat
  BY Gem5Assumption
<1>2. G!bindex(pc) \in G!Bimodals
  BY Zenon DEF G!bindex, G!Bimodals
<1>3. G!Group(G!bindex(pc)) \in G!Groups
  <2>1. ASSUME NEW i \in G!Group(G!bindex(pc))
        PROVE  i \in LogRatio .. LogBimodal - 1
    <3>1. i \in 0 .. LogBimodal - 1 /\ ~(i \in 0 .. LogRatio - 1)
      BY <1>2, Zenon DEF G!Group, G!Bimodals
    <3>. QED BY <3>1, <1>1
  <2>. QED BY <2>1 DEF G!Groups
<1>4. Bimodal(pc) \in 0 .. 3
  BY DEF Bimodal
<1>. QED BY <1>2, <1>3, <1>4

LEMMA CounterSteps ==
    ASSUME NEW c \in -4 .. 3, NEW taken \in BOOLEAN
    PROVE  /\ G!ctrUpdate(c, taken) \in -4 .. 3
           /\ G!ctrUpdate(c, TRUE) = IF c < 3 THEN c + 1 ELSE c
           /\ G!ctrUpdate(c, FALSE) = IF c > -4 THEN c - 1 ELSE c
  BY DEF G!ctrUpdate

\* The entry that a branch leaves in a bank.
LEMMA EntryStep ==
    ASSUME G!TypeOK, NEW pc, NEW taken \in BOOLEAN, G!handleTAGEUpdate(pc, taken)
    PROVE  /\ gtable' \in [G!Banks -> [G!Places -> G!Entry]]
           /\ \A b \in G!Banks, i \in G!Places : gtable'[b][i].tag = gtable[b][i].tag
           /\ G!hitBank(pc) # 0 =>
                 gtable'[G!hitBank(pc)][G!gindex(pc, G!hitBank(pc))].ctr
                     = G!ctrUpdate(G!At(pc, G!hitBank(pc)).ctr, taken)
<1>. DEFINE hit == G!hitBank(pc)
            new(b) == G!NewEntry(pc, taken, b)
            e(b) == G!At(pc, b)
<1>1. gtable \in [G!Banks -> [G!Places -> G!Entry]]
  BY DEF G!TypeOK
<1>2. gtable' = [b \in G!Banks |-> [gtable[b] EXCEPT ![G!gindex(pc, b)] = new(b)]]
  BY DEF G!handleTAGEUpdate
<1>3. ASSUME NEW b \in G!Banks
      PROVE  /\ new(b) \in G!Entry /\ new(b).tag = e(b).tag
             /\ b = hit => new(b).ctr = G!ctrUpdate(e(b).ctr, taken)
  <2>. DEFINE trained == [e(b) EXCEPT !.ctr = G!ctrUpdate(e(b).ctr, taken)]
              up == G!tagePred(pc) = taken
              useful == [trained EXCEPT !.u = G!unsignedCtrUpdate(trained.u, up)]
  <2>1. e(b) \in G!Entry
    BY <1>1, PlaceType DEF G!At
  <2>2. /\ new(b) \in {trained, useful, e(b)}
        /\ b = hit => new(b) \in {trained, useful}
    BY Zenon DEF G!NewEntry
  <2>. HIDE DEF e, new, up
  <2>3. trained \in G!Entry /\ trained.tag = e(b).tag /\ trained.ctr = G!ctrUpdate(e(b).ctr, taken)
    <3>1. e(b).ctr \in -4 .. 3
      BY <2>1 DEF G!Entry
    <3>2. G!ctrUpdate(e(b).ctr, taken) \in -4 .. 3
      BY <3>1, CounterSteps
    <3>. QED BY <2>1, <3>2 DEF G!Entry
  <2>. HIDE DEF trained
  <2>4. useful \in G!Entry /\ useful.tag = trained.tag /\ useful.ctr = trained.ctr
    <3>1. trained.u \in 0 .. 3
      BY <2>3 DEF G!Entry
    <3>2. G!unsignedCtrUpdate(trained.u, up) \in 0 .. 3
      BY <3>1 DEF G!unsignedCtrUpdate
    <3>. QED BY <2>3, <3>2 DEF G!Entry
  <2>. HIDE DEF useful
  <2>. QED BY <2>1, <2>2, <2>3, <2>4
<1>. HIDE DEF new, hit
<1>4. ASSUME NEW b \in G!Banks
      PROVE  /\ gtable'[b] \in [G!Places -> G!Entry]
             /\ gtable'[b][G!gindex(pc, b)] = new(b)
             /\ \A i \in G!Places : gtable'[b][i].tag = gtable[b][i].tag
  <2>1. gtable'[b] = [gtable[b] EXCEPT ![G!gindex(pc, b)] = new(b)]
    BY <1>2
  <2>2. G!gindex(pc, b) \in G!Places /\ gtable[b] \in [G!Places -> G!Entry]
    BY <1>1, PlaceType
  <2>3. new(b) \in G!Entry /\ new(b).tag = gtable[b][G!gindex(pc, b)].tag
    BY <1>3 DEF G!At
  <2>. QED BY <2>1, <2>2, <2>3
<1>5. gtable' \in [G!Banks -> [G!Places -> G!Entry]]
  BY <1>2, <1>4
<1>6. hit # 0 => hit \in G!Banks
  BY HitType DEF hit
<1>. QED BY <1>3, <1>4, <1>5, <1>6 DEF hit, G!At

\* Tags stay, so a branch keeps its bank.
LEMMA HitStays ==
    ASSUME NEW q, \A b \in G!Banks, i \in G!Places : gtable'[b][i].tag = gtable[b][i].tag
    PROVE  G!hitBank(q)' = G!hitBank(q)
<1>1. G!Hits(q)' = G!Hits(q)
  <2>1. \A b \in G!Banks : gtable'[b][G!gindex(q, b)].tag = gtable[b][G!gindex(q, b)].tag
    BY PlaceType
  <2>. QED BY <2>1 DEF G!Hits, G!At
<1>. QED BY <1>1 DEF G!hitBank, G!Max

LEMMA BimodalStep ==
    ASSUME G!TypeOK, NEW pc, NEW taken \in BOOLEAN, G!handleTAGEUpdate(pc, taken)
    PROVE  /\ btable' \in [G!Bimodals -> BOOLEAN] /\ hysteresis' \in [G!Groups -> BOOLEAN]
           /\ G!hitBank(pc) = 0 =>
                 Bimodal(pc)' = IF taken THEN Least(Bimodal(pc) + 1, 3)
                                ELSE IF Bimodal(pc) > 0 THEN Bimodal(pc) - 1 ELSE 0
<1>. DEFINE i == G!bindex(pc)
            g == G!Group(i)
            n == Bimodal(pc)
            m == IF taken THEN (IF n < 3 THEN n + 1 ELSE n) ELSE (IF n > 0 THEN n - 1 ELSE n)
<1>1. btable \in [G!Bimodals -> BOOLEAN] /\ hysteresis \in [G!Groups -> BOOLEAN]
  BY DEF G!TypeOK
<1>2. i \in G!Bimodals /\ g \in G!Groups /\ n \in 0 .. 3
  BY BimodalType
<1>3. \/ /\ btable' = [btable EXCEPT ![i] = m >= 2]
         /\ hysteresis' = [hysteresis EXCEPT ![g] = m % 2 = 1]
      \/ G!hitBank(pc) # 0 /\ UNCHANGED <<btable, hysteresis>>
  BY Zenon DEF G!handleTAGEUpdate, G!baseUpdate, Bimodal
<1>. HIDE DEF i, g, n
<1>4. m \in 0 .. 3
  BY <1>2
<1>5. CASE /\ btable' = [btable EXCEPT ![i] = m >= 2]
           /\ hysteresis' = [hysteresis EXCEPT ![g] = m % 2 = 1]
  <2>1. btable'[i] = (m >= 2) /\ hysteresis'[g] = (m % 2 = 1)
    BY <1>1, <1>2, <1>5, Zenon
  <2>2. btable' \in [G!Bimodals -> BOOLEAN] /\ hysteresis' \in [G!Groups -> BOOLEAN]
    <3>1. (m >= 2) \in BOOLEAN /\ (m % 2 = 1) \in BOOLEAN
      BY <1>4
    <3>. HIDE DEF m
    <3>. QED BY <1>1, <1>2, <1>5, <3>1
  <2>3. Bimodal(pc)' = (IF btable'[i] THEN 2 ELSE 0) + (IF hysteresis'[g] THEN 1 ELSE 0)
    BY DEF Bimodal, i, g
  <2>4. Bimodal(pc)' = m
    <3>1. m \in {0, 1, 2, 3}
      BY <1>4
    <3>. HIDE DEF m
    <3>2. Bimodal(pc)' = (IF m >= 2 THEN 2 ELSE 0) + (IF m % 2 = 1 THEN 1 ELSE 0)
      BY <2>1, <2>3, Zenon
    <3>. QED BY <3>1, <3>2
  <2>. QED BY <2>2, <2>4, <1>2 DEF Least, n
<1>6. CASE G!hitBank(pc) # 0 /\ UNCHANGED <<btable, hysteresis>>
  BY <1>1, <1>6
<1>. QED BY <1>3, <1>5, <1>6

LEMMA Gem5UpdateKeepsInv ==
    ASSUME Gem5Inv, NEW pc \in Pcs, NEW prediction, NEW taken \in BOOLEAN,
           prediction = G!tagePred(pc) \/ prediction = taken,
           G!update_(pc, prediction, taken)
    PROVE  Gem5Inv'
<1>. DEFINE missed == IF prediction # taken THEN 1 ELSE 0
            hit == G!hitBank(pc)
            c == G!At(pc, hit).ctr
            d == gtable'[hit][G!gindex(pc, hit)].ctr
            n == Bimodal(pc)
            may == MayMiss(pc, taken)
<1>1. G!TypeOK /\ streak.wrong <= MayMiss(streak.pc, streak.taken)
  BY DEF Gem5Inv
<1>2. /\ G!handleTAGEUpdate(pc, taken)
      /\ streak' = [pc |-> pc, taken |-> taken,
             wrong |-> (IF streak.pc = pc /\ streak.taken = taken THEN streak.wrong ELSE 0) + missed]
  BY DEF G!update_
<1>3. /\ gtable' \in [G!Banks -> [G!Places -> G!Entry]]
      /\ \A b \in G!Banks, i \in G!Places : gtable'[b][i].tag = gtable[b][i].tag
      /\ hit # 0 => d = G!ctrUpdate(c, taken)
  BY <1>1, <1>2, EntryStep
<1>4. /\ btable' \in [G!Bimodals -> BOOLEAN] /\ hysteresis' \in [G!Groups -> BOOLEAN]
      /\ hit = 0 => Bimodal(pc)' = IF taken THEN Least(n + 1, 3)
                                   ELSE IF n > 0 THEN n - 1 ELSE 0
  BY <1>1, <1>2, BimodalStep
<1>5. /\ streak'.pc = pc /\ streak'.taken = taken
      /\ streak'.wrong = (IF streak.pc = pc /\ streak.taken = taken THEN streak.wrong ELSE 0) + missed
  BY <1>2
<1>6. G!TypeOK'
  <2>1. streak'.pc \in Nat /\ streak'.taken \in BOOLEAN
    BY <1>5, Gem5Assumption
  <2>2. streak'.wrong \in Nat
    BY <1>1, <1>5 DEF G!TypeOK
  <2>. QED BY <2>1, <2>2, <1>3, <1>4 DEF G!TypeOK
<1>7. hit = 0 \/ c \in -4 .. 3
  <2>. SUFFICES ASSUME hit # 0 PROVE c \in -4 .. 3
    OBVIOUS
  <2>1. hit \in G!Banks
    BY HitType
  <2>2. G!At(pc, hit) \in G!Entry
    BY <2>1, <1>1, PlaceType DEF G!TypeOK, G!At
  <2>. QED BY <2>2 DEF G!Entry
<1>8. n \in 0 .. 3
  BY <1>1, BimodalType
<1>9. MayMiss(pc, taken)' = IF hit # 0 THEN Least(IF taken THEN d + 4 ELSE 3 - d, 5)
                            ELSE Least(IF taken THEN Bimodal(pc)' ELSE 3 - Bimodal(pc)', 2)
  <2>1. G!hitBank(pc)' = hit
    BY <1>3, HitStays
  <2>2. G!At(pc, G!hitBank(pc))' = gtable'[hit][G!gindex(pc, hit)]
    BY <2>1 DEF G!At
  <2>3. MayMiss(pc, taken)' =
            IF G!hitBank(pc)' # 0
            THEN Least(IF taken THEN G!At(pc, G!hitBank(pc))'.ctr + 4
                       ELSE 3 - G!At(pc, G!hitBank(pc))'.ctr, 5)
            ELSE Least(IF taken THEN Bimodal(pc)' ELSE 3 - Bimodal(pc)', 2)
    BY DEF MayMiss, G!LearningBound
  <2>. QED BY <2>1, <2>2, <2>3
<1>10. may = IF hit # 0 THEN Least(IF taken THEN c + 4 ELSE 3 - c, 5)
             ELSE Least(IF taken THEN n ELSE 3 - n, 2)
  BY DEF MayMiss, G!LearningBound
<1>11. prediction = taken \/ prediction = G!Says(pc, hit) \/ (hit # 0 /\ c \in {-1, 0})
  BY DEF G!tagePred, G!pseudoNewAlloc
<1>12. hit # 0 => G!Says(pc, hit) = (c >= 0)
  BY DEF G!Says
<1>13. hit = 0 => G!Says(pc, hit) = (n >= 2)
  <2>. SUFFICES ASSUME hit = 0 PROVE G!Says(pc, hit) = (n >= 2)
    OBVIOUS
  <2>1. G!Says(pc, hit) = btable[G!bindex(pc)]
    BY DEF G!Says
  <2>2. btable[G!bindex(pc)] \in BOOLEAN
    BY <1>1, BimodalType DEF G!TypeOK
  <2>3. btable[G!bindex(pc)] <=> n >= 2
    BY DEF Bimodal
  <2>. QED BY <2>1, <2>2, <2>3
<1>. HIDE DEF missed, hit, c, d, n, may
<1>14. may >= 0 /\ may + missed <= MayMiss(pc, taken)'
  <2>1. CASE hit # 0
    <3>1. d = IF taken THEN (IF c < 3 THEN c + 1 ELSE c) ELSE (IF c > -4 THEN c - 1 ELSE c)
      BY <2>1, <1>3, <1>7, CounterSteps
    <3>2. missed = 1 => IF taken THEN c <= 0 ELSE c >= -1
      <4>1. CASE prediction = taken
        BY <4>1 DEF missed
      <4>2. CASE prediction = G!Says(pc, hit)
        BY <4>2, <2>1, <1>7, <1>12 DEF missed
      <4>3. CASE c \in {-1, 0}
        BY <4>3
      <4>. QED BY <4>1, <4>2, <4>3, <1>11
    <3>3. missed \in {0, 1}
      BY DEF missed
    <3>. QED BY <2>1, <3>1, <3>2, <3>3, <1>7, <1>9, <1>10 DEF Least
  <2>2. CASE hit = 0
    <3>2. missed = 1 => IF taken THEN n <= 1 ELSE n >= 2
      BY <2>2, <1>8, <1>11, <1>13 DEF missed
    <3>3. missed \in {0, 1}
      BY DEF missed
    <3>. QED BY <2>2, <3>2, <3>3, <1>4, <1>8, <1>9, <1>10 DEF Least
  <2>. QED BY <2>1, <2>2
<1>15. (IF streak.pc = pc /\ streak.taken = taken THEN streak.wrong ELSE 0) <= may
  BY <1>1, <1>14 DEF may
<1>16. streak'.wrong <= MayMiss(pc, taken)'
  <2>1. missed \in {0, 1} /\ streak.wrong \in Nat
    BY <1>1 DEF missed, G!TypeOK
  <2>2. may \in Int /\ MayMiss(pc, taken)' \in Int
    <3>1. hit # 0 => d \in Int
      <4>1. ASSUME hit # 0 PROVE c \in -4 .. 3 /\ d = G!ctrUpdate(c, taken)
        BY <4>1, <1>3, <1>7
      <4>2. ASSUME c \in -4 .. 3 PROVE G!ctrUpdate(c, taken) \in Int
        <5>1. G!ctrUpdate(c, taken) \in -4 .. 3
          BY <4>2, CounterSteps
        <5>. QED BY <5>1
      <4>. QED BY <4>1, <4>2
    <3>2. hit = 0 => Bimodal(pc)' \in Int
      BY <1>4, <1>8 DEF Least
    <3>. QED BY <3>1, <3>2, <1>7, <1>8, <1>9, <1>10 DEF Least
  <2>. QED BY <2>1, <2>2, <1>5, <1>14, <1>15
<1>17. MayMiss(streak.pc, streak.taken)' = MayMiss(pc, taken)'
  BY <1>5 DEF MayMiss, G!At, G!hitBank, G!Hits, G!gindex, Bimodal
<1>. QED BY <1>6, <1>16, <1>17 DEF Gem5Inv

LEMMA Gem5InitOk == G!Init => Gem5Inv
<1>. SUFFICES ASSUME G!Init PROVE Gem5Inv
  OBVIOUS
<1>1. G!TypeOK
  BY DEF G!Init, G!TypeOK, G!Entry
<1>2. streak.pc = 0 /\ streak.taken = FALSE /\ streak.wrong = 0
  BY DEF G!Init
<1>3. 0 <= MayMiss(streak.pc, FALSE)
  <2>. DEFINE pc == streak.pc
              hit == G!hitBank(pc)
  <2>1. ASSUME hit # 0 PROVE G!At(pc, hit).ctr \in -4 .. 3
    <3>1. hit \in G!Banks
      BY <2>1, HitType
    <3>2. G!At(pc, hit) \in G!Entry
      BY <3>1, <1>1, PlaceType DEF G!TypeOK, G!At
    <3>. QED BY <3>2 DEF G!Entry
  <2>2. Bimodal(pc) \in 0 .. 3
    BY <1>1, BimodalType
  <2>. HIDE DEF pc
  <2>3. 0 <= MayMiss(pc, FALSE)
    BY <2>1, <2>2 DEF MayMiss, Least, G!LearningBound
  <2>. QED BY <2>3 DEF pc
<1>. QED BY <1>1, <1>2, <1>3 DEF Gem5Inv

LEMMA Gem5Step == Gem5Inv /\ G!Next => Gem5Inv'
<1>. SUFFICES ASSUME Gem5Inv, G!Next PROVE Gem5Inv'
  OBVIOUS
<1>1. CASE G!Conditional
  <2>1. PICK pc \in Pcs, taken \in BOOLEAN : G!update_(pc, G!tagePred(pc), taken)
    BY <1>1 DEF G!Conditional
  <2>. QED BY <2>1, Gem5UpdateKeepsInv
<1>2. CASE G!Jump
  <2>1. PICK pc \in Pcs : G!update_(pc, TRUE, TRUE)
    BY <1>2 DEF G!Jump
  <2>. QED BY <2>1, Gem5UpdateKeepsInv
<1>. QED BY <1>1, <1>2 DEF G!Next

LEMMA Gem5Learns == Gem5Inv => G!BranchesLearn
<1>. SUFFICES ASSUME Gem5Inv PROVE G!BranchesLearn
  OBVIOUS
<1>. DEFINE may == MayMiss(streak.pc, streak.taken)
<1>1. streak.wrong \in Nat /\ streak.wrong <= may
  BY DEF Gem5Inv, G!TypeOK
<1>2. may <= 5 /\ may \in Int
  <2>. DEFINE pc == streak.pc
              hit == G!hitBank(pc)
  <2>1. ASSUME hit # 0 PROVE G!At(pc, hit).ctr \in -4 .. 3
    <3>1. hit \in G!Banks
      BY <2>1, HitType
    <3>2. G!At(pc, hit) \in G!Entry
      BY <3>1, PlaceType DEF Gem5Inv, G!TypeOK, G!At
    <3>. QED BY <3>2 DEF G!Entry
  <2>2. Bimodal(pc) \in 0 .. 3
    BY BimodalType DEF Gem5Inv
  <2>. HIDE DEF pc
  <2>3. \A taken \in BOOLEAN : MayMiss(pc, taken) <= 5 /\ MayMiss(pc, taken) \in Int
    BY <2>1, <2>2 DEF MayMiss, Least, G!LearningBound
  <2>4. streak.taken \in BOOLEAN
    BY DEF Gem5Inv, G!TypeOK
  <2>. QED BY <2>3, <2>4 DEF pc
<1>. QED BY <1>1, <1>2 DEF G!BranchesLearn, G!LearningBound

-----------------------------------------------------------------------------
(* Class gshare.                                                           *)

\* The last k outcomes went one way.
AllAlike(k, taken) == IF taken THEN 0 .. k - 1 \subseteq history
                      ELSE history \cap (0 .. k - 1) = {}

\* How often the counter of a branch was moved one way while it was wrong.
Taught(pc, taken) ==
    LET c == counters[Gs!idx(pc)] IN Least(IF taken THEN c ELSE 3 - c, 2)

\* A branch misses once for each outcome until they fill the register, and then
\* once for each move of the one counter that it uses from there on.
GshareInv ==
    /\ Gs!TypeOK
    /\ \/ \E k \in 0 .. WordBits : run.wrong <= k /\ AllAlike(k, run.taken)
       \/ AllAlike(WordBits, run.taken) /\ run.wrong <= WordBits + Taught(run.pc, run.taken)

LEMMA IndexType ==
    ASSUME NEW pc
    PROVE  Gs!idx(pc) \in Gs!Entries
  BY Zenon DEF Gs!idx, Gs!Entries

LEMMA TrainedSteps ==
    ASSUME NEW c \in 0 .. 3
    PROVE  /\ Gs!Trained(c, TRUE) = IF c > 2 THEN c ELSE c + 1
           /\ Gs!Trained(c, FALSE) = IF c = 0 THEN c ELSE c - 1
  BY DEF Gs!Trained

LEMMA TaughtType ==
    ASSUME Gs!TypeOK, NEW pc, NEW taken \in BOOLEAN
    PROVE  Taught(pc, taken) \in 0 .. 2
<1>1. counters[Gs!idx(pc)] \in 0 .. 3
  BY IndexType DEF Gs!TypeOK
<1>. QED BY <1>1 DEF Taught, Least

\* One more outcome of the same kind.
LEMMA AlikeStep ==
    ASSUME Gs!TypeOK, NEW k \in 0 .. WordBits, NEW taken \in BOOLEAN, AllAlike(k, taken),
           history' = ({i + 1 : i \in history} \cap Gs!Bits) \cup (IF taken THEN {0} ELSE {})
    PROVE  /\ k < WordBits => AllAlike(k + 1, taken)'
           /\ k = WordBits => history' = history
<1>1. WordBits \in Nat \ {0} /\ history \in SUBSET (0 .. WordBits - 1)
  BY TageAssumption DEF Gs!TypeOK, Gs!Bits
<1>. DEFINE moved == {i + 1 : i \in history} \cap Gs!Bits
<1>2. \A j \in 0 .. WordBits - 1 : j \in moved <=> j - 1 \in history
  BY <1>1 DEF Gs!Bits
<1>3. moved \subseteq 0 .. WordBits - 1 /\ 0 \notin moved
  BY <1>1 DEF Gs!Bits
<1>4. history' = moved \cup (IF taken THEN {0} ELSE {})
  OBVIOUS
<1>. HIDE DEF moved
<1>5. CASE taken
  <2>1. 0 .. k - 1 \subseteq history /\ history' = moved \cup {0}
    BY <1>4, <1>5 DEF AllAlike
  <2>2. ASSUME k < WordBits, NEW j \in 0 .. k PROVE j \in history'
    <3>1. CASE j = 0
      BY <3>1, <2>1
    <3>2. CASE j # 0
      <4>1. j - 1 \in 0 .. k - 1 /\ j \in 0 .. WordBits - 1
        BY <3>2, <2>2, <1>1
      <4>. QED BY <4>1, <2>1, <1>2
    <3>. QED BY <3>1, <3>2
  <2>3. k + 1 - 1 = k
    OBVIOUS
  <2>4. ASSUME k = WordBits PROVE history' = history
    <3>1. history = 0 .. WordBits - 1
      BY <2>1, <2>4, <1>1
    <3>2. ASSUME NEW j \in 0 .. WordBits - 1 PROVE j \in history'
      <4>1. CASE j = 0
        BY <4>1, <2>1
      <4>2. CASE j # 0
        <5>1. j - 1 \in 0 .. WordBits - 1
          BY <4>2, <1>1
        <5>. QED BY <5>1, <3>1, <2>1, <1>2
      <4>. QED BY <4>1, <4>2
    <3>3. history' \subseteq 0 .. WordBits - 1
      BY <2>1, <1>1, <1>3
    <3>. QED BY <3>1, <3>2, <3>3
  <2>. QED BY <2>2, <2>3, <2>4, <1>5 DEF AllAlike
<1>6. CASE ~taken
  <2>1. history \cap (0 .. k - 1) = {} /\ history' = moved
    BY <1>4, <1>6 DEF AllAlike
  <2>2. ASSUME k < WordBits, NEW j \in 0 .. k PROVE j \notin history'
    <3>1. CASE j = 0
      BY <3>1, <2>1, <1>3
    <3>2. CASE j # 0
      <4>1. j - 1 \in 0 .. k - 1 /\ j \in 0 .. WordBits - 1
        BY <3>2, <2>2, <1>1
      <4>. QED BY <4>1, <2>1, <1>2
    <3>. QED BY <3>1, <3>2
  <2>3. k + 1 - 1 = k
    OBVIOUS
  <2>4. ASSUME k = WordBits PROVE history' = history
    <3>1. history = {}
      BY <2>1, <2>4, <1>1
    <3>2. moved = {}
      BY <3>1, <1>2, <1>3
    <3>. QED BY <3>1, <3>2, <2>1
  <2>. QED BY <2>2, <2>3, <2>4, <1>6 DEF AllAlike
<1>. QED BY <1>5, <1>6

LEMMA GshareUpdateKeepsInv ==
    ASSUME GshareInv, NEW pc \in Pcs, NEW prediction, NEW taken \in BOOLEAN,
           prediction = Gs!predict(pc) \/ prediction = taken,
           Gs!update(pc, prediction, taken)
    PROVE  GshareInv'
<1>. DEFINE missed == IF prediction # taken THEN 1 ELSE 0
            base == IF run.pc = pc /\ run.taken = taken THEN run.wrong ELSE 0
            x == Gs!idx(pc)
            c == counters[x]
<1>1. Gs!TypeOK /\ WordBits \in Nat \ {0} /\ pc \in Nat
  BY TageAssumption, Gem5Assumption DEF GshareInv
<1>2. /\ counters' = [counters EXCEPT ![x] = Gs!Trained(counters[x], taken)]
      /\ history' = ({i + 1 : i \in history} \cap Gs!Bits) \cup (IF taken THEN {0} ELSE {})
      /\ run'.pc = pc /\ run'.taken = taken /\ run'.wrong = base + missed
  BY DEF Gs!update
<1>3. missed \in {0, 1} /\ base \in Nat
  BY <1>1 DEF Gs!TypeOK
<1>4. x \in Gs!Entries /\ c \in 0 .. 3 /\ counters \in [Gs!Entries -> 0 .. 3]
  BY <1>1, IndexType DEF Gs!TypeOK
<1>5. missed = 1 => (taken <=> c <= 1)
  <2>1. Gs!predict(pc) = (c > 1)
    BY DEF Gs!predict
  <2>. HIDE DEF c
  <2>. QED BY <2>1, <1>4
<1>6. \/ \E k \in 0 .. WordBits : base <= k /\ AllAlike(k, taken)
      \/ AllAlike(WordBits, taken) /\ base <= WordBits + Taught(pc, taken)
  <2>1. CASE run.pc = pc /\ run.taken = taken
    BY <2>1 DEF GshareInv
  <2>2. CASE ~(run.pc = pc /\ run.taken = taken)
    <3>1. base <= 0 /\ AllAlike(0, taken) /\ 0 \in 0 .. WordBits
      BY <2>2, <1>1 DEF AllAlike
    <3>. QED BY <3>1
  <2>. QED BY <2>1, <2>2
<1>. HIDE DEF missed, base, x, c
<1>7. Gs!TypeOK'
  <2>1. history' \in SUBSET Gs!Bits
    BY <1>1, <1>2 DEF Gs!Bits
  <2>2. Gs!Trained(c, taken) \in 0 .. 3
    BY <1>4 DEF Gs!Trained
  <2>3. counters' \in [Gs!Entries -> 0 .. 3]
    BY <2>2, <1>2, <1>4 DEF c
  <2>. QED BY <2>1, <2>3, <1>1, <1>2, <1>3 DEF Gs!TypeOK
<1>8. CASE \E k \in 0 .. WordBits : k < WordBits /\ base <= k /\ AllAlike(k, taken)
  <2>1. PICK k \in 0 .. WordBits : k < WordBits /\ base <= k /\ AllAlike(k, taken)
    BY <1>8
  <2>2. AllAlike(k + 1, taken)'
    BY <2>1, <1>1, <1>2, AlikeStep
  <2>3. AllAlike(k + 1, run.taken)'
    BY <2>2, <1>2 DEF AllAlike
  <2>4. k + 1 \in 0 .. WordBits /\ run'.wrong <= k + 1
    BY <2>1, <1>1, <1>2, <1>3
  <2>. QED BY <2>3, <2>4, <1>7 DEF GshareInv
<1>9. CASE AllAlike(WordBits, taken) /\ base <= WordBits + Taught(pc, taken)
  <2>1. history' = history
    BY <1>1, <1>2, <1>9, AlikeStep
  <2>2. Gs!idx(pc)' = x
    BY <2>1 DEF Gs!idx, x
  <2>3. counters'[x] = Gs!Trained(c, taken)
    BY <1>2, <1>4 DEF c
  <2>4. Taught(pc, taken)' = Least(IF taken THEN counters'[x] ELSE 3 - counters'[x], 2)
    BY <2>2 DEF Taught
  <2>5. Taught(pc, taken) = Least(IF taken THEN c ELSE 3 - c, 2)
    BY DEF Taught, c, x
  <2>6. Taught(pc, taken) + missed <= Taught(pc, taken)' /\ Taught(pc, taken)' \in Int
    <3>1. CASE taken
      <4>1. counters'[x] = IF c > 2 THEN c ELSE c + 1
        <5>1. taken = TRUE
          BY <3>1
        <5>. QED BY <5>1, <2>3, <1>4, TrainedSteps
      <4>2. /\ Taught(pc, taken)' = Least(counters'[x], 2) /\ Taught(pc, taken) = Least(c, 2)
            /\ missed = 1 => c <= 1
        BY <3>1, <2>4, <2>5, <1>5
      <4>. QED BY <4>1, <4>2, <1>3, <1>4 DEF Least
    <3>2. CASE ~taken
      <4>1. counters'[x] = IF c = 0 THEN c ELSE c - 1
        <5>1. taken = FALSE
          BY <3>2
        <5>. QED BY <5>1, <2>3, <1>4, TrainedSteps
      <4>2. /\ Taught(pc, taken)' = Least(3 - counters'[x], 2)
            /\ Taught(pc, taken) = Least(3 - c, 2) /\ (missed = 1 => ~(c <= 1))
        BY <3>2, <2>4, <2>5, <1>5
      <4>. QED BY <4>1, <4>2, <1>3, <1>4 DEF Least
    <3>. QED BY <3>1, <3>2
  <2>7. AllAlike(WordBits, taken)'
    BY <2>1, <1>9 DEF AllAlike
  <2>8. AllAlike(WordBits, run.taken)' /\ Taught(run.pc, run.taken)' = Taught(pc, taken)'
    BY <2>7, <1>2 DEF AllAlike, Taught, Gs!idx
  <2>9. Taught(pc, taken) \in 0 .. 2
    BY <1>1, TaughtType
  <2>10. run'.wrong <= WordBits + Taught(pc, taken)'
    BY <2>6, <2>9, <1>1, <1>2, <1>3, <1>9
  <2>. QED BY <2>8, <2>10, <1>7 DEF GshareInv
<1>10. CASE AllAlike(WordBits, taken) /\ base <= WordBits
  <2>1. Taught(pc, taken) \in 0 .. 2
    BY <1>1, TaughtType
  <2>. QED BY <2>1, <1>1, <1>3, <1>9, <1>10
<1>11. ASSUME NEW k \in 0 .. WordBits, base <= k, AllAlike(k, taken) PROVE GshareInv'
  <2>1. CASE k = WordBits
    BY <2>1, <1>11, <1>10
  <2>2. CASE k # WordBits
    <3>1. k < WordBits
      BY <2>2, <1>1
    <3>. QED BY <3>1, <1>11, <1>8
  <2>. QED BY <2>1, <2>2
<1>. QED BY <1>6, <1>9, <1>11

LEMMA GshareInitOk == Gs!Init => GshareInv
<1>. SUFFICES ASSUME Gs!Init PROVE GshareInv
  OBVIOUS
<1>1. Gs!TypeOK
  BY DEF Gs!Init, Gs!TypeOK
<1>2. run.wrong <= 0 /\ AllAlike(0, run.taken) /\ 0 \in 0 .. WordBits
  BY TageAssumption DEF Gs!Init, AllAlike
<1>. QED BY <1>1, <1>2 DEF GshareInv

LEMMA GshareStep == GshareInv /\ Gs!Next => GshareInv'
<1>. SUFFICES ASSUME GshareInv, Gs!Next PROVE GshareInv'
  OBVIOUS
<1>1. CASE Gs!Conditional
  <2>1. PICK pc \in Pcs, taken \in BOOLEAN : Gs!update(pc, Gs!predict(pc), taken)
    BY <1>1 DEF Gs!Conditional
  <2>. QED BY <2>1, GshareUpdateKeepsInv
<1>2. CASE Gs!Jump
  <2>1. PICK pc \in Pcs : Gs!update(pc, TRUE, TRUE)
    BY <1>2 DEF Gs!Jump
  <2>. QED BY <2>1, GshareUpdateKeepsInv
<1>. QED BY <1>1, <1>2 DEF Gs!Next

LEMMA GshareLearns == GshareInv => Gs!BranchesLearn
<1>. SUFFICES ASSUME GshareInv PROVE Gs!BranchesLearn
  OBVIOUS
<1>1. run.wrong \in Nat /\ run.taken \in BOOLEAN /\ WordBits \in Nat
  BY TageAssumption DEF GshareInv, Gs!TypeOK
<1>2. Taught(run.pc, run.taken) \in 0 .. 2
  BY <1>1, TaughtType DEF GshareInv
<1>3. run.wrong <= WordBits + 2
  BY <1>1, <1>2 DEF GshareInv
<1>. QED BY <1>3 DEF Gs!BranchesLearn

-----------------------------------------------------------------------------
(* The predictors.                                                         *)

PredictorsInv == bpred \in Implementations /\ TageInv /\ Gem5Inv /\ GshareInv

LEMMA PredictorsInitOk == PredictorsInit => PredictorsInv
  BY InitOk, Gem5InitOk, GshareInitOk DEF PredictorsInit, PredictorsInv

LEMMA Gem5Stays == Gem5Inv /\ UNCHANGED gem5State => Gem5Inv'
  BY DEF Gem5Inv, gem5State, G!TypeOK, MayMiss, G!At, G!hitBank, G!Hits, Bimodal

LEMMA GshareStays == GshareInv /\ UNCHANGED gshareState => GshareInv'
  BY DEF GshareInv, gshareState, Gs!TypeOK, AllAlike, Taught, Gs!idx

LEMMA PredictorsStep ==
    PredictorsInv /\ [PredictorsNext]_predictorsVars =>
        /\ PredictorsInv'
        /\ [\A t \in Tables, s \in SlotNumbers : Kept(tables[t][s], tables'[t][s])]_vars
<1>. SUFFICES ASSUME PredictorsInv, [PredictorsNext]_predictorsVars
              PROVE  /\ PredictorsInv'
                     /\ [\A t \in Tables, s \in SlotNumbers :
                            Kept(tables[t][s], tables'[t][s])]_vars
  OBVIOUS
<1>1. bpred \in Implementations /\ TageInv /\ Gem5Inv /\ GshareInv
  BY DEF PredictorsInv
<1>2. UNCHANGED vars => TageInv' /\ UNCHANGED vars
  BY <1>1, TageStep
<1>3. CASE RunTage
  <2>1. /\ TageInv'
        /\ [\A t \in Tables, s \in SlotNumbers : Kept(tables[t][s], tables'[t][s])]_vars
    BY <1>1, <1>3, TageStep DEF RunTage
  <2>2. bpred' = bpred /\ UNCHANGED gem5State /\ UNCHANGED gshareState
    BY <1>3 DEF RunTage
  <2>. QED BY <2>1, <2>2, <1>1, Gem5Stays, GshareStays DEF PredictorsInv
<1>4. CASE RunGem5Tage
  <2>1. Gem5Inv'
    BY <1>1, <1>4, Gem5Step DEF RunGem5Tage
  <2>2. bpred' = bpred /\ UNCHANGED vars /\ UNCHANGED gshareState
    BY <1>4 DEF RunGem5Tage
  <2>. QED BY <2>1, <2>2, <1>1, <1>2, GshareStays DEF PredictorsInv
<1>5. CASE RunGshare
  <2>1. GshareInv'
    BY <1>1, <1>5, GshareStep DEF RunGshare
  <2>2. bpred' = bpred /\ UNCHANGED vars /\ UNCHANGED gem5State
    BY <1>5 DEF RunGshare
  <2>. QED BY <2>1, <2>2, <1>1, <1>2, Gem5Stays DEF PredictorsInv
<1>6. CASE UNCHANGED predictorsVars
  <2>1. bpred' = bpred /\ UNCHANGED vars /\ UNCHANGED gem5State /\ UNCHANGED gshareState
    BY <1>6 DEF predictorsVars
  <2>. QED BY <2>1, <1>1, <1>2, Gem5Stays, GshareStays DEF PredictorsInv
<1>. QED BY <1>3, <1>4, <1>5, <1>6 DEF PredictorsNext

-----------------------------------------------------------------------------

\* The three predictors keep their types: no counter of tage leaves two bits, its
\* statistics never pass the number of branches (update_).
THEOREM PredictorsTypeCorrect == PredictorsSpec => []PredictorsTypeOK
<1>1. PredictorsInv => PredictorsTypeOK
  BY DEF PredictorsInv, PredictorsTypeOK, TageInv, Gem5Inv, GshareInv
<1>. QED BY <1>1, PredictorsInitOk, PredictorsStep, PTL DEF PredictorsSpec

\* The words of tage's history register hold the last outcomes, in order and
\* across the words, for every number of bits and every width of a word
\* (update_bhr, sim_bitvec::shift_left).
THEOREM HistoryIsKept == PredictorsSpec => []HistoryIsOutcomes
<1>1. PredictorsInv => HistoryIsOutcomes
  BY DEF PredictorsInv, TageInv
<1>. QED BY <1>1, PredictorsInitOk, PredictorsStep, PTL DEF PredictorsSpec

\* A branch that keeps its direction is mispredicted at most five times by
\* gem5_tage, and at most twice more than a history word has bits by gshare,
\* from whatever state the other branches left (handleTAGEUpdate,
\* gshare::update_).
THEOREM BranchesAreLearnt == PredictorsSpec => []BranchesLearn
<1>1. PredictorsInv => BranchesLearn
  BY Gem5Learns, GshareLearns DEF PredictorsInv, BranchesLearn
<1>. QED BY <1>1, PredictorsInitOk, PredictorsStep, PTL DEF PredictorsSpec

\* Allocation takes no entry from another branch and never lowers a useful
\* counter, because the tag is part of the slot (tage::update_incorrect).
THEOREM EntriesAreKept == PredictorsSpec => EntriesStay
<1>1. PredictorsInv /\ [PredictorsNext]_predictorsVars =>
        [\A t \in Tables, s \in SlotNumbers : Kept(tables[t][s], tables'[t][s])]_vars
  BY PredictorsStep
<1>2. (\A t \in Tables, s \in SlotNumbers : Kept(tables[t][s], tables'[t][s])) <=>
      \A t \in Tables, s \in 0 .. Slots - 1 :
        LET e == tables[t][s]
            f == tables'[t][s]
        IN  /\ f.useful >= e.useful
            /\ e.tag # 0 => f.tag = e.tag /\ f.pred - e.pred \in {-1, 0, 1}
  BY Zenon DEF Kept, SlotNumbers
<1>3. PredictorsInv /\ [PredictorsNext]_predictorsVars => PredictorsInv'
  BY PredictorsStep
<1>. QED BY <1>1, <1>2, <1>3, PredictorsInitOk, PTL DEF PredictorsSpec, EntriesStay

=============================================================================
