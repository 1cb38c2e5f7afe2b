------------------------- MODULE CheckpointsProofs -------------------------
(***************************************************************************)
(* Theorems about Checkpoints, for every memory, every list of locations,  *)
(* every number of sessions and every moment at which one is killed.       *)
(***************************************************************************)
EXTENDS Checkpoints, TLAPS, FiniteSetTheorems, WellFoundedInduction

\* the pages that a memory has to save
Used(m) == {p \in Pages : m[p]}

\* The file of icnt n, as far as it was written, belongs to the state in which
\* it was opened.
FileOk(n) ==
    LET f == files[n]
        o == opened[n]
    IN  /\ o \in Icnts \X Icnts \X Memory /\ o[1] = n /\ n <= o[2]
        /\ ToSet(f.pages) \subseteq Used(o[3])
        /\ Len(f.pages) = Cardinality(ToSet(f.pages))
        /\ f.header # NoHeader =>
              f.header = [icnt |-> n, calls |-> o[2], pages |-> Cardinality(Used(o[3]))]

FilesOk == DOMAIN opened = DOMAIN files /\ \A n \in DOMAIN files : FileOk(n)

\* While a file is written the hart stands still, and no other session opens
\* the file again.
Writing ==
    phase \in {"header", "pages"} =>
        /\ icnt \in DOMAIN files /\ opened[icnt] = <<icnt, calls, mem>>
        /\ phase = "pages" => files[icnt].header # NoHeader

\* Each loop runs only while it may.
LoopOk ==
    /\ phase \in {"header", "pages", "exec"} /\ mode # "plain" => icnt < maxicnt
    /\ phase = "exec" => icnt < maxicnt
    /\ phase \in {"header", "pages"} /\ mode = "list" => chIdx < Len(list)

Budget ==
    /\ init \in Nat /\ insns \in Nat /\ init <= icnt /\ icnt <= maxicnt
    /\ phase = "idle" => icnt = 0
    /\ phase # "idle" => maxicnt = IF insns = Unlimited THEN insns ELSE insns + init

IInv == TypeOK /\ FilesOk /\ Writing /\ LoopOk /\ Budget

-----------------------------------------------------------------------------
(* Sets and sequences.                                                     *)

LEMMA MinIsMember ==
    ASSUME NEW S \in SUBSET Nat, S # {}
    PROVE  Min(S) \in S
<1>. DEFINE less == {ss \in Nat \X Nat : ss[1] < ss[2]}
<1>1. less = OpToRel(<, Nat)
  BY Zenon DEF OpToRel
<1>2. IsWellFoundedOn(less, Nat)
  BY <1>1, NatLessThanWellFounded, Zenon
<1>3. PICK x \in S : \A y \in S : ~(<<y, x>> \in less)
  BY <1>2, WFMin, Zenon
<1>4. ASSUME NEW y \in S PROVE x <= y
  <2>1. <<y, x>> \in Nat \X Nat /\ ~(<<y, x>> \in less)
    BY <1>3
  <2>. QED BY <2>1
<1>. QED BY <1>4 DEF Min

LEMMA ToSetAppend ==
    ASSUME NEW S, NEW s \in Seq(S), NEW e \in S
    PROVE  ToSet(Append(s, e)) = ToSet(s) \cup {e}
<1>1. /\ Append(s, e) \in Seq(S) /\ Len(Append(s, e)) = Len(s) + 1 /\ Len(s) \in Nat
      /\ Append(s, e)[Len(s) + 1] = e
      /\ \A k \in 1 .. Len(s) : Append(s, e)[k] = s[k]
  OBVIOUS
<1>2. DOMAIN Append(s, e) = (1 .. Len(s)) \cup {Len(s) + 1} /\ DOMAIN s = 1 .. Len(s)
  BY <1>1
<1>. QED BY <1>1, <1>2 DEF ToSet

LEMMA UsedFinite ==
    ASSUME NEW m \in Memory
    PROVE  /\ Used(m) \subseteq Pages /\ IsFiniteSet(Used(m))
           /\ Cardinality(Used(m)) \in 0 .. Cardinality(Pages)
<1>1. Used(m) \in SUBSET Pages
  BY DEF Used
<1>2. IsFiniteSet(Used(m)) /\ Cardinality(Used(m)) <= Cardinality(Pages)
  BY <1>1, FS_Subset, CheckpointsAssumption
<1>. QED BY <1>1, <1>2, FS_CardinalityType, CheckpointsAssumption

LEMMA NoHeaderIsNone ==
    ASSUME NEW n \in Nat, NEW c, NEW k
    PROVE  [icnt |-> n, calls |-> c, pages |-> k] # NoHeader
  BY DEF NoHeader

LEMMA ListIsSequence ==
    ASSUME TypeOK
    PROVE  list \in Seq(Nat) /\ Len(list) \in Nat
<1>1. << >> \in Seq(Nat)
  OBVIOUS
<1>2. list \in Lists \/ list = << >>
  BY DEF TypeOK
<1>3. list \in Seq(Nat)
  BY <1>1, <1>2, CheckpointsAssumption
<1>. QED BY <1>3

-----------------------------------------------------------------------------
(* The parts of the invariant that a step leaves alone.                    *)

LEMMA FilesKept ==
    ASSUME FilesOk, UNCHANGED disk
    PROVE  FilesOk'
  BY DEF FilesOk, FileOk, disk

-----------------------------------------------------------------------------
(* Sessions.                                                               *)

LEMMA EnterInv ==
    ASSUME IInv, NEW n \in Icnts, NEW c \in n .. MaxCalls, NEW m \in Memory, Enter(n, c, m),
           NEW max \in MaxInsns, insns' = max,
           maxicnt' = IF max = Unlimited THEN max ELSE max + n
    PROVE  IInv'
<1>1. n \in Nat /\ max \in Nat /\ n < Unlimited
  BY CheckpointsAssumption DEF Icnts
<1>2. maxicnt' \in Nat /\ n <= maxicnt'
  BY <1>1
<1>3. /\ phase' = "head" /\ chIdx' = 0 /\ icnt' = n /\ calls' = c /\ mem' = m
      /\ brk' = FALSE /\ init' = n /\ UNCHANGED disk
      /\ mode' \in Modes /\ dumpIcnt' \in DumpIcnts \cup {0, Unlimited}
      /\ list' \in Lists \cup {<< >>}
  BY DEF Enter, Modes
<1>4. Len(list') \in Nat
  BY <1>3, CheckpointsAssumption
<1>5. TypeOK'
  <2>1. icnt' \in Icnts /\ calls' \in icnt' .. MaxCalls /\ chIdx' \in 0 .. Len(list')
    BY <1>3, <1>4
  <2>2. DOMAIN files' \subseteq Icnts /\ \A k \in DOMAIN files' : files'[k] \in File
    BY <1>3 DEF IInv, TypeOK, disk
  <2>. QED BY <1>2, <1>3, <2>1, <2>2 DEF TypeOK
<1>6. FilesOk'
  BY <1>3, FilesKept DEF IInv
<1>7. Writing' /\ LoopOk'
  BY <1>3 DEF Writing, LoopOk
<1>8. Budget'
  BY <1>1, <1>2, <1>3 DEF Budget
<1>. QED BY <1>5, <1>6, <1>7, <1>8 DEF IInv

LEMMA StartImageInv ==
    ASSUME IInv, NEW m \in Memory, StartImage(m)
    PROVE  IInv'
<1>1. PICK max \in MaxInsns : maxicnt' = max /\ insns' = max
  BY DEF StartImage
<1>2. 0 \in Icnts /\ 0 \in 0 .. MaxCalls /\ max \in Nat
  BY CheckpointsAssumption DEF Icnts
<1>. QED BY <1>1, <1>2, EnterInv DEF StartImage

LEMMA StartDumpInv ==
    ASSUME IInv, NEW n \in Icnts, StartDump(n)
    PROVE  IInv'
<1>. DEFINE h == files[n].header
<1>1. n \in DOMAIN files /\ h # NoHeader /\ files[n] \in File
  BY DEF StartDump, Complete, IInv, TypeOK
<1>2. FileOk(n)
  BY <1>1 DEF IInv, FilesOk
<1>3. h.icnt = n /\ h.calls \in Icnts
  BY <1>1, <1>2 DEF FileOk
<1>4. Loaded(files[n]) \in Memory
  BY DEF Loaded, Memory
<1>5. PICK max \in MaxInsns :
        maxicnt' = (IF max = Unlimited THEN max ELSE max + h.icnt) /\ insns' = max
  BY DEF StartDump
<1>6. h.calls \in n .. MaxCalls
  BY <1>1, <1>2, <1>3 DEF FileOk, Icnts
<1>. QED BY <1>3, <1>4, <1>5, <1>6, EnterInv DEF StartDump

LEMMA ExitInv ==
    ASSUME IInv, Exit
    PROVE  IInv'
<1>1. Zero \in Memory
  BY DEF Zero, Memory
<1>2. TypeOK'
  <2>1. chIdx' \in 0 .. Len(list') /\ icnt' \in Icnts /\ calls' \in icnt' .. MaxCalls
    BY CheckpointsAssumption DEF Exit, Icnts
  <2>. QED BY <1>1, <2>1 DEF Exit, IInv, TypeOK, disk, Modes
<1>3. FilesOk'
  BY FilesKept DEF Exit, IInv
<1>4. Writing' /\ LoopOk' /\ Budget'
  BY DEF Exit, Writing, LoopOk, Budget
<1>. QED BY <1>2, <1>3, <1>4 DEF IInv

-----------------------------------------------------------------------------
(* The loop and dumpState.                                                 *)

LEMMA GoInv == IInv /\ Go => IInv'
<1>. SUFFICES ASSUME IInv, Go PROVE IInv'
  OBVIOUS
<1>1. UNCHANGED <<chIdx, disk, loop, hart>> /\ phase' = "exec" /\ icnt < maxicnt
  BY DEF Go, Continue
<1>2. TypeOK'
  BY <1>1 DEF IInv, TypeOK, disk, loop, hart
<1>3. FilesOk'
  BY <1>1, FilesKept DEF IInv
<1>4. Writing' /\ LoopOk' /\ Budget'
  BY <1>1 DEF IInv, Writing, LoopOk, Budget, Go, loop, hart
<1>. QED BY <1>2, <1>3, <1>4 DEF IInv

LEMMA OpenInv == IInv /\ OpenDump => IInv'
<1>. SUFFICES ASSUME IInv, OpenDump PROVE IInv'
  OBVIOUS
<1>. DEFINE empty == [header |-> NoHeader, pages |-> << >>]
<1>1. /\ DOMAIN files' = DOMAIN files \cup {icnt} /\ DOMAIN opened' = DOMAIN files \cup {icnt}
      /\ files'[icnt] = empty /\ opened'[icnt] = <<icnt, calls, mem>>
      /\ \A n \in DOMAIN files \ {icnt} : files'[n] = files[n] /\ opened'[n] = opened[n]
  BY DEF OpenDump
<1>2. /\ icnt \in Icnts /\ calls \in icnt .. MaxCalls /\ mem \in Memory
      /\ phase' = "header" /\ UNCHANGED <<chIdx, loop, hart>>
  BY DEF IInv, TypeOK, OpenDump
<1>3. empty \in File
  <2>1. << >> \in Seq(Pages)
    OBVIOUS
  <2>2. NoHeader \in [icnt : Icnts \cup {-1}, calls : Icnts, pages : 0 .. Cardinality(Pages)]
    <3>1. 0 \in 0 .. Cardinality(Pages)
      BY FS_CardinalityType, CheckpointsAssumption
    <3>2. 0 \in Icnts
      BY CheckpointsAssumption DEF Icnts
    <3>. QED BY <3>1, <3>2 DEF NoHeader
  <2>. QED BY <2>1, <2>2 DEF File
<1>4. TypeOK'
  <2>1. DOMAIN files' \subseteq Icnts /\ \A k \in DOMAIN files' : files'[k] \in File
    BY <1>1, <1>2, <1>3 DEF IInv, TypeOK
  <2>. QED BY <1>2, <2>1 DEF IInv, TypeOK, loop, hart
<1>5. FileOk(icnt)'
  <2>1. ToSet(<< >>) = {} /\ Cardinality({}) = 0 /\ Len(<< >>) = 0
    BY FS_EmptySet DEF ToSet
  <2>2. /\ files'[icnt'].pages = << >> /\ files'[icnt'].header = NoHeader
        /\ opened'[icnt'] = <<icnt, calls, mem>> /\ icnt' = icnt
    BY <1>1, <1>2 DEF hart
  <2>3. calls \in Icnts /\ icnt <= calls
    BY <1>2 DEF Icnts
  <2>. DEFINE o == <<icnt, calls, mem>>
  <2>4. o \in Icnts \X Icnts \X Memory /\ o[1] = icnt /\ icnt <= o[2]
    BY <2>3, <1>2
  <2>5. ToSet(<< >>) \subseteq Used(o[3]) /\ Len(<< >>) = Cardinality(ToSet(<< >>))
    BY <2>1
  <2>. HIDE DEF o
  <2>. QED BY <2>2, <2>4, <2>5 DEF FileOk, o
<1>6. ASSUME NEW n \in DOMAIN files \ {icnt} PROVE FileOk(n)'
  BY <1>1, <1>6 DEF IInv, FilesOk, FileOk
<1>7. FilesOk'
  BY <1>1, <1>2, <1>5, <1>6 DEF FilesOk, hart
<1>8. Writing'
  BY <1>1, <1>2 DEF Writing, hart
<1>9. LoopOk' /\ Budget'
  BY <1>2 DEF IInv, LoopOk, Budget, OpenDump, Due, Continue, loop, hart
<1>. QED BY <1>4, <1>7, <1>8, <1>9 DEF IInv

LEMMA HeaderInv == IInv /\ WriteHeader => IInv'
<1>. SUFFICES ASSUME IInv, WriteHeader PROVE IInv'
  OBVIOUS
<1>. DEFINE h == [icnt |-> icnt, calls |-> calls, pages |-> Cardinality(NonZero)]
<1>1. icnt \in DOMAIN files /\ opened[icnt] = <<icnt, calls, mem>> /\ files[icnt] \in File
  BY DEF WriteHeader, IInv, TypeOK, Writing
<1>2. /\ DOMAIN files' = DOMAIN files
      /\ files'[icnt] = [files[icnt] EXCEPT !.header = h]
      /\ \A n \in DOMAIN files \ {icnt} : files'[n] = files[n]
      /\ phase' = "pages" /\ UNCHANGED <<chIdx, opened, loop, hart>>
  BY <1>1 DEF WriteHeader
<1>3. icnt \in Icnts /\ calls \in Icnts /\ mem \in Memory /\ icnt \in Nat
  BY DEF IInv, TypeOK, Icnts
<1>4. NonZero = Used(mem)
  BY DEF NonZero, Used
<1>5. h \in [icnt : Icnts \cup {-1}, calls : Icnts, pages : 0 .. Cardinality(Pages)]
  BY <1>3, <1>4, UsedFinite
<1>6. files'[icnt] \in File /\ files'[icnt].header = h /\ files'[icnt].pages = files[icnt].pages
  BY <1>1, <1>2, <1>5 DEF File
<1>7. TypeOK'
  <2>1. DOMAIN files' \subseteq Icnts /\ \A k \in DOMAIN files' : files'[k] \in File
    BY <1>2, <1>6 DEF IInv, TypeOK
  <2>. QED BY <1>2, <2>1 DEF IInv, TypeOK, loop, hart
<1>8. FileOk(icnt)'
  <2>1. FileOk(icnt)
    BY <1>1 DEF IInv, FilesOk
  <2>2. icnt' = icnt /\ opened'[icnt'] = <<icnt, calls, mem>>
        /\ files'[icnt'].header = h /\ files'[icnt'].pages = files[icnt].pages
    BY <1>1, <1>2, <1>6 DEF hart
  <2>. HIDE DEF h
  <2>3. h = [icnt |-> icnt, calls |-> calls, pages |-> Cardinality(Used(mem))]
    BY <1>4 DEF h
  <2>. QED BY <2>1, <2>2, <2>3, <1>1 DEF FileOk
<1>9. ASSUME NEW n \in DOMAIN files \ {icnt} PROVE FileOk(n)'
  BY <1>2, <1>9 DEF IInv, FilesOk, FileOk
<1>10. FilesOk'
  BY <1>1, <1>2, <1>8, <1>9 DEF IInv, FilesOk, hart
<1>11. Writing'
  <2>1. h # NoHeader
    BY <1>3, NoHeaderIsNone
  <2>. HIDE DEF h
  <2>. QED BY <1>1, <1>2, <1>6, <2>1 DEF Writing, hart
<1>12. LoopOk' /\ Budget'
  BY <1>2 DEF IInv, LoopOk, Budget, WriteHeader, loop, hart
<1>. QED BY <1>7, <1>10, <1>11, <1>12 DEF IInv

LEMMA PageInv == IInv /\ WritePage => IInv'
<1>. SUFFICES ASSUME IInv, WritePage PROVE IInv'
  OBVIOUS
<1>. DEFINE old == files[icnt].pages
            left == NonZero \ ToSet(old)
            p == Min(left)
<1>1. icnt \in DOMAIN files /\ opened[icnt] = <<icnt, calls, mem>> /\ files[icnt] \in File
      /\ files[icnt].header # NoHeader
  BY DEF WritePage, IInv, TypeOK, Writing
<1>2. /\ DOMAIN files' = DOMAIN files
      /\ files'[icnt] = [files[icnt] EXCEPT !.pages = Append(old, p)]
      /\ \A n \in DOMAIN files \ {icnt} : files'[n] = files[n]
      /\ phase' = phase /\ UNCHANGED <<chIdx, opened, loop, hart>>
  BY <1>1 DEF WritePage
<1>3. icnt \in Icnts /\ mem \in Memory
  BY DEF IInv, TypeOK
<1>4. NonZero = Used(mem) /\ NonZero \subseteq Pages
  BY DEF NonZero, Used
<1>5. p \in left
  BY <1>4, MinIsMember, CheckpointsAssumption DEF WritePage
<1>. HIDE DEF p
<1>6. old \in Seq(Pages) /\ p \in Pages /\ Append(old, p) \in Seq(Pages)
  <2>1. old \in Seq(Pages) /\ p \in Pages
    BY <1>1, <1>4, <1>5 DEF File
  <2>. QED BY <2>1
<1>. DEFINE more == Append(old, p)
<1>. HIDE DEF more
<1>7. files'[icnt] \in File /\ files'[icnt].header = files[icnt].header
      /\ files'[icnt].pages = more
  <2>1. files'[icnt] = [files[icnt] EXCEPT !.pages = more]
    BY <1>2 DEF more
  <2>2. more \in Seq(Pages)
    BY <1>6 DEF more
  <2>. QED BY <2>1, <2>2, <1>1 DEF File
<1>8. TypeOK'
  <2>1. DOMAIN files' \subseteq Icnts /\ \A k \in DOMAIN files' : files'[k] \in File
    BY <1>2, <1>7 DEF IInv, TypeOK
  <2>. QED BY <1>2, <2>1 DEF IInv, TypeOK, loop, hart
<1>9. FileOk(icnt)
  BY <1>1 DEF IInv, FilesOk
<1>10. ToSet(old) \subseteq Used(mem) /\ Len(old) = Cardinality(ToSet(old))
  BY <1>1, <1>9 DEF FileOk
<1>11. /\ ToSet(Append(old, p)) \subseteq Used(mem)
       /\ Len(Append(old, p)) = Cardinality(ToSet(Append(old, p)))
  <2>1. IsFiniteSet(ToSet(old))
    BY <1>3, <1>10, UsedFinite, FS_Subset
  <2>2. Cardinality(ToSet(old) \cup {p}) = Cardinality(ToSet(old)) + 1
    BY <2>1, <1>5, FS_AddElement
  <2>3. ToSet(Append(old, p)) = ToSet(old) \cup {p}
    BY <1>6, ToSetAppend
  <2>4. Len(Append(old, p)) = Len(old) + 1
    BY <1>6
  <2>. QED BY <2>2, <2>3, <2>4, <1>4, <1>5, <1>10
<1>12. FileOk(icnt)'
  <2>1. icnt' = icnt /\ opened'[icnt'] = <<icnt, calls, mem>>
        /\ files'[icnt'].header = files[icnt].header /\ files'[icnt'].pages = Append(old, p)
    BY <1>1, <1>2, <1>7 DEF hart, more
  <2>. QED BY <2>1, <1>1, <1>9, <1>11 DEF FileOk
<1>13. ASSUME NEW n \in DOMAIN files \ {icnt} PROVE FileOk(n)'
  BY <1>2, <1>13 DEF IInv, FilesOk, FileOk
<1>14. FilesOk'
  BY <1>1, <1>2, <1>12, <1>13 DEF IInv, FilesOk, hart
<1>15. Writing'
  BY <1>1, <1>2, <1>7 DEF IInv, Writing, hart
<1>16. LoopOk' /\ Budget'
  BY <1>2 DEF IInv, LoopOk, Budget, loop, hart
<1>. QED BY <1>8, <1>14, <1>15, <1>16 DEF IInv

LEMMA CloseInv == IInv /\ CloseDump => IInv'
<1>. SUFFICES ASSUME IInv, CloseDump PROVE IInv'
  OBVIOUS
<1>1. CASE Exit
  BY <1>1, ExitInv
<1>2. CASE ~Exit
  <2>1. /\ phase = "pages" /\ mode # "plain" /\ phase' = "exec"
        /\ chIdx' = (IF mode = "list" THEN chIdx + 1 ELSE chIdx)
        /\ UNCHANGED <<disk, loop, hart>>
    BY <1>2 DEF CloseDump
  <2>2. icnt < maxicnt /\ (mode = "list" => chIdx < Len(list))
    BY <2>1 DEF IInv, LoopOk
  <2>3. Len(list) \in Nat /\ chIdx \in 0 .. Len(list)
    BY ListIsSequence DEF IInv, TypeOK
  <2>4. chIdx' \in 0 .. Len(list)
    BY <2>1, <2>2, <2>3
  <2>5. TypeOK'
    BY <2>1, <2>4 DEF IInv, TypeOK, disk, loop, hart
  <2>6. FilesOk'
    BY <2>1, FilesKept DEF IInv
  <2>7. Writing' /\ LoopOk' /\ Budget'
    BY <2>1, <2>2 DEF IInv, Writing, LoopOk, Budget, loop, hart
  <2>. QED BY <2>5, <2>6, <2>7 DEF IInv
<1>. QED BY <1>1, <1>2

LEMMA ExecInv ==
    ASSUME IInv, NEW n \in {icnt, icnt + 1}, NEW m \in Memory, NEW b \in BOOLEAN, Exec(n, m, b)
    PROVE  IInv'
<1>1. /\ phase = "exec" /\ calls < MaxCalls /\ phase' = "head" /\ icnt' = n
      /\ calls' = calls + 1 /\ mem' = m /\ brk' = b /\ UNCHANGED <<chIdx, disk, loop>>
  BY DEF Exec
<1>2. /\ icnt \in Nat /\ calls \in Nat /\ icnt <= calls /\ init \in Nat /\ init <= icnt
      /\ maxicnt \in Nat /\ icnt < maxicnt
  BY <1>1 DEF IInv, TypeOK, LoopOk, Budget, Icnts
<1>3. n \in Icnts /\ calls' \in n .. MaxCalls /\ init <= n /\ n <= maxicnt
  BY <1>1, <1>2, CheckpointsAssumption DEF Icnts
<1>4. TypeOK'
  BY <1>1, <1>3 DEF IInv, TypeOK, disk, loop
<1>5. FilesOk'
  BY <1>1, FilesKept DEF IInv
<1>6. Writing' /\ LoopOk' /\ Budget'
  BY <1>1, <1>3 DEF IInv, Writing, LoopOk, Budget, loop
<1>. QED BY <1>4, <1>5, <1>6 DEF IInv

-----------------------------------------------------------------------------
(* The invariant.                                                          *)

LEMMA InitInv == Init => IInv
<1>. SUFFICES ASSUME Init PROVE IInv
  OBVIOUS
<1>1. << >> \in Seq(Nat) /\ Len(<< >>) = 0 /\ Zero \in Memory
  BY DEF Zero, Memory
<1>2. TypeOK
  <2>1. icnt \in Icnts /\ calls \in icnt .. MaxCalls /\ chIdx \in 0 .. Len(list) /\ maxicnt \in Nat
    BY <1>1, CheckpointsAssumption DEF Init, Icnts
  <2>2. DOMAIN files = {}
    BY DEF Init
  <2>. QED BY <1>1, <2>1, <2>2 DEF Init, TypeOK, Modes
<1>3. FilesOk
  BY DEF Init, FilesOk
<1>4. Writing /\ LoopOk /\ Budget
  BY DEF Init, Writing, LoopOk, Budget
<1>. QED BY <1>2, <1>3, <1>4 DEF IInv

LEMMA NextInv == IInv /\ [Next]_vars => IInv'
<1>. SUFFICES ASSUME IInv, [Next]_vars PROVE IInv'
  OBVIOUS
<1>1. CASE \E m \in Memory : StartImage(m)
  BY <1>1, StartImageInv
<1>2. CASE \E n \in Icnts : StartDump(n)
  BY <1>2, StartDumpInv
<1>3. CASE Kill \/ End
  BY <1>3, ExitInv DEF Kill, End
<1>4. CASE Go
  BY <1>4, GoInv
<1>5. CASE OpenDump
  BY <1>5, OpenInv
<1>6. CASE WriteHeader
  BY <1>6, HeaderInv
<1>7. CASE WritePage
  BY <1>7, PageInv
<1>8. CASE CloseDump
  BY <1>8, CloseInv
<1>9. CASE Retire
  <2>1. PICK p \in Pages, x \in BOOLEAN : Exec(icnt + 1, [mem EXCEPT ![p] = x], FALSE)
    BY <1>9 DEF Retire
  <2>2. [mem EXCEPT ![p] = x] \in Memory
    BY DEF IInv, TypeOK, Memory
  <2>. QED BY <2>1, <2>2, ExecInv
<1>10. CASE Trap \/ Break
  <2>1. mem \in Memory
    BY DEF IInv, TypeOK
  <2>. QED BY <1>10, <2>1, ExecInv DEF Trap, Break
<1>11. CASE UNCHANGED vars
  <2>1. UNCHANGED <<phase, chIdx, disk, loop, hart>>
    BY <1>11 DEF vars
  <2>2. FilesOk'
    BY <2>1, FilesKept DEF IInv
  <2>. QED BY <2>1, <2>2
       DEF IInv, TypeOK, Writing, LoopOk, Budget, disk, loop, hart
<1>. QED BY <1>1, <1>2, <1>3, <1>4, <1>5, <1>6, <1>7, <1>8, <1>9, <1>10, <1>11 DEF Next

LEMMA Invariant == Spec => []IInv
<1>. QED BY InitInv, NextInv, PTL DEF Spec

-----------------------------------------------------------------------------
(* No checkpoint is missed.                                                *)

Saved(n, c) == n \in DOMAIN files /\ Complete(files[n]) /\ files[n].header.calls = c

\* what the history variables hold: an entry for every icnt of the session
History ==
    phase # "idle" =>
        DOMAIN first = init .. icnt /\ DOMAIN last = init .. icnt /\ last[icnt] = calls

\* The interval loop has saved every multiple behind it, and the one at which
\* it stands before it goes on.
IntervalSaved ==
    mode = "interval" /\ phase # "idle" =>
        \A n \in init .. icnt :
            n % dumpIcnt = 0 /\ (n < icnt \/ phase = "exec") => Saved(n, last[n])

Sound == Increasing(list) /\ (list # << >> => init <= list[1])

\* The list loop has saved the locations before its index, and is not past the
\* one at its index.
ListSaved ==
    mode = "list" /\ phase # "idle" /\ Sound =>
        /\ \A k \in 1 .. chIdx : list[k] \in init .. icnt /\ Saved(list[k], first[list[k]])
        /\ \A k \in chIdx + 1 .. Len(list) :
              icnt <= list[k] /\ (phase = "exec" => icnt < list[k])
        /\ phase \in {"header", "pages"} => list[chIdx + 1] = icnt
        /\ phase # "exec" /\ chIdx < Len(list) /\ list[chIdx + 1] = icnt => first[icnt] = calls

Taken == History /\ IntervalSaved /\ ListSaved

LEMMA EnterTaken ==
    ASSUME IInv, NEW n \in Icnts, NEW c, NEW m, Enter(n, c, m)
    PROVE  Taken'
<1>1. /\ phase' = "head" /\ chIdx' = 0 /\ icnt' = n /\ calls' = c /\ init' = n
      /\ first' = [i \in {n} |-> c] /\ last' = [i \in {n} |-> c]
      /\ list' \in Lists \cup {<< >>} /\ n \in Nat
  BY DEF Enter, Icnts
<1>2. n .. n = {n}
  BY <1>1
<1>3. History'
  BY <1>1, <1>2 DEF History
<1>4. IntervalSaved'
  BY <1>1 DEF IntervalSaved
<1>5. ASSUME Sound', NEW k \in 1 .. Len(list') PROVE n <= list'[k]
  <2>1. << >> \in Seq(Nat) /\ list' \in Seq(Nat)
    <3>1. << >> \in Seq(Nat)
      OBVIOUS
    <3>. QED BY <3>1, <1>1, CheckpointsAssumption
  <2>2. list'[1] \in Nat /\ list'[k] \in Nat /\ 1 \in DOMAIN list' /\ k \in DOMAIN list'
        /\ list' # << >>
    BY <2>1
  <2>3. 1 < k => list'[1] < list'[k]
    BY <2>2, <1>5 DEF Sound, Increasing
  <2>. QED BY <2>2, <2>3, <1>1, <1>5 DEF Sound
<1>6. ListSaved'
  <2>1. 1 .. chIdx' = {} /\ chIdx' + 1 = 1
    BY <1>1
  <2>. QED BY <2>1, <1>1, <1>5 DEF ListSaved
<1>. QED BY <1>3, <1>4, <1>6 DEF Taken

LEMMA GoTaken == IInv /\ Taken /\ Go => Taken'
<1>. SUFFICES ASSUME IInv, Taken, Go PROVE Taken'
  OBVIOUS
<1>1. /\ UNCHANGED <<chIdx, disk, loop, hart>> /\ phase = "head" /\ phase' = "exec"
      /\ mode = "interval" => icnt % dumpIcnt # 0
      /\ mode = "list" => chIdx < Len(list) /\ list[chIdx + 1] # icnt
  BY DEF Go, Due, Continue
<1>2. icnt \in Nat /\ init \in Nat /\ chIdx \in 0 .. Len(list) /\ list \in Seq(Nat)
  BY ListIsSequence DEF IInv, TypeOK, Icnts, Budget
<1>3. History'
  BY <1>1 DEF Taken, History, loop, hart
<1>4. IntervalSaved'
  <2>. SUFFICES ASSUME mode = "interval", NEW n \in init .. icnt, n % dumpIcnt = 0
                PROVE  Saved(n, last[n])
    BY <1>1 DEF IntervalSaved, Saved, loop, hart, disk
  <2>1. n < icnt
    BY <1>1, <1>2
  <2>. QED BY <2>1, <1>1 DEF Taken, IntervalSaved
<1>5. ListSaved'
  <2>. SUFFICES ASSUME mode = "list", Sound PROVE ListSaved'
    BY <1>1 DEF ListSaved, Sound, loop
  <2>1. \A k \in 1 .. chIdx : list[k] \in init .. icnt /\ Saved(list[k], first[list[k]])
    BY <1>1 DEF Taken, ListSaved
  <2>2. ASSUME NEW k \in chIdx + 1 .. Len(list) PROVE icnt < list[k]
    <3>1. icnt <= list[k] /\ icnt <= list[chIdx + 1]
      BY <1>1, <1>2 DEF Taken, ListSaved
    <3>2. list[chIdx + 1] \in Nat /\ list[k] \in Nat /\ k \in DOMAIN list
          /\ chIdx + 1 \in DOMAIN list
      BY <1>1, <1>2
    <3>3. chIdx + 1 < k => list[chIdx + 1] < list[k]
      BY <3>2, <1>2 DEF Sound, Increasing
    <3>4. icnt < list[chIdx + 1]
      BY <3>1, <3>2, <1>1, <1>2
    <3>. QED BY <3>1, <3>2, <3>3, <3>4, <1>2
  <2>3. /\ chIdx' = chIdx /\ list' = list /\ icnt' = icnt /\ init' = init /\ first' = first
        /\ phase' = "exec" /\ files' = files
    BY <1>1 DEF loop, hart, disk
  <2>4. ASSUME NEW k \in 1 .. chIdx
        PROVE  list[k] \in init .. icnt /\ Saved(list[k], first[list[k]])'
    BY <2>1, <2>3 DEF Saved
  <2>5. ASSUME NEW k \in chIdx + 1 .. Len(list) PROVE icnt <= list[k] /\ icnt < list[k]
    BY <2>2, <1>1, <1>2 DEF Taken, ListSaved
  <2>. QED BY <2>3, <2>4, <2>5 DEF ListSaved
<1>. QED BY <1>3, <1>4, <1>5 DEF Taken

\* dumpState touches the file of icnt only.
LEMMA WriteTaken ==
    ASSUME IInv, Taken, OpenDump \/ WriteHeader \/ WritePage
    PROVE  Taken'
<1>1. /\ phase \in {"head", "header", "pages"} /\ phase' \in {"header", "pages"}
      /\ UNCHANGED <<chIdx, loop, hart>>
      /\ mode = "list" /\ phase = "head" => chIdx < Len(list) /\ list[chIdx + 1] = icnt
  <2>1. CASE OpenDump
    BY <2>1 DEF OpenDump, Due, Continue
  <2>2. CASE WriteHeader \/ WritePage
    BY <2>2 DEF WriteHeader, WritePage
  <2>. QED BY <2>1, <2>2
<1>2. \A n \in DOMAIN files \ {icnt} : n \in DOMAIN files' /\ files'[n] = files[n]
  BY DEF OpenDump, WriteHeader, WritePage
<1>3. icnt \in Nat /\ init \in Nat /\ chIdx \in 0 .. Len(list) /\ list \in Seq(Nat)
  BY ListIsSequence DEF IInv, TypeOK, Icnts, Budget
<1>4. ASSUME NEW n, NEW c, n # icnt, Saved(n, c)
      PROVE  n \in DOMAIN files' /\ Complete(files'[n]) /\ files'[n].header.calls = c
  BY <1>2, <1>4 DEF Saved
<1>5. History'
  BY <1>1 DEF Taken, History, loop, hart
<1>6. IntervalSaved'
  <2>. SUFFICES ASSUME mode = "interval", NEW n \in init .. icnt, n % dumpIcnt = 0, n < icnt
                PROVE  Saved(n, last[n])'
    BY <1>1 DEF IntervalSaved, loop, hart
  <2>1. Saved(n, last[n]) /\ n # icnt
    BY <1>1, <1>3 DEF Taken, IntervalSaved
  <2>. QED BY <2>1, <1>1, <1>4 DEF Saved, hart
<1>7. ListSaved'
  <2>. SUFFICES ASSUME mode = "list", Sound PROVE ListSaved'
    BY <1>1 DEF ListSaved, Sound, loop
  <2>1. chIdx < Len(list) /\ list[chIdx + 1] = icnt
    BY <1>1 DEF Taken, ListSaved, IInv, LoopOk
  <2>2. ASSUME NEW k \in 1 .. chIdx
        PROVE  list[k] \in init .. icnt /\ Saved(list[k], first[list[k]])'
    <3>1. list[k] \in init .. icnt /\ Saved(list[k], first[list[k]])
      BY <1>1 DEF Taken, ListSaved
    <3>2. k < chIdx + 1 /\ k \in DOMAIN list /\ chIdx + 1 \in DOMAIN list
      BY <1>3, <2>1
    <3>3. list[k] < list[chIdx + 1]
      BY <3>2 DEF Sound, Increasing
    <3>4. list[k] # icnt
      BY <3>3, <2>1, <1>3
    <3>. QED BY <3>1, <3>4, <1>1, <1>4 DEF Saved, hart, loop
  <2>3. /\ \A k \in chIdx + 1 .. Len(list) : icnt <= list[k]
        /\ first[icnt] = calls
    BY <1>1, <2>1 DEF Taken, ListSaved
  <2>. QED BY <1>1, <2>1, <2>2, <2>3 DEF ListSaved, hart, loop
<1>. QED BY <1>5, <1>6, <1>7 DEF Taken

\* When dumpState returns, the file of icnt is complete.
LEMMA CloseSaves ==
    ASSUME IInv, CloseDump
    PROVE  Saved(icnt, calls)
<1>1. icnt \in DOMAIN files /\ opened[icnt] = <<icnt, calls, mem>> /\ FileOk(icnt)
      /\ files[icnt].header # NoHeader /\ mem \in Memory
  BY DEF CloseDump, IInv, TypeOK, Writing, FilesOk
<1>2. /\ files[icnt].header.calls = calls
      /\ files[icnt].header.pages = Cardinality(Used(mem))
      /\ ToSet(files[icnt].pages) \subseteq Used(mem)
      /\ Len(files[icnt].pages) = Cardinality(ToSet(files[icnt].pages))
  BY <1>1 DEF FileOk
<1>3. ToSet(files[icnt].pages) = Used(mem)
  BY <1>2 DEF CloseDump, NonZero, Used
<1>. QED BY <1>1, <1>2, <1>3 DEF Saved, Complete

LEMMA CloseTaken == IInv /\ Taken /\ CloseDump => Taken'
<1>. SUFFICES ASSUME IInv, Taken, CloseDump PROVE Taken'
  OBVIOUS
<1>1. CASE Exit
  BY <1>1 DEF Exit, Taken, History, IntervalSaved, ListSaved
<1>2. CASE ~Exit
  <2>1. /\ phase = "pages" /\ phase' = "exec"
        /\ chIdx' = (IF mode = "list" THEN chIdx + 1 ELSE chIdx)
        /\ UNCHANGED <<disk, loop, hart>>
    BY <1>2 DEF CloseDump
  <2>2. icnt \in Nat /\ init \in Nat /\ chIdx \in 0 .. Len(list) /\ list \in Seq(Nat)
        /\ init <= icnt /\ (mode = "list" => chIdx < Len(list))
    BY <2>1, ListIsSequence DEF IInv, TypeOK, Icnts, Budget, LoopOk
  <2>3. Saved(icnt, calls) /\ last[icnt] = calls
    BY <2>1, CloseSaves DEF Taken, History
  <2>4. History'
    BY <2>1 DEF Taken, History, loop, hart
  <2>5. IntervalSaved'
    <3>. SUFFICES ASSUME mode = "interval", NEW n \in init .. icnt, n % dumpIcnt = 0
                  PROVE  Saved(n, last[n])
      BY <2>1 DEF IntervalSaved, Saved, loop, hart, disk
    <3>1. CASE n < icnt
      BY <3>1, <2>1 DEF Taken, IntervalSaved
    <3>2. CASE ~(n < icnt)
      <4>1. n = icnt
        BY <3>2, <2>2
      <4>. QED BY <4>1, <2>3
    <3>. QED BY <3>1, <3>2
  <2>6. ListSaved'
    <3>. SUFFICES ASSUME mode = "list", Sound PROVE ListSaved'
      BY <2>1 DEF ListSaved, Sound, loop
    <3>1. list[chIdx + 1] = icnt /\ first[icnt] = calls /\ chIdx' = chIdx + 1
      BY <2>1, <2>2 DEF Taken, ListSaved
    <3>2. ASSUME NEW k \in 1 .. chIdx + 1
          PROVE  list[k] \in init .. icnt /\ Saved(list[k], first[list[k]])
      <4>1. CASE k = chIdx + 1
        BY <4>1, <3>1, <2>2, <2>3
      <4>2. CASE k # chIdx + 1
        <5>1. k \in 1 .. chIdx
          BY <4>2, <2>2
        <5>. QED BY <5>1, <2>1 DEF Taken, ListSaved
      <4>. QED BY <4>1, <4>2
    <3>3. ASSUME NEW k \in chIdx + 2 .. Len(list) PROVE icnt < list[k]
      <4>1. chIdx + 1 < k /\ k \in DOMAIN list /\ chIdx + 1 \in DOMAIN list
        BY <2>2
      <4>. QED BY <4>1, <3>1 DEF Sound, Increasing
    <3>4. ASSUME NEW k \in chIdx' + 1 .. Len(list) PROVE icnt < list[k] /\ icnt <= list[k]
      <4>1. k \in chIdx + 2 .. Len(list) /\ k \in DOMAIN list
        BY <3>1, <2>2
      <4>. QED BY <4>1, <3>3, <2>2
    <3>. QED BY <2>1, <3>1, <3>2, <3>4 DEF ListSaved, Saved, loop, hart, disk
  <2>. QED BY <2>4, <2>5, <2>6 DEF Taken
<1>. QED BY <1>1, <1>2

LEMMA ExecTaken ==
    ASSUME IInv, Taken, NEW n \in {icnt, icnt + 1}, NEW m, NEW b, Exec(n, m, b)
    PROVE  Taken'
<1>1. /\ phase = "exec" /\ phase' = "head" /\ icnt' = n
      /\ calls' = calls + 1 /\ UNCHANGED <<chIdx, disk, loop>>
  BY DEF Exec
<1>2. icnt \in Nat /\ init \in Nat /\ init <= icnt /\ chIdx \in 0 .. Len(list)
      /\ list \in Seq(Nat)
  BY ListIsSequence DEF IInv, TypeOK, Icnts, Budget
<1>3. DOMAIN first = init .. icnt /\ DOMAIN last = init .. icnt
  BY <1>1 DEF Taken, History
<1>4. (init .. icnt) \cup {n} = init .. n /\ n \in init .. n /\ n \in Nat
  BY <1>2
<1>5. /\ DOMAIN last' = init .. n /\ last'[n] = calls + 1
      /\ \A i \in (init .. icnt) \ {n} : last'[i] = last[i]
  BY <1>3, <1>4 DEF Exec
<1>6. /\ DOMAIN first' = init .. n
      /\ n = icnt + 1 => first'[n] = calls + 1
      /\ \A i \in init .. icnt : first'[i] = first[i]
  <2>1. CASE n = icnt
    BY <2>1, <1>2, <1>3 DEF Exec
  <2>2. CASE n = icnt + 1
    <3>1. n \notin DOMAIN first
      BY <2>2, <1>2, <1>3
    <3>2. first' = [i \in DOMAIN first \cup {n} |-> IF i = n THEN calls + 1 ELSE first[i]]
      BY <3>1 DEF Exec
    <3>. QED BY <3>1, <3>2, <1>3, <1>4
  <2>. QED BY <2>1, <2>2
<1>7. History'
  BY <1>1, <1>5, <1>6 DEF History, loop
<1>8. IntervalSaved'
  <2>. SUFFICES ASSUME mode = "interval", NEW k \in init .. n, k % dumpIcnt = 0, k < n
                PROVE  Saved(k, last'[k])
    BY <1>1 DEF IntervalSaved, Saved, loop, disk
  <2>1. k \in (init .. icnt) \ {n}
    BY <1>2
  <2>2. Saved(k, last[k])
    BY <2>1, <1>1 DEF Taken, IntervalSaved
  <2>. QED BY <2>1, <2>2, <1>5
<1>9. ListSaved'
  <2>. SUFFICES ASSUME mode = "list", Sound PROVE ListSaved'
    BY <1>1 DEF ListSaved, Sound, loop
  <2>1. ASSUME NEW k \in 1 .. chIdx
        PROVE  list[k] \in init .. n /\ Saved(list[k], first'[list[k]])
    <3>1. list[k] \in init .. icnt /\ Saved(list[k], first[list[k]])
      BY <1>1 DEF Taken, ListSaved
    <3>. QED BY <3>1, <1>2, <1>6
  <2>2. ASSUME NEW k \in chIdx + 1 .. Len(list) PROVE n <= list[k] /\ icnt < list[k]
    <3>1. icnt < list[k] /\ list[k] \in Nat
      BY <1>1, <1>2 DEF Taken, ListSaved
    <3>. QED BY <3>1, <1>2
  <2>3. ASSUME chIdx < Len(list), list[chIdx + 1] = n PROVE first'[n] = calls + 1
    <3>1. chIdx + 1 \in chIdx + 1 .. Len(list)
      BY <2>3, <1>2
    <3>2. icnt < n
      BY <3>1, <2>2, <2>3
    <3>. QED BY <3>2, <1>2, <1>6
  <2>. QED BY <1>1, <2>1, <2>2, <2>3 DEF ListSaved, Saved, loop, disk
<1>. QED BY <1>7, <1>8, <1>9 DEF Taken

LEMMA NextTaken == IInv /\ Taken /\ [Next]_vars => Taken'
<1>. SUFFICES ASSUME IInv, Taken, [Next]_vars PROVE Taken'
  OBVIOUS
<1>1. CASE \E m \in Memory : StartImage(m)
  <2>1. 0 \in Icnts
    BY CheckpointsAssumption DEF Icnts
  <2>. QED BY <1>1, <2>1, EnterTaken DEF StartImage
<1>2. CASE \E n \in Icnts : StartDump(n)
  <2>1. PICK n \in Icnts : StartDump(n)
    BY <1>2
  <2>2. n \in DOMAIN files /\ files[n].header # NoHeader
    BY <2>1 DEF StartDump, Complete
  <2>3. FileOk(n)
    BY <2>2 DEF IInv, FilesOk
  <2>4. files[n].header.icnt = n
    BY <2>2, <2>3 DEF FileOk
  <2>. QED BY <2>1, <2>4, EnterTaken DEF StartDump
<1>3. CASE Kill \/ End
  BY <1>3 DEF Kill, End, Exit, Taken, History, IntervalSaved, ListSaved
<1>4. CASE Go
  BY <1>4, GoTaken
<1>5. CASE OpenDump \/ WriteHeader \/ WritePage
  BY <1>5, WriteTaken
<1>6. CASE CloseDump
  BY <1>6, CloseTaken
<1>7. CASE Retire
  BY <1>7, ExecTaken DEF Retire
<1>8. CASE Trap \/ Break
  BY <1>8, ExecTaken DEF Trap, Break
<1>9. CASE UNCHANGED vars
  BY <1>9 DEF vars, disk, loop, hart, Taken, History, IntervalSaved, ListSaved, Saved, Sound
<1>. QED BY <1>1, <1>2, <1>3, <1>4, <1>5, <1>6, <1>7, <1>8, <1>9 DEF Next

LEMMA TakenInvariant == Spec => [](IInv /\ Taken)
<1>1. Init => IInv /\ Taken
  BY InitInv DEF Init, Taken, History, IntervalSaved, ListSaved
<1>2. IInv /\ Taken /\ [Next]_vars => (IInv /\ Taken)'
  BY NextInv, NextTaken
<1>. QED BY <1>1, <1>2, PTL DEF Spec

-----------------------------------------------------------------------------
(* The theorems.                                                           *)

\* The state of the session, its loop and its files is well typed; a file's
\* header never promises more pages than there are (main.cc, saveState.cc).
THEOREM TypeCorrect == Spec => []TypeOK
<1>1. IInv => TypeOK
  BY DEF IInv
<1>. QED BY <1>1, Invariant, PTL

\* A file that loadState accepts gives back the state dumpState was called in,
\* whenever the process that wrote it was killed and however often the file
\* was written (saveState.cc).
THEOREM LoadedIsDumped == Spec => []CheckpointsAreStates
<1>1. IInv => CheckpointsAreStates
  <2>. SUFFICES ASSUME IInv, NEW n \in DOMAIN files, Complete(files[n])
                PROVE  <<n, files[n].header.calls, Loaded(files[n])>> = opened[n]
    BY DEF CheckpointsAreStates
  <2>. DEFINE f == files[n]
              o == opened[n]
  <2>1. FileOk(n) /\ f.header # NoHeader /\ Len(f.pages) = f.header.pages
    BY DEF IInv, FilesOk, Complete
  <2>2. /\ o \in Icnts \X Icnts \X Memory /\ o[1] = n /\ f.header.calls = o[2]
        /\ ToSet(f.pages) \subseteq Used(o[3])
        /\ Cardinality(ToSet(f.pages)) = Cardinality(Used(o[3]))
    BY <2>1 DEF FileOk
  <2>3. o[3] \in Memory
    BY <2>2
  <2>4. ToSet(f.pages) = Used(o[3])
    BY <2>2, <2>3, UsedFinite, FS_Subset
  <2>5. Loaded(f) = o[3]
    BY <2>3, <2>4 DEF Loaded, Used, Memory
  <2>. QED BY <2>2, <2>5
<1>. QED BY <1>1, Invariant, PTL

\* A session runs the instructions it was allowed, counted from where it
\* started (main, the three loops).
THEOREM BudgetIsKept == Spec => []BudgetKept
<1>1. IInv => BudgetKept
  <2>. SUFFICES ASSUME IInv PROVE BudgetKept
    OBVIOUS
  <2>1. /\ icnt \in 0 .. MaxCalls /\ init \in Nat /\ insns \in Nat /\ init <= icnt
        /\ icnt <= maxicnt /\ maxicnt \in Nat
        /\ chIdx \in 0 .. Len(list)
    BY DEF IInv, TypeOK, Budget, Icnts
  <2>2. CASE phase = "idle"
    BY <2>1, <2>2 DEF IInv, Budget, BudgetKept
  <2>3. CASE phase # "idle"
    <3>1. maxicnt = IF insns = Unlimited THEN insns ELSE insns + init
      BY <2>3 DEF IInv, Budget
    <3>2. icnt - init <= insns
      BY <2>1, <3>1
    <3>3. icnt < maxicnt \/ icnt - init = insns
      BY <2>1, <3>1, CheckpointsAssumption
    <3>4. ASSUME mode = "list", ~(chIdx < Len(list)) PROVE chIdx = Len(list)
      <4>1. Len(list) \in Nat
        BY ListIsSequence DEF IInv
      <4>. QED BY <4>1, <2>1, <3>4
    <3>5. ASSUME mode = "plain", ~(icnt < dumpIcnt) PROVE icnt >= dumpIcnt
      <4>1. dumpIcnt \in Nat
        BY CheckpointsAssumption DEF IInv, TypeOK
      <4>. QED BY <4>1, <2>1, <3>5
    <3>. QED BY <3>2, <3>3, <3>4, <3>5 DEF BudgetKept, Continue
  <2>. QED BY <2>2, <2>3
<1>. QED BY <1>1, Invariant, PTL

\* The interval loop leaves no multiple of the interval without its checkpoint,
\* which is of the state after the traps taken there (main.cc, --checkpoints).
THEOREM NoIntervalIsMissed == Spec => []IntervalsAreTaken
<1>1. IInv /\ Taken => IntervalsAreTaken
  <2>. SUFFICES ASSUME IInv, Taken, mode = "interval", NEW n \in Icnts, Passed(n), n % dumpIcnt = 0
                PROVE  Saved(n, last[n])
    BY DEF IntervalsAreTaken, Saved
  <2>1. n \in init .. icnt /\ n < icnt /\ phase # "idle"
    BY DEF Passed, Icnts, IInv, TypeOK, Budget
  <2>. QED BY <2>1 DEF Taken, IntervalSaved
<1>. QED BY <1>1, TakenInvariant, PTL

\* The list loop takes every location it passes, at its first arrival there
\* (main.cc, the loop over the locations of a simpoint file).
THEOREM NoLocationIsMissed == Spec => []ListedAreTaken
<1>1. IInv /\ Taken => ListedAreTaken
  <2>. SUFFICES ASSUME IInv, Taken, mode = "list", Sound, NEW n \in ToSet(list), Passed(n)
                PROVE  Saved(n, first[n])
    BY DEF ListedAreTaken, Saved, Sound
  <2>1. list \in Seq(Nat) /\ chIdx \in 0 .. Len(list) /\ Len(list) \in Nat /\ icnt \in Nat
        /\ phase # "idle" /\ n < icnt
    BY ListIsSequence DEF IInv, TypeOK, Icnts, Passed
  <2>2. PICK k \in 1 .. Len(list) : n = list[k]
    BY <2>1 DEF ToSet
  <2>3. k \in 1 .. chIdx
    <3>1. n \in Nat
      BY <2>1, <2>2
    <3>2. k \in chIdx + 1 .. Len(list) => icnt <= n
      BY <2>1, <2>2 DEF Taken, ListSaved
    <3>. QED BY <3>1, <3>2, <2>1
  <2>. QED BY <2>1, <2>2, <2>3 DEF Taken, ListSaved
<1>. QED BY <1>1, TakenInvariant, PTL
=============================================================================
