---------------------------- MODULE TrapsProofs ----------------------------
(***************************************************************************)
(* Theorems about Traps, for every set of interrupts, addresses and        *)
(* writable values and every instruction count.                            *)
(***************************************************************************)
EXTENDS Traps, WellFoundedInduction, TLAPS

\* A non-empty set of interrupt numbers has a greatest element.
LEMMA MaxInSet ==
    ASSUME NEW X \in SUBSET (0 .. 31), X # {}
    PROVE  Max(X) \in X
<1>. DEFINE T == {31 - x : x \in X}
<1>1. T \subseteq Nat /\ T # {}
  <2>1. T \subseteq Nat
    OBVIOUS
  <2>2. PICK x \in X : TRUE
    OBVIOUS
  <2>3. 31 - x \in T
    OBVIOUS
  <2>. QED BY <2>1, <2>3
<1>2. PICK t \in T : \A y \in T : ~ (<<y, t>> \in OpToRel(<, Nat))
  <2>. HIDE DEF T
  <2>. QED BY <1>1, NatLessThanWellFounded, WFMin
<1>3. \A y \in T : ~ (y < t)
  BY <1>1, <1>2 DEF OpToRel
<1>4. PICK x \in X : t = 31 - x
  OBVIOUS
<1>5. \A y \in X : x >= y
  <2>1. TAKE y \in X
  <2>2. 31 - y \in T
    OBVIOUS
  <2>3. ~ (31 - y < 31 - x)
    BY <1>3, <1>4, <2>2
  <2>. QED BY <2>3
<1>. QED BY <1>5 DEF Max

\* take_interrupt returns an interrupt that is pending and enabled.
LEMMA IrqPending ==
    ASSUME TypeOK, Irq # 0
    PROVE  Irq \in PendingIrqs
<1>1. PendingIrqs \in SUBSET (0 .. 31)
  BY IrqsAssumption DEF TypeOK, PendingIrqs, EnabledIrqs, SampledMip
<1>. QED BY <1>1, MaxInSet DEF Irq

LEMMA SampledMipType == ASSUME TypeOK PROVE SampledMip \in SUBSET Irqs
<1>1. mip \in SUBSET Irqs /\ mip \cup {MTI} \in SUBSET Irqs
  BY IrqsAssumption DEF TypeOK
<1>2. SampledMip = mip \/ SampledMip = mip \cup {MTI}
  BY DEF SampledMip
<1>. QED BY <1>1, <1>2

LEMMA MstatusFields ==
    ASSUME TypeOK
    PROVE  /\ mstatus.ie \in SUBSET Privs
           /\ mstatus.spie \in BOOLEAN /\ mstatus.mpie \in BOOLEAN
           /\ mstatus.spp \in {U, S} /\ mstatus.mpp \in Privs
BY DEF TypeOK, Mstatus

\* The two ways handle_exception changes mstatus, spelled out field by field.
LEMMA TrapToSMstatus ==
    ASSUME TypeOK, TrapToS, priv \in {U, S}
    PROVE  /\ mstatus' \in Mstatus /\ sframe' \in Frame
           /\ mstatus'.ie = mstatus.ie \ {S}
           /\ mstatus'.spie = (priv \in mstatus.ie) /\ mstatus'.spp = priv
           /\ mstatus'.mpie = mstatus.mpie /\ mstatus'.mpp = mstatus.mpp
           /\ sframe'.priv = priv /\ sframe'.pc = pc
           /\ sframe'.ie = (priv \in mstatus.ie)
<1>. DEFINE e == priv \in mstatus.ie
<1>1. e \in BOOLEAN
  OBVIOUS
<1>2. mstatus' = [mstatus EXCEPT !.spie = e, !.spp = priv, !.ie = @ \ {S}]
  BY DEF TrapToS
<1>3. sframe' = [priv |-> priv, pc |-> pc, ie |-> e]
  BY DEF TrapToS
<1>. HIDE DEF e
<1>4. mstatus' = [ie |-> mstatus.ie \ {S}, spie |-> e, mpie |-> mstatus.mpie,
                  spp |-> priv, mpp |-> mstatus.mpp]
  BY <1>2 DEF TypeOK, Mstatus
<1>5. mstatus' \in Mstatus
  BY <1>1, <1>4, MstatusFields DEF Mstatus
<1>6. sframe' \in Frame
  BY <1>1, <1>3 DEF TypeOK, Frame
<1>7. mstatus'.spie = e /\ sframe'.ie = e
  BY <1>3, <1>4
<1>. QED BY <1>3, <1>4, <1>5, <1>6, <1>7 DEF e

LEMMA TrapToMMstatus ==
    ASSUME TypeOK, TrapToM
    PROVE  /\ mstatus' \in Mstatus /\ mframe' \in Frame
           /\ mstatus'.ie = mstatus.ie \ {M}
           /\ mstatus'.mpie = (priv \in mstatus.ie) /\ mstatus'.mpp = priv
           /\ mstatus'.spie = mstatus.spie /\ mstatus'.spp = mstatus.spp
           /\ mframe'.priv = priv /\ mframe'.pc = pc
           /\ mframe'.ie = (priv \in mstatus.ie)
<1>. DEFINE e == priv \in mstatus.ie
<1>1. e \in BOOLEAN
  OBVIOUS
<1>2. mstatus' = [mstatus EXCEPT !.mpie = e, !.mpp = priv, !.ie = @ \ {M}]
  BY DEF TrapToM
<1>3. mframe' = [priv |-> priv, pc |-> pc, ie |-> e]
  BY DEF TrapToM
<1>. HIDE DEF e
<1>4. mstatus' = [ie |-> mstatus.ie \ {M}, spie |-> mstatus.spie, mpie |-> e,
                  spp |-> mstatus.spp, mpp |-> priv]
  BY <1>2 DEF TypeOK, Mstatus
<1>5. mstatus' \in Mstatus
  BY <1>1, <1>4, MstatusFields DEF Mstatus, TypeOK
<1>6. mframe' \in Frame
  BY <1>1, <1>3 DEF TypeOK, Frame
<1>7. mstatus'.mpie = e /\ mframe'.ie = e
  BY <1>3, <1>4
<1>. QED BY <1>3, <1>4, <1>5, <1>6, <1>7 DEF e

LEMMA SretMstatus ==
    ASSUME TypeOK, Sret
    PROVE  /\ mstatus' \in Mstatus
           /\ mstatus'.ie = Restored(mstatus.spp, mstatus.spie)
           /\ mstatus'.mpie = mstatus.mpie /\ mstatus'.mpp = mstatus.mpp
<1>1. Restored(mstatus.spp, mstatus.spie) \in SUBSET Privs
  BY MstatusFields DEF Restored, Privs
<1>2. mstatus' = [ie |-> Restored(mstatus.spp, mstatus.spie), spie |-> TRUE,
                  mpie |-> mstatus.mpie, spp |-> U, mpp |-> mstatus.mpp]
  BY DEF Sret, TypeOK, Mstatus
<1>. QED BY <1>1, <1>2, MstatusFields DEF Mstatus

LEMMA MretMstatus ==
    ASSUME TypeOK, Mret
    PROVE  /\ mstatus' \in Mstatus
           /\ mstatus'.ie = Restored(mstatus.mpp, mstatus.mpie)
           /\ mstatus'.spie = mstatus.spie /\ mstatus'.spp = mstatus.spp
<1>1. Restored(mstatus.mpp, mstatus.mpie) \in SUBSET Privs
  BY MstatusFields DEF Restored
<1>2. mstatus' = [ie |-> Restored(mstatus.mpp, mstatus.mpie), mpie |-> TRUE,
                  spie |-> mstatus.spie, spp |-> mstatus.spp, mpp |-> U]
  BY DEF Mret, TypeOK, Mstatus
<1>. QED BY <1>1, <1>2, MstatusFields DEF Mstatus, Privs

LEMMA WriteSstatusMstatus ==
    ASSUME TypeOK, NEW w \in MstatusWrites, WriteSstatus(w)
    PROVE  /\ mstatus' \in Mstatus
           /\ mstatus'.ie = (mstatus.ie \ {U, S}) \cup (w.ie \cap {U, S})
           /\ mstatus'.mpie = mstatus.mpie /\ mstatus'.mpp = mstatus.mpp
<1>1. w \in Mstatus
  BY ValuesAssumption
<1>2. mstatus' = [ie |-> (mstatus.ie \ {U, S}) \cup (w.ie \cap {U, S}),
                  spie |-> w.spie, mpie |-> mstatus.mpie, spp |-> w.spp,
                  mpp |-> mstatus.mpp]
  BY DEF WriteSstatus, TypeOK, Mstatus
<1>3. (mstatus.ie \ {U, S}) \cup (w.ie \cap {U, S}) \in SUBSET Privs
  BY <1>1, MstatusFields DEF Mstatus
<1>4. w.spie \in BOOLEAN /\ w.spp \in {U, S}
  BY <1>1 DEF Mstatus
<1>. QED BY <1>2, <1>3, <1>4, MstatusFields DEF Mstatus

LEMMA WriteMstatusMstatus ==
    ASSUME TypeOK, NEW w \in MstatusWrites, WriteMstatus(w)
    PROVE  mstatus' \in Mstatus
<1>1. w \in Mstatus
  BY ValuesAssumption
<1>. DEFINE i == (mstatus.ie \cap {H}) \cup (w.ie \ {H})
<1>2. i \in SUBSET Privs
  BY <1>1, MstatusFields DEF Mstatus
<1>3. mstatus' = [w EXCEPT !.ie = i]
  BY DEF WriteMstatus
<1>. HIDE DEF i
<1>. QED BY <1>1, <1>2, <1>3 DEF Mstatus

-----------------------------------------------------------------------------
(* Type correctness.                                                       *)

LEMMA TrapType ==
    ASSUME TypeOK, NEW code, NEW deleg, Trap(code, deleg), burst' \in Nat
    PROVE  TypeOK'
<1>1. mip' \in SUBSET Irqs
  BY SampledMipType DEF Trap
<1>2. CASE Delegated(code, deleg)
  <2>1. TrapToS /\ priv \in {U, S}
    BY <1>2 DEF Trap, Delegated
  <2>. QED BY <2>1, <1>1, TrapToSMstatus DEF Trap, TrapToS, TypeOK, csrs, Privs
<1>3. CASE ~Delegated(code, deleg)
  <2>1. TrapToM
    BY <1>3 DEF Trap
  <2>. QED BY <2>1, <1>1, TrapToMMstatus DEF Trap, TrapToM, TypeOK, csrs, Privs
<1>. QED BY <1>2, <1>3

LEMMA CompleteType ==
    ASSUME TypeOK, Running, Complete
    PROVE  icnt' \in 0 .. MaxIcnt /\ burst' \in Nat
BY ValuesAssumption DEF TypeOK, Running, Complete

LEMMA TypeInductive == TypeOK /\ [Next]_vars => TypeOK'
<1>. SUFFICES ASSUME TypeOK, [Next]_vars PROVE TypeOK'
  OBVIOUS
<1>. USE SampledMipType, CompleteType
<1>1. CASE TakeInterrupt
  <2>1. burst' \in Nat
    BY <1>1 DEF TakeInterrupt, TypeOK
  <2>. QED BY <1>1, <2>1, TrapType DEF TakeInterrupt
<1>2. CASE Retire
  BY <1>2 DEF Retire, Executing, Straight, TypeOK, csrs, frames
<1>3. ASSUME NEW code, Exception(code) PROVE TypeOK'
  BY <1>3, TrapType DEF Exception
<1>4. CASE \E code \in {FetchPageFault, LoadPageFault, StorePageFault} : PageFault(code)
  BY <1>3, <1>4 DEF PageFault
<1>5. CASE Illegal
  BY <1>3, <1>5 DEF Illegal
<1>6. CASE Ecall
  BY <1>3, <1>6 DEF Ecall, Executing, Straight, TypeOK, csrs, frames
<1>7. CASE Ebreak
  BY <1>3, <1>7 DEF Ebreak, Executing, Straight, TypeOK, csrs, frames
<1>8. CASE Sret
  BY <1>8, SretMstatus, MstatusFields DEF Sret, Executing, TypeOK, csrs, Privs
<1>9. CASE Mret
  BY <1>9, MretMstatus, MstatusFields DEF Mret, Executing, TypeOK, csrs
<1>10. ASSUME NEW t \in Times, StoreMtimecmp(t) PROVE TypeOK'
  BY <1>10, ValuesAssumption DEF StoreMtimecmp, Executing, Straight, TypeOK, csrs, frames
<1>11. ASSUME NEW w \in MstatusWrites, WriteSstatus(w) PROVE TypeOK'
  <2>1. mstatus' \in Mstatus
    BY <1>11, WriteSstatusMstatus
  <2>. QED BY <1>11, <2>1 DEF WriteSstatus, CsrWrite, Executing, Straight, TypeOK, csrs
<1>12. ASSUME NEW w \in MstatusWrites, WriteMstatus(w) PROVE TypeOK'
  <2>1. mstatus' \in Mstatus
    BY <1>12, WriteMstatusMstatus
  <2>. QED BY <1>12, <2>1 DEF WriteMstatus, CsrWrite, Executing, Straight, TypeOK, csrs
<1>13. CASE WriteEpc
  BY <1>13 DEF WriteEpc, CsrWrite, Executing, Straight, TypeOK, csrs
<1>14. CASE WriteTrapSetup
  BY <1>14, ValuesAssumption DEF WriteTrapSetup, CsrWrite, Executing, Straight, TypeOK, frames
<1>15. ASSUME NEW v \in SUBSET Irqs, WriteMip(v) PROVE TypeOK'
  BY <1>15 DEF WriteMip, CsrWrite, Executing, Straight, TypeOK, csrs, frames
<1>16. ASSUME NEW v \in SUBSET Irqs, WriteSip(v) PROVE TypeOK'
  <2>1. swMtip' \in BOOLEAN
    <3>1. swMtip' = (MTI \in v) \/ swMtip' = swMtip
      BY <1>16, Zenon DEF WriteSip
    <3>2. (MTI \in v) \in BOOLEAN /\ swMtip \in BOOLEAN
      BY DEF TypeOK
    <3>. QED BY <3>1, <3>2
  <2>2. mip' \in SUBSET Irqs
    BY <1>16 DEF WriteSip
  <2>. QED BY <1>16, <2>1, <2>2, Zenon DEF WriteSip, CsrWrite, Executing, Straight, TypeOK, csrs, frames
<1>17. CASE WriteBrk
  BY <1>17 DEF WriteBrk, CsrWrite, Executing, Straight, TypeOK, csrs, frames
<1>18. CASE UNCHANGED vars
  BY <1>18 DEF vars, TypeOK
<1>. QED BY <1>1, <1>2, <1>4, <1>5, <1>6, <1>7, <1>8, <1>9, <1>10, <1>11, <1>12,
            <1>13, <1>14, <1>15, <1>16, <1>17, <1>18 DEF Next, Stopped

LEMMA InitType == Init => TypeOK
<1>. SUFFICES ASSUME Init PROVE TypeOK
  OBVIOUS
<1>1. mstatus \in Mstatus
  BY DEF Init, Mstatus, Privs
<1>2. medeleg \in SUBSET Causes /\ mip \in SUBSET Irqs
  BY ValuesAssumption DEF Init
<1>3. 0 \in 0 .. MaxIcnt
  BY ValuesAssumption
<1>4. {pc, mepc, sepc, mtvec, stvec} \subseteq Addrs
  BY DEF Init
<1>5. priv \in Privs /\ mtimecmp \in Int /\ burst \in Nat
  BY DEF Init, Privs
<1>. QED BY <1>1, <1>2, <1>3, <1>4, <1>5 DEF Init, TypeOK

\* Every variable keeps its type; in particular no trap or return ever
\* produces a level outside U, S, H, M, and the run loop stops at maxicnt.
THEOREM TypeCorrect == Spec => []TypeOK
BY InitType, TypeInductive, PTL DEF Spec

-----------------------------------------------------------------------------
(* The registers that describe a trap being handled.                       *)

LEMMA TrapFrames ==
    ASSUME TypeOK, FramesIntact, NEW code, NEW deleg, Trap(code, deleg)
    PROVE  FramesIntact'
<1>. USE DEF U, S, M
<1>1. CASE Delegated(code, deleg)
  <2>1. TrapToS /\ priv \in {U, S}
    BY <1>1 DEF Trap, Delegated
  <2>2. mframe' = NoFrame
    BY <2>1 DEF TrapToS, FramesIntact, MFrameIntact
  <2>3. S \notin mstatus'.ie /\ mstatus'.spp = sframe'.priv
        /\ mstatus'.spie = sframe'.ie /\ sepc' = sframe'.pc /\ priv' = S
    BY <2>1, TrapToSMstatus DEF TrapToS
  <2>. QED BY <2>2, <2>3 DEF FramesIntact, MFrameIntact, SFrameIntact
<1>2. CASE ~Delegated(code, deleg)
  <2>1. TrapToM
    BY <1>2 DEF Trap
  <2>2. MFrameIntact'
    BY <2>1, TrapToMMstatus DEF TrapToM, MFrameIntact
  <2>3. SFrameIntact'
    <3>1. SUFFICES ASSUME sframe' # NoFrame PROVE SFrameIntact'
      BY DEF SFrameIntact
    <3>2. sframe' = sframe /\ priv # M
      BY <2>1, <3>1 DEF TrapToM
    <3>3. /\ priv = S /\ S \notin mstatus.ie
          /\ mstatus.spp = sframe.priv /\ mstatus.spie = sframe.ie
          /\ sepc = sframe.pc
      BY <3>1, <3>2 DEF FramesIntact, SFrameIntact
    <3>4. mframe' \in Frame /\ mframe'.priv = S /\ ~mframe'.ie
      BY <2>1, <3>3, TrapToMMstatus
    <3>5. mframe' # NoFrame
      BY <3>4, ValuesAssumption
    <3>6. /\ S \notin mstatus'.ie /\ mstatus'.spp = sframe.priv
          /\ mstatus'.spie = sframe.ie /\ sepc' = sframe.pc /\ priv' = M
      BY <2>1, <3>3, TrapToMMstatus DEF TrapToM
    <3>. QED BY <3>2, <3>4, <3>5, <3>6 DEF SFrameIntact
  <2>. QED BY <2>2, <2>3 DEF FramesIntact
<1>. QED BY <1>1, <1>2

\* What leaves the level, mstatus, the epcs and the frames alone is harmless.
LEMMA SameFrames ==
    ASSUME FramesIntact, UNCHANGED <<priv, mstatus, mepc, sepc, mframe, sframe>>
    PROVE  FramesIntact'
BY DEF FramesIntact, MFrameIntact, SFrameIntact

LEMMA FramesInductive == TypeOK /\ FramesIntact /\ [Next]_vars => FramesIntact'
<1>. SUFFICES ASSUME TypeOK, FramesIntact, [Next]_vars PROVE FramesIntact'
  OBVIOUS
<1>. USE DEF U, S, M
<1>1. CASE TakeInterrupt
  BY <1>1, TrapFrames DEF TakeInterrupt
<1>2. CASE Retire
  BY <1>2, SameFrames DEF Retire, frames
<1>3. ASSUME NEW code, Exception(code) PROVE FramesIntact'
  BY <1>3, TrapFrames DEF Exception
<1>4. CASE \E code \in {FetchPageFault, LoadPageFault, StorePageFault} : PageFault(code)
  BY <1>3, <1>4 DEF PageFault
<1>5. CASE Illegal
  BY <1>3, <1>5 DEF Illegal
<1>6. CASE Ecall
  BY <1>3, <1>6, SameFrames DEF Ecall, frames
<1>7. CASE Ebreak
  BY <1>3, <1>7, SameFrames DEF Ebreak, frames
<1>8. CASE Sret
  BY <1>8 DEF Sret, FramesIntact, MFrameIntact, SFrameIntact
<1>9. CASE Mret
  <2>1. mframe' = NoFrame
    BY <1>9 DEF Mret
  <2>2. SUFFICES ASSUME sframe' # NoFrame PROVE SFrameIntact'
    BY <2>1 DEF FramesIntact, MFrameIntact, SFrameIntact
  <2>3. sframe' = sframe /\ mframe # NoFrame /\ priv = M
    BY <1>9, <2>2 DEF Mret
  <2>4. mframe.priv = S /\ ~mframe.ie /\ S \notin mstatus.ie
        /\ mstatus.spp = sframe.priv /\ mstatus.spie = sframe.ie
        /\ sepc = sframe.pc
    BY <2>2, <2>3 DEF FramesIntact, SFrameIntact
  <2>5. mstatus.mpp = S /\ ~mstatus.mpie
    BY <2>3, <2>4 DEF FramesIntact, MFrameIntact
  <2>6. mstatus'.ie = mstatus.ie \ {S}
    BY <1>9, <2>5, MretMstatus DEF Restored
  <2>7. priv' = S /\ sepc' = sepc
        /\ mstatus'.spp = mstatus.spp /\ mstatus'.spie = mstatus.spie
    BY <1>9, <2>5, MretMstatus DEF Mret
  <2>. QED BY <2>3, <2>4, <2>6, <2>7 DEF SFrameIntact
<1>10. ASSUME NEW t \in Times, StoreMtimecmp(t) PROVE FramesIntact'
  BY <1>10, SameFrames DEF StoreMtimecmp, frames
<1>11. ASSUME NEW w \in MstatusWrites, WriteSstatus(w) PROVE FramesIntact'
  <2>1. sframe' = NoFrame /\ priv' = priv /\ mframe' = mframe /\ mepc' = mepc
    BY <1>11 DEF WriteSstatus
  <2>2. mstatus'.mpp = mstatus.mpp /\ mstatus'.mpie = mstatus.mpie
        /\ (M \in mstatus'.ie => M \in mstatus.ie)
    BY <1>11, WriteSstatusMstatus
  <2>. QED BY <2>1, <2>2 DEF FramesIntact, MFrameIntact, SFrameIntact
<1>12. ASSUME NEW w \in MstatusWrites, WriteMstatus(w) PROVE FramesIntact'
  BY <1>12 DEF WriteMstatus, FramesIntact, MFrameIntact, SFrameIntact
<1>13. CASE WriteEpc
  BY <1>13 DEF WriteEpc, FramesIntact, MFrameIntact, SFrameIntact
<1>14. CASE WriteTrapSetup
  BY <1>14, SameFrames DEF WriteTrapSetup, frames
<1>15. ASSUME NEW v \in SUBSET Irqs, WriteMip(v) \/ WriteSip(v) PROVE FramesIntact'
  BY <1>15, SameFrames DEF WriteMip, WriteSip, frames
<1>16. CASE WriteBrk
  BY <1>16, SameFrames DEF WriteBrk, frames
<1>17. CASE UNCHANGED vars
  BY <1>17, SameFrames DEF vars
<1>. QED BY <1>1, <1>2, <1>4, <1>5, <1>6, <1>7, <1>8, <1>9, <1>10, <1>11, <1>12,
            <1>13, <1>14, <1>15, <1>16, <1>17 DEF Next, Stopped

LEMMA InitFrames == Init => FramesIntact
BY DEF Init, FramesIntact, MFrameIntact, SFrameIntact

\* The level, the pc and the interrupt enable that a trap saved stay in the
\* registers until the software rewrites them or returns, at S even across
\* traps into M.
THEOREM FramesStayIntact == Spec => []FramesIntact
BY TypeCorrect, InitFrames, FramesInductive, PTL DEF Spec

-----------------------------------------------------------------------------
(* Interrupts.                                                             *)

\* Where an interrupt that is taken leads, given what it may interrupt.
LEMMA InterruptStep ==
    ASSUME TypeOK, TakeInterrupt
    PROVE  /\ Irq \in mie /\ Irq \in EnabledIrqs
           /\ \/ /\ TrapToS /\ priv \in {U, S} /\ Irq \in mideleg
                 /\ priv = S => S \in mstatus.ie
              \/ /\ TrapToM /\ (priv \in {U, S} => Irq \notin mideleg)
                 /\ priv = M => M \in mstatus.ie /\ Irq \notin mideleg
<1>. USE DEF U, S, H, M
<1>1. Irq \in mie /\ Irq \in EnabledIrqs
  BY IrqPending DEF TakeInterrupt, PendingIrqs
<1>2. CASE Delegated(Irq, mideleg)
  BY <1>1, <1>2 DEF TakeInterrupt, Trap, Delegated, EnabledIrqs
<1>3. CASE ~Delegated(Irq, mideleg)
  BY <1>1, <1>3 DEF TakeInterrupt, Trap, Delegated, EnabledIrqs
<1>. QED BY <1>1, <1>2, <1>3

LEMMA BurstInductive == TypeOK /\ BurstBounded /\ [Next]_vars => BurstBounded'
<1>. SUFFICES ASSUME TypeOK, BurstBounded, [Next]_vars PROVE BurstBounded'
  OBVIOUS
<1>. USE DEF U, S, M
<1>1. CASE TakeInterrupt
  <2>1. burst' = burst + 1 /\ burst \in Nat
    BY <1>1 DEF TakeInterrupt, TypeOK
  <2>2. CASE TrapToS /\ priv \in {U, S} /\ (priv = S => S \in mstatus.ie)
    <3>1. burst = 0
      BY <2>1, <2>2 DEF BurstBounded
    <3>2. priv' = S /\ S \notin mstatus'.ie
      BY <2>2, TrapToSMstatus DEF TrapToS
    <3>. QED BY <2>1, <3>1, <3>2 DEF BurstBounded
  <2>3. CASE TrapToM /\ (priv = M => M \in mstatus.ie)
    <3>1. burst \in {0, 1}
      BY <2>1, <2>3 DEF BurstBounded
    <3>2. priv' = M /\ M \notin mstatus'.ie
      BY <2>3, TrapToMMstatus DEF TrapToM
    <3>. QED BY <2>1, <3>1, <3>2 DEF BurstBounded
  <2>. QED BY <1>1, <2>2, <2>3, InterruptStep
<1>2. CASE burst' = 0
  BY <1>2 DEF BurstBounded
<1>3. CASE UNCHANGED vars
  BY <1>3 DEF vars, BurstBounded
<1>4. Next => TakeInterrupt \/ burst' = 0 \/ UNCHANGED vars
  BY DEF Next, Stopped, Retire, PageFault, Illegal, Ecall, Ebreak, Sret, Mret,
         StoreMtimecmp, WriteSstatus, WriteMstatus, WriteEpc, WriteTrapSetup,
         WriteMip, WriteSip, WriteBrk, CsrWrite, Complete, Exception
<1>. QED BY <1>1, <1>2, <1>3, <1>4

LEMMA InitBurst == Init => BurstBounded
BY DEF Init, BurstBounded

\* Entering a handler masks what was just taken: at most two interrupts are
\* taken in a row, so a handler's first instruction is always executed.
THEOREM BurstIsBounded == Spec => []BurstBounded
BY TypeCorrect, InitBurst, BurstInductive, PTL DEF Spec

LEMMA RoutingStep ==
    ASSUME TypeOK, TakeInterrupt
    PROVE  /\ priv' \in {S, M} /\ priv' >= priv
           /\ priv' = S => Irq \in mideleg
           /\ Irq \in mideleg => priv # M /\ (priv' = M => priv = H)
<1>. USE DEF U, S, H, M
<1>1. priv \in {U, S, H, M}
  BY DEF TypeOK, Privs
<1>2. CASE TrapToS /\ priv \in {U, S} /\ Irq \in mideleg
  BY <1>2 DEF TrapToS
<1>3. CASE /\ TrapToM /\ (priv \in {U, S} => Irq \notin mideleg)
           /\ priv = M => M \in mstatus.ie /\ Irq \notin mideleg
  BY <1>1, <1>3 DEF TrapToM
<1>. QED BY <1>2, <1>3, InterruptStep

\* Interrupts are routed to the level their delegation names, upwards only.
THEOREM InterruptsAreRouted == Spec => InterruptRouting
<1>1. TypeOK /\ [Next]_vars =>
        [TakeInterrupt =>
          /\ priv' \in {S, M} /\ priv' >= priv
          /\ priv' = S => Irq \in mideleg
          /\ Irq \in mideleg => priv # M /\ (priv' = M => priv = H)]_vars
  BY RoutingStep
<1>. QED BY <1>1, TypeCorrect, PTL DEF Spec, InterruptRouting

\* An interrupt never overwrites the registers of a trap being handled.
THEOREM HandlersAreUninterrupted == Spec => HandlerUninterrupted
<1>1. TypeOK /\ FramesIntact /\ [Next]_vars =>
        [TakeInterrupt => /\ priv' = M => mframe = NoFrame
                          /\ priv' = S => sframe = NoFrame]_vars
  <2>. SUFFICES ASSUME TypeOK, FramesIntact, TakeInterrupt
                PROVE  /\ priv' = M => mframe = NoFrame
                       /\ priv' = S => sframe = NoFrame
    OBVIOUS
  <2>. USE DEF U, S, M
  <2>1. CASE TrapToS /\ priv \in {U, S} /\ (priv = S => S \in mstatus.ie)
    BY <2>1 DEF TrapToS, FramesIntact, SFrameIntact
  <2>2. CASE TrapToM /\ (priv = M => M \in mstatus.ie)
    BY <2>2 DEF TrapToM, FramesIntact, MFrameIntact
  <2>. QED BY <2>1, <2>2, InterruptStep
<1>. QED BY <1>1, TypeCorrect, FramesStayIntact, PTL DEF Spec, HandlerUninterrupted

\* mret and sret hand back exactly what the trap they end took away.
THEOREM ReturnsRestore == Spec => ReturnRestores
<1>1. TypeOK /\ FramesIntact /\ [Next]_vars =>
        [/\ Mret /\ mframe # NoFrame =>
              /\ priv' = mframe.priv /\ pc' = mframe.pc
              /\ (mframe.priv \in mstatus'.ie) = mframe.ie
         /\ Sret /\ sframe # NoFrame =>
              /\ priv' = sframe.priv /\ pc' = sframe.pc
              /\ (sframe.priv \in mstatus'.ie) = sframe.ie]_vars
  <2>. SUFFICES ASSUME TypeOK, FramesIntact
                PROVE  /\ Mret /\ mframe # NoFrame =>
                            /\ priv' = mframe.priv /\ pc' = mframe.pc
                            /\ (mframe.priv \in mstatus'.ie) = mframe.ie
                       /\ Sret /\ sframe # NoFrame =>
                            /\ priv' = sframe.priv /\ pc' = sframe.pc
                            /\ (sframe.priv \in mstatus'.ie) = sframe.ie
    OBVIOUS
  <2>1. ASSUME NEW x, NEW b \in BOOLEAN
        PROVE  (x \in Restored(x, b)) = b
    BY DEF Restored
  <2>2. ASSUME Mret, mframe # NoFrame
        PROVE  /\ priv' = mframe.priv /\ pc' = mframe.pc
               /\ (mframe.priv \in mstatus'.ie) = mframe.ie
    <3>1. priv' = mframe.priv /\ pc' = mframe.pc
      BY <2>2 DEF Mret, FramesIntact, MFrameIntact
    <3>2. mframe.priv = mstatus.mpp /\ mframe.ie = mstatus.mpie
      BY <2>2 DEF FramesIntact, MFrameIntact
    <3>3. mstatus'.ie = Restored(mstatus.mpp, mstatus.mpie) /\ mstatus.mpie \in BOOLEAN
      BY <2>2, MretMstatus, MstatusFields
    <3>. QED BY <3>1, <3>2, <3>3, <2>1
  <2>3. ASSUME Sret, sframe # NoFrame
        PROVE  /\ priv' = sframe.priv /\ pc' = sframe.pc
               /\ (sframe.priv \in mstatus'.ie) = sframe.ie
    <3>1. priv' = sframe.priv /\ pc' = sframe.pc
      BY <2>3 DEF Sret, FramesIntact, SFrameIntact
    <3>2. sframe.priv = mstatus.spp /\ sframe.ie = mstatus.spie
      BY <2>3 DEF FramesIntact, SFrameIntact
    <3>3. mstatus'.ie = Restored(mstatus.spp, mstatus.spie) /\ mstatus.spie \in BOOLEAN
      BY <2>3, SretMstatus, MstatusFields
    <3>. QED BY <3>1, <3>2, <3>3, <2>1
  <2>. QED BY <2>2, <2>3
<1>. QED BY <1>1, TypeCorrect, FramesStayIntact, PTL DEF Spec, ReturnRestores

-----------------------------------------------------------------------------
(* The timer.                                                              *)

LEMMA SampledMtip ==
    ASSUME MtipHonest
    PROVE  (MTI \in SampledMip /\ ~swMtip) => icnt >= mtimecmp
BY DEF MtipHonest, SampledMip

\* Sampling the timer and letting time pass keep mip.mtip honest.
LEMMA MtipKept ==
    ASSUME TypeOK, MtipHonest, UNCHANGED <<mtimecmp, swMtip>>,
           icnt' \in {icnt, icnt + 1}, mip' = SampledMip
    PROVE  MtipHonest'
BY SampledMtip DEF MtipHonest, TypeOK

LEMMA MtipInductive == TypeOK /\ MtipHonest /\ [Next]_vars => MtipHonest'
<1>. SUFFICES ASSUME TypeOK, MtipHonest, [Next]_vars PROVE MtipHonest'
  OBVIOUS
<1>1. CASE UNCHANGED vars
  BY <1>1 DEF vars, MtipHonest
<1>2. ASSUME NEW code, NEW deleg, Trap(code, deleg) PROVE MtipHonest'
  BY <1>2, MtipKept DEF Trap
<1>3. CASE \/ TakeInterrupt \/ Illegal
           \/ \E code \in {FetchPageFault, LoadPageFault, StorePageFault} : PageFault(code)
  BY <1>2, <1>3 DEF TakeInterrupt, PageFault, Illegal, Exception
<1>4. CASE Retire \/ Sret \/ Mret \/ WriteEpc \/ WriteTrapSetup \/ WriteBrk
  BY <1>4, MtipKept DEF Retire, Sret, Mret, WriteEpc, WriteTrapSetup, WriteBrk,
                        CsrWrite, Complete
<1>5. CASE Ecall \/ Ebreak
  BY <1>2, <1>5, MtipKept DEF Ecall, Ebreak, Exception, Complete
<1>6. ASSUME NEW t \in Times, StoreMtimecmp(t) PROVE MtipHonest'
  BY <1>6 DEF StoreMtimecmp, MtipHonest
<1>7. ASSUME NEW w \in MstatusWrites, WriteSstatus(w) \/ WriteMstatus(w) PROVE MtipHonest'
  BY <1>7, MtipKept DEF WriteSstatus, WriteMstatus, CsrWrite, Complete
<1>8. ASSUME NEW v \in SUBSET Irqs, WriteMip(v) PROVE MtipHonest'
  BY <1>8 DEF WriteMip, MtipHonest
<1>9. ASSUME NEW v \in SUBSET Irqs, WriteSip(v) PROVE MtipHonest'
  <2>1. icnt' = icnt + 1 /\ mtimecmp' = mtimecmp
    BY <1>9 DEF WriteSip, CsrWrite, Complete
  <2>2. SUFFICES ASSUME MTI \in mip', ~swMtip' PROVE icnt' >= mtimecmp'
    BY DEF MtipHonest
  <2>3. MTI \in SampledMip /\ ~swMtip
    BY <1>9, <2>2 DEF WriteSip
  <2>. QED BY <2>1, <2>3, SampledMtip DEF TypeOK
<1>. QED BY <1>1, <1>3, <1>4, <1>5, <1>6, <1>7, <1>8, <1>9 DEF Next, Stopped

LEMMA InitMtip == Init => MtipHonest
BY DEF Init, MtipHonest

\* A pending timer interrupt that no CSR instruction forged means that the
\* time programmed last has come.
THEOREM MtipIsHonest == Spec => []MtipHonest
BY TypeCorrect, InitMtip, MtipInductive, PTL DEF Spec
=============================================================================
