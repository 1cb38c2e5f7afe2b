------------------------------- MODULE Traps -------------------------------
(***************************************************************************)
(* The trap and interrupt state of one hart: what a call of execRiscv_     *)
(* (interpret.cc) does to the privilege level, mstatus, the interrupt      *)
(* registers, the timer and the exception program counters.                *)
(*                                                                         *)
(* Every action is one whole call of execRiscv_: the timer is sampled,     *)
(* take_interrupt is asked for an interrupt, and only when there is none   *)
(* an instruction is fetched and executed; it retires (icnt is             *)
(* incremented) or raises an exception.  Which instruction the program     *)
(* executes is a nondeterministic choice.  Registers and memory that no    *)
(* trap depends on (the gprs, mtval, mcause, mscratch ...) are left out,   *)
(* and program counters are elements of an abstract set.                   *)
(***************************************************************************)
EXTENDS Integers, FiniteSets, FiniteSetsExt

CONSTANTS
    Irqs,           \* the interrupt numbers the platform uses
    Addrs,          \* program counter values
    NoFrame,        \* "no trap is being handled"
    Times,          \* values a program stores to mtimecmp (signed, as the code compares them)
    MstatusWrites,  \* values a program writes to mstatus and sstatus
    MedelegWrites,  \* values a program writes to medeleg
    MaxIcnt         \* state_t::maxicnt: the run loop stops there

U == 0
S == 1
H == 2
M == 3
Privs == {U, S, H, M}

MTI == 7                            \* mip.mtip

IllegalInstruction == 2
Breakpoint         == 3
FetchPageFault     == 12
LoadPageFault      == 13
StorePageFault     == 15
UserEcall          == 8             \* + the current privilege
Causes == {IllegalInstruction, Breakpoint, FetchPageFault, LoadPageFault,
           StorePageFault} \cup {UserEcall + p : p \in Privs}

\* mstatus: the set of levels whose interrupt enable bit (UIE, SIE, HIE, MIE)
\* is on, and the previous enable and previous level of the two trap targets
Mstatus == [ie : SUBSET Privs, spie : BOOLEAN, mpie : BOOLEAN,
            spp : {U, S}, mpp : Privs]

\* what a trap interrupted: level, pc, and that level's interrupt enable
Frame == [priv : Privs, pc : Addrs, ie : BOOLEAN]

ASSUME IrqsAssumption == Irqs \subseteq 0 .. 31 /\ MTI \in Irqs
ASSUME ValuesAssumption ==
    /\ Addrs # {}
    /\ NoFrame \notin Frame
    /\ Times \subseteq Int
    /\ MstatusWrites \subseteq Mstatus
    /\ MedelegWrites \subseteq SUBSET Causes
    /\ MaxIcnt \in Nat

VARIABLES
    priv, mstatus, mideleg, medeleg, mie, mip,
    pc, mepc, sepc, mtvec, stvec,
    icnt, mtimecmp, brk,
    fullsim,            \* globals::fullsim, a command line option
    \* history variables, read by no action's guard:
    mframe, sframe,     \* the trap being handled at M, at S, if the software
                        \* has not touched the registers that describe it
    burst,              \* interrupts taken since an instruction last executed
    swMtip              \* mip.mtip was last written by a CSR instruction

csrs   == <<fullsim, mideleg, medeleg, mie, mtvec, stvec>>
frames == <<mframe, sframe>>
vars   == <<priv, mstatus, mideleg, medeleg, mie, mip, pc, mepc, sepc, mtvec,
            stvec, icnt, mtimecmp, brk, fullsim, mframe, sframe,
            burst, swMtip>>

TypeOK ==
    /\ priv \in Privs /\ mstatus \in Mstatus
    /\ mideleg \in SUBSET Irqs /\ mie \in SUBSET Irqs /\ mip \in SUBSET Irqs
    /\ medeleg \in SUBSET Causes
    /\ {pc, mepc, sepc, mtvec, stvec} \subseteq Addrs
    /\ icnt \in 0 .. MaxIcnt /\ mtimecmp \in Int
    /\ brk \in BOOLEAN /\ fullsim \in BOOLEAN
    /\ mframe \in Frame \cup {NoFrame} /\ sframe \in Frame \cup {NoFrame}
    /\ burst \in Nat /\ swMtip \in BOOLEAN

\* initState zeroes every CSR.  A checkpoint (loadState) resumes with the
\* delegation and the enables that a firmware had written by then.
Init ==
    /\ priv = M
    /\ mstatus = [ie |-> {}, spie |-> FALSE, mpie |-> FALSE, spp |-> U, mpp |-> U]
    /\ mideleg \in SUBSET Irqs /\ medeleg \in MedelegWrites \cup {{}}
    /\ mie \in SUBSET Irqs /\ mip = {}
    /\ \E entry \in Addrs : /\ pc = entry /\ mepc = entry /\ sepc = entry
                           /\ mtvec = entry /\ stvec = entry
    /\ icnt = 0 /\ mtimecmp = 0 /\ brk = FALSE /\ fullsim \in BOOLEAN
    /\ mframe = NoFrame /\ sframe = NoFrame /\ burst = 0 /\ swMtip = FALSE

-----------------------------------------------------------------------------
(* The head of execRiscv_: timer and interrupts.                           *)

\* mip after the timer check: get_time() is icnt, and the comparison is signed
SampledMip == IF icnt >= mtimecmp THEN mip \cup {MTI} ELSE mip

\* Variant: M takes delegated interrupts too.
EnabledIrqsAllInM ==
    CASE priv = M -> IF M \in mstatus.ie THEN Irqs ELSE {}
      [] priv = S -> (Irqs \ mideleg) \cup (IF S \in mstatus.ie THEN mideleg ELSE {})
      [] OTHER    -> Irqs

\* Variant: SIE does not mask delegated interrupts in S.
EnabledIrqsNoSie ==
    CASE priv = M -> IF M \in mstatus.ie THEN Irqs \ mideleg ELSE {}
      [] OTHER    -> Irqs

EnabledIrqs ==
    CASE priv = M -> IF M \in mstatus.ie THEN Irqs \ mideleg ELSE {}
      [] priv = S -> (Irqs \ mideleg) \cup (IF S \in mstatus.ie THEN mideleg ELSE {})
      [] OTHER    -> Irqs

PendingIrqs == SampledMip \cap mie \cap EnabledIrqs

\* take_interrupt: the highest pending number; 0 also says that there is none
Irq == IF PendingIrqs = {} THEN 0 ELSE Max(PendingIrqs)

\* Variant: the loop does not look at maxicnt.
RunningUnbounded == ~brk

Running == ~brk /\ icnt < MaxIcnt           \* keep_going

-----------------------------------------------------------------------------
(* handle_exception                                                        *)

TrapToS ==
    /\ sepc' = pc
    /\ mstatus' = [mstatus EXCEPT !.spie = priv \in mstatus.ie,
                                  !.spp = priv, !.ie = @ \ {S}]
    /\ priv' = S
    /\ pc' = stvec
    /\ sframe' = [priv |-> priv, pc |-> pc, ie |-> priv \in mstatus.ie]
    /\ UNCHANGED <<mepc, mframe>>

\* Variant: MPIE takes MIE, not the enable of the interrupted level.
TrapToMSavesMie ==
    /\ mepc' = pc
    /\ mstatus' = [mstatus EXCEPT !.mpie = M \in mstatus.ie,
                                  !.mpp = priv, !.ie = @ \ {M}]
    /\ priv' = M
    /\ pc' = mtvec
    /\ mframe' = [priv |-> priv, pc |-> pc, ie |-> priv \in mstatus.ie]
    /\ sframe' = IF priv = M THEN NoFrame ELSE sframe
    /\ UNCHANGED sepc

\* a trap from M itself overwrites a frame that firmware has not saved
TrapToM ==
    /\ mepc' = pc
    /\ mstatus' = [mstatus EXCEPT !.mpie = priv \in mstatus.ie,
                                  !.mpp = priv, !.ie = @ \ {M}]
    /\ priv' = M
    /\ pc' = mtvec
    /\ mframe' = [priv |-> priv, pc |-> pc, ie |-> priv \in mstatus.ie]
    /\ sframe' = IF priv = M THEN NoFrame ELSE sframe
    /\ UNCHANGED sepc

\* delegation is considered only below H
Delegated(code, deleg) == priv \in {U, S} /\ code \in deleg

Trap(code, deleg) ==
    /\ IF Delegated(code, deleg) THEN TrapToS ELSE TrapToM
    /\ mip' = SampledMip
    /\ UNCHANGED <<csrs, icnt, mtimecmp, brk, swMtip>>

TakeInterrupt ==
    /\ Running
    /\ Irq # 0
    /\ Trap(Irq, mideleg)
    /\ burst' = burst + 1

Exception(code) == Trap(code, medeleg) /\ burst' = 0

-----------------------------------------------------------------------------
(* The body of execRiscv_, reached when no interrupt is taken.             *)

Executing == Running /\ Irq = 0

\* instruction_complete, for instructions that leave the trap state alone
Complete == icnt' = icnt + 1 /\ burst' = 0

Straight == pc' \in Addrs

\* loads, stores, arithmetic, branches, fences, wfi
Retire ==
    /\ Executing /\ Straight /\ Complete
    /\ mip' = SampledMip
    /\ UNCHANGED <<priv, mstatus, csrs, mepc, sepc, mtimecmp, brk, frames, swMtip>>

\* a page fault of the fetch or of the access: translation is on below H only
PageFault(code) ==
    /\ Executing
    /\ priv \in {U, S}
    /\ Exception(code)

\* a CSR that does not exist, sret at U, mret below M
Illegal == Executing /\ Exception(IllegalInstruction)

\* without fullsim an ecall stops the run and falls into pc += 4; icnt++
Ecall ==
    /\ Executing
    /\ \/ /\ fullsim
          /\ Exception(UserEcall + priv)
       \/ /\ ~fullsim
          /\ brk' = TRUE /\ Straight /\ Complete /\ mip' = SampledMip
          /\ UNCHANGED <<priv, mstatus, csrs, mepc, sepc, mtimecmp, frames, swMtip>>

Ebreak ==
    /\ Executing
    /\ \/ /\ fullsim
          /\ Exception(Breakpoint)
       \/ /\ ~fullsim
          /\ Straight /\ Complete /\ mip' = SampledMip
          /\ UNCHANGED <<priv, mstatus, csrs, mepc, sepc, mtimecmp, brk, frames, swMtip>>

\* level x gets back its enable bit
Restored(x, enable) == (mstatus.ie \ {x}) \cup (IF enable THEN {x} ELSE {})

\* Variant: sret leaves the interrupt enables as they are.
SretKeepsIe ==
    /\ Executing
    /\ priv # U
    /\ mstatus' = [mstatus EXCEPT !.spie = TRUE, !.spp = U]
    /\ priv' = mstatus.spp
    /\ pc' = sepc
    /\ Complete
    /\ mip' = SampledMip
    /\ mframe' = NoFrame /\ sframe' = NoFrame
    /\ UNCHANGED <<csrs, mepc, sepc, mtimecmp, brk, swMtip>>

Sret ==
    /\ Executing
    /\ priv # U
    /\ mstatus' = [mstatus EXCEPT !.ie = Restored(mstatus.spp, mstatus.spie),
                                  !.spie = TRUE, !.spp = U]
    /\ priv' = mstatus.spp
    /\ pc' = sepc
    /\ Complete
    /\ mip' = SampledMip
    /\ mframe' = NoFrame /\ sframe' = NoFrame
    /\ UNCHANGED <<csrs, mepc, sepc, mtimecmp, brk, swMtip>>

\* an mret that does not end a trap (a boot's jump to S) ends the S frame too
Mret ==
    /\ Executing
    /\ priv = M
    /\ mstatus' = [mstatus EXCEPT !.ie = Restored(mstatus.mpp, mstatus.mpie),
                                  !.mpie = TRUE, !.mpp = U]
    /\ priv' = mstatus.mpp
    /\ pc' = mepc
    /\ Complete
    /\ mip' = SampledMip
    /\ mframe' = NoFrame
    /\ sframe' = IF mframe = NoFrame THEN NoFrame ELSE sframe
    /\ UNCHANGED <<csrs, mepc, sepc, mtimecmp, brk, swMtip>>

\* Variant: reprogramming the timer leaves mip.mtip as it is.
StoreMtimecmpKeepsMtip(t) ==
    /\ Executing /\ Straight /\ Complete
    /\ mtimecmp' = t
    /\ mip' = SampledMip
    /\ swMtip' = FALSE
    /\ UNCHANGED <<priv, mstatus, csrs, mepc, sepc, brk, frames>>

\* a store to the CLINT's mtimecmp register
StoreMtimecmp(t) ==
    /\ Executing /\ Straight /\ Complete
    /\ mtimecmp' = t
    /\ mip' = SampledMip \ {MTI}
    /\ swMtip' = FALSE
    /\ UNCHANGED <<priv, mstatus, csrs, mepc, sepc, brk, frames>>

-----------------------------------------------------------------------------
(* CSR instructions (write_csr).  No privilege is asked for.               *)

CsrWrite == Executing /\ Straight /\ Complete

WriteSstatus(w) ==
    /\ CsrWrite
    /\ mstatus' = [mstatus EXCEPT !.ie = (@ \ {U, S}) \cup (w.ie \cap {U, S}),
                                  !.spie = w.spie, !.spp = w.spp]
    /\ mip' = SampledMip
    /\ sframe' = NoFrame
    /\ UNCHANGED <<priv, csrs, mepc, sepc, mtimecmp, brk, mframe, swMtip>>

\* HIE is not in MSTATUS_MASK
WriteMstatus(w) ==
    /\ CsrWrite
    /\ mstatus' = [w EXCEPT !.ie = (mstatus.ie \cap {H}) \cup (@ \ {H})]
    /\ mip' = SampledMip
    /\ mframe' = NoFrame /\ sframe' = NoFrame
    /\ UNCHANGED <<priv, csrs, mepc, sepc, mtimecmp, brk, swMtip>>

WriteEpc ==
    /\ CsrWrite
    /\ mip' = SampledMip
    /\ \/ /\ sepc' \in Addrs /\ sframe' = NoFrame
          /\ UNCHANGED <<mepc, mframe>>
       \/ /\ mepc' \in Addrs /\ mframe' = NoFrame /\ sframe' = NoFrame
          /\ UNCHANGED sepc
    /\ UNCHANGED <<priv, mstatus, csrs, mtimecmp, brk, swMtip>>

\* stvec, mtvec, medeleg, mideleg, mie, sie: one CSR at a time
WriteTrapSetup ==
    /\ CsrWrite
    /\ mip' = SampledMip
    /\ \/ stvec' \in Addrs /\ UNCHANGED <<mtvec, medeleg, mideleg, mie>>
       \/ mtvec' \in Addrs /\ UNCHANGED <<stvec, medeleg, mideleg, mie>>
       \/ medeleg' \in MedelegWrites /\ UNCHANGED <<stvec, mtvec, mideleg, mie>>
       \/ mideleg' \in SUBSET Irqs /\ UNCHANGED <<stvec, mtvec, medeleg, mie>>
       \/ mie' \in SUBSET Irqs /\ UNCHANGED <<stvec, mtvec, medeleg, mideleg>>
       \/ /\ \E v \in SUBSET Irqs : mie' = (mie \ mideleg) \cup (v \cap mideleg)
          /\ UNCHANGED <<stvec, mtvec, medeleg, mideleg>>
    /\ UNCHANGED <<priv, mstatus, mepc, sepc, mtimecmp, brk, fullsim, frames, swMtip>>

WriteMip(v) ==
    /\ CsrWrite
    /\ mip' = v
    /\ swMtip' = (MTI \in v)
    /\ UNCHANGED <<priv, mstatus, csrs, mepc, sepc, mtimecmp, brk, frames>>

WriteSip(v) ==
    /\ CsrWrite
    /\ mip' = (SampledMip \ mideleg) \cup (v \cap mideleg)
    /\ swMtip' = IF MTI \in mideleg THEN MTI \in v ELSE swMtip
    /\ UNCHANGED <<priv, mstatus, csrs, mepc, sepc, mtimecmp, brk, frames>>

\* CSR 0xc04: the guest stops, or does not stop, the simulator
WriteBrk ==
    /\ CsrWrite
    /\ brk' \in BOOLEAN
    /\ mip' = SampledMip
    /\ UNCHANGED <<priv, mstatus, csrs, mepc, sepc, mtimecmp, frames, swMtip>>

-----------------------------------------------------------------------------
Stopped == ~Running /\ UNCHANGED vars

Next ==
    \/ TakeInterrupt
    \/ Retire
    \/ \E code \in {FetchPageFault, LoadPageFault, StorePageFault} : PageFault(code)
    \/ Illegal
    \/ Ecall
    \/ Ebreak
    \/ Sret
    \/ Mret
    \/ \E t \in Times : StoreMtimecmp(t)
    \/ \E w \in MstatusWrites : WriteSstatus(w) \/ WriteMstatus(w)
    \/ WriteEpc
    \/ WriteTrapSetup
    \/ \E v \in SUBSET Irqs : WriteMip(v) \/ WriteSip(v)
    \/ WriteBrk
    \/ Stopped

Spec == Init /\ [][Next]_vars

-----------------------------------------------------------------------------
(* Safety.                                                                 *)

\* While a trap is being handled at M and firmware has not rewritten the
\* registers that describe it, those registers still do describe it and M
\* interrupts are off.
MFrameIntact ==
    mframe # NoFrame =>
        /\ priv = M
        /\ M \notin mstatus.ie
        /\ mstatus.mpp = mframe.priv
        /\ mstatus.mpie = mframe.ie
        /\ mepc = mframe.pc

\* While a trap is being handled at S its description survives every trap
\* into M that interposes, and S interrupts are off whenever S is running:
\* either S runs, or M interrupted it and will give SIE = 0 back.
SFrameIntact ==
    sframe # NoFrame =>
        /\ S \notin mstatus.ie
        /\ mstatus.spp = sframe.priv
        /\ mstatus.spie = sframe.ie
        /\ sepc = sframe.pc
        /\ \/ priv = S
           \/ priv = M /\ mframe # NoFrame /\ mframe.priv = S /\ ~mframe.ie

FramesIntact == MFrameIntact /\ SFrameIntact

\* Between two executed instructions at most two interrupts are taken: one
\* into S and one that preempts it into M.  A third would mean that entering
\* a handler does not mask what was just taken, and the handler never runs.
BurstBounded ==
    /\ burst <= 2
    /\ burst = 1 => \/ priv = S /\ S \notin mstatus.ie
                    \/ priv = M /\ M \notin mstatus.ie
    /\ burst = 2 => priv = M /\ M \notin mstatus.ie

\* mip.mtip, unless a CSR instruction put it there, says that the timer that
\* is programmed NOW has expired: reprogramming mtimecmp leaves nothing stale.
MtipHonest == (MTI \in mip /\ ~swMtip) => icnt >= mtimecmp

-----------------------------------------------------------------------------
(* Action properties.                                                      *)

\* An interrupt goes to S or to M, never to a level below the current one;
\* only delegated interrupts go to S; a delegated one is never taken in M.
InterruptRouting ==
    [][TakeInterrupt =>
        /\ priv' \in {S, M} /\ priv' >= priv
        /\ priv' = S => Irq \in mideleg
        /\ Irq \in mideleg => priv # M /\ (priv' = M => priv = H)]_vars

\* No interrupt overwrites the description of a trap that is being handled.
HandlerUninterrupted ==
    [][TakeInterrupt => /\ priv' = M => mframe = NoFrame
                        /\ priv' = S => sframe = NoFrame]_vars

\* mret and sret give back the level, the pc and the interrupt enable that
\* the trap they end took away.
ReturnRestores ==
    [][/\ Mret /\ mframe # NoFrame =>
            /\ priv' = mframe.priv /\ pc' = mframe.pc
            /\ (mframe.priv \in mstatus'.ie) = mframe.ie
       /\ Sret /\ sframe # NoFrame =>
            /\ priv' = sframe.priv /\ pc' = sframe.pc
            /\ (sframe.priv \in mstatus'.ie) = sframe.ie]_vars

=============================================================================
