------------------------------ MODULE Atomics ------------------------------
(***************************************************************************)
(* Opcode 0x2f beside the integer instructions: lr, sc and the AMOs, on    *)
(* words and doublewords.  Their translations and faults are in Mmu; what  *)
(* is here is what they do to memory, to rd and to the reservation.        *)
(***************************************************************************)
EXTENDS Alu

VARIABLES
    mem,            \* one doubleword in each line of 64 bytes
    llsc_addr       \* a line; 0, the cleared value, is a line too

atomicVars == <<vars, mem, llsc_addr>>

Lines == {0, 1}

\* the registers hold 64-bit numbers, and memory too
AtomicTypeOK == TypeOK /\ mem \in [Lines -> Words] /\ llsc_addr \in Lines

AtomicInit ==
    /\ Init
    /\ mem = [l \in Lines |-> gpr[1]]
    /\ llsc_addr = 0

-----------------------------------------------------------------------------

\* load32, as the unsigned word of half h, and store32
Word(x, h) == Low(x \div 2 ^ (h * WordBits))

\* Variant: the store takes the other half with it.
WithWordAlone(x, h, w) == w * 2 ^ (h * WordBits)
WithWord(x, h, w) == x - Word(x, h) * 2 ^ (h * WordBits) + w * 2 ^ (h * WordBits)

\* what the AMOs on words leave in memory, from the word w and from rs2
AmoWord(w, b) ==
    [add  |-> Low(w + b),
     swap |-> Low(b),
     or   |-> Low(Or(w, b)),
     and  |-> Low(And(w, b)),
     maxu |-> IF w < Low(b) THEN Low(b) ELSE w]

\* what they return; the code holds the word of amomaxu.w as unsigned
AmoWordResult(op, w) == IF op = "maxu" THEN w ELSE Sext(w)

\* the same on doublewords, which return what was there
AmoDouble(x, b) ==
    [add  |-> Wrap(x + b),
     swap |-> b,
     xor  |-> Xor(x, b),
     or   |-> Or(x, b),
     and  |-> And(x, b),
     maxu |-> IF b < x THEN x ELSE b]

-----------------------------------------------------------------------------
(* Steps.                                                                  *)

Retire ==
    /\ alive /\ steps < MaxSteps
    /\ steps' = steps + 1 /\ pc' = Wrap(pc + 4)
    /\ UNCHANGED <<host, alive>>

Amo(rd, b, l) ==
    /\ Retire /\ UNCHANGED llsc_addr
    /\ \/ \E h \in {0, 1}, op \in DOMAIN AmoWord(0, 0) :
            LET w == Word(mem[l], h)
            IN  /\ mem' = [mem EXCEPT ![l] = WithWord(@, h, AmoWord(w, b)[op])]
                /\ Write(rd, AmoWordResult(op, w))
       \/ \E op \in DOMAIN AmoDouble(0, 0) :
            /\ mem' = [mem EXCEPT ![l] = AmoDouble(@, b)[op]]
            /\ Write(rd, mem[l])

Lr(rd, l) ==
    /\ Retire /\ UNCHANGED mem
    /\ llsc_addr' = l
    /\ \/ \E h \in {0, 1} : Write(rd, Sext(Word(mem[l], h)))
       \/ Write(rd, mem[l])

\* an lr that faults clears the reservation; the trap is in Traps
LrFault ==
    /\ alive /\ llsc_addr' = 0
    /\ UNCHANGED <<vars, mem>>

\* sc leaves the reservation as it is
Sc(rd, b, l) ==
    /\ Retire /\ UNCHANGED llsc_addr
    /\ IF llsc_addr = l
       THEN /\ \/ \E h \in {0, 1} : mem' = [mem EXCEPT ![l] = WithWord(@, h, Low(b))]
               \/ mem' = [mem EXCEPT ![l] = b]
            /\ Write(rd, 0)
       ELSE mem' = mem /\ Write(rd, 1)

AtomicNext ==
    \/ Next /\ UNCHANGED <<mem, llsc_addr>>
    \/ LrFault
    \/ \E rd, rs2 \in Regs, l \in Lines : Amo(rd, gpr[rs2], l) \/ Sc(rd, gpr[rs2], l)
    \/ \E rd \in Regs, l \in Lines : Lr(rd, l)

AtomicSpec == AtomicInit /\ [][AtomicNext]_atomicVars

-----------------------------------------------------------------------------
(* Properties.                                                             *)

\* An AMO on each half of a doubleword does what one on the doubleword does,
\* as far as no carry crosses; and an AMO computes what the instruction of the
\* same name computes in registers.
AmosAgree ==
    LET a == mem[0]
        b == gpr[2]
        d == AmoDouble(a, b)
        half(h) == AmoWord(Word(a, h), Word(b, h))
        halves(op) == WithWord(WithWord(a, 0, half(0)[op]), 1, half(1)[op])
    IN  /\ \A op \in {"swap", "or", "and"} : halves(op) = d[op]
        /\ Word(a, 0) + Word(b, 0) < 2 ^ WordBits => halves("add") = d.add
        /\ d.add = OpSums(a, b).add /\ d.xor = OpQuotients(a, b).xor
        /\ d.or = OpRemainders(a, b).or /\ d.and = OpRemainders(a, b).and
        /\ d.maxu = OpRemainders(a, b).maxu
        /\ Sext(half(0).add) = OpWord(a, b).addw
        /\ half(0).maxu = OpRemainders(Low(a), Low(b)).maxu
=============================================================================
