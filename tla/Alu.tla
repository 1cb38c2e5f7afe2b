-------------------------------- MODULE Alu --------------------------------
(***************************************************************************)
(* What the integer instructions compute: opcodes 0x13, 0x1b, 0x33, 0x3b   *)
(* and the branches 0x63 of execRiscv_, with the M, Zba, Zbb and Zicond    *)
(* extensions, on registers of Xlen bits.  A register holds a number in    *)
(* 0 .. 2^Xlen - 1; Signed gives the two's complement number that the code *)
(* sees in gpr.  The instructions of one opcode are the fields of one      *)
(* record, whose values are what they write to rd.                         *)
(*                                                                         *)
(* Where the code divides without a guard the outcome is the host's: the   *)
(* divide instruction of x86 kills the process (Dead), that of ARM wraps.  *)
(***************************************************************************)
EXTENDS Integers, FiniteSets, FiniteSetsExt

CONSTANTS
    Xlen, WordBits, HalfBits, ByteBits,     \* 64, 32, 16 and 8
    Corners,        \* contents of the registers at the start
    Imms,           \* sign-extended immediates
    Offsets,        \* branch offsets
    MaxSteps        \* bound on the instructions executed

Size == 2 ^ Xlen
Words == 0 .. Size - 1
Dead == -1
Regs == 0 .. 2
Hosts == {"x86", "arm"}

ASSUME WidthsAssumption ==
    /\ ByteBits \in Nat \ {0} /\ HalfBits \in Nat /\ WordBits \in Nat /\ Xlen = 2 * WordBits
    /\ ByteBits < HalfBits /\ HalfBits < WordBits /\ Xlen % ByteBits = 0
    \* the low bits of a word hold its shift amounts
    /\ 2 ^ WordBits % WordBits = 0
ASSUME ValuesAssumption ==
    Corners \subseteq Words /\ Imms \subseteq Words /\ Offsets \subseteq Words /\ MaxSteps \in Nat

VARIABLES gpr, pc, host, alive, steps
vars == <<gpr, pc, host, alive, steps>>

\* x0 is zero, which execRiscv_ asserts before every instruction
TypeOK ==
    /\ gpr \in [Regs -> Words] /\ gpr[0] = 0
    /\ pc \in Words /\ host \in Hosts /\ alive \in BOOLEAN /\ steps \in 0 .. MaxSteps

Init ==
    /\ gpr \in {[r \in Regs |-> IF r = 0 THEN 0 ELSE IF r = 1 THEN x ELSE y] : x, y \in Corners}
    /\ pc = 0 /\ host \in Hosts /\ alive = TRUE /\ steps = 0

-----------------------------------------------------------------------------
(* Words.                                                                  *)

Wrap(n) == n % Size
\* the number that the low n bits of x stand for
SignedIn(x, n) == LET low == x % 2 ^ n IN IF low < 2 ^ (n - 1) THEN low ELSE low - 2 ^ n
Signed(x) == SignedIn(x, Xlen)
SignedW(x) == SignedIn(x, WordBits)             \* get_reg_i32
Low(x) == x % 2 ^ WordBits                      \* get_reg_u32

\* Variant: the upper half is left zero.
SextZero(x) == Low(x)
Sext(x) == Wrap(SignedW(x))

\* f[0] + ... + f[n - 1]
Total(f, n) ==
    LET upTo[k \in 0 .. n] == IF k = 0 THEN 0 ELSE upTo[k - 1] + f[k - 1]
    IN  upTo[n]

\* a word as the set of its bits that are 1, and back
Bits == [x \in Words |-> {i \in 0 .. Xlen - 1 : (x \div 2 ^ i) % 2 = 1}]
Value(bits) == Total([i \in 0 .. Xlen - 1 |-> IF i \in bits THEN 2 ^ i ELSE 0], Xlen)
Not(x) == Size - 1 - x
And(x, y) == Value(Bits[x] \cap Bits[y])
Or(x, y) == Value(Bits[x] \cup Bits[y])
Xor(x, y) == Value((Bits[x] \ Bits[y]) \cup (Bits[y] \ Bits[x]))

Byte(x, k) == (x \div 2 ^ (k * ByteBits)) % 2 ^ ByteBits
Bytes == 0 .. Xlen \div ByteBits - 1
FromBytes(bytes) == Total([k \in Bytes |-> bytes[k] * 2 ^ (k * ByteBits)], Xlen \div ByteBits)

\* ror64, ror32; a rotation by 0 shifts by the width too, and yields x
Ror(x, n, width) == (x \div 2 ^ n) + (x % 2 ^ n) * 2 ^ (width - n)
\* rol64, rol32
Rol(x, n, width) == ((x * 2 ^ n) % 2 ^ width) + (x \div 2 ^ (width - n))

Abs(n) == IF n < 0 THEN -n ELSE n
\* a / b of C, for b # 0
Quotient(a, b) == (IF (a < 0) = (b < 0) THEN 1 ELSE -1) * (Abs(a) \div Abs(b))

\* Variant: the remainder has the sign of the divisor.
RemainderFloor(a, b) == IF b > 0 THEN a % b ELSE -((-a) % (-b))
\* a % b of C, for b # 0
Remainder(a, b) == a - b * Quotient(a, b)

\* a signed division whose quotient does not fit: v on ARM
Overflow(a, b, width, v) ==
    IF host = "x86" /\ a = -(2 ^ (width - 1)) /\ b = -1 THEN Dead ELSE v

Flag(p) == IF p THEN 1 ELSE 0

-----------------------------------------------------------------------------
(* The opcodes.                                                            *)

\* 0x33 with sel 0 .. 3
OpSums(a, b) ==
    [add    |-> Wrap(a + b),
     sub    |-> Wrap(a - b),
     mul    |-> Wrap(a * b),
     sll    |-> Wrap(a * 2 ^ (b % Xlen)),
     mulh   |-> Wrap((Signed(a) * Signed(b)) \div Size),
     rol    |-> Rol(a, b % Xlen, Xlen),
     slt    |-> Flag(Signed(a) < Signed(b)),
     sh1add |-> Wrap(2 * a + b),
     sltu   |-> Flag(a < b),
     mulhu  |-> (a * b) \div Size]

\* 0x33 with sel 4 and 5
OpQuotients(a, b) ==
    [xor    |-> Xor(a, b),
     div    |-> IF b = 0 THEN Size - 1
                ELSE Overflow(Signed(a), Signed(b), Xlen, Wrap(Quotient(Signed(a), Signed(b)))),
     min    |-> IF Signed(b) < Signed(a) THEN b ELSE a,
     sh2add |-> Wrap(4 * a + b),
     xnor   |-> Not(Xor(a, b)),
     srl    |-> a \div 2 ^ (b % Xlen),
     divu   |-> IF b = 0 THEN Size - 1 ELSE a \div b,
     minu   |-> IF b < a THEN b ELSE a,
     czeqz  |-> IF b = 0 THEN 0 ELSE a,
     sra    |-> Wrap(Signed(a) \div 2 ^ (b % Xlen)),
     ror    |-> Ror(a, b % Xlen, Xlen)]

\* 0x33 with sel 6 and 7; remu divides without a guard
OpRemainders(a, b) ==
    [or     |-> Or(a, b),
     rem    |-> IF b = 0 THEN Size - 1
                ELSE Overflow(Signed(a), Signed(b), Xlen, Wrap(Remainder(Signed(a), Signed(b)))),
     max    |-> IF Signed(a) < Signed(b) THEN b ELSE a,
     sh3add |-> Wrap(8 * a + b),
     orn    |-> Or(a, Not(b)),
     and    |-> And(a, b),
     remu   |-> IF b # 0 THEN a % b ELSE IF host = "x86" THEN Dead ELSE a,
     maxu   |-> IF a < b THEN b ELSE a,
     cznez  |-> IF b # 0 THEN 0 ELSE a,
     andn   |-> And(a, Not(b))]

\* 0x3b
OpWord(a, b) ==
    LET n == b % WordBits
    IN  [addw     |-> Sext(a + b),
         mulw     |-> Sext(Low(a) * Low(b)),
         adduw    |-> Wrap(Low(a) + b),
         subw     |-> Sext(Low(a) - Low(b)),
         sllw     |-> Sext(Low(a) * 2 ^ n),
         rolw     |-> Sext(Rol(Low(a), n, WordBits)),
         divw     |-> IF Low(b) = 0 THEN Size - 1
                      ELSE Overflow(SignedW(a), SignedW(b), WordBits,
                                    Sext(Quotient(SignedW(a), SignedW(b)))),
         srlw     |-> Sext(Low(a) \div 2 ^ n),
         divuw    |-> IF Low(b) = 0 THEN Size - 1 ELSE Sext(Low(a) \div Low(b)),
         sh1adduw |-> Wrap(2 * Low(a) + b),
         zexth    |-> a % 2 ^ HalfBits,
         sh2adduw |-> Wrap(4 * Low(a) + b),
         rorw     |-> Sext(Ror(Low(a), n, WordBits)),
         sh3adduw |-> Wrap(8 * Low(a) + b),
         sraw     |-> Wrap(SignedW(a) \div 2 ^ n),
         remw     |-> IF Low(b) = 0 THEN Size - 1
                      ELSE Overflow(SignedW(a), SignedW(b), WordBits,
                                    Sext(Remainder(SignedW(a), SignedW(b)))),
         remuw    |-> IF Low(b) = 0 THEN Size - 1 ELSE Sext(Low(a) % Low(b))]

\* 0x13 with an immediate; its low bits are the shift amount
OpImm(a, i) ==
    [addi  |-> Wrap(a + i),
     slli  |-> Wrap(a * 2 ^ (i % Xlen)),
     slti  |-> Flag(Signed(a) < Signed(i)),
     sltiu |-> Flag(a < i),
     xori  |-> Xor(a, i),
     srli  |-> a \div 2 ^ (i % Xlen),
     srai  |-> Wrap(Signed(a) \div 2 ^ (i % Xlen)),
     rori  |-> Ror(a, i % Xlen, Xlen),
     ori   |-> Or(a, i),
     andi  |-> And(a, i)]

\* 0x13 with one operand
OpUnary(a) ==
    [clz   |-> IF a = 0 THEN Size - 1 ELSE Xlen - 1 - Max(Bits[a]),
     ctz   |-> IF a = 0 THEN Size - 1 ELSE Min(Bits[a]),
     cpop  |-> Cardinality(Bits[a]),
     sextb |-> Wrap(SignedIn(a, ByteBits)),
     sexth |-> Wrap(SignedIn(a, HalfBits)),
     orcb  |-> FromBytes([k \in Bytes |-> IF Byte(a, k) = 0 THEN 0 ELSE 2 ^ ByteBits - 1]),
     rev8  |-> FromBytes([k \in Bytes |-> Byte(a, Xlen \div ByteBits - 1 - k)])]

\* 0x1b; clz, ctz and cpop of a word share one test for zero
OpWordImm(a, i) ==
    LET n == i % WordBits
    IN  [addiw  |-> Sext(Low(a) + i),
         slliw  |-> Sext(Low(a) * 2 ^ n),
         slliuw |-> Wrap(Low(a) * 2 ^ n),
         srliw  |-> Sext(Low(a) \div 2 ^ n),
         sraiw  |-> Wrap(SignedW(a) \div 2 ^ n),
         roriw  |-> Sext(Ror(Low(a), n, WordBits)),
         clzw   |-> IF Low(a) = 0 THEN Size - 1 ELSE WordBits - 1 - Max(Bits[Low(a)]),
         ctzw   |-> IF Low(a) = 0 THEN Size - 1 ELSE Min(Bits[Low(a)]),
         cpopw  |-> IF Low(a) = 0 THEN Size - 1 ELSE Cardinality(Bits[Low(a)])]

\* 0x63: takeBranch
Taken(a, b) ==
    [beq |-> a = b, bne |-> a # b,
     blt |-> Signed(a) < Signed(b), bge |-> Signed(a) >= Signed(b),
     bltu |-> a < b, bgeu |-> a >= b]

-----------------------------------------------------------------------------
(* Steps.                                                                  *)

\* Variant: rd = x0 is written like any other.
WriteAny(rd, v) == gpr' = [gpr EXCEPT ![rd] = v]

\* an instruction with rd = x0 is not executed at all
Write(rd, v) == gpr' = IF rd = 0 THEN gpr ELSE [gpr EXCEPT ![rd] = v]

\* results: what the instructions of an opcode would write to rd
Execute(rd, results) ==
    \E op \in DOMAIN results :
        /\ alive' = (rd = 0 \/ results[op] # Dead)
        /\ IF alive' THEN Write(rd, results[op]) /\ pc' = Wrap(pc + 4)
                     ELSE UNCHANGED <<gpr, pc>>

Branch(a, b) ==
    /\ \E op \in DOMAIN Taken(a, b), off \in Offsets :
        pc' = Wrap(pc + (IF Taken(a, b)[op] THEN off ELSE 4))
    /\ UNCHANGED <<gpr, alive>>

Next ==
    /\ alive /\ steps < MaxSteps
    /\ steps' = steps + 1
    /\ UNCHANGED host
    /\ \E rd, rs1, rs2 \in Regs :
        \/ Execute(rd, OpSums(gpr[rs1], gpr[rs2]))
        \/ Execute(rd, OpQuotients(gpr[rs1], gpr[rs2]))
        \/ Execute(rd, OpRemainders(gpr[rs1], gpr[rs2]))
        \/ Execute(rd, OpWord(gpr[rs1], gpr[rs2]))
        \/ Execute(rd, OpUnary(gpr[rs1]))
        \/ \E i \in Imms : Execute(rd, OpImm(gpr[rs1], i)) \/ Execute(rd, OpWordImm(gpr[rs1], i))
        \/ Branch(gpr[rs1], gpr[rs2])


-----------------------------------------------------------------------------
(* Properties: relations between instructions that the code computes on    *)
(* separate paths and that compilers rely on, for the contents of x1, x2.  *)

\* q and r divide a by b, rounding toward zero
Divides(a, b, q, r) ==
    /\ a = q * b + r
    /\ Abs(r) < Abs(b)
    /\ r = 0 \/ (r < 0) = (a < 0)

\* Quotients and remainders fit together, signed and unsigned, in both widths;
\* a signed overflow kills both instructions or wraps in both.
DivisionIdentity ==
    LET a == gpr[1]
        b == gpr[2]
        q == OpQuotients(a, b)
        r == OpRemainders(a, b)
        w == OpWord(a, b)
    IN  /\ b # 0 =>
            /\ (q.div = Dead) = (r.rem = Dead)
            /\ q.div # Dead =>
                \/ Divides(Signed(a), Signed(b), Signed(q.div), Signed(r.rem))
                \/ q.div = a /\ a = Size \div 2 /\ r.rem = 0
            /\ Divides(a, b, q.divu, r.remu)
        /\ Low(b) # 0 =>
            /\ (w.divw = Dead) = (w.remw = Dead)
            /\ w.divw # Dead =>
                \/ Divides(SignedW(a), SignedW(b), Signed(w.divw), Signed(w.remw))
                \/ w.divw = Sext(a) /\ w.remw = 0
            /\ Divides(Low(a), Low(b), Low(w.divuw), Low(w.remuw))

SignExtending == {"addw", "subw", "mulw", "sllw", "srlw", "sraw", "rolw", "rorw",
                  "divw", "divuw", "remw", "remuw"}

\* The W instructions ignore the upper halves of their operands, leave a
\* sign-extended result, and agree with the full-width instructions on
\* operands that are already sign- or zero-extended.
WordForms ==
    LET a == gpr[1]
        b == gpr[2]
        n == b % WordBits
        w == OpWord(a, b)
        i == OpWordImm(a, b)
    IN  /\ \A op \in SignExtending :
            /\ w[op] = OpWord(Sext(a), Low(b))[op]
            /\ w[op] # Dead => w[op] = Sext(w[op])
        /\ w.addw = Sext(OpSums(a, b).add) /\ w.subw = Sext(OpSums(a, b).sub)
        /\ w.mulw = Sext(OpSums(a, b).mul) /\ w.sllw = Sext(OpSums(a, n).sll)
        /\ w.sraw = OpQuotients(Sext(a), n).sra
        /\ w.srlw = Sext(OpQuotients(Low(a), n).srl)
        /\ Low(b) # 0 =>
            /\ w.divuw = Sext(OpQuotients(Low(a), Low(b)).divu)
            /\ w.remuw = Sext(OpRemainders(Low(a), Low(b)).remu)
            /\ w.remw # Dead => w.remw = OpRemainders(Sext(a), Sext(b)).rem
        /\ <<i.addiw, i.slliw, i.srliw, i.sraiw, i.roriw>>
            = <<w.addw, w.sllw, w.srlw, w.sraw, w.rorw>>
        /\ i.slliuw = OpSums(Low(a), n).sll

\* The branches, the comparisons that write a flag, with a register and with
\* an immediate, and the minima and maxima order the registers the same way.
OrderAgrees ==
    LET a == gpr[1]
        b == gpr[2]
        t == Taken(a, b)
        s == OpSums(a, b)
        i == OpImm(a, b)
    IN  /\ t.beq # t.bne /\ t.blt # t.bge /\ t.bltu # t.bgeu
        /\ t.blt = (s.slt = 1) /\ t.bltu = (s.sltu = 1)
        /\ <<i.slti, i.sltiu>> = <<s.slt, s.sltu>>
        /\ OpQuotients(a, b).min = IF t.blt THEN a ELSE b
        /\ OpRemainders(a, b).max = IF t.blt THEN b ELSE a
        /\ OpQuotients(a, b).minu = IF t.bltu THEN a ELSE b
        /\ OpRemainders(a, b).maxu = IF t.bltu THEN b ELSE a

\* Rotations move bits and lose none, left undoes right, and the counts of
\* bits agree with the arithmetic idioms for them.
BitsAgree ==
    LET a == gpr[1]
        b == gpr[2]
        u == OpUnary(a)
        left == OpSums(a, b).rol
        right == OpQuotients(a, b).ror
    IN  /\ OpQuotients(left, b).ror = a /\ OpSums(right, b).rol = a
        /\ OpUnary(left).cpop = u.cpop
        /\ right = OpImm(a, b).rori
        /\ right = OpSums(a, (Xlen - b) % Xlen).rol
        /\ OpUnary(u.rev8).rev8 = a
        /\ OpUnary(u.orcb).orcb = u.orcb /\ OpRemainders(a, u.orcb).andn = 0
        /\ a # 0 =>
            /\ u.ctz = OpUnary(OpRemainders(Wrap(a - 1), a).andn).cpop
            /\ OpQuotients(a, Xlen - 1 - u.clz).srl = 1
        /\ OpSums(OpRemainders(a, b).and, OpRemainders(a, b).or).add = OpSums(a, b).add

\* Instructions that can compute the same thing on different paths of
\* execRiscv_ compute the same.
FormsAgree == WordForms /\ OrderAgrees /\ BitsAgree
=============================================================================
