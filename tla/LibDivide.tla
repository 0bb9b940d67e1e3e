------------------------------ MODULE LibDivide ------------------------------
(***************************************************************************)
(* libdivide: division by an invariant divisor as a multiplication and     *)
(* shifts.  gen turns a divisor into a magic number, do divides by it.     *)
(* The code has each algorithm for 32 bits, where a product fits in 64,    *)
(* and for 64, where it is put together from halves (the portable branch   *)
(* of each #if); and for vectors.  Here a word has WordBits bits, whatever *)
(* the kind: the arithmetic wraps as it does there, and the kinds differ   *)
(* in the primitives they use.  A signed word is a number from -Base/2.    *)
(* The bits of the field "more" are fields of a record.                    *)
(***************************************************************************)
EXTENDS Integers

CONSTANT HalfBits       \* half a word: 16 or 32 there, a bound here

ASSUME HalfBitsAssumption == HalfBits \in Nat \ {0}

VARIABLE divisor        \* the divisor at hand, 0 before it is chosen

WordBits == 2 * HalfBits
Base     == 2 ^ WordBits
Half     == 2 ^ HalfBits

Word(x)   == x % Base
Signed(x) == IF (x % Base) < Base \div 2 THEN x % Base ELSE (x % Base) - Base
ShiftLeft(x, k)  == Word(x * 2 ^ k)
ShiftRight(x, k) == x \div 2 ^ k        \* of a negative number: arithmetic

LeadingZeros(x) ==
    CHOOSE z \in 0 .. WordBits - 1 : x \in 2 ^ (WordBits - 1 - z) .. 2 ^ (WordBits - z) - 1
FloorLog2(x) == WordBits - 1 - LeadingZeros(x)
IsPowerOf2(x) == x = 2 ^ FloorLog2(x)

Words == 0 .. Base - 1

\* The bits of either word, as there is no operator for them.
Bit(x, i) == (x \div 2 ^ i) % 2
Or(x, y) ==
    CHOOSE z \in Words : \A i \in 0 .. WordBits - 1 :
        Bit(z, i) = IF Bit(x, i) = 1 \/ Bit(y, i) = 1 THEN 1 ELSE 0

-----------------------------------------------------------------------------
(***************************************************************************)
(* The high word of a product, and the division of two words by one.       *)
(***************************************************************************)
MulHi(x, y)       == (x * y) \div Base
MulHiSigned(x, y) == Signed((x * y) \div Base)

MulHiHalves(x, y) ==
    LET x0 == x % Half  x1 == x \div Half  y0 == y % Half  y1 == y \div Half
        temp == Word(x1 * y0 + (x0 * y0) \div Half)
    IN  Word(x1 * y1 + temp \div Half + Word((temp % Half) + x0 * y1) \div Half)

MulHiSignedHalves(x, y) ==
    LET x0 == x % Half  x1 == x \div Half  y0 == y % Half  y1 == y \div Half
        t  == Signed(x1 * y0 + (x0 * y0) \div Half)
        w1 == Signed(x0 * y1 + (t % Half))
    IN  Signed(x1 * y1 + t \div Half + w1 \div Half)

Div(u1, u0, v) ==
    LET n == u1 * Base + u0
        q == Word(n \div v)
    IN  [quot |-> q, rem |-> Word(n - q * v)]

\* A quotient digit is estimated, and corrected while it is too big and the
\* remainder is one digit long: as often as it takes.
TooBig(q, rhat, vn0, un) == q >= Half \/ Word(q * vn0) > Word(Half * rhat + un)
Settled(k, q, rhat, vn1, vn0, un) ==
    \/ ~TooBig(q - k, rhat + k * vn1, vn0, un)
    \/ k > 0 /\ rhat + k * vn1 >= Half
Digit(q, rhat, vn1, vn0, un) ==
    q - CHOOSE k \in 0 .. Half : /\ Settled(k, q, rhat, vn1, vn0, un)
                                /\ \A j \in 0 .. k - 1 : ~Settled(j, q, rhat, vn1, vn0, un)

DivHalves(u1, u0, divider) ==
    IF u1 >= divider THEN [quot |-> Base - 1, rem |-> Base - 1]
    ELSE LET s    == LeadingZeros(divider)
             v    == ShiftLeft(divider, s)
             un64 == IF s > 0 THEN Or(ShiftLeft(u1, s), ShiftRight(u0, WordBits - s))
                     ELSE Or(u1, u0)
             un10 == ShiftLeft(u0, s)
             vn1  == v \div Half        vn0 == v % Half
             un1  == un10 \div Half     un0 == un10 % Half
             q1   == Digit(un64 \div vn1, un64 % vn1, vn1, vn0, un1)
             un21 == Word(un64 * Half + un1 - q1 * v)
             q0   == Digit(un21 \div vn1, un21 % vn1, vn1, vn0, un0)
         IN  [quot |-> Word(q1 * Half + q0),
              rem  |-> ShiftRight(Word(un21 * Half + un0 - q0 * v), s)]

\* Two words <<high, low>>, shifted to the left, or to the right by -s.
Shift2(u, s) ==
    IF s > 0
      THEN <<ShiftLeft(u[1], s) + ShiftRight(u[2], WordBits - s), ShiftLeft(u[2], s)>>
      ELSE <<ShiftRight(u[1], -s), ShiftRight(u[2], -s) + ShiftLeft(u[1], WordBits + s)>>

Borrow(low, minus) == IF low < minus THEN 1 ELSE 0
Less1(u) == IF u = <<0, 0>> THEN u
            ELSE <<u[1] - Borrow(u[2], 1), Word(u[2] - 1)>>
Minus2(u, v) == <<Word(u[1] - v[1] - Borrow(u[2], v[2])), Word(u[2] - v[2])>>

\* Two words by two words: the divisor is normalised, the quotient by its
\* high word is right or too small by one, and is corrected.
Corrected(q0, u, v) ==
    LET q0v == <<Word(q0[1] * v[2] + q0[2] * v[1] + MulHiHalves(q0[2], v[2])),
                 Word(q0[2] * v[2])>>
        r   == Minus2(u, q0v)
    IN  IF r[1] > v[1] \/ (r[1] = v[1] /\ r[2] >= v[2])
          THEN [quot |-> Word(q0[2] + 1), rem |-> Minus2(r, v)]
          ELSE [quot |-> q0[2], rem |-> r]

DivDoubles(u, v) ==
    IF v[1] = 0
      THEN LET d == DivHalves(u[1], u[2], v[2]) IN [quot |-> d.quot, rem |-> <<0, d.rem>>]
      ELSE LET n  == LeadingZeros(v[1])
               u1 == Shift2(u, -1)
               q1 == DivHalves(u1[1], u1[2], Shift2(v, n)[1]).quot
           IN  Corrected(Less1(Shift2(Shift2(<<0, q1>>, n), -(WordBits - 1))), u, v)

-----------------------------------------------------------------------------
(***************************************************************************)
(* Unsigned division.                                                      *)
(***************************************************************************)
\* The next power needs one bit more than a word: the magic number and the
\* remainder are doubled.  Fault: the remainder is doubled without a carry.
DoubledNoCarry(m, rem, d) ==
    Word(2 * m + (IF Word(2 * rem) >= d THEN 1 ELSE 0))
Doubled(m, rem, d) ==
    LET twice == Word(2 * rem)
    IN  Word(2 * m + (IF twice >= d \/ twice < rem THEN 1 ELSE 0))

UnsignedGen(d, branchfree, Divide(_, _, _)) ==
    LET k == FloorLog2(d)
        p == Divide(2 ^ k, 0, d)
    IN  IF IsPowerOf2(d)
          THEN IF branchfree
                 THEN [magic |-> 0, shift |-> k - 1, add |-> TRUE, shiftPath |-> FALSE]
                 ELSE [magic |-> 0, shift |-> k, add |-> FALSE, shiftPath |-> TRUE]
        ELSE IF ~branchfree /\ d - p.rem < 2 ^ k
          THEN [magic |-> Word(1 + p.quot), shift |-> k, add |-> FALSE,
                shiftPath |-> FALSE]
          ELSE [magic |-> Word(1 + Doubled(p.quot, p.rem, d)), shift |-> k,
                add |-> TRUE, shiftPath |-> FALSE]

U32Gen(d, branchfree) == UnsignedGen(d, branchfree, Div)
U64Gen(d, branchfree) == UnsignedGen(d, branchfree, DivHalves)

\* The algorithm without a branch is algorithm 2.
UnsignedAlg0(n, den) == ShiftRight(n, den.shift)
UnsignedAlg1(q, den) == ShiftRight(q, den.shift)
UnsignedAlg2(n, q, den) == ShiftRight(Word(ShiftRight(Word(n - q), 1) + q), den.shift)

U32Algorithm(den) == IF den.shiftPath THEN 0 ELSE IF ~den.add THEN 1 ELSE 2
U64Algorithm(den) == IF den.shiftPath THEN 0 ELSE IF ~den.add THEN 1 ELSE 2

UnsignedDo(n, q, den) ==
    IF den.shiftPath THEN UnsignedAlg0(n, den)
    ELSE IF den.add THEN UnsignedAlg2(n, q, den) ELSE UnsignedAlg1(q, den)
U32Do(n, den) == UnsignedDo(n, MulHi(den.magic, n), den)
U64Do(n, den) == UnsignedDo(n, MulHiHalves(den.magic, n), den)

U32BranchfreeDo(n, den) == UnsignedAlg2(n, MulHi(den.magic, n), den)
U64BranchfreeDo(n, den) == UnsignedAlg2(n, MulHiHalves(den.magic, n), den)

\* A vector of 32-bit words is multiplied in pairs: the even word as it is,
\* the odd one moved down; the one product is moved down, the other masked.
Pair == 0 .. 1
MulHiPair(lane, y) ==
    LET even == (lane[0] * y) \div Base
        odd  == Base * ((lane[1] * y) \div Base)
    IN  [i \in Pair |-> IF i = 0 THEN (even + odd) % Base ELSE (even + odd) \div Base]

U32DoVector(lane, den) ==
    LET q == MulHiPair(lane, den.magic)
    IN  [i \in Pair |-> UnsignedDo(lane[i], q[i], den)]
U32BranchfreeDoVector(lane, den) ==
    LET q == MulHiPair(lane, den.magic)
    IN  [i \in Pair |-> UnsignedAlg2(lane[i], q[i], den)]
U64DoVector(n, den) == UnsignedDo(n, MulHiHalves(n, den.magic), den)
U64BranchfreeDoVector(n, den) == UnsignedAlg2(n, MulHiHalves(n, den.magic), den)

U32Recover(den) ==
    IF den.shiftPath THEN 2 ^ den.shift
    ELSE IF ~den.add THEN Word(1 + Div(2 ^ den.shift, 0, den.magic).quot)
    ELSE LET halfN == 2 ^ (WordBits + den.shift)
             d     == Base + den.magic
             fullQ == 2 * (halfN \div d) + (IF 2 * (halfN % d) >= d THEN 1 ELSE 0)
         IN  Word(fullQ + (IF den.magic # 0 THEN 1 ELSE 0))

\* The quotient for twice the dividend, rounded up.
TwiceRoundedUp(half, d) ==
    LET lo == Word(2 * half.rem[2])
        hi == 2 * half.rem[1] + Borrow(lo, half.rem[2])
        exceeds == hi > d[1] \/ (hi = d[1] /\ lo >= d[2])
    IN  Word(2 * half.quot + (IF exceeds THEN 1 ELSE 0) + 1)
U64Recover(den) ==
    IF den.shiftPath THEN 2 ^ den.shift
    ELSE IF ~den.add THEN Word(1 + DivHalves(2 ^ den.shift, 0, den.magic).quot)
    ELSE IF den.magic = 0 THEN ShiftLeft(1, den.shift + 1)
    ELSE TwiceRoundedUp(DivDoubles(<<2 ^ den.shift, 0>>, <<1, den.magic>>), <<1, den.magic>>)

-----------------------------------------------------------------------------
(***************************************************************************)
(* Signed division, which rounds towards zero.                             *)
(***************************************************************************)
SignedGen(d, branchfree, Divide(_, _, _)) ==
    LET absD == Word(IF d < 0 THEN -d ELSE d)
        k    == FloorLog2(absD)
        p    == Divide(2 ^ (k - 1), 0, absD)
        fits == ~branchfree /\ absD - p.rem < 2 ^ k
        m    == Signed(1 + (IF fits THEN p.quot ELSE Doubled(p.quot, p.rem, absD)))
    IN  IF IsPowerOf2(absD)
          THEN [magic |-> 0, shift |-> k, add |-> FALSE, negative |-> d < 0,
                shiftPath |-> TRUE]
          ELSE [magic |-> IF d < 0 /\ ~branchfree THEN Signed(-m) ELSE m,
                shift |-> IF fits THEN k - 1 ELSE k, add |-> ~fits,
                negative |-> d < 0, shiftPath |-> FALSE]

S32Gen(d, branchfree) == SignedGen(d, branchfree, Div)
S64Gen(d, branchfree) == SignedGen(d, branchfree, DivHalves)

Negated(q, negative) == IF negative THEN Signed(-q) ELSE q

\* Shifting rounds down; a negative number is raised first, by one less than
\* the divisor.
Raised(n, den) == Signed(n + (IF n < 0 THEN 2 ^ den.shift - 1 ELSE 0))

TowardsZero(q) == IF q < 0 THEN q + 1 ELSE q

SignedByShift(n, den, Shift(_, _)) ==
    Negated(Shift(Raised(n, den), den.shift), den.negative)
SignedByMagic(n, q, den, Shift(_, _)) ==
    LET added == IF ~den.add THEN q
                 ELSE Signed(IF den.negative THEN q - n ELSE q + n)
    IN  TowardsZero(Shift(added, den.shift))

S32Do(n, den) ==
    IF den.shiftPath THEN SignedByShift(n, den, ShiftRight)
    ELSE SignedByMagic(n, MulHiSigned(den.magic, n), den, ShiftRight)
S64Do(n, den) ==
    IF den.magic = 0 THEN SignedByShift(n, den, ShiftRight)
    ELSE SignedByMagic(n, MulHiSignedHalves(den.magic, n), den, ShiftRight)

SignedBranchfree(n, mulHi, isPowerOf2, den, Shift(_, _)) ==
    LET q == Signed(mulHi + n)
        r == Signed(q + (IF q < 0 THEN 2 ^ den.shift - (IF isPowerOf2 THEN 1 ELSE 0)
                                  ELSE 0))
    IN  Negated(Shift(r, den.shift), den.negative)
S32BranchfreeDo(n, den) ==
    SignedBranchfree(n, MulHiSigned(den.magic, n), den.shiftPath, den, ShiftRight)
S64BranchfreeDo(n, den) ==
    SignedBranchfree(n, MulHiSignedHalves(den.magic, n), den.magic = 0, den, ShiftRight)

\* Vectors lack a signed product: the unsigned one is corrected by each
\* operand where the other is negative.  They lack a 64-bit arithmetic shift
\* too: its sign is extended by an exclusive or and a subtraction.
Where(negative, x) == IF negative \div Half >= Half \div 2 THEN x ELSE 0
MulHiSignedPair(lane, y) ==
    LET p == MulHiPair([i \in Pair |-> Word(lane[i])], Word(y))
    IN  [i \in Pair |-> Signed(p[i] - Where(Word(lane[i]), y) - Where(Word(y), lane[i]))]
MulHiSignedFlat(x, y) ==
    Signed(MulHiHalves(Word(x), Word(y)) - Where(Word(x), y) - Where(Word(y), x))
ShiftRightFlat(v, k) ==
    LET m == 2 ^ (WordBits - k - 1)
        x == Word(v) \div 2 ^ k
    IN  Signed((IF x >= m THEN x - m ELSE x + m) - m)

S32DoVector(lane, den) ==
    LET q == MulHiSignedPair(lane, den.magic)
    IN  [i \in Pair |->
            IF den.shiftPath THEN SignedByShift(lane[i], den, ShiftRight)
            ELSE SignedByMagic(lane[i], q[i], den, ShiftRight)]
S32BranchfreeDoVector(lane, den) ==
    LET q == MulHiSignedPair(lane, den.magic)
    IN  [i \in Pair |->
            SignedBranchfree(lane[i], q[i], den.magic = 0, den, ShiftRight)]
S64DoVector(n, den) ==
    IF den.magic = 0 THEN SignedByShift(n, den, ShiftRightFlat)
    ELSE SignedByMagic(n, MulHiSignedFlat(n, den.magic), den, ShiftRightFlat)
S64BranchfreeDoVector(n, den) ==
    SignedBranchfree(n, MulHiSignedFlat(n, den.magic), den.magic = 0, den, ShiftRightFlat)

\* The sign of the magic number tells whether gen negated it.
MagicOf(den) ==
    LET negated == IF den.add THEN den.magic > 0 ELSE den.magic < 0
    IN  Word(IF negated THEN -den.magic ELSE den.magic)

S32Recover(den) ==
    IF den.shiftPath \/ den.magic = 0 THEN Negated(Signed(2 ^ den.shift), den.negative)
    ELSE Negated(Signed(1 + 2 ^ (WordBits + den.shift) \div MagicOf(den)), den.negative)
S64Recover(den) ==
    IF den.magic = 0 THEN Negated(Signed(2 ^ den.shift), den.negative)
    ELSE Negated(Signed(1 + DivHalves(2 ^ den.shift, 0, MagicOf(den)).quot), den.negative)

S32Algorithm(den) ==
    IF den.shiftPath THEN (IF den.negative THEN 1 ELSE 0)
    ELSE IF den.add THEN (IF den.negative THEN 3 ELSE 2) ELSE 4
S64Algorithm(den) ==
    IF den.magic = 0 THEN (IF den.negative THEN 1 ELSE 0)
    ELSE IF den.add THEN (IF den.negative THEN 3 ELSE 2) ELSE 4

\* The algorithms by their numbers, for a caller that chose one beforehand.
SignedAlg(alg, n, q, den, Shift(_, _)) ==
    IF alg = 0 THEN Shift(Raised(n, den), den.shift)
    ELSE IF alg = 1 THEN Signed(-Shift(Raised(n, den), den.shift))
    ELSE TowardsZero(Shift(IF alg = 2 THEN Signed(q + n)
                           ELSE IF alg = 3 THEN Signed(q - n) ELSE q, den.shift))
S32DoAlg(alg, n, den) == SignedAlg(alg, n, MulHiSigned(den.magic, n), den, ShiftRight)
S64DoAlg(alg, n, den) ==
    SignedAlg(alg, n, MulHiSignedHalves(den.magic, n), den, ShiftRight)
S32DoVectorAlg(alg, lane, den) ==
    LET q == MulHiSignedPair(lane, den.magic)
    IN  [i \in Pair |-> SignedAlg(alg, lane[i], q[i], den, ShiftRight)]
S64DoVectorAlg(alg, n, den) ==
    SignedAlg(alg, n, MulHiSignedFlat(n, den.magic), den, ShiftRightFlat)

-----------------------------------------------------------------------------
\* A divider is made for one divisor and used for any number of numerators.
DividerInit == divisor = 0
NewDivider(d) == divisor = 0 /\ divisor' = d
DividerNext == \E d \in 1 .. Base - 1 : NewDivider(d)

DividerSpec == DividerInit /\ [][DividerNext]_divisor

\* The quotient of the language, which truncates.
Quotient(n, d) ==
    LET size == (IF n < 0 THEN -n ELSE n) \div (IF d < 0 THEN -d ELSE d)
    IN  IF (n < 0) = (d < 0) THEN size ELSE -size

Both(a, b) == [i \in Pair |-> IF i = 0 THEN a ELSE b]

UnsignedExact(d) ==
    LET u32 == U32Gen(d, FALSE)  u64 == U64Gen(d, FALSE)
        b32 == U32Gen(d, TRUE)   b64 == U64Gen(d, TRUE)
    IN  /\ U32Recover(u32) = d /\ U64Recover(u64) = d
        /\ U32Algorithm(u32) = U64Algorithm(u64)
        /\ d # 1 => U32Recover(b32) = d /\ U64Recover(b64) = d
        /\ \A n \in Words :
              LET q      == n \div d
                  lanes  == Both(n, Base - 1 - n)
                  quotes == Both(q, (Base - 1 - n) \div d)
              IN  /\ U32Do(n, u32) = q /\ U64Do(n, u64) = q
                  /\ U32DoVector(lanes, u32) = quotes /\ U64DoVector(n, u64) = q
                  /\ d # 1 =>
                        /\ U32BranchfreeDo(n, b32) = q /\ U64BranchfreeDo(n, b64) = q
                        /\ U32BranchfreeDoVector(lanes, b32) = quotes
                        /\ U64BranchfreeDoVector(n, b64) = q

\* The least number divided by -1 has no quotient.
SignedExact(d) ==
    LET s32 == S32Gen(d, FALSE)  s64 == S64Gen(d, FALSE)
        b32 == S32Gen(d, TRUE)   b64 == S64Gen(d, TRUE)
        a32 == S32Algorithm(s32) a64 == S64Algorithm(s64)
    IN  /\ S32Recover(s32) = d /\ S64Recover(s64) = d
        /\ d \notin {1, -1} => S32Recover(b32) = d /\ S64Recover(b64) = d
        /\ \A n \in {Signed(w) : w \in Words} \ {IF d = -1 THEN -(Base \div 2) ELSE Base} :
              LET q      == Quotient(n, d)
                  lanes  == Both(1, n)
                  quotes == Both(Quotient(1, d), q)
              IN  /\ S32Do(n, s32) = q /\ S64Do(n, s64) = q
                  /\ S32DoAlg(a32, n, s32) = q /\ S64DoAlg(a64, n, s64) = q
                  /\ S32DoVector(lanes, s32) = quotes /\ S64DoVector(n, s64) = q
                  /\ S32DoVectorAlg(a32, lanes, s32) = quotes
                  /\ S64DoVectorAlg(a64, n, s64) = q
                  /\ d \notin {1, -1} =>
                        /\ S32BranchfreeDo(n, b32) = q /\ S64BranchfreeDo(n, b64) = q
                        /\ S32BranchfreeDoVector(lanes, b32) = quotes
                        /\ S64BranchfreeDoVector(n, b64) = q

(***************************************************************************)
(* For every divisor and every numerator of a word: each of the algorithms *)
(* divides exactly, and the divisor can be had back from its magic number. *)
(* The branch-free ones do not support 1 and -1, as the code says.         *)
(***************************************************************************)
DividesExactly ==
    divisor # 0 => UnsignedExact(divisor) /\ SignedExact(Signed(divisor))

=============================================================================
