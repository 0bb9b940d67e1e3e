------------------------------ MODULE Generators ------------------------------
(***************************************************************************)
(* The generators of random numbers in Random.h: XoroShiro128Plus, a       *)
(* generator of words, and UniqueRng64, a linear congruential one whose    *)
(* numbers stay in a range and do not repeat.                              *)
(***************************************************************************)
EXTENDS LibDivide, Sequences

CONSTANTS
    RngBits,        \* bits of a word of XoroShiro128Plus: 64, a bound here
    LcgA, LcgC,     \* a and c of UniqueRng64
    MaxRange        \* bound: the range of UniqueRng64

ASSUME RngBitsAssumption == RngBits \in Nat \ {0}
ASSUME LcgAssumption     == /\ LcgA \in Nat /\ LcgC \in Nat
                            /\ LcgA % 4 = 1 /\ LcgC % 2 = 1
ASSUME RangeAssumption   == MaxRange \in 1 .. Base

VARIABLES
    rng,            \* mState of XoroShiro128Plus, <<>> before it is made
    range, idx,     \* UniqueRng64: mRange and the last number
    seen            \* the numbers it gave since the first

generatorVars == <<rng, range, idx, seen>>

GeneratorInit ==
    /\ rng = <<>>
    /\ range = 0 /\ idx = 0 /\ seen = <<>>

-----------------------------------------------------------------------------
\* XoroShiro128Plus.  Rotations go round; the state is never all zero, as no
\* other state would follow.
RngWords == 0 .. 2 ^ RngBits - 1
Xor(x, y) ==
    CHOOSE z \in RngWords : \A i \in 0 .. RngBits - 1 :
        Bit(z, i) = IF Bit(x, i) = Bit(y, i) THEN 0 ELSE 1
Rotl(x, k) ==
    LET by == k % RngBits
    IN  ((x * 2 ^ by) % 2 ^ RngBits) + x \div 2 ^ (RngBits - by)
Shl(x, k) == IF k >= RngBits THEN 0 ELSE (x * 2 ^ k) % 2 ^ RngBits

Seeded(seed) == <<2 ^ RngBits - 1 - seed, seed>>
Mixed(s) ==
    LET s1 == Xor(s[1], s[2])
    IN  <<Xor(Xor(Rotl(s[1], 55), s1), Shl(s1, 14 % RngBits)), Rotl(s1, 36)>>

Seed(n) ==
    /\ rng = <<>> /\ rng' = Seeded(n)
    /\ UNCHANGED <<range, idx, seen>>
NextWord ==
    /\ rng # <<>> /\ rng' = Mixed(rng)
    /\ UNCHANGED <<range, idx, seen>>

-----------------------------------------------------------------------------
\* UniqueRng64.  The mask keeps the low bits of the product, so that only
\* those of a and c count.  A number out of the range is passed over.
MaskOf(r) == IF r = 1 THEN 0 ELSE 2 ^ (FloorLog2(r - 1) + 1) - 1

\* Fault: the end of the range is taken for a number of it.
PastEnd(i, r)    == i > r
OutOfRange(i, r) == i >= r

Following(r, i) ==
    LET f[n \in 0 .. MaskOf(r) + 1] ==
            IF n = 0 THEN i ELSE (LcgA * f[n - 1] + LcgC) % (MaskOf(r) + 1)
    IN  f
Lcg(r, i) ==
    LET f == Following(r, i)
    IN  f[CHOOSE n \in 1 .. MaskOf(r) + 1 : /\ ~OutOfRange(f[n], r)
                                           /\ \A m \in 1 .. n - 1 : OutOfRange(f[m], r)]

MakeUnique(r, i) ==
    /\ range = 0
    /\ range' = r /\ idx' = i /\ seen' = <<>>
    /\ UNCHANGED rng
NextUnique ==
    /\ range > 0 /\ Len(seen) < range
    /\ idx' = Lcg(range, idx)
    /\ seen' = Append(seen, idx')
    /\ UNCHANGED <<rng, range>>

XoroNext   == (\E n \in RngWords : Seed(n)) \/ NextWord
UniqueNext == (\E r \in 1 .. MaxRange : \E i \in 0 .. r - 1 : MakeUnique(r, i)) \/ NextUnique

GeneratorNext == XoroNext \/ UniqueNext
GeneratorSpec == GeneratorInit /\ [][GeneratorNext]_generatorVars

-----------------------------------------------------------------------------
(***************************************************************************)
(* Neither generator gets stuck: the state of XoroShiro128Plus is never    *)
(* zero and has one predecessor, and UniqueRng64 gives every number of its *)
(* range once before it repeats one.                                       *)
(***************************************************************************)
GeneratorsAreFull ==
    /\ rng # <<>> => /\ rng # <<0, 0>>
                     /\ \A s \in {<<x, y>> : x \in RngWords, y \in RngWords} :
                           Mixed(s) = Mixed(rng) => s = rng
    /\ \A i \in DOMAIN seen : /\ seen[i] \in 0 .. range - 1
                              /\ \A j \in 1 .. i - 1 : seen[i] # seen[j]

=============================================================================
