-------------------------------- MODULE Random --------------------------------
(***************************************************************************)
(* The random numbers of the evaluator's library, Random.h: the generators *)
(* of Generators, and two distributions over a range that cut several      *)
(* numbers out of one word.  The second of them divides with libdivide,    *)
(* rejects words so as to be free of bias, and is not: it rejects one too  *)
(* many.                                                                   *)
(***************************************************************************)
EXTENDS Generators, FiniteSets

CONSTANT ChunkBits      \* tBits: bits of a word that a draw uses

VARIABLES
    buffer, usesLeft,   \* FastUniformIntDistribution
    word                \* the word that filled its buffer

distributionVars == <<divisor, buffer, usesLeft, word>>
randomVars == <<generatorVars, distributionVars>>

RandomInit ==
    /\ GeneratorInit
    /\ DividerInit
    /\ buffer = 0 /\ usesLeft = 0 /\ word = 0

-----------------------------------------------------------------------------
\* FastUniformIntDistribution: a word is good for several draws, each from
\* ChunkBits of it, scaled to the range.  Fault: the bits left over are used.
OneUseMore == WordBits \div ChunkBits + 1
Uses == WordBits \div ChunkBits

Scaled(b, diff) == ((b % 2 ^ ChunkBits) * diff) \div 2 ^ ChunkBits

Draw(w) ==
    LET full == usesLeft = 0
    IN  /\ word' = IF full THEN w ELSE word
        /\ buffer' = (IF full THEN w ELSE buffer) \div 2 ^ ChunkBits
        /\ usesLeft' = (IF full THEN Uses ELSE usesLeft) - 1
        /\ UNCHANGED <<divisor, generatorVars>>

-----------------------------------------------------------------------------
\* FastUniformIntDistribution2: a word below the biggest power of the range
\* is cut into digits.  Words are rejected from one less than the power on.
RECURSIVE BiggestPower(_, _)
BiggestPower(n, d) ==
    IF (Base - 1) \div d ^ n >= d THEN BiggestPower(n + 1, d) ELSE n
RECURSIVE Narrowed(_, _)
Narrowed(mask, max) ==
    IF \A i \in 0 .. WordBits - 1 : Bit(max, i) = 1 => Bit(mask \div 2, i) = 1
      THEN Narrowed(mask \div 2, max) ELSE mask

\* A range of one number: no word but the largest is rejected, and the uses,
\* -1 in an unsigned, do not run out.
OfOneNumber == [uses |-> Base - 1, max |-> Base - 1, mask |-> Base - 1]

OfMore(d) ==
    LET n     == BiggestPower(1, d)
        pow   == d ^ n
        exact == pow % Half = 0 /\ (pow \div Half) * d = Half
        max   == Word((IF exact THEN pow * d ELSE pow) - 1)
    IN  [uses |-> IF exact THEN n + 1 ELSE n, max |-> max, mask |-> Narrowed(Base - 1, max)]

InitializeConstants(d) == IF d <= 1 THEN OfOneNumber ELSE OfMore(d)

GetBits(k) == {b \in 0 .. k.mask : b < k.max}

RECURSIVE Digits(_, _, _)
Digits(b, uses, den) ==
    IF uses = 0 THEN <<>>
    ELSE LET quotient == U64Do(b, den.magic)
         IN  <<Word(b - quotient * den.of)>> \o Digits(quotient, uses - 1, den)

InitDistribution(d) ==
    /\ NewDivider(d)
    /\ UNCHANGED <<generatorVars, buffer, usesLeft, word>>

\* One object of each kind, each used on its own.
FastNext == \E w \in Words : Draw(w)
EvenNext == \E d \in 1 .. Base - 1 : InitDistribution(d)

-----------------------------------------------------------------------------
Frequency(n, S, Of(_)) == Cardinality({x \in S : Of(x) = n})

\* As often as any other number, or once less.
ChunksAreEven ==
    \A diff \in 1 .. 2 ^ ChunkBits : \A m, n \in 0 .. diff - 1 :
        LET Of(b) == Scaled(b, diff)
        IN  Frequency(m, 0 .. 2 ^ ChunkBits - 1, Of) <= Frequency(n, 0 .. 2 ^ ChunkBits - 1, Of) + 1

Divider(d) == [magic |-> U64Gen(d, FALSE), of |-> d]

\* What is drawn from a word is in the range, and two words that are not
\* rejected give two different sequences of draws.
DigitsAreFresh(d) ==
    LET k   == InitializeConstants(d)
        den == Divider(d)
        all == {Digits(b, k.uses, den) : b \in GetBits(k)}
    IN  /\ all \subseteq [1 .. k.uses -> 0 .. d - 1]
        /\ Cardinality(all) = Cardinality(GetBits(k))
        /\ 2 * k.max > k.mask

\* A range of one number has one sequence of draws, as long as wanted.
OneIsDrawn ==
    LET k == InitializeConstants(1)
    IN  \A b \in GetBits(k) : Digits(b, MaxRange, Divider(1)) = [i \in 1 .. MaxRange |-> 0]

(***************************************************************************)
(* No draw uses a bit that another has used: of a word, the first          *)
(* distribution hands out disjoint chunks, and the second different draws  *)
(* for different words, none out of the range, from whatever divider and   *)
(* mask the range comes to.  A chunk yields every number of the range as   *)
(* often as any other, or once less, and at most every other word is       *)
(* rejected.                                                               *)
(***************************************************************************)
DrawsAreFresh ==
    /\ buffer = word \div 2 ^ (ChunkBits * (IF word = 0 /\ usesLeft = 0 THEN 0 ELSE Uses - usesLeft))
    /\ usesLeft > 0 => ChunkBits * (Uses - usesLeft + 1) <= WordBits
    /\ usesLeft = Uses - 1 => ChunksAreEven
    /\ divisor \in 2 .. Half - 1 => DigitsAreFresh(divisor)
    /\ divisor = 1 => OneIsDrawn

(***************************************************************************)
(* What Random.h:132 says of the second distribution, "without bias": each *)
(* number of the range is drawn as often as any other, at every use of a   *)
(* word.  It is not: the limit is one less than the power of the range, of *)
(* which getBits rejects that word too, the one that draws the largest     *)
(* number at every use.                                                    *)
(***************************************************************************)
DrawsWithoutBias ==
    divisor \in 2 .. Half - 1 =>
        LET k     == InitializeConstants(divisor)
            den   == Divider(divisor)
            draws == [b \in GetBits(k) |-> Digits(b, k.uses, den)]
            Often(i, n) == Cardinality({b \in DOMAIN draws : draws[b][i] = n})
        IN  \A i \in 1 .. k.uses : \A m, n \in 0 .. divisor - 1 : Often(i, m) = Often(i, n)

=============================================================================
