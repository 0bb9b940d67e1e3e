--------------------------- MODULE ArithmeticProofs ---------------------------
(***************************************************************************)
(* That LibDivide divides exactly, for every width of a word: from powers  *)
(* of two and division with remainder, through the primitives on words and *)
(* their halves and what a magic number has to be, to each algorithm.      *)
(* Then that the generators of random numbers do not get stuck: words bit  *)
(* by bit, and the orbit of a linear congruential generator.               *)
(***************************************************************************)
EXTENDS Generators, FiniteSetTheorems, SequenceTheorems, Induction

-----------------------------------------------------------------------------
(***************************************************************************)
(* Powers of two, by counting subsets, and division with remainder.        *)
(***************************************************************************)
LEMMA SubsetsOf ==
  ASSUME NEW n \in Nat
  PROVE  /\ IsFiniteSet(SUBSET (1 .. n)) /\ Cardinality(SUBSET (1 .. n)) = 2 ^ n
         /\ 2 ^ n \in Nat
  <1>1. IsFiniteSet(1 .. n) /\ Cardinality(1 .. n) = n
    <2>1. IsFiniteSet(1 .. n) /\ Cardinality(1 .. n) = IF 1 > n THEN 0 ELSE n - 1 + 1
      BY FS_Interval
    <2> QED BY <2>1
  <1>2. IsFiniteSet(SUBSET (1 .. n)) /\ Cardinality(SUBSET (1 .. n)) = 2 ^ n
    BY <1>1, FS_SUBSET
  <1> QED BY <1>2, FS_CardinalityType

\* Each element more doubles the subsets.
LEMMA PowerDoubles ==
  ASSUME NEW n \in Nat
  PROVE  2 ^ n \in Nat /\ 2 ^ n > 0 /\ 2 ^ (n + 1) = 2 * 2 ^ n
  <1> DEFINE A == SUBSET (1 .. n)
             B == {T \in SUBSET (1 .. n + 1) : n + 1 \in T}
             f == [T \in A |-> T \cup {n + 1}]
  <1>1. IsFiniteSet(A) /\ Cardinality(A) = 2 ^ n /\ 2 ^ n \in Nat
    BY SubsetsOf
  <1>2. Cardinality(SUBSET (1 .. n + 1)) = 2 ^ (n + 1)
    BY SubsetsOf
  <1>3. A \cap B = {} /\ A \cup B = SUBSET (1 .. n + 1)
    <2>1. \A i \in 1 .. n : i \in 1 .. n + 1 /\ i # n + 1
      OBVIOUS
    <2>2. \A i \in 1 .. n + 1 : i \in 1 .. n \/ i = n + 1
      OBVIOUS
    <2>3. A \cap B = {}
      BY <2>1
    <2>4. A \cup B \subseteq SUBSET (1 .. n + 1)
      BY <2>1
    <2>5. SUBSET (1 .. n + 1) \subseteq A \cup B
      BY <2>2
    <2> QED BY <2>3, <2>4, <2>5
  <1>4. IsFiniteSet(B) /\ Cardinality(B) = Cardinality(A)
    <2>1. f \in [A -> B]
      <3> SUFFICES ASSUME NEW T \in A PROVE T \cup {n + 1} \in B
          OBVIOUS
      <3>1. \A i \in 1 .. n : i \in 1 .. n + 1
        OBVIOUS
      <3>2. n + 1 \in 1 .. n + 1
        OBVIOUS
      <3> QED BY <3>1, <3>2
    <2>2. \A S, T \in A : f[S] = f[T] => S = T
      <3> SUFFICES ASSUME NEW S \in A, NEW T \in A, f[S] = f[T] PROVE S = T
          OBVIOUS
      <3>1. S \cup {n + 1} = T \cup {n + 1}
        OBVIOUS
      <3>2. n + 1 \notin S /\ n + 1 \notin T
        OBVIOUS
      <3> QED BY <3>1, <3>2
    <2>3. \A T \in B : \E S \in A : f[S] = T
      <3> SUFFICES ASSUME NEW T \in B PROVE \E S \in A : f[S] = T
          OBVIOUS
      <3> DEFINE S == T \ {n + 1}
      <3>1. \A i \in 1 .. n + 1 : i \in 1 .. n \/ i = n + 1
        OBVIOUS
      <3>2. S \in A
        BY <3>1
      <3>3. S \cup {n + 1} = T
        OBVIOUS
      <3>4. f[S] = T
        BY <3>2, <3>3
      <3> QED BY <3>2, <3>4
    <2>4. f \in Bijection(A, B)
      BY <2>1, <2>2, <2>3 DEF Bijection, Injection, Surjection, IsInjective
    <2> QED BY <1>1, <2>4, FS_Bijection DEF ExistsBijection
  <1>5. Cardinality(A \cup B) = Cardinality(A) + Cardinality(B) - Cardinality(A \cap B)
    BY <1>1, <1>4, FS_Union
  <1>6. Cardinality(A \cap B) = 0
    BY <1>3, FS_EmptySet
  <1>7. Cardinality(A) # 0
    <2>1. {} \in A
      OBVIOUS
    <2> HIDE DEF A
    <2> QED BY <1>1, <2>1, FS_EmptySet
  <1>8. Cardinality(A \cup B) = 2 ^ (n + 1)
    BY <1>2, <1>3
  <1> DEFINE a == Cardinality(A)
             b == Cardinality(B)
             u == Cardinality(A \cup B)
             z == Cardinality(A \cap B)
             x == 2 ^ n
             y == 2 ^ (n + 1)
  <1>9. a = x /\ b = a /\ u = y /\ u = a + b - z /\ z = 0 /\ a # 0 /\ x \in Nat
    BY <1>1, <1>4, <1>5, <1>6, <1>7, <1>8
  <1> HIDE DEF a, b, u, z, x, y
  <1>10. x \in Nat /\ x > 0 /\ y = 2 * x
    BY <1>9
  <1> QED BY <1>10 DEF x, y

\* The exponents of a product add up.
LEMMA PowerAdds ==
  ASSUME NEW m \in Nat, NEW n \in Nat
  PROVE  2 ^ (m + n) = 2 ^ m * 2 ^ n
  <1> DEFINE T == {k \in Nat : 2 ^ (m + k) = 2 ^ m * 2 ^ k}
  <1>1. 0 \in T
    <2>1. 2 ^ 0 = 1 /\ m + 0 = m /\ 2 ^ m \in Nat
      BY PowerDoubles
    <2> QED BY <2>1
  <1>2. ASSUME NEW k \in 0 .. n, k \in T PROVE k + 1 \in T
    <2>1. 2 ^ (m + k) = 2 ^ m * 2 ^ k
      BY <1>2
    <2>2. 2 ^ (k + 1) = 2 * 2 ^ k /\ 2 ^ ((m + k) + 1) = 2 * 2 ^ (m + k)
      BY PowerDoubles
    <2>3. 2 ^ m \in Nat /\ 2 ^ k \in Nat
      BY PowerDoubles
    <2> DEFINE a == 2 ^ m
               b == 2 ^ k
               c == 2 ^ (k + 1)
               d == 2 ^ (m + k)
               e == 2 ^ ((m + k) + 1)
    <2> HIDE DEF a, b, c, d, e
    <2>4. d = a * b /\ c = 2 * b /\ e = 2 * d /\ a \in Nat /\ b \in Nat
      BY <2>1, <2>2, <2>3 DEF a, b, c, d, e
    <2>5. e = a * c
      BY <2>4
    <2>6. m + (k + 1) = (m + k) + 1
      OBVIOUS
    <2> QED BY <2>5, <2>6 DEF a, c, e
  <1> HIDE DEF T
  <1>3. 0 .. n \subseteq T
    BY <1>1, <1>2, UpwardInduction
  <1> QED BY <1>3 DEF T

\* Quotient and remainder, which the provers know of integers.
LEMMA Division ==
  ASSUME NEW n \in Int, NEW d \in Nat \ {0}
  PROVE  /\ n \div d \in Int /\ (n % d) \in 0 .. d - 1
         /\ n = d * (n \div d) + (n % d)
  OBVIOUS

\* There is one quotient and one remainder.
LEMMA DivisionIs ==
  ASSUME NEW n \in Int, NEW d \in Nat \ {0}, NEW q \in Int, NEW r \in Int,
         0 <= r, r < d, n = d * q + r
  PROVE  n \div d = q /\ (n % d) = r
  OBVIOUS

\* Multiplying an inequality.
LEMMA Times ==
  ASSUME NEW a \in Int, NEW b \in Int, NEW c \in Nat, a <= b
  PROVE  a * c <= b * c
  OBVIOUS

\* A product grows with a factor.
LEMMA TimesLess ==
  ASSUME NEW a \in Int, NEW b \in Int, NEW c \in Nat \ {0}
  PROVE  (a < b) <=> (a * c < b * c)
  OBVIOUS

\* Dividing twice is dividing by the product.
LEMMA DividedTwice ==
  ASSUME NEW n \in Int, NEW a \in Nat \ {0}, NEW b \in Nat \ {0}
  PROVE  (n \div a) \div b = n \div (a * b)
  <1> DEFINE q == n \div a
             r == n % a
             s == q \div b
             t == q % b
  <1>1. q \in Int /\ r \in 0 .. a - 1 /\ n = a * q + r
    BY Division
  <1> HIDE DEF q, r
  <1>2. s \in Int /\ t \in 0 .. b - 1 /\ q = b * s + t
    BY <1>1, Division
  <1> HIDE DEF s, t
  <1>3. n = (a * b) * s + (a * t + r)
    BY <1>1, <1>2
  <1>4. a * t <= a * (b - 1)
    BY <1>2
  <1>5. 0 <= a * t
    BY <1>2
  <1>6. 0 <= a * t + r /\ a * t + r < a * b
    BY <1>1, <1>2, <1>4, <1>5
  <1> DEFINE c == a * b
             u == a * t + r
  <1>7. c \in Nat \ {0} /\ u \in Int
    BY <1>1, <1>2
  <1> HIDE DEF c, u
  <1>8. n = c * s + u /\ 0 <= u /\ u < c
    BY <1>3, <1>6 DEF c, u
  <1>9. n \div c = s
    BY <1>2, <1>7, <1>8, DivisionIs
  <1> QED BY <1>9 DEF c, s, q

\* Half a word and a word.
LEMMA WordSizes ==
  /\ WordBits \in Nat /\ WordBits >= 2 /\ WordBits = HalfBits + HalfBits
  /\ Half \in Nat /\ Half >= 2 /\ Half = 2 * (Half \div 2) /\ Half \div 2 \in Nat
  /\ Base \in Nat /\ Base >= 4 /\ Base = Half * Half
  /\ Base = 2 * (Base \div 2) /\ Base \div 2 \in Nat
  <1>1. WordBits \in Nat /\ WordBits >= 2 /\ WordBits = HalfBits + HalfBits
    BY HalfBitsAssumption DEF WordBits
  <1>2. 2 ^ (HalfBits + HalfBits) = 2 ^ HalfBits * 2 ^ HalfBits
    BY HalfBitsAssumption, PowerAdds
  <1>3. Base = Half * Half
    BY <1>1, <1>2 DEF Base, Half
  <1> DEFINE g == HalfBits - 1
  <1>4. g \in Nat /\ g + 1 = HalfBits
    BY HalfBitsAssumption
  <1> DEFINE x == 2 ^ g
  <1>5. Half = 2 * x /\ x \in Nat /\ x > 0
    <2> HIDE DEF g
    <2>1. 2 ^ g \in Nat /\ 2 ^ g > 0 /\ 2 ^ (g + 1) = 2 * 2 ^ g
      BY <1>4, PowerDoubles
    <2> QED BY <1>4, <2>1 DEF Half
  <1> HIDE DEF x
  <1>6. Half \in Nat /\ Half >= 2 /\ Half \div 2 = x
    BY <1>5
  <1> DEFINE y == x * Half
  <1>7. y \in Nat /\ Base = 2 * y /\ Base >= 4
    BY <1>3, <1>5, <1>6
  <1> HIDE DEF y
  <1>8. Base \div 2 = y
    BY <1>7
  <1> QED BY <1>1, <1>3, <1>5, <1>6, <1>7, <1>8

\* Powers grow with their exponents.
LEMMA PowerGrows ==
  ASSUME NEW m \in Nat, NEW n \in Nat, m <= n
  PROVE  /\ 2 ^ m \in Nat \ {0} /\ 2 ^ n \in Nat \ {0} /\ 2 ^ m <= 2 ^ n
         /\ 2 ^ (n - m) \in Nat \ {0} /\ 2 ^ n = 2 ^ m * 2 ^ (n - m)
  <1> DEFINE j == n - m
  <1>1. j \in Nat /\ m + j = n
    OBVIOUS
  <1> HIDE DEF j
  <1>2. 2 ^ (m + j) = 2 ^ m * 2 ^ j
    BY <1>1, PowerAdds
  <1>3. 2 ^ m \in Nat /\ 2 ^ m > 0
    BY PowerDoubles
  <1>4. 2 ^ j \in Nat /\ 2 ^ j > 0
    BY <1>1, PowerDoubles
  <1> DEFINE x == 2 ^ m
             y == 2 ^ j
             z == 2 ^ n
  <1>5. x \in Nat /\ x > 0 /\ y \in Nat /\ y > 0 /\ z = x * y
    BY <1>1, <1>2, <1>3, <1>4
  <1> HIDE DEF x, y, z
  <1>6. x \in Nat \ {0} /\ y \in Nat \ {0} /\ z \in Nat \ {0} /\ x <= z /\ z = x * y
    BY <1>5
  <1> QED BY <1>6 DEF x, y, z, j

\* Every number has a first bit, and only one.
LEMMA FirstBit ==
  ASSUME NEW n \in Nat, NEW x \in Nat, 1 <= x, x < 2 ^ n
  PROVE  \E k \in 0 .. n - 1 : 2 ^ k <= x /\ x < 2 ^ (k + 1)
  <1> DEFINE T == {i \in Nat : x < 2 ^ i => \E k \in 0 .. i - 1 : 2 ^ k <= x /\ x < 2 ^ (k + 1)}
  <1>1. 0 \in T
    <2>1. 2 ^ 0 = 1
      OBVIOUS
    <2> QED BY <2>1
  <1>2. ASSUME NEW i \in 0 .. n, i < n, i \in T PROVE i + 1 \in T
    <2> SUFFICES ASSUME x < 2 ^ (i + 1)
                 PROVE  \E k \in 0 .. (i + 1) - 1 : 2 ^ k <= x /\ x < 2 ^ (k + 1)
        OBVIOUS
    <2>0. 2 ^ i \in Nat
      BY PowerDoubles
    <2>1. CASE x < 2 ^ i
      <3>1. \E k \in 0 .. i - 1 : 2 ^ k <= x /\ x < 2 ^ (k + 1)
        BY <1>2, <2>1
      <3>2. \A k \in 0 .. i - 1 : k \in 0 .. (i + 1) - 1
        OBVIOUS
      <3> HIDE DEF T
      <3> QED BY <3>1, <3>2
    <2>2. CASE 2 ^ i <= x
      <3>1. i \in 0 .. (i + 1) - 1
        OBVIOUS
      <3> QED BY <2>2, <3>1
    <2> QED BY <2>0, <2>1, <2>2
  <1> HIDE DEF T
  <1>3. 0 .. n \subseteq T
    BY <1>1, <1>2, UpwardInduction
  <1>4. n \in T
    BY <1>3
  <1> QED BY <1>4 DEF T

\* No number is between two powers twice.
LEMMA OneFirstBit ==
  ASSUME NEW k \in Nat, NEW l \in Nat, NEW x \in Nat,
         2 ^ k <= x, x < 2 ^ (k + 1), 2 ^ l <= x, x < 2 ^ (l + 1)
  PROVE  k = l
  <1>1. ASSUME NEW i \in Nat, NEW j \in Nat, i < j, x < 2 ^ (i + 1), 2 ^ j <= x
        PROVE  FALSE
    <2>1. i + 1 <= j /\ i + 1 \in Nat
      BY <1>1
    <2>2. 2 ^ (i + 1) <= 2 ^ j /\ 2 ^ (i + 1) \in Nat \ {0} /\ 2 ^ j \in Nat \ {0}
      BY <2>1, PowerGrows
    <2> QED BY <1>1, <2>2
  <1>2. ~(k < l)
    BY <1>1
  <1>3. ~(l < k)
    BY <1>1
  <1> QED BY <1>2, <1>3

\* FloorLog2 finds the power, as LeadingZeros does.
LEMMA Logarithm ==
  ASSUME NEW x \in 1 .. Base - 1
  PROVE  /\ FloorLog2(x) \in 0 .. WordBits - 1
         /\ LeadingZeros(x) \in 0 .. WordBits - 1
         /\ LeadingZeros(x) = WordBits - 1 - FloorLog2(x)
         /\ 2 ^ FloorLog2(x) <= x /\ x < 2 ^ (FloorLog2(x) + 1)
  <1> DEFINE z == LeadingZeros(x)
             In(i) == x \in 2 ^ (WordBits - 1 - i) .. 2 ^ (WordBits - i) - 1
  <1>1. WordBits \in Nat /\ WordBits >= 2 /\ Base \in Nat
    BY WordSizes
  <1>2. \E k \in 0 .. WordBits - 1 : 2 ^ k <= x /\ x < 2 ^ (k + 1)
    <2>1. 2 ^ WordBits = Base
      BY DEF Base
    <2>2. x \in Nat /\ 1 <= x /\ x < 2 ^ WordBits
      BY <1>1, <2>1
    <2> QED BY <1>1, <2>2, FirstBit
  <1>3. PICK k \in 0 .. WordBits - 1 : 2 ^ k <= x /\ x < 2 ^ (k + 1)
    BY <1>2
  <1> DEFINE i == WordBits - 1 - k
  <1>4. i \in 0 .. WordBits - 1 /\ WordBits - 1 - i = k /\ WordBits - i = k + 1
    BY <1>1
  <1>5. In(i)
    <2>1. 2 ^ k \in Nat /\ 2 ^ (k + 1) \in Nat
      BY PowerDoubles
    <2>2. x \in 2 ^ k .. 2 ^ (k + 1) - 1
      BY <1>1, <1>3, <2>1
    <2> HIDE DEF i
    <2> QED BY <1>4, <2>2
  <1>6. z \in 0 .. WordBits - 1 /\ In(z)
    <2> HIDE DEF i
    <2> QED BY <1>4, <1>5 DEF LeadingZeros
  <1> DEFINE l == FloorLog2(x)
  <1>7. l = WordBits - 1 - z
    BY DEF FloorLog2
  <1> HIDE DEF z, l
  <1>8. l \in 0 .. WordBits - 1 /\ WordBits - 1 - z = l /\ WordBits - z = l + 1
        /\ z = WordBits - 1 - l
    BY <1>1, <1>6, <1>7
  <1>9. x \in 2 ^ l .. 2 ^ (l + 1) - 1
    BY <1>6, <1>8
  <1>10. 2 ^ l \in Nat /\ 2 ^ (l + 1) \in Nat
    BY <1>8, PowerDoubles
  <1>11. 2 ^ l <= x /\ x < 2 ^ (l + 1)
    BY <1>9, <1>10
  <1> QED BY <1>6, <1>8, <1>11 DEF z, l

\* What the two generators need to know of a divisor.
LEMMA LogarithmOf ==
  ASSUME NEW k \in 0 .. WordBits - 1, NEW x \in 1 .. Base - 1, 2 ^ k <= x, x < 2 ^ (k + 1)
  PROVE  FloorLog2(x) = k
  <1>1. WordBits \in Nat /\ Base \in Nat
    BY WordSizes
  <1>2. FloorLog2(x) \in Nat /\ k \in Nat /\ x \in Nat
    BY <1>1, Logarithm
  <1>3. 2 ^ FloorLog2(x) <= x /\ x < 2 ^ (FloorLog2(x) + 1)
    BY Logarithm
  <1> QED BY <1>2, <1>3, OneFirstBit

\* A word is half of them or less by the power below it, and the next power
\* is a word too where the word is not a power and below the half.
LEMMA PowerOfWord ==
  ASSUME NEW k \in 0 .. WordBits - 1
  PROVE  /\ 2 ^ k \in 1 .. Base \div 2
         /\ 2 ^ (k + 1) = 2 * 2 ^ k
         /\ 2 ^ (WordBits - 1 - k) \in Nat \ {0}
         /\ Base \div 2 = 2 ^ k * 2 ^ (WordBits - 1 - k)
  <1>1. WordBits \in Nat /\ WordBits >= 2 /\ Base \in Nat
    BY WordSizes
  <1> DEFINE g == WordBits - 1
  <1>2. g \in Nat /\ g + 1 = WordBits /\ k \in Nat /\ k <= g
    BY <1>1
  <1> HIDE DEF g
  <1>3. 2 ^ (g + 1) = 2 * 2 ^ g /\ 2 ^ g \in Nat
    BY <1>2, PowerDoubles
  <1> DEFINE x == 2 ^ g
  <1>4. Base = 2 * x /\ x \in Nat
    BY <1>2, <1>3 DEF Base
  <1> HIDE DEF x
  <1>5. Base \div 2 = x
    BY <1>4
  <1>6. /\ 2 ^ k \in Nat \ {0} /\ 2 ^ g \in Nat \ {0} /\ 2 ^ k <= 2 ^ g
        /\ 2 ^ (g - k) \in Nat \ {0} /\ 2 ^ g = 2 ^ k * 2 ^ (g - k)
    BY <1>2, PowerGrows
  <1>7. 2 ^ (k + 1) = 2 * 2 ^ k
    BY <1>2, PowerDoubles
  <1>8. 2 ^ k \in 1 .. 2 ^ g
    BY <1>6
  <1> QED BY <1>5, <1>6, <1>7, <1>8 DEF x, g

-----------------------------------------------------------------------------
(***************************************************************************)
(* The arithmetic of a magic number, whatever the size of a word.          *)
(***************************************************************************)

\* m / p is a little more than 1 / d, and the excess is too small to matter.
LEMMA MagicQuotient ==
  ASSUME NEW m \in Nat, NEW p \in Nat \ {0}, NEW d \in Nat \ {0}, NEW e \in Nat,
         m * d = p + e, NEW n \in Nat, n * e < p
  PROVE  (m * n) \div p = n \div d
  <1> DEFINE a == n \div d
             b == n % d
             x == m * n
  <1>1. a \in Nat /\ b \in 0 .. d - 1 /\ n = d * a + b
    <2>1. a \in Int /\ b \in 0 .. d - 1 /\ n = d * a + b
      BY Division
    <2> HIDE DEF a, b
    <2>2. a >= 0
      BY <2>1
    <2> QED BY <2>1, <2>2
  <1>2. x \in Nat
    OBVIOUS
  <1> HIDE DEF a, b
  <1>3. x * d = n * p + n * e
    <2>1. x * d = n * (m * d)
      OBVIOUS
    <2> QED BY <2>1
  <1>4. n * p = (a * p) * d + b * p
    BY <1>1
  <1>5. b * p <= (d - 1) * p
    BY <1>1
  <1>6. 0 <= b * p /\ 0 <= n * e
    BY <1>1
  <1>7. (d - 1) * p = d * p - p
    OBVIOUS
  <1> HIDE DEF x
  <1> DEFINE u == a * p
             v == b * p
             w == n * e
             s == u + p
  <1>8. u \in Nat /\ v \in Nat /\ w \in Nat /\ s \in Nat
    BY <1>1
  <1>9. x * d = u * d + v + w
    BY <1>3, <1>4
  <1>10. s * d = u * d + d * p
    BY <1>8
  <1>11. v + w < d * p
    <2> DEFINE dp == d * p
    <2>1. v <= dp - p /\ w < p /\ dp \in Nat
      BY <1>5, <1>7
    <2> HIDE DEF v, w, dp
    <2>2. v + w < dp
      BY <1>8, <2>1
    <2> QED BY <2>2 DEF dp
  <1>12. u * d <= x * d
    BY <1>8, <1>9, <1>2
  <1>13. x * d < s * d
    BY <1>8, <1>9, <1>10, <1>11
  <1> HIDE DEF u, v, w, s
  <1>14. u <= x
    BY <1>2, <1>8, <1>12
  <1>15. x < s
    BY <1>2, <1>8, <1>13
  <1>16. x = p * a + (x - u) /\ 0 <= x - u /\ x - u < p
    BY <1>1, <1>2, <1>14, <1>15 DEF u, s
  <1>17. x - u \in Int
    BY <1>2, <1>8
  <1>18. x \div p = a
    BY <1>1, <1>2, <1>16, <1>17, DivisionIs
  <1> QED BY <1>18 DEF a, x

\* The quotient of a negative number is rounded down, and one is added to it.
LEMMA MagicQuotientDown ==
  ASSUME NEW m \in Nat, NEW p \in Nat \ {0}, NEW d \in Nat \ {0}, NEW e \in Nat \ {0},
         m * d = p + e, NEW n \in Nat \ {0}, n * e < p
  PROVE  (m * (-n)) \div p = -(n \div d) - 1
  <1> DEFINE x == m * n
             a == n \div d
             b == n % d
             r == x % p
  <1>1. x \div p = a
    BY MagicQuotient
  <1>2. a \in Int /\ b \in 0 .. d - 1 /\ n = d * a + b
    BY Division
  <1>3. x \in Nat
    OBVIOUS
  <1>4. x \div p \in Int /\ r \in 0 .. p - 1 /\ x = p * (x \div p) + r
    BY <1>3, Division
  <1>5. x * d = n * p + n * e
    <2>1. x * d = n * (m * d)
      OBVIOUS
    <2> QED BY <2>1
  <1>6. m * (-n) = -x
    OBVIOUS
  <1> HIDE DEF x, a, b, r
  <1>7. x = p * a + r
    BY <1>1, <1>4
  <1>8. n * e > 0
    OBVIOUS
  <1>9. n * p = (p * a) * d + b * p
    BY <1>2
  <1>10. b * p >= 0
    BY <1>2
  <1> DEFINE u == p * a
  <1>11. u \in Int
    BY <1>2
  <1>12. u * d < x * d
    <2> DEFINE ud == u * d
               xd == x * d
               bp == b * p
               np == n * p
               ne == n * e
    <2>1. xd = np + ne /\ ne > 0 /\ np = ud + bp /\ bp >= 0
      BY <1>5, <1>8, <1>9, <1>10
    <2>2. xd \in Int /\ np \in Int /\ ne \in Int /\ ud \in Int /\ bp \in Int
      BY <1>2, <1>3, <1>11
    <2> HIDE DEF ud, xd, bp, np, ne
    <2>3. ud < xd
      BY <2>1, <2>2
    <2> QED BY <2>3 DEF ud, xd
  <1> HIDE DEF u
  <1>13. u < x
    BY <1>3, <1>11, <1>12
  <1>14. r # 0
    BY <1>7, <1>11, <1>13 DEF u
  <1>15. -x = p * (-a - 1) + (p - r)
    BY <1>2, <1>4, <1>7
  <1>16. p - r \in Int /\ 0 <= p - r /\ p - r < p /\ -a - 1 \in Int /\ -x \in Int
    BY <1>2, <1>3, <1>4, <1>14
  <1>17. (-x) \div p = -a - 1
    BY <1>15, <1>16, DivisionIs
  <1> QED BY <1>6, <1>17 DEF a

\* And the divisor can be had back from it.
LEMMA MagicRecover ==
  ASSUME NEW m \in Nat \ {0}, NEW p \in Nat, NEW d \in Nat, NEW e \in Nat \ {0},
         m * d = p + e, e <= m
  PROVE  p \div m = d - 1
  <1>1. p = m * (d - 1) + (m - e)
    OBVIOUS
  <1>2. m - e \in Int /\ 0 <= m - e /\ m - e < m /\ d - 1 \in Int
    OBVIOUS
  <1> QED BY <1>1, <1>2, DivisionIs

\* Twice a dividend.
LEMMA TwiceDivided ==
  ASSUME NEW p \in Int, NEW d \in Nat \ {0}
  PROVE  (2 * p) \div d = 2 * (p \div d) + (IF 2 * (p % d) >= d THEN 1 ELSE 0)
  <1> DEFINE q == p \div d
             r == p % d
             c == IF 2 * r >= d THEN 1 ELSE 0
  <1>1. q \in Int /\ r \in 0 .. d - 1 /\ p = d * q + r
    BY Division
  <1> HIDE DEF q, r
  <1>2. 2 * p = d * (2 * q + c) + (2 * r - d * c)
    BY <1>1
  <1>3. 2 * q + c \in Int /\ 2 * r - d * c \in Int /\ 0 <= 2 * r - d * c /\ 2 * r - d * c < d
    BY <1>1
  <1>4. 2 * p \in Int
    OBVIOUS
  <1> HIDE DEF c
  <1>5. (2 * p) \div d = 2 * q + c
    BY <1>2, <1>3, <1>4, DivisionIs
  <1> QED BY <1>5 DEF c, q, r

\* A quotient lies where its dividend does.
LEMMA QuotientBounds ==
  ASSUME NEW n \in Int, NEW d \in Nat \ {0}, NEW a \in Int
  PROVE  /\ (a * d <= n) <=> (a <= n \div d)
         /\ (n < a * d) <=> (n \div d < a)
  <1> DEFINE q == n \div d
             r == n % d
  <1>1. q \in Int /\ r \in 0 .. d - 1 /\ n = d * q + r
    BY Division
  <1> HIDE DEF q, r
  <1>2. ASSUME a <= q PROVE a * d <= n
    <2>1. a * d <= q * d
      BY <1>1, <1>2
    <2> QED BY <1>1, <2>1
  <1>3. ASSUME q + 1 <= a PROVE n < a * d
    <2>1. (q + 1) * d <= a * d
      BY <1>1, <1>3
    <2> QED BY <1>1, <2>1
  <1>4. a * d \in Int
    OBVIOUS
  <1>5. (a <= q) \/ (q + 1 <= a)
    BY <1>1
  <1>6. (a * d <= n) <=> (a <= q)
    BY <1>1, <1>2, <1>3, <1>4, <1>5
  <1>7. (n < a * d) <=> (q < a)
    BY <1>1, <1>2, <1>3, <1>4, <1>5
  <1> QED BY <1>6, <1>7 DEF q

\* Adding a multiple of the divisor.
LEMMA QuotientPlus ==
  ASSUME NEW n \in Int, NEW d \in Nat \ {0}, NEW a \in Int
  PROVE  /\ (n + a * d) \div d = (n \div d) + a
         /\ ((n + a * d) % d) = (n % d)
  <1> DEFINE q == n \div d
             r == n % d
             t == q + a
             s == n + a * d
  <1>1. q \in Int /\ r \in 0 .. d - 1 /\ n = d * q + r
    BY Division
  <1> HIDE DEF q, r
  <1>2. s = d * t + r /\ t \in Int /\ s \in Int /\ r \in Int /\ 0 <= r /\ r < d
    BY <1>1
  <1> HIDE DEF t, s
  <1>3. s \div d = t /\ (s % d) = r
    BY <1>2, DivisionIs
  <1> QED BY <1>3 DEF s, t, q, r

-----------------------------------------------------------------------------
(***************************************************************************)
(* Words, and the primitives on them.                                      *)
(***************************************************************************)
SignedWords == -(Base \div 2) .. Base \div 2 - 1

\* A word is what it is.
LEMMA WordIs ==
  ASSUME NEW x \in Words
  PROVE  Word(x) = x
  BY WordSizes DEF Words, Word

\* What wraps is a word, or a signed one.
LEMMA WordType ==
  ASSUME NEW x \in Int
  PROVE  Word(x) \in Words /\ Signed(x) \in SignedWords
  <1>1. Base \in Nat \ {0} /\ Base = 2 * (Base \div 2) /\ Base \div 2 \in Nat
    BY WordSizes
  <1>2. (x % Base) \in 0 .. Base - 1
    BY <1>1, Division
  <1> DEFINE r == x % Base
             g == Base \div 2
  <1> HIDE DEF r, g
  <1>3. r \in 0 .. Base - 1 /\ Base = 2 * g /\ g \in Nat
    BY <1>1, <1>2 DEF r, g
  <1>4. (IF r < g THEN r ELSE r - Base) \in -g .. g - 1
    BY <1>3
  <1> QED BY <1>3, <1>4 DEF Word, Words, Signed, SignedWords, r, g

\* A word is what it is, plus or minus as many times the base.
LEMMA WordPlus ==
  ASSUME NEW x \in Words, NEW a \in Int
  PROVE  Word(x + a * Base) = x
  <1>1. Base \in Nat \ {0}
    BY WordSizes
  <1>2. x \in Int
    BY <1>1 DEF Words
  <1>3. ((x + a * Base) % Base) = (x % Base)
    BY <1>1, <1>2, QuotientPlus
  <1> QED BY <1>3, WordIs DEF Word

\* A signed word likewise.
LEMMA SignedPlus ==
  ASSUME NEW x \in SignedWords, NEW a \in Int
  PROVE  Signed(x + a * Base) = x
  <1>1. Base \in Nat \ {0} /\ Base = 2 * (Base \div 2) /\ Base \div 2 \in Nat
    BY WordSizes
  <1>2. x \in Int
    BY <1>1 DEF SignedWords
  <1>3. ((x + a * Base) % Base) = (x % Base)
    BY <1>1, <1>2, QuotientPlus
  <1> DEFINE r == x % Base
             g == Base \div 2
  <1>4. g \in Nat /\ Base = 2 * g /\ -g <= x /\ x < g
    BY <1>1, <1>2 DEF SignedWords
  <1> HIDE DEF g
  <1>5. CASE x >= 0
    <2>1. r = x
      BY <1>1, <1>2, <1>4, <1>5
    <2> QED BY <1>3, <1>4, <2>1 DEF Signed, g
  <1>6. CASE x < 0
    <2>1. x = Base * (-1) + (x + Base) /\ 0 <= x + Base /\ x + Base < Base /\ x + Base \in Int
      BY <1>1, <1>2, <1>4, <1>6
    <2>2. r = x + Base
      BY <1>1, <1>2, <2>1, DivisionIs
    <2> HIDE DEF r
    <2>3. ~(r < g) /\ r - Base = x
      BY <1>1, <1>2, <1>4, <1>6, <2>2
    <2> QED BY <1>3, <2>3 DEF Signed, g, r
  <1> QED BY <1>2, <1>5, <1>6

\* A signed word is what it is.
LEMMA SignedIs ==
  ASSUME NEW x \in SignedWords
  PROVE  Signed(x) = x
  <1>1. x + 0 * Base = x
    BY WordSizes DEF SignedWords
  <1> QED BY <1>1, SignedPlus

\* A signed word as a word.
LEMMA SignedAsWord ==
  ASSUME NEW x \in SignedWords
  PROVE  Word(x) = (IF x < 0 THEN x + Base ELSE x) /\ Word(x) \in Words
  <1>1. Base \in Nat \ {0} /\ Base = 2 * (Base \div 2) /\ Base \div 2 \in Nat
    BY WordSizes
  <1> DEFINE g == Base \div 2
             y == IF x < 0 THEN x + Base ELSE x
  <1>2. g \in Nat /\ Base = 2 * g /\ -g <= x /\ x < g /\ x \in Int
    BY <1>1 DEF SignedWords
  <1> HIDE DEF g
  <1>3. y \in Words
    BY <1>1, <1>2 DEF Words
  <1>4. x = y + 0 * Base \/ x = y + (-1) * Base
    BY <1>1, <1>2
  <1> HIDE DEF y
  <1>5. Word(x) = y
    BY <1>3, <1>4, WordPlus
  <1> QED BY <1>3, <1>5 DEF y

-----------------------------------------------------------------------------
\* A number in two halves.
LEMMA Halves ==
  ASSUME NEW x \in Words
  PROVE  /\ (x % Half) \in 0 .. Half - 1 /\ x \div Half \in 0 .. Half - 1
         /\ x = Half * (x \div Half) + (x % Half)
  <1>1. Half \in Nat \ {0} /\ Base = Half * Half
    BY WordSizes
  <1>2. x \in Int /\ 0 <= x /\ x < Base
    BY WordSizes DEF Words
  <1> DEFINE a == x \div Half
             b == x % Half
  <1>3. a \in Int /\ b \in 0 .. Half - 1 /\ x = Half * a + b
    BY <1>1, <1>2, Division
  <1>4. 0 <= a
    <2>1. 0 * Half <= x
      BY <1>1, <1>2
    <2> QED BY <1>1, <1>2, <2>1, QuotientBounds
  <1>5. a < Half
    <2>1. x < Half * Half
      BY <1>1, <1>2
    <2> QED BY <1>1, <1>2, <2>1, QuotientBounds
  <1> HIDE DEF a, b
  <1>6. a \in 0 .. Half - 1
    BY <1>1, <1>3, <1>4, <1>5
  <1> QED BY <1>3, <1>6 DEF a, b

\* A signed number in two halves: the high one has the sign.
LEMMA SignedHalves ==
  ASSUME NEW x \in SignedWords
  PROVE  /\ (x % Half) \in 0 .. Half - 1
         /\ x \div Half \in -(Half \div 2) .. Half \div 2 - 1
         /\ x = Half * (x \div Half) + (x % Half)
  <1>1. /\ Half \in Nat \ {0} /\ Base = Half * Half /\ Half = 2 * (Half \div 2)
        /\ Half \div 2 \in Nat /\ Base = 2 * (Base \div 2) /\ Base \div 2 \in Nat
    BY WordSizes
  <1> DEFINE h == Half \div 2
             g == Base \div 2
  <1>2. x \in Int /\ -g <= x /\ x < g
    BY <1>1 DEF SignedWords
  <1>3. h \in Nat /\ g \in Nat /\ Half = 2 * h /\ Base = 2 * g
    BY <1>1
  <1> HIDE DEF h, g
  <1>4. g = h * Half
    <2>1. Half * Half = 2 * (h * Half)
      BY <1>1, <1>3
    <2> DEFINE y == h * Half
    <2>2. y \in Int
      BY <1>1, <1>3
    <2> HIDE DEF y
    <2>3. 2 * g = 2 * y
      BY <1>1, <1>3, <2>1 DEF y
    <2> QED BY <1>3, <2>2, <2>3 DEF y
  <1> DEFINE a == x \div Half
             b == x % Half
  <1>5. a \in Int /\ b \in 0 .. Half - 1 /\ x = Half * a + b
    BY <1>1, <1>2, Division
  <1>6. -h <= a
    <2>1. (-h) * Half <= x /\ -h \in Int
      BY <1>1, <1>2, <1>3, <1>4
    <2> QED BY <1>1, <1>2, <2>1, QuotientBounds
  <1>7. a < h
    <2>1. x < h * Half
      BY <1>1, <1>2, <1>4
    <2> QED BY <1>1, <1>2, <1>3, <2>1, QuotientBounds
  <1> HIDE DEF a, b
  <1>8. a \in -h .. h - 1
    BY <1>3, <1>5, <1>6, <1>7
  <1> QED BY <1>5, <1>8 DEF a, b, h

\* The high word of a product of words is a word.
LEMMA HighWord ==
  ASSUME NEW x \in Words, NEW y \in Words
  PROVE  x * y \in Nat /\ (x * y) \div Base \in Words /\ (x * y) \div Base <= x
  <1>1. Base \in Nat \ {0}
    BY WordSizes
  <1>2. x \in Nat /\ y \in Nat /\ x < Base /\ y < Base
    BY <1>1 DEF Words
  <1> DEFINE p == x * y
             q == p \div Base
  <1>3. p \in Nat
    BY <1>2
  <1>4. q \in Int
    BY <1>1, <1>3, Division
  <1>5. 0 <= q
    <2>1. 0 * Base <= p
      BY <1>1, <1>3
    <2> QED BY <1>1, <1>3, <2>1, QuotientBounds
  <1>6. q < x + 1
    <2>1. x * y <= x * Base
      BY <1>1, <1>2
    <2>2. p < (x + 1) * Base
      BY <1>1, <1>2, <1>3, <2>1
    <2> HIDE DEF p
    <2> QED BY <1>1, <1>2, <1>3, <2>2, QuotientBounds
  <1> HIDE DEF p, q
  <1>7. q \in Words /\ q <= x
    BY <1>1, <1>2, <1>4, <1>5, <1>6 DEF Words
  <1> QED BY <1>3, <1>7 DEF p, q

\* The product of two numbers in halves, by columns.
LEMMA Columns ==
  ASSUME NEW H \in Nat \ {0}, NEW x1 \in Int, NEW x0 \in Int, NEW y1 \in Int, NEW y0 \in Int,
         NEW a \in Int, NEW a0 \in 0 .. H - 1, x0 * y0 = H * a + a0,
         NEW t1 \in Int, NEW t0 \in 0 .. H - 1, x1 * y0 + a = H * t1 + t0,
         NEW b \in Int, NEW b0 \in 0 .. H - 1, x0 * y1 + t0 = H * b + b0
  PROVE  ((H * x1 + x0) * (H * y1 + y0)) \div (H * H) = x1 * y1 + t1 + b
  <1> DEFINE p == (H * x1 + x0) * (H * y1 + y0)
             s == x1 * y1 + t1 + b
             r == H * b0 + a0
             B == H * H
  <1>1. p = H * (H * (x1 * y1)) + H * (x1 * y0) + H * (x0 * y1) + x0 * y0
    OBVIOUS
  <1>2. x1 * y0 = H * t1 + t0 - a
    OBVIOUS
  <1>3. x0 * y1 = H * b + b0 - t0
    OBVIOUS
  <1>4. p = H * (H * (x1 * y1)) + H * (H * t1 + t0 - a) + H * (H * b + b0 - t0) + (H * a + a0)
    BY <1>1, <1>2, <1>3
  <1>5. H * (H * t1 + t0 - a) = H * (H * t1) + H * t0 - H * a
    OBVIOUS
  <1>6. H * (H * b + b0 - t0) = H * (H * b) + H * b0 - H * t0
    OBVIOUS
  <1>7. p = H * (H * (x1 * y1)) + H * (H * t1) + H * (H * b) + r
    <2> DEFINE u == H * (H * (x1 * y1))
               v == H * (H * t1)
               w == H * (H * b)
    <2>1. u \in Int /\ v \in Int /\ w \in Int /\ H * t0 \in Int /\ H * a \in Int /\ H * b0 \in Int
      OBVIOUS
    <2> HIDE DEF u, v, w, p
    <2> QED BY <1>4, <1>5, <1>6, <2>1 DEF u, v, w
  <1>8. p = B * s + r
    <2>1. B * s = H * (H * s)
      OBVIOUS
    <2>2. H * s = H * (x1 * y1) + H * t1 + H * b
      OBVIOUS
    <2>3. H * (H * (x1 * y1) + H * t1 + H * b) = H * (H * (x1 * y1)) + H * (H * t1) + H * (H * b)
      OBVIOUS
    <2> HIDE DEF p, s, B, r
    <2> QED BY <1>7, <2>1, <2>2, <2>3
  <1>9. 0 <= r /\ r < B
    <2>1. H * b0 <= H * (H - 1)
      OBVIOUS
    <2>2. 0 <= H * b0
      OBVIOUS
    <2>3. H * (H - 1) = B - H
      OBVIOUS
    <2>4. B \in Int /\ H * b0 \in Int
      OBVIOUS
    <2> HIDE DEF B
    <2> QED BY <2>1, <2>2, <2>3, <2>4
  <1>10. p \in Int /\ s \in Int /\ r \in Int /\ B \in Nat \ {0}
    OBVIOUS
  <1> HIDE DEF p, s, r, B
  <1>11. p \div B = s
    BY <1>8, <1>9, <1>10, DivisionIs
  <1> QED BY <1>11 DEF p, s, B

\* The product of halves has the high word of the product.
LEMMA HighWordOfHalves ==
  ASSUME NEW x \in Words, NEW y \in Words
  PROVE  MulHiHalves(x, y) = (x * y) \div Base
  <1> DEFINE x0 == x % Half
             x1 == x \div Half
             y0 == y % Half
             y1 == y \div Half
             a  == (x0 * y0) \div Half
             a0 == (x0 * y0) % Half
             t  == x1 * y0 + a
             t1 == t \div Half
             t0 == t % Half
             u  == t0 + x0 * y1
             b  == u \div Half
             b0 == u % Half
             s  == x1 * y1 + t1 + b
  <1>1. Half \in Nat /\ Half >= 2 /\ Base = Half * Half /\ Base \in Nat
    BY WordSizes
  <1>2. /\ x0 \in 0 .. Half - 1 /\ x1 \in 0 .. Half - 1 /\ x = Half * x1 + x0
        /\ y0 \in 0 .. Half - 1 /\ y1 \in 0 .. Half - 1 /\ y = Half * y1 + y0
    BY Halves
  <1> HIDE DEF x0, x1, y0, y1
  <1>3. ASSUME NEW i \in 0 .. Half - 1, NEW j \in 0 .. Half - 1
        PROVE  i * j \in Nat /\ i * j <= Base - 2 * Half + 1
    <2>1. i * j \in Nat
      BY <1>1
    <2>2. i * j <= i * (Half - 1)
      BY <1>1
    <2>3. i * (Half - 1) <= (Half - 1) * (Half - 1)
      BY <1>1
    <2>4. (Half - 1) * (Half - 1) = Half * Half - 2 * Half + 1
      BY <1>1
    <2> QED BY <1>1, <2>1, <2>2, <2>3, <2>4
  <1>4. /\ x0 * y0 \in Nat /\ x1 * y0 \in Nat /\ x1 * y0 <= Base - 2 * Half + 1
        /\ x0 * y1 \in Nat /\ x0 * y1 <= Base - 2 * Half + 1
    BY <1>2, <1>3
  <1>5. a \in Int /\ a0 \in 0 .. Half - 1 /\ x0 * y0 = Half * a + a0
    <2> DEFINE v == x0 * y0
    <2>1. v \in Int /\ Half \in Nat \ {0}
      BY <1>1, <1>4
    <2> HIDE DEF v
    <2>2. /\ v \div Half \in Int /\ (v % Half) \in 0 .. Half - 1
          /\ v = Half * (v \div Half) + (v % Half)
      BY <2>1, Division
    <2> QED BY <2>2 DEF v
  <1>6. 0 <= a /\ a < Half
    <2>1. 0 * Half <= x0 * y0
      BY <1>1, <1>4
    <2>2. x0 * y0 < Half * Half
      BY <1>1, <1>2, <1>3
    <2> QED BY <1>1, <1>4, <2>1, <2>2, QuotientBounds
  <1> HIDE DEF a, a0
  <1>7. t \in Words
    <2> DEFINE v == x1 * y0
    <2>1. v \in Nat /\ v <= Base - 2 * Half + 1
      BY <1>4
    <2> HIDE DEF v
    <2>2. v + a \in Words
      BY <1>1, <1>5, <1>6, <2>1 DEF Words
    <2> QED BY <2>2 DEF v
  <1>8. t1 \in Int /\ t0 \in 0 .. Half - 1 /\ t = Half * t1 + t0
    <2>1. t \in Int
      BY <1>4, <1>5
    <2> HIDE DEF t
    <2> QED BY <1>1, <2>1, Division
  <1>9. Word(t) = t
    BY <1>7, WordIs
  <1> HIDE DEF t1, t0
  <1>10. u \in Words
    <2> DEFINE v == x0 * y1
    <2>1. v \in Nat /\ v <= Base - 2 * Half + 1
      BY <1>4
    <2> HIDE DEF v
    <2>2. t0 + v \in Words
      BY <1>1, <1>8, <2>1 DEF Words
    <2> QED BY <2>2 DEF v
  <1>11. b \in Int /\ b0 \in 0 .. Half - 1 /\ u = Half * b + b0
    <2>1. u \in Int
      BY <1>4, <1>8
    <2> HIDE DEF u
    <2> QED BY <1>1, <2>1, Division
  <1>12. Word(u) = u
    BY <1>10, WordIs
  <1> HIDE DEF b, b0
  <1>13. ((Half * x1 + x0) * (Half * y1 + y0)) \div (Half * Half) = s
    <2>1. Half \in Nat \ {0} /\ x1 \in Int /\ x0 \in Int /\ y1 \in Int /\ y0 \in Int
      BY <1>1, <1>2
    <2>2. x1 * y0 + a = Half * t1 + t0
      BY <1>8
    <2>3. x0 * y1 + t0 = Half * b + b0
      BY <1>4, <1>8, <1>11
    <2> QED BY <2>1, <2>2, <2>3, <1>5, <1>8, <1>11, Columns
  <1>14. (x * y) \div Base = s
    BY <1>1, <1>2, <1>13
  <1>15. s \in Words
    BY <1>14, HighWord
  <1>16. Word(s) = s
    BY <1>15, WordIs
  <1> HIDE DEF s
  <1>17. MulHiHalves(x, y) = Word(x1 * y1 + t1 + b)
    BY <1>9, <1>12 DEF MulHiHalves, x0, x1, y0, y1, a, t, t0, t1, u, b
  <1> QED BY <1>14, <1>16, <1>17 DEF s

\* The same for signed words: nothing leaves the range of a signed word.
LEMMA HighWordSigned ==
  ASSUME NEW x \in SignedWords, NEW y \in SignedWords
  PROVE  /\ x * y \in Int
         /\ (x * y) \div Base \in SignedWords
         /\ x >= 0 => -x <= (x * y) \div Base /\ (x * y) \div Base <= x
         /\ x < 0  => x <= (x * y) \div Base /\ (x * y) \div Base <= -x
  <1>1. Base \in Nat /\ Base >= 4 /\ Base = 2 * (Base \div 2) /\ Base \div 2 \in Nat
    BY WordSizes
  <1> DEFINE g == Base \div 2
             z == IF x < 0 THEN -x ELSE x
             p == x * y
             q == p \div Base
  <1>2. g \in Nat /\ Base = 2 * g /\ -g <= x /\ x < g /\ -g <= y /\ y < g /\ x \in Int /\ y \in Int
    BY <1>1 DEF SignedWords
  <1> HIDE DEF g
  <1>3. z \in Nat /\ z <= g
    BY <1>2
  <1>4. p \in Int
    BY <1>2
  <1>5. -(z * Base) <= p /\ p <= z * Base
    <2>1. CASE x < 0
      <3>1. z * (-y) <= z * g /\ z * (-g) <= z * (-y)
        BY <1>2, <1>3
      <3>2. p = z * (-y)
        BY <1>2, <2>1
      <3>3. z * g <= z * Base /\ z * (-g) = -(z * g)
        BY <1>1, <1>2, <1>3
      <3> QED BY <1>1, <1>2, <1>3, <1>4, <3>1, <3>2, <3>3
    <2>2. CASE x >= 0
      <3>1. z * y <= z * g /\ z * (-g) <= z * y
        BY <1>2, <1>3
      <3>2. p = z * y
        BY <1>2, <2>2
      <3>3. z * g <= z * Base /\ z * (-g) = -(z * g)
        BY <1>1, <1>2, <1>3
      <3> QED BY <1>1, <1>2, <1>3, <1>4, <3>1, <3>2, <3>3
    <2> QED BY <1>2, <2>1, <2>2
  <1> HIDE DEF p, z
  <1>6. q \in Int
    BY <1>1, <1>4, Division
  <1>7. -z <= q
    <2>1. (-z) * Base <= p
      BY <1>1, <1>3, <1>5
    <2> QED BY <1>1, <1>3, <1>4, <2>1, QuotientBounds
  <1>8. q < z + 1
    <2>1. p < (z + 1) * Base
      BY <1>1, <1>3, <1>4, <1>5
    <2> QED BY <1>1, <1>3, <1>4, <2>1, QuotientBounds
  <1>9. q < g
    <2>0. p <= g * g
      <3>1. CASE x < 0
        <4>1. (-x) * (-y) <= (-x) * g /\ (-x) * g <= g * g
          BY <1>2, <3>1
        <4> QED BY <1>2, <4>1 DEF p
      <3>2. CASE x >= 0
        <4>1. x * y <= x * g /\ x * g <= g * g
          BY <1>2, <3>2
        <4> QED BY <1>2, <4>1 DEF p
      <3> QED BY <1>2, <3>1, <3>2
    <2>1. p < g * Base
      <3>1. g * g < g * Base
        BY <1>1, <1>2
      <3> QED BY <1>1, <1>2, <1>4, <2>0, <3>1
    <2> QED BY <1>1, <1>2, <1>4, <2>1, QuotientBounds
  <1> HIDE DEF q
  <1>10. q \in -g .. g - 1
    BY <1>2, <1>3, <1>6, <1>7, <1>9
  <1>11. x >= 0 => -x <= q /\ q <= x
    BY <1>2, <1>3, <1>6, <1>7, <1>8 DEF z
  <1>12. x < 0  => x <= q /\ q <= -x
    BY <1>2, <1>3, <1>6, <1>7, <1>8 DEF z
  <1>13. q \in SignedWords
    BY <1>10 DEF SignedWords, g
  <1> QED BY <1>4, <1>11, <1>12, <1>13 DEF p, q

\* The 32-bit product needs no correction: the high word fits.
LEMMA MulHiSignedIs ==
  ASSUME NEW x \in SignedWords, NEW y \in SignedWords
  PROVE  MulHiSigned(x, y) = (x * y) \div Base
  BY HighWordSigned, SignedIs DEF MulHiSigned

\* The signed product of halves has the high word of the product.
LEMMA HighWordOfSignedHalves ==
  ASSUME NEW x \in SignedWords, NEW y \in SignedWords
  PROVE  MulHiSignedHalves(x, y) = (x * y) \div Base
  <1> DEFINE x0 == x % Half
             x1 == x \div Half
             y0 == y % Half
             y1 == y \div Half
             a  == (x0 * y0) \div Half
             a0 == (x0 * y0) % Half
             t  == x1 * y0 + a
             t1 == t \div Half
             t0 == t % Half
             u  == x0 * y1 + t0
             b  == u \div Half
             b0 == u % Half
             s  == x1 * y1 + t1 + b
             h  == Half \div 2
             g  == Base \div 2
  <1>1. /\ Half \in Nat /\ Half >= 2 /\ Base = Half * Half /\ Base \in Nat
        /\ h \in Nat /\ Half = 2 * h /\ g \in Nat /\ Base = 2 * g
    BY WordSizes
  <1>2. /\ x0 \in 0 .. Half - 1 /\ x1 \in -h .. h - 1 /\ x = Half * x1 + x0
        /\ y0 \in 0 .. Half - 1 /\ y1 \in -h .. h - 1 /\ y = Half * y1 + y0
    BY SignedHalves
  <1> HIDE DEF x0, x1, y0, y1, h, g
  <1>g. g = h * Half
    <2> DEFINE v == h * Half
    <2>1. v \in Int /\ Half * Half = 2 * v
      BY <1>1
    <2> HIDE DEF v
    <2>2. g = v
      BY <1>1, <2>1
    <2> QED BY <2>2 DEF v
  \* A half with a sign times one without, and a half without: -g .. g - Half.
  <1>3. ASSUME NEW i \in -h .. h - 1, NEW j \in 0 .. Half - 1
        PROVE  i * j \in Int /\ -g <= i * j /\ i * j <= g - Half
    <2>1. i * j \in Int
      BY <1>1
    <2>2. (-h) * j <= i * j /\ i * j <= (h - 1) * j
      BY <1>1
    <2>3. h * j <= h * Half
      BY <1>1
    <2>4. (h - 1) * j <= (h - 1) * Half
      BY <1>1
    <2>5. (-h) * j = -(h * j) /\ (h - 1) * Half = h * Half - Half
      BY <1>1
    <2>6. h * j \in Int /\ (h - 1) * j \in Int
      BY <1>1
    <2> QED BY <1>1, <1>g, <2>1, <2>2, <2>3, <2>4, <2>5, <2>6
  <1>4. /\ x1 * y0 \in Int /\ -g <= x1 * y0 /\ x1 * y0 <= g - Half
        /\ y1 * x0 \in Int /\ -g <= y1 * x0 /\ y1 * x0 <= g - Half
    BY <1>2, <1>3
  <1>40. x0 * y1 = y1 * x0
    BY <1>1, <1>2
  <1>5. a \in Int /\ a0 \in 0 .. Half - 1 /\ x0 * y0 = Half * a + a0
    <2> DEFINE v == x0 * y0
    <2>1. v \in Int /\ Half \in Nat \ {0}
      BY <1>1, <1>2
    <2> HIDE DEF v
    <2>2. /\ v \div Half \in Int /\ (v % Half) \in 0 .. Half - 1
          /\ v = Half * (v \div Half) + (v % Half)
      BY <2>1, Division
    <2> QED BY <2>2 DEF v
  <1>6. 0 <= a /\ a < Half
    <2>1. 0 * Half <= x0 * y0 /\ x0 * y0 \in Int
      BY <1>1, <1>2
    <2>2. x0 * y0 < Half * Half
      <3>1. x0 * y0 <= x0 * Half /\ x0 * Half < Half * Half
        BY <1>1, <1>2
      <3> QED BY <1>1, <1>2, <2>1, <3>1
    <2> QED BY <1>1, <2>1, <2>2, QuotientBounds
  <1> HIDE DEF a, a0
  <1>7. t \in SignedWords
    <2> DEFINE v == x1 * y0
    <2>1. v \in Int /\ -g <= v /\ v <= g - Half
      BY <1>4
    <2> HIDE DEF v
    <2>2. v + a \in -g .. g - 1
      BY <1>1, <1>5, <1>6, <2>1
    <2> QED BY <2>2 DEF v, SignedWords, g
  <1>8. t1 \in Int /\ t0 \in 0 .. Half - 1 /\ t = Half * t1 + t0
    <2>1. t \in Int
      BY <1>4, <1>5
    <2>2. Half \in Nat \ {0}
      BY <1>1
    <2>3. /\ t \div Half \in Int /\ (t % Half) \in 0 .. Half - 1
          /\ t = Half * (t \div Half) + (t % Half)
      <3> HIDE DEF t
      <3> QED BY <2>1, <2>2, Division
    <2> QED BY <2>3 DEF t1, t0
  <1>9. Signed(t) = t
    BY <1>7, SignedIs
  <1> HIDE DEF t1, t0
  <1>10. u \in SignedWords
    <2> DEFINE v == x0 * y1
    <2>1. v \in Int /\ -g <= v /\ v <= g - Half
      BY <1>4, <1>40
    <2> HIDE DEF v
    <2>2. v + t0 \in -g .. g - 1
      BY <1>1, <1>8, <2>1
    <2> QED BY <2>2 DEF v, SignedWords, g
  <1>11. b \in Int /\ b0 \in 0 .. Half - 1 /\ u = Half * b + b0
    <2>1. u \in Int
      BY <1>4, <1>40, <1>8
    <2>2. Half \in Nat \ {0}
      BY <1>1
    <2>3. /\ u \div Half \in Int /\ (u % Half) \in 0 .. Half - 1
          /\ u = Half * (u \div Half) + (u % Half)
      <3> HIDE DEF u
      <3> QED BY <2>1, <2>2, Division
    <2> QED BY <2>3 DEF b, b0
  <1>12. Signed(u) = u
    BY <1>10, SignedIs
  <1> HIDE DEF b, b0
  <1>13. ((Half * x1 + x0) * (Half * y1 + y0)) \div (Half * Half) = s
    <2>1. Half \in Nat \ {0} /\ x1 \in Int /\ x0 \in Int /\ y1 \in Int /\ y0 \in Int
      BY <1>1, <1>2
    <2>2. x1 * y0 + a = Half * t1 + t0
      BY <1>8
    <2>3. x0 * y1 + t0 = Half * b + b0
      BY <1>11
    <2> QED BY <2>1, <2>2, <2>3, <1>5, <1>8, <1>11, Columns
  <1>14. (x * y) \div Base = s
    BY <1>1, <1>2, <1>13
  <1>15. s \in SignedWords
    BY <1>14, HighWordSigned
  <1>16. Signed(s) = s
    BY <1>15, SignedIs
  <1> HIDE DEF s
  <1>17. MulHiSignedHalves(x, y) = Signed(x1 * y1 + t1 + b)
    BY <1>9, <1>12 DEF MulHiSignedHalves, x0, x1, y0, y1, a, t, t0, t1, u, b
  <1> QED BY <1>14, <1>16, <1>17 DEF s

\* The products of a pair of lanes, each where it belongs.
LEMMA HighWordsOfPair ==
  ASSUME NEW lane, lane[0] \in Words, lane[1] \in Words, NEW y \in Words
  PROVE  MulHiPair(lane, y) = [i \in Pair |-> (lane[i] * y) \div Base]
  <1> DEFINE a == (lane[0] * y) \div Base
             b == (lane[1] * y) \div Base
             s == a + Base * b
  <1>1. a \in Words /\ b \in Words
    BY HighWord
  <1>2. Base \in Nat \ {0}
    BY WordSizes
  <1> HIDE DEF a, b
  <1>3. a \in Int /\ b \in Int /\ 0 <= a /\ a < Base
    BY <1>1, <1>2 DEF Words
  <1>4. s = Base * b + a /\ s \in Int
    BY <1>2, <1>3
  <1> HIDE DEF s
  <1>5. s \div Base = b /\ (s % Base) = a
    BY <1>2, <1>3, <1>4, DivisionIs
  <1>6. MulHiPair(lane, y) = [i \in Pair |-> IF i = 0 THEN (s % Base) ELSE s \div Base]
    BY DEF MulHiPair, s, a, b
  <1>7. MulHiPair(lane, y) = [i \in Pair |-> IF i = 0 THEN a ELSE b]
    BY <1>5, <1>6
  <1>8. \A i \in Pair : (IF i = 0 THEN a ELSE b) = (lane[i] * y) \div Base
    BY DEF Pair, a, b
  <1> QED BY <1>7, <1>8

\* The unsigned product of signed words, corrected.
LEMMA HighWordCorrected ==
  ASSUME NEW x \in SignedWords, NEW y \in SignedWords
  PROVE  Signed((Word(x) * Word(y)) \div Base - Where(Word(x), y) - Where(Word(y), x))
           = (x * y) \div Base
  <1> DEFINE g == Base \div 2
             h == Half \div 2
             cx == IF x < 0 THEN 1 ELSE 0
             cy == IF y < 0 THEN 1 ELSE 0
             p == x * y
             q == p \div Base
  <1>1. /\ Base \in Nat \ {0} /\ Half \in Nat \ {0} /\ h \in Nat /\ Half = 2 * h
        /\ g \in Nat /\ Base = 2 * g /\ Base = Half * Half
    BY WordSizes
  <1> HIDE DEF g, h
  <1>g. g = h * Half
    <2> DEFINE v == h * Half
    <2>1. v \in Int /\ Half * Half = 2 * v
      BY <1>1
    <2> HIDE DEF v
    <2>2. g = v
      BY <1>1, <2>1
    <2> QED BY <2>2 DEF v
  <1>2. x \in Int /\ -g <= x /\ x < g /\ y \in Int /\ -g <= y /\ y < g
    BY <1>1 DEF SignedWords, g
  <1>3. Word(x) = x + cx * Base /\ Word(y) = y + cy * Base /\ Word(x) \in Words /\ Word(y) \in Words
    BY <1>1, <1>2, SignedAsWord
  <1>4. ASSUME NEW w \in Words, NEW z PROVE Where(w, z) = IF w < g THEN 0 ELSE z
    <2>1. w \in Int
      BY <1>1, <1>4 DEF Words
    <2>2. (h * Half <= w) <=> (h <= w \div Half)
      BY <1>1, <2>1, QuotientBounds
    <2>3. w \div Half \in Int
      BY <1>1, <2>1, Division
    <2>4. (w \div Half >= h) <=> ~(w < g)
      BY <1>1, <1>g, <2>1, <2>2, <2>3
    <2> QED BY <2>4 DEF Where, h
  <1>5. Where(Word(x), y) = cx * y
    <2>1. (Word(x) < g) <=> ~(x < 0)
      BY <1>1, <1>2, <1>3
    <2>2. Where(Word(x), y) = IF Word(x) < g THEN 0 ELSE y
      BY <1>3, <1>4
    <2> QED BY <1>2, <2>1, <2>2
  <1>6. Where(Word(y), x) = cy * x
    <2>1. (Word(y) < g) <=> ~(y < 0)
      BY <1>1, <1>2, <1>3
    <2>2. Where(Word(y), x) = IF Word(y) < g THEN 0 ELSE x
      BY <1>3, <1>4
    <2> QED BY <1>2, <2>1, <2>2
  <1>7. cx \in Int /\ cy \in Int
    OBVIOUS
  <1> HIDE DEF cx, cy
  <1> DEFINE c == cx * y + cy * x + (cx * cy) * Base
  <1>8. (x + cx * Base) * (y + cy * Base) = p + c * Base
    <2>1. (x + cx * Base) * (y + cy * Base)
            = x * y + x * (cy * Base) + (cx * Base) * y + (cx * Base) * (cy * Base)
      BY <1>1, <1>2, <1>7
    <2>2. x * (cy * Base) = (cy * x) * Base
      BY <1>1, <1>2, <1>7
    <2>3. (cx * Base) * y = (cx * y) * Base
      BY <1>1, <1>2, <1>7
    <2>4. (cx * Base) * (cy * Base) = ((cx * cy) * Base) * Base
      BY <1>1, <1>2, <1>7
    <2>5. ASSUME NEW i \in Int, NEW j \in Int, NEW k \in Int
          PROVE  (i + j + k) * Base = i * Base + j * Base + k * Base
      BY <1>1
    <2>6. cx * y \in Int /\ cy * x \in Int /\ (cx * cy) * Base \in Int
      BY <1>1, <1>2, <1>7
    <2>7. c * Base = (cx * y) * Base + (cy * x) * Base + ((cx * cy) * Base) * Base
      BY <2>5, <2>6
    <2> DEFINE i == (cx * y) * Base
               j == (cy * x) * Base
               k == ((cx * cy) * Base) * Base
               l == c * Base
    <2>8. i \in Int /\ j \in Int /\ k \in Int /\ p \in Int
      BY <1>1, <1>2, <1>7
    <2>9. (x + cx * Base) * (y + cy * Base) = p + j + i + k /\ l = i + j + k
      BY <2>1, <2>2, <2>3, <2>4, <2>7
    <2> HIDE DEF i, j, k, l, p
    <2>10. p + j + i + k = p + l
      BY <2>8, <2>9
    <2> QED BY <2>9, <2>10 DEF l
  <1>9. c \in Int /\ p \in Int
    BY <1>1, <1>2, <1>7
  <1>10. (p + c * Base) \div Base = q + c
    <2> HIDE DEF p, c
    <2> QED BY <1>1, <1>9, QuotientPlus
  <1>11. q \in SignedWords
    BY HighWordSigned
  <1>12. (Word(x) * Word(y)) \div Base = q + c
    BY <1>3, <1>8, <1>10
  <1>13. q \in Int
    BY <1>11, <1>1 DEF SignedWords
  <1> DEFINE cc == cx * cy
             u == cx * y
             v == cy * x
             w == cc * Base
  <1>14. u \in Int /\ v \in Int /\ w \in Int /\ c = u + v + w /\ cc \in Int
    BY <1>1, <1>2, <1>7
  <1>15. (Word(x) * Word(y)) \div Base - Where(Word(x), y) - Where(Word(y), x) = (q + c) - u - v
    BY <1>5, <1>6, <1>12
  <1>16. Signed(q + w) = q
    <2> HIDE DEF cc, q
    <2> QED BY <1>11, <1>14, SignedPlus
  <1> HIDE DEF q, c, u, v, w, cc
  <1>17. (q + c) - u - v = q + w
    BY <1>13, <1>14
  <1> QED BY <1>15, <1>16, <1>17 DEF q, p

\* The 64-bit product of a vector, corrected.
LEMMA HighWordFlat ==
  ASSUME NEW x \in SignedWords, NEW y \in SignedWords
  PROVE  MulHiSignedFlat(x, y) = (x * y) \div Base
  <1>1. Word(x) \in Words /\ Word(y) \in Words
    BY SignedAsWord
  <1>2. MulHiHalves(Word(x), Word(y)) = (Word(x) * Word(y)) \div Base
    BY <1>1, HighWordOfHalves
  <1> QED BY <1>2, HighWordCorrected DEF MulHiSignedFlat

\* The 32-bit products of a vector, corrected.
LEMMA HighWordsOfSignedPair ==
  ASSUME NEW lane, lane[0] \in SignedWords, lane[1] \in SignedWords, NEW y \in SignedWords
  PROVE  MulHiSignedPair(lane, y) = [i \in Pair |-> (lane[i] * y) \div Base]
  <1> DEFINE words == [i \in Pair |-> Word(lane[i])]
             p == MulHiPair(words, Word(y))
  <1>0. 0 \in Pair /\ 1 \in Pair /\ \A i \in Pair : i = 0 \/ i = 1
    BY DEF Pair
  <1>1. words[0] = Word(lane[0]) /\ words[1] = Word(lane[1])
    BY <1>0
  <1>2. words[0] \in Words /\ words[1] \in Words /\ Word(y) \in Words
    BY <1>1, SignedAsWord
  <1>3. p = [i \in Pair |-> (words[i] * Word(y)) \div Base]
    <2> HIDE DEF words
    <2> QED BY <1>2, HighWordsOfPair
  <1>4. ASSUME NEW i \in Pair
        PROVE  Signed(p[i] - Where(Word(lane[i]), y) - Where(Word(y), lane[i]))
                 = (lane[i] * y) \div Base
    <2>1. lane[i] \in SignedWords
      BY <1>0
    <2>2. p[i] = (words[i] * Word(y)) \div Base
      BY <1>3
    <2>3. p[i] = (Word(lane[i]) * Word(y)) \div Base
      BY <2>2
    <2> QED BY <2>1, <2>3, HighWordCorrected
  <1> HIDE DEF p
  <1>5. MulHiSignedPair(lane, y)
          = [i \in Pair |-> Signed(p[i] - Where(Word(lane[i]), y) - Where(Word(y), lane[i]))]
    BY DEF MulHiSignedPair, p
  <1> QED BY <1>4, <1>5

\* A shift that moves the sign down, by an unsigned shift.
LEMMA ShiftedFlat ==
  ASSUME NEW v \in SignedWords, NEW k \in 0 .. WordBits - 1
  PROVE  ShiftRightFlat(v, k) = v \div 2 ^ k /\ v \div 2 ^ k \in SignedWords
  <1> DEFINE g == Base \div 2
             K == 2 ^ k
             m == 2 ^ (WordBits - k - 1)
             q == v \div K
             w == Word(v)
             x == w \div K
  <1>1. K \in 1 .. g /\ m \in Nat \ {0} /\ g = K * m
    <2>1. WordBits - 1 - k = WordBits - k - 1
      BY WordSizes
    <2> QED BY <2>1, PowerOfWord
  <1>2. g \in Nat /\ Base = 2 * g
    BY WordSizes
  <1> HIDE DEF K, m
  <1>3. v \in Int /\ -g <= v /\ v < g
    BY <1>2 DEF SignedWords
  <1>4. w = (IF v < 0 THEN v + Base ELSE v)
    BY SignedAsWord
  <1> HIDE DEF g, w
  <1>5. K \in Nat \ {0}
    BY <1>1, <1>2
  <1>6. q \in Int
    BY <1>3, <1>5, Division
  <1>7. -m <= q
    <2>1. (-m) * K <= v /\ -m \in Int
      BY <1>1, <1>3, <1>5
    <2> QED BY <1>3, <1>5, <2>1, QuotientBounds
  <1>8. q < m
    <2>1. v < m * K
      BY <1>1, <1>3, <1>5
    <2> QED BY <1>1, <1>3, <1>5, <2>1, QuotientBounds
  <1>9. v >= 0 => q >= 0
    <2>1. ASSUME v >= 0 PROVE 0 * K <= v
      BY <1>5, <2>1
    <2>2. (0 * K <= v) <=> (0 <= q)
      BY <1>3, <1>5, QuotientBounds
    <2> QED BY <1>6, <2>1, <2>2
  <1>10. v < 0 => q < 0
    <2>1. ASSUME v < 0 PROVE v < 0 * K
      BY <1>5, <2>1
    <2>2. (v < 0 * K) <=> (q < 0)
      BY <1>3, <1>5, QuotientBounds
    <2> QED BY <2>1, <2>2
  <1>11. x = IF v < 0 THEN q + 2 * m ELSE q
    <2>1. CASE v < 0
      <3> DEFINE mm == 2 * m
      <3>1. Base = mm * K /\ mm \in Int
        <4>1. mm * K = 2 * (K * m)
          BY <1>1, <1>5
        <4> QED BY <1>1, <1>2, <4>1
      <3> HIDE DEF mm
      <3>2. (v + mm * K) \div K = q + mm
        BY <1>3, <1>5, <3>1, QuotientPlus
      <3> QED BY <1>4, <2>1, <3>1, <3>2 DEF mm
    <2>2. CASE v >= 0
      BY <1>3, <1>4, <2>2
    <2> QED BY <1>3, <2>1, <2>2
  <1> HIDE DEF q, x
  <1>12. (IF x >= m THEN x - m ELSE x + m) - m = q
    BY <1>1, <1>3, <1>6, <1>7, <1>8, <1>9, <1>10, <1>11
  <1>13. m <= g
    BY <1>1, <1>2, <1>5
  <1>14. q \in SignedWords
    <2>1. q \in -g .. g - 1
      BY <1>1, <1>2, <1>6, <1>7, <1>8, <1>13
    <2> QED BY <2>1 DEF SignedWords, g
  <1>15. Signed(q) = q
    BY <1>14, SignedIs
  <1>16. ShiftRightFlat(v, k) = Signed((IF x >= m THEN x - m ELSE x + m) - m)
    BY DEF ShiftRightFlat, x, w, m, K
  <1> QED BY <1>12, <1>14, <1>15, <1>16 DEF q, K

-----------------------------------------------------------------------------
(***************************************************************************)
(* Words bit by bit, of any width: a word is its bits, and every choice of *)
(* bits is a word.                                                         *)
(***************************************************************************)
LEMMA BitType ==
  ASSUME NEW z \in Nat, NEW i \in Nat
  PROVE  Bit(z, i) = 0 \/ Bit(z, i) = 1
  <1> DEFINE k == 2 ^ i
             q == z \div k
  <1>1. k \in Nat /\ k > 0
    BY PowerDoubles
  <1> HIDE DEF k
  <1>2. q \in Int
    BY <1>1
  <1> HIDE DEF q
  <1>3. (q % 2) = 0 \/ (q % 2) = 1
    BY <1>2
  <1> QED BY <1>3 DEF Bit, q, k

\* The next bit counts as its power.
LEMMA NextBit ==
  ASSUME NEW z \in Nat, NEW i \in Nat
  PROVE  (z % 2 ^ (i + 1)) = (z % 2 ^ i) + 2 ^ i * Bit(z, i)
  <1> DEFINE k == 2 ^ i
             q == z \div k
             r == z % k
             s == q \div 2
             t == q % 2
  <1>0. k \in Nat /\ k > 0 /\ 2 ^ (i + 1) = 2 * k
    BY PowerDoubles
  <1> HIDE DEF k
  <1>1. q \in Int /\ r \in 0 .. k - 1 /\ z = k * q + r
    BY <1>0, Division
  <1> HIDE DEF q, r
  <1>2. s \in Int /\ t \in 0 .. 1 /\ q = 2 * s + t
    BY <1>1
  <1> HIDE DEF s, t
  <1> DEFINE kk == 2 * k
             rr == r + k * t
  <1>3. z = kk * s + rr
    BY <1>0, <1>1, <1>2
  <1>4. rr \in Int /\ 0 <= rr /\ rr < kk
    <2>1. t = 0 \/ t = 1
      BY <1>2
    <2> QED BY <1>0, <1>1, <2>1
  <1>5. kk \in Nat \ {0}
    BY <1>0
  <1> HIDE DEF kk, rr
  <1>6. (z % kk) = rr
    BY <1>2, <1>3, <1>4, <1>5, DivisionIs
  <1> QED BY <1>0, <1>6 DEF kk, rr, q, r, t, k, Bit

\* No two words have the same bits.
LEMMA SameBits ==
  ASSUME NEW n \in Nat, NEW x \in 0 .. 2 ^ n - 1, NEW y \in 0 .. 2 ^ n - 1,
         \A i \in 0 .. n - 1 : Bit(x, i) = Bit(y, i)
  PROVE  x = y
  <1>1. 2 ^ n \in Nat /\ x \in Nat /\ y \in Nat /\ x < 2 ^ n /\ y < 2 ^ n
    BY PowerDoubles
  <1> DEFINE T == {i \in Nat : (x % 2 ^ i) = (y % 2 ^ i)}
  <1>2. 0 \in T
    <2>1. 2 ^ 0 = 1
      OBVIOUS
    <2>2. (x % 1) = 0 /\ (y % 1) = 0
      BY <1>1
    <2> QED BY <2>1, <2>2
  <1>3. ASSUME NEW i \in 0 .. n, i < n, i \in T PROVE i + 1 \in T
    <2>1. (x % 2 ^ (i + 1)) = (x % 2 ^ i) + 2 ^ i * Bit(x, i)
      BY <1>1, NextBit
    <2>2. (y % 2 ^ (i + 1)) = (y % 2 ^ i) + 2 ^ i * Bit(y, i)
      BY <1>1, NextBit
    <2>3. Bit(x, i) = Bit(y, i) /\ (x % 2 ^ i) = (y % 2 ^ i)
      BY <1>3
    <2> QED BY <2>1, <2>2, <2>3
  <1> HIDE DEF T
  <1>4. 0 .. n \subseteq T
    BY <1>2, <1>3, UpwardInduction
  <1>5. (x % 2 ^ n) = (y % 2 ^ n)
    BY <1>4 DEF T
  <1> DEFINE p == 2 ^ n
  <1>6. p \in Nat /\ x < p /\ y < p /\ (x % p) = (y % p)
    BY <1>1, <1>5
  <1> HIDE DEF p
  <1> QED BY <1>1, <1>6

\* Every choice of bits is a word's.
LEMMA WordWithBits ==
  ASSUME NEW n \in Nat, NEW b \in [0 .. n - 1 -> {0, 1}]
  PROVE  \E z \in 0 .. 2 ^ n - 1 : \A i \in 0 .. n - 1 : Bit(z, i) = b[i]
  <1> DEFINE Has(m) == \E z \in 0 .. 2 ^ m - 1 : \A i \in 0 .. m - 1 : Bit(z, i) = b[i]
             T == {m \in Nat : Has(m)}
  <1>1. 0 \in T
    <2>1. 2 ^ 0 = 1
      OBVIOUS
    <2> QED BY <2>1
  <1>2. ASSUME NEW m \in 0 .. n, m < n, m \in T PROVE m + 1 \in T
    <2>1. PICK z \in 0 .. 2 ^ m - 1 : \A i \in 0 .. m - 1 : Bit(z, i) = b[i]
      BY <1>2
    <2> DEFINE p == 2 ^ m
               t == b[m]
               w == z + p * t
    <2>2. p \in Nat /\ p > 0 /\ 2 ^ (m + 1) = 2 * p
      BY PowerDoubles
    <2>3. t = 0 \/ t = 1
      BY <1>2
    <2>4. z \in Nat /\ z < p
      BY <2>1, <2>2
    <2> HIDE DEF p, t
    <2>5. w \in Nat /\ w < 2 * p
      BY <2>2, <2>3, <2>4
    <2>6. Bit(w, m) = t
      <3>1. w \div p = t
        BY <2>2, <2>3, <2>4, DivisionIs
      <3>2. (t % 2) = t
        BY <2>3
      <3> QED BY <3>1, <3>2 DEF Bit, p
    <2>7. ASSUME NEW i \in 0 .. m - 1 PROVE Bit(w, i) = Bit(z, i)
      <3> DEFINE k == 2 ^ i
                 j == m - i - 1
                 h == 2 ^ j
                 q == z \div k
                 r == z % k
                 g == q + 2 * (h * t)
      <3>1. i \in Nat /\ j \in Nat /\ (i + 1) + j = m
        OBVIOUS
      <3> HIDE DEF j
      <3>2. p = 2 ^ (i + 1) * h
        <4>1. i + 1 \in Nat
          OBVIOUS
        <4>2. 2 ^ ((i + 1) + j) = 2 ^ (i + 1) * 2 ^ j
          BY <3>1, <4>1, PowerAdds
        <4> QED BY <3>1, <4>2 DEF p
      <3>3. k \in Nat /\ k > 0 /\ 2 ^ (i + 1) = 2 * k
        BY <3>1, PowerDoubles
      <3>4. h \in Nat
        BY <3>1, PowerDoubles
      <3> HIDE DEF k, h
      <3>5. q \in Int /\ r \in 0 .. k - 1 /\ z = k * q + r
        BY <2>4, <3>3, Division
      <3> HIDE DEF q, r
      <3>6. w = k * g + r /\ g \in Int
        <4>1. CASE t = 0
          BY <2>2, <2>4, <3>3, <3>4, <3>5, <4>1
        <4>2. CASE t = 1
          <5>1. p = 2 * (k * h)
            BY <3>2, <3>3, <3>4
          <5>2. k * g = k * q + 2 * (k * h)
            BY <3>3, <3>4, <3>5, <4>2
          <5> QED BY <2>4, <3>3, <3>4, <3>5, <4>2, <5>1, <5>2
        <4> QED BY <2>3, <4>1, <4>2
      <3>7. h * t \in Int
        BY <2>3, <3>4
      <3>8. (g % 2) = (q % 2)
        <4> DEFINE e == h * t
        <4>1. e \in Int
          BY <3>7
        <4> HIDE DEF e
        <4>2. ((q + 2 * e) % 2) = (q % 2)
          BY <3>5, <4>1
        <4> QED BY <4>2 DEF e
      <3> HIDE DEF w, g
      <3>9. w \div k = g
        BY <2>5, <3>3, <3>5, <3>6, DivisionIs
      <3> QED BY <3>8, <3>9 DEF Bit, q, k
    <2>8. \A i \in 0 .. m : Bit(w, i) = b[i]
      <3> TAKE i \in 0 .. m
      <3>1. CASE i = m
        BY <2>6, <3>1 DEF t
      <3>2. CASE i # m
        <4>1. i \in 0 .. m - 1
          BY <3>2
        <4> HIDE DEF w
        <4> QED BY <2>1, <2>7, <4>1
      <3> QED BY <3>1, <3>2
    <2> HIDE DEF w
    <2>9. w \in 0 .. 2 ^ (m + 1) - 1
      BY <2>2, <2>5
    <2>10. \A i \in 0 .. (m + 1) - 1 : Bit(w, i) = b[i]
      BY <2>8
    <2> QED BY <2>9, <2>10
  <1> HIDE DEF T
  <1>3. 0 .. n \subseteq T
    BY <1>1, <1>2, UpwardInduction
  <1> QED BY <1>3 DEF T

-----------------------------------------------------------------------------
(***************************************************************************)
(* The division of two words by one, digit by digit.                       *)
(***************************************************************************)

\* A word is its bits.
LEMMA BitsOfWord ==
  ASSUME NEW x \in Words, NEW y \in Words,
         \A i \in 0 .. WordBits - 1 : Bit(x, i) = Bit(y, i)
  PROVE  x = y
  BY WordSizes, SameBits DEF Words, Base

\* Or with nothing changes nothing.
LEMMA OrNothing ==
  ASSUME NEW x \in Words
  PROVE  Or(x, 0) = x
  <1>1. WordBits \in Nat /\ x \in Nat
    BY WordSizes DEF Words
  <1> DEFINE Is(z) == \A i \in 0 .. WordBits - 1 :
                        Bit(z, i) = IF Bit(x, i) = 1 \/ Bit(0, i) = 1 THEN 1 ELSE 0
  <1>2. ASSUME NEW i \in 0 .. WordBits - 1
        PROVE  /\ Bit(x, i) = 0 \/ Bit(x, i) = 1
               /\ Bit(0, i) = 0
    <2> DEFINE k == 2 ^ i
    <2>1. k \in Nat /\ k > 0
      BY <1>1, PowerDoubles
    <2> HIDE DEF k
    <2>2. x \div k \in Int /\ 0 \div k = 0
      BY <1>1, <2>1
    <2>3. ((x \div k) % 2) = 0 \/ ((x \div k) % 2) = 1
      BY <2>2
    <2>4. ((0 \div k) % 2) = 0
      BY <2>2
    <2> QED BY <2>3, <2>4 DEF Bit, k
  <1>3. Is(x)
    BY <1>2
  <1>4. ASSUME NEW z \in Words, Is(z) PROVE z = x
    <2>1. \A i \in 0 .. WordBits - 1 : Bit(z, i) = Bit(x, i)
      BY <1>2, <1>3, <1>4
    <2> QED BY <2>1, BitsOfWord
  <1>5. Or(x, 0) = CHOOSE z \in Words : Is(z)
    BY DEF Or
  <1> HIDE DEF Is
  <1> QED BY <1>3, <1>4, <1>5

\* One digit.  The estimate is right or too big; it is corrected while it is
\* too big, and no sooner does the remainder have two digits than it is right.
LEMMA DigitIs ==
  ASSUME NEW v1 \in Half \div 2 .. Half - 1, NEW v0 \in 0 .. Half - 1,
         NEW u \in Nat, u < Half * v1 + v0, NEW un \in 0 .. Half - 1
  PROVE  /\ Digit(u \div v1, u % v1, v1, v0, un) = (Half * u + un) \div (Half * v1 + v0)
         /\ (Half * u + un) \div (Half * v1 + v0) \in 0 .. Half - 1
  <1> DEFINE h == Half \div 2
             v == Half * v1 + v0
             n == Half * u + un
             Q == n \div v
             q == u \div v1
             r == u % v1
             Sets(k) == Settled(k, q, r, v1, v0, un)
             Least(k) == Sets(k) /\ \A j \in 0 .. k - 1 : ~Sets(j)
  <1>1. /\ Half \in Nat /\ Half >= 2 /\ h \in Nat /\ Half = 2 * h
        /\ Base = Half * Half /\ Base \in Nat
    BY WordSizes
  <1> HIDE DEF h
  <1>2. v1 \in Nat \ {0} /\ h <= v1 /\ v1 < Half /\ v0 \in Nat /\ v0 < Half /\ un \in Nat /\ un < Half
    BY <1>1 DEF h
  <1>3. v \in Nat \ {0} /\ n \in Nat
    BY <1>1, <1>2
  <1>4. Q \in 0 .. Half - 1
    <2>1. 0 * v <= n
      BY <1>3
    <2>2. n < Half * v
      <3>1. u <= v - 1
        BY <1>3
      <3>2. Half * u <= Half * (v - 1)
        BY <1>1, <1>3, <3>1
      <3>3. Half * (v - 1) = Half * v - Half
        BY <1>1, <1>3
      <3>4. Half * v \in Int /\ Half * u \in Int
        BY <1>1, <1>3
      <3> HIDE DEF v
      <3> QED BY <1>1, <1>2, <3>2, <3>3, <3>4
    <2> HIDE DEF v, n
    <2>3. Q \in Int
      BY <1>3, Division
    <2> QED BY <1>1, <1>3, <2>1, <2>2, <2>3, QuotientBounds
  <1>5. q \in Int /\ r \in 0 .. v1 - 1 /\ u = v1 * q + r
    <2>1. u \in Int /\ v1 \in Nat \ {0}
      BY <1>2
    <2>2. u \div v1 \in Int /\ (u % v1) \in 0 .. v1 - 1 /\ u = v1 * (u \div v1) + (u % v1)
      <3> HIDE DEF v, n, Q, q, r
      <3> QED BY ONLY <2>1, Division
    <2> QED BY <2>2
  <1> HIDE DEF q, r
  <1>6. q >= 0
    <2>1. 0 * v1 <= u
      BY <1>2
    <2> QED BY <1>2, <1>5, <2>1, QuotientBounds DEF q
  \* The comparison of the code, as long as the remainder is one digit long.
  <1>7. ASSUME NEW k \in Nat
        PROVE  (n < (q - k) * v) <=> (Half * (r + k * v1) + un < (q - k) * v0)
    <2>1. (q - k) * v = (q - k) * (Half * v1) + (q - k) * v0
      BY <1>1, <1>2, <1>5
    <2>2. (q - k) * (Half * v1) = Half * (v1 * q) - Half * (k * v1)
      BY <1>1, <1>2, <1>5
    <2>3. n = Half * (v1 * q) + Half * r + un
      BY <1>1, <1>2, <1>5
    <2>4. Half * (r + k * v1) = Half * r + Half * (k * v1)
      BY <1>1, <1>2, <1>5
    <2> DEFINE a == (q - k) * v
               b == (q - k) * v0
               c == Half * (v1 * q)
               d == Half * (k * v1)
               e == Half * r
               f == Half * (r + k * v1)
    <2>5. a \in Int /\ b \in Int /\ c \in Int /\ d \in Int /\ e \in Int /\ f \in Int
      BY <1>1, <1>2, <1>5
    <2>6. a = (c - d) + b /\ n = c + e + un /\ f = e + d
      BY <2>1, <2>2, <2>3, <2>4
    <2> HIDE DEF a, b, c, d, e, f, n
    <2>7. (n < a) <=> (f + un < b)
      BY <1>2, <1>3, <2>5, <2>6
    <2> QED BY <2>7 DEF a, b, f
  <1>8. ASSUME NEW k \in Nat PROVE (n < (q - k) * v) <=> (Q < q - k)
    <2>1. q - k \in Int
      BY <1>5
    <2> HIDE DEF n, v
    <2> QED BY <1>3, <2>1, QuotientBounds
  <1> HIDE DEF Q, n, v
  <1>9. Q <= q
    <2>1. ~(Half * (r + 0 * v1) + un < (q - 0) * v0) \/ Q < q - 0
      BY <1>7, <1>8
    <2> SUFFICES ASSUME q < Q PROVE FALSE
        BY <1>4, <1>5
    <2>2. Q * v <= n
      <3>1. (Q * v <= n) <=> (Q <= n \div v)
        BY <1>3, <1>4, QuotientBounds
      <3> QED BY <1>4, <3>1 DEF Q
    <2>3. (q + 1) * v <= Q * v
      BY <1>3, <1>4, <1>5
    <2>4. (q + 1) * v <= n
      BY <1>3, <1>4, <1>5, <2>2, <2>3
    <2>5. (q + 1) * v >= (q + 1) * (Half * v1)
      BY <1>1, <1>2, <1>5, <1>6 DEF v
    <2>6. (q + 1) * (Half * v1) = Half * (v1 * q) + Half * v1
      BY <1>1, <1>2, <1>5
    <2>7. n = Half * (v1 * q) + Half * r + un
      BY <1>1, <1>2, <1>5 DEF n
    <2>8. Half * r <= Half * (v1 - 1)
      BY <1>1, <1>2, <1>5
    <2>9. Half * (v1 - 1) = Half * v1 - Half
      BY <1>1, <1>2
    <2> DEFINE a == (q + 1) * v
               b == (q + 1) * (Half * v1)
               c == Half * (v1 * q)
               d == Half * v1
               e == Half * r
    <2>10. a \in Int /\ b \in Int /\ c \in Int /\ d \in Int /\ e \in Int
      BY <1>1, <1>2, <1>3, <1>5
    <2>11. a <= n /\ b <= a /\ b = c + d /\ n = c + e + un /\ e <= d - Half
      BY <2>4, <2>5, <2>6, <2>7, <2>8, <2>9
    <2> HIDE DEF a, b, c, d, e
    <2> QED BY <1>1, <1>2, <1>3, <2>10, <2>11
  <1> DEFINE s == q - Q
             rhat(k) == r + k * v1
  <1>10. s \in Nat
    BY <1>4, <1>5, <1>9
  <1>11. q <= Half + 1
    <2>1. u < (Half + 2) * v1
      <3>1. Half <= 2 * v1
        BY <1>1, <1>2
      <3>2. u < Half * v1 + Half
        BY <1>1, <1>2 DEF v
      <3>3. (Half + 2) * v1 = Half * v1 + 2 * v1
        BY <1>1, <1>2
      <3>4. Half * v1 \in Int
        BY <1>1, <1>2
      <3> QED BY <1>1, <1>2, <3>1, <3>2, <3>3, <3>4
    <2>2. Half + 2 \in Int
      BY <1>1
    <2>3. q < Half + 2
      BY <1>2, <2>1, <2>2, QuotientBounds DEF q
    <2> QED BY <1>1, <1>5, <2>3
  <1>12. ASSUME NEW k \in Nat PROVE k * v1 \in Nat /\ rhat(k) \in Nat
    BY <1>2, <1>5
  \* A remainder of two digits: the estimate is right.
  <1>13. ASSUME NEW k \in Nat, rhat(k) >= Half PROVE ~(Q < q - k)
    <2>1. k # 0
      BY <1>1, <1>2, <1>5, <1>13
    <2>2. q - k <= Half
      BY <1>1, <1>5, <1>11, <2>1
    <2> DEFINE a == rhat(k)
               b == (q - k) * v0
    <2>3. a \in Nat /\ b \in Int /\ a >= Half
      BY <1>2, <1>5, <1>12, <1>13
    <2>4. b <= Half * v0
      BY <1>1, <1>2, <1>5, <2>2
    <2>5. Half * v0 <= Half * Half
      BY <1>1, <1>2
    <2> HIDE DEF a, b
    <2>6. Half * a >= Half * Half
      BY <1>1, <2>3
    <2>7. Half * a \in Int /\ Half * v0 \in Int /\ Half * Half \in Int
      BY <1>1, <1>2, <2>3
    <2>8. ~(Half * a + un < b)
      BY <1>2, <2>3, <2>4, <2>5, <2>6, <2>7
    <2>9. ~(n < (q - k) * v)
      BY <1>7, <2>8 DEF a, b
    <2> QED BY <1>8, <2>9
  \* A remainder of one digit: the code sees whether it is too big.
  <1>14. ASSUME NEW k \in Nat, rhat(k) < Half, Q <= q - k
         PROVE  TooBig(q - k, rhat(k), v0, un) <=> (Q < q - k)
    <2>1. CASE q - k >= Half
      <3>1. TooBig(q - k, rhat(k), v0, un)
        BY <2>1 DEF TooBig
      <3>2. Q < q - k
        BY <1>1, <1>4, <1>5, <2>1
      <3> QED BY <3>1, <3>2
    <2>2. CASE q - k < Half
      <3> DEFINE a == rhat(k)
                 b == (q - k) * v0
                 c == Half * a + un
      <3>1. a \in Nat /\ a < Half
        BY <1>12, <1>14
      <3>2. b \in Words
        <4>1. q - k \in Nat
          BY <1>4, <1>5, <1>14
        <4>2. 0 <= b /\ b <= (q - k) * Half /\ b \in Int
          BY <1>1, <1>2, <4>1
        <4>3. (q - k) * Half < Half * Half
          BY <1>1, <4>1, <2>2
        <4>4. (q - k) * Half \in Int
          BY <1>1, <4>1
        <4> HIDE DEF b
        <4> QED BY <1>1, <4>2, <4>3, <4>4 DEF Words
      <3> HIDE DEF a, b
      <3>3. c \in Words
        <4>1. Half * a <= Half * (Half - 1) /\ 0 <= Half * a
          BY <1>1, <3>1
        <4>2. Half * (Half - 1) = Base - Half
          BY <1>1
        <4> QED BY <1>1, <1>2, <3>1, <4>1, <4>2 DEF Words
      <3> HIDE DEF c
      <3>4. Word(b) = b /\ Word(c) = c
        BY <3>2, <3>3, WordIs
      <3>5. b \in Int /\ c \in Int
        BY <1>1, <3>2, <3>3 DEF Words
      <3>6. TooBig(q - k, rhat(k), v0, un) <=> q - k >= Half \/ Word(b) > Word(c)
        BY DEF TooBig, a, b, c
      <3>7. (n < (q - k) * v) <=> c < b
        BY <1>7 DEF a, b, c
      <3>8. ~(q - k >= Half)
        BY <1>1, <1>5, <2>2
      <3> QED BY <1>8, <3>4, <3>5, <3>6, <3>7, <3>8
    <2> QED BY <1>1, <1>5, <2>1, <2>2
  <1>15. Sets(s)
    <2>1. q - s = Q
      BY <1>4, <1>5
    <2>2. rhat(s) \in Nat
      BY <1>10, <1>12
    <2>3. CASE rhat(s) < Half
      <3>1. ~TooBig(q - s, rhat(s), v0, un)
        <4>1. Q <= q - s /\ ~(Q < q - s)
          BY <1>4, <2>1
        <4> HIDE DEF s, rhat
        <4> QED BY <1>10, <1>14, <2>3, <4>1
      <3> QED BY <3>1 DEF Settled
    <2>4. CASE rhat(s) >= Half
      <3>1. s # 0
        BY <1>1, <1>2, <1>5, <2>4
      <3>2. s > 0
        BY <1>10, <3>1
      <3> QED BY <2>4, <3>2 DEF Settled
    <2> HIDE DEF rhat, Sets
    <2> QED BY <1>1, <2>2, <2>3, <2>4
  <1>16. ASSUME NEW j \in Nat, j < s PROVE ~Sets(j)
    <2>1. Q < q - j
      BY <1>4, <1>5, <1>16
    <2>2. ~(rhat(j) >= Half)
      BY <1>13, <2>1
    <2>3. rhat(j) < Half
      BY <1>1, <1>12, <2>2
    <2>4. TooBig(q - j, rhat(j), v0, un)
      <3>1. Q <= q - j
        BY <1>4, <1>5, <2>1
      <3> QED BY <1>14, <2>1, <2>3, <3>1
    <2> QED BY <2>2, <2>4 DEF Settled
  <1> HIDE DEF Sets
  <1>17. s \in 0 .. Half
    <2>1. ASSUME s > 2 PROVE FALSE
      <3>1. 2 \in Nat /\ 2 < s
        BY <2>1
      <3>2. ~Sets(2)
        BY <1>16, <3>1
      <3>3. rhat(2) >= Half
        BY <1>1, <1>2, <1>5
      <3>4. Sets(2)
        BY <3>3 DEF Settled, Sets
      <3> QED BY <3>2, <3>4
    <2> QED BY <1>1, <1>10, <2>1
  <1>18. Least(s)
    <2>1. \A j \in 0 .. s - 1 : j \in Nat /\ j < s
      BY <1>10
    <2> HIDE DEF s
    <2> QED BY <1>15, <1>16, <2>1
  <1>19. ASSUME NEW k \in 0 .. Half, Least(k) PROVE k = s
    <2>1. k \in Nat
      OBVIOUS
    <2>2. ~(k < s)
      BY <1>16, <1>19, <2>1
    <2>3. ~(s < k)
      <3>1. ASSUME s < k PROVE s \in 0 .. k - 1
        BY <1>10, <2>1, <3>1
      <3> HIDE DEF s
      <3> QED BY <1>15, <1>19, <3>1
    <2> QED BY <1>10, <2>1, <2>2, <2>3
  <1>20. Digit(q, r, v1, v0, un) = q - CHOOSE k \in 0 .. Half : Least(k)
    BY DEF Digit, Sets
  <1> HIDE DEF Least, s
  <1>21. (CHOOSE k \in 0 .. Half : Least(k)) = s
    BY <1>17, <1>18, <1>19
  <1>22. q - s = Q
    BY <1>4, <1>5 DEF s
  <1> QED BY <1>4, <1>20, <1>21, <1>22 DEF q, r, Q, n, v

\* A division is the same on a larger scale.
LEMMA ScaledDivision ==
  ASSUME NEW n \in Int, NEW d \in Nat \ {0}, NEW s \in Nat \ {0}
  PROVE  (n * s) \div (d * s) = n \div d /\ ((n * s) % (d * s)) = (n % d) * s
  <1> DEFINE q == n \div d
             r == n % d
             ns == n * s
             ds == d * s
             rs == r * s
  <1>1. q \in Int /\ r \in 0 .. d - 1 /\ n = d * q + r
    BY Division
  <1> HIDE DEF q, r
  <1>2. ns = ds * q + rs
    BY <1>1
  <1>3. rs \in Int /\ 0 <= rs /\ ns \in Int /\ ds \in Nat \ {0}
    BY <1>1
  <1>4. rs < ds
    BY <1>1, TimesLess
  <1> HIDE DEF ns, ds, rs
  <1>5. ns \div ds = q /\ (ns % ds) = rs
    BY <1>1, <1>2, <1>3, <1>4, DivisionIs
  <1> QED BY <1>5 DEF ns, ds, rs, q, r

\* Two digits of a quotient, one after the other.
LEMMA TwoDigits ==
  ASSUME NEW H \in Nat \ {0}, NEW n \in Nat, NEW v \in Nat \ {0}
  PROVE  /\ (H * H * n) \div v = ((H * n) \div v) * H + (H * ((H * n) % v)) \div v
         /\ ((H * H * n) % v) = ((H * ((H * n) % v)) % v)
  <1> DEFINE a == H * n
             q1 == a \div v
             r1 == a % v
             b == H * r1
             q0 == b \div v
             r0 == b % v
             c == H * H * n
             q == q1 * H + q0
  <1>1. a \in Int /\ c \in Int /\ c = H * a
    OBVIOUS
  <1> HIDE DEF a, c
  <1>2. q1 \in Int /\ r1 \in 0 .. v - 1 /\ a = v * q1 + r1
    BY <1>1, Division
  <1> HIDE DEF q1, r1
  <1>3. b \in Int
    BY <1>2
  <1>4. c = H * (v * q1) + b
    BY <1>1, <1>2
  <1> HIDE DEF b
  <1>5. q0 \in Int /\ r0 \in 0 .. v - 1 /\ b = v * q0 + r0
    BY <1>3, Division
  <1> HIDE DEF q0, r0
  <1>6. q \in Int /\ c = v * q + r0 /\ r0 \in Int /\ 0 <= r0 /\ r0 < v
    BY <1>2, <1>4, <1>5
  <1> HIDE DEF q
  <1>7. c \div v = q /\ (c % v) = r0
    BY <1>1, <1>6, DivisionIs
  <1> QED BY <1>7 DEF c, q, r0, q0, b, r1, q1, a

\* The division of two words by one, as the machine does it.
LEMMA DivIs ==
  ASSUME NEW u1 \in Nat, NEW v \in Words, u1 < v
  PROVE  /\ Div(u1, 0, v) = [quot |-> (u1 * Base) \div v, rem |-> ((u1 * Base) % v)]
         /\ (u1 * Base) \div v \in Words
         /\ ((u1 * Base) % v) \in 0 .. v - 1
         /\ u1 * Base = v * ((u1 * Base) \div v) + ((u1 * Base) % v)
  <1> DEFINE n == u1 * Base
             q == n \div v
             r == n % v
             qv == q * v
  <1>1. Base \in Nat \ {0} /\ v \in Nat \ {0} /\ v < Base
    BY WordSizes DEF Words
  <1>2. n \in Nat
    BY <1>1
  <1>0. n + 0 = n
    BY <1>2
  <1>3. n < Base * v
    BY <1>1
  <1>4. 0 * v <= n
    BY <1>1, <1>2
  <1> HIDE DEF n
  <1>5. q \in Int /\ r \in 0 .. v - 1 /\ n = v * q + r
    <2>1. n \in Int /\ v \in Nat \ {0}
      BY <1>1, <1>2
    <2>2. n \div v \in Int /\ (n % v) \in 0 .. v - 1 /\ n = v * (n \div v) + (n % v)
      <3> HIDE DEF q, r
      <3> QED BY <2>1, Division
    <2> QED BY <2>2 DEF q, r
  <1>6. 0 <= q /\ q < Base
    BY <1>1, <1>2, <1>3, <1>4, QuotientBounds
  <1> HIDE DEF q, r
  <1>7. q \in Words /\ r \in Words
    BY <1>1, <1>5, <1>6 DEF Words
  <1>8. n - qv = r
    BY <1>1, <1>2, <1>5
  <1>9. Word(q) = q /\ Word(r) = r
    BY <1>7, WordIs
  <1>10. Div(u1, 0, v) = [quot |-> Word(n \div v), rem |-> Word(n - Word(n \div v) * v)]
    BY <1>0 DEF Div, n
  <1>11. Word(n \div v) = q
    BY <1>9 DEF q
  <1>12. Div(u1, 0, v) = [quot |-> q, rem |-> r]
    BY <1>8, <1>9, <1>10, <1>11
  <1> QED BY <1>5, <1>7, <1>12 DEF q, r, n

\* Knuth's division in digits comes to the same.
LEMMA DivHalvesIs ==
  ASSUME NEW u1 \in Nat, NEW v \in Words, u1 < v
  PROVE  DivHalves(u1, 0, v) = Div(u1, 0, v)
  <1> DEFINE s == LeadingZeros(v)
             S == 2 ^ s
             vv == v * S
             U == u1 * S
             v1 == vv \div Half
             v0 == vv % Half
             HU == Half * U
             q1 == HU \div vv
             r1 == HU % vv
             Hr == Half * r1
             q0 == Hr \div vv
             r0 == Hr % vv
  <1>1. /\ Half \in Nat /\ Half >= 2 /\ Base = Half * Half /\ Base \in Nat \ {0}
        /\ Base = 2 * (Base \div 2) /\ Base \div 2 \in Nat
        /\ Half = 2 * (Half \div 2) /\ Half \div 2 \in Nat /\ WordBits \in Nat
    BY WordSizes
  <1>2. v \in 1 .. Base - 1 /\ v \in Nat
    BY <1>1 DEF Words
  <1>3. s \in 0 .. WordBits - 1 /\ S \in Nat \ {0} /\ vv \in Base \div 2 .. Base - 1
    <2> DEFINE l == FloorLog2(v)
               L == 2 ^ l
               M == 2 ^ (l + 1)
    <2>1. l \in 0 .. WordBits - 1 /\ s \in 0 .. WordBits - 1 /\ s = WordBits - 1 - l /\ L <= v /\ v < M
      BY <1>2, Logarithm
    <2>2. L \in 1 .. Base \div 2 /\ M = 2 * L /\ 2 ^ (WordBits - 1 - l) \in Nat \ {0}
          /\ Base \div 2 = L * 2 ^ (WordBits - 1 - l)
      <3> HIDE DEF l
      <3> QED BY <2>1, PowerOfWord
    <2> HIDE DEF s, l, L, M
    <2>3. S \in Nat \ {0} /\ Base \div 2 = L * S
      BY <2>1, <2>2
    <2> HIDE DEF S
    <2>4. L * S <= v * S
      BY <1>1, <1>2, <2>1, <2>2, <2>3
    <2>5. v * S < (2 * L) * S
      BY <1>1, <1>2, <2>1, <2>2, <2>3
    <2>6. (2 * L) * S = Base
      BY <1>1, <2>2, <2>3
    <2> QED BY <1>1, <1>2, <2>1, <2>3, <2>4, <2>5, <2>6
  <1>4. s = 0 => S = 1
    <2>1. 2 ^ 0 = 1
      OBVIOUS
    <2> HIDE DEF s
    <2> QED BY <2>1
  <1>5. ASSUME NEW k \in Nat PROVE ShiftRight(0, k) = 0 /\ ShiftLeft(0, k) = 0
    <2> DEFINE K == 2 ^ k
    <2>1. K \in Nat /\ K > 0
      BY PowerDoubles
    <2> HIDE DEF K
    <2>2. 0 \div K = 0 /\ 0 * K = 0
      BY <2>1
    <2>3. 0 \in Words
      BY <1>1 DEF Words
    <2>4. Word(0) = 0
      BY <2>3, WordIs
    <2> QED BY <2>2, <2>4 DEF ShiftRight, ShiftLeft, K
  <1> HIDE DEF s
  <1>6. s \in Nat /\ WordBits - s \in Nat /\ (s > 0 \/ s = 0)
    BY <1>1, <1>3
  <1> HIDE DEF S
  <1>7. U \in Nat /\ U < vv
    BY <1>2, <1>3
  <1> HIDE DEF vv, U
  <1>8. vv \in Words /\ U \in Words /\ vv \in Nat \ {0} /\ 0 \in Words
    BY <1>1, <1>3, <1>7 DEF Words
  <1>9. ShiftLeft(v, s) = vv /\ ShiftLeft(u1, s) = U
    BY <1>8, WordIs DEF ShiftLeft, vv, U, S
  <1>10. (IF s > 0 THEN Or(ShiftLeft(u1, s), ShiftRight(0, WordBits - s)) ELSE Or(u1, 0)) = U
    <2>1. Or(U, 0) = U
      BY <1>8, OrNothing
    <2>2. CASE s > 0
      BY <1>5, <1>6, <1>9, <2>1, <2>2
    <2>3. CASE s = 0
      <3>1. U = u1
        BY <1>4, <2>3 DEF U
      <3> QED BY <2>1, <2>3, <3>1
    <2> QED BY <1>6, <2>2, <2>3
  <1>11. v1 \in Half \div 2 .. Half - 1 /\ v0 \in 0 .. Half - 1 /\ vv = Half * v1 + v0
    <2>1. v0 \in 0 .. Half - 1 /\ v1 \in 0 .. Half - 1 /\ vv = Half * v1 + v0
      BY <1>8, Halves
    <2>2. (Half \div 2) * Half <= vv
      <3> DEFINE h == Half \div 2
                 g == Base \div 2
                 hh == h * Half
      <3>1. h \in Nat /\ g \in Nat /\ Half = 2 * h /\ Base = 2 * g /\ vv \in Nat /\ g <= vv
        BY <1>1, <1>3, <1>8
      <3> HIDE DEF h, g
      <3>2. hh \in Nat
        BY <1>1, <3>1
      <3>3. Base = 2 * hh
        BY <1>1, <3>1
      <3> HIDE DEF hh
      <3>4. hh <= vv
        BY <3>1, <3>2, <3>3
      <3> QED BY <3>4 DEF hh, h
    <2>3. Half \div 2 <= v1
      <3>1. Half \in Nat \ {0} /\ Half \div 2 \in Int /\ vv \in Int
        BY <1>1, <1>8
      <3> HIDE DEF v0
      <3> QED BY <2>2, <3>1, QuotientBounds
    <2> QED BY <1>1, <2>1, <2>3
  <1> HIDE DEF v1, v0
  <1>12. HU \in Nat /\ HU < Half * vv
    <2>1. U <= vv - 1
      BY <1>7, <1>8
    <2> QED BY <1>1, <1>7, <1>8, <2>1
  <1>13. 0 \in 0 .. Half - 1 /\ 0 \div Half = 0 /\ (0 % Half) = 0
    BY <1>1
  <1>14. Digit(U \div v1, U % v1, v1, v0, 0) = q1 /\ q1 \in 0 .. Half - 1
    <2>1. HU + 0 = HU
      BY <1>12
    <2>2. /\ Digit(U \div v1, U % v1, v1, v0, 0) = (Half * U + 0) \div (Half * v1 + v0)
          /\ (Half * U + 0) \div (Half * v1 + v0) \in 0 .. Half - 1
      <3>1. U < Half * v1 + v0
        BY <1>7, <1>11
      <3> QED BY <1>7, <1>11, <1>13, <3>1, DigitIs
    <2> QED BY <1>11, <2>1, <2>2
  <1> HIDE DEF HU
  <1>15. r1 \in 0 .. vv - 1 /\ HU = vv * q1 + r1
    <2>1. HU \in Int /\ vv \in Nat \ {0}
      BY <1>8, <1>12
    <2>2. HU \div vv \in Int /\ (HU % vv) \in 0 .. vv - 1 /\ HU = vv * (HU \div vv) + (HU % vv)
      <3> HIDE DEF q1, r1
      <3> QED BY <2>1, Division
    <2> QED BY <2>2 DEF q1, r1
  <1> HIDE DEF q1, r1
  <1>16. U * Half + 0 - q1 * vv = r1 /\ r1 \in Words /\ r1 \in Nat
    <2>1. U * Half = HU
      BY <1>1, <1>7 DEF HU
    <2>2. q1 * vv = vv * q1 /\ q1 * vv \in Int
      BY <1>1, <1>8, <1>14
    <2>3. HU + 0 - q1 * vv = r1
      BY <1>8, <1>12, <1>15, <2>2
    <2> QED BY <1>1, <1>8, <1>15, <2>1, <2>3 DEF Words
  <1>17. Word(U * Half + 0 - q1 * vv) = r1
    BY <1>16, WordIs
  <1>18. Hr \in Nat
    BY <1>1, <1>16
  <1>19. Digit(r1 \div v1, r1 % v1, v1, v0, 0) = q0 /\ q0 \in 0 .. Half - 1
    <2>1. Hr + 0 = Hr
      BY <1>18
    <2>2. /\ Digit(r1 \div v1, r1 % v1, v1, v0, 0) = (Half * r1 + 0) \div (Half * v1 + v0)
          /\ (Half * r1 + 0) \div (Half * v1 + v0) \in 0 .. Half - 1
      <3>1. r1 < Half * v1 + v0
        BY <1>8, <1>11, <1>15
      <3> QED BY <1>11, <1>13, <1>16, <3>1, DigitIs
    <2> QED BY <1>11, <2>1, <2>2
  <1> HIDE DEF Hr
  <1>20. r0 \in 0 .. vv - 1 /\ Hr = vv * q0 + r0
    <2>1. Hr \in Int /\ vv \in Nat \ {0}
      BY <1>8, <1>18
    <2>2. Hr \div vv \in Int /\ (Hr % vv) \in 0 .. vv - 1 /\ Hr = vv * (Hr \div vv) + (Hr % vv)
      <3> HIDE DEF q0, r0
      <3> QED BY <2>1, Division
    <2> QED BY <2>2 DEF q0, r0
  <1> HIDE DEF q0, r0
  <1>21. r1 * Half + 0 - q0 * vv = r0 /\ r0 \in Words
    <2>1. r1 * Half = Hr
      BY <1>1, <1>16 DEF Hr
    <2>2. q0 * vv = vv * q0 /\ q0 * vv \in Int
      BY <1>1, <1>8, <1>19
    <2>3. Hr + 0 - q0 * vv = r0
      BY <1>8, <1>18, <1>20, <2>2
    <2> QED BY <1>1, <1>8, <1>20, <2>1, <2>3 DEF Words
  <1>22. Word(r1 * Half + 0 - q0 * vv) = r0
    BY <1>21, WordIs
  <1>23. DivHalves(u1, 0, v) = [quot |-> Word(q1 * Half + q0), rem |-> ShiftRight(r0, s)]
    <2>1. ~(u1 >= v)
      BY <1>2
    <2>2. ShiftLeft(0, s) = 0
      BY <1>5, <1>6
    <2> QED BY <1>9, <1>10, <1>13, <1>14, <1>17, <1>19, <1>22, <2>1, <2>2 DEF DivHalves, s, v1, v0
  \* The quotient and the remainder on the larger scale.
  <1> DEFINE n == u1 * Base
  <1>24. Base * U = n * S /\ n \in Int
    BY <1>1, <1>3 DEF U
  <1>25. q1 * Half + q0 = (Base * U) \div vv /\ r0 = ((Base * U) % vv)
    <2>1. /\ (Half * Half * U) \div vv = ((Half * U) \div vv) * Half + (Half * ((Half * U) % vv)) \div vv
          /\ ((Half * Half * U) % vv) = ((Half * ((Half * U) % vv)) % vv)
      <3>1. Half \in Nat \ {0}
        BY <1>1
      <3> QED BY <1>7, <1>8, <3>1, TwoDigits
    <2> QED BY <1>1, <2>1 DEF q1, q0, r0, Hr, r1, HU
  <1>26. q1 * Half + q0 = n \div v /\ r0 = (n % v) * S
    <2>1. v \in Nat \ {0}
      BY <1>2
    <2>2. (n * S) \div (v * S) = n \div v /\ ((n * S) % (v * S)) = (n % v) * S
      <3> HIDE DEF n
      <3> QED BY <1>3, <1>24, <2>1, ScaledDivision
    <2> QED BY <1>24, <1>25, <2>2 DEF vv
  <1>27. /\ Div(u1, 0, v) = [quot |-> n \div v, rem |-> (n % v)]
         /\ n \div v \in Words /\ (n % v) \in 0 .. v - 1
    BY DivIs
  <1> DEFINE r == n % v
  <1>28. r \in Nat
    BY <1>2, <1>27
  <1> HIDE DEF n, r
  <1>29. ShiftRight(r0, s) = r
    <2>1. r0 = r * S
      BY <1>26 DEF r
    <2>2. (r * S) \div S = r
      <3>1. r * S = S * r + 0 /\ r * S \in Int
        BY <1>3, <1>28
      <3>2. 0 < S
        BY <1>3
      <3> QED BY <1>3, <1>28, <3>1, <3>2, DivisionIs
    <2> QED BY <2>1, <2>2 DEF ShiftRight, S
  <1>30. Word(q1 * Half + q0) = n \div v
    BY <1>26, <1>27, WordIs
  <1> QED BY <1>23, <1>27, <1>29, <1>30 DEF r

-----------------------------------------------------------------------------
(***************************************************************************)
(* Two words by two words, for the divisor's way back from a long magic    *)
(* number.                                                                 *)
(***************************************************************************)
LEMMA Minus2Is ==
  ASSUME NEW a1 \in Words, NEW a0 \in Words, NEW b1 \in Words, NEW b0 \in Words,
         b1 * Base + b0 <= a1 * Base + a0
  PROVE  \E c1 \in Words, c0 \in Words :
            /\ Minus2(<<a1, a0>>, <<b1, b0>>) = <<c1, c0>>
            /\ c1 * Base + c0 = (a1 * Base + a0) - (b1 * Base + b0)
  <1>1. /\ Base \in Nat \ {0} /\ a1 \in Nat /\ a0 \in Nat /\ b1 \in Nat /\ b0 \in Nat
        /\ a1 < Base /\ a0 < Base /\ b1 < Base /\ b0 < Base
    BY WordSizes DEF Words
  <1> DEFINE w == IF a0 < b0 THEN 1 ELSE 0
             c1 == a1 - b1 - w
             c0 == a0 - b0 + w * Base
  <1>2. w \in 0 .. 1 /\ c0 \in Words
    BY <1>1 DEF Words
  <1>3. b1 + w <= a1
    <2>1. CASE b1 + w <= a1
      BY <2>1
    <2>2. CASE a1 < b1 + w
      <3>1. (a1 + 1) * Base <= (b1 + w) * Base
        BY <1>1, <2>2
      <3>2. (a1 + 1) * Base = a1 * Base + Base /\ (b1 + w) * Base = b1 * Base + w * Base
        BY <1>1
      <3>3. a1 * Base \in Nat /\ b1 * Base \in Nat
        BY <1>1
      <3>4. a0 - b0 + w * Base < Base
        BY <1>1
      <3> QED BY <1>1, <3>1, <3>2, <3>3, <3>4
    <2> QED BY <1>1, <2>1, <2>2
  <1>4. c1 \in Words
    BY <1>1, <1>3 DEF Words
  <1>5. c1 * Base + c0 = (a1 * Base + a0) - (b1 * Base + b0)
    <2>1. (a1 - b1 - w) * Base = a1 * Base - b1 * Base - w * Base
      BY <1>1
    <2>2. a1 * Base \in Nat /\ b1 * Base \in Nat /\ w * Base \in Nat
      BY <1>1
    <2> QED BY <1>1, <2>1, <2>2
  <1>6. Word(a0 - b0) = c0
    <2>1. a0 - b0 = c0 + (-w) * Base /\ -w \in Int
      BY <1>1
    <2> HIDE DEF c0, w
    <2> QED BY <1>2, <2>1, WordPlus
  <1>7. Word(c1) = c1
    BY <1>4, WordIs
  <1>8. Minus2(<<a1, a0>>, <<b1, b0>>) = <<Word(a1 - b1 - w), Word(a0 - b0)>>
    BY DEF Minus2, Borrow
  <1> HIDE DEF w, c0
  <1>9. Minus2(<<a1, a0>>, <<b1, b0>>) = <<c1, c0>>
    BY <1>6, <1>7, <1>8
  <1> HIDE DEF c1
  <1> QED BY <1>2, <1>4, <1>5, <1>9

\* Comparing two words with a divisor that has a high word of one.
LEMMA AtLeast ==
  ASSUME NEW c1 \in Nat, NEW c0 \in Words, NEW m \in Words
  PROVE  (Base + m <= c1 * Base + c0) <=> (c1 > 1 \/ (c1 = 1 /\ c0 >= m))
  <1>1. Base \in Nat \ {0} /\ c0 \in Nat /\ m \in Nat /\ c0 < Base /\ m < Base
    BY WordSizes DEF Words
  <1>2. CASE c1 = 0
    BY <1>1, <1>2
  <1>3. CASE c1 = 1
    BY <1>1, <1>3
  <1>4. CASE c1 >= 2
    <2>1. 2 * Base <= c1 * Base
      BY <1>1, <1>4
    <2> QED BY <1>1, <1>4, <2>1
  <1> QED BY <1>2, <1>3, <1>4

\* The estimate for twice the divisor's first word is right, or one too big.
LEMMA Estimated ==
  ASSUME NEW n \in Nat, NEW v \in Nat \ {0}, NEW m \in Nat \ {0},
         2 * v <= m, m <= 2 * v + 1, n \div v <= 2 * v
  PROVE  /\ (2 * n) \div m <= n \div v
         /\ (n \div v - 1) * m <= 2 * n
  <1> DEFINE q == n \div v
             r == n % v
  <1>1. q \in Int /\ r \in 0 .. v - 1 /\ n = v * q + r
    <2>1. n \in Int
      OBVIOUS
    <2>2. n \div v \in Int /\ (n % v) \in 0 .. v - 1 /\ n = v * (n \div v) + (n % v)
      <3> HIDE DEF q, r
      <3> QED BY <2>1, Division
    <2> QED BY <2>2
  <1>2. q >= 0
    <2>1. 0 * v <= n
      OBVIOUS
    <2> QED BY <2>1, QuotientBounds
  <1> HIDE DEF q, r
  <1>3. 2 * n < (q + 1) * m
    <2>1. 2 * n < (q + 1) * (2 * v)
      BY <1>1
    <2>2. (q + 1) * (2 * v) <= (q + 1) * m
      BY <1>1, <1>2
    <2>3. (q + 1) * (2 * v) \in Int /\ (q + 1) * m \in Int
      BY <1>1
    <2> QED BY <2>1, <2>2, <2>3
  <1>4. (2 * n) \div m <= q
    <2>1. (2 * n < (q + 1) * m) <=> ((2 * n) \div m < q + 1)
      <3>1. 2 * n \in Int /\ q + 1 \in Int
        BY <1>1
      <3> QED BY <3>1, QuotientBounds
    <2>2. (2 * n) \div m \in Int
      OBVIOUS
    <2> QED BY <1>1, <1>3, <2>1, <2>2
  <1>5. (q - 1) * m <= 2 * n
    <2>1. CASE q = 0
      BY <2>1
    <2>2. CASE q >= 1
      <3>1. (q - 1) * m <= (q - 1) * (2 * v + 1)
        BY <1>1, <2>2
      <3>2. (q - 1) * (2 * v + 1) = 2 * (v * q) - 2 * v + q - 1
        BY <1>1
      <3>3. q <= 2 * v
        BY DEF q
      <3>4. v * q \in Int /\ (q - 1) * m \in Int
        BY <1>1
      <3> QED BY <1>1, <3>1, <3>2, <3>3, <3>4
    <2> QED BY <1>1, <1>2, <2>1, <2>2
  <1> QED BY <1>4, <1>5 DEF q

\* The quotient and the remainder of two words by a word more than a word.
LEMMA DivDoublesIs ==
  ASSUME NEW k \in 1 .. WordBits - 1, NEW m \in Words
  PROVE  LET d == DivDoubles(<<2 ^ k, 0>>, <<1, m>>)
         IN  /\ d.quot = (2 ^ k * Base) \div (Base + m)
             /\ \E c1 \in Words, c0 \in Words :
                   d.rem = <<c1, c0>> /\ c1 * Base + c0 = ((2 ^ k * Base) % (Base + m))
  <1> DEFINE K == 2 ^ k
             J == 2 ^ (k - 1)
             g == Base \div 2
             u == <<K, 0>>
             v == <<1, m>>
             M == Base + m
             V == g + m \div 2
             N == J * Base
             q == N \div V
             KB == K * Base
             w == WordBits - 1
  <1>1. /\ Base \in Nat /\ Base >= 4 /\ g \in Nat /\ Base = 2 * g
        /\ WordBits \in Nat /\ WordBits >= 2 /\ m \in Nat /\ m < Base
    BY WordSizes DEF Words
  <1> HIDE DEF g
  <1>2. J \in Nat \ {0} /\ K = 2 * J /\ K <= g
    <2> DEFINE j == k - 1
    <2>1. j \in Nat /\ j + 1 = k
      OBVIOUS
    <2> HIDE DEF j
    <2>2. 2 ^ j \in Nat /\ 2 ^ j > 0 /\ 2 ^ (j + 1) = 2 * 2 ^ j
      BY <2>1, PowerDoubles
    <2>3. k \in 0 .. WordBits - 1
      BY <1>1
    <2>4. 2 ^ k \in 1 .. g
      BY <2>3, PowerOfWord DEF g
    <2>5. 2 ^ j \in Nat \ {0} /\ 2 ^ k = 2 * 2 ^ j /\ 2 ^ k <= g
      BY <1>1, <2>1, <2>2, <2>4
    <2> QED BY <2>5 DEF j
  <1> HIDE DEF K, J
  <1>3. 2 ^ 1 = 2 /\ 2 ^ w = g
    <2>1. 2 ^ (0 + 1) = 2 * 2 ^ 0 /\ 2 ^ 0 = 1
      BY PowerDoubles
    <2>2. w \in Nat /\ w + 1 = WordBits
      BY <1>1
    <2> HIDE DEF w
    <2>3. 2 ^ (w + 1) = 2 * 2 ^ w /\ 2 ^ w \in Nat
      BY <2>2, PowerDoubles
    <2> DEFINE x == 2 ^ w
    <2>4. Base = 2 * x /\ x \in Nat
      BY <2>2, <2>3 DEF Base
    <2> HIDE DEF x
    <2>5. x = g
      BY <1>1, <2>4
    <2> QED BY <2>1, <2>5 DEF x
  <1> HIDE DEF w
  <1>4. w \in Nat /\ w >= 1 /\ WordBits = w + 1
    BY <1>1 DEF w
  \* The dividend is halved, the divisor has its first word.
  <1>5. Shift2(u, -1) = <<J, 0>>
    <2>1. K \div 2 = J /\ 0 \div 2 = 0
      BY <1>2
    <2>2. Word(K * g) = 0
      <3>1. K * g = 0 + J * Base
        BY <1>1, <1>2
      <3>2. 0 \in Words
        BY <1>1 DEF Words
      <3> QED BY <1>2, <3>1, <3>2, WordPlus
    <2> DEFINE t == -1
    <2>3. t \in Int /\ t + 1 = 0
      OBVIOUS
    <2> HIDE DEF t
    <2>a. -t = 1 /\ WordBits + t = w /\ ~(t > 0)
      <3>1. -t = 1
        BY <2>3
      <3>2. WordBits + t = w
        BY <1>4, <2>3
      <3>3. ~(t > 0)
        BY <2>3
      <3> QED BY <3>1, <3>2, <3>3
    <2>b. Shift2(u, t) = <<ShiftRight(K, 1), ShiftRight(0, 1) + ShiftLeft(K, w)>>
      BY <2>a DEF Shift2
    <2>4. Shift2(u, -1) = <<ShiftRight(K, 1), ShiftRight(0, 1) + ShiftLeft(K, w)>>
      BY <2>b DEF t
    <2>5. ShiftRight(K, 1) = J /\ ShiftRight(0, 1) = 0 /\ ShiftLeft(K, w) = 0
      BY <1>3, <2>1, <2>2 DEF ShiftRight, ShiftLeft
    <2> QED BY <2>4, <2>5
  <1>6. V \in Words /\ V \in Nat \ {0} /\ g <= V /\ 2 * V <= M /\ M <= 2 * V + 1 /\ V < Base
    BY <1>1 DEF Words
  <1>7. Shift2(v, w)[1] = V
    <2>1. w > 0 /\ WordBits - w = 1
      BY <1>4
    <2>2. Shift2(v, w)[1] = ShiftLeft(1, w) + ShiftRight(m, 1)
      BY <2>1 DEF Shift2
    <2>3. g \in Words /\ 1 * g = g
      BY <1>1 DEF Words
    <2>4. ShiftLeft(1, w) = g
      BY <1>3, <2>3, WordIs DEF ShiftLeft
    <2>5. ShiftRight(m, 1) = m \div 2
      BY <1>3 DEF ShiftRight
    <2> QED BY <2>2, <2>4, <2>5
  <1>8. LeadingZeros(v[1]) = w
    <2>1. 1 \in 1 .. Base - 1 /\ 0 \in 0 .. WordBits - 1
      BY <1>1
    <2>2. 2 ^ 0 <= 1 /\ 1 < 2 ^ (0 + 1)
      BY <1>3
    <2>3. FloorLog2(1) = 0
      BY <2>1, <2>2, LogarithmOf
    <2>4. LeadingZeros(1) = WordBits - 1 - 0
      BY <2>1, <2>3, Logarithm
    <2> QED BY <1>4, <2>4
  <1> HIDE DEF V, M
  <1>9. J < V
    BY <1>1, <1>2, <1>6
  <1>10. DivHalves(J, 0, V).quot = q /\ q \in Words
    <2>1. /\ Div(J, 0, V) = [quot |-> N \div V, rem |-> (N % V)]
          /\ N \div V \in Words
      BY <1>2, <1>6, <1>9, DivIs
    <2>2. DivHalves(J, 0, V) = Div(J, 0, V)
      BY <1>2, <1>6, <1>9, DivHalvesIs
    <2> QED BY <2>1, <2>2
  <1>11. N \in Nat /\ KB = 2 * N /\ KB \in Nat
    BY <1>1, <1>2
  <1>12. q >= 1
    <2>1. 1 * V <= N
      <3>1. 1 * Base <= J * Base
        BY <1>1, <1>2
      <3> QED BY <1>1, <1>6, <1>11, <3>1
    <2> HIDE DEF N
    <2> QED BY <1>6, <1>11, <2>1, QuotientBounds
  <1>13. q \in Nat /\ q < Base /\ q <= 2 * V
    <2> HIDE DEF q
    <2> QED BY <1>1, <1>6, <1>10 DEF Words
  <1> DEFINE p == q - 1
             Q == KB \div M
             R == KB % M
  <1>14. M \in Nat \ {0} /\ Q \in Int /\ R \in 0 .. M - 1 /\ KB = M * Q + R
    <2>1. M \in Nat \ {0} /\ KB \in Int
      BY <1>1, <1>11 DEF M
    <2>2. KB \div M \in Int /\ (KB % M) \in 0 .. M - 1 /\ KB = M * (KB \div M) + (KB % M)
      <3> HIDE DEF KB, Q, R
      <3> QED BY <2>1, Division
    <2> QED BY <2>1, <2>2
  <1>15. Q <= q /\ p * M <= KB
    <2>1. (2 * N) \div M <= N \div V /\ (N \div V - 1) * M <= 2 * N
      <3> HIDE DEF N
      <3> QED BY <1>6, <1>11, <1>13, <1>14, Estimated DEF q
    <2> QED BY <1>11, <2>1
  <1> HIDE DEF N, q, KB
  <1>16. p \in Nat /\ p \in Words /\ q = p + 1
    BY <1>1, <1>12, <1>13 DEF Words
  <1>17. p <= Q
    <2>1. (p * M <= KB) <=> (p <= KB \div M)
      <3>1. KB \in Int /\ p \in Int
        BY <1>11, <1>16
      <3> HIDE DEF p
      <3> QED BY <1>14, <3>1, QuotientBounds
    <2> QED BY <1>15, <2>1
  <1> HIDE DEF Q, R
  \* Shifted up and down again it is what it was, and then one is taken.
  <1>18. Shift2(Shift2(<<0, q>>, w), -w) = <<0, q>>
    <2> DEFINE a == q \div 2
               b == q % 2
               bg == b * g
    <2>1. a \in Nat /\ b \in 0 .. 1 /\ q = 2 * a + b
      BY <1>13
    <2> HIDE DEF a, b
    <2>2. a < g
      BY <1>1, <1>13, <2>1
    <2>3. bg \in Words /\ bg \div g = b
      <3>1. b = 0 \/ b = 1
        BY <2>1
      <3>2. CASE b = 0
        BY <1>1, <3>2 DEF Words
      <3>3. CASE b = 1
        BY <1>1, <3>3 DEF Words
      <3> QED BY <3>1, <3>2, <3>3
    <2>4. ShiftLeft(q, w) = bg
      <3>1. q * g = bg + a * Base
        BY <1>1, <2>1
      <3> HIDE DEF bg
      <3>2. Word(q * g) = bg
        BY <2>1, <2>3, <3>1, WordPlus
      <3> QED BY <1>3, <3>2 DEF ShiftLeft
    <2>5. ShiftLeft(0, w) = 0
      <3>1. 0 * g = 0 /\ 0 \in Words
        BY <1>1 DEF Words
      <3> QED BY <1>3, <3>1, WordIs DEF ShiftLeft
    <2>6. w > 0 /\ WordBits - w = 1 /\ ~(-w > 0) /\ -(-w) = w /\ WordBits + (-w) = 1
      BY <1>4
    <2>7. Shift2(<<0, q>>, w) = <<a, bg>>
      <3>1. Shift2(<<0, q>>, w) = <<ShiftLeft(0, w) + ShiftRight(q, 1), ShiftLeft(q, w)>>
        BY <2>6 DEF Shift2
      <3>2. ShiftRight(q, 1) = a
        BY <1>3 DEF ShiftRight, a
      <3>3. 0 + a = a
        BY <2>1
      <3> QED BY <2>4, <2>5, <3>1, <3>2, <3>3
    <2>8. Shift2(<<a, bg>>, -w) = <<ShiftRight(a, w), ShiftRight(bg, w) + ShiftLeft(a, 1)>>
      BY <2>6 DEF Shift2
    <2>9. ShiftRight(a, w) = 0 /\ ShiftRight(bg, w) = b
      <3>1. a \div g = 0
        BY <1>1, <2>1, <2>2
      <3> QED BY <1>3, <2>3, <3>1 DEF ShiftRight
    <2>10. ShiftLeft(a, 1) = 2 * a
      <3>1. 2 * a \in Words /\ a * 2 = 2 * a
        BY <1>1, <1>13, <2>1 DEF Words
      <3> QED BY <1>3, <3>1, WordIs DEF ShiftLeft
    <2>11. b + 2 * a = q
      BY <2>1
    <2> QED BY <2>7, <2>8, <2>9, <2>10, <2>11
  <1>19. Less1(<<0, q>>) = <<0, p>>
    <2>1. <<0, q>> # <<0, 0>>
      BY <1>12, <1>13
    <2>2. Borrow(q, 1) = 0
      BY <1>12, <1>13 DEF Borrow
    <2>3. Word(q - 1) = p
      BY <1>16, WordIs
    <2> QED BY <2>1, <2>2, <2>3 DEF Less1
  <1>20. DivDoubles(u, v) = Corrected(<<0, p>>, u, v)
    <2>1. v[1] # 0
      OBVIOUS
    <2>2. Shift2(u, -1)[1] = J /\ Shift2(u, -1)[2] = 0
      BY <1>5
    <2>3. -(WordBits - 1) = -w
      BY <1>4
    <2> HIDE DEF u, v, p
    <2> QED BY <1>7, <1>8, <1>10, <1>18, <1>19, <2>1, <2>2, <2>3 DEF DivDoubles
  <1> HIDE DEF p
  \* What is left.
  <1> DEFINE pm == p * m
             hi == pm \div Base
             lo == pm % Base
             ph == p + hi
  <1>21. hi \in Words /\ lo \in Words /\ pm = Base * hi + lo
    <2>1. p * m \in Nat /\ (p * m) \div Base \in Words
      BY <1>16, HighWord
    <2>2. pm \div Base \in Int /\ (pm % Base) \in 0 .. Base - 1 /\ pm = Base * (pm \div Base) + (pm % Base)
      <3>1. pm \in Int /\ Base \in Nat \ {0}
        BY <1>1, <2>1
      <3> HIDE DEF pm, hi, lo
      <3> QED BY <3>1, Division
    <2> QED BY <2>1, <2>2 DEF Words
  <1>22. MulHiHalves(p, m) = hi /\ Word(pm) = lo
    <2>1. MulHiHalves(p, m) = hi
      BY <1>16, HighWordOfHalves
    <2> QED BY <2>1 DEF Word
  <1> HIDE DEF hi, lo
  <1>23. ph * Base + lo = p * M /\ ph \in Nat /\ lo \in Nat /\ lo < Base
    <2>1. hi \in Nat /\ lo \in Nat /\ lo < Base
      BY <1>1, <1>21 DEF Words
    <2>2. p * M = p * Base + pm
      BY <1>1, <1>16 DEF M
    <2>3. ph * Base = p * Base + hi * Base
      BY <1>1, <1>16, <2>1
    <2>4. hi * Base = Base * hi
      BY <1>1, <2>1
    <2>5. p * Base \in Int /\ hi * Base \in Int
      BY <1>1, <1>16, <2>1
    <2> HIDE DEF pm, ph
    <2>6. ph * Base + lo = p * M
      BY <1>21, <2>1, <2>2, <2>3, <2>4, <2>5
    <2> QED BY <1>16, <2>1, <2>6 DEF ph
  <1> HIDE DEF ph
  <1>24. ph \in Words /\ K \in Words /\ 0 \in Words
    <2>1. ph <= K
      <3>1. ph * Base <= K * Base
        <4>1. ph * Base \in Int /\ p * M \in Int
          BY <1>1, <1>14, <1>16, <1>23
        <4> QED BY <1>11, <1>15, <1>23, <4>1 DEF KB
      <3> QED BY <1>1, <1>2, <1>23, <3>1
    <2> QED BY <1>1, <1>2, <1>23, <2>1 DEF Words
  <1> DEFINE q0v == <<Word(0 * m + p * 1 + MulHiHalves(p, m)), Word(p * m)>>
             r == Minus2(u, q0v)
  <1>25. q0v = <<ph, lo>>
    <2>1. 0 * m + p * 1 + hi = ph
      BY <1>1, <1>16, <1>21 DEF ph, Words
    <2>2. Word(ph) = ph
      BY <1>24, WordIs
    <2> QED BY <1>22, <2>1, <2>2
  <1>26. \E c1 \in Words, c0 \in Words :
             r = <<c1, c0>> /\ c1 * Base + c0 = (K * Base + 0) - (ph * Base + lo)
    <2>1. ph * Base + lo <= K * Base + 0
      <3>1. ph * Base + lo <= KB
        BY <1>15, <1>23
      <3>2. KB + 0 = KB
        BY <1>11
      <3> QED BY <3>1, <3>2 DEF KB
    <2> QED BY <1>21, <1>24, <1>25, <2>1, Minus2Is
  <1>27. PICK c1 \in Words, c0 \in Words :
             r = <<c1, c0>> /\ c1 * Base + c0 = (K * Base + 0) - (ph * Base + lo)
    BY <1>26
  <1>28. c1 \in Nat /\ c0 \in Nat /\ c0 < Base /\ c1 * Base + c0 = KB - p * M
    <2>1. c1 \in Nat /\ c0 \in Nat /\ c0 < Base
      BY <1>1 DEF Words
    <2>2. K * Base + 0 = KB
      BY <1>11 DEF KB
    <2> QED BY <1>23, <1>27, <2>1, <2>2
  <1>29. Corrected(<<0, p>>, u, v)
           = IF c1 > 1 \/ (c1 = 1 /\ c0 >= m)
               THEN [quot |-> Word(p + 1), rem |-> Minus2(<<c1, c0>>, v)]
               ELSE [quot |-> p, rem |-> <<c1, c0>>]
    <2>1. r[1] = c1 /\ r[2] = c0
      BY <1>27
    <2>2. Corrected(<<0, p>>, u, v)
            = IF r[1] > 1 \/ (r[1] = 1 /\ r[2] >= m)
                THEN [quot |-> Word(p + 1), rem |-> Minus2(r, v)]
                ELSE [quot |-> p, rem |-> r]
      BY DEF Corrected
    <2> HIDE DEF r, v, u
    <2> QED BY <1>27, <2>1, <2>2
  <1>30. (M <= c1 * Base + c0) <=> (c1 > 1 \/ (c1 = 1 /\ c0 >= m))
    BY <1>28, AtLeast DEF M
  <1> DEFINE D == DivDoubles(u, v)
             Done == D.quot = Q /\ \E e1 \in Words, e0 \in Words :
                                        D.rem = <<e1, e0>> /\ e1 * Base + e0 = R
  <1>31. ASSUME M <= c1 * Base + c0 PROVE Done
    <2>0. p * M \in Int /\ (p + 1) * M = p * M + M
      BY <1>14, <1>16
    <2>1. (p + 1) * M <= KB
      BY <1>11, <1>14, <1>28, <1>31, <2>0
    <2>2. p + 1 <= Q
      <3>1. ((p + 1) * M <= KB) <=> (p + 1 <= KB \div M)
        <4>1. KB \in Int /\ p + 1 \in Int
          BY <1>11, <1>16
        <4> QED BY <1>14, <4>1, QuotientBounds
      <3> QED BY <2>1, <3>1 DEF Q
    <2>3. p + 1 = Q
      BY <1>14, <1>15, <1>16, <2>2
    <2>4. Word(p + 1) = Q
      BY <1>10, <1>16, <2>3, WordIs
    <2>5. 1 \in Words
      BY <1>1 DEF Words
    <2>6. 1 * Base + m <= c1 * Base + c0
      BY <1>1, <1>28, <1>31 DEF M
    <2>7. PICK e1 \in Words, e0 \in Words :
             /\ Minus2(<<c1, c0>>, <<1, m>>) = <<e1, e0>>
             /\ e1 * Base + e0 = (c1 * Base + c0) - (1 * Base + m)
      BY <2>5, <2>6, Minus2Is
    <2>8. e1 * Base + e0 = R
      <3>1. 1 * Base + m = M
        BY <1>1 DEF M
      <3>2. M * Q = (p + 1) * M
        BY <1>14, <1>16, <2>3
      <3>3. (KB - p * M) - M = R
        BY <1>11, <1>14, <2>0, <3>2
      <3> QED BY <1>28, <2>7, <3>1, <3>3
    <2>9. D = [quot |-> Q, rem |-> <<e1, e0>>]
      BY <1>20, <1>29, <1>30, <1>31, <2>4, <2>7
    <2> HIDE DEF D
    <2> QED BY <2>8, <2>9
  <1>32. ASSUME ~(M <= c1 * Base + c0) PROVE Done
    <2>0. p * M \in Int /\ (p + 1) * M = p * M + M
      BY <1>14, <1>16
    <2>1. KB < (p + 1) * M
      BY <1>1, <1>11, <1>14, <1>28, <1>32, <2>0
    <2>2. Q < p + 1
      <3>1. (KB < (p + 1) * M) <=> (KB \div M < p + 1)
        <4>1. KB \in Int /\ p + 1 \in Int
          BY <1>11, <1>16
        <4> QED BY <1>14, <4>1, QuotientBounds
      <3> QED BY <2>1, <3>1 DEF Q
    <2>3. Q = p
      BY <1>14, <1>16, <1>17, <2>2
    <2>4. c1 * Base + c0 = R
      <3>1. M * Q = p * M
        BY <1>14, <1>16, <2>3
      <3> QED BY <1>11, <1>14, <1>28, <2>0, <3>1
    <2>5. D = [quot |-> Q, rem |-> <<c1, c0>>]
      BY <1>20, <1>29, <1>30, <1>32, <2>3
    <2> HIDE DEF D
    <2> QED BY <2>4, <2>5
  <1>33. Done
    BY <1>31, <1>32
  <1> QED BY <1>33 DEF Q, R, KB, M, K

\* The last step of recover doubles the quotient and rounds it up.
LEMMA TwiceRoundedUpIs ==
  ASSUME NEW k \in 1 .. WordBits - 1, NEW m \in Words
  PROVE  TwiceRoundedUp(DivDoubles(<<2 ^ k, 0>>, <<1, m>>), <<1, m>>)
           = Word((2 * (2 ^ k * Base)) \div (Base + m) + 1)
  <1> DEFINE K == 2 ^ k
             KB == K * Base
             M == Base + m
             Q == KB \div M
             R == KB % M
             D == DivDoubles(<<2 ^ k, 0>>, <<1, m>>)
  <1>1. Base \in Nat \ {0} /\ Base >= 4 /\ m \in Nat /\ m < Base /\ WordBits \in Nat
    BY WordSizes DEF Words
  <1>2. D.quot = Q /\ \E c1 \in Words, c0 \in Words : D.rem = <<c1, c0>> /\ c1 * Base + c0 = R
    BY DivDoublesIs
  <1>3. K \in Nat
    BY <1>1, PowerDoubles
  <1> HIDE DEF D, K
  <1>4. KB \in Nat /\ M \in Nat \ {0}
    BY <1>1, <1>3
  <1> HIDE DEF KB
  <1>5. Q \in Int /\ R \in 0 .. M - 1
    <2>1. KB \in Int
      BY <1>4
    <2> HIDE DEF M
    <2> QED BY <1>4, <2>1, Division
  <1>6. (2 * KB) \div M = 2 * Q + (IF 2 * R >= M THEN 1 ELSE 0)
    <2>1. KB \in Int
      BY <1>4
    <2> HIDE DEF M
    <2> QED BY <1>4, <2>1, TwiceDivided
  <1> HIDE DEF Q, R
  <1>7. PICK c1 \in Words, c0 \in Words : D.rem = <<c1, c0>> /\ c1 * Base + c0 = R
    BY <1>2
  <1> DEFINE lo == Word(2 * c0)
             b  == IF lo < c0 THEN 1 ELSE 0
             hi == 2 * c1 + b
             x  == IF hi > 1 \/ (hi = 1 /\ lo >= m) THEN 1 ELSE 0
  <1>8. c1 \in Nat /\ c0 \in Nat /\ c0 < Base
    BY <1>1 DEF Words
  <1>9. lo \in Words /\ b \in 0 .. 1 /\ b * Base + lo = 2 * c0
    <2>1. CASE 2 * c0 < Base
      <3>1. 2 * c0 \in Words
        BY <1>1, <1>8, <2>1 DEF Words
      <3>2. lo = 2 * c0
        BY <3>1, WordIs
      <3> HIDE DEF lo
      <3> QED BY <1>1, <1>8, <3>1, <3>2
    <2>2. CASE 2 * c0 >= Base
      <3>1. 2 * c0 - Base \in Words
        BY <1>1, <1>8, <2>2 DEF Words
      <3>2. (2 * c0 - Base) + 1 * Base = 2 * c0
        BY <1>1, <1>8
      <3>3. lo = 2 * c0 - Base
        BY <3>1, <3>2, WordPlus
      <3> HIDE DEF lo
      <3> QED BY <1>1, <1>8, <2>2, <3>1, <3>3
    <2> QED BY <1>1, <1>8, <2>1, <2>2
  <1> HIDE DEF lo, b
  <1>10. hi \in Nat /\ hi * Base + lo = 2 * R
    <2>1. lo \in Nat /\ b \in Nat
      BY <1>1, <1>9 DEF Words
    <2>2. hi * Base = 2 * (c1 * Base) + b * Base
      BY <1>1, <1>8, <2>1
    <2>3. c1 * Base \in Int /\ b * Base \in Int
      BY <1>1, <1>8, <2>1
    <2> QED BY <1>7, <1>8, <1>9, <2>1, <2>2, <2>3
  <1> HIDE DEF hi
  <1>11. (M <= 2 * R) <=> (hi > 1 \/ (hi = 1 /\ lo >= m))
    BY <1>9, <1>10, AtLeast
  <1>12. x = IF 2 * R >= M THEN 1 ELSE 0
    BY <1>1, <1>4, <1>5, <1>11
  <1>13. TwiceRoundedUp(D, <<1, m>>) = Word(2 * D.quot + x + 1)
    <2>1. D.rem[1] = c1 /\ D.rem[2] = c0
      BY <1>7
    <2> QED BY <2>1 DEF TwiceRoundedUp, Borrow, hi, b, lo
  <1> HIDE DEF x
  <1>14. TwiceRoundedUp(D, <<1, m>>) = Word((2 * KB) \div M + 1)
    BY <1>2, <1>6, <1>12, <1>13
  <1> QED BY <1>14 DEF D, KB, K

-----------------------------------------------------------------------------
(***************************************************************************)
(* Unsigned division: what a magic number has to be.                       *)
(***************************************************************************)
\* A magic number of a word, and one of a word and a bit.
Short(m, k, d, e) ==
    m \in Words /\ e \in Nat /\ m * d = 2 ^ k * Base + e /\ e < 2 ^ k
Long(m, k, d, e) ==
    m \in Words /\ e \in Nat /\ (Base + m) * d = 2 * (2 ^ k * Base) + e /\ e < 2 * 2 ^ k

\* The product with a short magic number, shifted, is the quotient.
LEMMA ShortDivides ==
  ASSUME NEW k \in 0 .. WordBits - 1, NEW d \in Nat \ {0}, NEW m, NEW e, Short(m, k, d, e),
         NEW n \in Words
  PROVE  ShiftRight((m * n) \div Base, k) = n \div d
  <1> DEFINE K == 2 ^ k
             p == K * Base
  <1>1. Base \in Nat \ {0} /\ n \in Nat /\ n < Base /\ WordBits \in Nat
    BY WordSizes DEF Words
  <1>2. K \in Nat \ {0}
    <2>1. k \in Nat
      BY <1>1
    <2> QED BY <2>1, PowerDoubles
  <1>3. m \in Nat /\ e \in Nat /\ m * d = p + e /\ e < K
    BY <1>1 DEF Short, Words
  <1> HIDE DEF K
  <1>4. n * e < p
    <2>0. n * e <= n * K
      BY <1>1, <1>2, <1>3
    <2>1. n * K < Base * K
      BY <1>1, <1>2, TimesLess
    <2>2. Base * K = K * Base /\ n * e \in Int /\ n * K \in Int /\ Base * K \in Int
      BY <1>1, <1>2, <1>3
    <2> QED BY <2>0, <2>1, <2>2
  <1>5. p \in Nat \ {0}
    BY <1>1, <1>2
  <1>6. (m * n) \div p = n \div d
    <2> HIDE DEF p
    <2> QED BY <1>1, <1>3, <1>4, <1>5, MagicQuotient
  <1>7. ((m * n) \div Base) \div K = (m * n) \div (Base * K)
    <2>1. m * n \in Int
      BY <1>1, <1>3
    <2> QED BY <1>1, <1>2, <2>1, DividedTwice
  <1>8. Base * K = p
    BY <1>1, <1>2
  <1> QED BY <1>6, <1>7, <1>8 DEF ShiftRight, K

\* With a long one the bit too many is made up for by adding the rest.
LEMMA LongDivides ==
  ASSUME NEW k \in 0 .. WordBits - 1, NEW d \in Nat \ {0}, NEW m, NEW e, Long(m, k, d, e),
         NEW n \in Words
  PROVE  ShiftRight(Word(ShiftRight(Word(n - (m * n) \div Base), 1) + (m * n) \div Base), k)
           = n \div d
  <1> DEFINE K == 2 ^ k
             KB == K * Base
             p == 2 * KB
             M == Base + m
             q == (m * n) \div Base
             mn == m * n
             Mn == M * n
  <1>1. Base \in Nat \ {0} /\ n \in Nat /\ n < Base /\ WordBits \in Nat
    BY WordSizes DEF Words
  <1>2. K \in Nat \ {0}
    <2>1. k \in Nat
      BY <1>1
    <2> QED BY <2>1, PowerDoubles
  <1>3. m \in Nat /\ m \in Words /\ e \in Nat /\ M * d = p + e /\ e < 2 * K
    BY <1>1 DEF Long, Words
  <1> HIDE DEF K
  <1>4. q \in Words /\ q \in Nat /\ q <= n
    <2>1. n * m = m * n
      BY <1>1, <1>3
    <2>2. q \in Words /\ q <= n
      BY <1>3, <2>1, HighWord
    <2> QED BY <1>1, <2>2 DEF Words
  <1>5. KB \in Nat \ {0} /\ p \in Nat \ {0}
    BY <1>1, <1>2
  <1>6. n * e < p
    <2> DEFINE kk == 2 * K
    <2>1. kk \in Nat \ {0} /\ e < kk /\ Base * kk = 2 * (K * Base)
      BY <1>1, <1>2, <1>3
    <2> HIDE DEF kk
    <2>2. n * e <= n * kk
      BY <1>1, <1>3, <2>1
    <2>3. n * kk < Base * kk
      BY <1>1, <2>1, TimesLess
    <2>4. n * e \in Int /\ n * kk \in Int /\ Base * kk \in Int
      BY <1>1, <1>3, <2>1
    <2> QED BY <2>1, <2>2, <2>3, <2>4
  <1> HIDE DEF KB
  <1>7. M \in Nat /\ Mn \in Nat /\ mn \in Nat
    BY <1>1, <1>3
  <1>8. Mn \div p = n \div d
    <2> HIDE DEF p, M
    <2> QED BY <1>1, <1>3, <1>5, <1>6, <1>7, MagicQuotient
  <1>9. Mn \div Base = q + n
    <2>1. Mn = mn + n * Base
      BY <1>1, <1>3
    <2>2. (mn + n * Base) \div Base = mn \div Base + n
      <3>1. mn \in Int /\ n \in Int
        BY <1>1, <1>7
      <3> HIDE DEF mn
      <3> QED BY <1>1, <3>1, QuotientPlus
    <2> QED BY <2>1, <2>2
  <1> HIDE DEF Mn, mn
  <1>10. (Mn \div Base) \div 2 = Mn \div (Base * 2)
    <2>1. Mn \in Int /\ 2 \in Nat \ {0}
      BY <1>7
    <2> QED BY <1>1, <2>1, DividedTwice
  <1> DEFINE bb == Base * 2
  <1>11. (Mn \div bb) \div K = Mn \div (bb * K)
    <2>1. Mn \in Int /\ bb \in Nat \ {0}
      BY <1>1, <1>7
    <2> HIDE DEF bb
    <2> QED BY <1>2, <2>1, DividedTwice
  <1>12. bb * K = p
    BY <1>1, <1>2 DEF KB
  <1> HIDE DEF p, bb, q
  <1> DEFINE a == n - q
             h == a \div 2
             c == h + q
  <1>13. a \in Words /\ c \in Words /\ c = (q + n) \div 2
    BY <1>1, <1>4 DEF Words
  <1>14. Word(a) = a /\ Word(c) = c
    BY <1>13, WordIs
  <1>15. 2 ^ 1 = 2
    <2>1. 2 ^ (0 + 1) = 2 * 2 ^ 0 /\ 2 ^ 0 = 1
      BY PowerDoubles
    <2> QED BY <2>1
  <1>16. ShiftRight(Word(a), 1) = h
    BY <1>14, <1>15 DEF ShiftRight
  <1>17. c \div K = n \div d
    BY <1>8, <1>9, <1>10, <1>11, <1>12, <1>13 DEF bb
  <1> HIDE DEF a, h, c
  <1>18. ShiftRight(Word(ShiftRight(Word(a), 1) + q), k) = n \div d
    BY <1>14, <1>16, <1>17 DEF ShiftRight, K, c
  <1> QED BY <1>18 DEF a, q

\* What the generator computes, for a divisor that is not a power of two.
LEMMA Between ==
  ASSUME NEW d \in 1 .. Base - 1, ~IsPowerOf2(d)
  PROVE  /\ FloorLog2(d) \in 1 .. WordBits - 1
         /\ 2 ^ FloorLog2(d) \in Nat /\ 2 <= 2 ^ FloorLog2(d) /\ 2 ^ FloorLog2(d) <= Base \div 2
         /\ 2 ^ FloorLog2(d) < d /\ d < 2 * 2 ^ FloorLog2(d)
  <1> DEFINE k == FloorLog2(d)
             K == 2 ^ k
  <1>1. Base \in Nat \ {0} /\ Base \div 2 \in Nat /\ WordBits \in Nat
    BY WordSizes
  <1>2. k \in 0 .. WordBits - 1 /\ K <= d /\ d < 2 ^ (k + 1)
    BY Logarithm
  <1> HIDE DEF k
  <1>3. K \in 1 .. Base \div 2 /\ 2 ^ (k + 1) = 2 * K
    BY <1>2, PowerOfWord
  <1>4. K # d
    BY DEF IsPowerOf2, k
  <1>5. k # 0
    <2>1. ASSUME k = 0 PROVE FALSE
      <3>1. 2 ^ 0 = 1
        OBVIOUS
      <3>2. K = 1
        BY <2>1, <3>1
      <3> HIDE DEF K
      <3> QED BY <1>2, <1>3, <1>4, <3>2
    <2> QED BY <2>1
  <1> HIDE DEF K
  <1>6. K # 1
    BY <1>2, <1>3, <1>4
  <1>7. /\ k \in 1 .. WordBits - 1 /\ K \in Nat /\ 2 <= K /\ K <= Base \div 2
        /\ K < d /\ d < 2 * K
    BY <1>1, <1>2, <1>3, <1>4, <1>5, <1>6
  <1> QED BY <1>7 DEF K, k

\* A quotient rounded up is the magic number.
LEMMA DoubledIs ==
  ASSUME NEW n \in Nat, NEW d \in Words, d > 0
  PROVE  Word(1 + Doubled(n \div d, n % d, d)) = Word((2 * n) \div d + 1)
  <1> DEFINE q == n \div d
             r == n % d
             t == Word(2 * r)
             c == IF t >= d \/ t < r THEN 1 ELSE 0
  <1>1. Base \in Nat \ {0} /\ d \in Nat \ {0} /\ d < Base /\ n \in Int
    BY WordSizes DEF Words
  <1>2. q \in Int /\ r \in 0 .. d - 1
    BY <1>1, Division
  <1>3. (2 * n) \div d = 2 * q + (IF 2 * r >= d THEN 1 ELSE 0)
    BY <1>1, TwiceDivided
  <1> HIDE DEF q, r
  <1>4. c = IF 2 * r >= d THEN 1 ELSE 0
    <2>1. CASE 2 * r < Base
      <3>1. 2 * r \in Words
        BY <1>1, <1>2, <2>1 DEF Words
      <3>2. t = 2 * r
        BY <3>1, WordIs
      <3> HIDE DEF t
      <3> QED BY <1>1, <1>2, <3>2
    <2>2. CASE 2 * r >= Base
      <3>1. 2 * r - Base \in Words
        BY <1>1, <1>2, <2>2 DEF Words
      <3>2. (2 * r - Base) + 1 * Base = 2 * r
        BY <1>1, <1>2
      <3>3. t = 2 * r - Base
        BY <3>1, <3>2, WordPlus
      <3> HIDE DEF t
      <3> QED BY <1>1, <1>2, <2>2, <3>3
    <2> QED BY <1>1, <1>2, <2>1, <2>2
  <1>5. Doubled(q, r, d) = Word(2 * q + c)
    BY DEF Doubled
  <1>6. c \in Int
    OBVIOUS
  <1> HIDE DEF c
  <1> DEFINE s == 2 * q + c
  <1>7. s \in Int
    BY <1>2, <1>6
  <1> HIDE DEF s
  <1>8. Word(1 + Word(s)) = Word(s + 1)
    <2>1. s \div Base \in Int /\ (s % Base) \in 0 .. Base - 1 /\ s = Base * (s \div Base) + (s % Base)
      BY <1>1, <1>7, Division
    <2> DEFINE a == s \div Base
               w == s % Base
               z == 1 + w
    <2>2. a \in Int /\ w \in Int /\ s = Base * a + w
      BY <1>1, <2>1
    <2> HIDE DEF a, w
    <2>3. z \in Int /\ s + 1 = z + a * Base
      BY <1>1, <2>2
    <2> HIDE DEF z
    <2>4. ((z + a * Base) % Base) = (z % Base)
      BY <1>1, <2>2, <2>3, QuotientPlus
    <2> QED BY <2>3, <2>4 DEF Word, z, w
  <1>9. s = (2 * n) \div d
    BY <1>3, <1>4 DEF s
  <1> QED BY <1>5, <1>8, <1>9 DEF q, r, s

\* A quotient rounded up, and the bounds its divisor puts on it.
LEMMA RoundedUp ==
  ASSUME NEW n \in Nat, NEW d \in Nat \ {0}
  PROVE  /\ (n \div d + 1) * d = n + (d - (n % d))
         /\ n \div d + 1 \in Nat \ {0} /\ d - (n % d) \in 1 .. d
  <1> DEFINE q == n \div d
             r == n % d
  <1>1. q \in Int /\ r \in 0 .. d - 1 /\ n = d * q + r
    <2>1. n \in Int
      OBVIOUS
    <2>2. n \div d \in Int /\ (n % d) \in 0 .. d - 1 /\ n = d * (n \div d) + (n % d)
      <3> HIDE DEF q, r
      <3> QED BY <2>1, Division
    <2> QED BY <2>2
  <1>2. q >= 0
    <2>1. 0 * d <= n
      OBVIOUS
    <2> QED BY <2>1, QuotientBounds
  <1> HIDE DEF q, r
  <1>3. (q + 1) * d = n + (d - r) /\ q + 1 \in Nat \ {0} /\ d - r \in 1 .. d
    BY <1>1, <1>2
  <1> QED BY <1>3 DEF q, r

\* A factor is below what the other exceeds, and the other way round.
LEMMA FactorBelow ==
  ASSUME NEW m \in Nat, NEW d \in Nat, NEW e \in Nat, NEW k \in Nat, NEW b \in Nat,
         m * d = k * b + e, k < d, e < b
  PROVE  m < b
  <1> SUFFICES ASSUME b <= m PROVE FALSE
      OBVIOUS
  <1>1. b * (k + 1) <= b * d /\ b * d <= m * d
    OBVIOUS
  <1>2. b * (k + 1) = k * b + b
    OBVIOUS
  <1>3. b * d \in Int /\ m * d \in Int /\ k * b \in Int
    OBVIOUS
  <1> QED BY <1>1, <1>2, <1>3

\* The factor of what is below is above.
LEMMA FactorAbove ==
  ASSUME NEW m \in Nat, NEW d \in Nat, NEW e \in Nat, NEW l \in Nat, NEW c \in Nat \ {0},
         m * d = l * c + e, d < l
  PROVE  c < m
  <1> SUFFICES ASSUME m <= c PROVE FALSE
      OBVIOUS
  <1>1. m * d <= c * d
    OBVIOUS
  <1>2. d * c < l * c
    BY TimesLess
  <1>3. c * d = d * c /\ m * d \in Int /\ c * d \in Int /\ l * c \in Int
    OBVIOUS
  <1> QED BY <1>1, <1>2, <1>3

\* The magic number that needs a word, and the one that needs a bit more.
LEMMA ShortMagic ==
  ASSUME NEW k \in Nat, NEW d \in Nat \ {0}, NEW m, NEW e, NEW n,
         2 ^ k \in Nat, 2 <= 2 ^ k, 2 ^ k <= Base \div 2, 2 ^ k < d, d < 2 * 2 ^ k,
         n = 2 ^ k * Base, e = d - (n % d), m = n \div d + 1, e < 2 ^ k
  PROVE  Short(m, k, d, e) /\ 1 <= e /\ e <= m /\ m # 0
  <1> DEFINE K == 2 ^ k
             g == Base \div 2
  <1>1. Base \in Nat \ {0} /\ g \in Nat \ {0} /\ Base = 2 * g
    BY WordSizes
  <1>2. K \in Nat /\ 2 <= K /\ K <= g /\ K < d /\ d < 2 * K /\ n = K * Base /\ e < K
    OBVIOUS
  <1> HIDE DEF K, g
  <1>3. n \in Nat
    BY <1>1, <1>2
  <1>4. m * d = n + e /\ m \in Nat \ {0} /\ e \in 1 .. d
    BY <1>3, RoundedUp
  <1>5. e \in Nat /\ e < Base /\ e >= 1
    BY <1>1, <1>2, <1>4
  <1>6. m < Base
    <2>1. m * d = K * Base + e
      BY <1>2, <1>4
    <2> QED BY <1>1, <1>2, <1>4, <1>5, <2>1, FactorBelow
  <1>7. g < m
    <2>1. (2 * K) * g = K * Base
      BY <1>1, <1>2
    <2>2. m * d = (2 * K) * g + e /\ 2 * K \in Nat
      BY <1>2, <1>4, <2>1
    <2> QED BY <1>1, <1>2, <1>4, <1>5, <2>2, FactorAbove
  <1>8. m \in Words
    BY <1>1, <1>4, <1>6 DEF Words
  <1>9. m * d = 2 ^ k * Base + e /\ e < 2 ^ k
    BY <1>2, <1>4 DEF K
  <1> QED BY <1>1, <1>2, <1>4, <1>5, <1>7, <1>8, <1>9 DEF Short

\* The long magic number is a word and a bit.
LEMMA LongMagic ==
  ASSUME NEW k \in Nat, NEW d \in Nat \ {0}, NEW m, NEW e, NEW n,
         2 ^ k \in Nat, 2 <= 2 ^ k, 2 ^ k <= Base \div 2, 2 ^ k < d, d < 2 * 2 ^ k,
         n = 2 * (2 ^ k * Base), e = d - (n % d), m = n \div d + 1
  PROVE  Long(m - Base, k, d, e) /\ 1 <= e /\ e <= m /\ m - Base # 0 /\ m \in Nat
         /\ Word(m) = m - Base
  <1> DEFINE K == 2 ^ k
             g == Base \div 2
  <1>1. Base \in Nat \ {0} /\ g \in Nat \ {0} /\ Base = 2 * g
    BY WordSizes
  <1>2. K \in Nat /\ 2 <= K /\ K <= g /\ K < d /\ d < 2 * K /\ n = 2 * (K * Base)
    OBVIOUS
  <1> HIDE DEF K, g
  <1>3. n \in Nat
    BY <1>1, <1>2
  <1>4. m * d = n + e /\ m \in Nat \ {0} /\ e \in 1 .. d
    BY <1>3, RoundedUp
  <1>5. e \in Nat /\ e < 2 * K /\ e <= Base /\ e >= 1
    BY <1>1, <1>2, <1>4
  <1>6. m < 2 * Base
    <2> DEFINE b == 2 * Base
    <2>1. K * b = 2 * (K * Base) /\ b \in Nat /\ e < b
      BY <1>1, <1>2, <1>5
    <2>2. m * d = K * b + e
      BY <1>2, <1>4, <2>1
    <2> HIDE DEF b
    <2>3. m < b
      BY <1>2, <1>4, <1>5, <2>1, <2>2, FactorBelow
    <2> QED BY <2>3 DEF b
  <1>7. Base < m
    <2> DEFINE l == 2 * K
    <2>1. l * Base = 2 * (K * Base) /\ l \in Nat /\ d < l
      BY <1>1, <1>2
    <2>2. m * d = l * Base + e
      BY <1>2, <1>4, <2>1
    <2> HIDE DEF l
    <2> QED BY <1>1, <1>4, <1>5, <2>1, <2>2, FactorAbove
  <1> DEFINE w == m - Base
  <1>8. w \in Words /\ w # 0 /\ Base + w = m /\ m = w + 1 * Base
    BY <1>1, <1>4, <1>6, <1>7 DEF Words
  <1> HIDE DEF w
  <1>9. Word(m) = w
    BY <1>8, WordPlus
  <1>10. (Base + w) * d = 2 * (2 ^ k * Base) + e /\ e < 2 * 2 ^ k
    BY <1>2, <1>4, <1>5, <1>8 DEF K
  <1>11. Long(w, k, d, e)
    BY <1>5, <1>8, <1>10 DEF Long
  <1> QED BY <1>1, <1>4, <1>5, <1>7, <1>8, <1>9, <1>11 DEF w

-----------------------------------------------------------------------------
(***************************************************************************)
(* Unsigned division: the generators, the algorithms and the way back.     *)
(***************************************************************************)
ShortDivider(den, d, m, k, e) ==
    /\ den = [magic |-> m, shift |-> k, add |-> FALSE, shiftPath |-> FALSE]
    /\ k \in 1 .. WordBits - 1 /\ Short(m, k, d, e) /\ 1 <= e /\ e <= m /\ m # 0
LongDivider(den, d, m, k, e) ==
    /\ den = [magic |-> m, shift |-> k, add |-> TRUE, shiftPath |-> FALSE]
    /\ k \in 1 .. WordBits - 1 /\ Long(m, k, d, e) /\ 1 <= e /\ e <= Base + m /\ m # 0

\* What gen makes of a divisor that is not a power: both kinds agree.
LEMMA UnsignedGenIs ==
  ASSUME NEW d \in 1 .. Base - 1, ~IsPowerOf2(d), NEW branchfree \in BOOLEAN
  PROVE  /\ U64Gen(d, branchfree) = U32Gen(d, branchfree)
         /\ \/ ~branchfree /\ \E m, e : ShortDivider(U32Gen(d, branchfree), d, m, FloorLog2(d), e)
            \/ \E m, e : LongDivider(U32Gen(d, branchfree), d, m, FloorLog2(d), e)
  <1> DEFINE k == FloorLog2(d)
             K == 2 ^ k
             n == K * Base
             q == n \div d
             r == n % d
             Gen == U32Gen(d, branchfree)
  <1>1. Base \in Nat \ {0} /\ Base \div 2 \in Nat /\ Base = 2 * (Base \div 2) /\ d \in Nat \ {0}
        /\ d \in Words /\ WordBits \in Nat
    BY WordSizes DEF Words
  <1>2. /\ k \in 1 .. WordBits - 1
        /\ K \in Nat /\ 2 <= K /\ K <= Base \div 2 /\ K < d /\ d < 2 * K
    BY Between
  <1>3. /\ Div(K, 0, d) = [quot |-> q, rem |-> r] /\ q \in Words
        /\ DivHalves(K, 0, d) = Div(K, 0, d)
    <2> HIDE DEF K
    <2> QED BY <1>1, <1>2, DivIs, DivHalvesIs
  <1>4. n \in Nat
    BY <1>1, <1>2
  <1>5. Gen = IF ~branchfree /\ d - r < K
                THEN [magic |-> Word(1 + q), shift |-> k, add |-> FALSE, shiftPath |-> FALSE]
                ELSE [magic |-> Word(1 + Doubled(q, r, d)), shift |-> k, add |-> TRUE,
                      shiftPath |-> FALSE]
    <2>1. Div(K, 0, d).quot = q /\ Div(K, 0, d).rem = r
      BY <1>3
    <2> HIDE DEF q, r
    <2> QED BY <2>1 DEF U32Gen, UnsignedGen
  <1>6. U64Gen(d, branchfree) = Gen
    <2> HIDE DEF k
    <2> QED BY <1>3 DEF U64Gen, U32Gen, UnsignedGen, k
  <1>7. CASE ~branchfree /\ d - r < K
    <2> DEFINE m == q + 1
               e == d - r
    <2>1. Short(m, k, d, e) /\ 1 <= e /\ e <= m /\ m # 0
      <3>1. k \in Nat
        BY <1>1, <1>2
      <3> HIDE DEF k
      <3> QED BY <1>1, <1>2, <1>7, <3>1, ShortMagic
    <2>2. Word(1 + q) = m
      <3>1. m \in Words
        BY <2>1 DEF Short
      <3>2. 1 + q = m
        BY <1>1, <1>3 DEF Words
      <3> QED BY <3>1, <3>2, WordIs
    <2>3. Gen = [magic |-> m, shift |-> k, add |-> FALSE, shiftPath |-> FALSE]
      BY <1>5, <1>7, <2>2
    <2> HIDE DEF m, e, Gen, k
    <2>4. ShortDivider(Gen, d, m, k, e)
      BY <1>2, <2>1, <2>3 DEF ShortDivider
    <2>5. \E x, y : ShortDivider(Gen, d, x, k, y)
      BY <2>4
    <2> QED BY <1>6, <1>7, <2>5 DEF Gen, k
  <1>8. CASE ~(~branchfree /\ d - r < K)
    <2> DEFINE nn == 2 * n
               m == nn \div d + 1
               e == d - (nn % d)
    <2>1. Long(m - Base, k, d, e) /\ 1 <= e /\ e <= m /\ m - Base # 0 /\ Word(m) = m - Base /\ m \in Nat
      <3>1. k \in Nat
        BY <1>1, <1>2
      <3> HIDE DEF k
      <3> QED BY <1>1, <1>2, <3>1, LongMagic
    <2> HIDE DEF e
    <2>2. Word(1 + Doubled(q, r, d)) = m - Base
      <3>1. Word(1 + Doubled(n \div d, n % d, d)) = Word((2 * n) \div d + 1)
        <4>1. d > 0
          BY <1>1
        <4> HIDE DEF n, k, q, r, nn, m
        <4> QED BY <1>1, <1>4, <4>1, DoubledIs
      <3> QED BY <2>1, <3>1
    <2> HIDE DEF m
    <2> DEFINE w == m - Base
    <2>3. Gen = [magic |-> w, shift |-> k, add |-> TRUE, shiftPath |-> FALSE]
      BY <1>5, <1>8, <2>2
    <2>4. Base + w = m
      BY <1>1, <2>1
    <2> HIDE DEF w, Gen, k
    <2>5. LongDivider(Gen, d, w, k, e)
      BY <1>2, <2>1, <2>3, <2>4 DEF LongDivider, w
    <2>6. \E x, y : LongDivider(Gen, d, x, k, y)
      BY <2>5
    <2> QED BY <1>6, <2>6 DEF Gen, k
  <1> QED BY <1>7, <1>8

\* What it makes of a power of two.
LEMMA PowerGenIs ==
  ASSUME NEW d \in 1 .. Base - 1, IsPowerOf2(d)
  PROVE  LET k == FloorLog2(d)
         IN  /\ k \in 0 .. WordBits - 1 /\ d = 2 ^ k
             /\ U32Gen(d, FALSE) = [magic |-> 0, shift |-> k, add |-> FALSE, shiftPath |-> TRUE]
             /\ U64Gen(d, FALSE) = U32Gen(d, FALSE)
             /\ U32Gen(d, TRUE) = [magic |-> 0, shift |-> k - 1, add |-> TRUE, shiftPath |-> FALSE]
             /\ U64Gen(d, TRUE) = U32Gen(d, TRUE)
             /\ d # 1 => k - 1 \in 0 .. WordBits - 1 /\ Long(0, k - 1, d, 0) /\ d = 2 * 2 ^ (k - 1)
  <1> DEFINE k == FloorLog2(d)
  <1>1. WordBits \in Nat /\ Base \in Nat \ {0}
    BY WordSizes
  <1>2. k \in 0 .. WordBits - 1 /\ d = 2 ^ k
    BY Logarithm DEF IsPowerOf2
  <1>3. U32Gen(d, FALSE) = [magic |-> 0, shift |-> k, add |-> FALSE, shiftPath |-> TRUE]
    BY DEF U32Gen, UnsignedGen
  <1>4. U64Gen(d, FALSE) = U32Gen(d, FALSE)
    BY DEF U32Gen, U64Gen, UnsignedGen
  <1>5. U32Gen(d, TRUE) = [magic |-> 0, shift |-> k - 1, add |-> TRUE, shiftPath |-> FALSE]
    BY DEF U32Gen, UnsignedGen
  <1>6. U64Gen(d, TRUE) = U32Gen(d, TRUE)
    BY DEF U32Gen, U64Gen, UnsignedGen
  <1>7. ASSUME d # 1
        PROVE  k - 1 \in 0 .. WordBits - 1 /\ Long(0, k - 1, d, 0) /\ d = 2 * 2 ^ (k - 1)
    <2> HIDE DEF k
    <2>1. k # 0
      <3>1. 2 ^ 0 = 1
        OBVIOUS
      <3> QED BY <1>2, <1>7, <3>1
    <2> DEFINE j == k - 1
    <2>2. j \in 0 .. WordBits - 1 /\ j \in Nat /\ j + 1 = k
      BY <1>1, <1>2, <2>1
    <2> HIDE DEF j
    <2>3. 2 ^ j \in Nat /\ 2 ^ j > 0 /\ 2 ^ (j + 1) = 2 * 2 ^ j
      BY <2>2, PowerDoubles
    <2> DEFINE J == 2 ^ j
    <2>4. J \in Nat /\ J > 0 /\ d = 2 * J
      BY <1>2, <2>2, <2>3
    <2> HIDE DEF J
    <2>5. (Base + 0) * d = 2 * (J * Base) + 0 /\ 0 < 2 * J /\ 0 \in Words /\ 0 \in Nat
      BY <1>1, <2>4 DEF Words
    <2>6. Long(0, j, d, 0)
      BY <2>5 DEF Long, J
    <2> QED BY <2>2, <2>4, <2>6 DEF j, J
  <1> QED BY <1>2, <1>3, <1>4, <1>5, <1>6, <1>7

\* The algorithm that a divider needs, on the product it is given.
Divides(den, d) ==
    /\ den.magic \in Words
    /\ \A n \in Words : UnsignedDo(n, (den.magic * n) \div Base, den) = n \div d
DividesLong(den, d) ==
    /\ den.magic \in Words
    /\ \A n \in Words : UnsignedAlg2(n, (den.magic * n) \div Base, den) = n \div d

\* Both algorithms give the quotient, from the high word of the product.
LEMMA DividersDivide ==
  ASSUME NEW d \in 1 .. Base - 1
  PROVE  /\ Divides(U32Gen(d, FALSE), d)
         /\ d # 1 => DividesLong(U32Gen(d, TRUE), d)
  <1>1. d \in Nat \ {0} /\ WordBits \in Nat /\ Base \in Nat \ {0} /\ 0 \in Words
    BY WordSizes DEF Words
  <1>2. ASSUME NEW den, NEW m, NEW k \in 0 .. WordBits - 1, NEW e,
               den.magic = m, den.shift = k, Long(m, k, d, e)
        PROVE  DividesLong(den, d)
    <2>1. m \in Words
      BY <1>2 DEF Long
    <2>2. ASSUME NEW n \in Words
          PROVE  ShiftRight(Word(ShiftRight(Word(n - (m * n) \div Base), 1) + (m * n) \div Base), k)
                   = n \div d
      BY <1>1, <1>2, LongDivides
    <2> QED BY <1>2, <2>1, <2>2 DEF DividesLong, UnsignedAlg2
  <1>3. ASSUME NEW den, NEW m, NEW k \in 0 .. WordBits - 1, NEW e,
               den.magic = m, den.shift = k, ~den.add, ~den.shiftPath, Short(m, k, d, e)
        PROVE  Divides(den, d)
    <2>1. m \in Words
      BY <1>3 DEF Short
    <2>2. ASSUME NEW n \in Words
          PROVE  ShiftRight((m * n) \div Base, k) = n \div d
      BY <1>1, <1>3, ShortDivides
    <2> QED BY <1>3, <2>1, <2>2 DEF Divides, UnsignedDo, UnsignedAlg1
  <1>4. CASE IsPowerOf2(d)
    <2> DEFINE k == FloorLog2(d)
               den == U32Gen(d, FALSE)
               bf == U32Gen(d, TRUE)
    <2>1. /\ k \in 0 .. WordBits - 1 /\ d = 2 ^ k
          /\ den = [magic |-> 0, shift |-> k, add |-> FALSE, shiftPath |-> TRUE]
          /\ bf = [magic |-> 0, shift |-> k - 1, add |-> TRUE, shiftPath |-> FALSE]
          /\ d # 1 => k - 1 \in 0 .. WordBits - 1 /\ Long(0, k - 1, d, 0)
      BY <1>4, PowerGenIs
    <2> HIDE DEF k, den, bf
    <2>2. Divides(den, d)
      <3>1. den.magic = 0 /\ den.shift = k /\ den.shiftPath
        BY <2>1
      <3>2. ASSUME NEW n \in Words PROVE UnsignedDo(n, (den.magic * n) \div Base, den) = n \div d
        BY <2>1, <3>1 DEF UnsignedDo, UnsignedAlg0, ShiftRight
      <3> QED BY <1>1, <3>1, <3>2 DEF Divides
    <2>3. ASSUME d # 1 PROVE DividesLong(bf, d)
      <3>1. bf.magic = 0 /\ bf.shift = k - 1
        BY <2>1
      <3> QED BY <1>2, <2>1, <2>3, <3>1
    <2> QED BY <2>2, <2>3 DEF den, bf
  <1>5. CASE ~IsPowerOf2(d)
    <2> DEFINE k == FloorLog2(d)
               den == U32Gen(d, FALSE)
               bf == U32Gen(d, TRUE)
    <2>1. /\ (\E m, e : ShortDivider(den, d, m, k, e)) \/ \E m, e : LongDivider(den, d, m, k, e)
          /\ \E m, e : LongDivider(bf, d, m, k, e)
      BY <1>5, UnsignedGenIs
    <2> HIDE DEF k, den, bf
    <2>2. ASSUME NEW m, NEW e, NEW x, LongDivider(x, d, m, k, e)
          PROVE  DividesLong(x, d) /\ x.add /\ ~x.shiftPath
      <3>1. x.magic = m /\ x.shift = k /\ x.add /\ ~x.shiftPath /\ k \in 0 .. WordBits - 1 /\ Long(m, k, d, e)
        BY <1>1, <2>2 DEF LongDivider
      <3> QED BY <1>2, <3>1
    <2>3. DividesLong(bf, d)
      BY <2>1, <2>2
    <2>4. CASE \E m, e : ShortDivider(den, d, m, k, e)
      <3>1. PICK m, e : ShortDivider(den, d, m, k, e)
        BY <2>4
      <3>2. /\ den.magic = m /\ den.shift = k /\ ~den.add /\ ~den.shiftPath
            /\ k \in 0 .. WordBits - 1 /\ Short(m, k, d, e)
        BY <1>1, <3>1 DEF ShortDivider
      <3>3. Divides(den, d)
        BY <1>3, <3>2
      <3> QED BY <2>3, <3>3 DEF den, bf
    <2>5. CASE \E m, e : LongDivider(den, d, m, k, e)
      <3>1. DividesLong(den, d) /\ den.add /\ ~den.shiftPath
        BY <2>2, <2>5
      <3>2. Divides(den, d)
        BY <3>1 DEF Divides, DividesLong, UnsignedDo
      <3> QED BY <2>3, <3>2 DEF den, bf
    <2> QED BY <2>1, <2>4, <2>5
  <1> QED BY <1>4, <1>5

\* The divisor that a short or a long magic number comes from.
LEMMA ShortRecovers ==
  ASSUME NEW m, NEW k, NEW d \in 1 .. Base - 1, NEW e, NEW den, ShortDivider(den, d, m, k, e)
  PROVE  /\ (2 ^ k * Base) \div m = d - 1
         /\ Div(2 ^ k, 0, m).quot = d - 1
         /\ DivHalves(2 ^ k, 0, m).quot = d - 1
  <1> DEFINE K == 2 ^ k
             n == K * Base
  <1>1. Base \in Nat \ {0} /\ WordBits \in Nat /\ d \in Nat
    BY WordSizes
  <1>2. /\ k \in Nat /\ m \in Words /\ e \in Nat /\ m * d = n + e /\ e < K
        /\ 1 <= e /\ e <= m /\ m # 0
    BY <1>1 DEF ShortDivider, Short
  <1>3. m \in Nat \ {0} /\ e \in Nat \ {0}
    BY <1>1, <1>2 DEF Words
  <1>4. K \in Nat
    BY <1>2, PowerDoubles
  <1>5. n \in Nat
    BY <1>1, <1>4
  <1>6. n \div m = d - 1
    <2> HIDE DEF n, K
    <2> QED BY <1>1, <1>2, <1>3, <1>5, MagicRecover
  <1>7. K < m
    <2>1. k \in 0 .. WordBits - 1
      BY <1>1 DEF ShortDivider
    <2>2. K <= Base \div 2
      BY <1>1, <2>1, PowerOfWord
    \* Otherwise the product is less than it is.
    <2>3. ASSUME m <= K PROVE FALSE
      <3>1. m * d <= K * d
        BY <1>1, <1>3, <1>4, <2>3
      <3>2. K * d <= K * (Base - 1)
        BY <1>1, <1>4
      <3>3. K * (Base - 1) = n - K
        BY <1>1, <1>4
      <3>4. K # 0
        BY <1>2
      <3>5. m * d \in Int /\ K * d \in Int
        BY <1>1, <1>3, <1>4
      <3> HIDE DEF n, K
      <3> QED BY <1>2, <1>4, <1>5, <3>1, <3>2, <3>3, <3>4, <3>5
    <2> QED BY <1>3, <1>4, <2>3
  <1>8. /\ Div(K, 0, m) = [quot |-> n \div m, rem |-> (n % m)]
        /\ DivHalves(K, 0, m) = Div(K, 0, m)
    <2> HIDE DEF K
    <2> QED BY <1>2, <1>4, <1>7, DivIs, DivHalvesIs
  <1> QED BY <1>6, <1>8

\* Twice the power, divided by a long magic number.
LEMMA LongRecovers ==
  ASSUME NEW m, NEW k, NEW d \in 1 .. Base - 1, NEW e, NEW den, LongDivider(den, d, m, k, e)
  PROVE  (2 * (2 ^ k * Base)) \div (Base + m) = d - 1
  <1> DEFINE n == 2 * (2 ^ k * Base)
             M == Base + m
  <1>1. Base \in Nat \ {0} /\ WordBits \in Nat /\ d \in Nat
    BY WordSizes
  <1>2. k \in Nat /\ m \in Words /\ e \in Nat /\ M * d = n + e /\ 1 <= e /\ e <= M
    BY <1>1 DEF LongDivider, Long
  <1>3. M \in Nat \ {0} /\ e \in Nat \ {0}
    BY <1>1, <1>2 DEF Words
  <1>4. n \in Nat
    <2>1. 2 ^ k \in Nat
      BY <1>2, PowerDoubles
    <2> QED BY <1>1, <2>1
  <1>5. n \div M = d - 1
    <2> HIDE DEF n, M
    <2> QED BY <1>1, <1>2, <1>3, <1>4, MagicRecover
  <1> QED BY <1>5

\* That is what recover does, the two kinds in two ways.
LEMMA LongRecoveredAs ==
  ASSUME NEW m \in Words, m # 0, NEW k \in 0 .. WordBits - 1, NEW d \in 1 .. Base - 1,
         (2 * (2 ^ k * Base)) \div (Base + m) = d - 1,
         NEW den, den = [magic |-> m, shift |-> k, add |-> TRUE, shiftPath |-> FALSE]
  PROVE  /\ U32Recover(den) = d
         /\ k >= 1 => U64Recover(den) = d
  <1> DEFINE K == 2 ^ k
             n == K * Base
             M == Base + m
             nn == 2 * n
  <1>1. Base \in Nat \ {0} /\ WordBits \in Nat /\ d \in Words /\ m \in Nat /\ k \in Nat
    BY WordSizes DEF Words
  <1>2. 2 ^ (WordBits + k) = n
    <2>1. 2 ^ (WordBits + k) = 2 ^ WordBits * 2 ^ k
      BY <1>1, PowerAdds
    <2>2. 2 ^ WordBits = Base /\ 2 ^ k \in Nat
      BY <1>1, PowerDoubles DEF Base
    <2> QED BY <1>1, <2>1, <2>2
  <1>3. n \in Nat /\ M \in Nat \ {0}
    <2>1. K \in Nat
      BY <1>1, PowerDoubles
    <2> HIDE DEF K
    <2> QED BY <1>1, <2>1
  <1>4. nn \div M = d - 1
    OBVIOUS
  <1> HIDE DEF nn
  <1>5. nn \div M = 2 * (n \div M) + (IF 2 * (n % M) >= M THEN 1 ELSE 0)
    <2>1. n \in Int
      BY <1>3
    <2> HIDE DEF n, M
    <2> QED BY <1>3, <2>1, TwiceDivided DEF nn
  <1>6. Word(d) = d /\ d - 1 + 1 = d
    BY <1>1, WordIs
  <1>7. U32Recover(den) = d
    <2>1. U32Recover(den) = Word(2 * (n \div M) + (IF 2 * (n % M) >= M THEN 1 ELSE 0) + 1)
      <3> HIDE DEF n
      <3> QED BY <1>2 DEF U32Recover
    <2> QED BY <1>4, <1>5, <1>6, <2>1
  <1>8. ASSUME k >= 1 PROVE U64Recover(den) = d
    <2>1. k \in 1 .. WordBits - 1
      BY <1>1, <1>8
    <2>2. TwiceRoundedUp(DivDoubles(<<2 ^ k, 0>>, <<1, m>>), <<1, m>>) = Word(nn \div M + 1)
      BY <2>1, TwiceRoundedUpIs DEF nn
    <2>3. U64Recover(den) = TwiceRoundedUp(DivDoubles(<<2 ^ k, 0>>, <<1, m>>), <<1, m>>)
      BY DEF U64Recover
    <2> QED BY <1>4, <1>6, <2>2, <2>3
  <1> QED BY <1>7, <1>8

\* All of the unsigned dividers give their divisor back.
LEMMA DividersRecover ==
  ASSUME NEW d \in 1 .. Base - 1
  PROVE  LET den == U32Gen(d, FALSE)  bf == U32Gen(d, TRUE)
         IN  /\ U32Recover(den) = d /\ U64Recover(den) = d
             /\ d # 1 => U32Recover(bf) = d /\ U64Recover(bf) = d
  <1> DEFINE k == FloorLog2(d)
             den == U32Gen(d, FALSE)
             bf == U32Gen(d, TRUE)
  <1>1. /\ Base \in Nat \ {0} /\ WordBits \in Nat /\ d \in Words /\ Word(d) = d /\ d \in Nat
        /\ d - 1 + 1 = d /\ 1 + (d - 1) = d
    <2>1. Base \in Nat \ {0} /\ WordBits \in Nat /\ d \in Words /\ d \in Nat /\ d - 1 + 1 = d
          /\ 1 + (d - 1) = d
      BY WordSizes DEF Words
    <2> QED BY <2>1, WordIs
  <1>2. CASE IsPowerOf2(d)
    <2>1. /\ k \in 0 .. WordBits - 1 /\ d = 2 ^ k
          /\ den = [magic |-> 0, shift |-> k, add |-> FALSE, shiftPath |-> TRUE]
          /\ bf = [magic |-> 0, shift |-> k - 1, add |-> TRUE, shiftPath |-> FALSE]
          /\ d # 1 => k - 1 \in 0 .. WordBits - 1 /\ d = 2 * 2 ^ (k - 1)
      BY <1>2, PowerGenIs
    <2> HIDE DEF k, den, bf
    <2>2. U32Recover(den) = d /\ U64Recover(den) = d
      BY <2>1 DEF U32Recover, U64Recover
    <2>3. ASSUME d # 1 PROVE U32Recover(bf) = d /\ U64Recover(bf) = d
      <3> DEFINE j == k - 1
                 J == 2 ^ j
                 n == J * Base
      <3>1. j \in Nat /\ j + 1 = k /\ d = 2 * J
        BY <1>1, <2>1, <2>3
      <3> HIDE DEF j
      <3>2. J \in Nat
        BY <3>1, PowerDoubles
      <3>3. 2 ^ (WordBits + j) = n
        <4>1. 2 ^ (WordBits + j) = 2 ^ WordBits * 2 ^ j
          BY <1>1, <3>1, PowerAdds
        <4>2. 2 ^ WordBits = Base
          BY DEF Base
        <4> QED BY <1>1, <3>2, <4>1, <4>2
      <3> HIDE DEF J
      <3>4. n \div (Base + 0) = J /\ (n % (Base + 0)) = 0
        <4>1. n = Base * J + 0 /\ 0 < Base /\ n \in Int /\ J \in Int /\ Base + 0 = Base
          BY <1>1, <3>2
        <4> HIDE DEF n
        <4> QED BY <1>1, <4>1, DivisionIs
      <3>5. bf = [magic |-> 0, shift |-> j, add |-> TRUE, shiftPath |-> FALSE]
        BY <2>1 DEF j
      <3>6. U32Recover(bf) = d
        <4>1. 2 * J + 0 + 0 = d /\ ~(2 * 0 >= Base + 0)
          BY <1>1, <3>1, <3>2
        <4>2. U32Recover(bf) = Word(2 * (n \div (Base + 0))
                                    + (IF 2 * (n % (Base + 0)) >= Base + 0 THEN 1 ELSE 0) + 0)
          <5> HIDE DEF n
          <5> QED BY <3>3, <3>5 DEF U32Recover
        <4> HIDE DEF n
        <4> QED BY <1>1, <3>4, <4>1, <4>2
      <3>7. U64Recover(bf) = d
        <4>1. U64Recover(bf) = ShiftLeft(1, k)
          BY <3>1, <3>5 DEF U64Recover
        <4>2. 1 * 2 ^ k = d
          BY <1>1, <2>1
        <4> QED BY <1>1, <4>1, <4>2 DEF ShiftLeft
      <3> QED BY <3>6, <3>7
    <2> QED BY <2>2, <2>3 DEF den, bf
  <1>3. CASE ~IsPowerOf2(d)
    <2>1. /\ (\E m, e : ShortDivider(den, d, m, k, e)) \/ \E m, e : LongDivider(den, d, m, k, e)
          /\ \E m, e : LongDivider(bf, d, m, k, e)
      BY <1>3, UnsignedGenIs
    <2> HIDE DEF k, den, bf
    <2>2. ASSUME NEW m, NEW e, NEW x, LongDivider(x, d, m, k, e)
          PROVE  U32Recover(x) = d /\ U64Recover(x) = d
      <3>1. /\ m \in Words /\ m # 0 /\ k \in 0 .. WordBits - 1 /\ k >= 1
            /\ x = [magic |-> m, shift |-> k, add |-> TRUE, shiftPath |-> FALSE]
        BY <1>1, <2>2 DEF LongDivider, Long
      <3>2. (2 * (2 ^ k * Base)) \div (Base + m) = d - 1
        BY <2>2, LongRecovers
      <3> QED BY <3>1, <3>2, LongRecoveredAs
    <2>3. U32Recover(bf) = d /\ U64Recover(bf) = d
      BY <2>1, <2>2
    <2>4. CASE \E m, e : ShortDivider(den, d, m, k, e)
      <3>1. PICK m, e : ShortDivider(den, d, m, k, e)
        BY <2>4
      <3>2. Div(2 ^ k, 0, m).quot = d - 1 /\ DivHalves(2 ^ k, 0, m).quot = d - 1
        BY <3>1, ShortRecovers
      <3>3. den = [magic |-> m, shift |-> k, add |-> FALSE, shiftPath |-> FALSE]
        BY <3>1 DEF ShortDivider
      <3>4. U32Recover(den) = d /\ U64Recover(den) = d
        BY <1>1, <3>2, <3>3 DEF U32Recover, U64Recover
      <3> QED BY <2>3, <3>4 DEF den, bf
    <2>5. CASE \E m, e : LongDivider(den, d, m, k, e)
      <3>1. U32Recover(den) = d /\ U64Recover(den) = d
        BY <2>2, <2>5
      <3> QED BY <2>3, <3>1 DEF den, bf
    <2> QED BY <2>1, <2>4, <2>5
  <1> QED BY <1>2, <1>3

\* All of the unsigned algorithms.
LEMMA UnsignedIsExact ==
  ASSUME NEW d \in 1 .. Base - 1
  PROVE  UnsignedExact(d)
  <1> DEFINE u32 == U32Gen(d, FALSE)
             b32 == U32Gen(d, TRUE)
  <1>1. U64Gen(d, FALSE) = u32 /\ U64Gen(d, TRUE) = b32
    <2>1. CASE IsPowerOf2(d)
      BY <2>1, PowerGenIs
    <2>2. CASE ~IsPowerOf2(d)
      BY <2>2, UnsignedGenIs
    <2> QED BY <2>1, <2>2
  <1>2. /\ U32Recover(u32) = d /\ U64Recover(u32) = d
        /\ d # 1 => U32Recover(b32) = d /\ U64Recover(b32) = d
    BY DividersRecover
  <1>3. Divides(u32, d) /\ (d # 1 => DividesLong(b32, d))
    BY DividersDivide
  <1>4. U32Algorithm(u32) = U64Algorithm(u32)
    BY DEF U32Algorithm, U64Algorithm
  <1> HIDE DEF u32, b32
  <1>5. ASSUME NEW m \in Words, NEW n \in Words
        PROVE  /\ MulHi(m, n) = (m * n) \div Base
               /\ MulHiHalves(m, n) = (m * n) \div Base
               /\ MulHiHalves(n, m) = (m * n) \div Base
               /\ (n * m) \div Base = (m * n) \div Base
    <2>1. m * n = n * m
      BY WordSizes DEF Words
    <2> QED BY <2>1, HighWordOfHalves DEF MulHi
  <1>6. 0 \in Pair /\ 1 \in Pair /\ \A i \in Pair : i = 0 \/ i = 1
    BY DEF Pair
  <1>7. ASSUME NEW m \in Words, NEW n \in Words, NEW l \in Words
        PROVE  MulHiPair(Both(n, l), m)
                 = [i \in Pair |-> IF i = 0 THEN (m * n) \div Base ELSE (m * l) \div Base]
    <2> DEFINE lane == Both(n, l)
    <2>1. lane[0] = n /\ lane[1] = l
      BY <1>6 DEF Both
    <2> HIDE DEF lane
    <2>2. MulHiPair(lane, m) = [i \in Pair |-> (lane[i] * m) \div Base]
      BY <2>1, HighWordsOfPair
    <2>3. (n * m) \div Base = (m * n) \div Base /\ (l * m) \div Base = (m * l) \div Base
      BY <1>5
    <2>4. \A i \in Pair : (lane[i] * m) \div Base
                            = IF i = 0 THEN (m * n) \div Base ELSE (m * l) \div Base
      BY <1>6, <2>1, <2>3
    <2> QED BY <2>2, <2>4 DEF lane
  <1>8. ASSUME NEW n \in Words
        PROVE  LET q      == n \div d
                   lanes  == Both(n, Base - 1 - n)
                   quotes == Both(q, (Base - 1 - n) \div d)
               IN  /\ U32Do(n, u32) = q /\ U64Do(n, u32) = q
                   /\ U32DoVector(lanes, u32) = quotes /\ U64DoVector(n, u32) = q
                   /\ d # 1 =>
                        /\ U32BranchfreeDo(n, b32) = q /\ U64BranchfreeDo(n, b32) = q
                        /\ U32BranchfreeDoVector(lanes, b32) = quotes
                        /\ U64BranchfreeDoVector(n, b32) = q
    <2> DEFINE l      == Base - 1 - n
               q      == n \div d
               lanes  == Both(n, l)
               quotes == Both(q, l \div d)
    <2>1. l \in Words
      BY WordSizes DEF Words
    <2> HIDE DEF l
    <2>2. lanes[0] = n /\ lanes[1] = l
      BY <1>6 DEF Both
    <2>3. /\ U32Do(n, u32) = q /\ U64Do(n, u32) = q /\ U64DoVector(n, u32) = q
          /\ U32DoVector(lanes, u32) = quotes
      <3> DEFINE m == u32.magic
      <3>1. m \in Words /\ \A x \in Words : UnsignedDo(x, (m * x) \div Base, u32) = x \div d
        BY <1>3 DEF Divides
      <3> HIDE DEF m
      <3>2. U32Do(n, u32) = q /\ U64Do(n, u32) = q /\ U64DoVector(n, u32) = q
        BY <1>5, <3>1 DEF U32Do, U64Do, U64DoVector, m
      <3> DEFINE p == MulHiPair(lanes, m)
      <3>3. p[0] = (m * n) \div Base /\ p[1] = (m * l) \div Base
        <4>1. p = [i \in Pair |-> IF i = 0 THEN (m * n) \div Base ELSE (m * l) \div Base]
          BY <1>7, <2>1, <3>1
        <4> HIDE DEF p
        <4> QED BY <1>6, <4>1
      <3> HIDE DEF p, lanes
      <3>4. U32DoVector(lanes, u32) = [i \in Pair |-> UnsignedDo(lanes[i], p[i], u32)]
        BY DEF U32DoVector, p, m
      <3>5. \A i \in Pair : UnsignedDo(lanes[i], p[i], u32) = IF i = 0 THEN q ELSE l \div d
        BY <1>6, <2>1, <2>2, <3>1, <3>3
      <3>6. U32DoVector(lanes, u32) = quotes
        BY <3>4, <3>5 DEF Both
      <3> QED BY <3>2, <3>6
    <2>4. ASSUME d # 1
          PROVE  /\ U32BranchfreeDo(n, b32) = q /\ U64BranchfreeDo(n, b32) = q
                 /\ U32BranchfreeDoVector(lanes, b32) = quotes
                 /\ U64BranchfreeDoVector(n, b32) = q
      <3> DEFINE m == b32.magic
      <3>1. m \in Words /\ \A x \in Words : UnsignedAlg2(x, (m * x) \div Base, b32) = x \div d
        BY <1>3, <2>4 DEF DividesLong
      <3> HIDE DEF m
      <3>2. U32BranchfreeDo(n, b32) = q /\ U64BranchfreeDo(n, b32) = q /\ U64BranchfreeDoVector(n, b32) = q
        BY <1>5, <3>1 DEF U32BranchfreeDo, U64BranchfreeDo, U64BranchfreeDoVector, m
      <3> DEFINE p == MulHiPair(lanes, m)
      <3>3. p[0] = (m * n) \div Base /\ p[1] = (m * l) \div Base
        <4>1. p = [i \in Pair |-> IF i = 0 THEN (m * n) \div Base ELSE (m * l) \div Base]
          BY <1>7, <2>1, <3>1
        <4> HIDE DEF p
        <4> QED BY <1>6, <4>1
      <3> HIDE DEF p, lanes
      <3>4. U32BranchfreeDoVector(lanes, b32) = [i \in Pair |-> UnsignedAlg2(lanes[i], p[i], b32)]
        BY DEF U32BranchfreeDoVector, p, m
      <3>5. \A i \in Pair : UnsignedAlg2(lanes[i], p[i], b32) = IF i = 0 THEN q ELSE l \div d
        BY <1>6, <2>1, <2>2, <3>1, <3>3
      <3>6. U32BranchfreeDoVector(lanes, b32) = quotes
        BY <3>4, <3>5 DEF Both
      <3> QED BY <3>2, <3>6
    <2> QED BY <2>3, <2>4 DEF l
  <1> QED BY <1>1, <1>2, <1>3, <1>4, <1>8 DEF UnsignedExact, u32, b32

-----------------------------------------------------------------------------
(***************************************************************************)
(* Signed division: quotients that are rounded towards zero.               *)
(***************************************************************************)
LEMMA QuotientIs ==
  ASSUME NEW n \in Int, NEW d \in Nat \ {0}
  PROVE  /\ n >= 0 => Quotient(n, d) = n \div d
         /\ n < 0 => Quotient(n, d) = -((-n) \div d)
         /\ Quotient(n, -d) = -Quotient(n, d)
         /\ Quotient(-n, d) = -Quotient(n, d)
         /\ Quotient(n, d) \in Int
  <1>1. d > 0 /\ -d < 0 /\ -(-d) = d /\ -(-n) = n /\ 0 \div d = 0
    OBVIOUS
  <1> DEFINE a == n \div d
             b == (-n) \div d
  <1>2. a \in Int /\ b \in Int
    OBVIOUS
  <1>3. CASE n < 0
    <2>1. (n < 0) = TRUE /\ (d < 0) = FALSE /\ (-d < 0) = TRUE /\ (-n < 0) = FALSE
      BY <1>1, <1>3
    <2>2. Quotient(n, d) = -b
      BY <2>1 DEF Quotient
    <2>3. Quotient(n, -d) = b
      BY <1>1, <2>1 DEF Quotient
    <2>4. Quotient(-n, d) = b
      BY <1>1, <2>1 DEF Quotient
    <2> HIDE DEF a, b
    <2> QED BY <1>2, <1>3, <2>2, <2>3, <2>4 DEF b
  <1>4. CASE n > 0
    <2>1. (n < 0) = FALSE /\ (d < 0) = FALSE /\ (-d < 0) = TRUE /\ (-n < 0) = TRUE
      BY <1>1, <1>4
    <2>2. Quotient(n, d) = a
      BY <2>1 DEF Quotient
    <2>3. Quotient(n, -d) = -a
      BY <1>1, <2>1 DEF Quotient
    <2>4. Quotient(-n, d) = -a
      BY <1>1, <2>1 DEF Quotient
    <2> HIDE DEF a, b
    <2> QED BY <1>2, <1>4, <2>2, <2>3, <2>4 DEF a
  <1>5. CASE n = 0
    <2>1. -n = 0 /\ (n < 0) = FALSE /\ (d < 0) = FALSE /\ (-d < 0) = TRUE
      BY <1>1, <1>5
    <2>2. Quotient(n, d) = 0
      BY <1>1, <1>5, <2>1 DEF Quotient
    <2>3. Quotient(n, -d) = 0
      BY <1>1, <1>5, <2>1 DEF Quotient
    <2>4. Quotient(-n, d) = 0
      BY <1>5, <2>1, <2>2
    <2> QED BY <1>1, <1>5, <2>2, <2>3, <2>4
  <1> QED BY <1>3, <1>4, <1>5

\* A magic quotient, raised where it was rounded down.
LEMMA MagicQuotientToZero ==
  ASSUME NEW m \in Nat, NEW p \in Nat \ {0}, NEW d \in Nat \ {0}, NEW e \in Nat \ {0},
         m * d = p + e, NEW n \in Int, n * e < p, (-n) * e < p
  PROVE  /\ TowardsZero((m * n) \div p) = Quotient(n, d)
         /\ (m * n) \div p < 0 <=> n < 0
  <1>1. CASE n >= 0
    <2>1. n \in Nat
      BY <1>1
    <2>2. (m * n) \div p = n \div d
      BY <2>1, MagicQuotient
    <2>3. n \div d >= 0 /\ n \div d \in Int
      <3>1. 0 * d <= n
        BY <1>1
      <3>2. n \div d \in Int
        OBVIOUS
      <3> QED BY <3>1, <3>2, QuotientBounds
    <2>4. Quotient(n, d) = n \div d
      BY <1>1, QuotientIs
    <2> DEFINE q == n \div d
    <2> HIDE DEF q
    <2>5. q \in Int /\ ~(q < 0) /\ TowardsZero(q) = q
      BY <2>3 DEF TowardsZero, q
    <2> QED BY <1>1, <2>2, <2>4, <2>5 DEF q
  <1>2. CASE n < 0
    <2> DEFINE a == -n
    <2>1. a \in Nat \ {0} /\ a * e < p /\ n = -a
      BY <1>2
    <2>a. (m * (-a)) \div p = -(a \div d) - 1
      <3> HIDE DEF a
      <3> QED BY <2>1, MagicQuotientDown
    <2>2. (m * n) \div p = -(a \div d) - 1
      <3> HIDE DEF a
      <3> QED BY <2>1, <2>a
    <2>3. a \div d >= 0 /\ a \div d \in Int
      <3>1. 0 * d <= a /\ a \in Int
        BY <2>1
      <3> HIDE DEF a
      <3>2. a \div d \in Int
        BY <3>1
      <3> QED BY <3>1, <3>2, QuotientBounds
    <2>4. Quotient(n, d) = -(a \div d)
      BY <1>2, QuotientIs
    <2> DEFINE q == a \div d
               x == (m * n) \div p
    <2>5. x = -q - 1 /\ q >= 0 /\ q \in Int
      BY <2>2, <2>3
    <2> HIDE DEF q, x
    <2>6. x < 0 /\ TowardsZero(x) = -q
      BY <2>5 DEF TowardsZero
    <2> QED BY <1>2, <2>4, <2>6 DEF q, x
  <1> QED BY <1>1, <1>2

\* A shift of a number that is raised where it is negative.
LEMMA RaisedShift ==
  ASSUME NEW n \in Int, NEW d \in Nat \ {0}
  PROVE  (n + (IF n < 0 THEN d - 1 ELSE 0)) \div d = Quotient(n, d)
  <1>1. CASE n >= 0
    <2>1. n + (IF n < 0 THEN d - 1 ELSE 0) = n
      BY <1>1
    <2>2. Quotient(n, d) = n \div d
      BY <1>1, QuotientIs
    <2> QED BY <2>1, <2>2
  <1>2. CASE n < 0
    <2> DEFINE a == -n
               x == a \div d
               y == a % d
               z == n + (d - 1)
    <2>1. a \in Int
      OBVIOUS
    <2>2. x \in Int /\ y \in 0 .. d - 1 /\ a = d * x + y
      <3>1. a \div d \in Int /\ (a % d) \in 0 .. d - 1 /\ a = d * (a \div d) + (a % d)
        <4> HIDE DEF a, x, y
        <4> QED BY <2>1, Division
      <3> QED BY <3>1
    <2>3. Quotient(n, d) = -x
      BY <1>2, QuotientIs
    <2> HIDE DEF x, y
    <2>4. z = d * (-x) + (d - 1 - y) /\ z \in Int /\ -x \in Int /\ d - 1 - y \in Int
          /\ 0 <= d - 1 - y /\ d - 1 - y < d
      BY <2>2
    <2> HIDE DEF z
    <2>5. z \div d = -x
      BY <2>4, DivisionIs
    <2> QED BY <1>2, <2>3, <2>5 DEF z
  <1> QED BY <1>1, <1>2

\* Both shifts are the arithmetic one.
LEMMA SameShift ==
  ASSUME NEW v \in SignedWords, NEW k \in 0 .. WordBits - 1
  PROVE  ShiftRightFlat(v, k) = ShiftRight(v, k) /\ ShiftRight(v, k) \in SignedWords
  BY ShiftedFlat DEF ShiftRight

\* What the numbers of a divisor are.
LEMMA SignedNumbers ==
  /\ Base \in Nat \ {0} /\ Base \div 2 \in Nat /\ Base \div 2 >= 2 /\ Base = 2 * (Base \div 2)
  /\ WordBits \in Nat /\ WordBits >= 2
  /\ SignedWords \subseteq Int
  /\ \A x \in SignedWords : -(Base \div 2) <= x /\ x < Base \div 2 /\ x \in Int
  /\ \A x \in Int : -(Base \div 2) <= x /\ x < Base \div 2 => x \in SignedWords
  <1> DEFINE g == Base \div 2
  <1>1. Base \in Nat \ {0} /\ g \in Nat /\ g >= 2 /\ Base = 2 * g /\ WordBits \in Nat /\ WordBits >= 2
    BY WordSizes
  <1> HIDE DEF g
  <1>2. /\ -g .. g - 1 \subseteq Int
        /\ \A x \in -g .. g - 1 : -g <= x /\ x < g /\ x \in Int
        /\ \A x \in Int : -g <= x /\ x < g => x \in -g .. g - 1
    BY <1>1
  <1> QED BY <1>1, <1>2 DEF SignedWords, g

\* A divider of a power of two.
LEMMA ShiftDivides ==
  ASSUME NEW n \in SignedWords, NEW k \in 0 .. WordBits - 1, NEW den, den.shift = k,
         NEW d \in SignedWords, d = 2 ^ k \/ d = -(2 ^ k), den.negative <=> d < 0,
         d = -1 => n # -(Base \div 2)
  PROVE  /\ Raised(n, den) \in SignedWords
         /\ SignedByShift(n, den, ShiftRight) = Quotient(n, d)
         /\ SignedByShift(n, den, ShiftRightFlat) = Quotient(n, d)
  <1> DEFINE g == Base \div 2
             K == 2 ^ k
             s == n + (IF n < 0 THEN K - 1 ELSE 0)
             q == Quotient(n, K)
  <1>1. /\ g \in Nat /\ g >= 2 /\ n \in Int /\ -g <= n /\ n < g /\ d \in Int /\ -g <= d /\ d < g
        /\ K \in Nat \ {0} /\ K <= g /\ 2 * g = Base
    <2>1. K \in 1 .. g
      BY PowerOfWord
    <2> HIDE DEF K
    <2> QED BY <2>1, SignedNumbers
  <1> HIDE DEF g, K
  <1>2. s \in SignedWords
    <2>1. s \in Int /\ -g <= s /\ s < g
      BY <1>1
    <2> QED BY <2>1, SignedNumbers DEF g
  <1>3. Signed(s) = s
    BY <1>2, SignedIs
  <1>4. Raised(n, den) = s
    BY <1>3 DEF Raised, K
  <1>5. s \div K = q
    BY <1>1, RaisedShift
  <1> HIDE DEF s, q
  <1>6. ShiftRight(s, k) = q /\ ShiftRightFlat(s, k) = q /\ q \in SignedWords
    <2>1. ShiftRight(s, k) = q
      BY <1>5 DEF ShiftRight, K
    <2> QED BY <1>2, <2>1, SameShift
  <1>7. q \in Int /\ -g <= q /\ q < g
    BY <1>6, SignedNumbers DEF g
  <1>8. CASE d > 0
    <2>1. ~den.negative /\ d = K
      BY <1>1, <1>8 DEF K
    <2> QED BY <1>2, <1>4, <1>6, <2>1 DEF SignedByShift, Negated, q
  <1>9. CASE d < 0
    <2>1. den.negative /\ d = -K
      BY <1>1, <1>9 DEF K
    <2>2. Quotient(n, d) = -q
      BY <1>1, <2>1, QuotientIs DEF q
    <2>3. -q \in SignedWords
      <3>1. q # -g
        <4>1. CASE K = 1
          <5>1. n \div 1 = n /\ (-n) \div 1 = -n /\ -(-n) = n
            BY <1>1
          <5>2. q = n
            BY <1>1, <4>1, <5>1, QuotientIs DEF q
          <5> QED BY <1>1, <2>1, <4>1, <5>2 DEF g
        <4>2. CASE K > 1
          <5>1. CASE n >= 0
            <6>0. Quotient(n, K) = n \div K
              BY <1>1, <5>1, QuotientIs
            <6>1. q = n \div K /\ 0 * K <= n
              BY <1>1, <5>1, <6>0 DEF q
            <6>2. q >= 0
              BY <1>1, <6>1, QuotientBounds
            <6> QED BY <1>1, <6>2
          <5>2. CASE n < 0
            <6> DEFINE a == -n
            <6>1. a \in Int /\ a <= g /\ q = -(a \div K)
              BY <1>1, <5>2, QuotientIs DEF q
            <6>2. a < g * K
              <7>1. g * 2 <= g * K
                BY <1>1, <4>2
              <7>2. g * K \in Int
                BY <1>1
              <7> HIDE DEF a
              <7> QED BY <1>1, <6>1, <7>1, <7>2
            <6> HIDE DEF a
            <6>3. a \div K < g /\ a \div K \in Int
              BY <1>1, <6>1, <6>2, QuotientBounds
            <6> QED BY <1>1, <6>1, <6>3
          <5> QED BY <1>1, <5>1, <5>2
        <4> QED BY <1>1, <4>1, <4>2
      <3>2. -q \in Int /\ -g <= -q /\ -q < g
        BY <1>1, <1>7, <3>1
      <3> QED BY <3>2, SignedNumbers DEF g
    <2>4. Signed(-q) = -q
      BY <2>3, SignedIs
    <2> QED BY <1>2, <1>4, <1>6, <2>1, <2>2, <2>4 DEF SignedByShift, Negated
  <1>10. d # 0
    BY <1>1 DEF K
  <1> QED BY <1>1, <1>8, <1>9, <1>10

\* A divisor's size, and the power below it.
Size(d) == IF d < 0 THEN -d ELSE d

\* The size of a signed divisor is a word, the one of the least too.
LEMMA SizeIs ==
  ASSUME NEW d \in SignedWords \ {0}
  PROVE  /\ Size(d) \in 1 .. Base - 1 /\ Size(d) \in Nat \ {0} /\ Size(d) <= Base \div 2
         /\ Word(Size(d)) = Size(d) /\ Size(d) \in Words
         /\ d < 0 => d = -Size(d)
         /\ d > 0 => d = Size(d)
         /\ d < 0 \/ d > 0
  <1> DEFINE g == Base \div 2
             D == Size(d)
  <1>1. Base \in Nat \ {0} /\ g \in Nat /\ g >= 2 /\ Base = 2 * g /\ d \in Int /\ -g <= d /\ d < g /\ d # 0
    BY SignedNumbers
  <1> HIDE DEF g
  <1>2. D \in Nat \ {0} /\ D <= g /\ (d < 0 => d = -D) /\ (d > 0 => d = D) /\ (d < 0 \/ d > 0)
    BY <1>1 DEF Size
  <1> HIDE DEF D
  <1>3. D \in 1 .. Base - 1 /\ D \in Words
    BY <1>1, <1>2 DEF Words
  <1>4. Word(D) = D
    BY <1>3, WordIs
  <1> QED BY <1>2, <1>3, <1>4 DEF D, g

\* A size that is no power is between two powers that are words.
LEMMA SignedBetween ==
  ASSUME NEW d \in 1 .. Base - 1, d <= Base \div 2, ~IsPowerOf2(d)
  PROVE  LET k == FloorLog2(d)
         IN  /\ k \in 1 .. WordBits - 2 /\ k - 1 \in 0 .. WordBits - 1 /\ k \in Nat /\ k - 1 \in Nat
             /\ 2 ^ (k - 1) \in Nat \ {0} /\ 2 ^ k = 2 * 2 ^ (k - 1) /\ 2 ^ k < d /\ d < 2 * 2 ^ k
             /\ 2 * 2 ^ k <= Base \div 2
  <1> DEFINE k == FloorLog2(d)
             K == 2 ^ k
             g == Base \div 2
             j == k - 1
  <1>1. k \in 1 .. WordBits - 1 /\ K \in Nat /\ K < d /\ d < 2 * K
    BY Between
  <1>2. WordBits \in Nat /\ WordBits >= 2 /\ g \in Nat /\ g >= 2 /\ Base = 2 * g
    BY SignedNumbers
  <1> HIDE DEF k, g
  <1>3. k # WordBits - 1
    <2>1. ASSUME k = WordBits - 1 PROVE FALSE
      <3>1. k \in 0 .. WordBits - 1 /\ WordBits - 1 - k = 0
        BY <1>2, <2>1
      <3>2. g = 2 ^ k * 2 ^ (WordBits - 1 - k) /\ 2 ^ 0 = 1
        BY <3>1, PowerOfWord DEF g
      <3>3. g = K * 1
        BY <3>1, <3>2
      <3> HIDE DEF K
      <3> QED BY <1>1, <1>2, <3>3 DEF g
    <2> QED BY <2>1
  <1>4. k \in 1 .. WordBits - 2 /\ k \in Nat
    BY <1>1, <1>2, <1>3
  <1>5. j \in Nat /\ j \in 0 .. WordBits - 1 /\ j + 1 = k
    BY <1>2, <1>4
  <1> HIDE DEF j
  <1>6. 2 ^ j \in Nat \ {0} /\ 2 ^ k = 2 * 2 ^ j
    <2>1. 2 ^ j \in Nat /\ 2 ^ j > 0 /\ 2 ^ (j + 1) = 2 * 2 ^ j
      BY <1>5, PowerDoubles
    <2> QED BY <1>5, <2>1
  <1>7. 2 * K <= g
    <2>1. k + 1 \in 0 .. WordBits - 1
      BY <1>2, <1>4
    <2>2. 2 ^ (k + 1) \in 1 .. g
      BY <2>1, PowerOfWord DEF g
    <2>3. 2 ^ (k + 1) = 2 * K
      BY <1>4, PowerDoubles
    <2> QED BY <1>2, <2>2, <2>3
  <1> QED BY <1>1, <1>4, <1>5, <1>6, <1>7 DEF k, j, g

\* The magic numbers, for half the power and for the whole of it.
SignedShort(m, k, d, e) ==
    /\ m \in Nat \ {0} /\ m < Base \div 2 /\ e \in Nat \ {0} /\ e <= m
    /\ m * d = 2 ^ (k - 1) * Base + e /\ e < 2 ^ k
SignedLong(m, k, d, e) ==
    /\ m \in Nat \ {0} /\ Base \div 2 < m /\ m < Base /\ e \in Nat \ {0} /\ e <= m
    /\ m * d = 2 ^ k * Base + e /\ e < 2 * 2 ^ k

\* The magic number for half the power fits when the error is small.
LEMMA SignedShortMagic ==
  ASSUME NEW k \in Nat, NEW d \in Nat \ {0}, NEW m, NEW e, NEW n,
         2 ^ (k - 1) \in Nat \ {0}, 2 ^ k = 2 * 2 ^ (k - 1), 2 ^ k < d, d < 2 * 2 ^ k,
         2 * 2 ^ k <= Base \div 2,
         n = 2 ^ (k - 1) * Base, e = d - (n % d), m = n \div d + 1, e < 2 ^ k
  PROVE  SignedShort(m, k, d, e)
  <1> DEFINE K == 2 ^ k
             J == 2 ^ (k - 1)
             g == Base \div 2
             h == Half \div 2
             c == h * h
  <1>1. Base \in Nat \ {0} /\ g \in Nat \ {0} /\ Base = 2 * g
    BY WordSizes
  <1>2. J \in Nat \ {0} /\ K = 2 * J /\ K < d /\ d < 2 * K /\ 2 * K <= g /\ n = J * Base /\ e < K
    OBVIOUS
  <1>3. c \in Nat /\ g = 2 * c
    <2>1. h \in Nat /\ Half = 2 * h /\ Base = Half * Half
      BY WordSizes
    <2> HIDE DEF h, g
    <2>2. Base = 4 * (h * h)
      BY <2>1
    <2>3. c \in Nat
      BY <2>1
    <2> HIDE DEF c
    <2>4. 2 * g = 4 * c
      BY <1>1, <2>2 DEF c
    <2> QED BY <1>1, <2>3, <2>4
  <1> HIDE DEF K, J, g, c
  <1>4. n \in Nat
    BY <1>1, <1>2
  <1>5. m * d = n + e /\ m \in Nat \ {0} /\ e \in 1 .. d
    BY <1>4, RoundedUp
  <1>6. e \in Nat \ {0} /\ e < g
    BY <1>1, <1>2, <1>5
  <1>7. n = K * g
    BY <1>1, <1>2
  <1>8. m < g
    <2>1. m * d = K * g + e /\ K \in Nat
      BY <1>2, <1>5, <1>7
    <2> QED BY <1>1, <1>2, <1>5, <1>6, <2>1, FactorBelow
  <1>9. c < m
    <2> DEFINE l == 2 * K
    <2>1. l * c = K * g /\ l \in Nat /\ d < l
      BY <1>2, <1>3
    <2>2. m * d = l * c + e /\ c \in Nat \ {0}
      BY <1>1, <1>3, <1>5, <1>7, <2>1
    <2> HIDE DEF l
    <2> QED BY <1>5, <1>6, <2>1, <2>2, FactorAbove
  <1>10. e <= m
    BY <1>2, <1>3, <1>5, <1>9
  <1> QED BY <1>2, <1>5, <1>6, <1>8, <1>10 DEF SignedShort, K, J, g

\* The one for the power itself is more than half a word.
LEMMA SignedLongMagic ==
  ASSUME NEW k \in Nat, NEW d \in Nat \ {0}, NEW m, NEW e, NEW n,
         2 ^ k \in Nat \ {0}, 2 ^ k < d, d < 2 * 2 ^ k, 2 * 2 ^ k <= Base \div 2,
         n = 2 ^ k * Base, e = d - (n % d), m = n \div d + 1
  PROVE  SignedLong(m, k, d, e)
  <1> DEFINE K == 2 ^ k
             g == Base \div 2
  <1>1. Base \in Nat \ {0} /\ g \in Nat \ {0} /\ Base = 2 * g
    BY WordSizes
  <1>2. K \in Nat \ {0} /\ K < d /\ d < 2 * K /\ 2 * K <= g /\ n = K * Base
    OBVIOUS
  <1> HIDE DEF K, g
  <1>4. n \in Nat
    BY <1>1, <1>2
  <1>5. m * d = n + e /\ m \in Nat \ {0} /\ e \in 1 .. d
    BY <1>4, RoundedUp
  <1>6. e \in Nat \ {0} /\ e < Base /\ e < 2 * K
    BY <1>1, <1>2, <1>5
  <1>8. m < Base
    <2>1. m * d = K * Base + e /\ K \in Nat
      BY <1>2, <1>5
    <2> QED BY <1>1, <1>2, <1>5, <1>6, <2>1, FactorBelow
  <1>9. g < m
    <2> DEFINE l == 2 * K
    <2>1. l * g = K * Base /\ l \in Nat /\ d < l
      BY <1>1, <1>2
    <2>2. m * d = l * g + e
      BY <1>2, <1>5, <2>1
    <2> HIDE DEF l
    <2> QED BY <1>1, <1>5, <1>6, <2>1, <2>2, FactorAbove
  <1>10. e <= m
    BY <1>1, <1>2, <1>5, <1>6, <1>9
  <1> QED BY <1>2, <1>5, <1>6, <1>8, <1>9, <1>10 DEF SignedLong, K, g

\* The dividers of a power of two, with a short and with a long magic number.
SignedPowerDivider(den, d, k) ==
    /\ den.magic = 0 /\ den.shift = k /\ ~den.add /\ den.shiftPath
    /\ den.negative <=> d < 0
    /\ k \in 0 .. WordBits - 1 /\ (d = 2 ^ k \/ d = -(2 ^ k))
SignedShortDivider(den, d, m, k, e) ==
    /\ den.magic = (IF d < 0 THEN -m ELSE m) /\ den.shift = k - 1 /\ ~den.add /\ ~den.shiftPath
    /\ den.negative <=> d < 0
    /\ k - 1 \in 0 .. WordBits - 1 /\ k \in Nat /\ SignedShort(m, k, Size(d), e)
SignedLongDivider(den, d, branchfree, m, k, e) ==
    /\ den.magic = (IF d < 0 /\ ~branchfree THEN Base - m ELSE m - Base) /\ den.shift = k
    /\ den.add /\ ~den.shiftPath
    /\ den.negative <=> d < 0
    /\ k \in 0 .. WordBits - 1 /\ k \in Nat /\ SignedLong(m, k, Size(d), e)

\* What gen makes of a signed divisor: both kinds agree.
LEMMA SignedGenIs ==
  ASSUME NEW d \in SignedWords \ {0}, NEW branchfree \in BOOLEAN
  PROVE  /\ S64Gen(d, branchfree) = S32Gen(d, branchfree)
         /\ \/ SignedPowerDivider(S32Gen(d, branchfree), d, FloorLog2(Size(d)))
            \/ ~branchfree /\ \E m, e :
                   SignedShortDivider(S32Gen(d, branchfree), d, m, FloorLog2(Size(d)), e)
            \/ \E m, e :
                   SignedLongDivider(S32Gen(d, branchfree), d, branchfree, m, FloorLog2(Size(d)), e)
  <1> DEFINE D == Size(d)
             k == FloorLog2(D)
             K == 2 ^ k
             J == 2 ^ (k - 1)
             n == J * Base
             q == n \div D
             r == n % D
             fits == ~branchfree /\ D - r < K
             sm == Signed(1 + (IF fits THEN q ELSE Doubled(q, r, D)))
             Gen == S32Gen(d, branchfree)
  <1>1. /\ D \in 1 .. Base - 1 /\ D \in Nat \ {0} /\ D <= Base \div 2 /\ Word(D) = D /\ D \in Words
        /\ (d < 0 => d = -D) /\ (d > 0 => d = D) /\ (d < 0 \/ d > 0)
    BY SizeIs
  <1>2. /\ Base \in Nat \ {0} /\ Base \div 2 \in Nat /\ Base \div 2 >= 2 /\ Base = 2 * (Base \div 2)
        /\ WordBits \in Nat /\ WordBits >= 2 /\ d \in Int
    BY SignedNumbers
  <1>0. Word(IF d < 0 THEN -d ELSE d) = D
    BY <1>1 DEF Size
  <1> HIDE DEF D
  <1>3. CASE IsPowerOf2(D)
    <2>1. /\ Gen = [magic |-> 0, shift |-> k, add |-> FALSE, negative |-> d < 0, shiftPath |-> TRUE]
          /\ S64Gen(d, branchfree)
               = [magic |-> 0, shift |-> k, add |-> FALSE, negative |-> d < 0, shiftPath |-> TRUE]
      BY <1>0, <1>3 DEF S32Gen, S64Gen, SignedGen
    <2>2. /\ Gen.magic = 0 /\ Gen.shift = k /\ ~Gen.add /\ Gen.shiftPath /\ (Gen.negative <=> d < 0)
          /\ S64Gen(d, branchfree) = Gen
      <3> HIDE DEF Gen, k
      <3> QED BY <2>1
    <2>3. k \in 0 .. WordBits - 1 /\ D = 2 ^ k
      BY <1>1, <1>3, Logarithm DEF IsPowerOf2
    <2>4. SignedPowerDivider(Gen, d, k)
      <3> HIDE DEF Gen, k
      <3> QED BY <1>1, <2>2, <2>3 DEF SignedPowerDivider
    <2> QED BY <2>2, <2>4 DEF D
  <1>4. CASE ~IsPowerOf2(D)
    <2>1. /\ k \in 1 .. WordBits - 2 /\ k - 1 \in 0 .. WordBits - 1 /\ k \in Nat /\ k - 1 \in Nat
          /\ J \in Nat \ {0} /\ K = 2 * J /\ K < D /\ D < 2 * K /\ 2 * K <= Base \div 2
      BY <1>1, <1>4, SignedBetween
    <2>2. /\ Div(J, 0, D) = [quot |-> q, rem |-> r] /\ q \in Words
          /\ DivHalves(J, 0, D) = Div(J, 0, D)
      <3>1. J \in Nat /\ J < D
        BY <1>1, <2>1
      <3> HIDE DEF J
      <3> QED BY <1>1, <3>1, DivIs, DivHalvesIs
    <2>3. n \in Nat
      BY <1>2, <2>1
    <2>4. /\ Gen = [magic |-> IF d < 0 /\ ~branchfree THEN Signed(-sm) ELSE sm,
                    shift |-> IF fits THEN k - 1 ELSE k, add |-> ~fits,
                    negative |-> d < 0, shiftPath |-> FALSE]
          /\ S64Gen(d, branchfree) = Gen
      <3>1. Div(J, 0, D).quot = q /\ Div(J, 0, D).rem = r
        BY <2>2
      <3>2. DivHalves(J, 0, D).quot = q /\ DivHalves(J, 0, D).rem = r
        BY <2>2
      <3> HIDE DEF q, r
      <3>3. Gen = [magic |-> IF d < 0 /\ ~branchfree THEN Signed(-sm) ELSE sm,
                    shift |-> IF fits THEN k - 1 ELSE k, add |-> ~fits,
                    negative |-> d < 0, shiftPath |-> FALSE]
        BY <1>0, <1>4, <3>1 DEF S32Gen, SignedGen
      <3>4. S64Gen(d, branchfree)
              = [magic |-> IF d < 0 /\ ~branchfree THEN Signed(-sm) ELSE sm,
                    shift |-> IF fits THEN k - 1 ELSE k, add |-> ~fits,
                    negative |-> d < 0, shiftPath |-> FALSE]
        BY <1>0, <1>4, <3>2 DEF S64Gen, SignedGen
      <3> QED BY <3>3, <3>4
    <2> HIDE DEF Gen
    <2>5. /\ Gen.magic = (IF d < 0 /\ ~branchfree THEN Signed(-sm) ELSE sm)
          /\ Gen.shift = (IF fits THEN k - 1 ELSE k) /\ (Gen.add <=> ~fits)
          /\ (Gen.negative <=> d < 0) /\ ~Gen.shiftPath
      <3>1. fits \in BOOLEAN
        OBVIOUS
      <3> HIDE DEF sm, fits, k
      <3>2. /\ Gen.magic = (IF d < 0 /\ ~branchfree THEN Signed(-sm) ELSE sm)
            /\ Gen.shift = (IF fits THEN k - 1 ELSE k)
        BY <2>4
      <3>3. Gen.add = ~fits /\ Gen.negative = (d < 0) /\ Gen.shiftPath = FALSE
        BY <2>4
      <3>4. Gen.add <=> ~fits
        BY <3>1, <3>3
      <3>5. (Gen.negative <=> d < 0) /\ ~Gen.shiftPath
        BY <3>3
      <3> QED BY <3>2, <3>4, <3>5
    <2>6. CASE fits
      <3> DEFINE m == q + 1
                 e == D - r
      <3>1. SignedShort(m, k, D, e)
        BY <1>1, <2>1, <2>6, SignedShortMagic
      <3>2. m \in Nat \ {0} /\ m < Base \div 2
        BY <3>1 DEF SignedShort
      <3>3. 1 + q = m
        BY <1>2, <2>2 DEF Words
      <3> HIDE DEF m
      <3>4. m \in SignedWords /\ -m \in SignedWords
        BY <1>2, <3>2, SignedNumbers
      <3>5. Signed(m) = m /\ Signed(-m) = -m
        BY <3>4, SignedIs
      <3>6. sm = m
        BY <2>6, <3>3, <3>5
      <3> HIDE DEF sm, e, k
      <3>7. Gen.magic = IF d < 0 THEN -m ELSE m
        BY <2>5, <2>6, <3>5, <3>6
      <3>8. SignedShortDivider(Gen, d, m, k, e)
        BY <2>1, <2>5, <2>6, <3>1, <3>7 DEF SignedShortDivider, D
      <3>9. \E x, y : SignedShortDivider(Gen, d, x, k, y)
        BY <3>8
      <3> QED BY <2>4, <2>6, <3>9 DEF Gen, k, D
    <2>7. CASE ~fits
      <3> DEFINE nn == 2 * n
                 kb == K * Base
                 m == kb \div D + 1
                 e == D - (kb % D)
      <3>1. nn = kb
        BY <1>2, <2>1
      <3>2. SignedLong(m, k, D, e)
        <4>1. K \in Nat \ {0}
          BY <2>1
        <4> QED BY <1>1, <2>1, <4>1, SignedLongMagic
      <3>3. m \in Nat \ {0} /\ Base \div 2 < m /\ m < Base
        BY <3>2 DEF SignedLong
      <3> HIDE DEF e
      <3>4. Word(1 + Doubled(q, r, D)) = m
        <4>1. Word(1 + Doubled(n \div D, n % D, D)) = Word((2 * n) \div D + 1)
          <5>1. D > 0
            BY <1>1
          <5> HIDE DEF n, k, q, r, nn, m, kb, fits, sm
          <5> QED BY <1>1, <2>3, <5>1, DoubledIs
        <4>2. m \in Words
          BY <1>2, <3>3 DEF Words
        <4>3. (2 * n) \div D + 1 = m
          BY <3>1
        <4>4. Word(m) = m
          BY <4>2, WordIs
        <4> QED BY <4>1, <4>3, <4>4
      <3> HIDE DEF m
      <3>5. Signed(1 + Doubled(q, r, D)) = m - Base
        <4>1. ~(m < Base \div 2)
          BY <1>2, <3>3
        <4> HIDE DEF q, r
        <4> QED BY <3>4, <4>1 DEF Signed, Word
      <3>6. sm = m - Base
        BY <2>7, <3>5
      <3>7. Signed(-(m - Base)) = Base - m
        <4>1. Base - m \in SignedWords
          BY <1>2, <3>3, SignedNumbers
        <4>2. -(m - Base) = Base - m
          BY <1>2, <3>3
        <4> QED BY <4>1, <4>2, SignedIs
      <3> HIDE DEF sm, k
      <3>8. Gen.magic = IF d < 0 /\ ~branchfree THEN Base - m ELSE m - Base
        BY <2>5, <3>6, <3>7
      <3>9. k \in 0 .. WordBits - 1
        BY <1>2, <2>1
      <3>10. SignedLongDivider(Gen, d, branchfree, m, k, e)
        BY <2>1, <2>5, <2>7, <3>2, <3>8, <3>9 DEF SignedLongDivider, D
      <3>11. \E x, y : SignedLongDivider(Gen, d, branchfree, x, k, y)
        BY <3>10
      <3> QED BY <2>4, <3>11 DEF Gen, k, D
    <2> QED BY <2>6, <2>7
  <1> QED BY <1>3, <1>4

\* The product with a magic number, shifted and raised, is the quotient.
LEMMA SignedProduct ==
  ASSUME NEW m \in Nat \ {0}, m < Base, NEW k \in 0 .. WordBits - 1, NEW d \in Nat \ {0},
         NEW e \in Nat \ {0}, m * d = 2 ^ k * Base + e, e < 2 * 2 ^ k,
         NEW n \in Int, -(Base \div 2) <= n, n <= Base \div 2
  PROVE  LET x == (m * n) \div Base
         IN  /\ x \in SignedWords
             /\ TowardsZero(x \div 2 ^ k) = Quotient(n, d)
             /\ x \div 2 ^ k \in Int /\ (x \div 2 ^ k < 0 <=> n < 0)
             /\ x < 0 <=> n < 0
  <1> DEFINE g == Base \div 2
             K == 2 ^ k
             p == K * Base
             mn == m * n
             x == mn \div Base
  <1>1. Base \in Nat \ {0} /\ g \in Nat /\ g >= 2 /\ Base = 2 * g /\ -g <= n /\ n <= g
    BY SignedNumbers
  <1>2. K \in Nat \ {0}
    <2>1. k \in Nat
      BY SignedNumbers
    <2> QED BY <2>1, PowerDoubles
  <1>3. m * d = p + e /\ e < 2 * K
    OBVIOUS
  <1> HIDE DEF g, K
  <1>4. n * e < p /\ (-n) * e < p
    <2> DEFINE kk == 2 * K
    <2>1. kk \in Nat \ {0} /\ e < kk /\ g * kk = p
      BY <1>1, <1>2, <1>3
    <2> HIDE DEF kk
    <2>2. g * e < g * kk
      <3>1. e * g < kk * g
        BY <1>1, <2>1, TimesLess
      <3> QED BY <1>1, <2>1, <3>1
    <2>3. n * e <= g * e /\ (-n) * e <= g * e
      BY <1>1
    <2>4. n * e \in Int /\ (-n) * e \in Int /\ g * e \in Int /\ g * kk \in Int
      BY <1>1, <2>1
    <2> HIDE DEF p
    <2> QED BY <2>1, <2>2, <2>3, <2>4
  <1>5. p \in Nat \ {0} /\ mn \in Int
    BY <1>1, <1>2
  <1>6. TowardsZero(mn \div p) = Quotient(n, d) /\ (mn \div p < 0 <=> n < 0)
    <2> HIDE DEF p
    <2> QED BY <1>3, <1>4, <1>5, MagicQuotientToZero
  <1>7. x \div K = mn \div p
    <2>1. Base * K = p
      BY <1>1, <1>2
    <2>2. (mn \div Base) \div K = mn \div (Base * K)
      <3> HIDE DEF mn
      <3> QED BY <1>1, <1>2, <1>5, DividedTwice
    <2> QED BY <2>1, <2>2
  <1>8. x \in Int
    <2> HIDE DEF mn
    <2> QED BY <1>1, <1>5, Division
  <1>9. x < 0 <=> n < 0
    <2>1. (mn < 0 * Base) <=> (x < 0)
      <3> HIDE DEF mn
      <3> QED BY <1>1, <1>5, QuotientBounds
    <2>2. mn < 0 <=> n < 0
      <3>1. CASE n < 0
        <4>1. m * n < 0
          BY <3>1
        <4> QED BY <3>1, <4>1
      <3>2. CASE n >= 0
        <4>1. m * n >= 0
          BY <3>2
        <4> QED BY <1>5, <3>2, <4>1
      <3> QED BY <3>1, <3>2
    <2>3. 0 * Base = 0
      BY <1>1
    <2> QED BY <2>1, <2>2, <2>3
  <1>10. -g <= x
    <2>1. (-g) * Base <= mn
      <3>1. CASE n >= 0
        <4>1. m * n >= 0 /\ (-g) * Base <= 0
          BY <1>1, <3>1
        <4> QED BY <1>1, <1>5, <4>1
      <3>2. CASE n < 0
        <4>1. (-n) * m <= (-n) * Base /\ (-n) * Base <= g * Base
          BY <1>1, <3>2
        <4>2. (-n) * m = -mn /\ (-g) * Base = -(g * Base)
          BY <1>1
        <4>3. (-n) * Base \in Int /\ g * Base \in Int
          BY <1>1
        <4> QED BY <1>5, <4>1, <4>2, <4>3
      <3> QED BY <3>1, <3>2
    <2>2. -g \in Int
      BY <1>1
    <2> HIDE DEF mn
    <2> QED BY <1>1, <1>5, <2>1, <2>2, QuotientBounds
  <1>11. x < g
    <2>1. mn < g * Base
      <3>1. CASE n > 0
        <4>1. n * m < n * Base
          <5>1. m * n < Base * n
            BY <1>1, <3>1, TimesLess
          <5> QED BY <1>1, <5>1
        <4>2. n * Base <= g * Base
          BY <1>1
        <4>3. n * m = mn /\ n * Base \in Int /\ g * Base \in Int
          BY <1>1
        <4> HIDE DEF mn
        <4> QED BY <1>5, <4>1, <4>2, <4>3
      <3>2. CASE n <= 0
        <4>1. m * n <= 0 /\ g * Base > 0
          BY <1>1, <3>2
        <4> QED BY <1>1, <1>5, <4>1
      <3> QED BY <3>1, <3>2
    <2> HIDE DEF mn
    <2> QED BY <1>1, <1>5, <2>1, QuotientBounds
  <1>12. x \in SignedWords
    <2> HIDE DEF x
    <2> QED BY <1>8, <1>10, <1>11, SignedNumbers DEF g
  <1>13. x \div K \in Int
    <2> HIDE DEF x
    <2> QED BY <1>2, <1>8, Division
  <1> QED BY <1>6, <1>7, <1>9, <1>12, <1>13 DEF K

\* A dividend with the sign of the divisor.
With(d, n) == IF d < 0 THEN -n ELSE n

\* Its quotient by the size is the quotient.
LEMMA WithIs ==
  ASSUME NEW d \in SignedWords \ {0}, NEW n \in SignedWords
  PROVE  /\ With(d, n) \in Int /\ -(Base \div 2) <= With(d, n) /\ With(d, n) <= Base \div 2
         /\ Quotient(With(d, n), Size(d)) = Quotient(n, d)
         /\ d < 0 => With(d, n) = -n
         /\ d > 0 => With(d, n) = n
         /\ n \in Int
  <1> DEFINE g == Base \div 2
             D == Size(d)
  <1>1. g \in Nat /\ -g <= n /\ n < g /\ n \in Int
    BY SignedNumbers
  <1>2. D \in Nat \ {0} /\ (d < 0 => d = -D) /\ (d > 0 => d = D) /\ (d < 0 \/ d > 0)
    BY SizeIs
  <1> HIDE DEF g, D
  <1>3. CASE d < 0
    <2>1. With(d, n) = -n
      BY <1>3 DEF With
    <2>2. Quotient(n, -D) = -Quotient(n, D) /\ Quotient(-n, D) = -Quotient(n, D)
      BY <1>1, <1>2, QuotientIs
    <2>3. ~(d > 0) /\ -n \in Int /\ -g <= -n /\ -n <= g
      BY <1>1, <1>2, <1>3
    <2> QED BY <1>1, <1>2, <1>3, <2>1, <2>2, <2>3 DEF D, g
  <1>4. CASE d > 0
    <2>1. d = D
      BY <1>2, <1>4
    <2>2. ~(d < 0)
      BY <1>2, <2>1
    <2>3. With(d, n) = n
      BY <2>2 DEF With
    <2>4. n <= g
      BY <1>1
    <2> QED BY <1>1, <2>1, <2>2, <2>3, <2>4 DEF D, g
  <1> QED BY <1>2, <1>3, <1>4

\* The algorithm without an addition gives the quotient.
LEMMA SignedShortDivides ==
  ASSUME NEW d \in SignedWords \ {0}, NEW den, NEW m, NEW k, NEW e,
         SignedShortDivider(den, d, m, k, e), NEW n \in SignedWords
  PROVE  LET q == (den.magic * n) \div Base
         IN  /\ den.magic \in SignedWords /\ den.magic # 0 /\ den.shift \in 0 .. WordBits - 1
             /\ SignedByMagic(n, q, den, ShiftRight) = Quotient(n, d)
             /\ SignedByMagic(n, q, den, ShiftRightFlat) = Quotient(n, d)
  <1> DEFINE D == Size(d)
             j == k - 1
             x == With(d, n)
             y == (m * x) \div Base
  <1>1. /\ den.magic = (IF d < 0 THEN -m ELSE m) /\ den.shift = j /\ ~den.add
        /\ j \in 0 .. WordBits - 1 /\ k \in Nat
        /\ m \in Nat \ {0} /\ m < Base \div 2 /\ e \in Nat \ {0}
        /\ m * D = 2 ^ j * Base + e /\ e < 2 ^ k
    BY DEF SignedShortDivider, SignedShort
  <1>2. Base \div 2 \in Nat /\ Base = 2 * (Base \div 2)
    BY SignedNumbers
  <1>3. 2 ^ k = 2 * 2 ^ j
    <2>1. j \in Nat /\ j + 1 = k
      BY <1>1, SignedNumbers
    <2> HIDE DEF j
    <2>2. 2 ^ (j + 1) = 2 * 2 ^ j
      BY <2>1, PowerDoubles
    <2> QED BY <2>1, <2>2
  <1>4. D \in Nat \ {0} /\ (d < 0 \/ d > 0) /\ (d > 0 => d = D)
    BY SizeIs
  <1>5. /\ x \in Int /\ -(Base \div 2) <= x /\ x <= Base \div 2 /\ Quotient(x, D) = Quotient(n, d)
        /\ (d < 0 => x = -n) /\ (d > 0 => x = n) /\ n \in Int
    BY WithIs
  <1> HIDE DEF D, j, x
  <1>6. m < Base
    BY <1>1, <1>2
  <1>7. y \in SignedWords /\ TowardsZero(y \div 2 ^ j) = Quotient(x, D)
    BY <1>1, <1>3, <1>4, <1>5, <1>6, SignedProduct
  <1> HIDE DEF y
  <1>8. (den.magic * n) \div Base = y
    <2>1. den.magic * n = m * x
      <3>1. CASE d < 0
        BY <1>1, <1>5, <3>1
      <3>2. CASE d > 0
        <4>1. ~(d < 0)
          BY <1>4, <3>2
        <4> QED BY <1>1, <1>5, <3>2, <4>1
      <3> QED BY <1>4, <3>1, <3>2
    <2> QED BY <2>1 DEF y
  <1>9. den.magic \in SignedWords /\ den.magic # 0
    <2>1. -m \in Int /\ m \in Int /\ -(Base \div 2) <= -m /\ -m < Base \div 2 /\ -(Base \div 2) <= m
          /\ m # 0 /\ -m # 0
      BY <1>1, <1>2
    <2>2. m \in SignedWords /\ -m \in SignedWords
      BY <1>1, <2>1, SignedNumbers
    <2> QED BY <1>1, <2>1, <2>2
  <1>10. ShiftRight(y, j) = y \div 2 ^ j /\ ShiftRightFlat(y, j) = y \div 2 ^ j
    BY <1>1, <1>7, ShiftedFlat DEF ShiftRight
  <1>11. /\ SignedByMagic(n, y, den, ShiftRight) = Quotient(n, d)
         /\ SignedByMagic(n, y, den, ShiftRightFlat) = Quotient(n, d)
    BY <1>1, <1>5, <1>7, <1>10 DEF SignedByMagic
  <1> QED BY <1>1, <1>8, <1>9, <1>11

\* The algorithms that add and subtract the numerator give the quotient.
LEMMA SignedLongDivides ==
  ASSUME NEW d \in SignedWords \ {0}, NEW den, NEW m, NEW k, NEW e,
         SignedLongDivider(den, d, FALSE, m, k, e), NEW n \in SignedWords
  PROVE  LET q == (den.magic * n) \div Base
         IN  /\ den.magic \in SignedWords /\ den.magic # 0 /\ den.shift \in 0 .. WordBits - 1
             /\ SignedByMagic(n, q, den, ShiftRight) = Quotient(n, d)
             /\ SignedByMagic(n, q, den, ShiftRightFlat) = Quotient(n, d)
             /\ Signed(IF d < 0 THEN q - n ELSE q + n) \in SignedWords
  <1> DEFINE D == Size(d)
             x == With(d, n)
             y == (m * x) \div Base
             q == (den.magic * n) \div Base
  <1>1. /\ den.magic = (IF d < 0 THEN Base - m ELSE m - Base) /\ den.shift = k /\ den.add
        /\ (den.negative <=> d < 0)
        /\ k \in 0 .. WordBits - 1
        /\ m \in Nat \ {0} /\ Base \div 2 < m /\ m < Base /\ e \in Nat \ {0}
        /\ m * D = 2 ^ k * Base + e /\ e < 2 * 2 ^ k
    BY DEF SignedLongDivider, SignedLong
  <1>2. Base \div 2 \in Nat /\ Base = 2 * (Base \div 2) /\ Base \in Nat \ {0}
    BY SignedNumbers
  <1>4. D \in Nat \ {0} /\ (d < 0 \/ d > 0) /\ (d > 0 => d = D)
    BY SizeIs
  <1>5. /\ x \in Int /\ -(Base \div 2) <= x /\ x <= Base \div 2 /\ Quotient(x, D) = Quotient(n, d)
        /\ (d < 0 => x = -n) /\ (d > 0 => x = n) /\ n \in Int
    BY WithIs
  <1> HIDE DEF D, x
  <1>7. y \in SignedWords /\ TowardsZero(y \div 2 ^ k) = Quotient(x, D)
    BY <1>1, <1>4, <1>5, SignedProduct
  <1>70. d > 0 => ~(d < 0)
    BY <1>4
  <1>8. q = y - x
    <2> DEFINE mx == m * x
    <2>0. mx \in Int /\ -x \in Int
      BY <1>1, <1>5
    <2>1. den.magic * n = mx + (-x) * Base
      <3>1. CASE d < 0
        <4>1. (Base - m) * n = m * (-n) + n * Base
          BY <1>1, <1>2, <1>5
        <4>2. -(-n) = n
          BY <1>5
        <4> QED BY <1>1, <1>5, <3>1, <4>1, <4>2
      <3>2. CASE d > 0
        <4>1. (m - Base) * n = m * n + (-n) * Base
          BY <1>1, <1>2, <1>5
        <4> QED BY <1>1, <1>5, <1>70, <3>2, <4>1
      <3> QED BY <1>4, <3>1, <3>2
    <2>2. (mx + (-x) * Base) \div Base = mx \div Base + (-x)
      <3> HIDE DEF mx
      <3> QED BY <1>2, <2>0, QuotientPlus
    <2>3. y \in Int
      BY <1>7, SignedNumbers
    <2> HIDE DEF mx
    <2>4. y = mx \div Base
      BY DEF mx
    <2> HIDE DEF y
    <2> QED BY <1>5, <2>1, <2>2, <2>3, <2>4
  <1> HIDE DEF y, q
  <1>80. y \in Int
    BY <1>7, SignedNumbers
  <1>81. (IF d < 0 THEN q - n ELSE q + n) = y
    <2>1. CASE d < 0
      BY <1>5, <1>8, <1>80, <2>1
    <2>2. CASE d > 0
      BY <1>5, <1>8, <1>70, <1>80, <2>2
    <2> QED BY <1>4, <2>1, <2>2
  <1>82. Signed(y) = y
    BY <1>7, SignedIs
  <1>9. den.magic \in SignedWords /\ den.magic # 0
    <2>1. /\ Base - m \in Int /\ -(Base \div 2) <= Base - m /\ Base - m < Base \div 2 /\ Base - m # 0
          /\ m - Base \in Int /\ -(Base \div 2) <= m - Base /\ m - Base < Base \div 2 /\ m - Base # 0
      BY <1>1, <1>2
    <2>2. Base - m \in SignedWords /\ m - Base \in SignedWords
      BY <2>1, SignedNumbers
    <2> QED BY <1>1, <2>1, <2>2
  <1>10. ShiftRight(y, k) = y \div 2 ^ k /\ ShiftRightFlat(y, k) = y \div 2 ^ k
    BY <1>1, <1>7, ShiftedFlat DEF ShiftRight
  <1>11. /\ SignedByMagic(n, q, den, ShiftRight) = Quotient(n, d)
         /\ SignedByMagic(n, q, den, ShiftRightFlat) = Quotient(n, d)
    <2>1. Signed(IF den.negative THEN q - n ELSE q + n) = y
      BY <1>1, <1>81, <1>82
    <2> QED BY <1>1, <1>5, <1>7, <1>10, <2>1 DEF SignedByMagic
  <1> QED BY <1>1, <1>7, <1>9, <1>11, <1>81, <1>82 DEF q

\* The branch-free algorithm with a magic number: what is negative is raised
\* before the shift, so that it need not be afterwards.
LEMMA BranchfreeDivides ==
  ASSUME NEW d \in SignedWords \ {0}, NEW den, NEW m, NEW k, NEW e,
         SignedLongDivider(den, d, TRUE, m, k, e), NEW n \in SignedWords,
         NEW isPowerOf2, ~isPowerOf2
  PROVE  LET q == (den.magic * n) \div Base
         IN  /\ den.magic \in SignedWords /\ den.magic # 0
             /\ SignedBranchfree(n, q, isPowerOf2, den, ShiftRight) = Quotient(n, d)
             /\ SignedBranchfree(n, q, isPowerOf2, den, ShiftRightFlat) = Quotient(n, d)
  <1> DEFINE D == Size(d)
             g == Base \div 2
             K == 2 ^ k
             mn == m * n
             x == mn \div Base
             y == x \div K
             q == (den.magic * n) \div Base
             t == Quotient(n, D)
             r == x + (IF x < 0 THEN K ELSE 0)
  <1>1. /\ den.magic = m - Base /\ den.shift = k /\ (den.negative <=> d < 0)
        /\ k \in 0 .. WordBits - 1
        /\ m \in Nat \ {0} /\ g < m /\ m < Base /\ e \in Nat \ {0}
        /\ m * D = 2 ^ k * Base + e /\ e < 2 * 2 ^ k
    BY DEF SignedLongDivider, SignedLong
  <1>2. g \in Nat /\ Base = 2 * g /\ Base \in Nat \ {0} /\ n \in Int /\ -g <= n /\ n <= g
    BY SignedNumbers
  <1>3. D \in Nat \ {0} /\ (d < 0 => d = -D) /\ (d > 0 => d = D) /\ (d < 0 \/ d > 0)
    BY SizeIs
  <1>4. K \in Nat \ {0} /\ K <= g
    <2>1. K \in 1 .. g
      BY <1>1, PowerOfWord
    <2> HIDE DEF K, g
    <2> QED BY <1>2, <2>1
  <1> HIDE DEF D
  <1>5. x \in SignedWords /\ TowardsZero(y) = t /\ y \in Int /\ (y < 0 <=> n < 0) /\ (x < 0 <=> n < 0)
    <2>1. /\ (m * n) \div Base \in SignedWords
          /\ TowardsZero(((m * n) \div Base) \div 2 ^ k) = Quotient(n, D)
          /\ ((m * n) \div Base) \div 2 ^ k \in Int
          /\ ((m * n) \div Base) \div 2 ^ k < 0 <=> n < 0
          /\ (m * n) \div Base < 0 <=> n < 0
      <3>1. /\ m \in Nat \ {0} /\ m < Base /\ k \in 0 .. WordBits - 1 /\ D \in Nat \ {0}
            /\ e \in Nat \ {0} /\ m * D = 2 ^ k * Base + e /\ e < 2 * 2 ^ k
            /\ n \in Int /\ -(Base \div 2) <= n /\ n <= Base \div 2
        BY <1>1, <1>2, <1>3
      <3> HIDE DEF g, K, mn, x, y, q, t, r
      <3> QED BY <3>1, SignedProduct
    <2> QED BY <2>1
  <1>6. x \in Int /\ -g <= x /\ x < g
    BY <1>5, SignedNumbers
  <1>7. q = x + (-n)
    <2>0. mn \in Int /\ -n \in Int
      BY <1>1, <1>2
    <2>1. (m - Base) * n = mn + (-n) * Base
      BY <1>1, <1>2
    <2>2. (mn + (-n) * Base) \div Base = mn \div Base + (-n)
      <3> HIDE DEF mn
      <3> QED BY <1>2, <2>0, QuotientPlus
    <2> QED BY <1>1, <2>1, <2>2
  <1>8. y \in SignedWords
    <2> HIDE DEF x
    <2> QED BY <1>1, <1>5, ShiftedFlat
  <1>9. -g <= y
    BY <1>8, SignedNumbers
  <1> HIDE DEF x, y, q, t
  <1>10. Signed(q + n) = x
    <2>1. q + n = x
      BY <1>2, <1>6, <1>7
    <2> QED BY <1>5, <2>1, SignedIs
  <1> HIDE DEF g, K
  <1>11. r \in SignedWords /\ Signed(r) = r
    <2>1. r \in Int /\ -g <= r /\ r < g
      BY <1>2, <1>4, <1>6
    <2> HIDE DEF r
    <2>2. r \in SignedWords
      BY <2>1, SignedNumbers DEF g
    <2> QED BY <2>2, SignedIs
  <1>12. r \div K = t
    <2>1. CASE x < 0
      <3>1. r = x + 1 * K
        BY <1>4, <2>1
      <3> HIDE DEF r
      <3>2. (x + 1 * K) \div K = x \div K + 1
        <4> DEFINE a == 1
        <4>1. a \in Int
          OBVIOUS
        <4> HIDE DEF a
        <4>2. (x + a * K) \div K = x \div K + a
          BY <1>4, <1>6, <4>1, QuotientPlus
        <4> QED BY <4>2 DEF a
      <3>3. t = y + 1
        BY <1>5, <2>1 DEF TowardsZero
      <3> QED BY <3>1, <3>2, <3>3 DEF y
    <2>2. CASE ~(x < 0)
      <3>1. r = x
        BY <1>6, <2>2
      <3>2. t = y
        BY <1>5, <2>2 DEF TowardsZero
      <3> QED BY <3>1, <3>2 DEF y
    <2> QED BY <2>1, <2>2
  <1> HIDE DEF r
  <1>13. ShiftRight(r, k) = t /\ ShiftRightFlat(r, k) = t
    BY <1>1, <1>11, <1>12, ShiftedFlat DEF ShiftRight, K
  <1>14. Negated(t, den.negative) = Quotient(n, d)
    <2>1. CASE d < 0
      <3>1. Quotient(n, -D) = -t
        BY <1>2, <1>3, QuotientIs DEF t
      <3>2. d = -D
        BY <1>3, <2>1
      <3>3. t \in Int /\ -g < t
        BY <1>2, <1>5, <1>9 DEF TowardsZero
      <3>4. t \in SignedWords
        BY <1>1, <1>11, <1>13, ShiftedFlat
      <3>5. t < g
        BY <3>4, SignedNumbers DEF g
      <3>6. -t \in Int /\ -g <= -t /\ -t < g
        BY <1>2, <3>3, <3>5
      <3>7. -t \in SignedWords
        BY <3>6, SignedNumbers DEF g
      <3>8. Signed(-t) = -t
        BY <3>7, SignedIs
      <3> QED BY <1>1, <2>1, <3>1, <3>2, <3>8 DEF Negated
    <2>2. CASE d > 0
      <3>1. d = D /\ ~(d < 0)
        BY <1>3, <2>2
      <3> QED BY <1>1, <3>1 DEF Negated, t
    <2> QED BY <1>3, <2>1, <2>2
  <1>15. /\ SignedBranchfree(n, q, isPowerOf2, den, ShiftRight) = Quotient(n, d)
         /\ SignedBranchfree(n, q, isPowerOf2, den, ShiftRightFlat) = Quotient(n, d)
    <2>1. x + (IF x < 0 THEN 2 ^ den.shift - (IF isPowerOf2 THEN 1 ELSE 0) ELSE 0) = r
      <3>1. 2 ^ den.shift - (IF isPowerOf2 THEN 1 ELSE 0) = K
        BY <1>1, <1>4 DEF K
      <3> QED BY <3>1 DEF r
    <2>2. Signed(x + (IF x < 0 THEN 2 ^ den.shift - (IF isPowerOf2 THEN 1 ELSE 0) ELSE 0)) = r
      BY <1>11, <2>1
    <2> QED BY <1>1, <1>10, <1>13, <1>14, <2>2 DEF SignedBranchfree
  <1>16. den.magic \in SignedWords /\ den.magic # 0
    <2>1. m - Base \in Int /\ -g <= m - Base /\ m - Base < g /\ m - Base # 0
      BY <1>1, <1>2
    <2>2. m - Base \in SignedWords
      BY <2>1, SignedNumbers DEF g
    <2> QED BY <1>1, <2>1, <2>2
  <1> QED BY <1>15, <1>16 DEF q

\* With a power of two it is the algorithm that shifts.
LEMMA BranchfreeShifts ==
  ASSUME NEW n \in SignedWords, NEW den, NEW isPowerOf2, isPowerOf2
  PROVE  /\ SignedBranchfree(n, 0, isPowerOf2, den, ShiftRight) = SignedByShift(n, den, ShiftRight)
         /\ SignedBranchfree(n, 0, isPowerOf2, den, ShiftRightFlat)
              = SignedByShift(n, den, ShiftRightFlat)
  <1>1. 0 + n = n /\ n \in Int
    BY SignedNumbers
  <1>2. Signed(0 + n) = n
    BY <1>1, SignedIs
  <1>3. Signed(n + (IF n < 0 THEN 2 ^ den.shift - (IF isPowerOf2 THEN 1 ELSE 0) ELSE 0))
          = Raised(n, den)
    BY DEF Raised
  <1> QED BY <1>2, <1>3 DEF SignedBranchfree, SignedByShift

\* What a divider gives: the shift where there is no magic number, the product
\* where there is one.
LEMMA SignedDividerDivides ==
  ASSUME NEW d \in SignedWords \ {0}, NEW n \in SignedWords, d = -1 => n # -(Base \div 2)
  PROVE  LET den == S32Gen(d, FALSE)
             q   == (den.magic * n) \div Base
         IN  /\ den.magic \in SignedWords /\ (den.shiftPath <=> den.magic = 0)
             /\ den.shiftPath => /\ SignedByShift(n, den, ShiftRight) = Quotient(n, d)
                                 /\ SignedByShift(n, den, ShiftRightFlat) = Quotient(n, d)
             /\ ~den.shiftPath => /\ SignedByMagic(n, q, den, ShiftRight) = Quotient(n, d)
                                  /\ SignedByMagic(n, q, den, ShiftRightFlat) = Quotient(n, d)
  <1> DEFINE den == S32Gen(d, FALSE)
             k == FloorLog2(Size(d))
             q == (den.magic * n) \div Base
  <1>1. \/ SignedPowerDivider(den, d, k)
        \/ \E m, e : SignedShortDivider(den, d, m, k, e)
        \/ \E m, e : SignedLongDivider(den, d, FALSE, m, k, e)
    <2>1. FALSE \in BOOLEAN
      OBVIOUS
    <2> QED BY <2>1, SignedGenIs
  <1> HIDE DEF den, k
  <1>2. CASE SignedPowerDivider(den, d, k)
    <2>1. den.magic = 0 /\ den.shift = k /\ den.shiftPath /\ (den.negative <=> d < 0)
          /\ k \in 0 .. WordBits - 1 /\ (d = 2 ^ k \/ d = -(2 ^ k))
      BY <1>2 DEF SignedPowerDivider
    <2>2. 0 \in SignedWords
      BY SignedNumbers
    <2>3. /\ SignedByShift(n, den, ShiftRight) = Quotient(n, d)
          /\ SignedByShift(n, den, ShiftRightFlat) = Quotient(n, d)
      BY <2>1, ShiftDivides
    <2> QED BY <2>1, <2>2, <2>3 DEF den
  <1>3. CASE \E m, e : SignedShortDivider(den, d, m, k, e)
    <2>1. PICK m, e : SignedShortDivider(den, d, m, k, e)
      BY <1>3
    <2>2. ~den.shiftPath
      BY <2>1 DEF SignedShortDivider
    <2>3. /\ den.magic \in SignedWords /\ den.magic # 0
          /\ SignedByMagic(n, q, den, ShiftRight) = Quotient(n, d)
          /\ SignedByMagic(n, q, den, ShiftRightFlat) = Quotient(n, d)
      BY <2>1, SignedShortDivides
    <2> QED BY <2>2, <2>3 DEF den
  <1>4. CASE \E m, e : SignedLongDivider(den, d, FALSE, m, k, e)
    <2>1. PICK m, e : SignedLongDivider(den, d, FALSE, m, k, e)
      BY <1>4
    <2>2. ~den.shiftPath
      BY <2>1 DEF SignedLongDivider
    <2>3. /\ den.magic \in SignedWords /\ den.magic # 0
          /\ SignedByMagic(n, q, den, ShiftRight) = Quotient(n, d)
          /\ SignedByMagic(n, q, den, ShiftRightFlat) = Quotient(n, d)
      BY <2>1, SignedLongDivides
    <2> QED BY <2>2, <2>3 DEF den
  <1> QED BY <1>1, <1>2, <1>3, <1>4

\* A branch-free divider, whichever way it is told to be of a power of two.
LEMMA BranchfreeDividerDivides ==
  ASSUME NEW d \in SignedWords \ {0}, d # -1, NEW n \in SignedWords
  PROVE  LET den == S32Gen(d, TRUE)
             q   == (den.magic * n) \div Base
         IN  /\ den.magic \in SignedWords
             /\ SignedBranchfree(n, q, den.shiftPath, den, ShiftRight) = Quotient(n, d)
             /\ SignedBranchfree(n, q, den.magic = 0, den, ShiftRight) = Quotient(n, d)
             /\ SignedBranchfree(n, q, den.magic = 0, den, ShiftRightFlat) = Quotient(n, d)
  <1> DEFINE den == S32Gen(d, TRUE)
             k == FloorLog2(Size(d))
             q == (den.magic * n) \div Base
  <1>1. \/ SignedPowerDivider(den, d, k)
        \/ \E m, e : SignedLongDivider(den, d, TRUE, m, k, e)
    <2>1. TRUE \in BOOLEAN
      OBVIOUS
    <2> QED BY <2>1, SignedGenIs
  <1> HIDE DEF den, k
  <1>2. CASE SignedPowerDivider(den, d, k)
    <2>1. den.magic = 0 /\ den.shift = k /\ den.shiftPath /\ (den.negative <=> d < 0)
          /\ k \in 0 .. WordBits - 1 /\ (d = 2 ^ k \/ d = -(2 ^ k))
      BY <1>2 DEF SignedPowerDivider
    <2>2. 0 \in SignedWords
      BY SignedNumbers
    <2>3. /\ SignedByShift(n, den, ShiftRight) = Quotient(n, d)
          /\ SignedByShift(n, den, ShiftRightFlat) = Quotient(n, d)
      BY <2>1, ShiftDivides
    <2>4. q = 0
      <3>1. n \in Int /\ Base \in Nat \ {0}
        BY SignedNumbers
      <3>2. 0 * n = 0 /\ 0 \div Base = 0
        BY <3>1
      <3> QED BY <2>1, <3>2
    <2>5. den.magic = 0
      BY <2>1
    <2>6. SignedBranchfree(n, 0, den.shiftPath, den, ShiftRight) = Quotient(n, d)
      <3> DEFINE p == den.shiftPath
      <3>1. p
        BY <2>1
      <3> HIDE DEF p
      <3>2. SignedBranchfree(n, 0, p, den, ShiftRight) = Quotient(n, d)
        BY <2>3, <3>1, BranchfreeShifts
      <3> QED BY <3>2 DEF p
    <2>7. /\ SignedBranchfree(n, 0, den.magic = 0, den, ShiftRight) = Quotient(n, d)
          /\ SignedBranchfree(n, 0, den.magic = 0, den, ShiftRightFlat) = Quotient(n, d)
      <3> DEFINE p == den.magic = 0
      <3>1. p
        BY <2>1
      <3> HIDE DEF p
      <3>2. /\ SignedBranchfree(n, 0, p, den, ShiftRight) = Quotient(n, d)
            /\ SignedBranchfree(n, 0, p, den, ShiftRightFlat) = Quotient(n, d)
        BY <2>3, <3>1, BranchfreeShifts
      <3> QED BY <3>2 DEF p
    <2> HIDE DEF q
    <2>8. /\ SignedBranchfree(n, q, den.shiftPath, den, ShiftRight) = Quotient(n, d)
          /\ SignedBranchfree(n, q, den.magic = 0, den, ShiftRight) = Quotient(n, d)
          /\ SignedBranchfree(n, q, den.magic = 0, den, ShiftRightFlat) = Quotient(n, d)
      BY <2>4, <2>6, <2>7
    <2> QED BY <2>1, <2>2, <2>8 DEF den, q
  <1>4. CASE \E m, e : SignedLongDivider(den, d, TRUE, m, k, e)
    <2>1. PICK m, e : SignedLongDivider(den, d, TRUE, m, k, e)
      BY <1>4
    <2>2. ~den.shiftPath
      BY <2>1 DEF SignedLongDivider
    <2>3. ASSUME NEW p, ~p
          PROVE  /\ den.magic \in SignedWords /\ den.magic # 0
                 /\ SignedBranchfree(n, q, p, den, ShiftRight) = Quotient(n, d)
                 /\ SignedBranchfree(n, q, p, den, ShiftRightFlat) = Quotient(n, d)
      BY <2>1, <2>3, BranchfreeDivides
    <2>4. den.magic \in SignedWords /\ den.magic # 0
      BY <2>2, <2>3
    <2>5. SignedBranchfree(n, q, den.shiftPath, den, ShiftRight) = Quotient(n, d)
      <3> DEFINE p == den.shiftPath
      <3>1. ~p
        BY <2>2
      <3> HIDE DEF p
      <3>2. SignedBranchfree(n, q, p, den, ShiftRight) = Quotient(n, d)
        BY <2>3, <3>1
      <3> QED BY <3>2 DEF p
    <2>6. /\ SignedBranchfree(n, q, den.magic = 0, den, ShiftRight) = Quotient(n, d)
          /\ SignedBranchfree(n, q, den.magic = 0, den, ShiftRightFlat) = Quotient(n, d)
      <3> DEFINE p == den.magic = 0
      <3>1. ~p
        BY <2>4
      <3> HIDE DEF p
      <3>2. /\ SignedBranchfree(n, q, p, den, ShiftRight) = Quotient(n, d)
            /\ SignedBranchfree(n, q, p, den, ShiftRightFlat) = Quotient(n, d)
        BY <2>3, <3>1
      <3> QED BY <3>2 DEF p
    <2> QED BY <2>4, <2>5, <2>6 DEF den
  <1> QED BY <1>1, <1>2, <1>4

\* The algorithms by their numbers are the algorithms.
LEMMA AlgorithmIs ==
  ASSUME NEW n, NEW q, NEW den, den.shiftPath <=> den.magic = 0
  PROVE  /\ S64Algorithm(den) = S32Algorithm(den)
         /\ SignedAlg(S32Algorithm(den), n, q, den, ShiftRight)
              = IF den.shiftPath THEN SignedByShift(n, den, ShiftRight)
                ELSE SignedByMagic(n, q, den, ShiftRight)
         /\ SignedAlg(S32Algorithm(den), n, q, den, ShiftRightFlat)
              = IF den.shiftPath THEN SignedByShift(n, den, ShiftRightFlat)
                ELSE SignedByMagic(n, q, den, ShiftRightFlat)
  <1>1. S64Algorithm(den) = S32Algorithm(den)
    BY DEF S32Algorithm, S64Algorithm
  <1>2. CASE den.shiftPath /\ den.negative
    BY <1>1, <1>2 DEF S32Algorithm, SignedAlg, SignedByShift, Negated
  <1>3. CASE den.shiftPath /\ ~den.negative
    BY <1>1, <1>3 DEF S32Algorithm, SignedAlg, SignedByShift, Negated
  <1>4. CASE ~den.shiftPath /\ ~den.add
    BY <1>1, <1>4 DEF S32Algorithm, SignedAlg, SignedByMagic
  <1>5. CASE ~den.shiftPath /\ den.add /\ den.negative
    BY <1>1, <1>5 DEF S32Algorithm, SignedAlg, SignedByMagic
  <1>6. CASE ~den.shiftPath /\ den.add /\ ~den.negative
    BY <1>1, <1>6 DEF S32Algorithm, SignedAlg, SignedByMagic
  <1> QED BY <1>2, <1>3, <1>4, <1>5, <1>6

\* A size and a sign are the number, the least one too.
LEMMA NumberOfSize ==
  ASSUME NEW d \in SignedWords \ {0}, NEW negative, negative <=> d < 0
  PROVE  Negated(Signed(Size(d)), negative) = d
  <1> DEFINE g == Base \div 2
             D == Size(d)
  <1>1. g \in Nat /\ Base = 2 * g /\ g >= 2 /\ -g <= d /\ d < g /\ d \in Int
    BY SignedNumbers
  <1>2. D \in Nat \ {0} /\ D <= g /\ (d < 0 => d = -D) /\ (d > 0 => d = D) /\ (d < 0 \/ d > 0)
    BY SizeIs
  <1> HIDE DEF g, D
  <1>3. Signed(d) = d
    BY SignedIs
  <1>4. CASE d > 0
    <2>1. D = d /\ ~negative
      BY <1>2, <1>4
    <2> QED BY <1>3, <2>1 DEF Negated, D
  <1>5. CASE d < 0
    <2>1. d = -D /\ negative
      BY <1>2, <1>5
    <2>2. CASE D < g
      <3>1. D \in Int /\ -g <= D
        BY <1>1, <1>2
      <3>2. D \in SignedWords
        BY <2>2, <3>1, SignedNumbers DEF g
      <3>3. Signed(D) = D
        BY <3>2, SignedIs
      <3> QED BY <1>3, <2>1, <3>3 DEF Negated, D
    <2>3. CASE D = g
      <3>1. d = -g /\ -(-g) = g
        BY <1>1, <2>1, <2>3
      <3> DEFINE a == 1
      <3>2. d + a * Base = g /\ a \in Int
        BY <1>1, <3>1
      <3> HIDE DEF a
      <3>3. Signed(d + a * Base) = d
        BY <3>2, SignedPlus
      <3>4. Signed(g) = d
        BY <3>2, <3>3
      <3>5. Negated(Signed(g), negative) = Signed(-d)
        BY <2>1, <3>4 DEF Negated
      <3>6. -d = g
        BY <3>1
      <3> QED BY <2>3, <3>4, <3>5, <3>6 DEF D
    <2> QED BY <1>1, <1>2, <2>2, <2>3
  <1> QED BY <1>2, <1>4, <1>5

\* The power that a magic number comes from, divided by it.
LEMMA SizeRecovered ==
  ASSUME NEW d \in SignedWords \ {0}, NEW den, NEW m \in Nat \ {0}, m < Base,
         NEW j \in 0 .. WordBits - 1, NEW e \in Nat \ {0}, e <= m,
         m * Size(d) = 2 ^ j * Base + e,
         den.shift = j, ~den.shiftPath, den.magic # 0, MagicOf(den) = m,
         den.negative <=> d < 0
  PROVE  S32Recover(den) = d /\ S64Recover(den) = d
  <1> DEFINE D == Size(d)
             J == 2 ^ j
             n == J * Base
  <1>1. Base \in Nat \ {0} /\ WordBits \in Nat /\ j \in Nat
    BY SignedNumbers
  <1>2. D \in Nat \ {0} /\ D < Base
    <2>1. D \in 1 .. Base - 1 /\ D \in Nat \ {0}
      BY SizeIs
    <2> HIDE DEF D
    <2> QED BY <1>1, <2>1
  <1>3. J \in Nat
    BY <1>1, PowerDoubles
  <1>4. m * D = n + e
    OBVIOUS
  <1>5. 2 ^ (WordBits + j) = n
    <2>1. 2 ^ (WordBits + j) = 2 ^ WordBits * 2 ^ j
      BY <1>1, PowerAdds
    <2>2. 2 ^ WordBits = Base
      BY DEF Base
    <2>3. Base * J = J * Base
      BY <1>1, <1>3
    <2> QED BY <2>1, <2>2, <2>3
  <1> HIDE DEF D, J
  <1>6. n \in Nat
    BY <1>1, <1>3
  <1> HIDE DEF n
  <1>7. n \div m = D - 1
    BY <1>2, <1>4, <1>6, MagicRecover
  <1>8. J < m
    <2>1. J \in Nat \ {0}
      <3>1. J > 0
        BY <1>1, PowerDoubles DEF J
      <3> QED BY <1>3, <3>1
    <2>2. Base * J = n /\ Base \in Nat
      BY <1>1, <1>3 DEF n
    <2>3. m * D = Base * J + e
      BY <1>4, <2>2
    <2> QED BY <1>2, <2>1, <2>2, <2>3, FactorAbove
  <1>9. DivHalves(J, 0, m).quot = D - 1
    <2>1. m \in Words
      BY <1>1 DEF Words
    <2>2. Div(J, 0, m) = [quot |-> (J * Base) \div m, rem |-> ((J * Base) % m)]
          /\ DivHalves(J, 0, m) = Div(J, 0, m)
      BY <1>3, <1>8, <2>1, DivIs, DivHalvesIs
    <2>3. DivHalves(J, 0, m).quot = (J * Base) \div m
      BY <2>2
    <2> QED BY <1>7, <2>3 DEF n
  <1>10. 1 + (D - 1) = D
    BY <1>2
  <1>11. Negated(Signed(D), den.negative) = d
    <2> DEFINE p == den.negative
    <2>1. p <=> d < 0
      OBVIOUS
    <2> HIDE DEF p
    <2>2. Negated(Signed(D), p) = d
      BY <2>1, NumberOfSize DEF D
    <2> QED BY <2>2 DEF p
  <1>12. S32Recover(den) = Negated(Signed(1 + n \div m), den.negative)
    BY <1>5 DEF S32Recover
  <1>13. S64Recover(den) = Negated(Signed(1 + DivHalves(J, 0, m).quot), den.negative)
    BY DEF S64Recover, J
  <1> QED BY <1>7, <1>9, <1>10, <1>11, <1>12, <1>13

\* Of a power of two the shift gives the divisor back.
LEMMA SignedPowerRecovers ==
  ASSUME NEW d \in SignedWords \ {0}, NEW den, NEW k, SignedPowerDivider(den, d, k)
  PROVE  S32Recover(den) = d /\ S64Recover(den) = d
  <1>1. den.magic = 0 /\ den.shift = k /\ den.shiftPath /\ (den.negative <=> d < 0)
        /\ k \in 0 .. WordBits - 1 /\ (d = 2 ^ k \/ d = -(2 ^ k))
    BY DEF SignedPowerDivider
  <1>2. 2 ^ k = Size(d)
    <2> DEFINE K == 2 ^ k
               D == Size(d)
    <2>1. k \in Nat
      BY <1>1, SignedNumbers
    <2>2. K \in Nat /\ K > 0
      BY <2>1, PowerDoubles
    <2>3. d = K \/ d = -K
      BY <1>1
    <2> HIDE DEF K
    <2>4. D = K
      BY <2>2, <2>3 DEF Size
    <2> QED BY <2>4 DEF K
  <1>3. Negated(Signed(2 ^ k), den.negative) = d
    <2> DEFINE p == den.negative
    <2>1. p <=> d < 0
      BY <1>1
    <2> HIDE DEF p
    <2>2. Negated(Signed(Size(d)), p) = d
      BY <2>1, NumberOfSize
    <2> QED BY <1>2, <2>2 DEF p
  <1> QED BY <1>1, <1>3 DEF S32Recover, S64Recover

\* The sign of a short magic number tells whether gen negated it.
LEMMA SignedShortRecovers ==
  ASSUME NEW d \in SignedWords \ {0}, NEW den, NEW m, NEW k, NEW e,
         SignedShortDivider(den, d, m, k, e)
  PROVE  S32Recover(den) = d /\ S64Recover(den) = d
  <1> DEFINE j == k - 1
  <1>1. /\ den.magic = (IF d < 0 THEN -m ELSE m) /\ den.shift = j /\ ~den.add /\ ~den.shiftPath
        /\ (den.negative <=> d < 0) /\ j \in 0 .. WordBits - 1
        /\ m \in Nat \ {0} /\ m < Base \div 2 /\ e \in Nat \ {0} /\ e <= m
        /\ m * Size(d) = 2 ^ j * Base + e
    BY DEF SignedShortDivider, SignedShort
  <1> HIDE DEF j
  <1>2. m < Base /\ m \in Words
    <2>1. Base \div 2 \in Nat /\ Base = 2 * (Base \div 2)
      BY SignedNumbers
    <2> DEFINE g == Base \div 2
    <2> HIDE DEF g
    <2>2. g \in Nat /\ Base = 2 * g /\ m < g
      BY <1>1, <2>1 DEF g
    <2> QED BY <1>1, <2>2 DEF Words
  <1>3. den.magic # 0
    BY <1>1
  <1>4. MagicOf(den) = m
    <2>1. (IF den.magic < 0 THEN -den.magic ELSE den.magic) = m
      BY <1>1
    <2>2. Word(m) = m
      BY <1>2, WordIs
    <2> QED BY <1>1, <2>1, <2>2 DEF MagicOf
  <1> QED BY <1>1, <1>2, <1>3, <1>4, SizeRecovered

\* Of a long one the sign is the other one, negated or not.
LEMMA SignedLongRecovers ==
  ASSUME NEW d \in SignedWords \ {0}, NEW den, NEW m, NEW k, NEW e, NEW branchfree \in BOOLEAN,
         SignedLongDivider(den, d, branchfree, m, k, e)
  PROVE  S32Recover(den) = d /\ S64Recover(den) = d
  <1>1. /\ den.magic = (IF d < 0 /\ ~branchfree THEN Base - m ELSE m - Base)
        /\ den.shift = k /\ den.add /\ ~den.shiftPath
        /\ (den.negative <=> d < 0) /\ k \in 0 .. WordBits - 1
        /\ m \in Nat \ {0} /\ m < Base /\ e \in Nat \ {0} /\ e <= m
        /\ m * Size(d) = 2 ^ k * Base + e
    BY DEF SignedLongDivider, SignedLong
  <1>2. Base \in Nat \ {0} /\ m \in Words
    <2>1. Base \in Nat \ {0}
      BY SignedNumbers
    <2> QED BY <1>1, <2>1 DEF Words
  <1>3. den.magic # 0
    BY <1>1, <1>2
  <1>4. MagicOf(den) = m
    <2>1. (IF den.magic > 0 THEN -den.magic ELSE den.magic) = m - Base
      BY <1>1, <1>2
    <2>2. Word(m - Base) = m
      <3> DEFINE a == -1
      <3>1. m + a * Base = m - Base /\ a \in Int
        BY <1>1, <1>2
      <3> HIDE DEF a
      <3>2. Word(m + a * Base) = m
        BY <1>2, <3>1, WordPlus
      <3> QED BY <3>1, <3>2
    <2> QED BY <1>1, <2>1, <2>2 DEF MagicOf
  <1> QED BY <1>1, <1>2, <1>3, <1>4, SizeRecovered

\* All of the signed dividers give their divisor back.
LEMMA SignedDividersRecover ==
  ASSUME NEW d \in SignedWords \ {0}, NEW branchfree \in BOOLEAN
  PROVE  /\ S32Recover(S32Gen(d, branchfree)) = d
         /\ S64Recover(S32Gen(d, branchfree)) = d
  <1> DEFINE den == S32Gen(d, branchfree)
             k == FloorLog2(Size(d))
  <1>1. \/ SignedPowerDivider(den, d, k)
        \/ \E m, e : SignedShortDivider(den, d, m, k, e)
        \/ \E m, e : SignedLongDivider(den, d, branchfree, m, k, e)
    BY SignedGenIs
  <1> HIDE DEF den, k
  <1>2. S32Recover(den) = d /\ S64Recover(den) = d
    BY <1>1, SignedPowerRecovers, SignedShortRecovers, SignedLongRecovers
  <1> QED BY <1>2 DEF den

\* All of the signed algorithms.
LEMMA SignedIsExact ==
  ASSUME NEW d \in SignedWords \ {0}
  PROVE  SignedExact(d)
  <1> DEFINE s32 == S32Gen(d, FALSE)
             b32 == S32Gen(d, TRUE)
             alg == S32Algorithm(s32)
             g   == Base \div 2
  <1>1. S64Gen(d, FALSE) = s32 /\ S64Gen(d, TRUE) = b32
    <2>1. FALSE \in BOOLEAN /\ TRUE \in BOOLEAN
      OBVIOUS
    <2> QED BY <2>1, SignedGenIs
  <1>2. /\ S32Recover(s32) = d /\ S64Recover(s32) = d
        /\ S32Recover(b32) = d /\ S64Recover(b32) = d
    <2>1. FALSE \in BOOLEAN /\ TRUE \in BOOLEAN
      OBVIOUS
    <2> QED BY <2>1, SignedDividersRecover
  <1>3. 1 \in SignedWords /\ 1 # -g
    <2>1. g \in Nat /\ g >= 2
      BY SignedNumbers
    <2> HIDE DEF g
    <2>2. -g <= 1 /\ 1 < g /\ 1 # -g
      BY <2>1
    <2> QED BY <2>2, SignedNumbers DEF g
  <1>4. 0 \in Pair /\ 1 \in Pair /\ \A i \in Pair : i = 0 \/ i = 1
    BY DEF Pair
  <1>5. s32.magic \in SignedWords /\ (s32.shiftPath <=> s32.magic = 0)
    BY <1>3, SignedDividerDivides
  <1>6. ASSUME NEW n \in SignedWords, d = -1 => n # -g
        PROVE  LET q == (s32.magic * n) \div Base
               IN  /\ s32.shiftPath => /\ SignedByShift(n, s32, ShiftRight) = Quotient(n, d)
                                       /\ SignedByShift(n, s32, ShiftRightFlat) = Quotient(n, d)
                   /\ ~s32.shiftPath => /\ SignedByMagic(n, q, s32, ShiftRight) = Quotient(n, d)
                                        /\ SignedByMagic(n, q, s32, ShiftRightFlat) = Quotient(n, d)
                   /\ SignedAlg(alg, n, q, s32, ShiftRight) = Quotient(n, d)
                   /\ SignedAlg(alg, n, q, s32, ShiftRightFlat) = Quotient(n, d)
    <2> DEFINE q == (s32.magic * n) \div Base
    <2>1. /\ s32.shiftPath => /\ SignedByShift(n, s32, ShiftRight) = Quotient(n, d)
                              /\ SignedByShift(n, s32, ShiftRightFlat) = Quotient(n, d)
          /\ ~s32.shiftPath => /\ SignedByMagic(n, q, s32, ShiftRight) = Quotient(n, d)
                               /\ SignedByMagic(n, q, s32, ShiftRightFlat) = Quotient(n, d)
      BY <1>6, SignedDividerDivides
    <2> HIDE DEF s32, q
    <2>2. /\ SignedAlg(alg, n, q, s32, ShiftRight)
               = IF s32.shiftPath THEN SignedByShift(n, s32, ShiftRight)
                 ELSE SignedByMagic(n, q, s32, ShiftRight)
          /\ SignedAlg(alg, n, q, s32, ShiftRightFlat)
               = IF s32.shiftPath THEN SignedByShift(n, s32, ShiftRightFlat)
                 ELSE SignedByMagic(n, q, s32, ShiftRightFlat)
      BY <1>5, AlgorithmIs
    <2> HIDE DEF alg
    <2> QED BY <2>1, <2>2 DEF q
  <1>7. S64Algorithm(s32) = alg
    <2> HIDE DEF s32
    <2> QED BY <1>5, AlgorithmIs
  <1>8. ASSUME NEW n \in SignedWords, d # -1
        PROVE  LET q == (b32.magic * n) \div Base
               IN  /\ b32.magic \in SignedWords
                   /\ SignedBranchfree(n, q, b32.shiftPath, b32, ShiftRight) = Quotient(n, d)
                   /\ SignedBranchfree(n, q, b32.magic = 0, b32, ShiftRight) = Quotient(n, d)
                   /\ SignedBranchfree(n, q, b32.magic = 0, b32, ShiftRightFlat) = Quotient(n, d)
    BY <1>8, BranchfreeDividerDivides
  <1> HIDE DEF s32, b32, alg, g
  <1>9. ASSUME NEW m \in SignedWords, NEW n \in SignedWords
        PROVE  /\ MulHiSigned(m, n) = (m * n) \div Base
               /\ MulHiSignedHalves(m, n) = (m * n) \div Base
               /\ MulHiSignedFlat(n, m) = (m * n) \div Base
               /\ (n * m) \div Base = (m * n) \div Base
    <2>1. m * n = n * m
      <3>1. m \in Int /\ n \in Int
        BY SignedNumbers
      <3> QED BY <3>1
    <2> QED BY <2>1, MulHiSignedIs, HighWordOfSignedHalves, HighWordFlat
  <1>10. ASSUME NEW m \in SignedWords, NEW n \in SignedWords, NEW l \in SignedWords
         PROVE  /\ MulHiSignedPair(Both(n, l), m)[0] = (m * n) \div Base
                /\ MulHiSignedPair(Both(n, l), m)[1] = (m * l) \div Base
    <2> DEFINE lane == Both(n, l)
    <2>1. lane[0] = n /\ lane[1] = l
      BY <1>4 DEF Both
    <2> HIDE DEF lane
    <2>2. MulHiSignedPair(lane, m) = [i \in Pair |-> (lane[i] * m) \div Base]
      BY <2>1, HighWordsOfSignedPair
    <2>3. (n * m) \div Base = (m * n) \div Base /\ (l * m) \div Base = (m * l) \div Base
      BY <1>9
    <2>4. /\ MulHiSignedPair(lane, m)[0] = (lane[0] * m) \div Base
          /\ MulHiSignedPair(lane, m)[1] = (lane[1] * m) \div Base
      BY <1>4, <2>2
    <2> QED BY <2>1, <2>3, <2>4 DEF lane
  <1>11. ASSUME NEW n \in SignedWords, d = -1 => n # -g
         PROVE  LET q      == Quotient(n, d)
                    lanes  == Both(1, n)
                    quotes == Both(Quotient(1, d), q)
                IN  /\ S32Do(n, s32) = q /\ S64Do(n, s32) = q
                    /\ S32DoAlg(alg, n, s32) = q /\ S64DoAlg(alg, n, s32) = q
                    /\ S32DoVector(lanes, s32) = quotes /\ S64DoVector(n, s32) = q
                    /\ S32DoVectorAlg(alg, lanes, s32) = quotes
                    /\ S64DoVectorAlg(alg, n, s32) = q
                    /\ d # -1 =>
                          /\ S32BranchfreeDo(n, b32) = q /\ S64BranchfreeDo(n, b32) = q
                          /\ S32BranchfreeDoVector(lanes, b32) = quotes
                          /\ S64BranchfreeDoVector(n, b32) = q
    <2> DEFINE q      == Quotient(n, d)
               o      == Quotient(1, d)
               lanes  == Both(1, n)
               quotes == Both(o, q)
    <2>1. lanes[0] = 1 /\ lanes[1] = n
      BY <1>4 DEF Both
    <2> DEFINE m == s32.magic
               x == (m * n) \div Base
               y == (m * 1) \div Base
    <2>2. m \in SignedWords /\ (s32.shiftPath <=> m = 0)
      BY <1>5
    <2>3. /\ s32.shiftPath => /\ SignedByShift(n, s32, ShiftRight) = q
                              /\ SignedByShift(n, s32, ShiftRightFlat) = q
          /\ ~s32.shiftPath => /\ SignedByMagic(n, x, s32, ShiftRight) = q
                               /\ SignedByMagic(n, x, s32, ShiftRightFlat) = q
          /\ SignedAlg(alg, n, x, s32, ShiftRight) = q
          /\ SignedAlg(alg, n, x, s32, ShiftRightFlat) = q
      BY <1>6, <1>11
    <2>4. /\ s32.shiftPath => SignedByShift(1, s32, ShiftRight) = o
          /\ ~s32.shiftPath => SignedByMagic(1, y, s32, ShiftRight) = o
          /\ SignedAlg(alg, 1, y, s32, ShiftRight) = o
      BY <1>3, <1>6
    <2>5. /\ MulHiSigned(m, n) = x /\ MulHiSignedHalves(m, n) = x /\ MulHiSignedFlat(n, m) = x
      BY <1>9, <2>2
    <2>6. MulHiSignedPair(lanes, m)[0] = y /\ MulHiSignedPair(lanes, m)[1] = x
      BY <1>3, <1>10, <2>2
    <2> HIDE DEF q, o, lanes, x, y
    <2>7. S32Do(n, s32) = q /\ S64Do(n, s32) = q /\ S64DoVector(n, s32) = q
      BY <2>2, <2>3, <2>5 DEF S32Do, S64Do, S64DoVector
    <2>8. S32DoAlg(alg, n, s32) = q /\ S64DoAlg(alg, n, s32) = q /\ S64DoVectorAlg(alg, n, s32) = q
      BY <2>3, <2>5 DEF S32DoAlg, S64DoAlg, S64DoVectorAlg
    <2>9. S32DoVector(lanes, s32) = quotes /\ S32DoVectorAlg(alg, lanes, s32) = quotes
      <3> DEFINE p == MulHiSignedPair(lanes, m)
      <3>1. p[0] = y /\ p[1] = x
        BY <2>6
      <3> HIDE DEF p
      <3>2. S32DoVector(lanes, s32)
              = [i \in Pair |-> IF s32.shiftPath THEN SignedByShift(lanes[i], s32, ShiftRight)
                                ELSE SignedByMagic(lanes[i], p[i], s32, ShiftRight)]
        BY DEF S32DoVector, p
      <3>3. S32DoVectorAlg(alg, lanes, s32)
              = [i \in Pair |-> SignedAlg(alg, lanes[i], p[i], s32, ShiftRight)]
        BY DEF S32DoVectorAlg, p
      <3>4. \A i \in Pair : (IF s32.shiftPath THEN SignedByShift(lanes[i], s32, ShiftRight)
                             ELSE SignedByMagic(lanes[i], p[i], s32, ShiftRight))
                              = IF i = 0 THEN o ELSE q
        BY <1>4, <2>1, <2>3, <2>4, <3>1
      <3>5. \A i \in Pair : SignedAlg(alg, lanes[i], p[i], s32, ShiftRight)
                              = IF i = 0 THEN o ELSE q
        BY <1>4, <2>1, <2>3, <2>4, <3>1
      <3> QED BY <3>2, <3>3, <3>4, <3>5 DEF Both
    <2>10. ASSUME d # -1
           PROVE  /\ S32BranchfreeDo(n, b32) = q /\ S64BranchfreeDo(n, b32) = q
                  /\ S32BranchfreeDoVector(lanes, b32) = quotes
                  /\ S64BranchfreeDoVector(n, b32) = q
      <3> DEFINE b == b32.magic
                 u == (b * n) \div Base
                 v == (b * 1) \div Base
      <3>1. /\ b \in SignedWords
            /\ SignedBranchfree(n, u, b32.shiftPath, b32, ShiftRight) = q
            /\ SignedBranchfree(n, u, b = 0, b32, ShiftRight) = q
            /\ SignedBranchfree(n, u, b = 0, b32, ShiftRightFlat) = q
        BY <1>8, <2>10 DEF q
      <3>2. SignedBranchfree(1, v, b = 0, b32, ShiftRight) = o
        BY <1>3, <1>8, <2>10 DEF o
      <3>3. /\ MulHiSigned(b, n) = u /\ MulHiSignedHalves(b, n) = u /\ MulHiSignedFlat(n, b) = u
        BY <1>9, <3>1
      <3>4. MulHiSignedPair(lanes, b)[0] = v /\ MulHiSignedPair(lanes, b)[1] = u
        BY <1>3, <1>10, <3>1 DEF lanes
      <3> HIDE DEF u, v
      <3>5. S32BranchfreeDo(n, b32) = q /\ S64BranchfreeDo(n, b32) = q /\ S64BranchfreeDoVector(n, b32) = q
        BY <3>1, <3>3 DEF S32BranchfreeDo, S64BranchfreeDo, S64BranchfreeDoVector
      <3>6. S32BranchfreeDoVector(lanes, b32) = quotes
        <4> DEFINE p == MulHiSignedPair(lanes, b)
        <4>1. p[0] = v /\ p[1] = u
          BY <3>4
        <4> HIDE DEF p
        <4>2. S32BranchfreeDoVector(lanes, b32)
                = [i \in Pair |-> SignedBranchfree(lanes[i], p[i], b = 0, b32, ShiftRight)]
          BY DEF S32BranchfreeDoVector, p
        <4>3. \A i \in Pair : SignedBranchfree(lanes[i], p[i], b = 0, b32, ShiftRight)
                                = IF i = 0 THEN o ELSE q
          BY <1>4, <2>1, <3>1, <3>2, <4>1
        <4> QED BY <4>2, <4>3 DEF Both
      <3> QED BY <3>5, <3>6
    <2> QED BY <2>7, <2>8, <2>9, <2>10 DEF q, o, lanes
  <1>12. ASSUME NEW n \in {Signed(w) : w \in Words} \ {IF d = -1 THEN -g ELSE Base}
         PROVE  n \in SignedWords /\ (d = -1 => n # -g)
    <2>1. PICK w \in Words : n = Signed(w)
      BY <1>12
    <2>2. w \in Int
      BY SignedNumbers DEF Words
    <2> QED BY <1>12, <2>1, <2>2, WordType
  <1>13. \A n \in {Signed(w) : w \in Words} \ {IF d = -1 THEN -g ELSE Base} :
            LET q      == Quotient(n, d)
                lanes  == Both(1, n)
                quotes == Both(Quotient(1, d), q)
            IN  /\ S32Do(n, s32) = q /\ S64Do(n, s32) = q
                /\ S32DoAlg(alg, n, s32) = q /\ S64DoAlg(alg, n, s32) = q
                /\ S32DoVector(lanes, s32) = quotes /\ S64DoVector(n, s32) = q
                /\ S32DoVectorAlg(alg, lanes, s32) = quotes
                /\ S64DoVectorAlg(alg, n, s32) = q
                /\ d \notin {1, -1} =>
                      /\ S32BranchfreeDo(n, b32) = q /\ S64BranchfreeDo(n, b32) = q
                      /\ S32BranchfreeDoVector(lanes, b32) = quotes
                      /\ S64BranchfreeDoVector(n, b32) = q
    BY <1>11, <1>12
  <1> QED BY <1>1, <1>2, <1>7, <1>13 DEF SignedExact, s32, b32, alg, g

-----------------------------------------------------------------------------
(***************************************************************************)
(* Whatever the width of a word and whichever the divisor: all of the      *)
(* algorithms of libdivide, signed and unsigned, on one number or on       *)
(* several, with and without branches, give the quotient for every         *)
(* numerator of a word, and recover gives the divisor back.                *)
(***************************************************************************)
THEOREM DividingIsExact == DividerSpec => []DividesExactly
  <1> DEFINE Inv == divisor \in 0 .. Base - 1
  <1>1. DividerInit => Inv
    <2>1. Base \in Nat \ {0}
      BY WordSizes
    <2> QED BY <2>1 DEF DividerInit
  <1>2. Inv /\ [DividerNext]_divisor => Inv'
    <2>1. Base' = Base
      BY DEF Base, WordBits
    <2>2. Base \in Nat \ {0}
      BY WordSizes
    <2> QED BY <2>1, <2>2 DEF DividerNext, NewDivider
  <1>3. Inv => DividesExactly
    <2> SUFFICES ASSUME Inv, divisor # 0
                 PROVE  UnsignedExact(divisor) /\ SignedExact(Signed(divisor))
      BY DEF DividesExactly
    <2>1. Base \in Nat \ {0}
      BY WordSizes
    <2>2. divisor \in 1 .. Base - 1 /\ divisor \in Words /\ divisor \in Int
      BY <2>1 DEF Words
    <2>3. UnsignedExact(divisor)
      BY <2>2, UnsignedIsExact
    <2>4. Signed(divisor) \in SignedWords
      BY <2>2, WordType
    <2>5. Signed(divisor) # 0
      <3>1. Word(divisor) = divisor
        BY <2>2, WordIs
      <3> QED BY <2>1, <2>2, <3>1 DEF Signed, Word
    <2> QED BY <2>3, <2>4, <2>5, SignedIsExact
  <1> QED BY <1>1, <1>2, <1>3, PTL DEF DividerSpec

-----------------------------------------------------------------------------
(***************************************************************************)
(* XoroShiro128Plus: each operation of a step can be undone.               *)
(***************************************************************************)
LEMMA RngSizes == RngBits \in Nat /\ 2 ^ RngBits \in Nat /\ 2 ^ RngBits >= 2
  <1> DEFINE n == RngBits - 1
  <1>1. n \in Nat /\ RngBits = n + 1
    BY RngBitsAssumption
  <1> HIDE DEF n
  <1>2. 2 ^ n \in Nat /\ 2 ^ n > 0 /\ 2 ^ (n + 1) = 2 * 2 ^ n
    BY <1>1, PowerDoubles
  <1> DEFINE p == 2 ^ n
             q == 2 ^ (n + 1)
  <1>3. p \in Nat /\ p > 0 /\ q = 2 * p
    BY <1>2
  <1> HIDE DEF p, q
  <1>4. q \in Nat /\ q >= 2
    BY <1>3
  <1> QED BY <1>1, <1>4 DEF q

\* The exclusive or is a word, bit by bit.
LEMMA XorIs ==
  ASSUME NEW x \in RngWords, NEW y \in RngWords
  PROVE  /\ Xor(x, y) \in RngWords
         /\ \A i \in 0 .. RngBits - 1 :
               Bit(Xor(x, y), i) = IF Bit(x, i) = Bit(y, i) THEN 0 ELSE 1
  <1> DEFINE b == [i \in 0 .. RngBits - 1 |-> IF Bit(x, i) = Bit(y, i) THEN 0 ELSE 1]
             Is(z) == \A i \in 0 .. RngBits - 1 :
                        Bit(z, i) = IF Bit(x, i) = Bit(y, i) THEN 0 ELSE 1
  <1>1. b \in [0 .. RngBits - 1 -> {0, 1}]
    OBVIOUS
  <1>2. \A i \in 0 .. RngBits - 1 : b[i] = IF Bit(x, i) = Bit(y, i) THEN 0 ELSE 1
    OBVIOUS
  <1> HIDE DEF b
  <1>3. \E z \in RngWords : Is(z)
    <2>1. PICK z \in 0 .. 2 ^ RngBits - 1 : \A i \in 0 .. RngBits - 1 : Bit(z, i) = b[i]
      BY <1>1, RngSizes, WordWithBits
    <2>2. Is(z)
      BY <1>2, <2>1
    <2> HIDE DEF Is
    <2> QED BY <2>2 DEF RngWords
  <1>4. Xor(x, y) = CHOOSE z \in RngWords : Is(z)
    BY DEF Xor
  <1>5. Xor(x, y) \in RngWords /\ Is(Xor(x, y))
    <2> HIDE DEF Is
    <2> QED BY <1>3, <1>4
  <1> QED BY <1>5

\* Its bits, too, are 0 or 1.
LEMMA RngBitType ==
  ASSUME NEW x \in RngWords, NEW i \in 0 .. RngBits - 1
  PROVE  Bit(x, i) = 0 \/ Bit(x, i) = 1
  <1>1. x \in Nat /\ i \in Nat
    BY RngSizes DEF RngWords
  <1> QED BY <1>1, BitType

\* And a word is its bits.
LEMMA SameRngBits ==
  ASSUME NEW x \in RngWords, NEW y \in RngWords,
         \A i \in 0 .. RngBits - 1 : Bit(x, i) = Bit(y, i)
  PROVE  x = y
  BY RngSizes, SameBits DEF RngWords

\* An exclusive or is undone from either side.
LEMMA XorUndone ==
  ASSUME NEW x \in RngWords, NEW y \in RngWords, NEW z \in RngWords
  PROVE  /\ Xor(x, z) = Xor(y, z) => x = y
         /\ Xor(z, x) = Xor(z, y) => x = y
  <1>1. ASSUME Xor(x, z) = Xor(y, z) PROVE x = y
    <2>1. ASSUME NEW i \in 0 .. RngBits - 1 PROVE Bit(x, i) = Bit(y, i)
      <3>1. Bit(Xor(x, z), i) = IF Bit(x, i) = Bit(z, i) THEN 0 ELSE 1
        BY XorIs
      <3>2. Bit(Xor(y, z), i) = IF Bit(y, i) = Bit(z, i) THEN 0 ELSE 1
        BY XorIs
      <3> QED BY <1>1, <3>1, <3>2, RngBitType
    <2> QED BY <2>1, SameRngBits
  <1>2. ASSUME Xor(z, x) = Xor(z, y) PROVE x = y
    <2>1. ASSUME NEW i \in 0 .. RngBits - 1 PROVE Bit(x, i) = Bit(y, i)
      <3>1. Bit(Xor(z, x), i) = IF Bit(z, i) = Bit(x, i) THEN 0 ELSE 1
        BY XorIs
      <3>2. Bit(Xor(z, y), i) = IF Bit(z, i) = Bit(y, i) THEN 0 ELSE 1
        BY XorIs
      <3> QED BY <1>2, <3>1, <3>2, RngBitType
    <2> QED BY <2>1, SameRngBits
  <1> QED BY <1>1, <1>2

\* Nothing comes of nothing.
LEMMA ZeroIs ==
  /\ 0 \in RngWords
  /\ \A i \in 0 .. RngBits - 1 : Bit(0, i) = 0
  /\ Xor(0, 0) = 0
  <1>1. 0 \in RngWords
    BY RngSizes DEF RngWords
  <1>2. ASSUME NEW i \in 0 .. RngBits - 1 PROVE Bit(0, i) = 0
    <2> DEFINE k == 2 ^ i
    <2>1. i \in Nat
      BY RngSizes
    <2>2. k \in Nat /\ k > 0
      BY <2>1, PowerDoubles
    <2> HIDE DEF k
    <2>3. 0 \div k = 0
      BY <2>2
    <2>4. ((0 \div k) % 2) = 0
      BY <2>3
    <2> QED BY <2>4 DEF Bit, k
  <1>3. \A i \in 0 .. RngBits - 1 : Bit(Xor(0, 0), i) = Bit(0, i)
    BY <1>1, <1>2, XorIs
  <1>4. Xor(0, 0) = 0
    BY <1>1, <1>3, XorIs, SameRngBits
  <1> QED BY <1>1, <1>2, <1>4

\* A rotation exchanges the parts that a word is cut into.
LEMMA RotlIs ==
  ASSUME NEW k \in Nat
  PROVE  \E p, q \in Nat \ {0} :
            \A x \in RngWords :
               /\ Rotl(x, k) = p * (x % q) + x \div q
               /\ x \div q \in 0 .. p - 1
               /\ Rotl(x, k) \in RngWords
  <1> DEFINE by == k % RngBits
             o == RngBits - by
             p == 2 ^ by
             q == 2 ^ o
             b == 2 ^ RngBits
  <1>1. by \in Nat /\ o \in Nat /\ by + o = RngBits
    BY RngBitsAssumption
  <1>2. /\ p \in Nat \ {0} /\ q \in Nat \ {0} /\ b = p * q
    <2> HIDE DEF by, o
    <2>1. p \in Nat /\ p > 0 /\ q \in Nat /\ q > 0
      BY <1>1, PowerDoubles
    <2>2. 2 ^ (by + o) = 2 ^ by * 2 ^ o
      BY <1>1, PowerAdds
    <2> QED BY <1>1, <2>1, <2>2
  <1>3. ASSUME NEW x \in RngWords
        PROVE  /\ Rotl(x, k) = p * (x % q) + x \div q
               /\ x \div q \in 0 .. p - 1
               /\ Rotl(x, k) \in RngWords
    <2>1. x \in Nat /\ x < b
      BY RngSizes DEF RngWords
    <2>2. Rotl(x, k) = ((x * p) % b) + x \div q
      BY DEF Rotl
    <2> HIDE DEF by, o, p, q, b
    <2> DEFINE h == x \div q
               l == x % q
               r == p * l
    <2>3. h \in Int /\ l \in 0 .. q - 1 /\ x = q * h + l
      BY <1>2, <2>1, Division
    <2>4. h >= 0 /\ h < p
      <3>1. 0 * q <= x
        BY <1>2, <2>1
      <3>2. x < p * q
        BY <1>2, <2>1
      <3> HIDE DEF h, l, r
      <3>3. (0 * q <= x) <=> (0 <= h)
        <4> DEFINE a == 0
        <4>1. a \in Int
          OBVIOUS
        <4> HIDE DEF a
        <4>2. (a * q <= x) <=> (a <= x \div q)
          BY <1>2, <2>1, <4>1, QuotientBounds
        <4> QED BY <4>2 DEF a, h
      <3>4. (x < p * q) <=> (h < p)
        BY <1>2, <2>1, QuotientBounds DEF h
      <3> QED BY <3>1, <3>2, <3>3, <3>4
    <2> HIDE DEF h, l
    <2>5. x * p = b * h + r /\ r \in Int
      BY <1>2, <2>3
    <2>6. 0 <= r /\ r + p <= b
      <3>1. l <= q - 1 /\ l >= 0
        BY <1>2, <2>3
      <3>2. l * p <= (q - 1) * p
        BY <1>2, <2>3, <3>1
      <3> QED BY <1>2, <2>3, <3>1, <3>2
    <2> HIDE DEF r
    <2>7. ((x * p) % b) = r
      <3>1. x * p \in Int /\ b \in Nat \ {0} /\ r < b
        BY <1>2, <2>1, <2>5, <2>6
      <3> QED BY <2>3, <2>5, <2>6, <3>1, DivisionIs
    <2>8. r + h \in 0 .. b - 1
      BY <1>2, <2>3, <2>4, <2>5, <2>6
    <2>9. RngWords = 0 .. b - 1
      BY DEF RngWords, b
    <2>10. Rotl(x, k) = r + h /\ r = p * (x % q) /\ h = x \div q
      BY <2>2, <2>7 DEF r, l, h
    <2>11. h \in 0 .. p - 1
      BY <1>2, <2>3, <2>4
    <2> QED BY <2>8, <2>9, <2>10, <2>11
  <1> HIDE DEF p, q
  <1> QED BY <1>2, <1>3

\* So a rotation is undone.
LEMMA RotlUndone ==
  ASSUME NEW k \in Nat, NEW x \in RngWords, NEW y \in RngWords
  PROVE  /\ Rotl(x, k) \in RngWords
         /\ Rotl(x, k) = Rotl(y, k) => x = y
  <1>1. PICK p \in Nat \ {0}, q \in Nat \ {0} :
            \A z \in RngWords :
               /\ Rotl(z, k) = p * (z % q) + z \div q
               /\ z \div q \in 0 .. p - 1
               /\ Rotl(z, k) \in RngWords
    BY RotlIs
  <1>2. ASSUME NEW z \in RngWords
        PROVE  /\ (z % q) \in Int /\ z \div q \in Int
               /\ z = q * (z \div q) + (z % q)
               /\ Rotl(z, k) \div p = (z % q)
               /\ (Rotl(z, k) % p) = z \div q
    <2>1. z \in Int
      BY RngSizes DEF RngWords
    <2> DEFINE h == z \div q
               l == z % q
               r == Rotl(z, k)
    <2>2. h \in Int /\ l \in 0 .. q - 1 /\ z = q * h + l
      BY <2>1, Division
    <2>3. r = p * l + h /\ h \in 0 .. p - 1
      BY <1>1
    <2> HIDE DEF h, l, r
    <2>4. r \in Int /\ l \in Int
      BY <2>2, <2>3
    <2>5. r \div p = l /\ (r % p) = h
      BY <2>2, <2>3, <2>4, DivisionIs
    <2> QED BY <2>2, <2>4, <2>5 DEF h, l, r
  <1> QED BY <1>1, <1>2

\* A shift is a word, and none for zero.
LEMMA ShlIs ==
  ASSUME NEW k \in Nat, NEW x \in RngWords
  PROVE  Shl(x, k) \in RngWords /\ Shl(0, k) = 0
  <1> DEFINE b == 2 ^ RngBits
             p == 2 ^ k
  <1>1. b \in Nat /\ b > 0 /\ p \in Nat
    BY RngSizes, PowerDoubles
  <1>2. x \in Nat /\ RngWords = 0 .. b - 1 /\ RngBits \in Nat
    BY RngSizes DEF RngWords
  <1>3. /\ Shl(x, k) = IF k >= RngBits THEN 0 ELSE ((x * p) % b)
        /\ Shl(0, k) = IF k >= RngBits THEN 0 ELSE ((0 * p) % b)
    BY DEF Shl
  <1> HIDE DEF b, p
  <1>4. ((0 * p) % b) = 0
    BY <1>1
  <1>5. ((x * p) % b) \in 0 .. b - 1
    <2>1. x * p \in Int
      BY <1>1, <1>2
    <2> QED BY <1>1, <2>1
  <1> QED BY <1>1, <1>2, <1>3, <1>4, <1>5

\* A whole step is undone, and only zeros give zeros.
LEMMA MixedUndone ==
  ASSUME NEW a \in RngWords, NEW b \in RngWords, NEW c \in RngWords, NEW d \in RngWords
  PROVE  /\ Mixed(<<a, b>>) \in RngWords \X RngWords
         /\ Mixed(<<0, 0>>) = <<0, 0>>
         /\ Mixed(<<a, b>>) = Mixed(<<c, d>>) => a = c /\ b = d
  <1> DEFINE k == 14 % RngBits
             S(x, y) == Xor(x, y)
             F(x, y) == Xor(Xor(Rotl(x, 55), S(x, y)), Shl(S(x, y), k))
             G(x, y) == Rotl(S(x, y), 36)
  <1>1. k \in Nat
    BY RngBitsAssumption
  <1>2. \A x, y \in RngWords : Mixed(<<x, y>>) = <<F(x, y), G(x, y)>>
    BY DEF Mixed
  <1> HIDE DEF k
  <1>3. ASSUME NEW x \in RngWords, NEW y \in RngWords
        PROVE  /\ S(x, y) \in RngWords /\ Rotl(x, 55) \in RngWords
               /\ Shl(S(x, y), k) \in RngWords
               /\ Xor(Rotl(x, 55), S(x, y)) \in RngWords
               /\ F(x, y) \in RngWords /\ G(x, y) \in RngWords
    <2>1. S(x, y) \in RngWords /\ Rotl(x, 55) \in RngWords
      BY XorIs, RotlUndone
    <2> HIDE DEF S
    <2>2. Shl(S(x, y), k) \in RngWords /\ G(x, y) \in RngWords
      BY <1>1, <2>1, ShlIs, RotlUndone
    <2>3. Xor(Rotl(x, 55), S(x, y)) \in RngWords
      BY <2>1, XorIs
    <2>4. F(x, y) \in RngWords
      BY <2>2, <2>3, XorIs
    <2> QED BY <2>1, <2>2, <2>3, <2>4
  <1>4. Mixed(<<0, 0>>) = <<0, 0>>
    <2>1. 0 \in RngWords /\ S(0, 0) = 0 /\ Xor(0, 0) = 0
      BY ZeroIs
    <2>2. Rotl(0, 55) = 0 /\ Rotl(0, 36) = 0
      <3>1. ASSUME NEW j \in Nat PROVE Rotl(0, j) = 0
        <4>1. PICK p \in Nat \ {0}, q \in Nat \ {0} :
                  \A x \in RngWords : Rotl(x, j) = p * (x % q) + x \div q
          BY RotlIs
        <4>2. Rotl(0, j) = p * (0 % q) + 0 \div q
          BY <2>1, <4>1
        <4>3. (0 % q) = 0 /\ 0 \div q = 0
          OBVIOUS
        <4> QED BY <4>2, <4>3
      <3> QED BY <3>1
    <2>3. Shl(0, k) = 0
      BY <1>1, <2>1, ShlIs
    <2>4. F(0, 0) = 0 /\ G(0, 0) = 0
      BY <2>1, <2>2, <2>3
    <2> HIDE DEF F, G
    <2> QED BY <1>2, <2>1, <2>4
  <1>5. ASSUME Mixed(<<a, b>>) = Mixed(<<c, d>>) PROVE a = c /\ b = d
    <2>1. F(a, b) = F(c, d) /\ G(a, b) = G(c, d)
      <3> HIDE DEF F, G
      <3> QED BY <1>2, <1>5
    <2>2. S(a, b) = S(c, d)
      <3>1. S(a, b) \in RngWords /\ S(c, d) \in RngWords
        BY <1>3
      <3> HIDE DEF S
      <3> QED BY <2>1, <3>1, RotlUndone
    <2> DEFINE s == S(a, b)
               e == Rotl(a, 55)
               f == Rotl(c, 55)
    <2>3. /\ s \in RngWords /\ Shl(s, k) \in RngWords /\ e \in RngWords /\ f \in RngWords
          /\ Xor(e, s) \in RngWords /\ Xor(f, s) \in RngWords
      BY <1>3, <2>2
    <2>4. Xor(Xor(e, s), Shl(s, k)) = Xor(Xor(f, s), Shl(s, k))
      BY <2>1, <2>2
    <2>5. s = Xor(a, b) /\ s = Xor(c, d)
      BY <2>2
    <2> HIDE DEF s, e, f, S, F, G
    <2>6. Xor(e, s) = Xor(f, s)
      BY <2>3, <2>4, XorUndone
    <2>7. e = f
      BY <2>3, <2>6, XorUndone
    <2>8. a = c
      BY <2>7, RotlUndone DEF e, f
    <2>9. b = d
      BY <2>5, <2>8, XorUndone
    <2> QED BY <2>8, <2>9
  <1>6. Mixed(<<a, b>>) \in RngWords \X RngWords
    <2> HIDE DEF F, G
    <2> QED BY <1>2, <1>3
  <1> QED BY <1>4, <1>5, <1>6

\* A seed and its complement are not both zero.
LEMMA SeededIs ==
  ASSUME NEW n \in RngWords
  PROVE  Seeded(n) \in RngWords \X RngWords /\ Seeded(n) # <<0, 0>>
  <1> DEFINE b == 2 ^ RngBits
  <1>1. b \in Nat /\ b >= 2 /\ RngWords = 0 .. b - 1 /\ Seeded(n) = <<b - 1 - n, n>>
    BY RngSizes DEF RngWords, Seeded
  <1> HIDE DEF b
  <1>2. b - 1 - n \in 0 .. b - 1 /\ ~(b - 1 - n = 0 /\ n = 0)
    BY <1>1
  <1> QED BY <1>1, <1>2

-----------------------------------------------------------------------------
(***************************************************************************)
(* UniqueRng64: the numbers that follow one another before any is masked,  *)
(* by steps of 1, 2, 4 ...: 2^j steps multiply by one more than a multiple *)
(* of 4 * 2^j and add an odd multiple of 2^j.                              *)
(***************************************************************************)
IsOrbit(f, x, n) ==
    /\ f \in [0 .. n -> Nat]
    /\ f[0] = x
    /\ \A i \in 1 .. n : f[i] = LcgA * f[i - 1] + LcgC

\* Every first number has an orbit.
LEMMA OrbitExists ==
  ASSUME NEW x \in Nat, NEW n \in Nat
  PROVE  \E f : IsOrbit(f, x, n)
  <1> DEFINE step == [p \in Nat \X (1 .. n) |-> LcgA * p[1] + LcgC]
  <1>1. ASSUME NEW p \in Nat \X (1 .. n) PROVE LcgA * p[1] + LcgC \in Nat
    BY LcgAssumption
  <1>2. IsStep(step, n, Nat)
    BY <1>1 DEF IsStep
  <1>3. \A y \in Nat : \A i \in 1 .. n : step[<<y, i>>] = LcgA * y + LcgC
    OBVIOUS
  <1> HIDE DEF step
  <1>4. PICK f : Recurs(f, x, step, n, Nat)
    BY <1>2, Recursion
  <1>5. f \in [0 .. n -> Nat] /\ f[0] = x
    BY <1>4 DEF Recurs
  <1>6. ASSUME NEW i \in 1 .. n PROVE f[i] = LcgA * f[i - 1] + LcgC
    <2>1. f[i] = step[<<f[i - 1], i>>]
      BY <1>4 DEF Recurs
    <2>2. i - 1 \in 0 .. n
      OBVIOUS
    <2>3. f[i - 1] \in Nat
      BY <1>5, <2>2
    <2> QED BY <1>3, <2>1, <2>3
  <1> QED BY <1>5, <1>6 DEF IsOrbit

Strides(f, n, P, q, v) ==
    \A s \in 0 .. n :
        s + P <= n => f[s + P] = (1 + 4 * P * q) * f[s] + P * (2 * v + 1)

\* Two strides are one of the next power.
LEMMA StrideTwice ==
  ASSUME NEW n \in Nat, NEW f \in [0 .. n -> Nat], NEW P \in Nat, NEW q \in Nat, NEW v \in Nat,
         Strides(f, n, P, q, v)
  PROVE  Strides(f, n, 2 * P, q + 2 * P * q * q, v + 2 * P * q * v + P * q)
  <1> DEFINE qq == q + 2 * P * q * q
             vv == v + 2 * P * q * v + P * q
  <1>1. ASSUME NEW s \in 0 .. n, s + 2 * P <= n
        PROVE  f[s + 2 * P] = (1 + 4 * (2 * P) * qq) * f[s] + (2 * P) * (2 * vv + 1)
    <2>1. s + P \in 0 .. n /\ s + P <= n /\ (s + P) + P <= n /\ (s + P) + P = s + 2 * P
      BY <1>1
    <2>2. f[s + P] = (1 + 4 * P * q) * f[s] + P * (2 * v + 1)
      BY <2>1 DEF Strides
    <2>3. f[s + 2 * P] = (1 + 4 * P * q) * f[s + P] + P * (2 * v + 1)
      BY <2>1 DEF Strides
    <2> DEFINE x == f[s]
               y == f[s + P]
               z == f[s + 2 * P]
    <2>4. x \in Nat /\ y \in Nat
      BY <2>1
    <2>5. y = (1 + 4 * P * q) * x + P * (2 * v + 1) /\ z = (1 + 4 * P * q) * y + P * (2 * v + 1)
      BY <2>2, <2>3
    <2> HIDE DEF x, y, z
    <2>6. z = (1 + 4 * P * q) * ((1 + 4 * P * q) * x + P * (2 * v + 1)) + P * (2 * v + 1)
      BY <2>5
    <2>7. (1 + 4 * P * q) * ((1 + 4 * P * q) * x + P * (2 * v + 1)) + P * (2 * v + 1)
             = (1 + 4 * (2 * P) * qq) * x + (2 * P) * (2 * vv + 1)
      BY <2>4
    <2> QED BY <2>6, <2>7 DEF x, z
  <1> HIDE DEF qq, vv
  <1>2. Strides(f, n, 2 * P, qq, vv)
    BY <1>1 DEF Strides
  <1> QED BY <1>2 DEF qq, vv

\* So the steps by each power of two are of that form.
LEMMA StridesOfPowers ==
  ASSUME NEW n \in Nat, NEW x \in Nat, NEW f, IsOrbit(f, x, n), NEW j \in Nat
  PROVE  \E q, v \in Nat : Strides(f, n, 2 ^ j, q, v)
  <1> DEFINE T == {i \in Nat : \E q, v \in Nat : Strides(f, n, 2 ^ i, q, v)}
  <1>0. f \in [0 .. n -> Nat]
    BY DEF IsOrbit
  <1>1. 0 \in T
    <2> DEFINE q == LcgA \div 4
               v == LcgC \div 2
    <2>1. q \in Nat /\ v \in Nat /\ LcgA = 1 + 4 * q /\ LcgC = 2 * v + 1
      BY LcgAssumption
    <2> HIDE DEF q, v
    <2>2. ASSUME NEW s \in 0 .. n, s + 1 <= n
          PROVE  f[s + 1] = (1 + 4 * 1 * q) * f[s] + 1 * (2 * v + 1)
      <3>1. s + 1 \in 1 .. n /\ (s + 1) - 1 = s
        BY <2>2
      <3>2. f[s + 1] = LcgA * f[s] + LcgC
        BY <3>1 DEF IsOrbit
      <3>3. f[s] \in Nat
        BY <1>0
      <3>4. 1 + 4 * 1 * q = LcgA /\ 1 * (2 * v + 1) = LcgC
        BY <2>1
      <3> QED BY <3>2, <3>4
    <2>3. Strides(f, n, 1, q, v)
      BY <2>2 DEF Strides
    <2>4. 2 ^ 0 = 1
      OBVIOUS
    <2> QED BY <2>1, <2>3, <2>4
  <1>2. ASSUME NEW i \in 0 .. j, i \in T PROVE i + 1 \in T
    <2>1. PICK q \in Nat, v \in Nat : Strides(f, n, 2 ^ i, q, v)
      BY <1>2
    <2> DEFINE P == 2 ^ i
               qq == q + 2 * P * q * q
               vv == v + 2 * P * q * v + P * q
    <2>2. P \in Nat /\ 2 ^ (i + 1) = 2 * P
      BY PowerDoubles
    <2>3. Strides(f, n, P, q, v)
      BY <2>1
    <2> HIDE DEF P
    <2>4. Strides(f, n, 2 * P, qq, vv)
      BY <1>0, <2>2, <2>3, StrideTwice
    <2>5. qq \in Nat /\ vv \in Nat
      <3> DEFINE a == P * q
      <3>1. a \in Nat
        BY <2>2
      <3>2. 2 * P * q * q = 2 * (a * q) /\ 2 * P * q * v = 2 * (a * v)
        BY <2>2
      <3> HIDE DEF a
      <3>3. a * q \in Nat /\ a * v \in Nat
        BY <3>1
      <3> QED BY <3>1, <3>2, <3>3 DEF a
    <2> HIDE DEF qq, vv
    <2> QED BY <2>2, <2>4, <2>5
  <1> HIDE DEF T
  <1>3. 0 .. j \subseteq T
    BY <1>1, <1>2, UpwardInduction
  <1> QED BY <1>3 DEF T

Odds(f, P, s, m) == \E w \in Int : f[s + P * m] = f[s] + P * (m + 2 * w)

\* m strides add m times the power, and an even multiple more.
LEMMA Differences ==
  ASSUME NEW n \in Nat, NEW x \in Nat, NEW f, IsOrbit(f, x, n), NEW j \in Nat,
         NEW s \in 0 .. n, NEW m \in Nat, s + 2 ^ j * m <= n
  PROVE  Odds(f, 2 ^ j, s, m)
  <1> DEFINE P == 2 ^ j
             T == {i \in Nat : s + P * i <= n => \E w \in Int : f[s + P * i] = f[s] + P * (i + 2 * w)}
  <1>1. P \in Nat /\ P > 0
    BY PowerDoubles
  <1>2. PICK q \in Nat, v \in Nat : Strides(f, n, P, q, v)
    BY StridesOfPowers
  <1>3. f \in [0 .. n -> Nat]
    BY DEF IsOrbit
  <1> HIDE DEF P
  <1>4. 0 \in T
    <2>1. s + P * 0 = s /\ f[s] \in Nat
      BY <1>1, <1>3
    <2> DEFINE y == f[s]
               d == P * (0 + 2 * 0)
    <2>2. d = 0
      BY <1>1
    <2>3. y \in Nat
      BY <2>1
    <2> HIDE DEF y, d
    <2>4. y = y + d
      BY <2>2, <2>3
    <2>a. f[s] = f[s] + P * (0 + 2 * 0)
      BY <2>4 DEF y, d
    <2>5. \E w \in Int : f[s] = f[s] + P * (0 + 2 * w)
      <3> WITNESS 0 \in Int
      <3> QED BY <2>a
    <2> QED BY <2>1, <2>5
  <1>5. ASSUME NEW i \in 0 .. m, i \in T PROVE i + 1 \in T
    <2> SUFFICES ASSUME s + P * (i + 1) <= n
                 PROVE  \E w \in Int : f[s + P * (i + 1)] = f[s] + P * ((i + 1) + 2 * w)
        OBVIOUS
    <2> DEFINE e == s + P * i
    <2>1. e + P = s + P * (i + 1) /\ e \in 0 .. n /\ e + P <= n
      <3> DEFINE g == P * i
      <3>1. P * (i + 1) = g + P /\ g \in Nat
        BY <1>1
      <3> HIDE DEF g
      <3> QED BY <1>1, <3>1 DEF g
    <2>2. PICK w \in Int : f[e] = f[s] + P * (i + 2 * w)
      BY <1>5, <2>1
    <2> HIDE DEF e
    <2>3. f[e + P] = (1 + 4 * P * q) * f[e] + P * (2 * v + 1)
      BY <1>2, <2>1 DEF Strides
    <2> DEFINE y == f[e]
               u == w + v + 2 * q * y
    <2>4. y \in Nat
      BY <1>3, <2>1
    <2> HIDE DEF y
    <2>5. u \in Int
      BY <2>4
    <2>6. (1 + 4 * P * q) * y + P * (2 * v + 1) = (y - P * (i + 2 * w)) + P * ((i + 1) + 2 * u)
      BY <1>1, <2>4
    <2> HIDE DEF u
    <2>7. y - P * (i + 2 * w) = f[s]
      <3>1. f[s] \in Nat
        BY <1>3
      <3> DEFINE g == P * (i + 2 * w)
      <3>2. g \in Int
        BY <1>1
      <3>3. y = f[s] + g
        BY <2>2 DEF y
      <3> HIDE DEF g
      <3>4. y - g = f[s]
        BY <3>1, <3>2, <3>3
      <3> QED BY <3>4 DEF g
    <2>8. f[e + P] = f[s] + P * ((i + 1) + 2 * u)
      BY <2>3, <2>6, <2>7 DEF y
    <2> QED BY <2>1, <2>5, <2>8
  <1> HIDE DEF T
  <1>6. 0 .. m \subseteq T
    BY <1>4, <1>5, UpwardInduction
  <1>7. m \in T
    BY <1>6
  <1> QED BY <1>7 DEF T, P, Odds

\* As far as j bits tell, two numbers are the same only 2^j steps apart.
LEMMA ApartByPowers ==
  ASSUME NEW n \in Nat, NEW x \in Nat, NEW f, IsOrbit(f, x, n), NEW j \in Nat,
         NEW s \in 0 .. n, NEW t \in 0 .. n, s <= t,
         NEW u \in Int, f[t] - f[s] = 2 ^ j * u
  PROVE  \E m \in Nat : t = s + 2 ^ j * m
  <1> DEFINE Same(i) == \E c \in Int : f[t] - f[s] = 2 ^ i * c
             Apart(i) == \E m \in Nat : t = s + 2 ^ i * m
             T == {i \in Nat : Same(i) => Apart(i)}
  <1>0. f[s] \in Nat /\ f[t] \in Nat
    BY DEF IsOrbit
  <1>1. 0 \in T
    <2>1. 2 ^ 0 = 1
      OBVIOUS
    <2>2. t - s \in Nat /\ t = s + 1 * (t - s)
      OBVIOUS
    <2> QED BY <2>1, <2>2
  <1>2. ASSUME NEW i \in 0 .. j, i \in T PROVE i + 1 \in T
    <2> DEFINE P == 2 ^ i
    <2>1. P \in Nat /\ P > 0 /\ 2 ^ (i + 1) = 2 * P
      BY PowerDoubles
    <2> SUFFICES ASSUME Same(i + 1) PROVE Apart(i + 1)
      <3> HIDE DEF Same, Apart
      <3> QED OBVIOUS
    <2>a. PICK c \in Int : f[t] - f[s] = 2 ^ (i + 1) * c
      OBVIOUS
    <2>2. f[t] - f[s] = P * (2 * c) /\ 2 * c \in Int
      <3> DEFINE d == f[t] - f[s]
      <3>1. d = 2 * P * c
        BY <2>1, <2>a
      <3> HIDE DEF P, d
      <3>2. d = P * (2 * c)
        BY <2>1, <3>1
      <3> QED BY <3>2 DEF d
    <2>b. Apart(i)
      <3>1. Same(i)
        BY <2>2
      <3> HIDE DEF Same, Apart
      <3> QED BY <1>2, <3>1
    <2>3. PICK m \in Nat : t = s + P * m
      BY <2>b
    <2>4. PICK w \in Int : f[s + P * m] = f[s] + P * (m + 2 * w)
      <3>1. s + 2 ^ i * m <= n /\ i \in Nat
        BY <2>3
      <3> HIDE DEF P, Same, Apart, T
      <3>2. Odds(f, 2 ^ i, s, m)
        BY <3>1, Differences
      <3> QED BY <3>2 DEF P, Odds
    <2> HIDE DEF P
    <2> DEFINE d == f[t] - f[s]
    <2>5. d = P * (m + 2 * w) /\ d = P * (2 * c)
      <3> DEFINE g == P * (m + 2 * w)
      <3>1. g \in Int
        BY <2>1
      <3>2. f[t] = f[s] + g
        BY <2>3, <2>4
      <3> HIDE DEF g
      <3>3. d = g
        BY <1>0, <3>1, <3>2
      <3> QED BY <2>2, <3>3 DEF g
    <2> HIDE DEF d
    <2>6. m + 2 * w = 2 * c
      BY <2>1, <2>5
    <2>7. c - w \in Nat /\ m = 2 * (c - w)
      BY <2>6
    <2>8. t = s + (2 * P) * (c - w)
      BY <2>1, <2>3, <2>7
    <2>9. t = s + 2 ^ (i + 1) * (c - w)
      BY <2>1, <2>8
    <2> QED BY <2>7, <2>9
  <1> HIDE DEF T
  <1>3. 0 .. j \subseteq T
    BY <1>1, <1>2, UpwardInduction
  <1>4. j \in T
    BY <1>3
  <1>5. Same(j)
    OBVIOUS
  <1>6. Apart(j)
    <2> HIDE DEF Same, Apart
    <2> QED BY <1>4, <1>5 DEF T
  <1> QED BY <1>6

\* Numbers less than 2^j steps apart differ in their last j bits.
LEMMA OrbitDistinct ==
  ASSUME NEW n \in Nat, NEW x \in Nat, NEW f, IsOrbit(f, x, n), NEW j \in Nat,
         NEW s \in 0 .. n, NEW t \in 0 .. n, s < t, t - s < 2 ^ j
  PROVE  (f[s] % 2 ^ j) # (f[t] % 2 ^ j)
  <1> SUFFICES ASSUME (f[s] % 2 ^ j) = (f[t] % 2 ^ j) PROVE FALSE
      OBVIOUS
  <1> DEFINE P == 2 ^ j
             a == f[s]
             b == f[t]
             u == b \div P - a \div P
  <1>1. P \in Nat /\ P > 0 /\ a \in Nat /\ b \in Nat /\ t - s < P
    BY PowerDoubles DEF IsOrbit
  <1>2. (a % P) = (b % P)
    OBVIOUS
  <1> HIDE DEF P, a, b
  <1>3. u \in Int /\ b - a = P * u
    <2> DEFINE g == a \div P
               h == b \div P
               r == a % P
    <2>0. a \in Int /\ b \in Int /\ P \in Nat \ {0}
      BY <1>1
    <2>1. g \in Int /\ r \in Int /\ a = P * g + r
      BY ONLY <2>0, Division
    <2>a. h \in Int /\ b = P * h + (b % P)
      BY ONLY <2>0, Division
    <2>b. r = (b % P) /\ u = h - g
      BY <1>2
    <2>2. g \in Int /\ h \in Int /\ r \in Int /\ a = P * g + r /\ b = P * h + r /\ u = h - g
      <3> HIDE DEF u, g, h, r
      <3> QED BY <2>1, <2>a, <2>b
    <2> HIDE DEF g, h, r, u
    <2> QED BY <1>1, <2>2
  <1> HIDE DEF u
  <1>4. f[t] - f[s] = 2 ^ j * u
    BY <1>3 DEF a, b, P
  <1>5. PICK m \in Nat : t = s + P * m
    <2>1. \E m \in Nat : t = s + 2 ^ j * m
      BY <1>3, <1>4, ApartByPowers
    <2> QED BY <2>1 DEF P
  <1>6. m = 0 \/ m >= 1
    OBVIOUS
  <1>7. m >= 1 => P * m >= P
    BY <1>1
  <1> QED BY <1>1, <1>5, <1>6, <1>7

-----------------------------------------------------------------------------
(***************************************************************************)
(* What the generator gives is the orbit of its first number, masked.  All *)
(* of one turn are different, so a turn has every number of the range, and *)
(* while not all have been given the next one is still ahead in the turn.  *)
(***************************************************************************)
LEMMA MaskIs ==
  ASSUME NEW r \in 1 .. MaxRange
  PROVE  /\ MaskOf(r) \in Nat
         /\ \E k \in Nat : MaskOf(r) + 1 = 2 ^ k /\ r <= 2 ^ k
  <1>0. r \in Nat /\ r >= 1 /\ r <= Base /\ Base \in Nat
    BY RangeAssumption, WordSizes
  <1>1. CASE r = 1
    <2>1. MaskOf(r) = 0
      BY <1>1 DEF MaskOf
    <2>2. 2 ^ 0 = 1
      OBVIOUS
    <2>3. MaskOf(r) + 1 = 2 ^ 0 /\ r <= 2 ^ 0 /\ MaskOf(r) \in Nat
      BY <1>1, <2>1, <2>2
    <2> QED BY <2>3
  <1>2. CASE r # 1
    <2> DEFINE l == FloorLog2(r - 1)
               p == 2 ^ (l + 1)
    <2>1. r - 1 \in 1 .. Base - 1
      BY <1>0, <1>2
    <2>2. l \in Nat /\ r - 1 < p
      <3>1. l \in 0 .. WordBits - 1 /\ r - 1 < p
        BY <2>1, Logarithm
      <3> HIDE DEF l, p
      <3> QED BY <3>1, WordSizes
    <2>3. MaskOf(r) = p - 1
      BY <1>2 DEF MaskOf
    <2> HIDE DEF l
    <2>4. p \in Nat /\ l + 1 \in Nat
      BY <2>2, PowerDoubles
    <2> HIDE DEF p
    <2>5. MaskOf(r) + 1 = p /\ r <= p /\ MaskOf(r) \in Nat
      BY <1>0, <1>2, <2>2, <2>3, <2>4
    <2> QED BY <2>4, <2>5 DEF p
  <1> QED BY <1>1, <1>2

Follows(f, r, i) ==
    f = [n \in 0 .. MaskOf(r) + 1 |->
            IF n = 0 THEN i ELSE (LcgA * f[n - 1] + LcgC) % (MaskOf(r) + 1)]

\* Following is defined by its recursion.
LEMMA FollowingIs ==
  ASSUME NEW r \in 1 .. MaxRange, NEW i \in 0 .. MaskOf(r)
  PROVE  /\ Following(r, i) \in [0 .. MaskOf(r) + 1 -> 0 .. MaskOf(r)]
         /\ Following(r, i)[0] = i
         /\ \A n \in 1 .. MaskOf(r) + 1 :
               Following(r, i)[n] = (LcgA * Following(r, i)[n - 1] + LcgC) % (MaskOf(r) + 1)
  <1> DEFINE m == MaskOf(r) + 1
             S == 0 .. m - 1
             step == [p \in S \X (1 .. m) |-> (LcgA * p[1] + LcgC) % m]
             g == CHOOSE f : Follows(f, r, i)
  <1>1. MaskOf(r) \in Nat /\ m \in Nat /\ m > 0 /\ S = 0 .. MaskOf(r)
    BY MaskIs
  <1>2. Following(r, i) = g
    BY DEF Following, Follows
  <1> HIDE DEF g
  <1>3. \E f : Follows(f, r, i)
    <2>1. ASSUME NEW p \in S \X (1 .. m) PROVE (LcgA * p[1] + LcgC) % m \in S
      <3> DEFINE a == p[1]
      <3>1. a \in Int
        BY <1>1
      <3> HIDE DEF a, m
      <3>2. LcgA * a + LcgC \in Int
        BY <3>1, LcgAssumption
      <3> DEFINE b == LcgA * a + LcgC
      <3> HIDE DEF b
      <3>3. (b % m) \in 0 .. m - 1
        BY <1>1, <3>2 DEF b
      <3> QED BY <3>3 DEF a, b
    <2>2. IsStep(step, m, S)
      <3> HIDE DEF S
      <3> QED BY <2>1 DEF IsStep
    <2>3. \A y \in S : \A j \in 1 .. m : step[<<y, j>>] = (LcgA * y + LcgC) % m
      <3> HIDE DEF S, m
      <3> QED OBVIOUS
    <2>4. i \in S
      BY <1>1
    <2> HIDE DEF step, S, m
    <2>5. PICK f : Recurs(f, i, step, m, S)
      BY <1>1, <2>2, <2>4, Recursion
    <2>6. f \in [0 .. m -> S] /\ f[0] = i /\ \A j \in 1 .. m : f[j] = step[<<f[j - 1], j>>]
      BY <2>5 DEF Recurs
    <2> DEFINE h == [n \in 0 .. m |-> IF n = 0 THEN i ELSE (LcgA * f[n - 1] + LcgC) % m]
    <2>7. ASSUME NEW n \in 0 .. m PROVE f[n] = h[n]
      <3>1. CASE n = 0
        BY <2>6, <3>1
      <3>2. CASE n # 0
        <4>1. n \in 1 .. m /\ n - 1 \in 0 .. m
          BY <1>1, <3>2
        <4>2. f[n] = step[<<f[n - 1], n>>] /\ f[n - 1] \in S
          BY <2>6, <4>1
        <4>3. f[n] = (LcgA * f[n - 1] + LcgC) % m
          BY <2>3, <4>1, <4>2
        <4> QED BY <3>2, <4>3
      <3> QED BY <3>1, <3>2
    <2>8. f = [n \in 0 .. m |-> f[n]]
      BY <2>6
    <2>9. f = h
      <3>1. h = [n \in 0 .. m |-> h[n]]
        OBVIOUS
      <3> HIDE DEF h
      <3> QED BY <2>7, <2>8, <3>1
    <2>10. Follows(f, r, i)
      BY <2>9 DEF Follows, m
    <2> QED BY <2>10
  <1>4. Follows(g, r, i)
    BY <1>3 DEF g
  <1>5. g = [n \in 0 .. m |-> IF n = 0 THEN i ELSE (LcgA * g[n - 1] + LcgC) % m]
    BY <1>4 DEF Follows
  <1>6. g[0] = i /\ i \in S
    <2> HIDE DEF m
    <2>1. 0 \in 0 .. m
      BY <1>1
    <2>2. g[0] = i
      BY <1>5, <2>1
    <2> QED BY <1>1, <2>2
  <1>7. \A n \in 1 .. m : g[n] = (LcgA * g[n - 1] + LcgC) % m
    <2> HIDE DEF m
    <2> TAKE n \in 1 .. m
    <2>1. n \in 0 .. m /\ n # 0
      BY <1>1
    <2> QED BY <1>5, <2>1
  <1>8. \A n \in 0 .. m : g[n] \in S
    <2> DEFINE T == {n \in Nat : n <= m => g[n] \in S}
    <2>1. 0 \in T
      BY <1>6
    <2>2. ASSUME NEW n \in 0 .. m, n < m, n \in T PROVE n + 1 \in T
      <3> DEFINE b == LcgA * g[n] + LcgC
      <3>1. g[n] \in S
        BY <2>2
      <3>2. b \in Int
        <4> DEFINE a == g[n]
        <4>1. a \in Int
          BY <1>1, <3>1
        <4> HIDE DEF a
        <4>2. LcgA * a + LcgC \in Int
          BY <4>1, LcgAssumption
        <4> QED BY <4>2 DEF a
      <3>3. g[n + 1] = b % m
        <4> HIDE DEF m
        <4>1. n + 1 \in 1 .. m /\ (n + 1) - 1 = n
          BY <1>1, <2>2
        <4> QED BY <1>7, <4>1
      <3> HIDE DEF b, m
      <3>4. (b % m) \in 0 .. m - 1
        BY <1>1, <3>2
      <3> QED BY <3>3, <3>4
    <2> HIDE DEF T, m
    <2>3. 0 .. m \subseteq T
      BY <1>1, <2>1, <2>2, UpwardInduction
    <2> QED BY <1>1, <2>3 DEF T
  <1>9. g \in [0 .. m -> S]
    <2> HIDE DEF m, S
    <2> QED BY <1>5, <1>8
  <1> QED BY <1>1, <1>2, <1>6, <1>7, <1>9

\* Masking each number or only the last comes to the same.
LEMMA MaskedStep ==
  ASSUME NEW m \in Nat \ {0}, NEW y \in Nat
  PROVE  (LcgA * (y % m) + LcgC) % m = (LcgA * y + LcgC) % m
  <1> DEFINE q == y \div m
             z == y % m
             a == LcgA * z + LcgC
             b == LcgA * y + LcgC
             s == a \div m
             t == a % m
  <1>1. q \in Int /\ z \in Int /\ y = m * q + z
    BY Division
  <1> HIDE DEF q, z
  <1>2. LcgA \in Nat /\ LcgC \in Nat
    BY LcgAssumption
  <1>3. a \in Int /\ b \in Int /\ b = m * (LcgA * q) + a /\ LcgA * q \in Int
    BY <1>1, <1>2
  <1> HIDE DEF a, b
  <1>4. s \in Int /\ t \in 0 .. m - 1 /\ a = m * s + t
    BY <1>3, Division
  <1> HIDE DEF s, t
  <1> DEFINE e == LcgA * q
             g == e + s
  <1>5. e \in Int /\ b = m * e + a
    BY <1>3
  <1> HIDE DEF e
  <1>6. g \in Int /\ b = m * g + t /\ t \in Int /\ 0 <= t /\ t < m
    BY <1>4, <1>5
  <1> HIDE DEF g
  <1>7. (b % m) = t
    BY <1>3, <1>6, DivisionIs
  <1> QED BY <1>7 DEF a, b, z, t

\* What follows a number of the orbit is the orbit, masked.
LEMMA FollowingOrbit ==
  ASSUME NEW r \in 1 .. MaxRange, NEW x \in Nat, NEW f, IsOrbit(f, x, MaskOf(r) + 1),
         NEW n \in 0 .. MaskOf(r) + 1, NEW t \in Nat, n + t <= MaskOf(r) + 1
  PROVE  Following(r, f[n] % (MaskOf(r) + 1))[t] = f[n + t] % (MaskOf(r) + 1)
  <1> DEFINE m == MaskOf(r) + 1
             i == f[n] % m
             g == Following(r, i)
             T == {k \in Nat : n + k <= m => g[k] = f[n + k] % m}
  <1>1. m \in Nat \ {0} /\ MaskOf(r) = m - 1 /\ r <= m
    <2>1. MaskOf(r) \in Nat /\ \E k \in Nat : m = 2 ^ k /\ r <= 2 ^ k
      BY MaskIs
    <2> QED BY <2>1
  <1>2. f \in [0 .. m -> Nat] /\ \A j \in 1 .. m : f[j] = LcgA * f[j - 1] + LcgC
    BY DEF IsOrbit
  <1>3. i \in 0 .. MaskOf(r)
    <2>1. f[n] \in Nat
      BY <1>2
    <2> DEFINE a == f[n]
    <2> HIDE DEF m, a
    <2>2. (a % m) \in 0 .. m - 1
      BY <1>1, <2>1 DEF a
    <2> QED BY <1>1, <2>2 DEF a
  <1> HIDE DEF i
  <1>4. g[0] = i /\ \A j \in 1 .. m : g[j] = (LcgA * g[j - 1] + LcgC) % m
    BY <1>3, FollowingIs
  <1> HIDE DEF g, m
  <1>5. 0 \in T
    BY <1>1, <1>4 DEF i, m
  <1>6. ASSUME NEW k \in 0 .. t, k \in T PROVE k + 1 \in T
    <2> SUFFICES ASSUME n + (k + 1) <= m PROVE g[k + 1] = f[n + (k + 1)] % m
        OBVIOUS
    <2>1. n \in Nat /\ n + k \in 0 .. m
      BY <1>1 DEF m
    <2>2. g[k] = f[n + k] % m /\ f[n + k] \in Nat
      BY <1>1, <1>2, <1>6, <2>1
    <2>3. k + 1 \in 1 .. m /\ (k + 1) - 1 = k
      BY <1>1, <2>1
    <2>4. g[k + 1] = (LcgA * g[k] + LcgC) % m
      BY <1>4, <2>3
    <2>5. n + (k + 1) \in 1 .. m /\ (n + (k + 1)) - 1 = n + k
      BY <1>1, <2>1
    <2>6. f[n + (k + 1)] = LcgA * f[n + k] + LcgC
      BY <1>2, <2>5
    <2> HIDE DEF T
    <2>7. (LcgA * (f[n + k] % m) + LcgC) % m = (LcgA * f[n + k] + LcgC) % m
      BY <1>1, <2>2, MaskedStep
    <2> QED BY <2>2, <2>4, <2>6, <2>7
  <1> HIDE DEF T
  <1>7. 0 .. t \subseteq T
    BY <1>5, <1>6, UpwardInduction
  <1>8. t \in T
    BY <1>7
  <1> QED BY <1>8 DEF T, g, i, m

\* The numbers of one turn are all of them.
LEMMA OrbitFull ==
  ASSUME NEW r \in 1 .. MaxRange, NEW x \in Nat, NEW f, IsOrbit(f, x, MaskOf(r) + 1)
  PROVE  /\ \A s, t \in 1 .. MaskOf(r) + 1 :
               f[s] % (MaskOf(r) + 1) = f[t] % (MaskOf(r) + 1) => s = t
         /\ \A v \in 0 .. r - 1 : \E n \in 1 .. MaskOf(r) + 1 : f[n] % (MaskOf(r) + 1) = v
  <1> DEFINE m == MaskOf(r) + 1
  <1>1. PICK k \in Nat : m = 2 ^ k /\ r <= 2 ^ k
    BY MaskIs
  <1>2. m \in Nat \ {0} /\ r <= m
    BY <1>1, PowerDoubles
  <1>3. IsOrbit(f, x, m)
    OBVIOUS
  <1> HIDE DEF m
  <1>4. f \in [0 .. m -> Nat]
    BY <1>3 DEF IsOrbit
  <1>5. ASSUME NEW s \in 1 .. m, NEW t \in 1 .. m, s < t PROVE (f[s] % m) # (f[t] % m)
    <2>1. s \in 0 .. m /\ t \in 0 .. m /\ t - s < 2 ^ k
      BY <1>1, <1>2, <1>5
    <2>2. (f[s] % 2 ^ k) # (f[t] % 2 ^ k)
      BY <1>2, <1>3, <1>5, <2>1, OrbitDistinct
    <2> QED BY <1>1, <2>2
  <1>6. \A s, t \in 1 .. m : (f[s] % m) = (f[t] % m) => s = t
    <2> SUFFICES ASSUME NEW s \in 1 .. m, NEW t \in 1 .. m, (f[s] % m) = (f[t] % m)
                 PROVE  s = t
        OBVIOUS
    <2>1. s < t \/ t < s \/ s = t
      OBVIOUS
    <2> QED BY <1>5, <2>1
  <1> DEFINE A == 1 .. m
             B == 0 .. m - 1
             g == [n \in A |-> f[n] % m]
  <1>7. ASSUME NEW n \in 1 .. m PROVE (f[n] % m) \in 0 .. m - 1
    <2> DEFINE y == f[n]
    <2>1. n \in 0 .. m
      BY <1>2
    <2>2. y \in Nat
      BY <1>4, <2>1
    <2> HIDE DEF y
    <2>3. (y % m) \in 0 .. m - 1
      BY <1>2, <2>2
    <2> QED BY <2>3 DEF y
  <1>8. /\ IsFiniteSet(A) /\ IsFiniteSet(B)
        /\ Cardinality(A) = m /\ Cardinality(B) = m
    <2>1. IsFiniteSet(A) /\ Cardinality(A) = IF 1 > m THEN 0 ELSE m - 1 + 1
      BY <1>2, FS_Interval
    <2>2. IsFiniteSet(B) /\ Cardinality(B) = IF 0 > m - 1 THEN 0 ELSE (m - 1) - 0 + 1
      BY <1>2, FS_Interval
    <2> QED BY <1>2, <2>1, <2>2
  <1>9. g \in Injection(A, B)
    BY <1>6, <1>7 DEF Injection, IsInjective
  <1>10. g \in Surjection(A, B)
    <2> HIDE DEF A, B, g
    <2> QED BY <1>8, <1>9, FS_Injection
  <1>11. ASSUME NEW v \in 0 .. r - 1 PROVE \E n \in 1 .. m : f[n] % m = v
    <2>1. v \in B
      BY <1>2
    <2>2. \E n \in A : g[n] = v
      <3> HIDE DEF A, B, g
      <3> QED BY <1>10, <2>1 DEF Surjection
    <2> QED BY <2>2
  <1> QED BY <1>6, <1>11 DEF m

\* While a number of the range is missing, the next one is the first of the
\* range that is still ahead.
LEMMA NextNumber ==
  ASSUME NEW r \in 1 .. MaxRange, NEW x \in Nat, NEW f, IsOrbit(f, x, MaskOf(r) + 1),
         NEW n \in 0 .. MaskOf(r) + 1, NEW v \in 0 .. r - 1,
         \A p \in 1 .. n : f[p] % (MaskOf(r) + 1) # v
  PROVE  \E p \in n + 1 .. MaskOf(r) + 1 :
            /\ Lcg(r, f[n] % (MaskOf(r) + 1)) = f[p] % (MaskOf(r) + 1)
            /\ f[p] % (MaskOf(r) + 1) \in 0 .. r - 1
            /\ \A q \in n + 1 .. p - 1 : f[q] % (MaskOf(r) + 1) \notin 0 .. r - 1
  <1> DEFINE m == MaskOf(r) + 1
             y(p) == f[p] % m
             T == {p \in n + 1 .. m : y(p) \in 0 .. r - 1}
             g == Following(r, y(n))
             First(t) == ~OutOfRange(g[t], r) /\ \A l \in 1 .. t - 1 : OutOfRange(g[l], r)
             c == CHOOSE t \in 1 .. m : First(t)
  <1>1. m \in Nat \ {0} /\ n \in Nat
    BY MaskIs
  <1>2. \E p \in 1 .. m : y(p) = v
    BY OrbitFull
  <1>3. f \in [0 .. m -> Nat]
    BY DEF IsOrbit
  <1>4. \A t \in Nat : n + t <= m => g[t] = y(n + t)
    <2> SUFFICES ASSUME NEW t \in Nat, n + t <= m PROVE g[t] = y(n + t)
        OBVIOUS
    <2> QED BY FollowingOrbit
  <1>5. Lcg(r, y(n)) = g[c]
    BY DEF Lcg
  <1>6. \A p \in 0 .. m : y(p) \in 0 .. m - 1
    <2> SUFFICES ASSUME NEW p \in 0 .. m PROVE y(p) \in 0 .. m - 1
        OBVIOUS
    <2> DEFINE a == f[p]
    <2>1. a \in Nat
      BY <1>3
    <2> HIDE DEF a, m
    <2>2. (a % m) \in 0 .. m - 1
      BY <1>1, <2>1
    <2> QED BY <2>2 DEF a
  <1>7. \A p \in 1 .. n : y(p) # v
    OBVIOUS
  <1>8. n \in 0 .. m
    OBVIOUS
  <1> HIDE DEF m, y, g
  <1>9. T \in SUBSET Nat /\ T # {}
    <2>1. PICK p \in 1 .. m : y(p) = v
      BY <1>2
    <2>2. p \notin 1 .. n
      BY <1>7, <2>1
    <2>3. p \in n + 1 .. m
      BY <1>1, <2>2
    <2> QED BY <1>1, <2>1, <2>3
  <1>10. \E p \in T : \A q \in T : p <= q
    <2> HIDE DEF T
    <2> QED BY <1>9, LeastNumber
  <1>11. PICK p \in T : \A q \in T : p <= q
    BY <1>10
  <1>12. /\ p \in n + 1 .. m /\ y(p) \in 0 .. r - 1
         /\ \A q \in n + 1 .. p - 1 : y(q) \notin 0 .. r - 1
    <2>1. p \in n + 1 .. m /\ y(p) \in 0 .. r - 1
      BY <1>11
    <2>2. ASSUME NEW q \in n + 1 .. p - 1 PROVE y(q) \notin 0 .. r - 1
      <3>1. q \in n + 1 .. m /\ ~(p <= q)
        BY <1>1, <2>1
      <3> QED BY <1>11, <3>1
    <2> QED BY <2>1, <2>2
  <1>13. \A t \in 1 .. m : n + t <= m => (OutOfRange(g[t], r) <=> y(n + t) \notin 0 .. r - 1)
    <2> SUFFICES ASSUME NEW t \in 1 .. m, n + t <= m
                 PROVE  OutOfRange(g[t], r) <=> y(n + t) \notin 0 .. r - 1
        OBVIOUS
    <2>1. g[t] = y(n + t) /\ y(n + t) \in 0 .. m - 1
      BY <1>1, <1>4, <1>6
    <2> QED BY <1>1, <2>1 DEF OutOfRange
  <1>14. First(p - n) /\ p - n \in 1 .. m
    <2>1. p - n \in 1 .. m /\ n + (p - n) = p
      BY <1>1, <1>12
    <2>2. ~OutOfRange(g[p - n], r)
      BY <1>12, <1>13, <2>1
    <2>3. ASSUME NEW l \in 1 .. (p - n) - 1 PROVE OutOfRange(g[l], r)
      <3>1. l \in 1 .. m /\ n + l <= m /\ n + l \in n + 1 .. p - 1
        BY <1>1, <1>12
      <3> QED BY <1>12, <1>13, <3>1
    <2> QED BY <2>1, <2>2, <2>3
  <1>15. c = p - n
    <2>1. \A t \in 1 .. m : First(t) => t = p - n
      <3> SUFFICES ASSUME NEW t \in 1 .. m, First(t) PROVE t = p - n
          OBVIOUS
      <3>1. ~(t < p - n)
        <4> SUFFICES ASSUME t < p - n PROVE FALSE
            OBVIOUS
        <4>1. t \in 1 .. (p - n) - 1
          BY <1>14
        <4> QED BY <1>14, <4>1
      <3>2. ~(p - n < t)
        <4> SUFFICES ASSUME p - n < t PROVE FALSE
            OBVIOUS
        <4>1. p - n \in 1 .. t - 1
          BY <1>14
        <4> QED BY <1>14, <4>1
      <3> QED BY <1>14, <3>1, <3>2
    <2> HIDE DEF First
    <2> QED BY <1>14, <2>1
  <1>16. Lcg(r, y(n)) = y(p)
    <2>1. p - n \in Nat /\ n + (p - n) = p /\ p <= m
      BY <1>1, <1>12
    <2>2. g[p - n] = y(p)
      BY <1>4, <2>1
    <2> HIDE DEF c
    <2> QED BY <1>5, <1>15, <2>2
  <1> HIDE DEF T
  <1>17. \E z \in n + 1 .. m :
            /\ Lcg(r, y(n)) = y(z)
            /\ y(z) \in 0 .. r - 1
            /\ \A q \in n + 1 .. z - 1 : y(q) \notin 0 .. r - 1
    BY <1>12, <1>16
  <1> QED BY <1>17 DEF y, m

-----------------------------------------------------------------------------
(***************************************************************************)
(* The inductive invariant.  A state of words is never zero; the numbers   *)
(* given are those of the range among the first n of the orbit.            *)
(***************************************************************************)
NeverZero == rng = <<>> \/ (rng \in RngWords \X RngWords /\ rng # <<0, 0>>)

GivenUpTo(r, i, out, f, n) ==
    /\ i = f[n] % (MaskOf(r) + 1)
    /\ \A v \in 0 .. r - 1 :
          (\E p \in 1 .. n : f[p] % (MaskOf(r) + 1) = v) <=> \E k \in 1 .. Len(out) : out[k] = v

OneTurn(r, i, out) ==
    \E x \in Nat : \E f : \E n \in 0 .. MaskOf(r) + 1 :
        IsOrbit(f, x, MaskOf(r) + 1) /\ GivenUpTo(r, i, out, f, n)

Different(out) == \A i, j \in 1 .. Len(out) : out[i] = out[j] => i = j

OfOneTurn(r, i, out) ==
    /\ r \in 0 .. MaxRange /\ out \in Seq(0 .. r - 1)
    /\ Different(out)
    /\ r > 0 => OneTurn(r, i, out)

GeneratorInv == NeverZero /\ OfOneTurn(range, idx, seen)

\* No step of XoroShiro128Plus gives zeros.
LEMMA SeedKeeps ==
  ASSUME NeverZero, XoroNext
  PROVE  NeverZero'
  <1>1. CASE \E n \in RngWords : Seed(n)
    <2>1. PICK n \in RngWords : rng' = Seeded(n)
      BY <1>1 DEF Seed
    <2> QED BY <2>1, SeededIs DEF NeverZero
  <1>2. CASE NextWord
    <2>1. rng \in RngWords \X RngWords /\ rng # <<0, 0>> /\ rng' = Mixed(rng)
      BY <1>2 DEF NextWord, NeverZero
    <2>2. PICK a \in RngWords, b \in RngWords : rng = <<a, b>>
      BY <2>1
    <2>3. 0 \in RngWords
      BY ZeroIs
    <2>4. /\ Mixed(<<a, b>>) \in RngWords \X RngWords
          /\ Mixed(<<0, 0>>) = <<0, 0>>
          /\ Mixed(<<a, b>>) = Mixed(<<0, 0>>) => a = 0 /\ b = 0
      BY <2>3, MixedUndone
    <2>5. rng' # <<0, 0>>
      BY <2>1, <2>2, <2>4
    <2> QED BY <2>1, <2>2, <2>4, <2>5 DEF NeverZero
  <1> QED BY <1>1, <1>2 DEF XoroNext

\* A new generator is at the start of a turn.
LEMMA FirstOfTurn ==
  ASSUME NEW r \in 1 .. MaxRange, NEW i \in 0 .. r - 1
  PROVE  OfOneTurn(r, i, <<>>)
  <1> DEFINE m == MaskOf(r) + 1
  <1>1. m \in Nat \ {0} /\ r <= m
    <2>1. MaskOf(r) \in Nat /\ \E k \in Nat : m = 2 ^ k /\ r <= 2 ^ k
      BY MaskIs
    <2> QED BY <2>1
  <1>2. i \in Nat
    OBVIOUS
  <1>3. PICK f : IsOrbit(f, i, m)
    <2> HIDE DEF m
    <2> QED BY <1>1, <1>2, OrbitExists
  <1>4. f[0] = i /\ 0 \in 0 .. m
    BY <1>1, <1>3 DEF IsOrbit
  <1>5. i = f[0] % m
    <2> HIDE DEF m
    <2>1. (i % m) = i
      BY <1>1
    <2> QED BY <1>4, <2>1
  <1>6. Len(<<>>) = 0 /\ \A S : <<>> \in Seq(S)
    BY EmptySeq
  <1>7. GivenUpTo(r, i, <<>>, f, 0)
    BY <1>5, <1>6 DEF GivenUpTo
  <1>8. OneTurn(r, i, <<>>)
    BY <1>2, <1>3, <1>4, <1>7 DEF OneTurn
  <1>9. Different(<<>>)
    BY <1>6 DEF Different
  <1>10. r \in 0 .. MaxRange
    OBVIOUS
  <1> QED BY <1>6, <1>8, <1>9, <1>10 DEF OfOneTurn

\* A sequence that is too short has not every number.
LEMMA OneMissing ==
  ASSUME NEW r \in Nat, NEW out \in Seq(0 .. r - 1), Len(out) < r
  PROVE  \E v \in 0 .. r - 1 : \A k \in 1 .. Len(out) : out[k] # v
  <1> SUFFICES ASSUME \A v \in 0 .. r - 1 : \E k \in 1 .. Len(out) : out[k] = v
               PROVE  FALSE
      OBVIOUS
  <1> DEFINE l == Len(out)
             A == 1 .. l
             B == 0 .. r - 1
  <1>1. l \in Nat /\ out \in [A -> B]
    BY LenProperties
  <1>2. out \in Surjection(A, B)
    BY <1>1 DEF Surjection
  <1>3. IsFiniteSet(A) /\ Cardinality(A) = IF 1 > l THEN 0 ELSE l - 1 + 1
    <2> HIDE DEF l
    <2> QED BY <1>1, FS_Interval
  <1>4. Cardinality(B) = IF 0 > r - 1 THEN 0 ELSE (r - 1) - 0 + 1
    BY FS_Interval
  <1>5. Cardinality(B) <= Cardinality(A)
    <2> HIDE DEF A, B
    <2> QED BY <1>2, <1>3, FS_Surjection
  <1> HIDE DEF A, B
  <1> QED BY <1>1, <1>3, <1>4, <1>5

\* The next number is one of the range that was not given.
LEMMA NextOfTurn ==
  ASSUME NEW r \in 1 .. MaxRange, NEW i, NEW out, OfOneTurn(r, i, out), Len(out) < r
  PROVE  /\ Lcg(r, i) \in 0 .. r - 1
         /\ OfOneTurn(r, Lcg(r, i), Append(out, Lcg(r, i)))
  <1> DEFINE m == MaskOf(r) + 1
             j == Lcg(r, i)
             more == Append(out, j)
             l == Len(out)
  <1>1. out \in Seq(0 .. r - 1) /\ Different(out) /\ OneTurn(r, i, out) /\ r \in Nat
    BY DEF OfOneTurn
  <1>a. PICK x \in Nat : \E f : \E n \in 0 .. m : IsOrbit(f, x, m) /\ GivenUpTo(r, i, out, f, n)
    BY <1>1 DEF OneTurn
  <1>b. PICK f : \E n \in 0 .. m : IsOrbit(f, x, m) /\ GivenUpTo(r, i, out, f, n)
    BY <1>a
  <1>2. PICK n \in 0 .. m : IsOrbit(f, x, m) /\ GivenUpTo(r, i, out, f, n)
    BY <1>b
  <1> DEFINE y(p) == f[p] % m
  <1>3. i = y(n) /\ \A v \in 0 .. r - 1 : (\E p \in 1 .. n : y(p) = v) <=> \E k \in 1 .. l : out[k] = v
    BY <1>2 DEF GivenUpTo
  <1>4. PICK v \in 0 .. r - 1 : \A k \in 1 .. l : out[k] # v
    BY <1>1, OneMissing
  <1>5. \A p \in 1 .. n : y(p) # v
    BY <1>3, <1>4
  <1>6. PICK p \in n + 1 .. m :
            /\ Lcg(r, y(n)) = y(p)
            /\ y(p) \in 0 .. r - 1
            /\ \A q \in n + 1 .. p - 1 : y(q) \notin 0 .. r - 1
    BY <1>2, <1>4, <1>5, NextNumber
  <1>7. \A s, t \in 1 .. m : y(s) = y(t) => s = t
    BY <1>2, OrbitFull
  <1>8. m \in Nat \ {0} /\ n \in Nat /\ p \in 1 .. m /\ p \in Nat /\ n < p
    BY <1>6, MaskIs
  <1>9. l \in Nat
    BY <1>1, LenProperties
  <1>10. j = y(p) /\ j \in 0 .. r - 1
    BY <1>3, <1>6
  <1>11. /\ more \in Seq(0 .. r - 1) /\ Len(more) = l + 1
         /\ \A k \in 1 .. l : more[k] = out[k]
         /\ more[l + 1] = j
    <2> HIDE DEF j
    <2> QED BY <1>1, <1>9, <1>10, AppendProperties
  <1> HIDE DEF more, j, y, l
  <1>12. \A w \in 0 .. r - 1 : (\E q \in 1 .. p : y(q) = w) <=> \E k \in 1 .. Len(more) : more[k] = w
    <2> SUFFICES ASSUME NEW w \in 0 .. r - 1
                 PROVE  (\E q \in 1 .. p : y(q) = w) <=> \E k \in 1 .. Len(more) : more[k] = w
        OBVIOUS
    <2>1. ASSUME NEW q \in 1 .. p, y(q) = w PROVE \E k \in 1 .. Len(more) : more[k] = w
      <3>1. CASE q = p
        <4>1. l + 1 \in 1 .. Len(more) /\ more[l + 1] = w
          BY <1>9, <1>10, <1>11, <2>1, <3>1
        <4> QED BY <4>1
      <3>2. CASE q # p
        <4>1. q \notin n + 1 .. p - 1
          BY <1>6, <2>1
        <4>2. q \in 1 .. n
          BY <1>8, <3>2, <4>1
        <4>3. PICK k \in 1 .. l : out[k] = w
          BY <1>3, <2>1, <4>2
        <4>4. k \in 1 .. Len(more) /\ more[k] = w
          BY <1>9, <1>11, <4>3
        <4> QED BY <4>4
      <3> QED BY <3>1, <3>2
    <2>2. ASSUME NEW k \in 1 .. Len(more), more[k] = w PROVE \E q \in 1 .. p : y(q) = w
      <3>1. CASE k = l + 1
        <4>1. p \in 1 .. p /\ y(p) = w
          BY <1>8, <1>10, <1>11, <2>2, <3>1
        <4> QED BY <4>1
      <3>2. CASE k # l + 1
        <4>1. k \in 1 .. l
          BY <1>9, <1>11, <3>2
        <4>2. out[k] = w
          BY <1>11, <2>2, <4>1
        <4>3. PICK q \in 1 .. n : y(q) = w
          BY <1>3, <4>1, <4>2
        <4>4. q \in 1 .. p
          BY <1>8
        <4> QED BY <4>3, <4>4
      <3> QED BY <3>1, <3>2
    <2> QED BY <2>1, <2>2
  <1>13. Different(more)
    <2> SUFFICES ASSUME NEW a \in 1 .. Len(more), NEW b \in 1 .. Len(more), more[a] = more[b]
                 PROVE  a = b
        BY DEF Different
    <2>1. ASSUME NEW c \in 1 .. l PROVE more[c] # more[l + 1]
      <3> SUFFICES ASSUME out[c] = j PROVE FALSE
          BY <1>11
      <3>1. PICK q \in 1 .. n : y(q) = j
        BY <1>3, <1>10
      <3>2. q \in 1 .. m /\ q # p
        BY <1>8
      <3> QED BY <1>7, <1>8, <1>10, <3>1, <3>2
    <2>2. CASE a \in 1 .. l /\ b \in 1 .. l
      BY <1>1, <1>11, <2>2 DEF Different, l
    <2>3. CASE a \notin 1 .. l \/ b \notin 1 .. l
      <3>1. \A c \in 1 .. Len(more) : c \in 1 .. l \/ c = l + 1
        BY <1>9, <1>11
      <3> QED BY <2>1, <2>3, <3>1
    <2> QED BY <2>2, <2>3
  <1>14. OneTurn(r, j, more)
    <2>1. GivenUpTo(r, j, more, f, p)
      BY <1>10, <1>12 DEF GivenUpTo, y, m
    <2>2. p \in 0 .. m
      BY <1>8
    <2> QED BY <1>2, <2>1, <2>2 DEF OneTurn, m
  <1>15. r \in 0 .. MaxRange
    OBVIOUS
  <1> QED BY <1>10, <1>11, <1>13, <1>14, <1>15 DEF OfOneTurn, j, more

\* Both steps of UniqueRng64 keep the turn.
LEMMA UniqueKeeps ==
  ASSUME OfOneTurn(range, idx, seen), UniqueNext
  PROVE  OfOneTurn(range, idx, seen)'
  <1>1. CASE \E r \in 1 .. MaxRange : \E i \in 0 .. r - 1 : MakeUnique(r, i)
    <2>0. PICK r \in 1 .. MaxRange : \E i \in 0 .. r - 1 : MakeUnique(r, i)
      BY <1>1
    <2>1. PICK i \in 0 .. r - 1 : range' = r /\ idx' = i /\ seen' = <<>>
      BY <2>0 DEF MakeUnique
    <2>2. OfOneTurn(r, i, <<>>)
      BY FirstOfTurn
    <2> QED BY <2>1, <2>2
  <1>2. CASE NextUnique
    <2>1. /\ range > 0 /\ Len(seen) < range /\ range' = range
          /\ idx' = Lcg(range, idx) /\ seen' = Append(seen, Lcg(range, idx))
      BY <1>2 DEF NextUnique
    <2>2. range \in 1 .. MaxRange
      <3>1. range \in 0 .. MaxRange
        BY DEF OfOneTurn
      <3> QED BY <2>1, <3>1
    <2>3. OfOneTurn(range, Lcg(range, idx), Append(seen, Lcg(range, idx)))
      BY <2>1, <2>2, NextOfTurn
    <2> QED BY <2>1, <2>3
  <1> QED BY <1>1, <1>2 DEF UniqueNext

\* The invariant is what the property asks for.
LEMMA GeneratorInvFull ==
  ASSUME GeneratorInv
  PROVE  GeneratorsAreFull
  <1>1. ASSUME rng # <<>>
        PROVE  /\ rng # <<0, 0>>
               /\ \A s \in {<<x, y>> : x \in RngWords, y \in RngWords} :
                     Mixed(s) = Mixed(rng) => s = rng
    <2>1. rng \in RngWords \X RngWords /\ rng # <<0, 0>>
      BY <1>1 DEF GeneratorInv, NeverZero
    <2>2. PICK c \in RngWords, d \in RngWords : rng = <<c, d>>
      BY <2>1
    <2>3. ASSUME NEW a \in RngWords, NEW b \in RngWords, Mixed(<<a, b>>) = Mixed(rng)
          PROVE  <<a, b>> = rng
      BY <2>2, <2>3, MixedUndone
    <2> QED BY <2>1, <2>3
  <1>2. ASSUME NEW i \in DOMAIN seen
        PROVE  /\ seen[i] \in 0 .. range - 1
               /\ \A j \in 1 .. i - 1 : seen[i] # seen[j]
    <2>1. seen \in Seq(0 .. range - 1) /\ Different(seen)
      BY DEF GeneratorInv, OfOneTurn
    <2>2. i \in 1 .. Len(seen) /\ Len(seen) \in Nat /\ seen[i] \in 0 .. range - 1
      BY <2>1, LenProperties, ElementOfSeq
    <2>3. ASSUME NEW j \in 1 .. i - 1 PROVE seen[i] # seen[j]
      <3>1. j \in 1 .. Len(seen) /\ i # j
        BY <2>2
      <3> QED BY <2>1, <2>2, <3>1 DEF Different
    <2> QED BY <2>2, <2>3
  <1> QED BY <1>1, <1>2 DEF GeneratorsAreFull

(***************************************************************************)
(* Whatever the width of a word, the range, and the constants of the       *)
(* generator that are 1 modulo 4 and odd: neither generator gets stuck.    *)
(* XoroShiro128Plus never reaches the state of zeros and every state has   *)
(* one predecessor; UniqueRng64 gives no number of its range twice before  *)
(* it has given all.                                                       *)
(***************************************************************************)
THEOREM GeneratorsStayFull == GeneratorSpec => []GeneratorsAreFull
  <1>1. GeneratorInit => GeneratorInv
    <2> SUFFICES ASSUME GeneratorInit PROVE GeneratorInv
        OBVIOUS
    <2>1. rng = <<>> /\ range = 0 /\ seen = <<>>
      BY DEF GeneratorInit
    <2>2. Len(<<>>) = 0 /\ \A S : <<>> \in Seq(S)
      BY EmptySeq
    <2>3. 0 \in 0 .. MaxRange
      BY RangeAssumption, WordSizes
    <2>4. Different(<<>>)
      BY <2>2 DEF Different
    <2> QED BY <2>1, <2>2, <2>3, <2>4 DEF GeneratorInv, NeverZero, OfOneTurn
  <1>2. GeneratorInv /\ [GeneratorNext]_generatorVars => GeneratorInv'
    <2> SUFFICES ASSUME GeneratorInv, [GeneratorNext]_generatorVars PROVE GeneratorInv'
        OBVIOUS
    <2>1. CASE XoroNext
      <3>1. NeverZero'
        BY <2>1, SeedKeeps DEF GeneratorInv
      <3>2. UNCHANGED <<range, idx, seen>>
        BY <2>1 DEF XoroNext, Seed, NextWord
      <3> QED BY <3>1, <3>2 DEF GeneratorInv
    <2>2. CASE UniqueNext
      <3>1. OfOneTurn(range, idx, seen)'
        BY <2>2, UniqueKeeps DEF GeneratorInv
      <3>2. UNCHANGED rng
        BY <2>2 DEF UniqueNext, MakeUnique, NextUnique
      <3> QED BY <3>1, <3>2 DEF GeneratorInv, NeverZero
    <2>3. CASE UNCHANGED generatorVars
      BY <2>3 DEF generatorVars, GeneratorInv, NeverZero
    <2> QED BY <2>1, <2>2, <2>3 DEF GeneratorNext
  <1> QED BY <1>1, <1>2, GeneratorInvFull, PTL DEF GeneratorSpec

=============================================================================
