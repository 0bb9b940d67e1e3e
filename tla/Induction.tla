------------------------------ MODULE Induction ------------------------------
(***************************************************************************)
(* Induction for the proofs of the other modules, by least counterexample: *)
(* the facts about recursive functions that the library states with an     *)
(* operator as a parameter are stated here about sets and functions.       *)
(***************************************************************************)
EXTENDS Integers, FiniteSets, FiniteSetTheorems, WellFoundedInduction, TLAPS

(***************************************************************************)
(* A set of numbers that is not empty has a least element: the numbers for *)
(* which a statement fails, in every induction below.                      *)
(***************************************************************************)
LEMMA LeastNumber ==
  ASSUME NEW T \in SUBSET Nat, T # {}
  PROVE  \E m \in T : \A n \in T : m <= n
  <1>1. IsWellFoundedOn(OpToRel(<, Nat), Nat)
    BY NatLessThanWellFounded
  <1>2. PICK m \in T : \A n \in T : ~(<<n, m>> \in OpToRel(<, Nat))
    BY <1>1, WFMin
  <1>3. \A n \in T : ~(n < m)
    BY <1>2 DEF OpToRel
  <1> QED BY <1>3

(***************************************************************************)
(* Simple induction over the numbers from a to b, for a set of numbers.    *)
(***************************************************************************)
LEMMA UpwardInduction ==
  ASSUME NEW a \in Nat, NEW b \in Nat, NEW T, a \in T,
         \A i \in a .. b : i < b /\ i \in T => i + 1 \in T
  PROVE  a .. b \subseteq T
  <1> SUFFICES ASSUME (a .. b) \ T # {} PROVE FALSE
      OBVIOUS
  <1> DEFINE Bad == (a .. b) \ T
  <1>a. Bad \in SUBSET Nat /\ Bad # {}
    OBVIOUS
  <1>b. \E m \in Bad : \A n \in Bad : m <= n
    <2> HIDE DEF Bad
    <2> QED BY <1>a, LeastNumber
  <1>1. PICK m \in (a .. b) \ T : \A n \in (a .. b) \ T : m <= n
    BY <1>b
  <1>2. m # a /\ m - 1 \in a .. b
    BY <1>1
  <1>3. m - 1 \in T
    BY <1>1, <1>2
  <1> QED BY <1>1, <1>2, <1>3

(***************************************************************************)
(* A function defined by recursion over 0 .. n exists: its value at i is   *)
(* step applied to the value at i - 1 and to i.                            *)
(***************************************************************************)
IsStep(step, n, S) == step \in [S \X (1 .. n) -> S]

Recurs(f, base, step, n, S) ==
    /\ f \in [0 .. n -> S]
    /\ f[0] = base
    /\ \A i \in 1 .. n : f[i] = step[<<f[i - 1], i>>]

LEMMA Recursion ==
  ASSUME NEW n \in Nat, NEW S, NEW base \in S, NEW step, IsStep(step, n, S)
  PROVE  \E f : Recurs(f, base, step, n, S)
  <1> DEFINE Solved(c) ==
        \E f \in [0 .. c -> S] :
            f[0] = base /\ \A i \in 1 .. c : f[i] = step[<<f[i - 1], i>>]
             T == {c \in Nat : Solved(c)}
  <1>1. 0 \in T
    <2> DEFINE f == [i \in 0 .. 0 |-> base]
    <2>1. f \in [0 .. 0 -> S] /\ f[0] = base
      OBVIOUS
    <2>2. \A i \in 1 .. 0 : f[i] = step[<<f[i - 1], i>>]
      OBVIOUS
    <2> HIDE DEF f
    <2> QED BY <2>1, <2>2
  <1>2. ASSUME NEW c \in 0 .. n, c < n, Solved(c)
        PROVE  Solved(c + 1)
    <2>1. PICK f \in [0 .. c -> S] :
             f[0] = base /\ \A i \in 1 .. c : f[i] = step[<<f[i - 1], i>>]
      BY <1>2
    <2> DEFINE g == [i \in 0 .. c + 1 |-> IF i = c + 1 THEN step[<<f[c], c + 1>>] ELSE f[i]]
    <2>2. <<f[c], c + 1>> \in S \X (1 .. n)
      BY <1>2
    <2>3. step[<<f[c], c + 1>>] \in S
      BY <2>2 DEF IsStep
    <2>4. \A i \in 0 .. c + 1 : i # c + 1 => i \in 0 .. c
      BY <1>2
    <2>5. g \in [0 .. c + 1 -> S]
      BY <2>3, <2>4
    <2>6. g[0] = base
      BY <1>2, <2>1
    <2>7. ASSUME NEW i \in 1 .. c + 1
          PROVE  g[i] = step[<<g[i - 1], i>>]
      <3>1. i \in 0 .. c + 1 /\ i - 1 \in 0 .. c + 1 /\ i - 1 # c + 1
        BY <1>2
      <3>2. g[i - 1] = f[i - 1]
        BY <3>1
      <3>3. CASE i = c + 1
        <4>1. g[i] = step[<<f[c], c + 1>>] /\ i - 1 = c
          BY <1>2, <3>1, <3>3
        <4> HIDE DEF g
        <4> QED BY <3>2, <3>3, <4>1
      <3>4. CASE i # c + 1
        <4>1. g[i] = f[i] /\ i \in 1 .. c
          BY <1>2, <3>1, <3>4
        <4> HIDE DEF g
        <4> QED BY <2>1, <3>2, <4>1
      <3> QED BY <3>3, <3>4
    <2> HIDE DEF g
    <2> QED BY <2>5, <2>6, <2>7
  <1>3. \A c \in 0 .. n : c < n /\ c \in T => c + 1 \in T
    BY <1>2
  <1> HIDE DEF T, Solved
  <1>4. 0 .. n \subseteq T /\ n \in 0 .. n
    BY <1>1, <1>3, UpwardInduction
  <1> QED BY <1>4 DEF T, Solved, Recurs

-----------------------------------------------------------------------------
(***************************************************************************)
(* Sums over finite sets, as MapThenSumSet of the community modules takes  *)
(* them: an element is chosen, its value added to the sum of the others.   *)
(***************************************************************************)
OneOf(s) == CHOOSE x \in s : TRUE

IsSum(f, v, S) ==
    f = [s \in SUBSET S |-> IF s = {} THEN 0 ELSE v[OneOf(s)] + f[s \ {OneOf(s)}]]

LEMMA OneOut ==
  ASSUME NEW S, IsFiniteSet(S), NEW s \in SUBSET S, s # {}
  PROVE  /\ OneOf(s) \in s
         /\ s \ {OneOf(s)} \in SUBSET S
         /\ IsFiniteSet(s) /\ Cardinality(s) \in Nat
         /\ Cardinality(s \ {OneOf(s)}) = Cardinality(s) - 1
         /\ Cardinality(s \ {OneOf(s)}) \in Nat
  <1>1. OneOf(s) \in s
    BY DEF OneOf
  <1>2. IsFiniteSet(s)
    BY FS_Subset
  <1> QED BY <1>1, <1>2, FS_RemoveElement, FS_CardinalityType

(***************************************************************************)
(* The sum exists, whatever numbers are summed.                            *)
(***************************************************************************)
LEMMA SumExists ==
  ASSUME NEW S, IsFiniteSet(S), NEW v \in [S -> Int]
  PROVE  \E f \in [SUBSET S -> Int] : IsSum(f, v, S)
  <1> DEFINE UpTo(k) == {s \in SUBSET S : Cardinality(s) <= k}
             Value(f, s) == IF s = {} THEN 0 ELSE v[OneOf(s)] + f[s \ {OneOf(s)}]
             Solved(k) == \E f \in [UpTo(k) -> Int] : \A s \in UpTo(k) : f[s] = Value(f, s)
             T == {k \in Nat : Solved(k)}
  <1>a. \A s \in SUBSET S : IsFiniteSet(s) /\ Cardinality(s) \in Nat
    BY FS_Subset, FS_CardinalityType
  <1>1. 0 \in T
    <2>1. \A s \in UpTo(0) : s = {}
      BY <1>a, FS_EmptySet
    <2> DEFINE f == [s \in UpTo(0) |-> 0]
    <2>2. \A s \in UpTo(0) : f[s] = Value(f, s)
      BY <2>1
    <2>3. f \in [UpTo(0) -> Int]
      OBVIOUS
    <2>4. Solved(0)
      <3> HIDE DEF f, Value
      <3> QED BY <2>2, <2>3
    <2> QED BY <2>4
  <1>2. ASSUME NEW k \in Nat, Solved(k) PROVE Solved(k + 1)
    <2>1. PICK f \in [UpTo(k) -> Int] : \A s \in UpTo(k) : f[s] = Value(f, s)
      BY <1>2
    <2> DEFINE g == [s \in UpTo(k + 1) |-> Value(f, s)]
    <2>2. ASSUME NEW s \in UpTo(k + 1), s # {}
          PROVE  /\ OneOf(s) \in S
                 /\ s \ {OneOf(s)} \in UpTo(k)
                 /\ s \ {OneOf(s)} \in UpTo(k + 1)
      BY <2>2, OneOut
    <2>3. g \in [UpTo(k + 1) -> Int]
      <3> SUFFICES ASSUME NEW s \in UpTo(k + 1) PROVE Value(f, s) \in Int
          OBVIOUS
      <3>1. CASE s = {}
        BY <3>1
      <3>2. CASE s # {}
        <4> DEFINE x == OneOf(s)
        <4>1. x \in S /\ s \ {x} \in UpTo(k)
          BY <3>2, <2>2
        <4> HIDE DEF UpTo, x
        <4>2. f[s \ {x}] \in Int /\ v[x] \in Int
          BY <4>1
        <4> QED BY <3>2, <4>2 DEF x
      <3> QED BY <3>1, <3>2
    <2>4. ASSUME NEW s \in UpTo(k + 1) PROVE g[s] = Value(g, s)
      <3>1. CASE s = {}
        BY <3>1
      <3>2. CASE s # {}
        <4> DEFINE r == s \ {OneOf(s)}
        <4>1. r \in UpTo(k) /\ r \in UpTo(k + 1)
          BY <3>2, <2>2
        <4>2. g[r] = Value(f, r)
          BY <4>1
        <4>3. Value(f, r) = f[r]
          BY <4>1, <2>1
        <4>4. g[r] = f[r]
          BY <4>2, <4>3
        <4>5. g[s] = Value(f, s)
          OBVIOUS
        <4> HIDE DEF g
        <4> QED BY <3>2, <4>4, <4>5
      <3> QED BY <3>1, <3>2
    <2> HIDE DEF g, Value, UpTo
    <2> QED BY <2>3, <2>4
  <1>3. 0 .. Cardinality(S) \subseteq T
    <2>1. \A i \in 0 .. Cardinality(S) : i < Cardinality(S) /\ i \in T => i + 1 \in T
      <3> HIDE DEF Solved
      <3> QED BY <1>2
    <2>2. Cardinality(S) \in Nat
      BY FS_CardinalityType
    <2> HIDE DEF T, Solved
    <2> QED BY <1>1, <2>1, <2>2, UpwardInduction
  <1>4. Solved(Cardinality(S))
    <2>1. Cardinality(S) \in 0 .. Cardinality(S)
      BY FS_CardinalityType
    <2> HIDE DEF Solved
    <2> QED BY <1>3, <2>1
  <1>5. UpTo(Cardinality(S)) = SUBSET S
    BY FS_Subset
  <1> DEFINE P == SUBSET S
  <1> HIDE DEF UpTo
  <1>6. PICK f \in [P -> Int] : \A s \in P : f[s] = Value(f, s)
    <2> HIDE DEF Value
    <2> QED BY <1>4, <1>5
  <1>7. f = [s \in P |-> Value(f, s)]
    <2> HIDE DEF Value, P
    <2> QED BY <1>6
  <1>8. f = [s \in SUBSET S |-> IF s = {} THEN 0 ELSE v[OneOf(s)] + f[s \ {OneOf(s)}]]
    BY <1>7
  <1> QED BY <1>6, <1>8 DEF IsSum

(***************************************************************************)
(* Whatever satisfies the equation is a function to the integers.          *)
(***************************************************************************)
LEMMA SumIsNumber ==
  ASSUME NEW S, IsFiniteSet(S), NEW v \in [S -> Int], NEW f, IsSum(f, v, S)
  PROVE  f \in [SUBSET S -> Int]
  <1> DEFINE Bad == {Cardinality(s) : s \in {t \in SUBSET S : f[t] \notin Int}}
  <1>1. Bad = {}
    <2> SUFFICES ASSUME Bad # {} PROVE FALSE
        OBVIOUS
    <2>1. Bad \in SUBSET Nat
      BY FS_Subset, FS_CardinalityType
    <2>2. \E m \in Bad : \A n \in Bad : m <= n
      <3> HIDE DEF Bad
      <3> QED BY <2>1, LeastNumber
    <2>3. PICK s \in SUBSET S : f[s] \notin Int /\ \A t \in SUBSET S :
                                   f[t] \notin Int => Cardinality(s) <= Cardinality(t)
      BY <2>2
    <2>4. s # {}
      <3> SUFFICES ASSUME s = {} PROVE FALSE
          OBVIOUS
      <3>1. f[s] = 0
        BY DEF IsSum
      <3> QED BY <2>3, <3>1
    <2> DEFINE x == OneOf(s)
               r == s \ {x}
    <2>5. x \in S /\ r \in SUBSET S /\ ~(Cardinality(s) <= Cardinality(r))
      <3>1. /\ x \in s /\ r \in SUBSET S
            /\ Cardinality(s) \in Nat /\ Cardinality(r) = Cardinality(s) - 1
        BY <2>4, OneOut
      <3> HIDE DEF x, r
      <3> QED BY <3>1
    <2>6. f[r] \in Int
      <3> HIDE DEF r
      <3> QED BY <2>3, <2>5
    <2>7. f[s] = v[x] + f[r]
      BY <2>4 DEF IsSum
    <2> HIDE DEF x, r
    <2> QED BY <2>3, <2>5, <2>6, <2>7
  <1>2. f = [s \in SUBSET S |-> f[s]]
    BY DEF IsSum
  <1>3. \A s \in SUBSET S : f[s] \in Int
    BY <1>1
  <1> HIDE DEF Bad
  <1> QED BY <1>2, <1>3

(***************************************************************************)
(* When one of the values changes, the sum changes by as much.             *)
(***************************************************************************)
LEMMA SumChanges ==
  ASSUME NEW S, IsFiniteSet(S), NEW v \in [S -> Int], NEW w \in [S -> Int],
         NEW p \in S, \A q \in S : q # p => w[q] = v[q],
         NEW f, NEW g
  PROVE  IsSum(f, v, S) /\ IsSum(g, w, S) => g[S] = f[S] + (w[p] - v[p])
  <1> SUFFICES ASSUME IsSum(f, v, S), IsSum(g, w, S)
               PROVE  g[S] = f[S] + (w[p] - v[p])
      OBVIOUS
  <1>a. f \in [SUBSET S -> Int] /\ g \in [SUBSET S -> Int]
    BY SumIsNumber
  <1> DEFINE d == w[p] - v[p]
  <1>0. d \in Int /\ w[p] = v[p] + d
    OBVIOUS
  <1> HIDE DEF d
  <1> DEFINE Right(s) == g[s] = f[s] + (IF p \in s THEN d ELSE 0)
             Bad == {Cardinality(s) : s \in {t \in SUBSET S : ~Right(t)}}
  <1>1. Bad = {}
    <2> SUFFICES ASSUME Bad # {} PROVE FALSE
        OBVIOUS
    <2>1. Bad \in SUBSET Nat
      BY FS_Subset, FS_CardinalityType
    <2>2. \E m \in Bad : \A n \in Bad : m <= n
      <3> HIDE DEF Bad
      <3> QED BY <2>1, LeastNumber
    <2>3. PICK s \in SUBSET S : ~Right(s) /\ \A t \in SUBSET S :
                                   ~Right(t) => Cardinality(s) <= Cardinality(t)
      <3> HIDE DEF Right
      <3> QED BY <2>2
    <2>4. s # {}
      <3> SUFFICES ASSUME s = {} PROVE FALSE
          OBVIOUS
      <3>1. f[s] = 0 /\ g[s] = 0
        BY DEF IsSum
      <3> QED BY <2>3, <3>1
    <2> DEFINE x == OneOf(s)
               r == s \ {x}
    <2>5. x \in s /\ r \in SUBSET S /\ ~(Cardinality(s) <= Cardinality(r))
      <3>1. /\ x \in s /\ r \in SUBSET S
            /\ Cardinality(s) \in Nat /\ Cardinality(r) = Cardinality(s) - 1
        BY <2>4, OneOut
      <3> HIDE DEF x, r
      <3> QED BY <3>1
    <2>6. Right(r)
      <3> HIDE DEF Right, r
      <3> QED BY <2>3, <2>5
    <2>7. f[s] = v[x] + f[r]
      BY <2>4 DEF IsSum
    <2>8. g[s] = w[x] + g[r]
      BY <2>4 DEF IsSum
    <2>9. f[r] \in Int /\ g[r] \in Int /\ v[x] \in Int /\ w[x] \in Int /\ x \in S
      BY <1>a, <2>5
    <2>10. p \in r <=> p \in s /\ p # x
      OBVIOUS
    <2>11. g[s] = f[s] + (IF p \in s THEN d ELSE 0)
      <3> HIDE DEF x, r
      <3>1. CASE p = x
        <4>1. p \in s /\ p \notin r /\ w[x] = v[x] + d
          BY <1>0, <3>1, <2>5, <2>10
        <4> QED BY <1>0, <4>1, <2>6, <2>7, <2>8, <2>9
      <3>2. CASE p # x
        <4>1. w[x] = v[x] /\ (p \in r <=> p \in s)
          BY <3>2, <2>9, <2>10
        <4> QED BY <1>0, <4>1, <2>6, <2>7, <2>8, <2>9
      <3> QED BY <3>1, <3>2
    <2> QED BY <2>3, <2>11
  <1>2. Right(S)
    <2> HIDE DEF Right
    <2> QED BY <1>1
  <1> QED BY <1>2 DEF d

(***************************************************************************)
(* The sum of zeros.                                                       *)
(***************************************************************************)
LEMMA SumOfZeros ==
  ASSUME NEW S, IsFiniteSet(S), NEW v \in [S -> Int], \A q \in S : v[q] = 0,
         NEW f \in [SUBSET S -> Int], IsSum(f, v, S)
  PROVE  f[S] = 0
  <1> DEFINE Bad == {Cardinality(s) : s \in {t \in SUBSET S : f[t] # 0}}
  <1>1. Bad = {}
    <2> SUFFICES ASSUME Bad # {} PROVE FALSE
        OBVIOUS
    <2>1. Bad \in SUBSET Nat
      BY FS_Subset, FS_CardinalityType
    <2>2. \E m \in Bad : \A n \in Bad : m <= n
      <3> HIDE DEF Bad
      <3> QED BY <2>1, LeastNumber
    <2>3. PICK s \in SUBSET S : f[s] # 0 /\ \A t \in SUBSET S :
                                   f[t] # 0 => Cardinality(s) <= Cardinality(t)
      BY <2>2
    <2>4. s # {}
      <3> SUFFICES ASSUME s = {} PROVE FALSE
          OBVIOUS
      <3>1. f[s] = 0
        BY DEF IsSum
      <3> QED BY <2>3, <3>1
    <2> DEFINE x == OneOf(s)
               r == s \ {x}
    <2>5. x \in S /\ r \in SUBSET S /\ ~(Cardinality(s) <= Cardinality(r))
      <3>1. /\ x \in s /\ r \in SUBSET S
            /\ Cardinality(s) \in Nat /\ Cardinality(r) = Cardinality(s) - 1
        BY <2>4, OneOut
      <3> HIDE DEF x, r
      <3> QED BY <3>1
    <2>6. f[r] = 0
      <3> HIDE DEF r
      <3> QED BY <2>3, <2>5
    <2>7. f[s] = v[x] + f[r]
      BY <2>4 DEF IsSum
    <2> HIDE DEF x, r
    <2> QED BY <2>3, <2>5, <2>6, <2>7
  <1> QED BY <1>1

(***************************************************************************)
(* A sum is the value of any element, not only of the one chosen, added to *)
(* the sum of the others.                                                  *)
(***************************************************************************)
LEMMA SumTakes ==
  ASSUME NEW S, IsFiniteSet(S), NEW v \in [S -> Int], NEW f, IsSum(f, v, S),
         NEW s \in SUBSET S, NEW x \in s
  PROVE  f[s] = v[x] + f[s \ {x}]
  <1>a. f \in [SUBSET S -> Int]
    BY SumIsNumber
  <1> DEFINE Wrong(t, y) == f[t] # v[y] + f[t \ {y}]
             Bad == {Cardinality(t) : t \in {u \in SUBSET S : \E y \in u : Wrong(u, y)}}
  <1>1. Bad = {}
    <2> SUFFICES ASSUME Bad # {} PROVE FALSE
        OBVIOUS
    <2>1. Bad \in SUBSET Nat
      <3> HIDE DEF Wrong
      <3> QED BY FS_Subset, FS_CardinalityType
    <2>2. \E m \in Bad : \A n \in Bad : m <= n
      <3> HIDE DEF Bad
      <3> QED BY <2>1, LeastNumber
    <2>3. PICK t \in SUBSET S :
             /\ \E y \in t : Wrong(t, y)
             /\ \A u \in SUBSET S :
                   (\E y \in u : Wrong(u, y)) => Cardinality(t) <= Cardinality(u)
      <3> HIDE DEF Wrong
      <3> QED BY <2>2
    <2>4. PICK y \in t : Wrong(t, y)
      BY <2>3
    <2> DEFINE o == OneOf(t)
               r == t \ {o}
               q == t \ {y}
    <2>5. o \in t /\ t # {}
      BY <2>4 DEF OneOf
    <2>6. f[t] = v[o] + f[r]
      BY <2>5 DEF IsSum
    <2> HIDE DEF o
    <2>7. IsFiniteSet(t) /\ Cardinality(t) \in Nat
      BY FS_Subset, FS_CardinalityType
    <2>8. Cardinality(r) = Cardinality(t) - 1 /\ Cardinality(q) = Cardinality(t) - 1
      BY <2>5, <2>7, FS_RemoveElement
    <2>9. r \in SUBSET S /\ q \in SUBSET S
      OBVIOUS
    <2>10. y # o
      BY <2>4, <2>6
    <2>11. y \in r /\ o \in q /\ r \ {y} = q \ {o}
      BY <2>5, <2>10
    <2>12. (\A z \in r : ~Wrong(r, z)) /\ (\A z \in q : ~Wrong(q, z))
      <3> HIDE DEF Wrong, r, q
      <3> QED BY <2>3, <2>7, <2>8, <2>9
    <2>13. f[r] = v[y] + f[r \ {y}]
      BY <2>11, <2>12
    <2>14. f[q] = v[o] + f[q \ {o}]
      BY <2>11, <2>12
    <2>15. f[t] # v[y] + f[q]
      BY <2>4
    <2>16. /\ f[r \ {y}] \in Int /\ f[q] \in Int /\ f[r] \in Int
           /\ v[o] \in Int /\ v[y] \in Int
      <3>1. r \ {y} \in SUBSET S /\ o \in S /\ y \in S
        BY <2>5, <2>9
      <3> HIDE DEF r, q
      <3> QED BY <1>a, <2>9, <3>1
    <2>17. f[q \ {o}] = f[r \ {y}]
      <3> HIDE DEF r, q
      <3> QED BY <2>11
    <2> DEFINE a == f[t]
               b == f[r]
               d == f[q]
               e == f[r \ {y}]
    <2>18. a = v[o] + b /\ b = v[y] + e /\ d = v[o] + e /\ a # v[y] + d
      <3> HIDE DEF r, q
      <3> QED BY <2>6, <2>13, <2>14, <2>15, <2>17
    <2>19. b \in Int /\ d \in Int /\ e \in Int /\ v[o] \in Int /\ v[y] \in Int
      BY <2>16
    <2> HIDE DEF a, b, d, e
    <2> QED BY <2>18, <2>19
  <1>2. ~Wrong(s, x)
    <2> HIDE DEF Wrong
    <2> QED BY <1>1
  <1> QED BY <1>2

(***************************************************************************)
(* The sum over a set does not depend on the set it is a part of.          *)
(***************************************************************************)
LEMMA SumsAgree ==
  ASSUME NEW S, IsFiniteSet(S), NEW T \in SUBSET S, NEW v, NEW w,
         \A q \in T : w[q] = v[q],
         NEW f, IsSum(f, v, S), NEW g, IsSum(g, w, T)
  PROVE  g[T] = f[T]
  <1> DEFINE Bad == {Cardinality(s) : s \in {t \in SUBSET T : g[t] # f[t]}}
  <1>0. IsFiniteSet(T)
    BY FS_Subset
  <1>1. Bad = {}
    <2> SUFFICES ASSUME Bad # {} PROVE FALSE
        OBVIOUS
    <2>1. Bad \in SUBSET Nat
      BY <1>0, FS_Subset, FS_CardinalityType
    <2>2. \E m \in Bad : \A n \in Bad : m <= n
      <3> HIDE DEF Bad
      <3> QED BY <2>1, LeastNumber
    <2>3. PICK s \in SUBSET T : g[s] # f[s] /\ \A t \in SUBSET T :
                                   g[t] # f[t] => Cardinality(s) <= Cardinality(t)
      BY <2>2
    <2>a. s \in SUBSET S
      OBVIOUS
    <2>4. s # {}
      <3> SUFFICES ASSUME s = {} PROVE FALSE
          OBVIOUS
      <3>1. f[s] = 0
        BY <2>a DEF IsSum
      <3>2. g[s] = 0
        BY DEF IsSum
      <3> QED BY <2>3, <3>1, <3>2
    <2> DEFINE x == OneOf(s)
               r == s \ {x}
    <2>5. x \in s /\ r \in SUBSET T /\ ~(Cardinality(s) <= Cardinality(r))
      <3>1. /\ x \in s /\ r \in SUBSET T
            /\ Cardinality(s) \in Nat /\ Cardinality(r) = Cardinality(s) - 1
        BY <1>0, <2>4, OneOut
      <3> HIDE DEF x, r
      <3> QED BY <3>1
    <2>6. g[r] = f[r]
      <3> HIDE DEF r
      <3> QED BY <2>3, <2>5
    <2>7. f[s] = v[x] + f[r]
      BY <2>a, <2>4 DEF IsSum
    <2>8. g[s] = w[x] + g[r]
      BY <2>4 DEF IsSum
    <2>9. x \in T /\ w[x] = v[x]
      BY <2>5
    <2> HIDE DEF x, r
    <2> QED BY <2>3, <2>6, <2>7, <2>8, <2>9
  <1>2. T \in SUBSET T
    OBVIOUS
  <1> QED BY <1>1, <1>2

(***************************************************************************)
(* A sum of values from 0 to b is not more than b for each of them.        *)
(***************************************************************************)
LEMMA SumBound ==
  ASSUME NEW S, IsFiniteSet(S), NEW b \in Nat, NEW v \in [S -> 0 .. b],
         NEW f, IsSum(f, v, S), NEW u \in SUBSET S
  PROVE  f[u] \in 0 .. Cardinality(u) * b
  <1> DEFINE In(s) == f[s] \in 0 .. Cardinality(s) * b
             Bad == {Cardinality(s) : s \in {t \in SUBSET S : ~In(t)}}
  <1>1. Bad = {}
    <2> SUFFICES ASSUME Bad # {} PROVE FALSE
        OBVIOUS
    <2>1. Bad \in SUBSET Nat
      <3> HIDE DEF In
      <3> QED BY FS_Subset, FS_CardinalityType
    <2>2. \E m \in Bad : \A n \in Bad : m <= n
      <3> HIDE DEF Bad
      <3> QED BY <2>1, LeastNumber
    <2>3. PICK s \in SUBSET S : ~In(s) /\ \A t \in SUBSET S :
                                   ~In(t) => Cardinality(s) <= Cardinality(t)
      <3> HIDE DEF In
      <3> QED BY <2>2
    <2>4. s # {}
      <3> SUFFICES ASSUME s = {} PROVE FALSE
          OBVIOUS
      <3>1. f[s] = 0 /\ Cardinality(s) = 0
        BY FS_EmptySet DEF IsSum
      <3> QED BY <2>3, <3>1
    <2> DEFINE x == OneOf(s)
               r == s \ {x}
    <2>5. /\ x \in s /\ r \in SUBSET S
          /\ Cardinality(s) \in Nat /\ Cardinality(r) = Cardinality(s) - 1
          /\ Cardinality(r) \in Nat
      BY <2>4, OneOut
    <2>6. In(r)
      <3> HIDE DEF r, In
      <3> QED BY <2>3, <2>5
    <2>7. f[s] = v[x] + f[r]
      BY <2>4 DEF IsSum
    <2>8. v[x] \in 0 .. b
      BY <2>5
    <2> HIDE DEF x, r
    <2>9. Cardinality(s) * b = Cardinality(r) * b + b /\ Cardinality(r) * b \in Nat
      <3>1. ASSUME NEW k \in Nat, NEW j \in Nat, k = j - 1
            PROVE  j * b = k * b + b /\ k * b \in Nat
        BY <3>1
      <3> QED BY <2>5, <3>1
    <2> QED BY <2>3, <2>6, <2>7, <2>8, <2>9
  <1>2. In(u)
    <2> HIDE DEF In
    <2> QED BY <1>1
  <1> QED BY <1>2
=============================================================================
