--------------------------- MODULE AlgorithmProofs ---------------------------
(***************************************************************************)
(* Theorems about four of the algorithms, for all of their constants: the  *)
(* perfect hash answers with what was stored and fits in its table, the    *)
(* message codec carries what was pushed, a combined range has the deals   *)
(* that its players can hold together, and a Hand is the sum of its cards. *)
(***************************************************************************)
EXTENDS PerfectHash, Message, CombinedRange, Hand, SequenceTheorems, FiniteSetTheorems,
        Induction

-----------------------------------------------------------------------------
(***************************************************************************)
(* Two keys that would come to lie in one slot have the same value.  This  *)
(* is what the offsets are for; it outlives the table it was found with.   *)
(***************************************************************************)
SharedSlotsAgree ==
    \A r, q \in placed : \A c, d \in Column :
        orig[r][c] # 0 /\ orig[q][d] # 0 /\ PerfHash(r, c) = PerfHash(q, d)
            => orig[r][c] = orig[q][d]

HashPhases ==
    /\ phase = "fill" => placed = {} /\ written = {}
    /\ phase = "fill" => lookup = [i \in Slot |-> 0]
    /\ phase # "use" => written = {}
    /\ phase = "use" => RowsInUse \subseteq placed
    /\ \A r \in placed : \A c \in Column :
          orig[r][c] # 0 => PerfHash(r, c) \in Slot /\
                            PerfHash(r, c) < Cardinality(placed) * RowSize

HashInv ==
    /\ HashTypeOK
    /\ HashPhases
    /\ SharedSlotsAgree
    /\ LookupsCorrect
    /\ NoClash
    /\ TableStaysCompact

-----------------------------------------------------------------------------
\* The rows fit: what the products of the constants are known to satisfy.
LEMMA RowBounds ==
    ASSUME NEW r \in Row, NEW n \in 0 .. RowCount - 1
    PROVE  /\ FirstKey(r) \in Nat /\ FirstKey(r) + RowSize <= TableSize
           /\ n * RowSize \in Nat
           /\ n * RowSize + RowSize <= TableSize
           /\ (n + 1) * RowSize = n * RowSize + RowSize
<1>1. RowCount \in Nat \ {0} /\ RowSize \in Nat \ {0} /\ TableSize \in Nat
      /\ RowCount * RowSize <= TableSize
  BY HashAssumption
<1>2. ASSUME NEW k \in 0 .. RowCount - 1
      PROVE  /\ k * RowSize \in Nat
             /\ k * RowSize + RowSize <= RowCount * RowSize
             /\ (k + 1) * RowSize = k * RowSize + RowSize
  <2>1. k * RowSize \in Nat /\ (k + 1) * RowSize = k * RowSize + RowSize
    BY <1>1
  <2>2. (RowCount - (k + 1)) * RowSize \in Nat
    <3>1. RowCount - (k + 1) \in Nat
      BY <1>1
    <3>. QED  BY <3>1, <1>1
  <2>3. (RowCount - (k + 1)) * RowSize = RowCount * RowSize - (k + 1) * RowSize
    BY <1>1
  <2>4. RowCount * RowSize \in Nat /\ (k + 1) * RowSize \in Nat
    BY <1>1
  <2>. QED  BY <2>1, <2>2, <2>3, <2>4, <1>1
<1>3. r \in 0 .. RowCount - 1
  BY DEF Row
<1>4. r * RowSize \in Nat /\ r * RowSize + RowSize <= RowCount * RowSize
  BY <1>2, <1>3
<1>5. n * RowSize \in Nat /\ n * RowSize + RowSize <= RowCount * RowSize
      /\ (n + 1) * RowSize = n * RowSize + RowSize
  BY <1>2
<1>6. RowCount * RowSize \in Nat
  BY <1>1
<1>. QED  BY <1>1, <1>4, <1>5, <1>6 DEF FirstKey

\* The offset that is stored takes a key of the row to its slot.
LEMMA StoredOffsetWorks ==
    ASSUME NEW r \in Row, NEW c \in Column, NEW o \in 0 .. TableSize - RowSize
    PROVE  /\ StoredOffset(r, o) \in 0 .. Modulus - 1
           /\ Wrapped(FirstKey(r) + c + StoredOffset(r, o)) = c + o
           /\ c + o \in Slot
<1> DEFINE k == FirstKey(r)
<1>1. k \in Nat /\ k + RowSize <= TableSize
  BY RowBounds, HashAssumption, 0 \in 0 .. RowCount - 1
<1>2. /\ RowSize \in Nat \ {0} /\ TableSize \in Nat /\ Modulus \in Nat
      /\ TableSize <= Modulus /\ c \in Nat /\ c < RowSize
  BY HashAssumption DEF Column
<1> HIDE DEF k
<1>3. Wrapped(o - k) \in 0 .. Modulus - 1
  BY <1>1, <1>2 DEF Wrapped
<1>4. Wrapped(k + c + Wrapped(o - k)) = c + o
  BY <1>1, <1>2 DEF Wrapped
<1>5. c + o \in Slot
  BY <1>2 DEF Slot
<1>. QED  BY <1>3, <1>4, <1>5 DEF StoredOffset, k

LEMMA PlacedIsFinite ==
    ASSUME HashTypeOK, NEW r \in Row
    PROVE  /\ IsFiniteSet(placed) /\ Cardinality(placed) \in Nat
           /\ r \notin placed =>
                 /\ Cardinality(placed \cup {r}) = Cardinality(placed) + 1
                 /\ Cardinality(placed) \in 0 .. RowCount - 1
<1>1. IsFiniteSet(Row) /\ Cardinality(Row) = RowCount
  BY FS_Interval, HashAssumption DEF Row
<1>2. placed \subseteq Row
  BY DEF HashTypeOK
<1>3. IsFiniteSet(placed) /\ Cardinality(placed) \in Nat
  BY <1>1, <1>2, FS_Subset, FS_CardinalityType
<1>4. ASSUME r \notin placed
      PROVE  /\ Cardinality(placed \cup {r}) = Cardinality(placed) + 1
             /\ Cardinality(placed) \in 0 .. RowCount - 1
  <2>1. Cardinality(placed \cup {r}) = Cardinality(placed) + 1
    BY <1>3, <1>4, FS_AddElement
  <2>2. placed \cup {r} \subseteq Row
    BY <1>2
  <2>3. Cardinality(placed \cup {r}) <= RowCount
    BY <2>2, <1>1, FS_Subset
  <2>. QED  BY <2>1, <2>3, <1>3, HashAssumption
<1>. QED  BY <1>3, <1>4

-----------------------------------------------------------------------------
LEMMA HashInitInv == HashInit => HashInv
<1> SUFFICES ASSUME HashInit PROVE HashInv
  OBVIOUS
<1>0. Modulus \in Nat /\ TableSize \in Nat /\ Modulus >= TableSize /\ TableSize > 0
  <2>1. FirstKey(0) \in Nat /\ FirstKey(0) + RowSize <= TableSize
    BY RowBounds, HashAssumption, 0 \in 0 .. RowCount - 1 DEF Row
  <2>. QED  BY <2>1, HashAssumption
<1>1. HashTypeOK
  BY <1>0 DEF HashInit, HashTypeOK
<1>2. HashPhases
  BY DEF HashInit, HashPhases
<1>3. SharedSlotsAgree /\ LookupsCorrect /\ NoClash /\ TableStaysCompact
  BY DEF HashInit, SharedSlotsAgree, LookupsCorrect, NoClash, TableStaysCompact, Stored
<1>. QED  BY <1>1, <1>2, <1>3 DEF HashInv

LEMMA FillKeyKeeps ==
    ASSUME HashInv, NEW r \in Row, NEW c \in Column, NEW v \in HandValues,
           FillKey(r, c, v)
    PROVE  HashInv'
<1>1. placed = {} /\ written = {} /\ phase = "fill" /\ lookup = [i \in Slot |-> 0]
  BY DEF HashInv, HashPhases, FillKey
<1>2. HashTypeOK'
  BY DEF HashInv, HashTypeOK, FillKey
<1>3. HashPhases' /\ SharedSlotsAgree'
  BY <1>1 DEF HashPhases, SharedSlotsAgree, FillKey
<1>4. LookupsCorrect' /\ NoClash' /\ TableStaysCompact'
  BY <1>1 DEF LookupsCorrect, NoClash, TableStaysCompact, Stored, FillKey
<1>. QED  BY <1>2, <1>3, <1>4 DEF HashInv

LEMMA StartPlacingKeeps == ASSUME HashInv, StartPlacing PROVE HashInv'
<1>1. placed = {} /\ written = {} /\ phase = "fill" /\ lookup = [i \in Slot |-> 0]
  BY DEF HashInv, HashPhases, StartPlacing
<1>2. HashTypeOK'
  BY DEF HashInv, HashTypeOK, StartPlacing
<1>3. HashPhases' /\ SharedSlotsAgree'
  BY <1>1 DEF HashPhases, SharedSlotsAgree, StartPlacing
<1>4. LookupsCorrect' /\ NoClash' /\ TableStaysCompact'
  BY <1>1 DEF LookupsCorrect, NoClash, TableStaysCompact, Stored, StartPlacing
<1>. QED  BY <1>2, <1>3, <1>4 DEF HashInv

\* A row finds its place among the rows before it, at the latest right
\* behind them, and leaves what they stored as it is.
LEMMA PlaceRowKeeps ==
    ASSUME HashInv, NEW r \in Row, PlaceRow(r) PROVE HashInv'
<1>1. /\ phase = "place" /\ phase' = "place" /\ orig' = orig /\ written' = written
      /\ placed' = placed \cup {r} /\ r \notin placed /\ placed \subseteq Row
      /\ written = {}
  BY DEF PlaceRow, Densest, HashInv, HashPhases, HashTypeOK
<1>2. PICK o \in 0 .. TableSize - RowSize :
          /\ FirstFit(r, o)
          /\ rowOffset' = [rowOffset EXCEPT ![r] = StoredOffset(r, o)]
          /\ lookup' = [i \in Slot |-> IF i - o \in Used(r) THEN orig[r][i - o]
                                                            ELSE lookup[i]]
  BY DEF PlaceRow
<1> DEFINE n == Cardinality(placed)
<1>3. n \in 0 .. RowCount - 1 /\ Cardinality(placed') = n + 1
  BY PlacedIsFinite, <1>1 DEF HashInv
<1>4. /\ n * RowSize \in Nat /\ n * RowSize + RowSize <= TableSize
      /\ (n + 1) * RowSize = n * RowSize + RowSize
  BY RowBounds, <1>3
<1>5. Cardinality(placed') * RowSize = n * RowSize + RowSize
  BY <1>3, <1>4
<1> DEFINE room == n * RowSize
<1>6. \A i \in Slot : lookup[i] # 0 => i < room
  BY DEF HashInv, TableStaysCompact
<1> HIDE DEF n, room
<1>7. RowSize \in Nat \ {0} /\ TableSize \in Nat /\ room \in Nat
      /\ room + RowSize <= TableSize
  BY HashAssumption, <1>4 DEF room
<1>8. o <= room
  <2>1. Fits(r, room)
    <3>1. ASSUME NEW c \in Used(r) PROVE lookup[c + room] = 0
      BY <1>6, <1>7 DEF Used, Column, Slot
    <3>. QED  BY <3>1 DEF Fits
  <2>2. ASSUME room < o PROVE FALSE
    BY <2>1, <2>2, <1>2, <1>7 DEF FirstFit
  <2>. QED  BY <2>2, <1>7
<1>9. \A c \in Column : /\ c + o \in Slot /\ c + o < room + RowSize
                        /\ PerfHash(r, c)' = c + o
  <2> SUFFICES ASSUME NEW c \in Column
               PROVE  /\ c + o \in Slot /\ c + o < room + RowSize
                      /\ PerfHash(r, c)' = c + o
    OBVIOUS
  <2>1. c + o \in Slot /\ Wrapped(FirstKey(r) + c + StoredOffset(r, o)) = c + o
    BY StoredOffsetWorks, <1>2
  <2>2. c + o < room + RowSize
    BY <1>2, <1>7, <1>8 DEF Column
  <2>3. rowOffset'[r] = StoredOffset(r, o)
    BY <1>2 DEF HashInv, HashTypeOK
  <2>. QED  BY <2>1, <2>2, <2>3 DEF PerfHash
<1>10. \A q \in placed : \A d \in Column : PerfHash(q, d)' = PerfHash(q, d)
  BY <1>1, <1>2 DEF PerfHash, HashInv, HashTypeOK
<1>11. HashTypeOK'
  <2>1. rowOffset' \in [Row -> 0 .. Modulus - 1]
    <3>1. 0 \in Column
      BY <1>7 DEF Column
    <3>2. StoredOffset(r, o) \in 0 .. Modulus - 1
      BY StoredOffsetWorks, <1>2, <3>1
    <3>. QED  BY <1>2, <3>2 DEF HashInv, HashTypeOK
  <2>2. lookup' \in [Slot -> HandValues \cup {0}]
    BY <1>2 DEF HashInv, HashTypeOK, Used
  <2>. QED  BY <1>1, <2>1, <2>2 DEF HashInv, HashTypeOK
<1>12. \A i \in Slot : i - o \notin Column => lookup'[i] = lookup[i]
  BY <1>2 DEF Used
<1>13. \A i \in Slot : lookup[i] # 0 => lookup'[i] = lookup[i]
  BY <1>2 DEF FirstFit, Fits, Used, Column, Slot
<1>14. LookupsCorrect'
  <2> SUFFICES ASSUME NEW q \in placed', NEW d \in Column, orig[q][d] # 0
               PROVE  /\ PerfHash(q, d)' \in Slot
                      /\ lookup'[PerfHash(q, d)'] = orig[q][d]
    BY <1>1 DEF LookupsCorrect, Stored
  <2>1. CASE q = r
    <3>1. d \in Used(r) /\ (d + o) - o = d
      BY <2>1, <1>2 DEF Used, Column
    <3>. QED  BY <2>1, <3>1, <1>2, <1>9
  <2>2. CASE q \in placed
    <3>1. PerfHash(q, d) \in Slot /\ lookup[PerfHash(q, d)] = orig[q][d]
      BY <2>2, <1>1 DEF HashInv, LookupsCorrect, Stored
    <3>. QED  BY <3>1, <2>2, <1>10, <1>13
  <2>. QED  BY <1>1, <2>1, <2>2
<1>15. SharedSlotsAgree'
  BY <1>14, <1>1 DEF SharedSlotsAgree, LookupsCorrect, Stored
<1>16. HashPhases'
  <2>1. ASSUME NEW q \in placed', NEW d \in Column, orig[q][d] # 0
        PROVE  PerfHash(q, d)' \in Slot /\ PerfHash(q, d)' < room + RowSize
    <3>1. CASE q = r
      BY <3>1, <1>9
    <3>2. CASE q \in placed
      <4>1. PerfHash(q, d) \in Slot /\ PerfHash(q, d) < room
        BY <3>2, <2>1 DEF HashInv, HashPhases, n, room
      <4>. QED  BY <4>1, <3>2, <1>10, <1>7 DEF Slot
    <3>. QED  BY <1>1, <3>1, <3>2
  <2>2. room + RowSize = Cardinality(placed') * RowSize
    BY <1>5 DEF room
  <2>. QED  BY <1>1, <2>1, <2>2 DEF HashPhases
<1>17. TableStaysCompact'
  <2>1. ASSUME NEW i \in Slot, lookup'[i] # 0 PROVE i < room + RowSize
    <3>1. CASE i - o \in Column
      BY <3>1, <1>7, <1>8, <1>2 DEF Column, Slot
    <3>2. CASE i - o \notin Column
      BY <3>2, <2>1, <1>12, <1>6, <1>7 DEF Slot
    <3>. QED  BY <3>1, <3>2
  <2>2. room + RowSize = Cardinality(placed') * RowSize
    BY <1>5 DEF room
  <2>. QED  BY <2>1, <2>2 DEF TableStaysCompact
<1>18. NoClash'
  BY <1>1 DEF NoClash
<1>. QED  BY <1>11, <1>14, <1>15, <1>16, <1>17, <1>18 DEF HashInv

LEMMA StartUsingKeeps == ASSUME HashInv, StartUsing PROVE HashInv'
<1>1. HashTypeOK'
  BY DEF HashInv, HashTypeOK, StartUsing
<1>2. \A r \in Row, c \in Column : PerfHash(r, c)' = PerfHash(r, c)
  BY DEF StartUsing, PerfHash
<1>3. written = {} /\ written' = {} /\ phase' = "use" /\ orig' = orig /\ placed' = placed
  BY DEF HashInv, HashPhases, StartUsing
<1>4. placed \subseteq Row /\ RowsInUse \subseteq placed /\ RowsInUse' = RowsInUse
  BY <1>3 DEF HashInv, HashTypeOK, StartUsing, RowsInUse, Used
<1>5. \A q \in placed : \A d \in Column : PerfHash(q, d)' = PerfHash(q, d)
  BY <1>2, <1>4
<1>6. HashPhases'
  BY <1>3, <1>4, <1>5 DEF HashInv, HashPhases
<1>7. SharedSlotsAgree'
  BY <1>3, <1>5 DEF HashInv, SharedSlotsAgree
<1>8. LookupsCorrect'
  BY <1>3 DEF LookupsCorrect, Stored
<1>9. \A i \in Slot : lookup'[i] = 0
  BY DEF StartUsing
<1>10. NoClash'
  <2> SUFFICES ASSUME NEW r \in Row, NEW c \in Column, orig[r][c] # 0
               PROVE  lookup'[PerfHash(r, c)'] = 0
    BY <1>3 DEF NoClash
  <2>1. r \in RowsInUse
    <3>1. r >= r
      BY HashAssumption DEF Row
    <3>2. Used(r) # {}
      BY DEF Used
    <3>. QED  BY <3>1, <3>2 DEF RowsInUse
  <2>2. PerfHash(r, c)' \in Slot
    BY <2>1, <1>3, <1>4, <1>6 DEF HashPhases
  <2>. QED  BY <2>2, <1>9
<1>11. TableStaysCompact'
  BY <1>9 DEF TableStaysCompact
<1>. QED  BY <1>1, <1>6, <1>7, <1>8, <1>10, <1>11 DEF HashInv

\* A key is written where only keys of the same value look.
LEMMA WriteKeyKeeps ==
    ASSUME HashInv, NEW r \in Row, NEW c \in Column, WriteKey(r, c)
    PROVE  HashInv'
<1> DEFINE s == PerfHash(r, c)
<1>1. /\ phase = "use" /\ phase' = "use" /\ orig[r][c] # 0 /\ orig' = orig
      /\ placed' = placed /\ rowOffset' = rowOffset
      /\ lookup' = [lookup EXCEPT ![s] = orig[r][c]]
      /\ written' = written \cup {<<r, c>>}
  BY DEF WriteKey
<1>2. \A q \in Row, d \in Column : PerfHash(q, d)' = PerfHash(q, d)
  BY <1>1 DEF PerfHash
<1>3. \A q \in Row, d \in Column : orig[q][d] # 0 => q \in placed
  <2> SUFFICES ASSUME NEW q \in Row, NEW d \in Column, orig[q][d] # 0
               PROVE  q \in RowsInUse
    BY <1>1 DEF HashInv, HashPhases
  <2>1. q >= q
    BY HashAssumption DEF Row
  <2>2. Used(q) # {}
    BY DEF Used
  <2>. QED  BY <2>1, <2>2 DEF RowsInUse
<1>4. \A q \in Row, d \in Column : orig[q][d] # 0 =>
          PerfHash(q, d) \in Slot /\ PerfHash(q, d) < Cardinality(placed) * RowSize
  BY <1>3 DEF HashInv, HashPhases
<1>5. \A q \in Row, d \in Column :
          orig[q][d] # 0 /\ PerfHash(q, d) = s => orig[q][d] = orig[r][c]
  BY <1>1, <1>3 DEF HashInv, SharedSlotsAgree
<1>6. s \in Slot /\ s < Cardinality(placed) * RowSize
  BY <1>1, <1>4
<1>7. orig[r][c] \in HandValues
  BY <1>1 DEF HashInv, HashTypeOK
<1> HIDE DEF s
<1>8. \A i \in Slot : lookup'[i] = IF i = s THEN orig[r][c] ELSE lookup[i]
  BY <1>1 DEF HashInv, HashTypeOK
<1>9. HashTypeOK'
  <2>1. lookup' \in [Slot -> HandValues \cup {0}]
    BY <1>1, <1>7 DEF HashInv, HashTypeOK
  <2>2. written' \subseteq Row \X Column
    BY <1>1 DEF HashInv, HashTypeOK
  <2>. QED  BY <2>1, <2>2, <1>1 DEF HashInv, HashTypeOK
<1>10. HashPhases' /\ SharedSlotsAgree'
  <2>1. placed \subseteq Row
    BY DEF HashInv, HashTypeOK
  <2>2. \A q \in placed : \A d \in Column : PerfHash(q, d)' = PerfHash(q, d)
    BY <2>1, <1>2
  <2>3. RowsInUse' = RowsInUse
    BY <1>1 DEF RowsInUse, Used
  <2>4. HashPhases'
    BY <2>2, <2>3, <1>1 DEF HashInv, HashPhases
  <2>. QED  BY <2>2, <2>4, <1>1 DEF HashInv, SharedSlotsAgree
<1>11. LookupsCorrect'
  <2> SUFFICES ASSUME NEW q \in Row, NEW d \in Column, orig[q][d] # 0,
                      <<q, d>> \in written'
               PROVE  PerfHash(q, d) \in Slot /\ lookup'[PerfHash(q, d)] = orig[q][d]
    BY <1>1, <1>2 DEF LookupsCorrect, Stored
  <2>1. PerfHash(q, d) \in Slot
    BY <1>4
  <2>2. CASE PerfHash(q, d) = s
    BY <2>1, <2>2, <1>5, <1>8
  <2>3. CASE PerfHash(q, d) # s
    <3>1. <<q, d>> \in written
      BY <2>3, <1>1 DEF s
    <3>2. lookup[PerfHash(q, d)] = orig[q][d]
      BY <3>1, <1>1 DEF HashInv, LookupsCorrect, Stored
    <3>. QED  BY <2>1, <2>3, <3>2, <1>8
  <2>. QED  BY <2>2, <2>3
<1>12. NoClash'
  <2> SUFFICES ASSUME NEW q \in Row, NEW d \in Column, orig[q][d] # 0
               PROVE  lookup'[PerfHash(q, d)] \in {0, orig[q][d]}
    BY <1>1, <1>2 DEF NoClash
  <2>1. PerfHash(q, d) \in Slot /\ lookup[PerfHash(q, d)] \in {0, orig[q][d]}
    BY <1>1, <1>4 DEF HashInv, NoClash
  <2>. QED  BY <2>1, <1>5, <1>8
<1>13. TableStaysCompact'
  BY <1>1, <1>6, <1>8 DEF HashInv, TableStaysCompact
<1>. QED  BY <1>9, <1>10, <1>11, <1>12, <1>13 DEF HashInv

-----------------------------------------------------------------------------
LEMMA HashStepInv == HashInv /\ [HashNext]_hashVars => HashInv'
<1> SUFFICES ASSUME HashInv, [HashNext]_hashVars PROVE HashInv'
  OBVIOUS
<1>1. CASE StartPlacing
  BY <1>1, StartPlacingKeeps
<1>2. CASE StartUsing
  BY <1>2, StartUsingKeeps
<1>3. CASE \E r \in Row : PlaceRow(r)
  BY <1>3, PlaceRowKeeps
<1>4. ASSUME NEW r \in Row, NEW c \in Column,
             WriteKey(r, c) \/ \E v \in HandValues : FillKey(r, c, v)
      PROVE  HashInv'
  BY <1>4, WriteKeyKeeps, FillKeyKeeps
<1>5. CASE UNCHANGED hashVars
  BY <1>5 DEF hashVars, HashInv, HashTypeOK, HashPhases, SharedSlotsAgree,
     LookupsCorrect, NoClash, TableStaysCompact, Stored, PerfHash, RowsInUse, Used
<1>. QED  BY <1>1, <1>2, <1>3, <1>4, <1>5 DEF HashNext

\* The inductive invariant; it holds for every size of the tables.
THEOREM HashInvariant == HashSpec => []HashInv
<1>. QED  BY HashInitInv, HashStepInv, PTL DEF HashSpec

\* What was stored is found: LookupsCorrect of the algorithms run.
THEOREM HashIsPerfect == HashSpec => []LookupsCorrect
<1>1. HashInv => LookupsCorrect
  BY DEF HashInv
<1>. QED  BY <1>1, HashInvariant, PTL

\* The assertion in populateLookup never fails.
THEOREM AssertionHolds == HashSpec => []NoClash
<1>1. HashInv => NoClash
  BY DEF HashInv
<1>. QED  BY <1>1, HashInvariant, PTL

\* The table needs no more than RowCount * RowSize slots.
THEOREM TableFits == HashSpec => []TableStaysCompact
<1>1. HashInv => TableStaysCompact
  BY DEF HashInv
<1>. QED  BY <1>1, HashInvariant, PTL

-----------------------------------------------------------------------------
(***************************************************************************)
(* FlattenSeq of the community modules, by its recursion: what a sequence  *)
(* of sequences holds when one more is put at its end.                     *)
(***************************************************************************)
Flattens(f, s) ==
    f = [i \in 1 .. Len(s) |-> IF i = 1 THEN s[i] ELSE f[i - 1] \o s[i]]

LEMMA FlattenEmpty == FlattenSeq(<<>>) = <<>>
  BY DEF FlattenSeq

LEMMA FlattenSolves ==
  ASSUME NEW B, NEW s \in Seq(Seq(B)), Len(s) # 0
  PROVE  \E f : Flattens(f, s) /\ FlattenSeq(s) = f[Len(s)]
  <1> DEFINE n == Len(s)
             S == Seq(B)
             step == [p \in S \X (1 .. n) |-> p[1] \o s[p[2]]]
             c == CHOOSE f : Flattens(f, s)
  <1>1. n \in Nat /\ n # 0 /\ \A i \in 1 .. n : s[i] \in S
    BY LenProperties, ElementOfSeq
  <1>2. <<>> \in S /\ \A a \in S : <<>> \o a = a
    BY EmptySeq, ConcatEmptySeq
  <1>3. FlattenSeq(s) = c[n]
    BY DEF FlattenSeq, Flattens
  <1> HIDE DEF n, c
  <1>4. /\ IsStep(step, n, S)
        /\ \A a \in S : \A i \in 1 .. n : step[<<a, i>>] = a \o s[i]
    BY <1>1, ConcatProperties DEF IsStep
  <1> HIDE DEF step, S
  <1>5. PICK f : Recurs(f, <<>>, step, n, S)
    BY <1>1, <1>2, <1>4, Recursion
  <1> DEFINE g == [i \in 1 .. n |-> f[i]]
  <1>6. ASSUME NEW i \in 1 .. n
        PROVE  g[i] = IF i = 1 THEN s[i] ELSE g[i - 1] \o s[i]
    <2>a. i - 1 \in 0 .. n /\ f \in [0 .. n -> S]
      BY <1>1, <1>5 DEF Recurs
    <2>1. i - 1 \in 0 .. n /\ f[i - 1] \in S
      BY <2>a
    <2>2. g[i] = f[i - 1] \o s[i]
      BY <1>4, <1>5, <2>1 DEF Recurs
    <2>3. CASE i = 1
      <3>1. f[i - 1] = <<>> /\ s[i] \in S
        BY <1>1, <1>5, <2>3 DEF Recurs
      <3> QED BY <1>2, <2>2, <2>3, <3>1
    <2>4. CASE i # 1
      <3>1. i - 1 \in 1 .. n
        BY <1>1, <2>4
      <3>2. g[i - 1] = f[i - 1]
        BY <3>1
      <3> HIDE DEF g
      <3> QED BY <2>2, <2>4, <3>2
    <2> QED BY <2>3, <2>4
  <1>7. Flattens(g, s)
    <2>1. g = [i \in 1 .. n |-> g[i]]
      OBVIOUS
    <2> HIDE DEF g
    <2> QED BY <1>6, <2>1 DEF Flattens, n
  <1> HIDE DEF g
  <1>8. Flattens(c, s)
    BY <1>7 DEF c
  <1> QED BY <1>3, <1>8 DEF n

LEMMA FlattenSteps ==
  ASSUME NEW B, NEW s \in Seq(Seq(B)), NEW f, Flattens(f, s)
  PROVE  /\ \A i \in 1 .. Len(s) : f[i] = IF i = 1 THEN s[i] ELSE f[i - 1] \o s[i]
         /\ \A i \in 1 .. Len(s) : f[i] \in Seq(B)
  <1> DEFINE n == Len(s)
             T == {i \in 1 .. n : f[i] \in Seq(B)}
  <1>1. n \in Nat /\ \A i \in 1 .. n : s[i] \in Seq(B)
    BY LenProperties, ElementOfSeq
  <1>2. \A i \in 1 .. n : f[i] = IF i = 1 THEN s[i] ELSE f[i - 1] \o s[i]
    BY DEF Flattens
  <1> HIDE DEF n
  <1>3. \A i \in 1 .. n : i < n /\ i \in T => i + 1 \in T
    <2> SUFFICES ASSUME NEW i \in 1 .. n, i < n, f[i] \in Seq(B)
                 PROVE  i + 1 \in 1 .. n /\ f[i + 1] \in Seq(B)
        OBVIOUS
    <2>1. i + 1 \in 1 .. n /\ i + 1 # 1 /\ (i + 1) - 1 = i
      BY <1>1
    <2>2. f[i + 1] = f[i] \o s[i + 1]
      BY <1>2, <2>1
    <2> QED BY <1>1, <2>1, <2>2, ConcatProperties
  <1>4. n # 0 => 1 \in T
    BY <1>1, <1>2
  <1>5. n # 0 => 1 .. n \subseteq T
    <2> HIDE DEF T
    <2> QED BY <1>1, <1>3, <1>4, UpwardInduction
  <1>6. \A i \in 1 .. n : f[i] \in Seq(B)
    BY <1>1, <1>5
  <1> QED BY <1>2, <1>6 DEF n

LEMMA FlattenIsSeq ==
  ASSUME NEW B, NEW s \in Seq(Seq(B))
  PROVE  FlattenSeq(s) \in Seq(B)
  <1>1. CASE Len(s) = 0
    <2>1. s = <<>>
      BY <1>1, EmptySeq, SeqEqual
    <2> QED BY <2>1, FlattenEmpty, EmptySeq
  <1>2. CASE Len(s) # 0
    <2>1. PICK f : Flattens(f, s) /\ FlattenSeq(s) = f[Len(s)]
      BY <1>2, FlattenSolves
    <2>2. Len(s) \in 1 .. Len(s)
      BY <1>2, LenProperties
    <2> QED BY <2>1, <2>2, FlattenSteps
  <1> QED BY <1>1, <1>2

LEMMA FlattenAppend ==
  ASSUME NEW B, NEW s \in Seq(Seq(B)), NEW b \in Seq(B)
  PROVE  FlattenSeq(Append(s, b)) = FlattenSeq(s) \o b
  <1> DEFINE n == Len(s)
             t == Append(s, b)
  <1>1. /\ n \in Nat /\ t \in Seq(Seq(B)) /\ Len(t) = n + 1 /\ t[n + 1] = b
        /\ \A i \in 1 .. n : t[i] = s[i]
    BY LenProperties, AppendProperties
  <1> HIDE DEF t, n
  <1>2. PICK g : Flattens(g, t) /\ FlattenSeq(t) = g[n + 1]
    <2>1. Len(t) # 0
      BY <1>1
    <2>2. \E g : Flattens(g, t) /\ FlattenSeq(t) = g[Len(t)]
      BY <1>1, <2>1, FlattenSolves
    <2> QED BY <1>1, <2>2
  <1>3. \A i \in 1 .. n + 1 : g[i] = IF i = 1 THEN t[i] ELSE g[i - 1] \o t[i]
    <2>1. \A i \in 1 .. Len(t) : g[i] = IF i = 1 THEN t[i] ELSE g[i - 1] \o t[i]
      <3>1. t \in Seq(Seq(B)) /\ Flattens(g, t)
        BY <1>1, <1>2
      <3> QED BY <3>1, FlattenSteps
    <2> QED BY <1>1, <2>1
  <1>4. CASE n = 0
    <2>1. s = <<>>
      BY <1>4, EmptySeq, SeqEqual DEF n
    <2>2. 1 \in 1 .. n + 1 /\ n + 1 = 1
      BY <1>4
    <2>3. g[1] = b
      BY <1>1, <1>3, <2>2
    <2>4. <<>> \o b = b
      BY ConcatEmptySeq
    <2> QED BY <1>2, <2>1, <2>2, <2>3, <2>4, FlattenEmpty DEF t
  <1>5. CASE n # 0
    <2>1. PICK f : Flattens(f, s) /\ FlattenSeq(s) = f[n]
      BY <1>5, FlattenSolves DEF n
    <2>2. \A i \in 1 .. n : f[i] = IF i = 1 THEN s[i] ELSE f[i - 1] \o s[i]
      BY <2>1, FlattenSteps DEF n
    <2> DEFINE T == {i \in 1 .. n : g[i] = f[i]}
    <2>3. 1 \in T
      BY <1>1, <1>3, <1>5, <2>2
    <2>4. \A i \in 1 .. n : i < n /\ i \in T => i + 1 \in T
      <3> SUFFICES ASSUME NEW i \in 1 .. n, i < n, g[i] = f[i]
                   PROVE  i + 1 \in 1 .. n /\ g[i + 1] = f[i + 1]
          OBVIOUS
      <3>1. /\ i + 1 \in 1 .. n /\ i + 1 \in 1 .. n + 1 /\ i + 1 # 1 /\ (i + 1) - 1 = i
        BY <1>1
      <3>2. g[i + 1] = g[i] \o t[i + 1] /\ f[i + 1] = f[i] \o s[i + 1]
        BY <1>3, <2>2, <3>1
      <3> QED BY <1>1, <3>1, <3>2
    <2>5. 1 .. n \subseteq T
      <3> HIDE DEF T
      <3> QED BY <1>1, <2>3, <2>4, UpwardInduction
    <2>6. g[n] = f[n]
      BY <1>1, <1>5, <2>5
    <2>7. g[n + 1] = g[n] \o b
      <3>1. n + 1 \in 1 .. n + 1 /\ n + 1 # 1 /\ (n + 1) - 1 = n
        BY <1>1, <1>5
      <3> QED BY <1>1, <1>3, <3>1
    <2> QED BY <1>2, <2>1, <2>6, <2>7 DEF t
  <1> QED BY <1>4, <1>5

-----------------------------------------------------------------------------
(***************************************************************************)
(* The message codec: the pieces in the body, and the types of what is     *)
(* pushed and popped.                                                      *)
(***************************************************************************)
PieceType == [kind : {"data", "text", "message", "rest"}, bytes : Seq(Bytes)]

Contents(p) == [i \in DOMAIN p |-> p[i].bytes]

MessageTypes ==
    /\ header \in [id : Ids, size : Nat]
    /\ body \in Seq(Bytes)
    /\ echo \in Seq(Bytes)
    /\ pieces \in Seq(PieceType)

MessageInv == MessageTypes /\ CarriesWhatWasPushed

LEMMA ContentsAreBytes ==
  ASSUME NEW p \in Seq(PieceType)
  PROVE  /\ Contents(p) \in Seq(Seq(Bytes)) /\ Len(Contents(p)) = Len(p)
         /\ \A i \in 1 .. Len(p) : Contents(p)[i] = p[i].bytes
  <1>1. Len(p) \in Nat /\ DOMAIN p = 1 .. Len(p)
    BY LenProperties
  <1>2. \A i \in 1 .. Len(p) : p[i].bytes \in Seq(Bytes)
    <2>1. \A i \in 1 .. Len(p) : p[i] \in PieceType
      BY ElementOfSeq
    <2> QED BY <2>1 DEF PieceType
  <1>3. Contents(p) = [i \in 1 .. Len(p) |-> p[i].bytes]
    BY <1>1 DEF Contents
  <1>4. Contents(p) \in Seq(Seq(Bytes)) /\ Len(Contents(p)) = Len(p)
    BY <1>1, <1>2, <1>3
  <1> QED BY <1>3, <1>4

\* One more piece at the end puts its bytes behind the others'.
LEMMA ContentsGrow ==
  ASSUME NEW p \in Seq(PieceType), NEW q \in PieceType
  PROVE  FlattenSeq(Contents(Append(p, q))) = FlattenSeq(Contents(p)) \o q.bytes
  <1> DEFINE r == Append(p, q)
  <1>1. /\ r \in Seq(PieceType) /\ Len(r) = Len(p) + 1 /\ r[Len(p) + 1] = q
        /\ \A i \in 1 .. Len(p) : r[i] = p[i]
        /\ Len(p) \in Nat
    BY AppendProperties, LenProperties
  <1> HIDE DEF r
  <1>2. q.bytes \in Seq(Bytes)
    BY DEF PieceType
  <1>3. /\ Contents(p) \in Seq(Seq(Bytes)) /\ Len(Contents(p)) = Len(p)
        /\ \A i \in 1 .. Len(p) : Contents(p)[i] = p[i].bytes
    BY ContentsAreBytes
  <1>4. /\ Contents(r) \in Seq(Seq(Bytes)) /\ Len(Contents(r)) = Len(r)
        /\ \A i \in 1 .. Len(r) : Contents(r)[i] = r[i].bytes
    BY <1>1, ContentsAreBytes
  <1> DEFINE a == Append(Contents(p), q.bytes)
  <1>5. /\ a \in Seq(Seq(Bytes)) /\ Len(a) = Len(p) + 1 /\ a[Len(p) + 1] = q.bytes
        /\ \A i \in 1 .. Len(p) : a[i] = p[i].bytes
    BY <1>2, <1>3, AppendProperties
  <1> HIDE DEF a
  <1>6. \A i \in 1 .. Len(r) : Contents(r)[i] = a[i]
    <2> SUFFICES ASSUME NEW i \in 1 .. Len(r) PROVE Contents(r)[i] = a[i]
        OBVIOUS
    <2>1. i = Len(p) + 1 \/ i \in 1 .. Len(p)
      BY <1>1
    <2> QED BY <1>1, <1>4, <1>5, <2>1
  <1>7. Contents(r) = a
    <2>1. Len(Contents(r)) = Len(a) /\ \A i \in 1 .. Len(Contents(r)) : Contents(r)[i] = a[i]
      BY <1>1, <1>4, <1>5, <1>6
    <2> QED BY <1>4, <1>5, <2>1, SeqEqual
  <1>8. FlattenSeq(a) = FlattenSeq(Contents(p)) \o q.bytes
    BY <1>2, <1>3, FlattenAppend DEF a
  <1> QED BY <1>7, <1>8 DEF r

LEMMA NoContents == Contents(<<>>) = <<>> /\ FlattenSeq(Contents(<<>>)) = <<>>
  <1>1. Contents(<<>>) = <<>>
    BY DEF Contents
  <1> QED BY <1>1, FlattenEmpty

\* A sequence that is not empty, by its last element.
LEMMA FrontAndLast ==
  ASSUME NEW S, NEW s \in Seq(S), s # <<>>
  PROVE  /\ Front(s) \in Seq(S) /\ Last(s) \in S /\ s = Append(Front(s), Last(s))
         /\ Len(s) \in Nat \ {0} /\ Len(Front(s)) = Len(s) - 1
         /\ \A i \in 1 .. Len(s) - 1 : Front(s)[i] = s[i]
  <1>1. Len(s) \in Nat \ {0} /\ \A i \in 1 .. Len(s) : s[i] \in S
    BY LenProperties, ElementOfSeq, EmptySeq
  <1>2. /\ Front(s) \in Seq(S) /\ Len(Front(s)) = Len(s) - 1
        /\ \A i \in 1 .. Len(s) - 1 : Front(s)[i] = s[i]
    <2> DEFINE m == Len(s) - 1
               f == SubSeq(s, 1, m)
    <2>1. 1 \in Int /\ m \in Nat /\ \A i \in 1 .. m : s[i] \in S
      BY <1>1
    <2>2. Front(s) = f
      BY DEF Front
    <2> HIDE DEF m
    <2>3. /\ f \in Seq(S)
          /\ Len(f) = IF 1 <= m THEN m - 1 + 1 ELSE 0
          /\ \A i \in 1 .. m - 1 + 1 : f[i] = s[1 + i - 1]
      BY <2>1, SubSeqProperties
    <2> HIDE DEF f
    <2>4. Len(f) = m /\ \A i \in 1 .. m : f[i] = s[i]
      BY <2>1, <2>3
    <2> QED BY <2>2, <2>3, <2>4 DEF m
  <1>3. Last(s) \in S /\ Last(s) = s[Len(s)]
    BY <1>1 DEF Last
  <1> DEFINE a == Append(Front(s), Last(s))
  <1>4. /\ a \in Seq(S) /\ Len(a) = Len(s) /\ a[Len(s)] = Last(s)
        /\ \A i \in 1 .. Len(s) - 1 : a[i] = Front(s)[i]
    BY <1>1, <1>2, <1>3, AppendProperties
  <1> HIDE DEF a
  <1>5. \A i \in 1 .. Len(s) : s[i] = a[i]
    <2> SUFFICES ASSUME NEW i \in 1 .. Len(s) PROVE s[i] = a[i]
        OBVIOUS
    <2>1. i = Len(s) \/ i \in 1 .. Len(s) - 1
      BY <1>1
    <2> QED BY <1>2, <1>3, <1>4, <2>1
  <1>6. s = a
    BY <1>4, <1>5, SeqEqual
  <1> QED BY <1>1, <1>2, <1>3, <1>6 DEF a

\* A single piece: the body has its bytes.
LEMMA OnePiece ==
  ASSUME NEW q \in PieceType
  PROVE  <<q>> \in Seq(PieceType) /\ FlattenSeq(Contents(<<q>>)) = q.bytes
  <1>1. <<>> \in Seq(PieceType) /\ <<q>> = Append(<<>>, q)
    OBVIOUS
  <1>2. FlattenSeq(Contents(<<q>>)) = <<>> \o q.bytes
    BY <1>1, ContentsGrow, NoContents
  <1>3. q.bytes \in Seq(Bytes)
    BY DEF PieceType
  <1>4. <<>> \o q.bytes = q.bytes
    BY <1>3, ConcatEmptySeq
  <1> QED BY <1>1, <1>2, <1>4, AppendProperties

\* The bytes at the end of a body are popped again, and the rest stays.
LEMMA BytesAtEnd ==
  ASSUME NEW a \in Seq(Bytes), NEW d \in Seq(Bytes)
  PROVE  FirstOf(a \o d, Len(d)) = a /\ LastOf(a \o d, Len(d)) = d
  <1> DEFINE n == Len(a)
             m == Len(d)
             b == a \o d
  <1>1. /\ n \in Nat /\ m \in Nat /\ b \in Seq(Bytes) /\ Len(b) = n + m
        /\ \A i \in 1 .. n + m : b[i] = IF i <= n THEN a[i] ELSE d[i - n]
    <2>1. n \in Nat /\ m \in Nat
      BY LenProperties
    <2>2. /\ a \o d \in Seq(Bytes) /\ Len(a \o d) = Len(a) + Len(d)
          /\ \A i \in 1 .. Len(a) + Len(d) :
                (a \o d)[i] = IF i <= Len(a) THEN a[i] ELSE d[i - Len(a)]
      BY ConcatProperties
    <2> QED BY <2>1, <2>2
  <1>2. \A i \in 1 .. n + m : b[i] \in Bytes
    <2> HIDE DEF b
    <2> QED BY <1>1, ElementOfSeq
  <1> HIDE DEF b, n, m
  <1>3. SubSeq(b, 1, n) = a
    <2>1. 1 \in Int /\ n \in Int /\ \A i \in 1 .. n : b[i] \in Bytes
      BY <1>1, <1>2
    <2>2. /\ SubSeq(b, 1, n) \in Seq(Bytes)
          /\ Len(SubSeq(b, 1, n)) = IF 1 <= n THEN n - 1 + 1 ELSE 0
          /\ \A i \in 1 .. n - 1 + 1 : SubSeq(b, 1, n)[i] = b[1 + i - 1]
      BY <2>1, SubSeqProperties
    <2>3. Len(SubSeq(b, 1, n)) = n /\ \A i \in 1 .. n : SubSeq(b, 1, n)[i] = a[i]
      BY <1>1, <2>2
    <2> QED BY <2>2, <2>3, SeqEqual DEF n
  <1> DEFINE e == SubSeq(b, n + 1, n + m)
  <1>4. e = d
    <2>1. n + 1 \in Int /\ n + m \in Int /\ \A i \in n + 1 .. n + m : b[i] \in Bytes
      BY <1>1, <1>2
    <2>2. /\ e \in Seq(Bytes)
          /\ Len(e) = IF n + 1 <= n + m THEN (n + m) - (n + 1) + 1 ELSE 0
          /\ \A i \in 1 .. (n + m) - (n + 1) + 1 : e[i] = b[(n + 1) + i - 1]
      BY <2>1, SubSeqProperties
    <2> HIDE DEF e
    <2>3. Len(e) = m
      BY <1>1, <2>2
    <2>4. \A i \in 1 .. m : e[i] = d[i]
      <3> SUFFICES ASSUME NEW i \in 1 .. m PROVE e[i] = d[i]
          OBVIOUS
      <3>1. i \in 1 .. (n + m) - (n + 1) + 1 /\ (n + 1) + i - 1 = n + i
            /\ n + i \in 1 .. n + m /\ ~(n + i <= n) /\ (n + i) - n = i
        BY <1>1
      <3> QED BY <1>1, <2>2, <3>1
    <2> QED BY <2>2, <2>3, <2>4, SeqEqual DEF m
  <1>5. Len(b) - m = n /\ Len(b) - m + 1 = n + 1 /\ Len(b) = n + m
    BY <1>1
  <1>6. FirstOf(b, m) = a /\ LastOf(b, m) = d
    BY <1>3, <1>4, <1>5 DEF FirstOf, LastOf
  <1> QED BY <1>6 DEF b, m

\* What stays when bytes are popped is a sequence of bytes.
LEMMA RestIsSeq ==
  ASSUME NEW b \in Seq(Bytes), NEW n \in Nat, n <= Len(b)
  PROVE  FirstOf(b, n) \in Seq(Bytes)
  <1> DEFINE m == Len(b) - n
  <1>1. Len(b) \in Nat /\ \A i \in 1 .. Len(b) : b[i] \in Bytes
    BY LenProperties, ElementOfSeq
  <1>2. 1 \in Int /\ m \in Int /\ \A i \in 1 .. m : b[i] \in Bytes
    BY <1>1
  <1>3. SubSeq(b, 1, m) \in Seq(Bytes)
    <2> HIDE DEF m
    <2> QED BY <1>2, SubSeqProperties
  <1> QED BY <1>3 DEF FirstOf

-----------------------------------------------------------------------------
LEMMA HeaderResized ==
  ASSUME header \in [id : Ids, size : Nat], NEW b \in Seq(Bytes)
  PROVE  Resized(b) \in [id : Ids, size : Nat] /\ Resized(b).size = Len(b)
  BY LenProperties DEF Resized

LEMMA PushKeeps ==
  ASSUME MessageInv, NEW kind \in {"data", "text", "message"}, NEW bytes \in Seq(Bytes),
         Push(kind, bytes)
  PROVE  MessageInv'
  <1> DEFINE q == [kind |-> kind, bytes |-> bytes]
  <1>1. q \in PieceType /\ q.kind = kind /\ q.bytes = bytes
    BY DEF PieceType
  <1>2. /\ body' = body \o bytes /\ header' = Resized(body') /\ pieces' = Append(pieces, q)
        /\ got' = Nothing /\ echo' = echo
    BY DEF Push, Appended
  <1> HIDE DEF q
  <1>3. body' \in Seq(Bytes) /\ pieces' \in Seq(PieceType)
    BY <1>1, <1>2, ConcatProperties, AppendProperties DEF MessageInv, MessageTypes
  <1>4. header' \in [id : Ids, size : Nat] /\ header'.size = Len(body')
    BY <1>2, <1>3, HeaderResized DEF MessageInv, MessageTypes
  <1>6. body' = FlattenSeq(Contents(pieces'))
    <2>1. body = FlattenSeq(Contents(pieces))
      BY DEF MessageInv, CarriesWhatWasPushed, Pushed, Contents
    <2>2. FlattenSeq(Contents(Append(pieces, q))) = FlattenSeq(Contents(pieces)) \o q.bytes
      BY <1>1, ContentsGrow DEF MessageInv, MessageTypes
    <2> QED BY <1>1, <1>2, <2>1, <2>2
  <1>7. got'.value = got'.pushed
    BY <1>2 DEF Nothing
  <1>8. MessageTypes'
    BY <1>2, <1>3, <1>4 DEF MessageInv, MessageTypes
  <1>9. CarriesWhatWasPushed'
    BY <1>4, <1>6, <1>7 DEF CarriesWhatWasPushed, Pushed, Contents
  <1> QED BY <1>8, <1>9 DEF MessageInv

\* The message is emptied.
LEMMA EmptiedKeeps ==
  ASSUME MessageInv, body' = <<>>, header' \in [id : Ids, size : Nat], header'.size = 0,
         pieces' = <<>>, echo' = echo, got'.value = got'.pushed
  PROVE  MessageInv'
  <1>1. MessageTypes'
    BY EmptySeq DEF MessageInv, MessageTypes
  <1>2. Contents(pieces') = <<>> /\ FlattenSeq(Contents(pieces')) = <<>>
    BY NoContents
  <1>3. CarriesWhatWasPushed'
    BY <1>2 DEF CarriesWhatWasPushed, Pushed, Contents
  <1> QED BY <1>1, <1>3 DEF MessageInv

\* A datum that was pushed last comes back whole.
LEMMA PopLastKeeps ==
  ASSUME MessageInv, NEW n \in Nat, Matches(n), PopData(n)
  PROVE  MessageInv'
  <1> DEFINE p == Front(pieces)
             q == Last(pieces)
             a == FlattenSeq(Contents(p))
  <1>1. p \in Seq(PieceType) /\ q \in PieceType /\ pieces = Append(p, q)
    BY FrontAndLast DEF Matches, MessageInv, MessageTypes
  <1>2. q.bytes \in Seq(Bytes) /\ Len(q.bytes) = n
    BY <1>1 DEF PieceType, Matches
  <1>3. a \in Seq(Bytes)
    BY <1>1, ContentsAreBytes, FlattenIsSeq
  <1>4. body = a \o q.bytes
    <2>1. body = FlattenSeq(Contents(pieces))
      BY DEF MessageInv, CarriesWhatWasPushed, Pushed, Contents
    <2>2. FlattenSeq(Contents(Append(p, q))) = a \o q.bytes
      BY <1>1, ContentsGrow
    <2> QED BY <1>1, <2>1, <2>2
  <1>5. /\ body' = FirstOf(body, n) /\ header' = Resized(body') /\ pieces' = p /\ echo' = echo
        /\ got' = [value |-> LastOf(body, n), pushed |-> q.bytes]
    BY DEF PopData, LeftByPop
  <1> HIDE DEF p, q, a
  <1>6. body' = a /\ got'.value = q.bytes /\ got'.pushed = q.bytes
    BY <1>2, <1>3, <1>4, <1>5, BytesAtEnd
  <1>7. header' \in [id : Ids, size : Nat] /\ header'.size = Len(body')
    BY <1>3, <1>5, <1>6, HeaderResized DEF MessageInv, MessageTypes
  <1>8. MessageTypes'
    BY <1>1, <1>3, <1>5, <1>6, <1>7 DEF MessageInv, MessageTypes
  <1>9. CarriesWhatWasPushed'
    BY <1>5, <1>6, <1>7 DEF CarriesWhatWasPushed, Pushed, Contents, a
  <1> QED BY <1>8, <1>9 DEF MessageInv

\* Any other pop of data takes the bytes at the end and no others.
LEMMA PopOtherKeeps ==
  ASSUME MessageInv, NEW n \in Nat, ~Matches(n), PopData(n)
  PROVE  MessageInv'
  <1> DEFINE q == [kind |-> "rest", bytes |-> FirstOf(Pushed, n)]
  <1>1. body = Pushed /\ body \in Seq(Bytes) /\ n <= Len(body)
    BY DEF MessageInv, MessageTypes, CarriesWhatWasPushed, PopData
  <1>2. FirstOf(body, n) \in Seq(Bytes)
    BY <1>1, RestIsSeq
  <1>3. q \in PieceType /\ q.bytes = FirstOf(body, n)
    BY <1>1, <1>2 DEF PieceType
  <1>4. /\ body' = FirstOf(body, n) /\ header' = Resized(body') /\ pieces' = <<q>>
        /\ echo' = echo
        /\ got' = [value |-> LastOf(body, n), pushed |-> LastOf(Pushed, n)]
    BY DEF PopData, LeftByPop
  <1> HIDE DEF q
  <1>5. pieces' \in Seq(PieceType) /\ FlattenSeq(Contents(pieces')) = body'
    BY <1>3, <1>4, OnePiece
  <1>6. header' \in [id : Ids, size : Nat] /\ header'.size = Len(body')
    BY <1>2, <1>4, HeaderResized DEF MessageInv, MessageTypes
  <1>7. MessageTypes'
    BY <1>2, <1>4, <1>5, <1>6 DEF MessageInv, MessageTypes
  <1>8. got'.value = got'.pushed
    BY <1>1, <1>4
  <1>9. CarriesWhatWasPushed'
    BY <1>5, <1>6, <1>8 DEF CarriesWhatWasPushed, Pushed, Contents
  <1> QED BY <1>7, <1>9 DEF MessageInv

LEMMA MessageInitInv == MessageInit => MessageInv
  <1> SUFFICES ASSUME MessageInit PROVE MessageInv
      OBVIOUS
  <1>1. header \in [id : Ids, size : Nat] /\ header.size = 0
    BY DEF MessageInit, Ids
  <1>2. body = <<>> /\ pieces = <<>> /\ echo = <<>> /\ got.value = got.pushed
    BY DEF MessageInit, Nothing
  <1>3. MessageTypes
    BY <1>1, <1>2, EmptySeq DEF MessageTypes
  <1>4. body = FlattenSeq(Contents(pieces)) /\ Len(body) = 0
    BY <1>2, NoContents
  <1> QED BY <1>1, <1>2, <1>3, <1>4 DEF MessageInv, CarriesWhatWasPushed, Pushed, Contents

\* What is pushed is a sequence of bytes.
LEMMA PushedIsSeq ==
  /\ \A d \in Datum : d \in Seq(Bytes)
  /\ \A s \in Texts : s \in Seq(Bytes)
  <1>1. ASSUME NEW n \in Nat, NEW s \in [1 .. n -> Bytes]
        PROVE  s \in Seq(Bytes)
    OBVIOUS
  <1>2. \A d \in Datum : \E n \in Nat : d \in [1 .. n -> Bytes]
    BY MessageAssumption DEF Datum
  <1>3. \A s \in Texts : \E n \in Nat : s \in [1 .. n -> Bytes]
    BY MessageAssumption DEF Texts
  <1> QED BY <1>1, <1>2, <1>3

LEMMA MessageStepInv == MessageInv /\ [MessageNext]_msgVars => MessageInv'
  <1> SUFFICES ASSUME MessageInv, [MessageNext]_msgVars PROVE MessageInv'
      OBVIOUS
  <1>1. ASSUME NEW i \in Ids, SetId(i) PROVE MessageInv'
    <2>1. /\ header' \in [id : Ids, size : Nat] /\ header'.size = header.size
          /\ got'.value = got'.pushed /\ UNCHANGED <<body, pieces, echo>>
      BY <1>1 DEF SetId, Nothing, MessageInv, MessageTypes
    <2> QED BY <2>1 DEF MessageInv, MessageTypes, CarriesWhatWasPushed, Pushed
  <1>2. ASSUME NEW d \in Datum, PushData(d) PROVE MessageInv'
    BY <1>2, PushedIsSeq, PushKeeps DEF PushData
  <1>3. ASSUME NEW s \in Texts, PushString(s) PROVE MessageInv'
    BY <1>3, PushedIsSeq, PushKeeps DEF PushString
  <1>4. CASE PushMessage
    BY <1>4, PushKeeps DEF PushMessage, MessageInv, MessageTypes
  <1>5. CASE Echo
    <2>1. echo' = <<>> \o body /\ got'.value = got'.pushed /\ UNCHANGED <<header, body, pieces>>
      BY <1>5 DEF Echo, Appended, Nothing
    <2>2. echo' \in Seq(Bytes)
      BY <2>1, ConcatEmptySeq DEF MessageInv, MessageTypes
    <2> QED BY <2>1, <2>2 DEF MessageInv, MessageTypes, CarriesWhatWasPushed, Pushed
  <1>6. CASE Clear
    <2>1. header' \in [id : Ids, size : Nat] /\ header'.size = 0
      BY <1>6 DEF Clear, MessageInv, MessageTypes
    <2>2. body' = <<>> /\ pieces' = <<>> /\ echo' = echo /\ got'.value = got'.pushed
      BY <1>6 DEF Clear, Nothing
    <2> QED BY <2>1, <2>2, EmptiedKeeps
  <1>7. ASSUME NEW n \in Sizes, PopData(n) PROVE MessageInv'
    <2>1. n \in Nat
      BY MessageAssumption
    <2> QED BY <1>7, <2>1, PopLastKeeps, PopOtherKeeps
  <1>10. ASSUME NEW n \in Sizes, PopShort(n) PROVE MessageInv'
    <2>1. got'.value = got'.pushed /\ UNCHANGED <<header, body, pieces, echo>>
      BY <1>10 DEF PopShort, Nothing
    <2> QED BY <2>1 DEF MessageInv, MessageTypes, CarriesWhatWasPushed, Pushed
  <1>8. CASE PopString
    <2>1. body' = <<>> /\ header' = Resized(body') /\ pieces' = <<>> /\ echo' = echo
      BY <1>8 DEF PopString
    <2>2. got'.value = body /\ got'.pushed = FlattenSeq(Contents(pieces))
      BY <1>8 DEF PopString, Pushed, Contents
    <2>3. body = FlattenSeq(Contents(pieces))
      BY DEF MessageInv, CarriesWhatWasPushed, Pushed, Contents
    <2>4. body' \in Seq(Bytes) /\ Len(body') = 0
      BY <2>1, EmptySeq
    <2>5. header' \in [id : Ids, size : Nat] /\ header'.size = 0
      BY <2>1, <2>4, HeaderResized DEF MessageInv, MessageTypes
    <2> QED BY <2>1, <2>2, <2>3, <2>5, EmptiedKeeps
  <1>9. CASE UNCHANGED msgVars
    BY <1>9 DEF msgVars, MessageInv, MessageTypes, CarriesWhatWasPushed, Pushed
  <1> QED BY <1>1, <1>2, <1>3, <1>4, <1>5, <1>6, <1>7, <1>8, <1>9, <1>10 DEF MessageNext

(***************************************************************************)
(* Whatever is pushed and popped, in whatever order and of whatever size:  *)
(* the header announces the body there is and the body is what was pushed  *)
(* and not popped since.  A datum popped when it was pushed last comes     *)
(* back whole; a pop that does not match the last push takes exactly the   *)
(* bytes at the end, and one from a body that is too short takes none.     *)
(***************************************************************************)
THEOREM MessageCarries == MessageSpec => []CarriesWhatWasPushed
  <1>1. MessageInv => CarriesWhatWasPushed
    BY DEF MessageInv
  <1> QED BY <1>1, MessageInitInv, MessageStepInv, PTL DEF MessageSpec

-----------------------------------------------------------------------------
(***************************************************************************)
(* Loops that append: what such a loop leaves is made of the chunks, one   *)
(* for each round, in order.                                               *)
(***************************************************************************)
IsLoop(f, chunk, n) ==
    /\ f[0] = <<>>
    /\ \A i \in 1 .. n : f[i] = f[i - 1] \o chunk[i]

\* Every element comes from a place in a chunk, every place comes to be an
\* element, and of two elements the earlier comes from the earlier place.
Traces(out, chunk, n) ==
    /\ \A k \in 1 .. Len(out) :
          \E i \in 1 .. n : \E m \in 1 .. Len(chunk[i]) : out[k] = chunk[i][m]
    /\ \A i \in 1 .. n : \A m \in 1 .. Len(chunk[i]) :
          \E k \in 1 .. Len(out) : out[k] = chunk[i][m]
    /\ \A k, l \in 1 .. Len(out) : k < l =>
          \E i, j \in 1 .. n : \E a \in 1 .. Len(chunk[i]), b \in 1 .. Len(chunk[j]) :
              /\ out[k] = chunk[i][a] /\ out[l] = chunk[j][b]
              /\ i < j \/ (i = j /\ a < b)

Chunks(chunk, n, T) == chunk \in [1 .. n -> Seq(T)]

LEMMA LoopExists ==
  ASSUME NEW T, NEW n \in Nat, NEW chunk, Chunks(chunk, n, T)
  PROVE  \E f : f \in [0 .. n -> Seq(T)] /\ IsLoop(f, chunk, n)
  <1> DEFINE S == Seq(T)
             step == [p \in S \X (1 .. n) |-> p[1] \o chunk[p[2]]]
  <1>1. <<>> \in S
    BY EmptySeq
  <1>2. ASSUME NEW s \in S, NEW i \in 1 .. n
        PROVE  s \o chunk[i] \in S
    <2>1. chunk[i] \in Seq(T)
      BY DEF Chunks
    <2> QED BY <2>1, ConcatProperties
  <1>3. /\ IsStep(step, n, S)
        /\ \A s \in S : \A i \in 1 .. n : step[<<s, i>>] = s \o chunk[i]
    BY <1>2 DEF IsStep
  <1> HIDE DEF step, S
  <1>4. PICK f : Recurs(f, <<>>, step, n, S)
    BY <1>1, <1>3, Recursion
  <1>5. ASSUME NEW i \in 1 .. n PROVE f[i] = f[i - 1] \o chunk[i]
    <2>1. i - 1 \in 0 .. n
      OBVIOUS
    <2>2. f[i - 1] \in S
      BY <1>4, <2>1 DEF Recurs
    <2> QED BY <1>3, <1>4, <2>2 DEF Recurs
  <1> QED BY <1>4, <1>5 DEF IsLoop, Recurs, S

LEMMA LoopStep ==
  ASSUME NEW T, NEW n \in Nat, NEW chunk, Chunks(chunk, n + 1, T),
         NEW s \in Seq(T), Traces(s, chunk, n)
  PROVE  Traces(s \o chunk[n + 1], chunk, n + 1)
  <1> DEFINE c == chunk[n + 1]
             out == s \o c
             L == Len(s)
  <1>1. c \in Seq(T)
    BY DEF Chunks
  <1>2. L \in Nat /\ Len(c) \in Nat /\ n + 1 \in 1 .. n + 1
    BY <1>1, LenProperties
  <1>3. /\ Len(out) = L + Len(c)
        /\ \A k \in 1 .. L : k \in 1 .. Len(out) /\ out[k] = s[k]
        /\ \A m \in 1 .. Len(c) : L + m \in 1 .. Len(out) /\ out[L + m] = c[m]
        /\ \A k \in 1 .. Len(out) : k \in 1 .. L \/ (~(k <= L) /\ k - L \in 1 .. Len(c) /\ k = L + (k - L))
    <2>1. Len(out) = L + Len(c) /\ \A k \in 1 .. L + Len(c) :
              out[k] = IF k <= L THEN s[k] ELSE c[k - L]
      BY <1>1, ConcatProperties
    <2> HIDE DEF out, c, L
    <2> QED BY <1>2, <2>1
  <1> HIDE DEF out, L
  <1>4. \A k \in 1 .. Len(out) :
          \E i \in 1 .. n + 1 : \E m \in 1 .. Len(chunk[i]) : out[k] = chunk[i][m]
    <2> SUFFICES ASSUME NEW k \in 1 .. Len(out)
                 PROVE  \E i \in 1 .. n + 1 : \E m \in 1 .. Len(chunk[i]) : out[k] = chunk[i][m]
        OBVIOUS
    <2>1. CASE k \in 1 .. L
      <3>1. PICK i \in 1 .. n : \E m \in 1 .. Len(chunk[i]) : s[k] = chunk[i][m]
        BY <2>1 DEF Traces, L
      <3>2. i \in 1 .. n + 1
        OBVIOUS
      <3> QED BY <1>3, <2>1, <3>1, <3>2
    <2>2. CASE k \notin 1 .. L
      <3>1. k - L \in 1 .. Len(c) /\ out[k] = c[k - L]
        BY <1>3, <2>2
      <3> QED BY <1>2, <3>1
    <2> QED BY <2>1, <2>2
  <1>5. ASSUME NEW i \in 1 .. n + 1, NEW m \in 1 .. Len(chunk[i])
        PROVE  \E k \in 1 .. Len(out) : out[k] = chunk[i][m]
    <2>1. CASE i = n + 1
      <3>1. m \in 1 .. Len(c) /\ chunk[i][m] = c[m]
        BY <2>1
      <3> HIDE DEF c
      <3> QED BY <1>3, <3>1
    <2>2. CASE i # n + 1
      <3>1. i \in 1 .. n
        BY <2>2
      <3>2. PICK k \in 1 .. L : s[k] = chunk[i][m]
        BY <3>1 DEF Traces, L
      <3> QED BY <1>3, <3>2
    <2> QED BY <2>1, <2>2
  <1>6. ASSUME NEW k \in 1 .. Len(out), NEW l \in 1 .. Len(out), k < l
        PROVE  \E i, j \in 1 .. n + 1 : \E a \in 1 .. Len(chunk[i]), b \in 1 .. Len(chunk[j]) :
              /\ out[k] = chunk[i][a] /\ out[l] = chunk[j][b]
              /\ i < j \/ (i = j /\ a < b)
    <2>1. CASE l \in 1 .. L
      <3>1. k \in 1 .. L /\ out[k] = s[k] /\ out[l] = s[l]
        BY <1>2, <1>3, <1>6, <2>1
      <3>2. PICK i \in 1 .. n, j \in 1 .. n :
              \E a \in 1 .. Len(chunk[i]), b \in 1 .. Len(chunk[j]) :
              /\ s[k] = chunk[i][a] /\ s[l] = chunk[j][b]
              /\ i < j \/ (i = j /\ a < b)
        BY <1>6, <2>1, <3>1 DEF Traces, L
      <3>3. i \in 1 .. n + 1 /\ j \in 1 .. n + 1
        OBVIOUS
      <3> QED BY <3>1, <3>2, <3>3
    <2>2. CASE l \notin 1 .. L /\ k \in 1 .. L
      <3>1. l - L \in 1 .. Len(c) /\ out[l] = c[l - L] /\ out[k] = s[k]
        BY <1>3, <2>2
      <3>2. PICK i \in 1 .. n : \E a \in 1 .. Len(chunk[i]) : s[k] = chunk[i][a]
        BY <2>2 DEF Traces, L
      <3>3. i \in 1 .. n + 1 /\ i < n + 1
        OBVIOUS
      <3> QED BY <1>2, <3>1, <3>2, <3>3
    <2>3. CASE k \notin 1 .. L
      <3>0. l \notin 1 .. L
        BY <1>2, <1>3, <1>6, <2>3
      <3>1. k - L \in 1 .. Len(c) /\ out[k] = c[k - L]
        BY <1>3, <2>3
      <3>2. l - L \in 1 .. Len(c) /\ out[l] = c[l - L]
        BY <1>3, <3>0
      <3>3. k - L < l - L
        BY <1>2, <1>3, <1>6
      <3> QED BY <1>2, <3>1, <3>2, <3>3
    <2> QED BY <2>1, <2>2, <2>3
  <1> QED BY <1>4, <1>5, <1>6 DEF Traces, out

\* A trace is one of these chunks only.
LEMMA TracesOf ==
  ASSUME NEW n \in Nat, NEW p, NEW q, NEW s,
         \A k \in 1 .. n : p[k] = q[k], Traces(s, p, n)
  PROVE  Traces(s, q, n)
  <1>1. ASSUME NEW k \in 1 .. Len(s)
        PROVE  \E i \in 1 .. n : \E m \in 1 .. Len(q[i]) : s[k] = q[i][m]
    <2>1. PICK i \in 1 .. n : \E m \in 1 .. Len(p[i]) : s[k] = p[i][m]
      BY DEF Traces
    <2>2. p[i] = q[i]
      OBVIOUS
    <2> QED BY <2>1, <2>2
  <1>2. ASSUME NEW i \in 1 .. n, NEW m \in 1 .. Len(q[i])
        PROVE  \E k \in 1 .. Len(s) : s[k] = q[i][m]
    <2>1. p[i] = q[i]
      OBVIOUS
    <2>2. m \in 1 .. Len(p[i])
      BY <2>1
    <2>3. \E k \in 1 .. Len(s) : s[k] = p[i][m]
      BY <2>2 DEF Traces
    <2> QED BY <2>1, <2>3
  <1>3. ASSUME NEW k \in 1 .. Len(s), NEW l \in 1 .. Len(s), k < l
        PROVE  \E i, j \in 1 .. n : \E a \in 1 .. Len(q[i]), b \in 1 .. Len(q[j]) :
                  /\ s[k] = q[i][a] /\ s[l] = q[j][b]
                  /\ i < j \/ (i = j /\ a < b)
    <2>1. PICK i \in 1 .. n, j \in 1 .. n :
            \E a \in 1 .. Len(p[i]), b \in 1 .. Len(p[j]) :
               /\ s[k] = p[i][a] /\ s[l] = p[j][b]
               /\ i < j \/ (i = j /\ a < b)
      BY <1>3 DEF Traces
    <2>2. p[i] = q[i] /\ p[j] = q[j]
      OBVIOUS
    <2> QED BY <2>1, <2>2
  <1> QED BY <1>1, <1>2, <1>3 DEF Traces

LEMMA LoopTraces ==
  ASSUME NEW T, NEW n \in Nat, NEW chunk, Chunks(chunk, n, T),
         NEW f, IsLoop(f, chunk, n)
  PROVE  f[n] \in Seq(T) /\ Traces(f[n], chunk, n)
  <1> DEFINE Right(i) == f[i] \in Seq(T) /\ Traces(f[i], chunk, i)
             Done == {i \in 0 .. n : Right(i)}
  <1>1. Right(0)
    <2>1. f[0] = <<>>
      BY DEF IsLoop
    <2>2. Len(<<>>) = 0 /\ <<>> \in Seq(T)
      BY EmptySeq
    <2> QED BY <2>1, <2>2 DEF Traces
  <1>2. ASSUME NEW i \in 0 .. n, i < n, Right(i) PROVE Right(i + 1)
    <2>1. i + 1 \in 1 .. n /\ i \in Nat /\ (i + 1) - 1 = i
      BY <1>2
    <2>2. f[i + 1] = f[i] \o chunk[i + 1]
      BY <2>1 DEF IsLoop
    <2>3. chunk[i + 1] \in Seq(T)
      BY <2>1 DEF Chunks
    <2>4. f[i + 1] \in Seq(T)
      BY <1>2, <2>2, <2>3, ConcatProperties
    <2>5. Traces(f[i] \o chunk[i + 1], chunk, i + 1)
      <3> DEFINE part == [k \in 1 .. i + 1 |-> chunk[k]]
      <3>1. Chunks(part, i + 1, T)
        BY <2>1 DEF Chunks
      <3>2. \A k \in 1 .. i + 1 : part[k] = chunk[k]
        OBVIOUS
      <3> HIDE DEF part
      <3>3. Traces(f[i], part, i)
        <4>1. \A k \in 1 .. i : k \in 1 .. i + 1
          BY <2>1
        <4>2. \A k \in 1 .. i : chunk[k] = part[k]
          BY <3>2, <4>1
        <4> QED BY <1>2, <2>1, <4>2, TracesOf
      <3>4. Traces(f[i] \o part[i + 1], part, i + 1)
        BY <1>2, <2>1, <3>1, <3>3, LoopStep
      <3>5. part[i + 1] = chunk[i + 1]
        BY <2>1, <3>2
      <3>6. i + 1 \in Nat
        BY <2>1
      <3>7. Traces(f[i] \o part[i + 1], chunk, i + 1)
        BY <3>2, <3>4, <3>6, TracesOf
      <3> QED BY <3>5, <3>7
    <2> QED BY <2>2, <2>4, <2>5
  <1>3. 0 \in Done /\ \A i \in 0 .. n : i < n /\ i \in Done => i + 1 \in Done
    <2>1. \A i \in 0 .. n : i < n => i + 1 \in 0 .. n
      OBVIOUS
    <2> HIDE DEF Right
    <2> QED BY <1>1, <1>2, <2>1
  <1>4. 0 .. n \subseteq Done
    <2> HIDE DEF Done
    <2> QED BY <1>3, UpwardInduction
  <1> QED BY <1>4

-----------------------------------------------------------------------------
(***************************************************************************)
(* The two loops of join: the combos of the join are those of compatible   *)
(* pairs of combos, one for each.                                          *)
(***************************************************************************)
ComboType == [mask : SUBSET Cards, holeCards : Seq(Cards \X Cards)]

CompatiblePairs(combos1, combos2) ==
    {p \in (1 .. Len(combos1)) \X (1 .. Len(combos2)) :
        Compatible(combos1[p[1]], combos2[p[2]])}

JoinOf(combos1, combos2, p) == Joined(combos1[p[1]], combos2[p[2]])

LEMMA JoinedType ==
  ASSUME NEW c1 \in ComboType, NEW c2 \in ComboType
  PROVE  Joined(c1, c2) \in ComboType
  <1>1. c1.holeCards \in Seq(Cards \X Cards) /\ c2.holeCards \in Seq(Cards \X Cards)
    BY DEF ComboType
  <1>2. c1.holeCards \o c2.holeCards \in Seq(Cards \X Cards)
    BY <1>1, ConcatProperties
  <1>3. c1.mask \cup c2.mask \in SUBSET Cards
    BY DEF ComboType
  <1> QED BY <1>2, <1>3 DEF Joined, ComboType

FitsWith(c1, combos) ==
    [j \in 1 .. Len(combos) |->
        IF Compatible(c1, combos[j]) THEN <<Joined(c1, combos[j])>> ELSE <<>>]

LEMMA FitsWithChunks ==
  ASSUME NEW c1 \in ComboType, NEW combos \in Seq(ComboType)
  PROVE  Chunks(FitsWith(c1, combos), Len(combos), ComboType)
  <1>1. ASSUME NEW j \in 1 .. Len(combos)
        PROVE  (IF Compatible(c1, combos[j]) THEN <<Joined(c1, combos[j])>> ELSE <<>>)
                  \in Seq(ComboType)
    <2>1. combos[j] \in ComboType
      BY ElementOfSeq
    <2>2. Joined(c1, combos[j]) \in ComboType
      BY <2>1, JoinedType
    <2> HIDE DEF ComboType
    <2>3. <<Joined(c1, combos[j])>> \in Seq(ComboType)
      BY <2>2
    <2> QED BY <2>3, EmptySeq
  <1> QED BY <1>1 DEF Chunks, FitsWith

LEMMA FittingIsLoop ==
  ASSUME NEW c1 \in ComboType, NEW combos \in Seq(ComboType)
  PROVE  /\ Fitting(c1, combos) \in Seq(ComboType)
         /\ Traces(Fitting(c1, combos), FitsWith(c1, combos), Len(combos))
  <1> DEFINE n == Len(combos)
             IsFit(f) == f = [j \in 0 .. n |->
                IF j = 0 THEN <<>>
                ELSE IF Compatible(c1, combos[j])
                       THEN Append(f[j - 1], Joined(c1, combos[j]))
                ELSE f[j - 1]]
             fit == CHOOSE f : IsFit(f)
             chunk == FitsWith(c1, combos)
  <1>1. n \in Nat /\ Chunks(chunk, n, ComboType)
    BY LenProperties, FitsWithChunks
  <1>2. Fitting(c1, combos) = fit[n]
    BY DEF Fitting
  <1>3. /\ \A j \in 1 .. n : chunk[j] = IF Compatible(c1, combos[j])
                                       THEN <<Joined(c1, combos[j])>> ELSE <<>>
        /\ \A j \in 1 .. n : combos[j] \in ComboType /\ Joined(c1, combos[j]) \in ComboType
    BY ElementOfSeq, JoinedType DEF FitsWith
  <1> HIDE DEF chunk, n
  <1>4. ASSUME NEW s \in Seq(ComboType), NEW j \in 1 .. n
        PROVE  s \o chunk[j] = IF Compatible(c1, combos[j])
                                 THEN Append(s, Joined(c1, combos[j])) ELSE s
    <2>1. CASE Compatible(c1, combos[j])
      <3>1. chunk[j] = <<Joined(c1, combos[j])>>
        BY <1>3, <2>1
      <3> DEFINE x == Joined(c1, combos[j])
      <3>2. x \in ComboType
        BY <1>3
      <3> HIDE DEF x, ComboType
      <3>3. s \o <<x>> = Append(s, x)
        BY <3>2, AppendIsConcat
      <3> QED BY <2>1, <3>1, <3>3 DEF x
    <2>2. CASE ~Compatible(c1, combos[j])
      <3>1. chunk[j] = <<>>
        BY <1>3, <2>2
      <3>2. s \o <<>> = s
        BY ConcatEmptySeq
      <3> QED BY <2>2, <3>1, <3>2
    <2> QED BY <2>1, <2>2
  <1>5. PICK g : g \in [0 .. n -> Seq(ComboType)] /\ IsLoop(g, chunk, n)
    <2> HIDE DEF ComboType
    <2> QED BY <1>1, LoopExists
  <1>6. ASSUME NEW j \in 0 .. n
        PROVE  g[j] = IF j = 0 THEN <<>>
                      ELSE IF Compatible(c1, combos[j])
                             THEN Append(g[j - 1], Joined(c1, combos[j]))
                      ELSE g[j - 1]
    <2>1. CASE j = 0
      BY <1>5, <2>1 DEF IsLoop
    <2>2. CASE j # 0
      <3>1. j \in 1 .. n /\ j - 1 \in 0 .. n
        BY <1>1, <2>2
      <3>2. g[j - 1] \in Seq(ComboType) /\ g[j] = g[j - 1] \o chunk[j]
        BY <1>5, <3>1 DEF IsLoop
      <3> QED BY <1>4, <2>2, <3>1, <3>2
    <2> QED BY <2>1, <2>2
  <1>7. IsFit(g)
    <2>1. g = [j \in 0 .. n |-> g[j]]
      BY <1>5
    <2> QED BY <1>6, <2>1
  <1>8. IsFit(fit)
    BY <1>7
  <1> HIDE DEF fit
  <1>9. \A j \in 0 .. n : fit[j] = IF j = 0 THEN <<>>
                      ELSE IF Compatible(c1, combos[j])
                             THEN Append(fit[j - 1], Joined(c1, combos[j]))
                      ELSE fit[j - 1]
    BY <1>8
  <1>10. fit[0] = <<>> /\ \A j \in 1 .. n : fit[j - 1] \in Seq(ComboType)
                              => fit[j] = fit[j - 1] \o chunk[j]
    <2>1. 0 \in 0 .. n /\ \A j \in 1 .. n : j \in 0 .. n /\ j # 0
      BY <1>1
    <2> HIDE DEF IsFit
    <2> QED BY <1>4, <1>9, <2>1
  <1>11. \A j \in 0 .. n : fit[j] = g[j]
    <2> DEFINE Same == {j \in 0 .. n : fit[j] = g[j]}
    <2>1. 0 \in Same
      BY <1>1, <1>5, <1>10 DEF IsLoop
    <2>2. ASSUME NEW j \in 0 .. n, j < n, j \in Same PROVE j + 1 \in Same
      <3>1. j + 1 \in 1 .. n /\ (j + 1) - 1 = j /\ j + 1 \in 0 .. n
        BY <1>1, <2>2
      <3>2. fit[j] \in Seq(ComboType)
        BY <1>5, <2>2
      <3> QED BY <1>5, <1>10, <2>2, <3>1, <3>2 DEF IsLoop
    <2> HIDE DEF Same
    <2>3. 0 .. n \subseteq Same
      BY <1>1, <2>1, <2>2, UpwardInduction
    <2> QED BY <2>3 DEF Same
  <1>12. g[n] \in Seq(ComboType) /\ Traces(g[n], chunk, n)
    <2> HIDE DEF ComboType
    <2> QED BY <1>1, <1>5, LoopTraces
  <1>13. fit[n] = g[n]
    BY <1>1, <1>11
  <1> QED BY <1>2, <1>12, <1>13 DEF chunk, n

\* What the inner loop leaves, in terms of the combos it reads.
LEMMA FittingFits ==
  ASSUME NEW c1 \in ComboType, NEW combos \in Seq(ComboType)
  PROVE  LET out == Fitting(c1, combos)
             n   == Len(combos)
         IN  /\ \A k \in 1 .. Len(out) : \E j \in 1 .. n :
                   Compatible(c1, combos[j]) /\ out[k] = Joined(c1, combos[j])
             /\ \A j \in 1 .. n : Compatible(c1, combos[j]) =>
                   \E k \in 1 .. Len(out) : out[k] = Joined(c1, combos[j])
             /\ \A k, l \in 1 .. Len(out) : k < l => \E i, j \in 1 .. n :
                   /\ i < j
                   /\ Compatible(c1, combos[i]) /\ out[k] = Joined(c1, combos[i])
                   /\ Compatible(c1, combos[j]) /\ out[l] = Joined(c1, combos[j])
  <1> DEFINE out == Fitting(c1, combos)
             n == Len(combos)
             chunk == FitsWith(c1, combos)
  <1>1. Traces(out, chunk, n)
    BY FittingIsLoop
  <1>2. \A j \in 1 .. n :
           /\ Compatible(c1, combos[j]) =>
                 1 \in 1 .. Len(chunk[j]) /\ chunk[j][1] = Joined(c1, combos[j])
           /\ \A m \in 1 .. Len(chunk[j]) :
                 m = 1 /\ Compatible(c1, combos[j]) /\ chunk[j][m] = Joined(c1, combos[j])
    <2> SUFFICES ASSUME NEW j \in 1 .. n
                 PROVE  /\ Compatible(c1, combos[j]) =>
                              1 \in 1 .. Len(chunk[j]) /\ chunk[j][1] = Joined(c1, combos[j])
                        /\ \A m \in 1 .. Len(chunk[j]) :
                              /\ m = 1 /\ Compatible(c1, combos[j])
                              /\ chunk[j][m] = Joined(c1, combos[j])
        OBVIOUS
    <2> DEFINE x == Joined(c1, combos[j])
               c == chunk[j]
    <2>1. c = IF Compatible(c1, combos[j]) THEN <<x>> ELSE <<>>
      BY DEF FitsWith
    <2> HIDE DEF x, c, chunk
    <2>2. CASE Compatible(c1, combos[j])
      <3>1. c = <<x>> /\ Len(c) = 1 /\ c[1] = x
        BY <2>1, <2>2
      <3> QED BY <2>2, <3>1 DEF x, c
    <2>3. CASE ~Compatible(c1, combos[j])
      <3>1. Len(c) = 0
        BY <2>1, <2>3, EmptySeq
      <3> QED BY <2>3, <3>1 DEF c
    <2> QED BY <2>2, <2>3
  <1> HIDE DEF out, n, chunk
  <1>3. ASSUME NEW k \in 1 .. Len(out)
        PROVE  \E j \in 1 .. n : Compatible(c1, combos[j]) /\ out[k] = Joined(c1, combos[j])
    <2>1. PICK j \in 1 .. n : \E m \in 1 .. Len(chunk[j]) : out[k] = chunk[j][m]
      BY <1>1 DEF Traces
    <2> QED BY <1>2, <2>1
  <1>4. ASSUME NEW j \in 1 .. n, Compatible(c1, combos[j])
        PROVE  \E k \in 1 .. Len(out) : out[k] = Joined(c1, combos[j])
    <2>1. 1 \in 1 .. Len(chunk[j]) /\ chunk[j][1] = Joined(c1, combos[j])
      BY <1>2, <1>4
    <2> QED BY <1>1, <2>1 DEF Traces
  <1>5. ASSUME NEW k \in 1 .. Len(out), NEW l \in 1 .. Len(out), k < l
        PROVE  \E i, j \in 1 .. n :
                   /\ i < j
                   /\ Compatible(c1, combos[i]) /\ out[k] = Joined(c1, combos[i])
                   /\ Compatible(c1, combos[j]) /\ out[l] = Joined(c1, combos[j])
    <2>1. PICK i \in 1 .. n, j \in 1 .. n :
            \E a \in 1 .. Len(chunk[i]), b \in 1 .. Len(chunk[j]) :
               /\ out[k] = chunk[i][a] /\ out[l] = chunk[j][b]
               /\ i < j \/ (i = j /\ a < b)
      BY <1>1, <1>5 DEF Traces
    <2> QED BY <1>2, <2>1
  <1> QED BY <1>3, <1>4, <1>5 DEF out, n

EachFitting(combos1, combos2) ==
    [i \in 1 .. Len(combos1) |-> Fitting(combos1[i], combos2)]

LEMMA AllFittingIsLoop ==
  ASSUME NEW combos1 \in Seq(ComboType), NEW combos2 \in Seq(ComboType)
  PROVE  /\ AllFitting(combos1, combos2) \in Seq(ComboType)
         /\ Traces(AllFitting(combos1, combos2), EachFitting(combos1, combos2), Len(combos1))
  <1> DEFINE n == Len(combos1)
             IsAll(f) == f = [i \in 0 .. n |->
                IF i = 0 THEN <<>> ELSE f[i - 1] \o Fitting(combos1[i], combos2)]
             all == CHOOSE f : IsAll(f)
             chunk == EachFitting(combos1, combos2)
  <1>1. n \in Nat
    BY LenProperties
  <1>2. AllFitting(combos1, combos2) = all[n]
    BY DEF AllFitting
  <1>3. \A i \in 1 .. n : chunk[i] = Fitting(combos1[i], combos2)
    BY DEF EachFitting
  <1>4. \A i \in 1 .. n : chunk[i] \in Seq(ComboType)
    <2> SUFFICES ASSUME NEW i \in 1 .. n PROVE chunk[i] \in Seq(ComboType)
        OBVIOUS
    <2>1. combos1[i] \in ComboType
      BY ElementOfSeq
    <2> HIDE DEF chunk
    <2> QED BY <1>3, <2>1, FittingIsLoop
  <1>5. Chunks(chunk, n, ComboType)
    BY <1>4 DEF Chunks, EachFitting
  <1> HIDE DEF chunk, n
  <1>6. PICK g : g \in [0 .. n -> Seq(ComboType)] /\ IsLoop(g, chunk, n)
    <2> HIDE DEF ComboType
    <2> QED BY <1>1, <1>5, LoopExists
  <1>7. ASSUME NEW i \in 0 .. n
        PROVE  g[i] = IF i = 0 THEN <<>> ELSE g[i - 1] \o Fitting(combos1[i], combos2)
    <2>1. i # 0 => i \in 1 .. n
      BY <1>1
    <2> QED BY <1>3, <1>6, <2>1 DEF IsLoop
  <1>8. IsAll(g)
    <2>1. g = [i \in 0 .. n |-> g[i]]
      BY <1>6
    <2> QED BY <1>7, <2>1
  <1>9. IsAll(all)
    BY <1>8
  <1> HIDE DEF all
  <1>10. IsLoop(all, chunk, n)
    <2>1. \A i \in 0 .. n : all[i] = IF i = 0 THEN <<>>
                                      ELSE all[i - 1] \o Fitting(combos1[i], combos2)
      BY <1>9
    <2>2. 0 \in 0 .. n /\ \A i \in 1 .. n : i \in 0 .. n /\ i # 0
      BY <1>1
    <2> HIDE DEF IsAll
    <2> QED BY <1>3, <2>1, <2>2 DEF IsLoop
  <1>11. all[n] \in Seq(ComboType) /\ Traces(all[n], chunk, n)
    <2> HIDE DEF ComboType
    <2> QED BY <1>1, <1>5, <1>10, LoopTraces
  <1> QED BY <1>2, <1>11 DEF chunk, n

LEMMA AllFittingFits ==
  ASSUME NEW combos1 \in Seq(ComboType), NEW combos2 \in Seq(ComboType)
  PROVE  LET out   == AllFitting(combos1, combos2)
             pairs == CompatiblePairs(combos1, combos2)
         IN  /\ \A k \in 1 .. Len(out) :
                   \E p \in pairs : out[k] = JoinOf(combos1, combos2, p)
             /\ \A p \in pairs :
                   \E k \in 1 .. Len(out) : out[k] = JoinOf(combos1, combos2, p)
             /\ \A k, l \in 1 .. Len(out) : k < l => \E p, q \in pairs :
                   /\ p # q
                   /\ out[k] = JoinOf(combos1, combos2, p)
                   /\ out[l] = JoinOf(combos1, combos2, q)
  <1> DEFINE out == AllFitting(combos1, combos2)
             pairs == CompatiblePairs(combos1, combos2)
             n == Len(combos1)
             chunk == EachFitting(combos1, combos2)
  <1>1. Traces(out, chunk, n)
    BY AllFittingIsLoop
  <1>2. \A i \in 1 .. n : combos1[i] \in ComboType /\ chunk[i] = Fitting(combos1[i], combos2)
    BY ElementOfSeq DEF EachFitting
  <1>3. \A i \in 1 .. n, j \in 1 .. Len(combos2) :
           /\ Compatible(combos1[i], combos2[j]) <=> <<i, j>> \in pairs
           /\ JoinOf(combos1, combos2, <<i, j>>) = Joined(combos1[i], combos2[j])
    BY DEF CompatiblePairs, JoinOf
  <1>4. \A p \in pairs : /\ p[1] \in 1 .. n /\ p[2] \in 1 .. Len(combos2)
                         /\ p = <<p[1], p[2]>>
    BY DEF CompatiblePairs
  <1> HIDE DEF out, n, chunk, pairs, ComboType
  <1>5. ASSUME NEW i \in 1 .. n
        PROVE  /\ \A m \in 1 .. Len(chunk[i]) : \E j \in 1 .. Len(combos2) :
                     <<i, j>> \in pairs /\ chunk[i][m] = JoinOf(combos1, combos2, <<i, j>>)
               /\ \A j \in 1 .. Len(combos2) : <<i, j>> \in pairs =>
                     \E m \in 1 .. Len(chunk[i]) :
                        chunk[i][m] = JoinOf(combos1, combos2, <<i, j>>)
               /\ \A a, b \in 1 .. Len(chunk[i]) : a < b =>
                     \E j, l \in 1 .. Len(combos2) :
                        /\ j < l /\ <<i, j>> \in pairs /\ <<i, l>> \in pairs
                        /\ chunk[i][a] = JoinOf(combos1, combos2, <<i, j>>)
                        /\ chunk[i][b] = JoinOf(combos1, combos2, <<i, l>>)
    <2> DEFINE c1 == combos1[i]
               fit == Fitting(c1, combos2)
    <2>0. c1 \in ComboType /\ chunk[i] = fit
      BY <1>2
    <2>1. /\ \A k \in 1 .. Len(fit) : \E j \in 1 .. Len(combos2) :
                   Compatible(c1, combos2[j]) /\ fit[k] = Joined(c1, combos2[j])
          /\ \A j \in 1 .. Len(combos2) : Compatible(c1, combos2[j]) =>
                \E k \in 1 .. Len(fit) : fit[k] = Joined(c1, combos2[j])
          /\ \A k, l \in 1 .. Len(fit) : k < l => \E a, b \in 1 .. Len(combos2) :
                /\ a < b
                /\ Compatible(c1, combos2[a]) /\ fit[k] = Joined(c1, combos2[a])
                /\ Compatible(c1, combos2[b]) /\ fit[l] = Joined(c1, combos2[b])
      <3> HIDE DEF c1
      <3> QED BY <2>0, FittingFits
    <2>2. \A j \in 1 .. Len(combos2) :
             /\ Compatible(c1, combos2[j]) <=> <<i, j>> \in pairs
             /\ JoinOf(combos1, combos2, <<i, j>>) = Joined(c1, combos2[j])
      BY <1>3
    <2> HIDE DEF c1, fit
    <2>3. \A m \in 1 .. Len(fit) : \E j \in 1 .. Len(combos2) :
             <<i, j>> \in pairs /\ fit[m] = JoinOf(combos1, combos2, <<i, j>>)
      BY <2>1, <2>2
    <2>4. \A j \in 1 .. Len(combos2) : <<i, j>> \in pairs =>
             \E m \in 1 .. Len(fit) : fit[m] = JoinOf(combos1, combos2, <<i, j>>)
      BY <2>1, <2>2
    <2>5. ASSUME NEW a \in 1 .. Len(fit), NEW b \in 1 .. Len(fit), a < b
          PROVE  \E j, l \in 1 .. Len(combos2) :
                    /\ j < l /\ <<i, j>> \in pairs /\ <<i, l>> \in pairs
                    /\ fit[a] = JoinOf(combos1, combos2, <<i, j>>)
                    /\ fit[b] = JoinOf(combos1, combos2, <<i, l>>)
      <3>1. PICK j \in 1 .. Len(combos2), l \in 1 .. Len(combos2) :
                /\ j < l
                /\ Compatible(c1, combos2[j]) /\ fit[a] = Joined(c1, combos2[j])
                /\ Compatible(c1, combos2[l]) /\ fit[b] = Joined(c1, combos2[l])
        BY <2>1, <2>5
      <3> QED BY <2>2, <3>1
    <2>6. /\ \A m \in 1 .. Len(chunk[i]) : \E j \in 1 .. Len(combos2) :
                <<i, j>> \in pairs /\ chunk[i][m] = JoinOf(combos1, combos2, <<i, j>>)
          /\ \A j \in 1 .. Len(combos2) : <<i, j>> \in pairs =>
                \E m \in 1 .. Len(chunk[i]) :
                   chunk[i][m] = JoinOf(combos1, combos2, <<i, j>>)
      BY <2>0, <2>3, <2>4
    <2>7. \A a, b \in 1 .. Len(chunk[i]) : a < b =>
             \E j, l \in 1 .. Len(combos2) :
                /\ j < l /\ <<i, j>> \in pairs /\ <<i, l>> \in pairs
                /\ chunk[i][a] = JoinOf(combos1, combos2, <<i, j>>)
                /\ chunk[i][b] = JoinOf(combos1, combos2, <<i, l>>)
      BY <2>0, <2>5
    <2> QED BY <2>6, <2>7
  <1>6. ASSUME NEW k \in 1 .. Len(out)
        PROVE  \E p \in pairs : out[k] = JoinOf(combos1, combos2, p)
    <2>1. PICK i \in 1 .. n : \E m \in 1 .. Len(chunk[i]) : out[k] = chunk[i][m]
      BY <1>1 DEF Traces
    <2> QED BY <1>5, <2>1
  <1>7. ASSUME NEW p \in pairs
        PROVE  \E k \in 1 .. Len(out) : out[k] = JoinOf(combos1, combos2, p)
    <2>1. PICK m \in 1 .. Len(chunk[p[1]]) :
             chunk[p[1]][m] = JoinOf(combos1, combos2, <<p[1], p[2]>>)
      BY <1>4, <1>5
    <2>2. \E k \in 1 .. Len(out) : out[k] = chunk[p[1]][m]
      BY <1>1, <1>4 DEF Traces
    <2> QED BY <1>4, <2>1, <2>2
  <1>8. ASSUME NEW k \in 1 .. Len(out), NEW l \in 1 .. Len(out), k < l
        PROVE  \E p, q \in pairs :
                   /\ p # q
                   /\ out[k] = JoinOf(combos1, combos2, p)
                   /\ out[l] = JoinOf(combos1, combos2, q)
    <2>1. PICK i \in 1 .. n, j \in 1 .. n :
            \E a \in 1 .. Len(chunk[i]), b \in 1 .. Len(chunk[j]) :
               /\ out[k] = chunk[i][a] /\ out[l] = chunk[j][b]
               /\ i < j \/ (i = j /\ a < b)
      BY <1>1, <1>8 DEF Traces
    <2>2. PICK a \in 1 .. Len(chunk[i]), b \in 1 .. Len(chunk[j]) :
               /\ out[k] = chunk[i][a] /\ out[l] = chunk[j][b]
               /\ i < j \/ (i = j /\ a < b)
      BY <2>1
    <2>3. CASE i < j
      <3>1. PICK x \in 1 .. Len(combos2) :
               <<i, x>> \in pairs /\ chunk[i][a] = JoinOf(combos1, combos2, <<i, x>>)
        BY <1>5
      <3>2. PICK y \in 1 .. Len(combos2) :
               <<j, y>> \in pairs /\ chunk[j][b] = JoinOf(combos1, combos2, <<j, y>>)
        BY <1>5
      <3>3. <<i, x>> # <<j, y>>
        BY <2>3
      <3> QED BY <2>2, <3>1, <3>2, <3>3
    <2>4. CASE i = j /\ a < b
      <3>1. b \in 1 .. Len(chunk[i])
        BY <2>4
      <3>2. PICK x \in 1 .. Len(combos2), y \in 1 .. Len(combos2) :
                /\ x < y /\ <<i, x>> \in pairs /\ <<i, y>> \in pairs
                /\ chunk[i][a] = JoinOf(combos1, combos2, <<i, x>>)
                /\ chunk[i][b] = JoinOf(combos1, combos2, <<i, y>>)
        BY <1>5, <2>4, <3>1
      <3>3. <<i, x>> # <<i, y>>
        BY <3>2
      <3> QED BY <2>2, <2>4, <3>2, <3>3
    <2> QED BY <2>2, <2>3, <2>4
  <1> QED BY <1>6, <1>7, <1>8 DEF out, pairs

-----------------------------------------------------------------------------
(***************************************************************************)
(* A range is sound if its combos are the deals to its players, each once, *)
(* each with the set of its cards.                                         *)
(***************************************************************************)
Holdings == UNION {ToSet(r) : r \in Ranges}

CardsIn(deal) == UNION {ToSet(deal[i]) : i \in DOMAIN deal}

IsDeal(d, players, given) ==
    /\ d \in Seq(Holdings) /\ Len(d) = Len(players)
    /\ \A i \in 1 .. Len(players) : d[i] \in ToSet(given[players[i]])
    /\ \A i, j \in 1 .. Len(players) : i < j => ToSet(d[i]) \cap ToSet(d[j]) = {}

Sound(r, given) ==
    /\ r \in [players : Seq(DOMAIN given), combos : Seq(ComboType)]
    /\ \A k \in 1 .. Len(r.combos) :
          /\ IsDeal(r.combos[k].holeCards, r.players, given)
          /\ r.combos[k].mask = CardsIn(r.combos[k].holeCards)
    /\ \A d : IsDeal(d, r.players, given) =>
          \E k \in 1 .. Len(r.combos) : r.combos[k].holeCards = d
    /\ \A k, l \in 1 .. Len(r.combos) :
          r.combos[k].holeCards = r.combos[l].holeCards => k = l

LEMMA DealsAre ==
  ASSUME NEW S, NEW players \in Seq(S), NEW d
  PROVE  d \in Deals(players) <=> IsDeal(d, players, holeCardRanges)
  <1>1. DOMAIN players = 1 .. Len(players) /\ Len(players) \in Nat
    BY LenProperties
  <1>2. d \in [1 .. Len(players) -> Holdings]
           <=> d \in Seq(Holdings) /\ Len(d) = Len(players)
    <2>1. ASSUME d \in [1 .. Len(players) -> Holdings]
          PROVE  d \in Seq(Holdings) /\ Len(d) = Len(players)
      BY <1>1, <2>1, SeqDef, LenProperties
    <2>2. ASSUME d \in Seq(Holdings) /\ Len(d) = Len(players)
          PROVE  d \in [1 .. Len(players) -> Holdings]
      BY <2>2, LenProperties
    <2> QED BY <2>1, <2>2
  <1> HIDE DEF Holdings
  <1> QED BY <1>1, <1>2 DEF Deals, IsDeal, Holdings

LEMMA DisjointCards ==
  ASSUME NEW d, NEW e,
         DOMAIN d = 1 .. Len(d), DOMAIN e = 1 .. Len(e)
  PROVE  CardsIn(d) \cap CardsIn(e) = {} <=>
            \A i \in 1 .. Len(d), j \in 1 .. Len(e) : ToSet(d[i]) \cap ToSet(e[j]) = {}
  <1>1. ASSUME CardsIn(d) \cap CardsIn(e) = {}, NEW i \in 1 .. Len(d), NEW j \in 1 .. Len(e)
        PROVE  ToSet(d[i]) \cap ToSet(e[j]) = {}
    <2>1. ToSet(d[i]) \subseteq CardsIn(d) /\ ToSet(e[j]) \subseteq CardsIn(e)
      BY DEF CardsIn
    <2> QED BY <1>1, <2>1
  <1>2. ASSUME \A i \in 1 .. Len(d), j \in 1 .. Len(e) : ToSet(d[i]) \cap ToSet(e[j]) = {},
               NEW c \in CardsIn(d) \cap CardsIn(e)
        PROVE  FALSE
    <2>1. PICK i \in 1 .. Len(d) : c \in ToSet(d[i])
      BY <1>2 DEF CardsIn
    <2>2. PICK j \in 1 .. Len(e) : c \in ToSet(e[j])
      BY <1>2 DEF CardsIn
    <2> QED BY <1>2, <2>1, <2>2
  <1> QED BY <1>1, <1>2

\* A deal to two groups of players is a deal to each, with no card in common.
LEMMA DealsJoin ==
  ASSUME NEW given, NEW S, NEW p \in Seq(S), NEW q \in Seq(S), NEW d, NEW e,
         IsDeal(d, p, given), IsDeal(e, q, given), CardsIn(d) \cap CardsIn(e) = {}
  PROVE  IsDeal(d \o e, p \o q, given)
  <1> DEFINE m == Len(p)
             n == Len(q)
  <1>1. /\ m \in Nat /\ n \in Nat
        /\ d \in Seq(Holdings) /\ e \in Seq(Holdings) /\ Len(d) = m /\ Len(e) = n
    BY LenProperties DEF IsDeal
  <1>2. /\ d \o e \in Seq(Holdings)
        /\ Len(d \o e) = m + n /\ Len(p \o q) = m + n
        /\ \A i \in 1 .. m + n : /\ (d \o e)[i] = IF i <= m THEN d[i] ELSE e[i - m]
                                /\ (p \o q)[i] = IF i <= m THEN p[i] ELSE q[i - m]
    <2> HIDE DEF Holdings
    <2>1. /\ d \o e \in Seq(Holdings) /\ Len(d \o e) = Len(d) + Len(e)
          /\ \A i \in 1 .. Len(d) + Len(e) :
                (d \o e)[i] = IF i <= Len(d) THEN d[i] ELSE e[i - Len(d)]
      BY <1>1, ConcatProperties
    <2>2. /\ Len(p \o q) = m + n
          /\ \A i \in 1 .. m + n : (p \o q)[i] = IF i <= m THEN p[i] ELSE q[i - m]
      BY ConcatProperties
    <2> HIDE DEF m, n
    <2> QED BY <1>1, <2>1, <2>2
  <1>3. \A i \in 1 .. m, j \in 1 .. n : ToSet(d[i]) \cap ToSet(e[j]) = {}
    <2>1. DOMAIN d = 1 .. Len(d) /\ DOMAIN e = 1 .. Len(e)
      BY <1>1, LenProperties
    <2> QED BY <1>1, <2>1, DisjointCards
  <1>4. /\ \A i \in 1 .. m : d[i] \in ToSet(given[p[i]])
        /\ \A i, j \in 1 .. m : i < j => ToSet(d[i]) \cap ToSet(d[j]) = {}
        /\ \A i \in 1 .. n : e[i] \in ToSet(given[q[i]])
        /\ \A i, j \in 1 .. n : i < j => ToSet(e[i]) \cap ToSet(e[j]) = {}
    BY DEF IsDeal
  <1>5. \A i \in 1 .. m + n : i <= m \/ i - m \in 1 .. n
    BY <1>1
  <1> DEFINE de == d \o e
             pq == p \o q
  <1> HIDE DEF m, n, Holdings, de, pq
  <1>6. \A i \in 1 .. m + n : de[i] \in ToSet(given[pq[i]])
    <2> SUFFICES ASSUME NEW i \in 1 .. m + n
                 PROVE  de[i] \in ToSet(given[pq[i]])
        OBVIOUS
    <2>1. CASE i <= m
      <3>0. i \in 1 .. m
        BY <1>1, <2>1
      <3>1. de[i] = d[i] /\ pq[i] = p[i]
        BY <1>2, <2>1 DEF de, pq
      <3> QED BY <1>4, <3>0, <3>1
    <2>2. CASE ~(i <= m)
      <3>1. i - m \in 1 .. n /\ de[i] = e[i - m] /\ pq[i] = q[i - m]
        BY <1>1, <1>2, <1>5, <2>2 DEF de, pq
      <3> QED BY <1>4, <3>1
    <2> QED BY <2>1, <2>2
  <1>7. ASSUME NEW i \in 1 .. m + n, NEW j \in 1 .. m + n, i < j
        PROVE  ToSet(de[i]) \cap ToSet(de[j]) = {}
    <2>1. CASE j <= m
      <3>1. i \in 1 .. m /\ j \in 1 .. m /\ de[i] = d[i] /\ de[j] = d[j]
        BY <1>1, <1>2, <1>7, <2>1 DEF de
      <3> QED BY <1>4, <1>7, <3>1
    <2>2. CASE i <= m /\ ~(j <= m)
      <3>1. i \in 1 .. m /\ j - m \in 1 .. n /\ de[i] = d[i] /\ de[j] = e[j - m]
        BY <1>1, <1>2, <1>5, <2>2 DEF de
      <3> QED BY <1>3, <3>1
    <2>3. CASE ~(i <= m)
      <3>1. i - m \in 1 .. n /\ j - m \in 1 .. n /\ i - m < j - m
        BY <1>1, <1>5, <1>7, <2>3
      <3>2. de[i] = e[i - m] /\ de[j] = e[j - m]
        BY <1>1, <1>2, <1>7, <2>3 DEF de
      <3> QED BY <1>4, <3>1, <3>2
    <2> QED BY <1>1, <2>1, <2>2, <2>3
  <1> QED BY <1>2, <1>6, <1>7 DEF IsDeal, de, pq

\* The first elements of a sequence and its last ones.
LEMMA FirstPart ==
  ASSUME NEW T, NEW s \in Seq(T), NEW m \in Nat, m <= Len(s)
  PROVE  /\ SubSeq(s, 1, m) \in Seq(T) /\ Len(SubSeq(s, 1, m)) = m
         /\ \A i \in 1 .. m : SubSeq(s, 1, m)[i] = s[i]
  <1> DEFINE f == SubSeq(s, 1, m)
  <1>1. \A i \in 1 .. m : s[i] \in T
    BY ElementOfSeq
  <1>2. f \in Seq(T) /\ Len(f) = IF 1 <= m THEN m - 1 + 1 ELSE 0
    BY <1>1, SubSeqProperties
  <1>3. \A i \in 1 .. m - 1 + 1 : f[i] = s[1 + i - 1]
    BY <1>1, SubSeqProperties
  <1> HIDE DEF f
  <1>4. Len(f) = m
    BY <1>2
  <1>5. ASSUME NEW i \in 1 .. m PROVE f[i] = s[i]
    <2>1. i \in 1 .. m - 1 + 1 /\ 1 + i - 1 = i
      OBVIOUS
    <2> QED BY <1>3, <2>1
  <1> QED BY <1>2, <1>4, <1>5 DEF f

LEMMA LastPart ==
  ASSUME NEW T, NEW s \in Seq(T), NEW m \in Nat, m <= Len(s)
  PROVE  /\ SubSeq(s, m + 1, Len(s)) \in Seq(T) /\ Len(SubSeq(s, m + 1, Len(s))) = Len(s) - m
         /\ \A i \in 1 .. Len(s) - m : SubSeq(s, m + 1, Len(s))[i] = s[m + i]
  <1> DEFINE a == m + 1
             n == Len(s)
             g == SubSeq(s, a, n)
  <1>1. n \in Nat /\ a \in Int /\ n \in Int /\ \A i \in a .. n : s[i] \in T
    BY LenProperties, ElementOfSeq
  <1> HIDE DEF a, n
  <1>2. g \in Seq(T) /\ Len(g) = IF a <= n THEN n - a + 1 ELSE 0
    BY <1>1, SubSeqProperties
  <1>3. \A i \in 1 .. n - a + 1 : g[i] = s[a + i - 1]
    BY <1>1, SubSeqProperties
  <1> HIDE DEF g
  <1>4. m <= n
    BY DEF n
  <1>5. Len(g) = n - m
    BY <1>1, <1>2, <1>4 DEF a
  <1>6. ASSUME NEW i \in 1 .. n - m PROVE g[i] = s[m + i]
    <2>1. i \in 1 .. n - a + 1 /\ a + i - 1 = m + i
      BY <1>1 DEF a
    <2> QED BY <1>3, <2>1
  <1> QED BY <1>2, <1>5, <1>6 DEF a, n, g

Splits(d, p, q, given) ==
    \E f, g : /\ IsDeal(f, p, given) /\ IsDeal(g, q, given)
              /\ CardsIn(f) \cap CardsIn(g) = {}
              /\ d = f \o g

LEMMA DealsSplit ==
  ASSUME NEW given, NEW S, NEW p \in Seq(S), NEW q \in Seq(S), NEW d, IsDeal(d, p \o q, given)
  PROVE  Splits(d, p, q, given)
  <1> DEFINE m == Len(p)
             n == Len(q)
             f == SubSeq(d, 1, m)
             g == SubSeq(d, m + 1, m + n)
             pq == p \o q
  <1>1. /\ m \in Nat /\ n \in Nat /\ Len(pq) = m + n
        /\ \A i \in 1 .. m + n : pq[i] = IF i <= m THEN p[i] ELSE q[i - m]
    BY LenProperties, ConcatProperties
  <1>2. /\ d \in Seq(Holdings) /\ Len(d) = m + n
        /\ \A i \in 1 .. m + n : d[i] \in Holdings
        /\ \A i \in 1 .. m + n : d[i] \in ToSet(given[pq[i]])
        /\ \A i, j \in 1 .. m + n : i < j => ToSet(d[i]) \cap ToSet(d[j]) = {}
    BY <1>1, ElementOfSeq DEF IsDeal
  <1> HIDE DEF m, n, Holdings, pq
  <1>3. f \in Seq(Holdings) /\ Len(f) = m /\ \A i \in 1 .. m : f[i] = d[i]
    BY <1>1, <1>2, FirstPart
  <1>4. g \in Seq(Holdings) /\ Len(g) = n /\ \A i \in 1 .. n : g[i] = d[m + i]
    <2>1. g = SubSeq(d, m + 1, Len(d)) /\ m <= Len(d) /\ Len(d) - m = n
      BY <1>1, <1>2
    <2> QED BY <1>1, <1>2, <2>1, LastPart
  <1> HIDE DEF f, g
  <1>5. /\ \A i \in 1 .. m : i \in 1 .. m + n /\ pq[i] = p[i]
        /\ \A i \in 1 .. n : m + i \in 1 .. m + n /\ pq[m + i] = q[i]
    <2>1. \A i \in 1 .. n : m + i \in 1 .. m + n /\ ~(m + i <= m) /\ (m + i) - m = i
      BY <1>1
    <2>2. \A i \in 1 .. m : i \in 1 .. m + n /\ i <= m
      BY <1>1
    <2> QED BY <1>1, <2>1, <2>2
  <1>6. IsDeal(f, p, given)
    BY <1>2, <1>3, <1>5 DEF IsDeal, m
  <1>7. IsDeal(g, q, given)
    <2>1. \A i \in 1 .. n : g[i] \in ToSet(given[q[i]])
      BY <1>2, <1>4, <1>5
    <2>2. \A i, j \in 1 .. n : i < j => m + i < m + j
      BY <1>1
    <2>3. \A i, j \in 1 .. n : i < j => ToSet(g[i]) \cap ToSet(g[j]) = {}
      BY <1>2, <1>4, <1>5, <2>2
    <2> QED BY <1>4, <2>1, <2>3 DEF IsDeal, n
  <1>8. CardsIn(f) \cap CardsIn(g) = {}
    <2>1. DOMAIN f = 1 .. Len(f) /\ DOMAIN g = 1 .. Len(g)
      BY <1>3, <1>4, LenProperties
    <2>2. \A i \in 1 .. m, j \in 1 .. n : i < m + j
      BY <1>1
    <2>3. \A i \in 1 .. m, j \in 1 .. n : ToSet(f[i]) \cap ToSet(g[j]) = {}
      BY <1>2, <1>3, <1>4, <1>5, <2>2
    <2> QED BY <1>3, <1>4, <2>1, <2>3, DisjointCards
  <1>9. d = f \o g
    <2>1. f \o g \in Seq(Holdings) /\ Len(f \o g) = m + n
      BY <1>3, <1>4, ConcatProperties
    <2>2. ASSUME NEW i \in 1 .. m + n PROVE (f \o g)[i] = d[i]
      <3>1. (f \o g)[i] = IF i <= m THEN f[i] ELSE g[i - m]
        BY <1>3, <1>4, ConcatProperties
      <3>2. CASE i <= m
        BY <1>1, <1>3, <3>1, <3>2
      <3>3. CASE ~(i <= m)
        <4>1. i - m \in 1 .. n /\ m + (i - m) = i
          BY <1>1, <3>3
        <4> QED BY <1>4, <3>1, <3>3, <4>1
      <3> QED BY <3>2, <3>3
    <2> QED BY <1>2, <2>1, <2>2, SeqEqual
  <1> QED BY <1>6, <1>7, <1>8, <1>9 DEF Splits

LEMMA CardsOfBoth ==
  ASSUME NEW d \in Seq(Holdings), NEW e \in Seq(Holdings)
  PROVE  CardsIn(d \o e) = CardsIn(d) \cup CardsIn(e)
  <1> DEFINE m == Len(d)
             n == Len(e)
             de == d \o e
  <1>1. /\ m \in Nat /\ n \in Nat
        /\ DOMAIN d = 1 .. m /\ DOMAIN e = 1 .. n /\ DOMAIN de = 1 .. m + n
        /\ \A i \in 1 .. m + n : de[i] = IF i <= m THEN d[i] ELSE e[i - m]
    <2> HIDE DEF Holdings
    <2>1. de \in Seq(Holdings) /\ Len(de) = m + n
          /\ \A i \in 1 .. m + n : de[i] = IF i <= m THEN d[i] ELSE e[i - m]
      BY ConcatProperties
    <2> HIDE DEF de
    <2> QED BY <2>1, LenProperties
  <1> HIDE DEF m, n, de, Holdings
  <1>2. ASSUME NEW c \in CardsIn(de) PROVE c \in CardsIn(d) \cup CardsIn(e)
    <2>1. PICK i \in 1 .. m + n : c \in ToSet(de[i])
      BY <1>1 DEF CardsIn
    <2>2. CASE i <= m
      <3>1. i \in 1 .. m /\ de[i] = d[i]
        BY <1>1, <2>2
      <3> QED BY <1>1, <2>1, <3>1 DEF CardsIn
    <2>3. CASE ~(i <= m)
      <3>1. i - m \in 1 .. n /\ de[i] = e[i - m]
        BY <1>1, <2>3
      <3> QED BY <1>1, <2>1, <3>1 DEF CardsIn
    <2> QED BY <2>2, <2>3
  <1>3. ASSUME NEW c \in CardsIn(d) PROVE c \in CardsIn(de)
    <2>1. PICK i \in 1 .. m : c \in ToSet(d[i])
      BY <1>1 DEF CardsIn
    <2>2. i \in 1 .. m + n /\ de[i] = d[i]
      BY <1>1
    <2> QED BY <1>1, <2>1, <2>2 DEF CardsIn
  <1>4. ASSUME NEW c \in CardsIn(e) PROVE c \in CardsIn(de)
    <2>1. PICK i \in 1 .. n : c \in ToSet(e[i])
      BY <1>1 DEF CardsIn
    <2>2. m + i \in 1 .. m + n /\ ~(m + i <= m) /\ (m + i) - m = i
      BY <1>1
    <2>3. de[m + i] = e[i]
      BY <1>1, <2>2
    <2> QED BY <1>1, <2>1, <2>2, <2>3 DEF CardsIn
  <1> QED BY <1>2, <1>3, <1>4 DEF de

LEMMA PartsOfConcat ==
  ASSUME NEW S, NEW d \in Seq(S), NEW e \in Seq(S), NEW f \in Seq(S), NEW g \in Seq(S),
         Len(d) = Len(f), d \o e = f \o g
  PROVE  d = f /\ e = g
  <1> DEFINE m == Len(d)
  <1>1. /\ m \in Nat /\ Len(e) \in Nat /\ Len(g) \in Nat
        /\ m + Len(e) = m + Len(g)
        /\ \A i \in 1 .. m + Len(e) : (d \o e)[i] = IF i <= m THEN d[i] ELSE e[i - m]
        /\ \A i \in 1 .. m + Len(g) : (f \o g)[i] = IF i <= m THEN f[i] ELSE g[i - m]
    <2>1. /\ Len(d \o e) = Len(d) + Len(e)
          /\ \A i \in 1 .. Len(d) + Len(e) :
                (d \o e)[i] = IF i <= Len(d) THEN d[i] ELSE e[i - Len(d)]
      BY ConcatProperties
    <2>2. /\ Len(f \o g) = Len(f) + Len(g)
          /\ \A i \in 1 .. Len(f) + Len(g) :
                (f \o g)[i] = IF i <= Len(f) THEN f[i] ELSE g[i - Len(f)]
      BY ConcatProperties
    <2>3. Len(d) \in Nat /\ Len(e) \in Nat /\ Len(g) \in Nat
      BY LenProperties
    <2> QED BY <2>1, <2>2, <2>3
  <1>2. Len(e) = Len(g)
    BY <1>1
  <1> HIDE DEF m
  <1>3. \A i \in 1 .. m : d[i] = f[i]
    <2>1. \A i \in 1 .. m : i \in 1 .. m + Len(e) /\ i <= m
      BY <1>1
    <2> QED BY <1>1, <1>2, <2>1
  <1>4. \A i \in 1 .. Len(e) : e[i] = g[i]
    <2> SUFFICES ASSUME NEW i \in 1 .. Len(e) PROVE e[i] = g[i]
        OBVIOUS
    <2>1. m + i \in 1 .. m + Len(e) /\ ~(m + i <= m) /\ (m + i) - m = i
      BY <1>1
    <2>2. (d \o e)[m + i] = e[i]
      BY <1>1, <2>1
    <2>3. (f \o g)[m + i] = g[i]
      BY <1>1, <1>2, <2>1
    <2> QED BY <2>2, <2>3
  <1> QED BY <1>2, <1>3, <1>4, SeqEqual DEF m

\* The elements of out are the values of J, each once.
Counts(out, n, pairs, J) ==
    /\ \A k \in 1 .. n : \E p \in pairs : out[k] = J[p]
    /\ \A p \in pairs : \E k \in 1 .. n : out[k] = J[p]
    /\ \A k, l \in 1 .. n : out[k] = out[l] => k = l
    /\ \A p, q \in pairs : J[p] = J[q] => p = q

LEMMA SizeIsCount ==
  ASSUME NEW out, NEW n \in Nat, NEW pairs, NEW J, Counts(out, n, pairs, J)
  PROVE  Cardinality(pairs) = n
  <1> DEFINE f == [k \in 1 .. n |-> CHOOSE p \in pairs : out[k] = J[p]]
  <1>1. \A k \in 1 .. n : f[k] \in pairs /\ out[k] = J[f[k]]
    BY DEF Counts
  <1>2. f \in [1 .. n -> pairs]
    BY <1>1
  <1> HIDE DEF f
  <1>3. \A k, l \in 1 .. n : f[k] = f[l] => k = l
    BY <1>1 DEF Counts
  <1>4. \A p \in pairs : \E k \in 1 .. n : f[k] = p
    BY <1>1 DEF Counts
  <1>5. f \in Bijection(1 .. n, pairs)
    BY <1>2, <1>3, <1>4 DEF Bijection, Injection, Surjection, IsInjective
  <1>6. ExistsBijection(1 .. n, pairs)
    BY <1>5 DEF ExistsBijection
  <1> QED BY <1>6, FS_CountingElements

(***************************************************************************)
(* The join of two sound ranges is sound, and as long as estimateJoinSize  *)
(* says.                                                                   *)
(***************************************************************************)
LEMMA JoinIsSound ==
  ASSUME NEW given, NEW r1, NEW r2, Sound(r1, given), Sound(r2, given)
  PROVE  /\ Sound(Join(r1, r2), given)
         /\ Len(Join(r1, r2).combos) = EstimateJoinSize(r1, r2)
  <1> DEFINE P1 == r1.players
             P2 == r2.players
             C1 == r1.combos
             C2 == r2.combos
             pairs == CompatiblePairs(C1, C2)
             out == AllFitting(C1, C2)
             J(p) == JoinOf(C1, C2, p)
             M == Len(out)
             I == DOMAIN given
  <1>1. P1 \in Seq(I) /\ P2 \in Seq(I) /\ C1 \in Seq(ComboType) /\ C2 \in Seq(ComboType)
    BY DEF Sound
  <1>2. P1 \o P2 \in Seq(I) /\ out \in Seq(ComboType) /\ M \in Nat
    <2> HIDE DEF ComboType, P1, P2, C1, C2
    <2>1. out \in Seq(ComboType)
      BY <1>1, AllFittingIsLoop
    <2> HIDE DEF out
    <2> QED BY <1>1, <2>1, ConcatProperties, LenProperties
  <1>3. Join(r1, r2) = [players |-> P1 \o P2, combos |-> out]
    BY DEF Join
  <1>4. /\ \A k \in 1 .. M : \E p \in pairs : out[k] = J(p)
        /\ \A p \in pairs : \E k \in 1 .. M : out[k] = J(p)
        /\ \A k, l \in 1 .. M : k < l => \E p, q \in pairs :
              p # q /\ out[k] = J(p) /\ out[l] = J(q)
    <2> HIDE DEF ComboType, P1, P2, C1, C2
    <2> QED BY <1>1, AllFittingFits
  <1>5. \A p : p \in pairs <=>
           /\ p \in (1 .. Len(C1)) \X (1 .. Len(C2))
           /\ C1[p[1]].mask \cap C2[p[2]].mask = {}
    BY DEF CompatiblePairs, Compatible
  <1>6. \A p \in pairs : /\ J(p).holeCards = C1[p[1]].holeCards \o C2[p[2]].holeCards
                         /\ J(p).mask = C1[p[1]].mask \cup C2[p[2]].mask
    BY DEF JoinOf, Joined
  <1>7. \A k \in 1 .. Len(C1) : /\ IsDeal(C1[k].holeCards, P1, given)
                               /\ C1[k].mask = CardsIn(C1[k].holeCards)
    BY DEF Sound
  <1>8. \A k \in 1 .. Len(C2) : /\ IsDeal(C2[k].holeCards, P2, given)
                               /\ C2[k].mask = CardsIn(C2[k].holeCards)
    BY DEF Sound
  <1>9. /\ \A d : IsDeal(d, P1, given) => \E k \in 1 .. Len(C1) : C1[k].holeCards = d
        /\ \A d : IsDeal(d, P2, given) => \E k \in 1 .. Len(C2) : C2[k].holeCards = d
    BY DEF Sound
  <1>10. /\ \A k, l \in 1 .. Len(C1) : C1[k].holeCards = C1[l].holeCards => k = l
         /\ \A k, l \in 1 .. Len(C2) : C2[k].holeCards = C2[l].holeCards => k = l
    BY DEF Sound
  <1>11. pairs = {p \in (DOMAIN r1.combos) \X (DOMAIN r2.combos) :
                    Compatible(r1.combos[p[1]], r2.combos[p[2]])}
    <2>1. DOMAIN C1 = 1 .. Len(C1) /\ DOMAIN C2 = 1 .. Len(C2)
      BY <1>1, LenProperties
    <2> QED BY <2>1 DEF CompatiblePairs
  <1> HIDE DEF P1, P2, C1, C2, pairs, out, J, M, I
  <1>12. ASSUME NEW p \in pairs
         PROVE  /\ IsDeal(J(p).holeCards, P1 \o P2, given)
                /\ J(p).mask = CardsIn(J(p).holeCards)
    <2> DEFINE d == C1[p[1]].holeCards
               e == C2[p[2]].holeCards
    <2>1. /\ p[1] \in 1 .. Len(C1) /\ p[2] \in 1 .. Len(C2)
          /\ C1[p[1]].mask \cap C2[p[2]].mask = {}
      BY <1>5
    <2>2. /\ IsDeal(d, P1, given) /\ C1[p[1]].mask = CardsIn(d)
          /\ IsDeal(e, P2, given) /\ C2[p[2]].mask = CardsIn(e)
      BY <1>7, <1>8, <2>1
    <2>3. J(p).holeCards = d \o e /\ J(p).mask = C1[p[1]].mask \cup C2[p[2]].mask
      BY <1>6
    <2> HIDE DEF d, e
    <2>4. CardsIn(d) \cap CardsIn(e) = {}
      BY <2>1, <2>2
    <2>5. IsDeal(d \o e, P1 \o P2, given)
      BY <1>1, <2>2, <2>4, DealsJoin
    <2>6. d \in Seq(Holdings) /\ e \in Seq(Holdings)
      BY <2>2 DEF IsDeal
    <2>7. CardsIn(d \o e) = CardsIn(d) \cup CardsIn(e)
      BY <2>6, CardsOfBoth
    <2> QED BY <2>2, <2>3, <2>5, <2>7
  <1>13. ASSUME NEW p \in pairs, NEW q \in pairs, J(p).holeCards = J(q).holeCards
         PROVE  p = q
    <2> DEFINE d == C1[p[1]].holeCards
               e == C2[p[2]].holeCards
               f == C1[q[1]].holeCards
               g == C2[q[2]].holeCards
    <2>1. /\ p[1] \in 1 .. Len(C1) /\ p[2] \in 1 .. Len(C2) /\ p = <<p[1], p[2]>>
          /\ q[1] \in 1 .. Len(C1) /\ q[2] \in 1 .. Len(C2) /\ q = <<q[1], q[2]>>
      BY <1>5
    <2>2. IsDeal(d, P1, given) /\ IsDeal(e, P2, given) /\ IsDeal(f, P1, given) /\ IsDeal(g, P2, given)
      BY <1>7, <1>8, <2>1
    <2>3. d \o e = f \o g
      BY <1>6, <1>13
    <2>4. d = f /\ e = g
      <3> HIDE DEF d, e, f, g
      <3>1. /\ d \in Seq(Holdings) /\ e \in Seq(Holdings)
            /\ f \in Seq(Holdings) /\ g \in Seq(Holdings) /\ Len(d) = Len(f)
        BY <2>2 DEF IsDeal
      <3> HIDE DEF Holdings
      <3> QED BY <2>3, <3>1, PartsOfConcat
    <2>5. p[1] = q[1] /\ p[2] = q[2]
      BY <1>10, <2>1, <2>4
    <2> QED BY <2>1, <2>5
  <1>14. \A k \in 1 .. M : /\ IsDeal(out[k].holeCards, P1 \o P2, given)
                          /\ out[k].mask = CardsIn(out[k].holeCards)
    BY <1>4, <1>12
  <1>15. ASSUME NEW d, IsDeal(d, P1 \o P2, given)
         PROVE  \E k \in 1 .. M : out[k].holeCards = d
    <2>0. Splits(d, P1, P2, given)
      BY <1>1, <1>15, DealsSplit
    <2>1. PICK f, g : /\ IsDeal(f, P1, given) /\ IsDeal(g, P2, given)
                      /\ CardsIn(f) \cap CardsIn(g) = {}
                      /\ d = f \o g
      BY <2>0 DEF Splits
    <2>2. PICK i \in 1 .. Len(C1) : C1[i].holeCards = f
      BY <1>9, <2>1
    <2>3. PICK j \in 1 .. Len(C2) : C2[j].holeCards = g
      BY <1>9, <2>1
    <2>4. C1[i].mask = CardsIn(f) /\ C2[j].mask = CardsIn(g)
      BY <1>7, <1>8, <2>2, <2>3
    <2> DEFINE p == <<i, j>>
    <2>5. p \in (1 .. Len(C1)) \X (1 .. Len(C2)) /\ p[1] = i /\ p[2] = j
      OBVIOUS
    <2> HIDE DEF p
    <2>6. p \in pairs
      BY <1>5, <2>1, <2>4, <2>5
    <2>7. J(p).holeCards = d
      BY <1>6, <2>1, <2>2, <2>3, <2>5, <2>6
    <2> QED BY <1>4, <2>6, <2>7
  <1>16. ASSUME NEW k \in 1 .. M, NEW l \in 1 .. M, out[k].holeCards = out[l].holeCards
         PROVE  k = l
    <2>1. \A a, b \in 1 .. M : a < b => out[a].holeCards # out[b].holeCards
      BY <1>4, <1>13
    <2>2. k < l \/ l < k \/ k = l
      BY <1>2
    <2> QED BY <1>16, <2>1, <2>2
  <1>17. Sound(Join(r1, r2), given)
    <2>1. Join(r1, r2) \in [players : Seq(I), combos : Seq(ComboType)]
      BY <1>2, <1>3
    <2>2. Join(r1, r2).players = P1 \o P2 /\ Join(r1, r2).combos = out
      BY <1>3
    <2> QED BY <1>14, <1>15, <1>16, <2>1, <2>2 DEF Sound, M, I
  <1>18. Cardinality(pairs) = M
    <2> DEFINE K == [p \in pairs |-> J(p)]
    <2>1. \A p \in pairs : K[p] = J(p)
      OBVIOUS
    <2> HIDE DEF K
    <2>2. /\ \A k \in 1 .. M : \E p \in pairs : out[k] = K[p]
          /\ \A p \in pairs : \E k \in 1 .. M : out[k] = K[p]
      BY <1>4, <2>1
    <2>3. \A k, l \in 1 .. M : out[k] = out[l] => k = l
      BY <1>16
    <2>4. \A p, q \in pairs : K[p] = K[q] => p = q
      BY <1>13, <2>1
    <2>5. Counts(out, M, pairs, K)
      BY <2>2, <2>3, <2>4 DEF Counts
    <2> QED BY <1>2, <2>5, SizeIsCount
  <1>19. Len(Join(r1, r2).combos) = EstimateJoinSize(r1, r2)
    BY <1>3, <1>11, <1>18 DEF EstimateJoinSize, M
  <1> QED BY <1>17, <1>19

-----------------------------------------------------------------------------
(***************************************************************************)
(* Of finitely many couples there is a first one of the smallest, which    *)
(* is what the loops of joinRanges find.                                   *)
(***************************************************************************)
RangeType(given) == [players : Seq(DOMAIN given), combos : Seq(ComboType)]

RangesAreSound ==
    /\ combinedRanges \in Seq(RangeType(holeCardRanges))
    /\ \A k \in 1 .. Len(combinedRanges) : Sound(combinedRanges[k], holeCardRanges)

LEMMA CouplesAre ==
  ASSUME RangesAreSound
  PROVE  \A p : p \in Couples <=>
            /\ p \in (1 .. Len(combinedRanges)) \X (1 .. Len(combinedRanges))
            /\ p[2] < p[1]
  <1>1. DOMAIN combinedRanges = 1 .. Len(combinedRanges)
    BY LenProperties DEF RangesAreSound
  <1> QED BY <1>1 DEF Couples

LEMMA JoinSizeIsNat ==
  ASSUME RangesAreSound, NEW p \in Couples
  PROVE  JoinSize(p) \in Nat
  <1> DEFINE C1 == combinedRanges[p[1]].combos
             C2 == combinedRanges[p[2]].combos
             places == {q \in (DOMAIN C1) \X (DOMAIN C2) : Compatible(C1[q[1]], C2[q[2]])}
  <1>1. p[1] \in 1 .. Len(combinedRanges) /\ p[2] \in 1 .. Len(combinedRanges)
    BY CouplesAre
  <1>2. C1 \in Seq(ComboType) /\ C2 \in Seq(ComboType)
    BY <1>1 DEF RangesAreSound, Sound
  <1>3. JoinSize(p) = Cardinality(places)
    BY DEF JoinSize, EstimateJoinSize
  <1> HIDE DEF C1, C2
  <1>4. /\ DOMAIN C1 = 1 .. Len(C1) /\ DOMAIN C2 = 1 .. Len(C2)
        /\ Len(C1) \in Nat /\ Len(C2) \in Nat
    <2> HIDE DEF ComboType
    <2> QED BY <1>2, LenProperties
  <1>5. IsFiniteSet(DOMAIN C1) /\ IsFiniteSet(DOMAIN C2)
    BY <1>4, FS_Interval
  <1>6. IsFiniteSet((DOMAIN C1) \X (DOMAIN C2))
    BY <1>5, FS_Product
  <1>7. IsFiniteSet(places)
    BY <1>6, FS_Subset
  <1> QED BY <1>3, <1>7, FS_CardinalityType

LEMMA LeastOf ==
  ASSUME NEW S, S # {}, NEW f \in [S -> Nat]
  PROVE  \E p \in S : \A q \in S : f[p] <= f[q]
  <1> DEFINE T == {f[p] : p \in S}
  <1>1. T \in SUBSET Nat /\ T # {}
    OBVIOUS
  <1>2. \E m \in T : \A n \in T : m <= n
    <2> HIDE DEF T
    <2> QED BY <1>1, LeastNumber
  <1> QED BY <1>2

LEMMA BestPairExists ==
  ASSUME RangesAreSound, Couples # {}
  PROVE  /\ BestPair \in Couples
         /\ \A q \in Couples : JoinSize(BestPair) <= JoinSize(q)
  <1> DEFINE Best(p) ==
        \A q \in Couples : \/ JoinSize(p) < JoinSize(q)
                           \/ /\ JoinSize(p) = JoinSize(q)
                              /\ p[1] < q[1] \/ (p[1] = q[1] /\ p[2] <= q[2])
             size == [p \in Couples |-> JoinSize(p)]
  <1>1. \A p \in Couples : p[1] \in Nat /\ p[2] \in Nat /\ JoinSize(p) \in Nat
    <2>1. Len(combinedRanges) \in Nat
      BY LenProperties DEF RangesAreSound
    <2> QED BY <2>1, CouplesAre, JoinSizeIsNat
  <1>2. PICK a \in Couples : \A q \in Couples : JoinSize(a) <= JoinSize(q)
    <2>1. size \in [Couples -> Nat]
      BY <1>1
    <2>2. \A q \in Couples : size[q] = JoinSize(q)
      OBVIOUS
    <2> HIDE DEF size
    <2>3. \E p \in Couples : \A q \in Couples : size[p] <= size[q]
      BY <2>1, LeastOf
    <2> QED BY <2>2, <2>3
  <1> DEFINE A == {p \in Couples : JoinSize(p) = JoinSize(a)}
             first == [p \in A |-> p[1]]
  <1>3. PICK b \in A : \A q \in A : b[1] <= q[1]
    <2>1. first \in [A -> Nat] /\ A # {}
      BY <1>1
    <2>2. \A q \in A : first[q] = q[1]
      OBVIOUS
    <2> HIDE DEF first, A
    <2>3. \E p \in A : \A q \in A : first[p] <= first[q]
      BY <2>1, LeastOf
    <2> QED BY <2>2, <2>3
  <1> DEFINE B == {p \in A : p[1] = b[1]}
             second == [p \in B |-> p[2]]
  <1>4. PICK c \in B : \A q \in B : c[2] <= q[2]
    <2>1. second \in [B -> Nat] /\ B # {}
      BY <1>1
    <2>2. \A q \in B : second[q] = q[2]
      OBVIOUS
    <2> HIDE DEF second, B
    <2>3. \E p \in B : \A q \in B : second[p] <= second[q]
      BY <2>1, LeastOf
    <2> QED BY <2>2, <2>3
  <1>5. c \in Couples /\ JoinSize(c) = JoinSize(a) /\ c[1] = b[1]
    BY <1>4
  <1>6. ASSUME NEW q \in Couples
        PROVE  \/ JoinSize(c) < JoinSize(q)
               \/ /\ JoinSize(c) = JoinSize(q)
                  /\ c[1] < q[1] \/ (c[1] = q[1] /\ c[2] <= q[2])
    <2>1. CASE q \notin A
      <3>1. JoinSize(c) <= JoinSize(q) /\ JoinSize(c) # JoinSize(q)
        BY <1>2, <1>5, <2>1
      <3> QED BY <1>1, <1>5, <3>1
    <2>2. CASE q \in A /\ q \notin B
      <3>1. JoinSize(c) = JoinSize(q) /\ c[1] <= q[1] /\ c[1] # q[1]
        BY <1>3, <1>5, <2>2
      <3> QED BY <1>1, <1>5, <3>1
    <2>3. CASE q \in B
      <3>1. JoinSize(c) = JoinSize(q) /\ c[1] = q[1] /\ c[2] <= q[2]
        BY <1>4, <1>5, <2>3
      <3> QED BY <3>1
    <2> QED BY <2>1, <2>2, <2>3
  <1>7. Best(c)
    BY <1>6
  <1>8. BestPair \in Couples /\ Best(BestPair)
    <2> HIDE DEF A, B
    <2> QED BY <1>5, <1>7 DEF BestPair
  <1>9. ASSUME NEW q \in Couples PROVE JoinSize(BestPair) <= JoinSize(q)
    <2> DEFINE x == JoinSize(BestPair)
               y == JoinSize(q)
    <2>1. x \in Nat /\ y \in Nat /\ (x < y \/ x = y)
      BY <1>1, <1>8, <1>9
    <2> HIDE DEF x, y
    <2> QED BY <2>1 DEF x, y
  <1> QED BY <1>8, <1>9

(***************************************************************************)
(* The join takes the place of the one range and the other is erased.      *)
(***************************************************************************)
Before(k, p) == IF k < p[2] THEN k ELSE k + 1

LEMMA ReplacedIs ==
  ASSUME NEW S, NEW ranges \in Seq(S), NEW p,
         p[1] \in 1 .. Len(ranges), p[2] \in 1 .. Len(ranges), p[2] < p[1],
         Join(ranges[p[1]], ranges[p[2]]) \in S
  PROVE  LET new == Replaced(ranges, p)
         IN  /\ new \in Seq(S) /\ Len(new) = Len(ranges) - 1
             /\ \A k \in 1 .. Len(new) :
                   /\ Before(k, p) \in 1 .. Len(ranges) /\ Before(k, p) # p[2]
                   /\ new[k] = IF Before(k, p) = p[1] THEN Join(ranges[p[1]], ranges[p[2]])
                               ELSE ranges[Before(k, p)]
  <1> DEFINE j == Join(ranges[p[1]], ranges[p[2]])
             n == Len(ranges)
             e == [ranges EXCEPT ![p[1]] = j]
             u == SubSeq(e, 1, p[2] - 1)
             v == SubSeq(e, p[2] + 1, n)
             new == Replaced(ranges, p)
  <1>0. n \in Nat /\ p[1] \in 1 .. n /\ p[2] \in 1 .. n /\ j \in S
    BY LenProperties
  <1>1. /\ e \in Seq(S) /\ Len(e) = n
        /\ \A k \in 1 .. n : e[k] = IF k = p[1] THEN j ELSE ranges[k]
    <2> HIDE DEF j
    <2> QED BY <1>0, ExceptSeq
  <1>2. \A k \in 1 .. n : e[k] \in S
    <2> HIDE DEF e
    <2> QED BY <1>1, ElementOfSeq
  <1>3. new = u \o v
    BY <1>1 DEF Replaced, RemoveAt
  <1> HIDE DEF e, j, n
  <1>4. /\ u \in Seq(S) /\ Len(u) = p[2] - 1
        /\ \A k \in 1 .. p[2] - 1 : u[k] = e[k]
    <2>1. p[2] - 1 \in Nat /\ p[2] - 1 <= Len(e)
      BY <1>0, <1>1
    <2> QED BY <1>1, <2>1, FirstPart
  <1>5. /\ v \in Seq(S) /\ Len(v) = n - p[2]
        /\ \A k \in 1 .. n - p[2] : v[k] = e[p[2] + k]
    <2> DEFINE m == p[2]
    <2>1. m \in Nat /\ m <= Len(e) /\ v = SubSeq(e, m + 1, Len(e))
      BY <1>0, <1>1
    <2> HIDE DEF m, v
    <2>2. /\ v \in Seq(S) /\ Len(v) = Len(e) - m
          /\ \A k \in 1 .. Len(e) - m : v[k] = e[m + k]
      BY <1>1, <2>1, LastPart
    <2> QED BY <1>1, <2>2 DEF m
  <1> HIDE DEF u, v
  <1>6. /\ new \in Seq(S) /\ Len(new) = n - 1
        /\ \A k \in 1 .. n - 1 : new[k] = IF k <= p[2] - 1 THEN u[k] ELSE v[k - (p[2] - 1)]
    <2>1. /\ u \o v \in Seq(S) /\ Len(u \o v) = Len(u) + Len(v)
          /\ \A k \in 1 .. Len(u) + Len(v) :
                (u \o v)[k] = IF k <= Len(u) THEN u[k] ELSE v[k - Len(u)]
      BY <1>4, <1>5, ConcatProperties
    <2>2. Len(u) + Len(v) = n - 1
      BY <1>0, <1>4, <1>5
    <2> HIDE DEF new
    <2> QED BY <1>3, <1>4, <2>1, <2>2
  <1>7. ASSUME NEW k \in 1 .. n - 1
        PROVE  /\ Before(k, p) \in 1 .. n /\ Before(k, p) # p[2]
               /\ new[k] = e[Before(k, p)]
    <2> HIDE DEF new
    <2>1. CASE k < p[2]
      <3>1. k \in 1 .. p[2] - 1 /\ k <= p[2] - 1
        BY <1>0, <2>1
      <3> QED BY <1>0, <1>4, <1>6, <2>1, <3>1 DEF Before
    <2>2. CASE ~(k < p[2])
      <3>1. k - (p[2] - 1) \in 1 .. n - p[2] /\ ~(k <= p[2] - 1)
        BY <1>0, <2>2
      <3>2. p[2] + (k - (p[2] - 1)) = k + 1
        BY <1>0
      <3>3. new[k] = e[k + 1]
        BY <1>5, <1>6, <3>1, <3>2
      <3> QED BY <1>0, <2>2, <3>3 DEF Before
    <2> QED BY <2>1, <2>2
  <1> HIDE DEF new
  <1> QED BY <1>1, <1>6, <1>7 DEF new, n, j

(***************************************************************************)
(* Every player is in one range, in one place.                             *)
(***************************************************************************)
InSome(ranges, players) ==
    \A i \in players : \E k \in 1 .. Len(ranges) : \E l \in 1 .. Len(ranges[k].players) :
        ranges[k].players[l] = i

InOneOnly(ranges) ==
    \A k, m \in 1 .. Len(ranges) :
        \A l \in 1 .. Len(ranges[k].players), n \in 1 .. Len(ranges[m].players) :
            ranges[k].players[l] = ranges[m].players[n] => k = m /\ l = n

\* new is ranges with the players of the pair p of ranges put together.
PutTogether(new, ranges, p) ==
    /\ Len(ranges) \in Nat /\ Len(new) = Len(ranges) - 1
    /\ p[1] \in 1 .. Len(ranges) /\ p[2] \in 1 .. Len(ranges) /\ p[2] < p[1]
    /\ \A k \in 1 .. Len(ranges) : Len(ranges[k].players) \in Nat
    /\ \A k \in 1 .. Len(new) : Before(k, p) # p[1] =>
          new[k].players = ranges[Before(k, p)].players
    /\ LET joined == new[p[1] - 1].players
           a == ranges[p[1]].players
           b == ranges[p[2]].players
       IN  /\ Len(joined) = Len(a) + Len(b)
           /\ \A l \in 1 .. Len(a) + Len(b) :
                 joined[l] = IF l <= Len(a) THEN a[l] ELSE b[l - Len(a)]

LEMMA StillInSome ==
  ASSUME NEW new, NEW ranges, NEW p, NEW players,
         PutTogether(new, ranges, p), InSome(ranges, players)
  PROVE  InSome(new, players)
  <1> DEFINE N == Len(ranges)
             a == ranges[p[1]].players
             b == ranges[p[2]].players
             joined == new[p[1] - 1].players
  <1>1. /\ N \in Nat /\ Len(new) = N - 1
        /\ p[1] \in 1 .. N /\ p[2] \in 1 .. N /\ p[2] < p[1]
        /\ Len(a) \in Nat /\ Len(b) \in Nat /\ Len(joined) = Len(a) + Len(b)
        /\ \A l \in 1 .. Len(a) + Len(b) : joined[l] = IF l <= Len(a) THEN a[l] ELSE b[l - Len(a)]
        /\ \A k \in 1 .. N - 1 : Before(k, p) # p[1] => new[k].players = ranges[Before(k, p)].players
    BY DEF PutTogether
  <1> SUFFICES ASSUME NEW i \in players
               PROVE  \E k \in 1 .. N - 1 : \E l \in 1 .. Len(new[k].players) :
                         new[k].players[l] = i
      BY <1>1 DEF InSome
  <1>2. PICK k \in 1 .. N : \E l \in 1 .. Len(ranges[k].players) : ranges[k].players[l] = i
    BY DEF InSome
  <1>3. PICK l \in 1 .. Len(ranges[k].players) : ranges[k].players[l] = i
    BY <1>2
  <1>4. p[1] - 1 \in 1 .. N - 1
    BY <1>1
  <1>5. CASE k = p[1]
    <2>1. l \in 1 .. Len(a) /\ a[l] = i
      BY <1>3, <1>5
    <2> HIDE DEF a, b, joined, N
    <2>2. l \in 1 .. Len(joined) /\ joined[l] = i
      BY <1>1, <2>1
    <2> QED BY <1>4, <2>2 DEF joined
  <1>6. CASE k = p[2]
    <2>1. l \in 1 .. Len(b) /\ b[l] = i
      BY <1>3, <1>6
    <2> HIDE DEF a, b, joined, N
    <2>2. /\ Len(a) + l \in 1 .. Len(a) + Len(b)
          /\ ~(Len(a) + l <= Len(a)) /\ Len(a) + l - Len(a) = l
      BY <1>1, <2>1
    <2>3. joined[Len(a) + l] = i
      BY <1>1, <2>1, <2>2
    <2>4. Len(a) + l \in 1 .. Len(joined)
      BY <1>1, <2>2
    <2> QED BY <1>4, <2>3, <2>4 DEF joined
  <1>7. CASE k # p[1] /\ k # p[2]
    <2> DEFINE m == IF k < p[2] THEN k ELSE k - 1
    <2>1. m \in 1 .. N - 1 /\ Before(m, p) = k
      BY <1>1, <1>7 DEF Before
    <2> HIDE DEF m
    <2>2. new[m].players = ranges[k].players
      BY <1>1, <1>7, <2>1
    <2> QED BY <1>3, <2>1, <2>2
  <1> QED BY <1>5, <1>6, <1>7

\* The l-th player of the k-th new range was the i-th of the x-th.
Origin(ranges, p, k, l, x, i) ==
    LET cut == Len(ranges[p[1]].players)
    IN  \/ k = p[1] - 1 /\ l <= cut /\ x = p[1] /\ i = l
        \/ k = p[1] - 1 /\ ~(l <= cut) /\ x = p[2] /\ i = l - cut
        \/ k # p[1] - 1 /\ x = Before(k, p) /\ x # p[1] /\ x # p[2] /\ i = l

LEMMA CameFrom ==
  ASSUME NEW new, NEW ranges, NEW p, PutTogether(new, ranges, p),
         NEW k \in 1 .. Len(new), NEW l \in 1 .. Len(new[k].players)
  PROVE  \E x \in 1 .. Len(ranges) : \E i \in 1 .. Len(ranges[x].players) :
            new[k].players[l] = ranges[x].players[i] /\ Origin(ranges, p, k, l, x, i)
  <1> DEFINE N == Len(ranges)
             a == ranges[p[1]].players
             b == ranges[p[2]].players
             joined == new[p[1] - 1].players
  <1>1. /\ N \in Nat /\ Len(new) = N - 1
        /\ p[1] \in 1 .. N /\ p[2] \in 1 .. N /\ p[2] < p[1]
        /\ Len(a) \in Nat /\ Len(b) \in Nat /\ Len(joined) = Len(a) + Len(b)
        /\ \A x \in 1 .. Len(a) + Len(b) : joined[x] = IF x <= Len(a) THEN a[x] ELSE b[x - Len(a)]
        /\ \A x \in 1 .. N - 1 : Before(x, p) # p[1] => new[x].players = ranges[Before(x, p)].players
    BY DEF PutTogether
  <1>2. CASE k = p[1] - 1
    <2>1. new[k].players = joined
      BY <1>2
    <2> HIDE DEF joined, a, b, N
    <2>2. /\ l \in 1 .. Len(a) + Len(b)
          /\ new[k].players[l] = IF l <= Len(a) THEN a[l] ELSE b[l - Len(a)]
      BY <1>1, <2>1
    <2>3. CASE l <= Len(a)
      <3>1. l \in 1 .. Len(a) /\ new[k].players[l] = a[l]
        BY <1>1, <2>2, <2>3
      <3> QED BY <1>1, <1>2, <2>3, <3>1 DEF Origin, a, N
    <2>4. CASE ~(l <= Len(a))
      <3>1. l - Len(a) \in 1 .. Len(b) /\ new[k].players[l] = b[l - Len(a)]
        BY <1>1, <2>2, <2>4
      <3> QED BY <1>1, <1>2, <2>4, <3>1 DEF Origin, a, b, N
    <2> QED BY <2>3, <2>4
  <1>3. CASE k # p[1] - 1
    <2>1. k \in 1 .. N - 1
      BY <1>1
    <2>2. /\ Before(k, p) \in 1 .. N
          /\ Before(k, p) # p[1] /\ Before(k, p) # p[2]
      BY <1>1, <1>3, <2>1 DEF Before
    <2>3. new[k].players = ranges[Before(k, p)].players
      BY <1>1, <2>1, <2>2
    <2> QED BY <1>3, <2>2, <2>3 DEF Origin
  <1> QED BY <1>2, <1>3

LEMMA StillInOneOnly ==
  ASSUME NEW new, NEW ranges, NEW p, PutTogether(new, ranges, p), InOneOnly(ranges)
  PROVE  InOneOnly(new)
  <1> SUFFICES ASSUME NEW k \in 1 .. Len(new), NEW m \in 1 .. Len(new),
                      NEW l \in 1 .. Len(new[k].players), NEW n \in 1 .. Len(new[m].players),
                      new[k].players[l] = new[m].players[n]
               PROVE  k = m /\ l = n
      BY DEF InOneOnly
  <1> DEFINE cut == Len(ranges[p[1]].players)
  <1>1. /\ Len(new) = Len(ranges) - 1 /\ cut \in Nat /\ Len(ranges) \in Nat
        /\ p[1] \in 1 .. Len(ranges) /\ p[2] \in 1 .. Len(ranges) /\ p[2] < p[1]
    BY DEF PutTogether
  <1>2. PICK x \in 1 .. Len(ranges) : \E i \in 1 .. Len(ranges[x].players) :
            new[k].players[l] = ranges[x].players[i] /\ Origin(ranges, p, k, l, x, i)
    BY CameFrom
  <1>3. PICK i \in 1 .. Len(ranges[x].players) :
            new[k].players[l] = ranges[x].players[i] /\ Origin(ranges, p, k, l, x, i)
    BY <1>2
  <1>4. PICK y \in 1 .. Len(ranges) : \E j \in 1 .. Len(ranges[y].players) :
            new[m].players[n] = ranges[y].players[j] /\ Origin(ranges, p, m, n, y, j)
    BY CameFrom
  <1>5. PICK j \in 1 .. Len(ranges[y].players) :
            new[m].players[n] = ranges[y].players[j] /\ Origin(ranges, p, m, n, y, j)
    BY <1>4
  <1>6. x = y /\ i = j
    <2>1. ranges[x].players[i] = ranges[y].players[j]
      BY <1>3, <1>5
    <2>2. /\ x \in 1 .. Len(ranges) /\ y \in 1 .. Len(ranges) /\ InOneOnly(ranges)
          /\ i \in 1 .. Len(ranges[x].players) /\ j \in 1 .. Len(ranges[y].players)
      OBVIOUS
    <2> DEFINE a == ranges[x].players
               b == ranges[y].players
    <2>3. \A c, d \in 1 .. Len(ranges) :
             \A e \in 1 .. Len(ranges[c].players), f \in 1 .. Len(ranges[d].players) :
                ranges[c].players[e] = ranges[d].players[f] => c = d /\ e = f
      BY <2>2, Zenon DEF InOneOnly
    <2>4. \A e \in 1 .. Len(a), f \in 1 .. Len(b) : a[e] = b[f] => x = y /\ e = f
      BY <2>2, <2>3, Zenon
    <2> QED BY <2>1, <2>2, <2>4, Zenon DEF a, b
  <1>7. l \in Int /\ n \in Int
    OBVIOUS
  <1>8. Before(k, p) = Before(m, p) => k = m
    BY <1>1 DEF Before
  <1>9. /\ \/ k = p[1] - 1 /\ l <= cut /\ x = p[1] /\ i = l
           \/ k = p[1] - 1 /\ ~(l <= cut) /\ x = p[2] /\ i = l - cut
           \/ k # p[1] - 1 /\ x = Before(k, p) /\ x # p[1] /\ x # p[2] /\ i = l
        /\ \/ m = p[1] - 1 /\ n <= cut /\ x = p[1] /\ i = n
           \/ m = p[1] - 1 /\ ~(n <= cut) /\ x = p[2] /\ i = n - cut
           \/ m # p[1] - 1 /\ x = Before(m, p) /\ x # p[1] /\ x # p[2] /\ i = n
    BY <1>3, <1>5, <1>6 DEF Origin
  <1> HIDE DEF cut
  <1> QED BY <1>1, <1>7, <1>8, <1>9

-----------------------------------------------------------------------------
(***************************************************************************)
(* The inductive invariant of joinRanges.                                  *)
(***************************************************************************)
JoinsWithinLimit ==
    \A k \in 1 .. Len(combinedRanges) :
        Len(combinedRanges[k].players) > 1 => Len(combinedRanges[k].combos) <= maxSize

JoinInv ==
    /\ holeCardRanges \in Seq(Ranges) /\ Len(holeCardRanges) <= MaxPlayers /\ maxSize \in Nat
    /\ RangesAreSound
    /\ InSome(combinedRanges, DOMAIN holeCardRanges) /\ InOneOnly(combinedRanges)
    /\ JoinsWithinLimit
    /\ joining = "done" => \A p \in Couples : JoinSize(p) > maxSize

LEMMA CardsOfPair ==
  ASSUME NEW h \in Cards \X Cards
  PROVE  ToSet(h) = {h[1], h[2]} /\ CardsIn(<<h>>) = {h[1], h[2]}
  <1>1. DOMAIN h = {1, 2}
    OBVIOUS
  <1>2. ToSet(h) = {h[1], h[2]}
    BY <1>1 DEF ToSet
  <1>3. DOMAIN <<h>> = {1} /\ <<h>>[1] = h
    OBVIOUS
  <1>4. CardsIn(<<h>>) = ToSet(h)
    BY <1>3 DEF CardsIn
  <1> QED BY <1>2, <1>4

LEMMA OfPlayerIsSound ==
  ASSUME NEW given \in Seq(Ranges), NEW i \in 1 .. Len(given)
  PROVE  /\ Sound(OfPlayer(i, given[i]), given)
         /\ OfPlayer(i, given[i]).players = <<i>>
  <1> DEFINE range == given[i]
             n == Len(range)
             r == OfPlayer(i, range)
             C == r.combos
  <1>1. range \in Ranges /\ DOMAIN given = 1 .. Len(given)
    BY ElementOfSeq, LenProperties
  <1>2. range \in Seq(Cards \X Cards) /\ IsInjective(range)
    <2> HIDE DEF range
    <2> QED BY <1>1, RangesAssumption
  <1>3. /\ n \in Nat /\ DOMAIN range = 1 .. n
        /\ \A k \in 1 .. n : range[k] \in Cards \X Cards /\ range[k] \in ToSet(range)
        /\ \A h \in ToSet(range) : \E k \in 1 .. n : range[k] = h
        /\ \A k, l \in 1 .. n : range[k] = range[l] => k = l
    <2>1. /\ n \in Nat /\ DOMAIN range = 1 .. n
          /\ \A k \in 1 .. n : range[k] \in Cards \X Cards
      <3> HIDE DEF range
      <3> QED BY <1>2, LenProperties, ElementOfSeq
    <2> HIDE DEF n, range
    <2> QED BY <1>2, <2>1 DEF IsInjective, ToSet
  <1>4. \A h \in ToSet(range) : h \in Holdings
    BY <1>1 DEF Holdings
  <1>5. r = [players |-> <<i>>, combos |-> [k \in 1 .. n |-> Combo(range[k])]]
    BY <1>3 DEF OfPlayer
  <1> HIDE DEF range, n, r
  <1>6. /\ r.players = <<i>>
        /\ C = [k \in 1 .. n |-> Combo(range[k])]
    BY <1>5
  <1> HIDE DEF C
  <1>7. \A k \in 1 .. n : /\ C[k] = Combo(range[k]) /\ C[k].holeCards = <<range[k]>>
                         /\ C[k].mask = CardsIn(<<range[k]>>)
    BY <1>3, <1>6, CardsOfPair DEF Combo
  <1>8. C \in Seq(ComboType) /\ Len(C) = n
    <2>1. ASSUME NEW k \in 1 .. n PROVE C[k] \in ComboType
      <3> DEFINE h == range[k]
      <3>1. h \in Cards \X Cards
        BY <1>3
      <3>2. Combo(h) = [mask |-> {h[1], h[2]}, holeCards |-> <<h>>]
        BY DEF Combo
      <3> HIDE DEF h
      <3>3. {h[1], h[2]} \in SUBSET Cards
        BY <3>1
      <3> DEFINE T == Cards \X Cards
      <3>4. <<h>> \in Seq(T)
        <4> HIDE DEF T
        <4> QED BY <3>1 DEF T
      <3>5. Combo(h) \in ComboType
        BY <3>2, <3>3, <3>4 DEF ComboType
      <3> QED BY <1>7, <3>5 DEF h
    <2>2. C \in [1 .. n -> ComboType]
      BY <1>6, <2>1
    <2> HIDE DEF ComboType
    <2> QED BY <1>3, <2>2, SeqDef, LenProperties
  <1> DEFINE I == DOMAIN given
  <1>9. i \in I /\ <<i>> \in Seq(I) /\ Len(<<i>>) = 1 /\ <<i>>[1] = i
    BY <1>1
  <1>10. \A k \in 1 .. n : IsDeal(<<range[k]>>, <<i>>, given)
    <2> SUFFICES ASSUME NEW k \in 1 .. n PROVE IsDeal(<<range[k]>>, <<i>>, given)
        OBVIOUS
    <2> DEFINE h == range[k]
    <2>1. h \in Holdings /\ h \in ToSet(given[i])
      BY <1>3, <1>4 DEF range
    <2> HIDE DEF h, Holdings
    <2>2. <<h>> \in Seq(Holdings) /\ Len(<<h>>) = 1 /\ <<h>>[1] = h
      BY <2>1
    <2>3. \A x \in 1 .. 1 : x = 1
      OBVIOUS
    <2>4. IsDeal(<<h>>, <<i>>, given)
      BY <1>9, <2>1, <2>2, <2>3 DEF IsDeal
    <2> QED BY <2>4 DEF h
  <1>11. ASSUME NEW d, IsDeal(d, <<i>>, given)
         PROVE  \E k \in 1 .. n : C[k].holeCards = d
    <2>1. d \in Seq(Holdings) /\ Len(d) = 1 /\ d[1] \in ToSet(range)
      BY <1>9, <1>11 DEF IsDeal, range
    <2>2. PICK k \in 1 .. n : range[k] = d[1]
      BY <1>3, <2>1
    <2>3. d = <<range[k]>>
      <3> HIDE DEF Holdings
      <3> QED BY <2>1, <2>2
    <2> QED BY <1>7, <2>3
  <1>12. ASSUME NEW k \in 1 .. n, NEW l \in 1 .. n, C[k].holeCards = C[l].holeCards
         PROVE  k = l
    <2> DEFINE a == range[k]
               b == range[l]
    <2>0. <<a>> = <<b>>
      BY <1>7, <1>12
    <2> HIDE DEF a, b
    <2>1. a = b
      BY <2>0
    <2> USE DEF a, b
    <2> QED BY <1>3, <2>1
  <1>13. r \in [players : Seq(I), combos : Seq(ComboType)]
    BY <1>5, <1>6, <1>8, <1>9
  <1>14. Sound(r, given)
    <2>1. r.combos = C /\ Len(C) = n
      BY <1>8 DEF C
    <2>2. \A k \in 1 .. n : IsDeal(C[k].holeCards, <<i>>, given) /\ C[k].mask = CardsIn(C[k].holeCards)
      BY <1>7, <1>10
    <2>3. \A d : IsDeal(d, <<i>>, given) => \E k \in 1 .. n : C[k].holeCards = d
      BY <1>11
    <2>4. r \in [players : Seq(DOMAIN given), combos : Seq(ComboType)]
      BY <1>13
    <2>5. /\ \A k \in 1 .. Len(r.combos) :
                /\ IsDeal(r.combos[k].holeCards, r.players, given)
                /\ r.combos[k].mask = CardsIn(r.combos[k].holeCards)
          /\ \A d : IsDeal(d, r.players, given) =>
                \E k \in 1 .. Len(r.combos) : r.combos[k].holeCards = d
      BY <1>6, <2>1, <2>2, <2>3
    <2>6. \A k, l \in 1 .. Len(r.combos) :
             r.combos[k].holeCards = r.combos[l].holeCards => k = l
      BY <1>12, <2>1
    <2> QED BY <2>4, <2>5, <2>6 DEF Sound
  <1> QED BY <1>6, <1>14 DEF r, range

\* What StartJoining leaves.
OnePlayerEach ==
    /\ holeCardRanges \in Seq(Ranges) /\ Len(holeCardRanges) <= MaxPlayers /\ maxSize \in Nat
    /\ combinedRanges = [i \in DOMAIN holeCardRanges |-> OfPlayer(i, holeCardRanges[i])]
    /\ joining # "done"

LEMMA StartIsSound == OnePlayerEach => JoinInv
  <1> SUFFICES ASSUME OnePlayerEach PROVE JoinInv
      OBVIOUS
  <1> DEFINE n == Len(holeCardRanges)
  <1>1. /\ n \in Nat /\ DOMAIN holeCardRanges = 1 .. n
        /\ holeCardRanges \in Seq(Ranges)
    BY LenProperties DEF OnePlayerEach
  <1>2. combinedRanges = [i \in 1 .. n |-> OfPlayer(i, holeCardRanges[i])]
    BY <1>1 DEF OnePlayerEach
  <1>3. \A i \in 1 .. n : /\ Sound(combinedRanges[i], holeCardRanges)
                         /\ combinedRanges[i].players = <<i>>
    BY <1>1, <1>2, OfPlayerIsSound
  <1>4. \A i \in 1 .. n : combinedRanges[i] \in RangeType(holeCardRanges)
    BY <1>3 DEF Sound, RangeType
  <1>5. combinedRanges \in Seq(RangeType(holeCardRanges)) /\ Len(combinedRanges) = n
    <2>1. combinedRanges \in [1 .. n -> RangeType(holeCardRanges)]
      BY <1>2, <1>4
    <2> HIDE DEF RangeType
    <2> QED BY <1>1, <2>1, SeqDef, LenProperties
  <1> HIDE DEF n
  <1>6. RangesAreSound
    BY <1>3, <1>5 DEF RangesAreSound
  <1>7. \A i \in 1 .. n : /\ Len(combinedRanges[i].players) = 1
                         /\ combinedRanges[i].players[1] = i
    <2> SUFFICES ASSUME NEW i \in 1 .. n
                 PROVE  /\ Len(combinedRanges[i].players) = 1
                        /\ combinedRanges[i].players[1] = i
        OBVIOUS
    <2>1. Len(<<i>>) = 1 /\ <<i>>[1] = i
      OBVIOUS
    <2> QED BY <1>3, <2>1
  <1>8. \A l : l \in 1 .. 1 <=> l = 1
    OBVIOUS
  <1>9. InSome(combinedRanges, DOMAIN holeCardRanges)
    BY <1>1, <1>5, <1>7, <1>8 DEF InSome
  <1>10. InOneOnly(combinedRanges)
    BY <1>5, <1>7, <1>8 DEF InOneOnly
  <1>11. JoinsWithinLimit
    <2>1. ASSUME NEW k \in 1 .. n PROVE ~(Len(combinedRanges[k].players) > 1)
      <3>1. Len(combinedRanges[k].players) = 1
        BY <1>7
      <3> QED BY <3>1
    <2> QED BY <1>5, <2>1 DEF JoinsWithinLimit
  <1> QED BY <1>6, <1>9, <1>10, <1>11 DEF JoinInv, OnePlayerEach

LEMMA JoinStarts ==
  ASSUME NEW n \in 1 .. MaxPlayers, NEW limit \in Limits, NEW ranges \in [1 .. n -> Ranges],
         StartJoining(ranges, limit)
  PROVE  JoinInv'
  <1>1. n \in Nat /\ n <= MaxPlayers /\ limit \in Nat
    BY RangesAssumption
  <1>2. ranges \in Seq(Ranges) /\ Len(ranges) = n
    BY <1>1, SeqDef, LenProperties
  <1>3. OnePlayerEach'
    BY <1>1, <1>2 DEF StartJoining, OnePlayerEach
  <1>4. (OnePlayerEach => JoinInv)'
    BY StartIsSound, PTL
  <1> QED BY <1>3, <1>4

LEMMA JoinGoesOn ==
  ASSUME JoinInv, JoinBest
  PROVE  JoinInv'
  <1> DEFINE p == BestPair
             new == Replaced(combinedRanges, p)
             joined == Join(combinedRanges[p[1]], combinedRanges[p[2]])
             N == Len(combinedRanges)
             a == combinedRanges[p[1]].players
             b == combinedRanges[p[2]].players
  <1>1. /\ joining = "loop" /\ joining' = joining
        /\ Couples # {} /\ JoinSize(p) <= maxSize
        /\ combinedRanges' = new
        /\ holeCardRanges' = holeCardRanges /\ maxSize' = maxSize
    BY DEF JoinBest, CanJoin, WithinLimit
  <1>2. /\ combinedRanges \in Seq(RangeType(holeCardRanges)) /\ maxSize \in Nat
        /\ \A k \in 1 .. N : Sound(combinedRanges[k], holeCardRanges)
        /\ InSome(combinedRanges, DOMAIN holeCardRanges) /\ InOneOnly(combinedRanges)
        /\ \A k \in 1 .. N : Len(combinedRanges[k].players) > 1
                                => Len(combinedRanges[k].combos) <= maxSize
    BY DEF JoinInv, RangesAreSound, JoinsWithinLimit
  <1>3. p[1] \in 1 .. N /\ p[2] \in 1 .. N /\ p[2] < p[1]
    <2>1. p \in Couples
      BY <1>1, BestPairExists DEF JoinInv
    <2> QED BY <2>1, CouplesAre DEF JoinInv
  <1>4. Sound(joined, holeCardRanges) /\ Len(joined.combos) <= maxSize
    <2>1. Sound(joined, holeCardRanges) /\ Len(joined.combos) = JoinSize(p)
      BY <1>2, <1>3, JoinIsSound DEF JoinSize
    <2> QED BY <1>1, <2>1
  <1>5. joined \in RangeType(holeCardRanges)
    BY <1>4 DEF Sound, RangeType
  <1> HIDE DEF p, new
  <1>6. /\ new \in Seq(RangeType(holeCardRanges)) /\ Len(new) = N - 1
        /\ \A k \in 1 .. Len(new) :
              /\ Before(k, p) \in 1 .. N /\ Before(k, p) # p[2]
              /\ new[k] = IF Before(k, p) = p[1] THEN joined ELSE combinedRanges[Before(k, p)]
    <2> HIDE DEF RangeType
    <2> QED BY <1>2, <1>3, <1>5, ReplacedIs DEF new
  <1> HIDE DEF joined
  <1>7. ASSUME NEW k \in 1 .. Len(new)
        PROVE  /\ Sound(new[k], holeCardRanges)
               /\ Len(new[k].players) > 1 => Len(new[k].combos) <= maxSize
    BY <1>2, <1>4, <1>6
  <1>8. RangesAreSound'
    <2>1. ASSUME NEW k \in 1 .. Len(new) PROVE Sound(new[k], holeCardRanges)
      BY <1>7
    <2>2. combinedRanges' \in Seq(RangeType(holeCardRanges'))
      BY <1>1, <1>6
    <2>3. \A k \in 1 .. Len(combinedRanges') : Sound(combinedRanges'[k], holeCardRanges')
      BY <1>1, <2>1
    <2> QED BY <2>2, <2>3 DEF RangesAreSound
  <1>9. JoinsWithinLimit'
    <2>1. ASSUME NEW k \in 1 .. Len(new)
          PROVE  Len(new[k].players) > 1 => Len(new[k].combos) <= maxSize
      BY <1>7
    <2>2. \A k \in 1 .. Len(combinedRanges') :
             Len(combinedRanges'[k].players) > 1 => Len(combinedRanges'[k].combos) <= maxSize'
      BY <1>1, <2>1
    <2> QED BY <2>2 DEF JoinsWithinLimit
  <1>10. PutTogether(new, combinedRanges, p)
    <2>1. N \in Nat
      BY <1>2, LenProperties
    <2>2. \A k \in 1 .. N : combinedRanges[k].players \in Seq(DOMAIN holeCardRanges)
      BY <1>2 DEF Sound
    <2>3. \A k \in 1 .. N : Len(combinedRanges[k].players) \in Nat
      BY <2>2, LenProperties
    <2>4. p[1] - 1 \in 1 .. Len(new) /\ Before(p[1] - 1, p) = p[1]
      BY <1>3, <1>6, <2>1 DEF Before
    <2>5. new[p[1] - 1].players = a \o b
      <3>1. new[p[1] - 1] = joined
        BY <1>6, <2>4
      <3>2. joined.players = a \o b
        BY DEF joined, Join
      <3> QED BY <3>1, <3>2
    <2>6. /\ Len(a \o b) = Len(a) + Len(b)
          /\ \A l \in 1 .. Len(a) + Len(b) :
                (a \o b)[l] = IF l <= Len(a) THEN a[l] ELSE b[l - Len(a)]
      <3>1. a \in Seq(DOMAIN holeCardRanges) /\ b \in Seq(DOMAIN holeCardRanges)
        BY <1>3, <2>2
      <3> HIDE DEF a, b
      <3> QED BY <3>1, ConcatProperties
    <2>7. \A k \in 1 .. Len(new) : Before(k, p) # p[1] =>
              new[k].players = combinedRanges[Before(k, p)].players
      BY <1>6
    <2> QED BY <1>3, <1>6, <2>1, <2>3, <2>5, <2>6, <2>7 DEF PutTogether
  <1>11. InSome(new, DOMAIN holeCardRanges) /\ InOneOnly(new)
    BY <1>2, <1>10, StillInSome, StillInOneOnly
  <1>12. (InSome(combinedRanges, DOMAIN holeCardRanges) /\ InOneOnly(combinedRanges))'
    BY <1>1, <1>11
  <1> QED BY <1>1, <1>8, <1>9, <1>12 DEF JoinInv

LEMMA JoinStops ==
  ASSUME JoinInv, StopJoining
  PROVE  JoinInv'
  <1>1. UNCHANGED <<holeCardRanges, maxSize, combinedRanges>> /\ ~CanJoin
    BY DEF StopJoining
  <1>2. \A p \in Couples : JoinSize(p) > maxSize
    <2> SUFFICES ASSUME NEW p \in Couples PROVE JoinSize(p) > maxSize
        OBVIOUS
    <2>1. /\ JoinSize(BestPair) <= JoinSize(p) /\ BestPair \in Couples
          /\ JoinSize(BestPair) \in Nat /\ JoinSize(p) \in Nat /\ maxSize \in Nat
      BY BestPairExists, JoinSizeIsNat DEF JoinInv
    <2>2. ~(JoinSize(BestPair) <= maxSize)
      BY <1>1 DEF CanJoin, WithinLimit
    <2> DEFINE x == JoinSize(BestPair)
               y == JoinSize(p)
    <2> HIDE DEF x, y
    <2>3. x \in Nat /\ y \in Nat /\ maxSize \in Nat /\ x <= y /\ ~(x <= maxSize)
      BY <2>1, <2>2 DEF x, y
    <2>4. y > maxSize
      BY <2>3
    <2> QED BY <2>4 DEF y
  <1>3. (\A p \in Couples : JoinSize(p) > maxSize)'
    BY <1>1, <1>2 DEF Couples, JoinSize
  <1>4. RangesAreSound' /\ JoinsWithinLimit'
    BY <1>1 DEF JoinInv, RangesAreSound, JoinsWithinLimit
  <1>5. (InSome(combinedRanges, DOMAIN holeCardRanges) /\ InOneOnly(combinedRanges))'
    BY <1>1 DEF JoinInv
  <1> QED BY <1>1, <1>3, <1>4, <1>5 DEF JoinInv

LEMMA NothingJoined == CombinedInit => JoinInv
  <1> SUFFICES ASSUME CombinedInit PROVE JoinInv
      OBVIOUS
  <1>1. /\ holeCardRanges = <<>> /\ combinedRanges = <<>> /\ maxSize = 0
        /\ joining # "done"
    BY DEF CombinedInit
  <1>2. <<>> \in Seq(Ranges) /\ Len(<<>>) = 0 /\ DOMAIN <<>> = {}
    OBVIOUS
  <1>3. combinedRanges \in Seq(RangeType(holeCardRanges)) /\ Len(combinedRanges) = 0
    <2> HIDE DEF RangeType
    <2> QED BY <1>1
  <1>4. RangesAreSound /\ JoinsWithinLimit
    BY <1>3 DEF RangesAreSound, JoinsWithinLimit
  <1>5. InSome(combinedRanges, DOMAIN holeCardRanges) /\ InOneOnly(combinedRanges)
    BY <1>1, <1>2, <1>3 DEF InSome, InOneOnly
  <1>6. Len(holeCardRanges) <= MaxPlayers
    BY <1>1, <1>2, RangesAssumption
  <1> QED BY <1>1, <1>2, <1>4, <1>5, <1>6 DEF JoinInv

\* The combined ranges keep the invariant.
LEMMA JoinInvariant == CombinedSpec => []JoinInv
  <1>1. JoinInv /\ [CombinedNext]_combinedVars => JoinInv'
    <2> SUFFICES ASSUME JoinInv, [CombinedNext]_combinedVars PROVE JoinInv'
        OBVIOUS
    <2>1. ASSUME NEW n \in 1 .. MaxPlayers, NEW limit \in Limits, NEW ranges \in [1 .. n -> Ranges],
                 StartJoining(ranges, limit)
          PROVE  JoinInv'
      BY <2>1, JoinStarts
    <2>2. CASE JoinBest
      BY <2>2, JoinGoesOn
    <2>3. CASE StopJoining
      BY <2>3, JoinStops
    <2>4. CASE UNCHANGED combinedVars
      <3>1. UNCHANGED <<holeCardRanges, maxSize, combinedRanges, joining>>
        BY <2>4 DEF combinedVars
      <3>2. RangesAreSound' /\ JoinsWithinLimit'
        BY <3>1 DEF JoinInv, RangesAreSound, JoinsWithinLimit
      <3>3. (InSome(combinedRanges, DOMAIN holeCardRanges) /\ InOneOnly(combinedRanges))'
        BY <3>1 DEF JoinInv
      <3>4. (joining = "done" => \A p \in Couples : JoinSize(p) > maxSize)'
        BY <3>1 DEF JoinInv, Couples, JoinSize
      <3> QED BY <3>1, <3>2, <3>3, <3>4 DEF JoinInv
    <2> QED BY <2>1, <2>2, <2>3, <2>4 DEF CombinedNext
  <1> QED BY <1>1, NothingJoined, PTL DEF CombinedSpec

-----------------------------------------------------------------------------
LEMMA OneToN == \A n \in Nat : IsFiniteSet(1 .. n) /\ Cardinality(1 .. n) = n
  <1> SUFFICES ASSUME NEW n \in Nat PROVE IsFiniteSet(1 .. n) /\ Cardinality(1 .. n) = n
      OBVIOUS
  <1>1. IsFiniteSet(1 .. n) /\ Cardinality(1 .. n) = IF 1 > n THEN 0 ELSE n - 1 + 1
    BY FS_Interval
  <1> QED BY <1>1

\* A range is not of more players than there are.
LEMMA PlayersFit ==
  ASSUME RangesAreSound, InOneOnly(combinedRanges), holeCardRanges \in Seq(Ranges),
         Len(holeCardRanges) <= MaxPlayers, NEW k \in 1 .. Len(combinedRanges)
  PROVE  /\ combinedRanges[k].players \in Seq(DOMAIN holeCardRanges)
         /\ Len(combinedRanges[k].players) <= MaxPlayers
  <1> DEFINE a == combinedRanges[k].players
             S == 1 .. Len(a)
             T == 1 .. Len(holeCardRanges)
  <1>1. /\ a \in Seq(DOMAIN holeCardRanges) /\ DOMAIN holeCardRanges = T
        /\ Len(holeCardRanges) \in Nat /\ MaxPlayers \in Nat
    BY LenProperties, RangesAssumption DEF RangesAreSound, Sound
  <1>2. \A l, m \in S : a[l] = a[m] => l = m
    BY DEF InOneOnly
  <1> HIDE DEF a
  <1>3. Len(a) \in Nat /\ a \in [S -> T]
    BY <1>1, LenProperties
  <1>4. a \in Injection(S, T)
    BY <1>2, <1>3 DEF Injection, IsInjective
  <1>5. Cardinality(S) <= Cardinality(T)
    BY <1>1, <1>4, FS_Injection, OneToN
  <1>6. Cardinality(S) = Len(a) /\ Cardinality(T) = Len(holeCardRanges)
    BY <1>1, <1>3, OneToN
  <1> QED BY <1>1, <1>3, <1>5, <1>6 DEF a

LEMMA EachPlayerOnce ==
  ASSUME JoinInv, NEW i \in DOMAIN holeCardRanges
  PROVE  Cardinality({p \in {<<k, l>> : k \in DOMAIN combinedRanges, l \in 1 .. MaxPlayers} :
             p[2] \in DOMAIN combinedRanges[p[1]].players
                /\ combinedRanges[p[1]].players[p[2]] = i}) = 1
  <1> DEFINE places == {p \in {<<k, l>> : k \in DOMAIN combinedRanges, l \in 1 .. MaxPlayers} :
             p[2] \in DOMAIN combinedRanges[p[1]].players
                /\ combinedRanges[p[1]].players[p[2]] = i}
             N == Len(combinedRanges)
  <1>1. DOMAIN combinedRanges = 1 .. N
    BY LenProperties DEF JoinInv, RangesAreSound
  <1>2. ASSUME NEW k \in 1 .. N
        PROVE  /\ DOMAIN combinedRanges[k].players = 1 .. Len(combinedRanges[k].players)
               /\ Len(combinedRanges[k].players) \in Nat
               /\ Len(combinedRanges[k].players) <= MaxPlayers
    <2>1. /\ combinedRanges[k].players \in Seq(DOMAIN holeCardRanges)
          /\ Len(combinedRanges[k].players) <= MaxPlayers
      BY PlayersFit DEF JoinInv
    <2> QED BY <2>1, LenProperties
  <1>3a. PICK k \in 1 .. N : \E l \in 1 .. Len(combinedRanges[k].players) :
             combinedRanges[k].players[l] = i
    BY DEF JoinInv, InSome
  <1>3. PICK l \in 1 .. Len(combinedRanges[k].players) : combinedRanges[k].players[l] = i
    BY <1>3a
  <1>4. l \in 1 .. MaxPlayers
    BY <1>2, <1>3, RangesAssumption
  <1>5. <<k, l>> \in places
    BY <1>1, <1>2, <1>3, <1>4
  <1>6. ASSUME NEW p \in places PROVE p = <<k, l>>
    <2>1. PICK m \in 1 .. N, n \in 1 .. MaxPlayers : p = <<m, n>>
      BY <1>1
    <2>2. n \in DOMAIN combinedRanges[m].players /\ combinedRanges[m].players[n] = i
      BY <2>1
    <2>3. n \in 1 .. Len(combinedRanges[m].players)
      BY <1>2, <2>2
    <2>4. m = k /\ n = l
      <3>1. InOneOnly(combinedRanges) /\ m \in 1 .. Len(combinedRanges)
        BY DEF JoinInv
      <3>2. combinedRanges[k].players[l] = combinedRanges[m].players[n]
        BY <1>3, <2>2
      <3>3. k \in 1 .. Len(combinedRanges) /\ l \in 1 .. Len(combinedRanges[k].players)
        OBVIOUS
      <3> QED BY ONLY <3>1, <3>2, <3>3, <2>3 DEF InOneOnly
    <2> QED BY <2>1, <2>4
  <1>7. places = {<<k, l>>}
    BY <1>5, <1>6
  <1> HIDE DEF places
  <1>8. Cardinality(places) = 1
    BY <1>7, FS_Singleton
  <1> QED BY <1>8 DEF places

LEMMA SoundHoldings ==
  ASSUME JoinInv, NEW k \in DOMAIN combinedRanges
  PROVE  LET r == combinedRanges[k]
             holdings == [c \in DOMAIN r.combos |-> r.combos[c].holeCards]
         IN  /\ ToSet(holdings) = Deals(r.players) /\ IsInjective(holdings)
             /\ Len(r.players) > 1 => Len(r.combos) <= maxSize
  <1> DEFINE r == combinedRanges[k]
             C == r.combos
             holdings == [c \in DOMAIN C |-> C[c].holeCards]
  <1>1. k \in 1 .. Len(combinedRanges)
    BY LenProperties DEF JoinInv, RangesAreSound
  <1>2. Sound(r, holeCardRanges) /\ (Len(r.players) > 1 => Len(C) <= maxSize)
    BY <1>1 DEF JoinInv, RangesAreSound, JoinsWithinLimit
  <1> HIDE DEF r
  <1>3. DOMAIN C = 1 .. Len(C) /\ r.players \in Seq(DOMAIN holeCardRanges)
    BY <1>2, LenProperties DEF Sound
  <1>4. /\ \A c \in DOMAIN C : IsDeal(C[c].holeCards, r.players, holeCardRanges)
        /\ \A d : IsDeal(d, r.players, holeCardRanges) => \E c \in DOMAIN C : C[c].holeCards = d
        /\ \A c, e \in DOMAIN C : C[c].holeCards = C[e].holeCards => c = e
    BY <1>2, <1>3 DEF Sound
  <1> HIDE DEF C
  <1>5. \A d : d \in Deals(r.players) <=> IsDeal(d, r.players, holeCardRanges)
    BY <1>3, DealsAre
  <1>6. \A d : d \in ToSet(holdings) <=> \E c \in DOMAIN C : C[c].holeCards = d
    BY DEF ToSet
  <1>7. ToSet(holdings) = Deals(r.players)
    <2> DEFINE X == ToSet(holdings)
               Y == Deals(r.players)
    <2>1. ASSUME NEW d \in X PROVE d \in Y
      <3>1. PICK c \in DOMAIN C : C[c].holeCards = d
        BY <1>6
      <3>2. IsDeal(d, r.players, holeCardRanges)
        BY <1>4, <3>1
      <3> QED BY <1>5, <3>2
    <2>2. ASSUME NEW d \in Y PROVE d \in X
      <3>1. IsDeal(d, r.players, holeCardRanges)
        BY <1>5
      <3>2. \E c \in DOMAIN C : C[c].holeCards = d
        BY <1>4, <3>1
      <3> QED BY <1>6, <3>2
    <2> HIDE DEF X, Y
    <2>3. X = Y
      BY <2>1, <2>2
    <2> QED BY <2>3 DEF X, Y
  <1>8. IsInjective(holdings)
    BY <1>4 DEF IsInjective
  <1> QED BY <1>2, <1>7, <1>8 DEF r, C

(***************************************************************************)
(* CombinedRange::joinRanges, for any ranges and any limit: each player is *)
(* in one combined range, a combined range has the deals its players can   *)
(* hold together, each once, a joined one is within the limit and no two   *)
(* that are left could be joined within it.                                *)
(***************************************************************************)
THEOREM JoinsHoldDeals == CombinedSpec => []JoinsAreDeals
  <1>1. JoinInv => JoinsAreDeals
    <2> SUFFICES ASSUME JoinInv PROVE JoinsAreDeals
        OBVIOUS
    <2>1. joining = "done" => \A p \in Couples : JoinSize(p) > maxSize
      BY DEF JoinInv
    <2> QED BY <2>1, EachPlayerOnce, SoundHoldings DEF JoinsAreDeals
  <1> QED BY <1>1, JoinInvariant, PTL

(***************************************************************************)
(* The assertion of CombinedRange::join: two ranges that are joined are of *)
(* MAX_PLAYERS at most together.                                           *)
(***************************************************************************)
JoinIsInRoom ==
    \A p \in Couples :
        Len(combinedRanges[p[1]].players) + Len(combinedRanges[p[2]].players) <= MaxPlayers

THEOREM JoinsAreInRoom == CombinedSpec => []JoinIsInRoom
  <1>1. JoinInv => JoinIsInRoom
    <2> SUFFICES ASSUME JoinInv, NEW p \in Couples
                 PROVE  Len(combinedRanges[p[1]].players) + Len(combinedRanges[p[2]].players)
                           <= MaxPlayers
        BY DEF JoinIsInRoom
    <2> DEFINE a == combinedRanges[p[1]].players
               b == combinedRanges[p[2]].players
               both == a \o b
               S == 1 .. Len(both)
               T == 1 .. Len(holeCardRanges)
    <2>1. /\ p[1] \in 1 .. Len(combinedRanges) /\ p[2] \in 1 .. Len(combinedRanges)
          /\ p[1] # p[2]
      <3>1. /\ p \in (1 .. Len(combinedRanges)) \X (1 .. Len(combinedRanges))
            /\ p[2] < p[1]
        BY CouplesAre DEF JoinInv
      <3> QED BY <3>1
    <2>2. /\ a \in Seq(DOMAIN holeCardRanges) /\ b \in Seq(DOMAIN holeCardRanges)
          /\ DOMAIN holeCardRanges = T
          /\ Len(holeCardRanges) \in Nat /\ Len(holeCardRanges) <= MaxPlayers
      BY <2>1, PlayersFit, LenProperties DEF JoinInv
    <2>3. /\ \A l, m \in 1 .. Len(a) : a[l] = a[m] => l = m
          /\ \A l, m \in 1 .. Len(b) : b[l] = b[m] => l = m
          /\ \A l \in 1 .. Len(a) : \A m \in 1 .. Len(b) : a[l] # b[m]
      <3>1. ASSUME NEW l \in 1 .. Len(a), NEW m \in 1 .. Len(a), a[l] = a[m] PROVE l = m
        BY <2>1, <3>1 DEF JoinInv, InOneOnly
      <3>2. ASSUME NEW l \in 1 .. Len(b), NEW m \in 1 .. Len(b), b[l] = b[m] PROVE l = m
        BY <2>1, <3>2 DEF JoinInv, InOneOnly
      <3>3. ASSUME NEW l \in 1 .. Len(a), NEW m \in 1 .. Len(b), a[l] = b[m] PROVE p[1] = p[2]
        <4>1. ASSUME NEW k \in 1 .. Len(combinedRanges), NEW e \in 1 .. Len(combinedRanges),
                     NEW x \in 1 .. Len(combinedRanges[k].players),
                     NEW y \in 1 .. Len(combinedRanges[e].players),
                     combinedRanges[k].players[x] = combinedRanges[e].players[y]
              PROVE  k = e
          BY <4>1 DEF JoinInv, InOneOnly
        <4> DEFINE c == p[1]
                   d == p[2]
        <4>2. /\ c \in 1 .. Len(combinedRanges) /\ d \in 1 .. Len(combinedRanges)
              /\ l \in 1 .. Len(combinedRanges[c].players)
              /\ m \in 1 .. Len(combinedRanges[d].players)
              /\ combinedRanges[c].players[l] = combinedRanges[d].players[m]
          BY <2>1, <3>3
        <4> HIDE DEF c, d
        <4>3. c = d
          BY <4>1, <4>2
        <4> QED BY <4>3 DEF c, d
      <3> HIDE DEF a, b
      <3> QED BY <2>1, <3>1, <3>2, <3>3
    <2> HIDE DEF a, b
    <2>4. /\ both \in Seq(T) /\ Len(both) = Len(a) + Len(b)
          /\ Len(a) \in Nat /\ Len(b) \in Nat
          /\ \A l \in S : both[l] = IF l <= Len(a) THEN a[l] ELSE b[l - Len(a)]
      BY <2>2, ConcatProperties, LenProperties
    <2> HIDE DEF both
    <2>5. both \in [S -> T]
      BY <2>4, LenProperties
    <2>6. ASSUME NEW l \in S, NEW m \in S, both[l] = both[m] PROVE l = m
      <3>1. CASE l <= Len(a) /\ m <= Len(a)
        <4>1. l \in 1 .. Len(a) /\ m \in 1 .. Len(a)
          BY <2>4, <3>1
        <4>2. a[l] = a[m]
          BY <2>4, <2>6, <3>1
        <4> QED BY <2>3, <4>1, <4>2
      <3>2. CASE l > Len(a) /\ m > Len(a)
        <4>1. l - Len(a) \in 1 .. Len(b) /\ m - Len(a) \in 1 .. Len(b)
          BY <2>4, <3>2
        <4>2. b[l - Len(a)] = b[m - Len(a)]
          BY <2>4, <2>6, <3>2
        <4>3. l - Len(a) = m - Len(a)
          BY <2>3, <4>1, <4>2
        <4> QED BY <2>4, <4>3
      <3>3. CASE l <= Len(a) /\ m > Len(a)
        <4>1. l \in 1 .. Len(a) /\ m - Len(a) \in 1 .. Len(b)
          BY <2>4, <3>3
        <4>2. a[l] = b[m - Len(a)]
          BY <2>4, <2>6, <3>3
        <4> QED BY <2>3, <4>1, <4>2
      <3>4. CASE l > Len(a) /\ m <= Len(a)
        <4>1. m \in 1 .. Len(a) /\ l - Len(a) \in 1 .. Len(b)
          BY <2>4, <3>4
        <4>2. a[m] = b[l - Len(a)]
          BY <2>4, <2>6, <3>4
        <4> QED BY <2>3, <4>1, <4>2
      <3> QED BY <2>4, <3>1, <3>2, <3>3, <3>4
    <2>7. both \in Injection(S, T)
      BY <2>5, <2>6 DEF Injection, IsInjective
    <2>8. Cardinality(S) <= Cardinality(T)
      BY <2>2, <2>7, FS_Injection, OneToN
    <2>9. Cardinality(S) = Len(both) /\ Cardinality(T) = Len(holeCardRanges)
      <3>1. Len(both) \in Nat
        BY <2>4
      <3> QED BY <2>2, <3>1, OneToN
    <2>10. Len(a) + Len(b) <= MaxPlayers
      BY <2>2, <2>4, <2>8, <2>9, RangesAssumption
    <2> QED BY <2>10 DEF a, b
  <1> QED BY <1>1, JoinInvariant, PTL


-----------------------------------------------------------------------------
\* The sums of the properties of Hand, as what the operator of the community
\* modules stands for.
KeyOf(T) ==
    (CHOOSE iter : iter =
        [s \in SUBSET T |->
            IF s = {} THEN 0
            ELSE RANKS((CHOOSE x \in s : TRUE)[1]) + iter[s \ {CHOOSE x \in s : TRUE}]])[T]

FlushSum(T) ==
    (CHOOSE iter : iter =
        [s \in SUBSET T |->
            IF s = {} THEN 0
            ELSE FLUSH_RANKS(CHOOSE x \in s : TRUE) + iter[s \ {CHOOSE x \in s : TRUE}]])[T]

Multiplier == [c \in Deck |-> RANKS(c[1])]

\* HandIsItsCards, part by part, and what it takes for granted.
HeldOf(T, s) == {c \in T : c[2] = s}

HandFacts(h, C) ==
    /\ h.count = Cardinality(C) /\ h.count <= 7
    /\ h.key = KeyOf(C)
    /\ h.key \in 0 .. 7 * RANKS(12)
    /\ \A s \in Suit : /\ h.suits[s] = 3 + Cardinality(HeldOf(C, s))
                       /\ h.suits[s] < 16
                       /\ h.mask[3 - s] = {c[1] : c \in HeldOf(C, s)}

HandTypes ==
    /\ cards \in SUBSET Deck
    /\ hand \in [key : Int, count : Int, suits : [Suit -> Int],
                 mask : [Suit -> SUBSET Rank]]

LEMMA HandFactsAre ==
  /\ HandIsItsCards <=> HandFacts(hand, cards)
  /\ HandIsItsCards' <=> HandFacts(hand', cards')
  BY DEF HandIsItsCards, HandFacts, Held, HeldOf, KeyOf, MapThenSumSet, MapThenFoldSet

LEMMA CardIsPair ==
  ASSUME NEW c \in Deck
  PROVE  c = <<c[1], c[2]>> /\ c[1] \in Rank /\ c[2] \in Suit
  BY DeckAssumption DEF Rank, Suit

\* The greatest multiplier is the last one.
LEMMA MultiplierValues ==
  /\ RANKS(0) = 8192 /\ RANKS(1) = 32769 /\ RANKS(2) = 69632 /\ RANKS(3) = 237568
  /\ RANKS(4) = 593920 /\ RANKS(5) = 1531909 /\ RANKS(6) = 3563520
  /\ RANKS(7) = 4300819 /\ RANKS(8) = 4685870 /\ RANKS(9) = 4690024
  /\ RANKS(10) = 4767972 /\ RANKS(11) = 4780561 /\ RANKS(12) = 4801683
  BY SMT DEF RANKS, RankMultipliers

LEMMA MultiplierRange ==
  ASSUME NEW r \in Rank
  PROVE  RANKS(r) \in 0 .. RANKS(12) /\ RANKS(12) \in Nat
  <1>1. r \in 0 .. 12
    BY DeckAssumption DEF Rank
  <1>2. r \in {0, 1, 2, 3, 4, 5, 6, 7, 8, 9, 10, 11, 12}
    BY <1>1
  <1> QED BY <1>2, MultiplierValues, SMT

LEMMA DeckFinite == IsFiniteSet(Deck)
  <1> DEFINE m == RANK_COUNT - 1
  <1>1. m \in Int /\ 0 \in Int /\ 3 \in Int
    BY DeckAssumption
  <1>2. Deck \in SUBSET ((0 .. m) \X (0 .. 3))
    BY DeckAssumption
  <1> HIDE DEF m
  <1>3. IsFiniteSet(0 .. m)
    BY <1>1, FS_Interval
  <1>4. IsFiniteSet(0 .. 3)
    BY <1>1, FS_Interval
  <1>5. IsFiniteSet((0 .. m) \X (0 .. 3))
    BY <1>3, <1>4, FS_Product
  <1> QED BY <1>2, <1>5, FS_Subset

LEMMA MultiplierType == Multiplier \in [Deck -> 0 .. RANKS(12)] /\ RANKS(12) \in Nat
  <1>1. \A c \in Deck : RANKS(c[1]) \in 0 .. RANKS(12)
    BY CardIsPair, MultiplierRange
  <1>2. 0 \in Rank
    BY DeckAssumption DEF Rank
  <1> QED BY <1>1, <1>2, MultiplierRange DEF Multiplier

LEMMA KeyIsSum ==
  ASSUME NEW T \in SUBSET Deck, NEW f, IsSum(f, Multiplier, Deck)
  PROVE  KeyOf(T) = f[T]
  <1> DEFINE w == [c \in T |-> Multiplier[c]]
             IsOne(g) == g =
        [s \in SUBSET T |->
            IF s = {} THEN 0
            ELSE RANKS((CHOOSE x \in s : TRUE)[1]) + g[s \ {CHOOSE x \in s : TRUE}]]
             it == CHOOSE g : IsOne(g)
  <1>1. w \in [T -> Int] /\ IsFiniteSet(T)
    BY MultiplierType, DeckFinite, FS_Subset
  <1>2. ASSUME NEW g PROVE IsOne(g) <=> IsSum(g, w, T)
    <2>1. \A s \in SUBSET T : s # {} => OneOf(s) \in T
      BY <1>1, OneOut
    <2>2. \A s \in SUBSET T : s # {} => w[OneOf(s)] = RANKS(OneOf(s)[1])
      BY <2>1 DEF Multiplier
    <2>3. [s \in SUBSET T |->
             IF s = {} THEN 0 ELSE RANKS(OneOf(s)[1]) + g[s \ {OneOf(s)}]]
          = [s \in SUBSET T |->
             IF s = {} THEN 0 ELSE w[OneOf(s)] + g[s \ {OneOf(s)}]]
      <3> HIDE DEF w
      <3> QED BY <2>2
    <2> HIDE DEF w
    <2> QED BY <2>3 DEF IsSum, OneOf
  <1>3. \E g : IsOne(g)
    <2> HIDE DEF IsOne, w
    <2> QED BY <1>1, <1>2, SumExists
  <1>4. IsOne(it)
    <2> HIDE DEF IsOne
    <2> QED BY <1>3
  <1>5. KeyOf(T) = it[T]
    BY DEF KeyOf
  <1>6. \A q \in T : w[q] = Multiplier[q]
    OBVIOUS
  <1> HIDE DEF IsOne, it, w
  <1>7. IsSum(it, w, T)
    BY <1>2, <1>4
  <1>8. it[T] = f[T]
    BY <1>6, <1>7, DeckFinite, SumsAgree
  <1> QED BY <1>5, <1>8

\* The key of no cards, of one more, of one less, and its bounds.
LEMMA KeyArithmetic ==
  /\ KeyOf({}) = 0
  /\ \A T \in SUBSET Deck :
        /\ KeyOf(T) \in 0 .. Cardinality(T) * RANKS(12)
        /\ \A c \in Deck \ T : KeyOf(T \cup {c}) = KeyOf(T) + RANKS(c[1])
        /\ \A c \in T : KeyOf(T \ {c}) = KeyOf(T) - RANKS(c[1])
  <1>1. Multiplier \in [Deck -> Int]
    BY MultiplierType
  <1>2. PICK f \in [SUBSET Deck -> Int] : IsSum(f, Multiplier, Deck)
    BY <1>1, DeckFinite, SumExists
  <1>3. KeyOf({}) = 0
    <2>1. KeyOf({}) = f[{}]
      BY <1>2, KeyIsSum
    <2>2. f[{}] = 0
      BY <1>2 DEF IsSum
    <2> QED BY <2>1, <2>2
  <1>4. ASSUME NEW T \in SUBSET Deck
        PROVE  KeyOf(T) \in 0 .. Cardinality(T) * RANKS(12)
    <2>1. f[T] \in 0 .. Cardinality(T) * RANKS(12)
      BY <1>2, DeckFinite, MultiplierType, SumBound
    <2> QED BY <2>1, <1>2, KeyIsSum
  <1>5. ASSUME NEW T \in SUBSET Deck, NEW c \in T
        PROVE  KeyOf(T) = RANKS(c[1]) + KeyOf(T \ {c})
    <2>1. f[T] = Multiplier[c] + f[T \ {c}]
      BY <1>1, <1>2, DeckFinite, SumTakes
    <2>2. Multiplier[c] = RANKS(c[1])
      BY DEF Multiplier
    <2>3. KeyOf(T) = f[T] /\ KeyOf(T \ {c}) = f[T \ {c}]
      BY <1>2, KeyIsSum
    <2> QED BY <2>1, <2>2, <2>3
  <1>a. \A T \in SUBSET Deck : KeyOf(T) \in Int
    BY <1>2, KeyIsSum
  <1>b. \A c \in Deck : RANKS(c[1]) \in Int
    BY CardIsPair, MultiplierRange
  <1>6. ASSUME NEW T \in SUBSET Deck, NEW c \in Deck \ T
        PROVE  KeyOf(T \cup {c}) = KeyOf(T) + RANKS(c[1])
    <2> DEFINE U == T \cup {c}
    <2>1. U \in SUBSET Deck /\ c \in U /\ U \ {c} = T
      OBVIOUS
    <2> HIDE DEF U
    <2>2. KeyOf(U) = RANKS(c[1]) + KeyOf(T)
      BY <1>5, <2>1
    <2>3. KeyOf(U) = KeyOf(T) + RANKS(c[1])
      BY <1>a, <1>b, <2>2
    <2> QED BY <2>3 DEF U
  <1>7. ASSUME NEW T \in SUBSET Deck, NEW c \in T
        PROVE  KeyOf(T \ {c}) = KeyOf(T) - RANKS(c[1])
    <2>1. KeyOf(T) = RANKS(c[1]) + KeyOf(T \ {c})
      BY <1>5
    <2>2. KeyOf(T) \in Int /\ KeyOf(T \ {c}) \in Int /\ RANKS(c[1]) \in Int
      BY <1>a, <1>b
    <2> QED BY <2>1, <2>2
  <1> QED BY <1>3, <1>4, <1>6, <1>7

-----------------------------------------------------------------------------
\* What a card changes of the cards of a suit.
LEMMA CardAdded ==
  ASSUME NEW T \in SUBSET Deck, NEW c \in Deck \ T, NEW s \in Suit,
         NEW U, U = T \cup {c}
  PROVE  /\ IsFiniteSet(HeldOf(T, s)) /\ Cardinality(HeldOf(T, s)) \in 0 .. Cardinality(T)
         /\ IsFiniteSet(T) /\ Cardinality(T) \in Nat
         /\ Cardinality(U) = Cardinality(T) + 1
         /\ s = c[2] => /\ HeldOf(U, s) = HeldOf(T, s) \cup {c}
                        /\ Cardinality(HeldOf(U, s)) = Cardinality(HeldOf(T, s)) + 1
         /\ s # c[2] => HeldOf(U, s) = HeldOf(T, s)
  <1>1. IsFiniteSet(T) /\ Cardinality(T) \in Nat
    BY DeckFinite, FS_Subset, FS_CardinalityType
  <1>2. HeldOf(T, s) \in SUBSET T
    BY DEF HeldOf
  <1>3. /\ IsFiniteSet(HeldOf(T, s)) /\ Cardinality(HeldOf(T, s)) \in Nat
        /\ Cardinality(HeldOf(T, s)) <= Cardinality(T)
    BY <1>1, <1>2, FS_Subset, FS_CardinalityType
  <1>4. c \notin HeldOf(T, s) /\ c \notin T
    BY <1>2
  <1>5. Cardinality(U) = Cardinality(T) + 1
    BY <1>1, <1>4, FS_AddElement
  <1>6. s = c[2] => HeldOf(U, s) = HeldOf(T, s) \cup {c}
    BY DEF HeldOf
  <1>7. s # c[2] => HeldOf(U, s) = HeldOf(T, s)
    BY DEF HeldOf
  <1>8. Cardinality(HeldOf(T, s) \cup {c}) = Cardinality(HeldOf(T, s)) + 1
    BY <1>3, <1>4, FS_AddElement
  <1> QED BY <1>1, <1>3, <1>5, <1>6, <1>7, <1>8

LEMMA AddingKeepsFacts ==
  ASSUME NEW C \in SUBSET Deck, NEW c \in Deck \ C,
         NEW h \in [key : Int, count : Int, suits : [Suit -> Int],
                    mask : [Suit -> SUBSET Rank]],
         HandFacts(h, C), h.count < 7
  PROVE  /\ HandFacts(Plus(h, CARDS(c)), C \cup {c})
         /\ Plus(h, CARDS(c)) \in [key : Int, count : Int, suits : [Suit -> Int],
                                   mask : [Suit -> SUBSET Rank]]
  <1> DEFINE n == Plus(h, CARDS(c))
             D == C \cup {c}
  <1>a. c[1] \in Rank /\ c[2] \in Suit /\ D \in SUBSET Deck
    BY CardIsPair
  <1>b. RANKS(c[1]) \in 0 .. RANKS(12)
    BY <1>a, MultiplierRange
  <1>c. RANKS(12) \in Nat
    BY MultiplierType
  <1>1. /\ n.key = h.key + RANKS(c[1]) /\ n.count = h.count + 1
        /\ \A s \in Suit : n.suits[s] = h.suits[s] + (IF s = c[2] THEN 1 ELSE 0)
        /\ \A g \in Suit : n.mask[g] = h.mask[g] \cup (IF g = 3 - c[2] THEN {c[1]} ELSE {})
    BY DEF Plus, CARDS
  <1>2. n \in [key : Int, count : Int, suits : [Suit -> Int],
               mask : [Suit -> SUBSET Rank]]
    BY <1>a, <1>b DEF Plus, CARDS
  <1>3. Cardinality(D) = Cardinality(C) + 1 /\ Cardinality(C) \in Nat
    BY <1>a, CardAdded
  <1>4. KeyOf(D) = KeyOf(C) + RANKS(c[1]) /\ KeyOf(D) \in 0 .. Cardinality(D) * RANKS(12)
    BY <1>a, KeyArithmetic
  <1>e. D = C \cup {c}
    OBVIOUS
  <1> HIDE DEF n, D
  <1>d. ASSUME NEW s \in Suit
        PROVE  /\ Cardinality(HeldOf(C, s)) \in 0 .. Cardinality(C)
               /\ s = c[2] => /\ HeldOf(D, s) = HeldOf(C, s) \cup {c}
                              /\ Cardinality(HeldOf(D, s)) = Cardinality(HeldOf(C, s)) + 1
               /\ s # c[2] => HeldOf(D, s) = HeldOf(C, s)
    <2>1. Cardinality(HeldOf(C, s)) \in 0 .. Cardinality(C)
      BY <1>e, CardAdded
    <2>2. s # c[2] => HeldOf(D, s) = HeldOf(C, s)
      BY <1>e, CardAdded
    <2>3. s = c[2] => Cardinality(HeldOf(D, s)) = Cardinality(HeldOf(C, s)) + 1
      BY <1>e, CardAdded
    <2>4. s = c[2] => HeldOf(D, s) = HeldOf(C, s) \cup {c}
      BY <1>e, CardAdded
    <2> QED BY <2>1, <2>2, <2>3, <2>4
  <1>5. n.count = Cardinality(D) /\ n.count <= 7 /\ n.key = KeyOf(D)
    BY <1>1, <1>3, <1>4 DEF HandFacts
  <1>6. n.key \in 0 .. 7 * RANKS(12)
    BY <1>c, <1>3, <1>4, <1>5
  <1>7. ASSUME NEW s \in Suit
        PROVE  /\ n.suits[s] = 3 + Cardinality(HeldOf(D, s))
               /\ n.suits[s] < 16
               /\ n.mask[3 - s] = {d[1] : d \in HeldOf(D, s)}
    <2>1. /\ h.suits[s] = 3 + Cardinality(HeldOf(C, s))
          /\ h.mask[3 - s] = {d[1] : d \in HeldOf(C, s)}
          /\ Cardinality(C) < 7
      BY DEF HandFacts
    <2>2. /\ Cardinality(HeldOf(C, s)) \in 0 .. Cardinality(C)
          /\ s = c[2] => /\ HeldOf(D, s) = HeldOf(C, s) \cup {c}
                         /\ Cardinality(HeldOf(D, s)) = Cardinality(HeldOf(C, s)) + 1
          /\ s # c[2] => HeldOf(D, s) = HeldOf(C, s)
      BY <1>d
    <2>3. 3 - s \in Suit /\ (3 - s = 3 - c[2] <=> s = c[2])
      BY <1>a DEF Suit
    <2>4. n.suits[s] = 3 + Cardinality(HeldOf(D, s)) /\ n.suits[s] < 16
      BY <1>1, <1>3, <2>1, <2>2
    <2>5. n.mask[3 - s] = {d[1] : d \in HeldOf(D, s)}
      <3>1. CASE s = c[2]
        <4>1. n.mask[3 - s] = h.mask[3 - s] \cup {c[1]}
          BY <1>1, <2>3, <3>1
        <4>2. HeldOf(D, s) = HeldOf(C, s) \cup {c}
          BY <2>2, <3>1
        <4> QED BY <2>1, <4>1, <4>2
      <3>2. CASE s # c[2]
        <4>a. n.mask[3 - s] = h.mask[3 - s] \cup {}
          BY <1>1, <2>3, <3>2
        <4>1. n.mask[3 - s] = h.mask[3 - s]
          BY <4>a
        <4> QED BY <2>1, <2>2, <3>2, <4>1
      <3> QED BY <3>1, <3>2
    <2> QED BY <2>4, <2>5
  <1>8. HandFacts(n, D)
    BY <1>5, <1>6, <1>7 DEF HandFacts
  <1> QED BY <1>2, <1>8 DEF n, D

LEMMA RemovingKeepsFacts ==
  ASSUME NEW C \in SUBSET Deck, NEW c \in C,
         NEW h \in [key : Int, count : Int, suits : [Suit -> Int],
                    mask : [Suit -> SUBSET Rank]],
         HandFacts(h, C)
  PROVE  /\ HandFacts(Minus(h, CARDS(c)), C \ {c})
         /\ Minus(h, CARDS(c)) \in [key : Int, count : Int, suits : [Suit -> Int],
                                    mask : [Suit -> SUBSET Rank]]
  <1> DEFINE n == Minus(h, CARDS(c))
             D == C \ {c}
  <1>a. c[1] \in Rank /\ c[2] \in Suit /\ D \in SUBSET Deck /\ c \in Deck \ D
        /\ D \cup {c} = C
    BY CardIsPair
  <1>b. RANKS(c[1]) \in 0 .. RANKS(12)
    BY <1>a, MultiplierRange
  <1>c. RANKS(12) \in Nat
    BY MultiplierType
  <1>1. /\ n.key = h.key - RANKS(c[1]) /\ n.count = h.count - 1
        /\ \A s \in Suit : n.suits[s] = h.suits[s] - (IF s = c[2] THEN 1 ELSE 0)
        /\ \A g \in Suit : n.mask[g] = h.mask[g] \ (IF g = 3 - c[2] THEN {c[1]} ELSE {})
    BY DEF Minus, CARDS
  <1>2. n \in [key : Int, count : Int, suits : [Suit -> Int],
               mask : [Suit -> SUBSET Rank]]
    BY <1>a, <1>b DEF Minus, CARDS
  <1>4. KeyOf(D) = KeyOf(C) - RANKS(c[1]) /\ KeyOf(D) \in 0 .. Cardinality(D) * RANKS(12)
    BY <1>a, KeyArithmetic
  <1> HIDE DEF n, D
  <1>3. Cardinality(C) = Cardinality(D) + 1 /\ Cardinality(D) \in Nat
    BY <1>a, CardAdded
  <1>5. n.count = Cardinality(D) /\ n.count <= 7 /\ n.key = KeyOf(D)
    BY <1>1, <1>3, <1>4 DEF HandFacts
  <1>6. n.key \in 0 .. 7 * RANKS(12)
    BY <1>c, <1>3, <1>4, <1>5
  <1>7. ASSUME NEW s \in Suit
        PROVE  /\ n.suits[s] = 3 + Cardinality(HeldOf(D, s))
               /\ n.suits[s] < 16
               /\ n.mask[3 - s] = {d[1] : d \in HeldOf(D, s)}
    <2>1. /\ h.suits[s] = 3 + Cardinality(HeldOf(C, s)) /\ h.suits[s] < 16
          /\ h.mask[3 - s] = {d[1] : d \in HeldOf(C, s)}
      BY DEF HandFacts
    <2>2. /\ Cardinality(HeldOf(D, s)) \in Nat
          /\ s = c[2] => /\ HeldOf(C, s) = HeldOf(D, s) \cup {c}
                         /\ Cardinality(HeldOf(C, s)) = Cardinality(HeldOf(D, s)) + 1
          /\ s # c[2] => HeldOf(C, s) = HeldOf(D, s)
      BY <1>a, <1>3, CardAdded
    <2>3. 3 - s \in Suit /\ (3 - s = 3 - c[2] <=> s = c[2])
      BY <1>a DEF Suit
    <2>4. n.suits[s] = 3 + Cardinality(HeldOf(D, s)) /\ n.suits[s] < 16
      BY <1>1, <2>1, <2>2
    <2>5. n.mask[3 - s] = {d[1] : d \in HeldOf(D, s)}
      <3>1. CASE s = c[2]
        <4>1. n.mask[3 - s] = h.mask[3 - s] \ {c[1]}
          BY <1>1, <2>3, <3>1
        <4>2. HeldOf(C, s) = HeldOf(D, s) \cup {c}
          BY <2>2, <3>1
        <4>3. \A d \in HeldOf(D, s) : d[1] # c[1]
          <5>1. ASSUME NEW d \in HeldOf(D, s), d[1] = c[1] PROVE FALSE
            <6>1. d \in D /\ d[2] = c[2] /\ d \in Deck
              BY <1>a, <3>1 DEF HeldOf
            <6>2. d = <<d[1], d[2]>> /\ c = <<c[1], c[2]>>
              BY <1>a, <6>1, CardIsPair
            <6>3. d = c
              BY <5>1, <6>1, <6>2
            <6> QED BY <1>a, <6>1, <6>3
          <5> QED BY <5>1
        <4> QED BY <2>1, <4>1, <4>2, <4>3
      <3>2. CASE s # c[2]
        <4>a. n.mask[3 - s] = h.mask[3 - s] \ {}
          BY <1>1, <2>3, <3>2
        <4>1. n.mask[3 - s] = h.mask[3 - s]
          BY <4>a
        <4> QED BY <2>1, <2>2, <3>2, <4>1
      <3> QED BY <3>1, <3>2
    <2> QED BY <2>4, <2>5
  <1>8. HandFacts(n, D)
    BY <1>5, <1>6, <1>7 DEF HandFacts
  <1> QED BY <1>2, <1>8 DEF n, D

(***************************************************************************)
(* The inductive invariant: HandIsItsCards and the types.                  *)
(***************************************************************************)
HandInv == HandTypes /\ HandIsItsCards

LEMMA HandInvInit == HandInit => HandInv
  <1> SUFFICES ASSUME HandInit PROVE HandInv
      OBVIOUS
  <1>1. HandTypes
    BY DEF HandInit, HandTypes, EMPTY, Rank
  <1>2. \A s \in Suit : HeldOf({}, s) = {} /\ Cardinality(HeldOf({}, s)) = 0
    BY FS_EmptySet DEF HeldOf
  <1>3. Cardinality({}) = 0 /\ KeyOf({}) = 0 /\ RANKS(12) \in Nat
    BY FS_EmptySet, KeyArithmetic, MultiplierType
  <1>4. \A s \in Suit : 3 - s \in Suit /\ EMPTY.suits[s] = 3 /\ EMPTY.mask[3 - s] = {}
    BY DEF EMPTY, Suit
  <1>5. EMPTY.key = 0 /\ EMPTY.count = 0
    BY DEF EMPTY
  <1>6. HandFacts(EMPTY, {})
    BY <1>2, <1>3, <1>4, <1>5 DEF HandFacts
  <1>7. HandIsItsCards
    BY <1>6, HandFactsAre DEF HandInit
  <1> QED BY <1>1, <1>7 DEF HandInv

LEMMA HandInvStep == HandInv /\ [HandNext]_handVars => HandInv'
  <1> SUFFICES ASSUME HandInv, [HandNext]_handVars PROVE HandInv'
      OBVIOUS
  <1>1. /\ cards \in SUBSET Deck
        /\ hand \in [key : Int, count : Int, suits : [Suit -> Int],
                     mask : [Suit -> SUBSET Rank]]
        /\ HandFacts(hand, cards)
    BY HandFactsAre DEF HandInv, HandTypes
  <1>2. ASSUME NEW c \in Deck, AddCard(c) PROVE HandInv'
    <2>1. HandFacts(hand', cards')
      BY <1>1, <1>2, AddingKeepsFacts DEF AddCard
    <2>2. HandTypes'
      BY <1>1, <1>2, AddingKeepsFacts DEF AddCard, HandTypes
    <2> QED BY <2>1, <2>2, HandFactsAre DEF HandInv
  <1>3. ASSUME NEW c \in Deck, RemoveCard(c) PROVE HandInv'
    <2>1. HandFacts(hand', cards')
      BY <1>1, <1>3, RemovingKeepsFacts DEF RemoveCard
    <2>2. HandTypes'
      BY <1>1, <1>3, RemovingKeepsFacts DEF RemoveCard, HandTypes
    <2> QED BY <2>1, <2>2, HandFactsAre DEF HandInv
  <1>4. CASE UNCHANGED handVars
    <2>1. hand' = hand /\ cards' = cards
      BY <1>4 DEF handVars
    <2>2. HandFacts(hand', cards') /\ HandTypes'
      BY <1>1, <2>1 DEF HandTypes
    <2> QED BY <2>2, HandFactsAre DEF HandInv
  <1> QED BY <1>2, <1>3, <1>4 DEF HandNext

(***************************************************************************)
(* Whatever is added and removed, in whichever order: the key, the count,  *)
(* the counters and the mask of a Hand are those of the cards in it.       *)
(***************************************************************************)
THEOREM HandIsWhatItsCardsAre == HandSpec => []HandIsItsCards
  <1>1. HandInv => HandIsItsCards
    BY DEF HandInv
  <1> QED BY <1>1, HandInvInit, HandInvStep, PTL DEF HandSpec

-----------------------------------------------------------------------------
\* Of seven cards, no two suits have five.
LEMMA OneSuitHasFive ==
  ASSUME HandInv, NEW s \in Suit, NEW t \in Suit,
         Cardinality(Held(s)) >= 5, Cardinality(Held(t)) >= 5
  PROVE  s = t
  <1> SUFFICES ASSUME s # t PROVE FALSE
      OBVIOUS
  <1>1. IsFiniteSet(cards) /\ Cardinality(cards) \in Nat /\ Cardinality(cards) <= 7
    BY DeckFinite, FS_Subset, FS_CardinalityType DEF HandInv, HandTypes, HandIsItsCards
  <1>2. /\ Held(s) \in SUBSET cards /\ Held(t) \in SUBSET cards
        /\ Held(s) \cap Held(t) = {}
    BY DEF Held
  <1>3. IsFiniteSet(Held(s)) /\ IsFiniteSet(Held(t))
    BY <1>1, <1>2, FS_Subset
  <1>4. Cardinality(Held(s) \cup Held(t)) = Cardinality(Held(s)) + Cardinality(Held(t)) - 0
    BY <1>2, <1>3, FS_Union, FS_EmptySet
  <1>5. Held(s) \cup Held(t) \in SUBSET cards
    BY <1>2
  <1>6. Cardinality(Held(s) \cup Held(t)) <= Cardinality(cards)
    BY <1>1, <1>5, FS_Subset
  <1>7. Cardinality(Held(s)) \in Nat /\ Cardinality(Held(t)) \in Nat
    BY <1>3, FS_CardinalityType
  <1> QED BY <1>1, <1>4, <1>6, <1>7

LEMMA FlushFollows == HandInv => FlushIsFound
  <1> SUFFICES ASSUME HandInv PROVE FlushIsFound
      OBVIOUS
  <1>1. ASSUME NEW s \in Suit
        PROVE  /\ hand.suits[s] >= 8 <=> Cardinality(Held(s)) >= 5
               /\ hand.mask[3 - s] = {c[1] : c \in Held(s)}
    <2>1. IsFiniteSet(cards) /\ Held(s) \in SUBSET cards
      BY DeckFinite, FS_Subset DEF HandInv, HandTypes, Held
    <2>2. Cardinality(Held(s)) \in Nat
      BY <2>1, FS_Subset, FS_CardinalityType
    <2>3. hand.suits[s] = 3 + Cardinality(Held(s)) /\ hand.mask[3 - s] = {c[1] : c \in Held(s)}
      BY DEF HandInv, HandIsItsCards
    <2> QED BY <2>2, <2>3
  <1>2. HasFlush(hand) <=> \E s \in Suit : Cardinality(Held(s)) >= 5
    <2>1. HasFlush(hand) <=> \E s \in Suit : hand.suits[s] >= 8
      BY DEF HasFlush, FlushCheckBits
    <2> QED BY <1>1, <2>1
  <1>3. ASSUME NEW s \in Suit, Cardinality(Held(s)) >= 5
        PROVE  FlushKey(hand) = MapThenSumSet(FLUSH_RANKS, {c[1] : c \in Held(s)})
    <2>1. {t \in Suit : hand.suits[t] >= 8} = {s}
      BY <1>1, <1>3, OneSuitHasFive
    <2>2. FlushCheckBits(hand) = {16 + 4 * s + 3}
      BY <2>1 DEF FlushCheckBits
    <2>3. Max(FlushCheckBits(hand)) = 16 + 4 * s + 3
      BY <2>2 DEF Max, Suit
    <2>4. CountLeadingZeros(FlushCheckBits(hand)) = 12 - 4 * s
      BY <2>3 DEF CountLeadingZeros, Suit
    <2> DEFINE group == (4 * CountLeadingZeros(FlushCheckBits(hand))) \div 16
    <2>5. group = 3 - s
      BY <2>4 DEF Suit
    <2>6. FlushKey(hand) = FlushSum(hand.mask[group])
      BY DEF FlushKey, FlushSum, MapThenSumSet, MapThenFoldSet
    <2>7. MapThenSumSet(FLUSH_RANKS, {c[1] : c \in Held(s)}) = FlushSum({c[1] : c \in Held(s)})
      BY DEF FlushSum, MapThenSumSet, MapThenFoldSet
    <2> HIDE DEF group
    <2>8. hand.mask[group] = {c[1] : c \in Held(s)}
      BY <1>1, <2>5
    <2> QED BY <2>6, <2>7, <2>8
  <1> QED BY <1>2, <1>3 DEF FlushIsFound

(***************************************************************************)
(* A flush is seen whenever five of the cards are of one suit and only     *)
(* then, and its key is made of the ranks of this suit.                    *)
(***************************************************************************)
THEOREM FlushesAreFound == HandSpec => []FlushIsFound
  <1> QED BY HandInvInit, HandInvStep, FlushFollows, PTL DEF HandSpec
=============================================================================
