----------------------------- MODULE PerfectHash -----------------------------
(***************************************************************************)
(* The lookup table of the hand evaluator.  Keys are sparse, so the table  *)
(* of all keys is cut into rows and the rows are laid over each other,     *)
(* each at the first offset where nothing collides; a key is then looked   *)
(* up at key + offset of its row.  calculatePerfectHashOffsets finds the   *)
(* offsets, which are compiled into the next build; that build fills the   *)
(* table anew by means of them.                                            *)
(***************************************************************************)
EXTENDS Integers, FiniteSets

CONSTANTS
    RowCount,       \* rows of the table of all keys
    RowSize,        \* keys in a row, 2^PERF_HASH_ROW_SHIFT
    HandValues,     \* what is looked up; 0 stands for "nothing here"
    TableSize,      \* slots of LOOKUP
    Modulus         \* 2^32, the offsets are unsigned

ASSUME HashAssumption ==
    /\ RowCount \in Nat \ {0}
    /\ RowSize \in Nat \ {0}
    /\ HandValues \subseteq Nat \ {0}
    /\ TableSize \in Nat
    /\ TableSize >= RowCount * RowSize
    /\ Modulus \in Nat
    /\ Modulus >= TableSize

Row    == 0 .. RowCount - 1
Column == 0 .. RowSize - 1
Slot   == 0 .. TableSize - 1

VARIABLES
    phase,      \* "fill", "place", and in the next build "use"
    orig,       \* ORIG_LOOKUP, the value of each key, by row and column
    lookup,     \* LOOKUP
    rowOffset,  \* PERF_HASH_ROW_OFFSETS
    placed,     \* the rows that have an offset
    written     \* the keys the next build has written

hashVars == <<phase, orig, lookup, rowOffset, placed, written>>

HashTypeOK ==
    /\ phase \in {"fill", "place", "use"}
    /\ orig \in [Row -> [Column -> HandValues \cup {0}]]
    /\ lookup \in [Slot -> HandValues \cup {0}]
    /\ rowOffset \in [Row -> 0 .. Modulus - 1]
    /\ placed \subseteq Row
    /\ written \subseteq Row \X Column

HashInit ==
    /\ phase = "fill"
    /\ orig = [r \in Row |-> [c \in Column |-> 0]]
    /\ lookup = [i \in Slot |-> 0]
    /\ rowOffset = [r \in Row |-> 0]
    /\ placed = {}
    /\ written = {}

Used(r) == {c \in Column : orig[r][c] # 0}

\* rows grows with the keys that are met: none beyond the last one in use.
RowsInUse == {r \in Row : \E q \in Row : q >= r /\ Used(q) # {}}

FirstKey(r) == r * RowSize

\* A sum or difference of two offsets as a 32-bit unsigned number.
Wrapped(n) ==
    IF n < 0 THEN n + Modulus ELSE IF n >= Modulus THEN n - Modulus ELSE n

\* Fault: the offset is stored as it was found, relative to the column.
FoundOffset(r, o)  == o
StoredOffset(r, o) == Wrapped(o - FirstKey(r))

PerfHash(r, c) == Wrapped(FirstKey(r) + c + rowOffset[r])

-----------------------------------------------------------------------------
FillKey(r, c, v) ==
    /\ phase = "fill"
    /\ orig[r][c] = 0
    /\ orig' = [orig EXCEPT ![r] = [@ EXCEPT ![c] = v]]
    /\ UNCHANGED <<phase, lookup, rowOffset, placed, written>>

StartPlacing ==
    /\ phase = "fill"
    /\ phase' = "place"
    /\ UNCHANGED <<orig, lookup, rowOffset, placed, written>>

\* A collision with the same value is allowed.
Fits(r, o) == \A c \in Used(r) : lookup[c + o] \in {0, orig[r][c]}

FirstFit(r, o) == Fits(r, o) /\ \A q \in 0 .. o - 1 : ~Fits(r, q)

\* The rows are sorted by the number of their keys, the densest first; rows
\* with the same number come in any order.
Densest(r) ==
    /\ r \in RowsInUse \ placed
    /\ \A q \in RowsInUse \ placed : Cardinality(Used(q)) <= Cardinality(Used(r))

PlaceRow(r) ==
    /\ phase = "place"
    /\ Densest(r)
    /\ \E o \in 0 .. TableSize - RowSize :
          /\ FirstFit(r, o)
          /\ rowOffset' = [rowOffset EXCEPT ![r] = StoredOffset(r, o)]
          /\ lookup' = [i \in Slot |-> IF i - o \in Used(r) THEN orig[r][i - o]
                                                            ELSE lookup[i]]
    /\ placed' = placed \cup {r}
    /\ UNCHANGED <<phase, orig, written>>

\* The offsets go into the source; the program is built with them and run.
StartUsing ==
    /\ phase = "place"
    /\ RowsInUse \subseteq placed
    /\ phase' = "use"
    /\ lookup' = [i \in Slot |-> 0]
    /\ UNCHANGED <<orig, rowOffset, placed, written>>

WriteKey(r, c) ==
    /\ phase = "use"
    /\ orig[r][c] # 0
    /\ lookup' = [lookup EXCEPT ![PerfHash(r, c)] = orig[r][c]]
    /\ written' = written \cup {<<r, c>>}
    /\ UNCHANGED <<phase, orig, rowOffset, placed>>

HashNext ==
    \/ StartPlacing \/ StartUsing
    \/ \E r \in Row : PlaceRow(r)
    \/ \E r \in Row, c \in Column :
          WriteKey(r, c) \/ \E v \in HandValues : FillKey(r, c, v)

HashSpec == HashInit /\ [][HashNext]_hashVars

-----------------------------------------------------------------------------
\* The keys the table has to answer for.
Stored(r, c) ==
    /\ orig[r][c] # 0
    /\ IF phase = "use" THEN <<r, c>> \in written ELSE r \in placed

(***************************************************************************)
(* Whatever was stored is found again, in the table the offsets were       *)
(* computed with and in the one built by means of them, however many keys  *)
(* share a slot.                                                           *)
(***************************************************************************)
LookupsCorrect ==
    \A r \in Row, c \in Column :
        Stored(r, c) => /\ PerfHash(r, c) \in Slot
                        /\ lookup[PerfHash(r, c)] = orig[r][c]

(***************************************************************************)
(* The assertion in populateLookup: a slot that is about to be written is  *)
(* empty or has that value already, in whatever order the keys come.       *)
(***************************************************************************)
NoClash ==
    phase = "use" =>
        \A r \in Row, c \in Column :
            orig[r][c] # 0 => lookup[PerfHash(r, c)] \in {0, orig[r][c]}

(***************************************************************************)
(* First fit never needs more room than the rows put one after the other:  *)
(* every row finds an offset in a table of RowCount * RowSize slots.       *)
(***************************************************************************)
TableStaysCompact ==
    \A i \in Slot : lookup[i] # 0 => i < Cardinality(placed) * RowSize

=============================================================================
