---------------------------- MODULE CombinedRange ----------------------------
(***************************************************************************)
(* CombinedRange: the holdings that several players can have at the same   *)
(* time.  joinRanges starts with a range for each player and joins the two *)
(* with the smallest result until none is within the limit.  One step is   *)
(* one round of its loop.                                                  *)
(***************************************************************************)
EXTENDS Integers, SequencesExt

CONSTANTS
    Cards,
    Ranges,     \* ranges of a player: sequences of pairs of cards
    Limits,     \* maxSize, less than the largest number of its type
    MaxPlayers  \* MAX_PLAYERS

\* No pair of cards is twice in a range: CardRange removes duplicates.
ASSUME RangesAssumption ==
    /\ Ranges \subseteq Seq(Cards \X Cards) /\ \A r \in Ranges : IsInjective(r)
    /\ Limits \subseteq Nat /\ MaxPlayers \in Nat

VARIABLES
    holeCardRanges,     \* the players' ranges
    maxSize,
    combinedRanges,     \* [players, combos], a combo being [mask, holeCards]
    joining             \* "not begun", "loop" or "done"

combinedVars == <<holeCardRanges, maxSize, combinedRanges, joining>>

CombinedInit ==
    /\ holeCardRanges = <<>> /\ maxSize = 0
    /\ combinedRanges = <<>> /\ joining = "not begun"

Combo(hole) == [mask |-> {hole[1], hole[2]}, holeCards |-> <<hole>>]
OfPlayer(i, range) ==
    [players |-> <<i>>, combos |-> [k \in DOMAIN range |-> Combo(range[k])]]

StartJoining(ranges, limit) ==
    /\ joining = "not begun" /\ joining' = "loop"
    /\ holeCardRanges' = ranges
    /\ maxSize' = limit
    /\ combinedRanges' = [i \in DOMAIN ranges |-> OfPlayer(i, ranges[i])]

-----------------------------------------------------------------------------
Compatible(c1, c2) == c1.mask \cap c2.mask = {}

Joined(c1, c2) ==
    [mask |-> c1.mask \cup c2.mask, holeCards |-> c1.holeCards \o c2.holeCards]

\* The inner loop: the combos of the second range that go with c1.
Fitting(c1, combos) ==
    LET fit[j \in 0 .. Len(combos)] ==
            IF j = 0 THEN <<>>
            ELSE IF Compatible(c1, combos[j])
                   THEN Append(fit[j - 1], Joined(c1, combos[j]))
            ELSE fit[j - 1]
    IN  fit[Len(combos)]

\* The outer loop, over the combos of the first range.
AllFitting(combos1, combos2) ==
    LET all[i \in 0 .. Len(combos1)] ==
            IF i = 0 THEN <<>> ELSE all[i - 1] \o Fitting(combos1[i], combos2)
    IN  all[Len(combos1)]

Join(r1, r2) ==
    [players |-> r1.players \o r2.players, combos |-> AllFitting(r1.combos, r2.combos)]

EstimateJoinSize(r1, r2) ==
    Cardinality({p \in (DOMAIN r1.combos) \X (DOMAIN r2.combos) :
                    Compatible(r1.combos[p[1]], r2.combos[p[2]])})

JoinSize(p) == EstimateJoinSize(combinedRanges[p[1]], combinedRanges[p[2]])

\* Of the pairs i > j the first of the smallest: they are tried by i, then j.
Couples == {p \in (DOMAIN combinedRanges) \X (DOMAIN combinedRanges) : p[2] < p[1]}
BestPair ==
    CHOOSE p \in Couples :
        \A q \in Couples : \/ JoinSize(p) < JoinSize(q)
                           \/ /\ JoinSize(p) = JoinSize(q)
                              /\ p[1] < q[1] \/ (p[1] = q[1] /\ p[2] <= q[2])

\* The join takes the place of the one, and the other is erased.
Replaced(ranges, p) ==
    RemoveAt([ranges EXCEPT ![p[1]] = Join(ranges[p[1]], ranges[p[2]])], p[2])

\* Fault: the limit is on what is joined, not on the result.
BelowLimitAlone(size, p) ==
    /\ Len(combinedRanges[p[1]].combos) <= maxSize
    /\ Len(combinedRanges[p[2]].combos) <= maxSize
WithinLimit(size, p) == size <= maxSize
CanJoin == Couples # {} /\ WithinLimit(JoinSize(BestPair), BestPair)

JoinBest ==
    /\ joining = "loop" /\ CanJoin
    /\ combinedRanges' = Replaced(combinedRanges, BestPair)
    /\ UNCHANGED <<holeCardRanges, maxSize, joining>>

StopJoining ==
    /\ joining = "loop" /\ ~CanJoin
    /\ joining' = "done"
    /\ UNCHANGED <<holeCardRanges, maxSize, combinedRanges>>

CombinedNext ==
    \/ \E n \in 1 .. MaxPlayers, limit \in Limits : \E ranges \in [1 .. n -> Ranges] :
          StartJoining(ranges, limit)
    \/ JoinBest \/ StopJoining

CombinedSpec == CombinedInit /\ [][CombinedNext]_combinedVars

-----------------------------------------------------------------------------
\* Every way to give each of these players a pair of his range, no card twice.
Deals(players) ==
    {d \in [DOMAIN players -> UNION {ToSet(r) : r \in Ranges}] :
        /\ \A i \in DOMAIN players : d[i] \in ToSet(holeCardRanges[players[i]])
        /\ \A i, j \in DOMAIN players : i < j => ToSet(d[i]) \cap ToSet(d[j]) = {}}

(***************************************************************************)
(* However the ranges are joined, every player is in one of them, and a    *)
(* joined range has exactly the deals its players can hold together, each  *)
(* once; a range that is a join keeps the limit, and in the end no further *)
(* join would.                                                             *)
(***************************************************************************)
JoinsAreDeals ==
    /\ \A i \in DOMAIN holeCardRanges :
          Cardinality({p \in {<<k, l>> : k \in DOMAIN combinedRanges, l \in 1 .. MaxPlayers} :
             p[2] \in DOMAIN combinedRanges[p[1]].players
                /\ combinedRanges[p[1]].players[p[2]] = i}) = 1
    /\ \A k \in DOMAIN combinedRanges :
          LET r == combinedRanges[k]
              holdings == [c \in DOMAIN r.combos |-> r.combos[c].holeCards]
          IN  /\ ToSet(holdings) = Deals(r.players) /\ IsInjective(holdings)
              /\ Len(r.players) > 1 => Len(r.combos) <= maxSize
    /\ joining = "done" => \A p \in Couples : JoinSize(p) > maxSize

=============================================================================
