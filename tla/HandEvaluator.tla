---------------------------- MODULE HandEvaluator ----------------------------
(***************************************************************************)
(* The hand evaluator (OMPEval): the key of a Hand is looked up in tables  *)
(* computed at start.  The perfect hash between the key and its slot is    *)
(* PerfectHash; here a table is a function of the key.                     *)
(***************************************************************************)
EXTENDS Hand

HIGH_CARD       == 1
PAIR            == 2
TWO_PAIR        == 3
THREE_OF_A_KIND == 4
STRAIGHT        == 5
FLUSH           == 6
FULL_HOUSE      == 7
FOUR_OF_A_KIND  == 8
STRAIGHT_FLUSH  == 9
HAND_CATEGORY_OFFSET == 4096

-----------------------------------------------------------------------------
(***************************************************************************)
(* The tables.  A rank count is a function from ranks to numbers; only the *)
(* hands that a call of populateLookup starts from are spelled out.        *)
(***************************************************************************)
NoRanks == [r \in Rank |-> 0]
Times(n, S) == [r \in Rank |-> IF r \in S THEN n ELSE 0]
AddRank(ranks, r) == [ranks EXCEPT ![r] = @ + 1]

GetKey(ranks, flush) ==
    MapThenSumSet(LAMBDA r : ranks[r] * (IF flush THEN FLUSH_RANKS(r) ELSE RANKS(r)),
                  Rank)

\* Fault: the ace only counts as the highest card.
NoWheel(ranks) ==
    LET starts == {i \in 0 .. RANK_COUNT - 5 : \A r \in i .. i + 4 : ranks[r] > 0}
    IN  IF starts # {} THEN Max(starts) + 4 ELSE 0
GetBiggestStraight(ranks) ==
    LET starts == {i \in 0 .. RANK_COUNT - 5 : \A r \in i .. i + 4 : ranks[r] > 0}
        wheel == \A r \in {Ace} \cup (0 .. 3) : ranks[r] > 0
    IN  IF starts # {} THEN Max(starts) + 4 ELSE IF wheel THEN 3 ELSE 0

\* limit: ranks below limit.pair may come up twice, those below limit.trips
\* three times, and no straight above limit.straight may arise.
Improves(ranks, r, limit) ==
    \/ ranks[r] = 2 /\ r >= limit.pair
    \/ ranks[r] = 3 /\ r >= limit.trips
    \/ ranks[r] >= 4
    \/ GetBiggestStraight(ranks) > limit.straight

\* The hands visited from one hand on, in the order of the recursion.
RECURSIVE Visits(_, _, _, _), VisitsFrom(_, _, _, _, _)
VisitsFrom(ranks, ncards, r, endRank, limit) ==
    IF r = endRank THEN <<>>
    ELSE LET more == AddRank(ranks, r)
         IN  (IF Improves(more, r, limit) THEN <<>>
              ELSE Visits(more, ncards + 1, r + 1, limit))
             \o VisitsFrom(ranks, ncards, r + 1, endRank, limit)

Visits(ranks, ncards, endRank, limit) ==
    <<[ranks |-> ranks, ncards |-> ncards]>> \o
    (IF ncards = 7 THEN <<>> ELSE VisitsFrom(ranks, ncards, 0, endRank, limit))

Limit(pair, trips, straight) ==
    [pair |-> pair, trips |-> trips, straight |-> straight]

RECURSIVE AllVisits(_)
AllVisits(calls) ==
    IF calls = <<>> THEN <<>>
    ELSE LET c == Head(calls)
         IN  Visits(c.ranks, c.ncards, RANK_COUNT, c.limit) \o AllVisits(Tail(calls))

\* What is written for one category: the value starts at the category and
\* is incremented for each hand of at most five cards that is visited.
Counts(n) == n <= 5

PopulateLookup(category, calls, flush) ==
    LET visits == AllVisits(calls)
        counted == {j \in DOMAIN visits : Counts(visits[j].ncards)}
    IN  {<<GetKey(visits[i].ranks, flush),
           category * HAND_CATEGORY_OFFSET + Cardinality({j \in counted : j <= i})>>
             : i \in DOMAIN visits}

Call(ranks, ncards, limit) == [ranks |-> ranks, ncards |-> ncards, limit |-> limit]

\* Pairs of ranks in the order of the two loops, r1 outside.
RankPairs == [i \in 1 .. RANK_COUNT * RANK_COUNT |->
                 <<(i - 1) \div RANK_COUNT, (i - 1) % RANK_COUNT>>]

StraightCalls(pair, trips) ==
    <<Call(Times(1, {Ace} \cup (0 .. 3)), 5, Limit(pair, trips, 3))>> \o
    [i \in 1 .. RANK_COUNT - 4 |->
        Call(Times(1, i - 1 .. i + 3), 5, Limit(pair, trips, i + 3))]

PairCalls == [i \in 1 .. RANK_COUNT |-> Call(Times(2, {i - 1}), 2, Limit(0, 0, 0))]

TwoPairCalls ==
    LET pairs == SelectSeq(RankPairs, LAMBDA p : p[2] < p[1])
    IN  [i \in DOMAIN pairs |->
            Call(Times(2, {pairs[i][1], pairs[i][2]}), 4, Limit(pairs[i][2], 0, 0))]

TripsCalls ==
    [i \in 1 .. RANK_COUNT |-> Call(Times(3, {i - 1}), 3, Limit(0, i - 1, 0))]

FullHouseCalls ==
    LET pairs == SelectSeq(RankPairs, LAMBDA p : p[2] # p[1])
    IN  [i \in DOMAIN pairs |->
            LET r1 == pairs[i][1]  r2 == pairs[i][2]
            IN  Call([Times(3, {r1}) EXCEPT ![r2] = 2], 5,
                     Limit(r2, r1, RANK_COUNT))]

QuadsCalls == [i \in 1 .. RANK_COUNT |->
                  Call(Times(4, {i - 1}), 4, Limit(RANK_COUNT, RANK_COUNT, RANK_COUNT))]

NoneYet == <<Call(NoRanks, 0, Limit(0, 0, 0))>>

LookupWrites ==
    PopulateLookup(HIGH_CARD, NoneYet, FALSE)
        \cup PopulateLookup(PAIR, PairCalls, FALSE)
        \cup PopulateLookup(TWO_PAIR, TwoPairCalls, FALSE)
        \cup PopulateLookup(THREE_OF_A_KIND, TripsCalls, FALSE)
        \cup PopulateLookup(STRAIGHT, StraightCalls(RANK_COUNT, RANK_COUNT), FALSE)
        \cup PopulateLookup(FULL_HOUSE, FullHouseCalls, FALSE)
        \cup PopulateLookup(FOUR_OF_A_KIND, QuadsCalls, FALSE)

FlushWrites ==
    PopulateLookup(FLUSH, NoneYet, TRUE)
        \cup PopulateLookup(STRAIGHT_FLUSH, StraightCalls(0, 0), TRUE)

TableOf(writes) == [k \in {w[1] : w \in writes} |->
                       (CHOOSE w \in writes : w[1] = k)[2]]
LOOKUP       == TableOf(LookupWrites)
FLUSH_LOOKUP == TableOf(FlushWrites)

Evaluate(h) ==
    IF ~HasFlush(h) THEN LOOKUP[h.key] ELSE FLUSH_LOOKUP[FlushKey(h)]

-----------------------------------------------------------------------------
(***************************************************************************)
(* The rules of the game, without keys and tables.  A hand of up to five   *)
(* cards has a category, and within it a score: its ranks, those that come *)
(* up more often first, then the higher ones, where a missing card is the  *)
(* worst kicker.  Of a straight only the top counts.                       *)
(***************************************************************************)
RankCounts(C) == [r \in Rank |-> Cardinality({c \in C : c[1] = r})]

Straight(top) == IF top = 3 THEN {Ace} \cup (0 .. 3) ELSE top - 4 .. top
StraightTops(n) == {t \in 3 .. Ace : \A r \in Straight(t) : n[r] > 0}

CategoryOf(n, suited) ==
    LET times(k) == Cardinality({r \in Rank : n[r] = k})
        straight == StraightTops(n) # {}
    IN  CASE straight /\ suited -> STRAIGHT_FLUSH
          [] times(4) = 1 -> FOUR_OF_A_KIND
          [] times(3) = 1 /\ times(2) = 1 -> FULL_HOUSE
          [] suited -> FLUSH
          [] straight -> STRAIGHT
          [] times(3) = 1 /\ times(2) = 0 -> THREE_OF_A_KIND
          [] times(2) = 2 -> TWO_PAIR
          [] times(2) = 1 /\ times(3) = 0 -> PAIR
          [] OTHER -> HIGH_CARD

ScoreOf(n) ==
    IF StraightTops(n) # {} THEN Max(StraightTops(n))
    ELSE LET weight(r) == n[r] * RANK_COUNT + r
             present == {r \in Rank : n[r] > 0}
             place(r) == Cardinality({q \in present : weight(q) > weight(r)})
         IN  MapThenSumSet(LAMBDA r : (r + 1) * (RANK_COUNT + 1) ^ (4 - place(r)),
                           present)

RECURSIVE RankHands(_)
RankHands(most) ==
    IF most = 0 THEN {NoRanks}
    ELSE LET fewer == RankHands(most - 1)
         IN  fewer \cup {AddRank(n, r) : <<n, r>> \in
                            {h \in fewer \X Rank : h[1][h[2]] < 4}}

\* The scores of a category, for hands without and with a common suit.  The
\* evaluator numbers the suited hands of fewer than five cards as well.
Unsuited == {<<CategoryOf(n, FALSE), ScoreOf(n)>> : n \in RankHands(5)}
Scores(category) ==
    LET like == IF category = FLUSH THEN HIGH_CARD
                ELSE IF category = STRAIGHT_FLUSH THEN STRAIGHT ELSE category
    IN  {s[2] : s \in {u \in Unsuited : u[1] = like}}
ScoresOf == [k \in HIGH_CARD .. STRAIGHT_FLUSH |-> Scores(k)]

ValueOf(category, score) ==
    category * HAND_CATEGORY_OFFSET + Cardinality({s \in ScoresOf[category] : s <= score})

\* The best five of the cards.
FiveOf(C) == {S \in SUBSET C : Cardinality(S) = Min({5, Cardinality(C)})}
Suited(C) == Cardinality(C) = 5 /\ Cardinality({c[2] : c \in C}) = 1
BestValue(C) ==
    Max({ValueOf(CategoryOf(RankCounts(S), Suited(S)), ScoreOf(RankCounts(S)))
            : S \in FiveOf(C)})

(***************************************************************************)
(* evaluate ranks every hand of up to seven cards as the rules do: by its  *)
(* best five, by category, and within the category by the kickers.         *)
(***************************************************************************)
EvaluatesByTheRules == Evaluate(hand) = BestValue(cards)

(***************************************************************************)
(* "Rank multipliers that guarantee a unique key for every rank            *)
(* combination in a 0-7 card hand": with the real thirteen there are as    *)
(* many keys as combinations, and populateLookup gives no key two values.  *)
(***************************************************************************)
RECURSIVE RankCombinations(_, _)
RankCombinations(ranks, ncards) ==
    IF ranks = 0 THEN 1
    ELSE MapThenSumSet(LAMBDA k : RankCombinations(ranks - 1, ncards - k),
                       0 .. Min({4, ncards}))

\* The keys of the combinations of the first ranks, with their cards.
RECURSIVE KeysOf(_)
KeysOf(ranks) ==
    IF ranks = 0 THEN {<<0, 0>>}
    ELSE {k \in {<<h[1] + i, h[2] + i * RankMultipliers[ranks]>>
                    : h \in KeysOf(ranks - 1), i \in 0 .. 4} : k[1] <= 7}

UniqueKeys ==
    /\ Cardinality({k[2] : k \in KeysOf(13)}) = RankCombinations(13, 7)
    /\ Cardinality(LookupWrites) = Cardinality(DOMAIN LOOKUP)
    /\ Cardinality(FlushWrites) = Cardinality(DOMAIN FLUSH_LOOKUP)

KeysAreUnique == cards = {} => UniqueKeys

=============================================================================
