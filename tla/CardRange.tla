------------------------------ MODULE CardRange ------------------------------
(***************************************************************************)
(* CardRange: a set of starting hands, read from an expression such as     *)
(* "KQs+,77,AhKh".  A text is typed piece by piece, so that every sequence *)
(* of Pieces is read; a character is a string of one letter.               *)
(***************************************************************************)
EXTENDS Integers, SequencesExt

CONSTANTS
    Pieces,     \* what may be typed at once, each a sequence of characters
    MaxPieces   \* bound: pieces in a text

VARIABLES
    text,       \* the expression
    typed       \* how many pieces it was typed with

rangeVars == <<text, typed>>

RangeInit == text = <<>> /\ typed = 0

TypePiece(p) ==
    /\ typed < MaxPieces
    /\ text' = text \o p
    /\ typed' = typed + 1

RangeNext == \E p \in Pieces : TypePiece(p)

-----------------------------------------------------------------------------
RankChars == <<"2", "3", "4", "5", "6", "7", "8", "9", "t", "j", "q", "k", "a">>
SuitChars == <<"s", "h", "c", "d">>

CharToRank(c) == IF Contains(RankChars, c) THEN SelectInSeq(RankChars, LAMBDA r : r = c) - 1 ELSE -1
CharToSuit(c) == IF Contains(SuitChars, c) THEN SelectInSeq(SuitChars, LAMBDA s : s = c) - 1 ELSE -1

\* Spaces are removed and capitals made small; the pieces have K and Q.
Lower(c)    == IF c = "K" THEN "k" ELSE IF c = "Q" THEN "q" ELSE c
Cleaned(s)  == LET graphs == SelectSeq(s, LAMBDA c : c # " ")
               IN  [i \in DOMAIN graphs |-> Lower(graphs[i])]

\* A text ends with a NUL, which is no rank, suit or sign.
Char(s, p) == IF p <= Len(s) THEN s[p] ELSE "NUL"
RankAt(s, p) == CharToRank(Char(s, p))
SuitAt(s, p) == CharToSuit(Char(s, p))

RankOf(card) == card \div 4
SuitOf(card) == card % 4

-----------------------------------------------------------------------------
\* The bigger card goes first.
Ordered(c1, c2) ==
    IF RankOf(c1) < RankOf(c2) \/ (RankOf(c1) = RankOf(c2) /\ SuitOf(c1) < SuitOf(c2))
      THEN <<c2, c1>> ELSE <<c1, c2>>
AddCombo(c1, c2) == <<Ordered(c1, c2)>>

Suits == <<0, 1, 2, 3>>
SuitPairs == <<<<0, 1>>, <<0, 2>>, <<0, 3>>, <<1, 2>>, <<1, 3>>, <<2, 3>>>>

AddCombos(r1, r2, suited, offsuited) ==
    (IF suited /\ r1 # r2
       THEN FlattenSeq([i \in 1 .. 4 |-> AddCombo(4 * r1 + Suits[i], 4 * r2 + Suits[i])])
       ELSE <<>>)
    \o (IF offsuited
          THEN FlattenSeq([i \in 1 .. 6 |->
                  LET s1 == SuitPairs[i][1]  s2 == SuitPairs[i][2]
                  IN  AddCombo(4 * r1 + s1, 4 * r2 + s2)
                      \o (IF r1 # r2 THEN AddCombo(4 * r1 + s2, 4 * r2 + s1) ELSE <<>>)])
          ELSE <<>>)

\* A better kicker stops below the pair.  Fault: at it.
KickersAndPair(low, high) == [i \in 1 .. high - low + 1 |-> low + i - 1]
Kickers(low, high)        == [i \in 1 .. high - low |-> low + i - 1]

AddCombosPlus(r1, r2, suited, offsuited) ==
    IF r1 = r2
      THEN FlattenSeq([i \in 1 .. 13 - r1 |->
              AddCombos(r1 + i - 1, r1 + i - 1, suited, offsuited)])
      ELSE LET high == IF r1 < r2 THEN r2 ELSE r1
               low  == IF r1 < r2 THEN r1 ELSE r2
               ks   == Kickers(low, high)
           IN  FlattenSeq([i \in DOMAIN ks |-> AddCombos(high, ks[i], suited, offsuited)])

AddAll ==
    FlattenSeq([c1 \in 1 .. 51 |->
        FlattenSeq([c2 \in 1 .. c1 |-> AddCombo(c1, c2 - 1)])])

\* One hand at p: what it adds and where the pointer is left, at p if it
\* is none.
NoHand(p) == [ok |-> FALSE, next |-> p, combos |-> <<>>]
Hand4(s, p) ==
    LET c1 == 4 * RankAt(s, p) + SuitAt(s, p + 1)
        c2 == 4 * RankAt(s, p + 2) + SuitAt(s, p + 3)
    IN  IF RankAt(s, p + 2) = -1 \/ SuitAt(s, p + 3) = -1 \/ c1 = c2 THEN NoHand(p)
        ELSE [ok |-> TRUE, next |-> p + 4, combos |-> AddCombo(c1, c2)]
Hand2(s, p) ==
    LET r1 == RankAt(s, p)  r2 == RankAt(s, p + 1)
        off == Char(s, p + 2) = "o"
        same == ~off /\ Char(s, p + 2) = "s"
        q == p + 2 + (IF off \/ same THEN 1 ELSE 0)
    IN  IF r2 = -1 THEN NoHand(p)
        ELSE IF Char(s, q) = "+"
          THEN [ok |-> TRUE, next |-> q + 1, combos |-> AddCombosPlus(r1, r2, ~off, ~same)]
          ELSE [ok |-> TRUE, next |-> q, combos |-> AddCombos(r1, r2, ~off, ~same)]
ParseHand(s, p) ==
    IF RankAt(s, p) = -1 THEN NoHand(p)
    ELSE IF SuitAt(s, p + 1) # -1 THEN Hand4(s, p) ELSE Hand2(s, p)

RECURSIVE ParseHands(_, _)
ParseHands(s, p) ==
    LET h == ParseHand(s, p)
    IN  h.combos \o (IF h.ok /\ Char(s, h.next) = "," THEN ParseHands(s, h.next + 1)
                                                      ELSE <<>>)

\* The order is by ranks, then suits.
Key(combo) == <<RankOf(combo[1]), RankOf(combo[2]), SuitOf(combo[1]), SuitOf(combo[2])>>
Before(a, b) ==
    \E i \in 1 .. 4 : Key(a)[i] < Key(b)[i] /\ \A j \in 1 .. i - 1 : Key(a)[j] = Key(b)[j]

RemoveDuplicates(combos) ==
    LET sorted == SortSeq(combos, Before)
        kept   == SelectSeq([i \in DOMAIN sorted |-> i],
                            LAMBDA i : i = 1 \/ sorted[i] # sorted[i - 1])
    IN  [i \in DOMAIN kept |-> sorted[kept[i]]]

Random == <<"r", "a", "n", "d", "o", "m">>
Combinations(t) ==
    LET s == Cleaned(t)
    IN  RemoveDuplicates(ParseHands(s, 1) \o (IF s = Random THEN AddAll ELSE <<>>))

\* A range is also made of a list of pairs of cards.
FromCombos(list) ==
    RemoveDuplicates([i \in DOMAIN list |-> Ordered(list[i][1], list[i][2])])

\* Another use of such texts: the cards in "2c8hAh", up to what is none.
RECURSIVE CardMaskFrom(_, _)
CardMaskFrom(s, i) ==
    IF i >= Len(s) \/ RankAt(s, i) = -1 \/ SuitAt(s, i + 1) = -1 THEN {}
    ELSE {4 * RankAt(s, i) + SuitAt(s, i + 1)} \cup CardMaskFrom(s, i + 2)
CardMask(t) == CardMaskFrom(Cleaned(t), 1)

-----------------------------------------------------------------------------
(***************************************************************************)
(* What an expression means, by the syntax that CardRange.h documents.     *)
(***************************************************************************)
\* The two cards of a hand with an x and a y, a sign for the suits and,
\* with a plus, all the better kickers or pairs.
Forms == {"", "s", "o"} \X BOOLEAN
Written(form) == (IF form[1] = "" THEN <<>> ELSE <<form[1]>>)
                 \o (IF form[2] THEN <<"+">> ELSE <<>>)
Means(x, y, form) ==
    LET low   == IF x < y THEN x ELSE y
        high  == IF x < y THEN y ELSE x
        ranks == IF ~form[2] THEN {<<x, y>>}
                 ELSE IF x = y THEN {<<r, r>> : r \in x .. 12}
                 ELSE {<<high, r>> : r \in low .. high - 1}
        hands == {{4 * r[1] + a, 4 * r[2] + b} : r \in ranks, a \in 0 .. 3, b \in 0 .. 3}
        IsSuited(h) == \A a, b \in h : SuitOf(a) = SuitOf(b)
    IN  {h \in hands : /\ \E a, b \in h : a # b
                       /\ form[1] = "s" => IsSuited(h)
                       /\ form[1] = "o" => ~IsSuited(h)}

\* The hands that can be read at p, with their lengths; the longest is meant.
ExactHands(s, p) ==
    IF /\ RankAt(s, p) >= 0     /\ SuitAt(s, p + 1) >= 0
       /\ RankAt(s, p + 2) >= 0 /\ SuitAt(s, p + 3) >= 0
       /\ SubSeq(s, p, p + 1) # SubSeq(s, p + 2, p + 3)
      THEN {[length |-> 4, means |-> {{4 * RankAt(s, q) + SuitAt(s, q + 1) : q \in {p, p + 2}}}]}
      ELSE {}
RankedHands(s, p) ==
    {[length |-> 2 + Len(Written(f)), means |-> Means(RankAt(s, p), RankAt(s, p + 1), f)] :
        f \in {g \in Forms : /\ RankAt(s, p) >= 0 /\ RankAt(s, p + 1) >= 0
                             /\ IsPrefix(Written(g), SubSeq(s, p + 2, Len(s)))}}
HandAt(s, p) ==
    LET hands == ExactHands(s, p) \cup RankedHands(s, p)
    IN  IF hands = {} THEN [length |-> 0, means |-> {}]
        ELSE CHOOSE h \in hands : \A g \in hands : g.length <= h.length

\* Hands are separated by commas, and reading ends where one is not whole.
Starts(s) == {1} \cup {p + 1 : p \in {q \in DOMAIN s : s[q] = ","}}
EndOf(s, p) == CHOOSE e \in p .. Len(s) + 1 :
                  /\ e = Len(s) + 1 \/ s[e] = ","
                  /\ \A q \in p .. e - 1 : s[q] # ","
Meaning(t) ==
    LET s == Cleaned(t)
        Whole(p) == EndOf(s, p) > p /\ HandAt(s, p).length = EndOf(s, p) - p
    IN  IF s = Random THEN {{a, b} : a \in 0 .. 51, b \in 0 .. 51} \ {{a} : a \in 0 .. 51}
        ELSE UNION {HandAt(s, p).means :
                      p \in {q \in Starts(s) : \A r \in Starts(s) : r < q => Whole(r)}}

CardAt(s, i) == 4 * RankAt(s, 2 * i - 1) + SuitAt(s, 2 * i)
IsCardAt(s, i) == RankAt(s, 2 * i - 1) >= 0 /\ SuitAt(s, 2 * i) >= 0
MaskMeaning(t) ==
    LET s == Cleaned(t)
    IN  {CardAt(s, i) : i \in {j \in 1 .. Len(s) \div 2 : \A k \in 1 .. j : IsCardAt(s, k)}}

(***************************************************************************)
(* Every text stands for the hands the documented syntax gives it, each    *)
(* once, the bigger rank first and in the promised order, in which a list  *)
(* of them is brought too; or for the cards it lists.                      *)
(***************************************************************************)
ReadsWhatIsWritten ==
    LET range == Combinations(text)
    IN  /\ {{c[1], c[2]} : c \in {range[i] : i \in DOMAIN range}} = Meaning(text)
        /\ \A i \in DOMAIN range : RankOf(range[i][1]) >= RankOf(range[i][2])
        /\ \A i \in 2 .. Len(range) : Before(range[i - 1], range[i])
        /\ FromCombos([i \in DOMAIN range |-> Reverse(range[Len(range) + 1 - i])]) = range
        /\ CardMask(text) = MaskMeaning(text)

=============================================================================
