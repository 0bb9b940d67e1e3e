--------------------------------- MODULE Hand ---------------------------------
(***************************************************************************)
(* Hand of the hand evaluator (OMPEval): cards are added up to a key, the  *)
(* counters of their suits and the mask of their ranks, and taken out      *)
(* again.  The number of ranks is a parameter, as for every rank the code  *)
(* does the same; the multipliers of the ranks are the real ones.          *)
(***************************************************************************)
EXTENDS Integers, Sequences, FiniteSets, FiniteSetsExt

CONSTANTS
    RANK_COUNT,     \* 13
    Deck            \* the cards dealt, pairs of a rank and a suit

ASSUME DeckAssumption ==
    /\ RANK_COUNT \in 5 .. 13
    /\ Deck \subseteq (0 .. RANK_COUNT - 1) \X (0 .. 3)

VARIABLES
    hand,       \* a Hand
    cards       \* the cards that were added to it

handVars == <<hand, cards>>

Rank == 0 .. RANK_COUNT - 1
Suit == 0 .. 3
Ace  == RANK_COUNT - 1

\* RANKS: 0x2000, 0x8001, ...  Fault: the second one is a round number.
RoundRanks == <<8192, 32768, 69632, 237568, 593920, 1531909, 3563520, 4300819,
                4685870, 4690024, 4767972, 4780561, 4801683>>
RankMultipliers ==
    <<8192, 32769, 69632, 237568, 593920, 1531909, 3563520, 4300819,
      4685870, 4690024, 4767972, 4780561, 4801683>>

FLUSH_RANKS(r) == 2 ^ r
RANKS(r)       == RankMultipliers[r + 1]

-----------------------------------------------------------------------------
(***************************************************************************)
(* Hands.  The suit counters start at 3: the fifth card of a suit sets the *)
(* high bit of its counter.  The ranks of suit s are group 3 - s of the    *)
(* mask.                                                                   *)
(***************************************************************************)
EMPTY == [key |-> 0, count |-> 0, suits |-> [s \in Suit |-> 3],
          mask |-> [g \in Suit |-> {}]]

CARDS(c) == [key |-> RANKS(c[1]), count |-> 1,
             suits |-> [s \in Suit |-> IF s = c[2] THEN 1 ELSE 0],
             mask |-> [g \in Suit |-> IF g = 3 - c[2] THEN {c[1]} ELSE {}]]

Plus(h, k) == [key |-> h.key + k.key, count |-> h.count + k.count,
               suits |-> [s \in Suit |-> h.suits[s] + k.suits[s]],
               mask |-> [g \in Suit |-> h.mask[g] \cup k.mask[g]]]

Minus(h, k) == [key |-> h.key - k.key, count |-> h.count - k.count,
                suits |-> [s \in Suit |-> h.suits[s] - k.suits[s]],
                mask |-> [g \in Suit |-> h.mask[g] \ k.mask[g]]]

\* The counters are bits 16 to 31 of a word, so that of the flush check bits
\* the highest has 12 - 4 * suit leading zeros.
FlushCheckBits(h) == {16 + 4 * s + 3 : s \in {t \in Suit : h.suits[t] >= 8}}
HasFlush(h) == FlushCheckBits(h) # {}
CountLeadingZeros(bits) == 31 - Max(bits)

FlushKey(h) ==
    LET shift == 4 * CountLeadingZeros(FlushCheckBits(h))
    IN  MapThenSumSet(FLUSH_RANKS, h.mask[shift \div 16])

-----------------------------------------------------------------------------
HandInit ==
    /\ hand = EMPTY
    /\ cards = {}

AddCard(c) ==
    /\ hand.count < 7
    /\ c \notin cards
    /\ hand' = Plus(hand, CARDS(c))
    /\ cards' = cards \cup {c}

RemoveCard(c) ==
    /\ c \in cards
    /\ hand' = Minus(hand, CARDS(c))
    /\ cards' = cards \ {c}

HandNext == \E c \in Deck : AddCard(c) \/ RemoveCard(c)

HandSpec == HandInit /\ [][HandNext]_handVars

-----------------------------------------------------------------------------
\* The cards of a suit.
Held(s) == {c \in cards : c[2] = s}

(***************************************************************************)
(* Whatever was added and removed before, and in which order: the key, the *)
(* counters and the mask are those of the cards that are there.  No field  *)
(* of the word runs into the next: a counter has 4 bits, the key has 32.   *)
(***************************************************************************)
HandIsItsCards ==
    /\ hand.count = Cardinality(cards) /\ hand.count <= 7
    /\ hand.key = MapThenSumSet(LAMBDA c : RANKS(c[1]), cards)
    /\ hand.key \in 0 .. 7 * RANKS(12)
    /\ \A s \in Suit : /\ hand.suits[s] = 3 + Cardinality(Held(s))
                       /\ hand.suits[s] < 16
                       /\ hand.mask[3 - s] = {c[1] : c \in Held(s)}

(***************************************************************************)
(* A hand has a flush when five of its cards are of one suit, and the key  *)
(* of the flush is that of the cards of this suit, which is the only one.  *)
(***************************************************************************)
FlushIsFound ==
    /\ HasFlush(hand) <=> \E s \in Suit : Cardinality(Held(s)) >= 5
    /\ \A s \in Suit :
          Cardinality(Held(s)) >= 5 =>
              FlushKey(hand) = MapThenSumSet(FLUSH_RANKS, {c[1] : c \in Held(s)})

=============================================================================
