------------------------------ MODULE RoundProofs ------------------------------
(***************************************************************************)
(* Theorems about the betting rounds and the cards of PokerServer that     *)
(* hold whatever keys are pressed and however the threads interleave.      *)
(***************************************************************************)
EXTENDS PokerServerProofs, Induction

-----------------------------------------------------------------------------
(***************************************************************************)
(* A round is over only when everyone acted or folded.  The turns taken    *)
(* since the round began, one per seat, are as many as the actions at      *)
(* least, as long as somebody's first turn is still to come.               *)
(***************************************************************************)
InRound == gPc \in {"draw", "loop", "turn", "test", "presleep", "asleep", "consume"}

\* Turns before the one of seat i in the first go round the table.
TurnOf(i) == IF i >= FirstIndex THEN i - FirstIndex ELSE i - FirstIndex + NumPlayers

IsDone(p) == folded[p] \/ p \in acted

ToCome(p) ==
    /\ actionsThisRound <= TurnOf(currentIndex)
    /\ \E i \in 0 .. NumPlayers - 1 : Seat(i) = p /\ TurnOf(currentIndex) <= TurnOf(i)

Progress ==
    /\ InRound \/ gPc = "equal" => currentId = Seat(currentIndex)
    /\ InRound => \A p \in Players : IsDone(p) \/ ToCome(p)
    /\ gPc = "equal" \/ RoundOver => \A p \in Players : IsDone(p)

LEMMA RemainderSmall ==
  \A a \in Nat, b \in Nat \ {0} : a % b \in Nat /\ a % b <= a
  OBVIOUS

LEMMA TurnBounds ==
  \A i \in 0 .. NumPlayers - 1 : TurnOf(i) \in 0 .. NumPlayers - 1
  BY NumPlayersAssumption DEF TurnOf, FirstIndex

LEMMA ProgressOnAdvance ==
  ASSUME TypeOK, Progress, InRound, AdvanceSeat,
         UNCHANGED <<activePlayersId, folded, stage>>,
         acted \subseteq acted', folded[currentId] \/ currentId \in acted',
         \/ actionsThisRound' = actionsThisRound
         \/ actionsThisRound' <= actionsThisRound + 1 /\ actionsThisRound' \in Nat
  PROVE  Progress'
  <1>a. /\ NumActive = NumPlayers /\ NumPlayers >= 3 /\ NumPlayers \in Nat
        /\ currentIndex \in 0 .. NumPlayers - 1 /\ actionsThisRound \in Nat
    BY ActiveLength, NumPlayersAssumption, UInt8Assumption DEF TypeOK, GameTypeOK
  <1>b. \A i \in 0 .. NumPlayers - 1 : Seat(i)' = Seat(i) /\ TurnOf(i)' = TurnOf(i)
    BY DEF Seat, TurnOf, FirstIndex
  <1>c. currentIndex' \in 0 .. NumPlayers - 1 /\ currentId' = Seat(currentIndex')
    BY <1>a DEF AdvanceSeat, NextIndex
  <1>1. gPc' = "loop" /\ (currentId = Seat(currentIndex))'
    BY <1>b, <1>c DEF AdvanceSeat, Seat
  <1>2. ASSUME NEW p \in Players, ~IsDone(p)' PROVE ToCome(p)'
    <2>1. ~IsDone(p) /\ p # currentId
      BY <1>2 DEF IsDone
    <2>2. ToCome(p) /\ currentId = Seat(currentIndex)
      BY <2>1 DEF Progress
    <2>3. PICK i \in 0 .. NumPlayers - 1 :
             Seat(i) = p /\ TurnOf(currentIndex) <= TurnOf(i)
      BY <2>2 DEF ToCome
    <2>4. i # currentIndex
      BY <2>1, <2>2, <2>3
    <2>5. TurnOf(currentIndex) < TurnOf(i) /\ TurnOf(currentIndex') = TurnOf(currentIndex) + 1
      BY <1>a, <2>3, <2>4 DEF TurnOf, FirstIndex, AdvanceSeat, NextIndex
    <2>6. TurnOf(currentIndex') <= TurnOf(i) /\ actionsThisRound' <= TurnOf(currentIndex')
      BY <1>a, <2>2, <2>3, <2>5, TurnBounds DEF ToCome
    <2>7. (TurnOf(currentIndex))' = TurnOf(currentIndex')
      BY DEF TurnOf, FirstIndex
    <2> QED BY <1>b, <2>3, <2>6, <2>7 DEF ToCome
  <1> QED BY <1>1, <1>2 DEF Progress, InRound, RoundOver

LEMMA ProgressStep ==
  ASSUME TypeOK, Seated, Progress, [Next]_vars
  PROVE  Progress'
  <1>a. /\ NumActive = NumPlayers /\ NumPlayers >= 3 /\ NumPlayers \in Nat
        /\ currentIndex \in 0 .. NumPlayers - 1 /\ actionsThisRound \in Nat
    BY ActiveLength, NumPlayersAssumption, UInt8Assumption DEF TypeOK, GameTypeOK
  <1>1. ASSUME UNCHANGED <<activePlayersId, gPc, stage, currentIndex, currentId,
                           actionsThisRound, acted>>,
               \A p \in Players : folded[p] => folded'[p]
        PROVE  Progress'
    <2>1. \A p \in Players : /\ IsDone(p) => IsDone(p)'
                             /\ ToCome(p) => ToCome(p)'
      BY <1>1 DEF IsDone, ToCome, TurnOf, FirstIndex, Seat
    <2>2. /\ InRound' = InRound /\ RoundOver' = RoundOver
          /\ Seat(currentIndex)' = Seat(currentIndex)
      BY <1>1 DEF InRound, RoundOver, Seat
    <2> QED BY <1>1, <2>1, <2>2 DEF Progress
  <1>2. CASE MainStep
    <2>1. \A p \in Players : folded[p] => folded'[p]
      <3>1. CASE SetPlayerFold
        BY <3>1 DEF SetPlayerFold, TypeOK, TableTypeOK
      <3>2. CASE ~SetPlayerFold
        BY <1>2, <3>2 DEF MainStep, ServerStep, Pop, DoubleBet,
           PotRead, PotWrite, PayRead, PayWrite, UpdatePlayerBet, ToggleRead,
           ToggleWrite, Notify, tableVars, moneyVars
      <3> QED BY <3>1, <3>2
    <2>2. activePlayersId' = activePlayersId
      BY <1>2 DEF MainStep, ServerStep, Pop, SetPlayerFold, DoubleBet,
         PotRead, PotWrite, PayRead, PayWrite, UpdatePlayerBet, ToggleRead,
         ToggleWrite, Notify, tableVars
    <2> QED BY <1>1, <1>2, <2>1, <2>2 DEF MainStep, gameVars
  <1>3. CASE EnterStage
    <2>1. /\ gPc = "stage" /\ gPc' \in {"loop", "draw"} /\ stage' = stage
          /\ activePlayersId' = activePlayersId /\ actionsThisRound' = 0
          /\ currentIndex' = FirstIndex /\ currentId' = Seat(FirstIndex)
      BY <1>3 DEF EnterStage, tableVars
    <2>2. (TurnOf(currentIndex))' = 0 /\ (Seat(currentIndex))' = Seat(FirstIndex)
      BY <1>a, <2>1 DEF TurnOf, FirstIndex, Seat
    <2>3. ASSUME NEW p \in Players PROVE ToCome(p)'
      <3>1. PICK i \in 1 .. NumPlayers : activePlayersId[i] = p
        BY DEF Seated
      <3>2. i - 1 \in 0 .. NumPlayers - 1 /\ Seat(i - 1)' = p
        BY <1>a, <2>1, <3>1 DEF Seat
      <3>3. TurnOf(i - 1)' >= 0
        BY <1>a, <3>2, <2>1 DEF TurnOf, FirstIndex
      <3> QED BY <2>1, <2>2, <3>2, <3>3 DEF ToCome
    <2> QED BY <2>1, <2>2, <2>3 DEF Progress, InRound, RoundOver
  <1>4. CASE LoopTest
    <2>1. /\ gPc = "loop" /\ gPc' \in {"turn", "equal"} /\ stage' = stage
          /\ gPc' = "equal" => ~(actionsThisRound < NumPlayers)
          /\ UNCHANGED <<activePlayersId, folded, currentIndex, currentId,
                         actionsThisRound, acted>>
      BY <1>4, <1>a DEF LoopTest, ActionsMissing, tableVars, roundVars
    <2>2. \A p \in Players : /\ IsDone(p)' = IsDone(p)
                             /\ ToCome(p)' = ToCome(p)
      BY <2>1 DEF IsDone, ToCome, TurnOf, FirstIndex, Seat
    <2>3. ASSUME gPc' = "equal", NEW p \in Players PROVE ~ToCome(p)
      BY <1>a, <2>1, <2>3, TurnBounds DEF ToCome
    <2>4. Seat(currentIndex)' = Seat(currentIndex)
      BY <2>1 DEF Seat
    <2> QED BY <2>1, <2>2, <2>3, <2>4 DEF Progress, InRound, RoundOver
  <1>5. CASE BetsDiffer \/ BetsEqual
    <2>1. /\ gPc = "equal" /\ gPc' \in {"turn", "equal", "stage"}
          /\ UNCHANGED <<activePlayersId, folded, currentIndex, currentId, acted>>
      BY <1>5 DEF BetsDiffer, BetsEqual, tableVars, roundVars
    <2>2. /\ \A p \in Players : IsDone(p)'
          /\ (currentId = Seat(currentIndex))'
      BY <2>1 DEF IsDone, Seat, Progress
    <2> QED BY <2>1, <2>2 DEF Progress, InRound, RoundOver
  <1>6. CASE SkipFolded
    <2>1. /\ InRound /\ AdvanceSeat /\ folded[currentId]
          /\ UNCHANGED <<activePlayersId, folded, stage, actionsThisRound, acted>>
      BY <1>6 DEF SkipFolded, tableVars, InRound
    <2> QED BY <2>1, ProgressOnAdvance
  <1>7. CASE Consume
    <2>1. /\ InRound /\ AdvanceSeat /\ acted' = acted \cup {currentId}
          /\ UNCHANGED <<activePlayersId, folded, stage>>
          /\ actionsThisRound' = (actionsThisRound + 1) % UInt8
      BY <1>7 DEF Consume, moneyVars, InRound
    <2>2. actionsThisRound' <= actionsThisRound + 1 /\ actionsThisRound' \in Nat
      <3>1. actionsThisRound + 1 \in Nat /\ UInt8 \in Nat \ {0}
        BY <1>a, UInt8Assumption
      <3> QED BY <2>1, <3>1, RemainderSmall
    <2> QED BY <2>1, <2>2, ProgressOnAdvance
  <1>8. CASE SendSync \/ DrawBoard \/ TestFlag \/ Sleep \/ Wake
    <2>1. /\ InRound /\ InRound' /\ gPc' # "equal"
          /\ UNCHANGED <<activePlayersId, folded, stage, currentIndex, currentId,
                         actionsThisRound, acted>>
      BY <1>8 DEF SendSync, DrawBoard, TestFlag, Sleep, Wake, InRound, tableVars,
         moneyVars, roundVars
    <2>2. \A p \in Players : /\ IsDone(p)' = IsDone(p)
                             /\ ToCome(p)' = ToCome(p)
      BY <2>1 DEF IsDone, ToCome, TurnOf, FirstIndex, Seat
    <2>3. Seat(currentIndex)' = Seat(currentIndex) /\ ~RoundOver'
      BY <2>1 DEF Seat, RoundOver, InRound
    <2> QED BY <2>1, <2>2, <2>3 DEF Progress
  <1>9. CASE \/ StartGame \/ Deal \/ BlindRead \/ BlindPay \/ BlindBet
             \/ CardChecking \/ ClearPot \/ ResetPlayer
    <2>1. ~InRound' /\ gPc' # "equal" /\ ~RoundOver'
      BY <1>9 DEF StartGame, Deal, BlindRead, BlindPay, BlindBet, CardChecking,
         ClearPot, ResetPlayer, InRound, RoundOver
    <2> QED BY <2>1 DEF Progress
  <1>10. CASE SpuriousWakeup
    BY <1>1, <1>10 DEF SpuriousWakeup, moneyVars, gameVars
  <1>11. CASE \E p \in Players : Answer(p) \/ StrayKey(p)
    BY <1>1, <1>11 DEF Answer, StrayKey, Send, tableVars, gameVars
  <1>12. CASE UNCHANGED vars
    BY <1>1, <1>12 DEF vars, tableVars, gameVars
  <1> QED BY <1>2, <1>3, <1>4, <1>5, <1>6, <1>7, <1>8, <1>9, <1>10, <1>11, <1>12
      DEF Next, GameStep, QuietStep

(***************************************************************************)
(* When a betting round ends, every player acted in it or has folded,      *)
(* also when others act out of turn and the byte of the actions wraps.     *)
(***************************************************************************)
THEOREM EveryoneHasActed == Spec => []EveryoneActs
  <1>1. Init => Progress
    BY DEF Init, GameInit, Progress, InRound, RoundOver
  <1>2. TypeOK /\ Seated /\ Progress /\ [Next]_vars => Progress'
    BY ProgressStep
  <1>3. Progress => EveryoneActs
    BY DEF Progress, EveryoneActs, IsDone
  <1> QED BY <1>1, <1>2, <1>3, TypeCorrect, EverybodyIsSeated, PTL DEF Spec

-----------------------------------------------------------------------------
(***************************************************************************)
(* The cards.  No card is in two hands, or in a hand and in the deck, at   *)
(* any time; the hands fill up while cards are dealt and are empty before; *)
(* from the blinds to the showdown the board has the cards of the stages   *)
(* so far, and shares none with the deck or a hand.                        *)
(***************************************************************************)
Apart ==
    /\ \A p, q \in Players : p # q => hand[p] \cap hand[q] = {}
    /\ \A p \in Players : hand[p] \cap deck = {}

DealtSoFar ==
    /\ gPc = "start" => \A p \in Players : hand[p] = {}
    /\ gPc = "reset" => \A i \in 1 .. cursor - 1 : hand[MapOrder[i]] = {}
    /\ gPc = "deal" => \A i \in 1 .. cursor - 1 : Cardinality(hand[MapOrder[i]]) = 2

OnTheTable ==
    gPc \in {"blindRead", "blindPay", "blindBet", "stage", "draw", "loop", "equal",
             "turn", "test", "presleep", "asleep", "consume"}
InPlay == OnTheTable /\ gPc \notin {"blindRead", "blindPay", "blindBet"}

\* Cards of the board before a stage.
BoardBefore == [PreFlop |-> 0, Flop |-> 0, Turn |-> 3, River |-> 4, CardChecking |-> 5]

BoardSoFar ==
    /\ IsFiniteSet(board)
    /\ board \cap deck = {}
    /\ \A p \in Players : board \cap hand[p] = {}
    /\ gPc = "stage" => Cardinality(board) = BoardBefore[stage]
    /\ gPc = "draw" => Cardinality(board) = BoardBefore[stage] + cursor - 1
    /\ gPc \notin {"stage", "draw"} =>
          Cardinality(board) = BoardBefore[stage] + BoardCards[stage]

CardsAreSound ==
    /\ Apart
    /\ DealtSoFar
    /\ OnTheTable => \A p \in Players : Cardinality(hand[p]) = 2
    /\ InPlay => BoardSoFar

LEMMA PairSize ==
  ASSUME NEW a, NEW b, a # b
  PROVE  Cardinality({a, b}) = 2
  <1>1. IsFiniteSet({}) /\ Cardinality({}) = 0
    BY FS_EmptySet
  <1>2. IsFiniteSet({} \cup {a}) /\ Cardinality({} \cup {a}) = 1
    BY <1>1, FS_AddElement
  <1>3. {} \cup {a} = {a} /\ {a} \cup {b} = {a, b} /\ b \notin {a}
    OBVIOUS
  <1>4. Cardinality({a} \cup {b}) = 2
    BY <1>2, <1>3, FS_AddElement
  <1> QED BY <1>3, <1>4

LEMMA CardsDealt ==
  ASSUME TypeOK, CardsAreSound, Deal
  PROVE  CardsAreSound'
  <1> DEFINE who == MapOrder[cursor]
  <1>1. PICK c1 \in deck, c2 \in deck :
           c1 # c2 /\ hand' = [hand EXCEPT ![who] = {c1, c2}] /\ deck' = deck \ {c1, c2}
    BY DEF Deal, Drawable
  <1>2. /\ gPc = "deal" /\ cursor \in 1 .. NumPlayers
        /\ hand \in [Players -> SUBSET Cards]
        /\ MapOrder \in [1 .. NumPlayers -> Players] /\ who \in Players
        /\ NumPlayers \in Nat /\ NumPlayers >= 3
    BY NumPlayersAssumption, MapOrderAssumption
    DEF Deal, TypeOK, TableTypeOK, GameTypeOK
  <1>3. hand'[who] = {c1, c2} /\ \A q \in Players : q # who => hand'[q] = hand[q]
    BY <1>1, <1>2
  <1>4. Apart'
    <2>1. ASSUME NEW q \in Players, NEW r \in Players, q # r
          PROVE  hand'[q] \cap hand'[r] = {}
      BY <1>1, <1>3, <2>1 DEF CardsAreSound, Apart
    <2>2. ASSUME NEW q \in Players PROVE hand'[q] \cap deck' = {}
      BY <1>1, <1>3 DEF CardsAreSound, Apart
    <2> QED BY <2>1, <2>2 DEF Apart
  <1>5. Cardinality(hand'[who]) = 2
    <2>1. c1 # c2
      BY <1>1
    <2>2. Cardinality({c1, c2}) = 2
      BY <2>1, PairSize
    <2> HIDE DEF who
    <2> QED BY <1>3, <2>2
  <1>6. \A i \in 1 .. cursor : Cardinality(hand'[MapOrder[i]]) = 2
    <2> SUFFICES ASSUME NEW i \in 1 .. cursor
                 PROVE  Cardinality(hand'[MapOrder[i]]) = 2
        OBVIOUS
    <2>1. CASE MapOrder[i] = who
      BY <1>5, <2>1
    <2>2. CASE MapOrder[i] # who
      <3>1. i \in 1 .. cursor - 1 /\ MapOrder[i] \in Players
        BY <1>2, <2>2
      <3> QED BY <1>2, <1>3, <2>2, <3>1 DEF CardsAreSound, DealtSoFar
    <2> QED BY <2>1, <2>2
  <1>7. CASE cursor < NumPlayers
    <2>1. gPc' = "deal" /\ cursor' = cursor + 1
      BY <1>2, <1>7 DEF Deal
    <2>2. 1 .. cursor' - 1 = 1 .. cursor
      BY <1>2, <2>1
    <2> QED BY <1>4, <1>6, <2>1, <2>2 DEF CardsAreSound, DealtSoFar, OnTheTable, InPlay
  <1>8. CASE ~(cursor < NumPlayers)
    <2>1. gPc' = "blindRead"
      BY <1>8 DEF Deal
    <2>2. cursor = NumPlayers
      BY <1>2, <1>8
    <2>3. \A q \in Players : Cardinality(hand'[q]) = 2
      BY <1>6, <2>2, MapOrderAssumption
    <2> QED BY <1>4, <2>1, <2>3 DEF CardsAreSound, DealtSoFar, InPlay
  <1> QED BY <1>7, <1>8

LEMMA CardsDrawn ==
  ASSUME TypeOK, CardsAreSound, DrawBoard
  PROVE  CardsAreSound'
  <1>1. PICK c \in deck : board' = board \cup {c} /\ deck' = deck \ {c}
    BY DEF DrawBoard, Drawable
  <1>2. /\ gPc = "draw" /\ hand' = hand /\ stage' = stage
        /\ gPc' \in {"draw", "loop"}
        /\ gPc' = "draw" => cursor' = cursor + 1
        /\ gPc' = "loop" => cursor = BoardCards[stage]
        /\ cursor \in Nat /\ stage \in BettingStages
    BY NumPlayersAssumption
    DEF DrawBoard, tableVars, TypeOK, GameTypeOK, BettingStages, BoardCards
  <1>3. BoardSoFar /\ Apart /\ \A p \in Players : Cardinality(hand[p]) = 2
    BY <1>2 DEF CardsAreSound, InPlay, OnTheTable
  <1>4. c \notin board /\ IsFiniteSet(board)
    BY <1>3 DEF BoardSoFar
  <1>5. IsFiniteSet(board') /\ Cardinality(board') = Cardinality(board) + 1
    BY <1>1, <1>4, FS_AddElement
  <1>6. Cardinality(board') = BoardBefore[stage] + cursor
    <2>1. Cardinality(board) = BoardBefore[stage] + cursor - 1
      BY <1>2, <1>3 DEF BoardSoFar
    <2>2. BoardBefore[stage] \in Nat
      BY <1>2 DEF BoardBefore, BettingStages
    <2> QED BY <1>2, <1>5, <2>1, <2>2
  <1>7. Apart' /\ (board \cap deck = {})' /\ (\A p \in Players : board \cap hand[p] = {})'
    BY <1>1, <1>2, <1>3 DEF Apart, BoardSoFar
  <1>8. BoardSoFar'
    <2>1. CASE gPc' = "draw"
      <3>1. Cardinality(board') = BoardBefore[stage] + cursor' - 1
        BY <1>2, <1>6, <2>1 DEF BoardBefore, BettingStages
      <3> QED BY <1>2, <1>5, <1>7, <2>1, <3>1 DEF BoardSoFar
    <2>2. CASE gPc' = "loop"
      BY <1>2, <1>5, <1>6, <1>7, <2>2 DEF BoardSoFar
    <2> QED BY <1>2, <2>1, <2>2
  <1> QED BY <1>2, <1>3, <1>7, <1>8 DEF CardsAreSound, DealtSoFar

LEMMA CardsReset ==
  ASSUME TypeOK, CardsAreSound, ResetPlayer
  PROVE  CardsAreSound'
  <1> DEFINE who == MapOrder[cursor]
  <1>1. /\ gPc = "reset" /\ hand' = [hand EXCEPT ![who] = {}]
        /\ hand \in [Players -> SUBSET Cards] /\ cursor \in 1 .. NumPlayers
        /\ MapOrder \in [1 .. NumPlayers -> Players] /\ who \in Players
        /\ NumPlayers \in Nat /\ NumPlayers >= 3
    BY NumPlayersAssumption, MapOrderAssumption
    DEF ResetPlayer, TypeOK, TableTypeOK, GameTypeOK
  <1>2. hand'[who] = {} /\ \A q \in Players : q # who => hand'[q] = hand[q]
    BY <1>1
  <1>3. \A i \in 1 .. cursor : hand'[MapOrder[i]] = {}
    <2> SUFFICES ASSUME NEW i \in 1 .. cursor
                 PROVE  hand'[MapOrder[i]] = {}
        OBVIOUS
    <2>1. CASE MapOrder[i] = who
      BY <1>2, <2>1
    <2>2. CASE MapOrder[i] # who
      <3>1. i \in 1 .. cursor - 1 /\ MapOrder[i] \in Players
        BY <1>1, <2>2
      <3> QED BY <1>1, <1>2, <2>2, <3>1 DEF CardsAreSound, DealtSoFar
    <2> QED BY <2>1, <2>2
  <1>4. \A q, r \in Players : q # r => hand'[q] \cap hand'[r] = {}
    BY <1>2 DEF CardsAreSound, Apart
  <1>5. CASE cursor < NumPlayers
    <2>1. gPc' = "reset" /\ cursor' = cursor + 1 /\ deck' = deck
      BY <1>1, <1>5 DEF ResetPlayer
    <2>2. 1 .. cursor' - 1 = 1 .. cursor
      BY <1>1, <2>1
    <2>3. \A q \in Players : hand'[q] \cap deck' = {}
      BY <1>2, <2>1 DEF CardsAreSound, Apart
    <2> QED BY <1>3, <1>4, <2>1, <2>2, <2>3
        DEF CardsAreSound, Apart, DealtSoFar, OnTheTable, InPlay
  <1>6. CASE ~(cursor < NumPlayers)
    <2>1. gPc' = "start" /\ cursor = NumPlayers
      BY <1>1, <1>6 DEF ResetPlayer
    <2>2. \A q \in Players : hand'[q] = {}
      BY <1>3, <2>1, MapOrderAssumption
    <2> QED BY <2>1, <2>2 DEF CardsAreSound, Apart, DealtSoFar, OnTheTable, InPlay
  <1> QED BY <1>5, <1>6

LEMMA CardsStep ==
  ASSUME TypeOK, CardsAreSound, [Next]_vars
  PROVE  CardsAreSound'
  <1>a. NumActive = NumPlayers /\ NumPlayers >= 3 /\ NumPlayers \in Nat
    BY ActiveLength, NumPlayersAssumption
  <1>1. ASSUME UNCHANGED <<gPc, cursor, stage, hand, deck, board>>
        PROVE  CardsAreSound'
    BY <1>1 DEF CardsAreSound, Apart, DealtSoFar, OnTheTable, InPlay, BoardSoFar
  <1>2. CASE MainStep
    BY <1>1, <1>2 DEF MainStep, gameVars, ServerStep, Pop, SetPlayerFold,
       DoubleBet, PotRead, PotWrite, PayRead, PayWrite, UpdatePlayerBet,
       ToggleRead, ToggleWrite, Notify, tableVars
  <1>3. CASE StartGame
    <2>1. gPc' = "deal" /\ cursor' = 1 /\ UNCHANGED <<hand, deck>>
      BY <1>3 DEF StartGame, tableVars
    <2>2. 1 .. cursor' - 1 = {}
      BY <2>1
    <2> QED BY <2>1, <2>2 DEF CardsAreSound, Apart, DealtSoFar, OnTheTable, InPlay
  <1>4. CASE Deal
    BY <1>4, CardsDealt
  <1>5. CASE BlindRead \/ BlindPay \/ BlindBet
    <2>1. /\ OnTheTable /\ OnTheTable' /\ gPc' \in {"blindRead", "blindPay", "blindBet", "stage"}
          /\ UNCHANGED <<hand, deck>>
          /\ gPc' = "stage" => stage' = "PreFlop" /\ board' = {}
      BY <1>5 DEF BlindRead, BlindPay, BlindBet, OnTheTable, tableVars, handVars
    <2>2. IsFiniteSet({}) /\ Cardinality({}) = 0 /\ BoardBefore["PreFlop"] = 0
      BY FS_EmptySet DEF BoardBefore
    <2>3. gPc' = "stage" => BoardSoFar'
      BY <2>1, <2>2 DEF BoardSoFar
    <2> QED BY <2>1, <2>3 DEF CardsAreSound, Apart, DealtSoFar, InPlay
  <1>6. CASE EnterStage
    <2>1. /\ gPc = "stage" /\ UNCHANGED <<hand, deck, board, stage>> /\ cursor' = 1
          /\ gPc' = IF BoardCards[stage] = 0 THEN "loop" ELSE "draw"
          /\ stage \in BettingStages
      BY <1>6 DEF EnterStage, tableVars, handVars
    <2>2. BoardSoFar /\ BoardBefore[stage] \in Nat
      BY <2>1 DEF CardsAreSound, InPlay, OnTheTable, BoardBefore, BettingStages
    <2>3. BoardSoFar'
      BY <2>1, <2>2 DEF BoardSoFar
    <2> QED BY <2>1, <2>3 DEF CardsAreSound, Apart, DealtSoFar, OnTheTable
  <1>7. CASE DrawBoard
    BY <1>7, CardsDrawn
  <1>8. CASE LoopTest \/ BetsDiffer \/ BetsEqual
    <2>1. /\ gPc \in {"loop", "equal"} /\ UNCHANGED <<hand, deck, board>>
          /\ gPc' \in {"turn", "equal", "stage"}
          /\ gPc' = "stage" => stage' = FollowingStage[stage]
          /\ gPc' # "stage" => stage' = stage
          /\ stage \in BettingStages
      BY <1>8, <1>a DEF LoopTest, BetsDiffer, BetsEqual, NextStage, tableVars,
         handVars, TypeOK, GameTypeOK
    <2>2. BoardBefore[FollowingStage[stage]] = BoardBefore[stage] + BoardCards[stage]
      BY <2>1 DEF BettingStages, BoardBefore, BoardCards, FollowingStage
    <2>3. BoardSoFar
      BY <2>1 DEF CardsAreSound, InPlay, OnTheTable
    <2>4. BoardSoFar'
      BY <2>1, <2>2, <2>3 DEF BoardSoFar
    <2> QED BY <2>1, <2>4 DEF CardsAreSound, Apart, DealtSoFar, OnTheTable
  <1>9. CASE SkipFolded \/ SendSync \/ TestFlag \/ Sleep \/ Wake \/ Consume
    <2>1. /\ InPlay /\ InPlay' /\ gPc \notin {"stage", "draw"} /\ gPc' \notin {"stage", "draw"}
          /\ UNCHANGED <<hand, deck, board, stage>>
      BY <1>9 DEF SkipFolded, SendSync, TestFlag, Sleep, Wake, Consume, AdvanceSeat,
         InPlay, OnTheTable, tableVars, handVars
    <2>2. BoardSoFar'
      BY <2>1 DEF CardsAreSound, BoardSoFar
    <2> QED BY <2>1, <2>2 DEF CardsAreSound, Apart, DealtSoFar, InPlay, OnTheTable
  <1>10. CASE CardChecking \/ ClearPot
    <2>1. /\ gPc' \in {"ending", "aborted", "reset"} /\ UNCHANGED <<hand, deck>>
          /\ gPc' = "reset" => cursor' = 1
      BY <1>10 DEF CardChecking, ClearPot, handVars
    <2>2. gPc' = "reset" => 1 .. cursor' - 1 = {}
      BY <2>1
    <2> QED BY <2>1, <2>2 DEF CardsAreSound, Apart, DealtSoFar, OnTheTable, InPlay
  <1>11. CASE ResetPlayer
    BY <1>11, CardsReset
  <1>12. CASE SpuriousWakeup
    BY <1>1, <1>12 DEF SpuriousWakeup, gameVars
  <1>13. CASE \E p \in Players : Answer(p) \/ StrayKey(p)
    BY <1>1, <1>13 DEF Answer, StrayKey, Send, tableVars, gameVars
  <1>14. CASE UNCHANGED vars
    BY <1>1, <1>14 DEF vars, tableVars, gameVars
  <1> QED BY <1>2, <1>3, <1>4, <1>5, <1>6, <1>7, <1>8, <1>9, <1>10, <1>11, <1>12,
             <1>13, <1>14 DEF Next, GameStep, QuietStep

(***************************************************************************)
(* Every showdown finds five cards on the board and two in each hand, all  *)
(* of them different, in every hand of the game and for every deck.        *)
(***************************************************************************)
THEOREM ShowdownsAreComplete == Spec => []ShowdownIsComplete
  <1>1. Init => CardsAreSound
    BY DEF Init, TableInit, GameInit, CardsAreSound, Apart, DealtSoFar, OnTheTable, InPlay
  <1>2. TypeOK /\ CardsAreSound /\ [Next]_vars => CardsAreSound'
    BY CardsStep
  <1>3. CardsAreSound => ShowdownIsComplete
    <2> SUFFICES ASSUME CardsAreSound, gPc = "stage", stage = "CardChecking"
                 PROVE  /\ Cardinality(board) = 5
                        /\ \A p \in Players : Cardinality(hand[p]) = 2
                        /\ \A p, q \in Players : p # q => hand[p] \cap hand[q] = {}
                        /\ \A p \in Players : hand[p] \cap (board \cup deck) = {}
        BY DEF ShowdownIsComplete
    <2>1. BoardSoFar /\ Apart /\ \A p \in Players : Cardinality(hand[p]) = 2
      BY DEF CardsAreSound, OnTheTable, InPlay
    <2>2. Cardinality(board) = 5
      BY <2>1 DEF BoardSoFar, BoardBefore
    <2> QED BY <2>1, <2>2 DEF BoardSoFar, Apart
  <1> QED BY <1>1, <1>2, <1>3, TypeCorrect, PTL DEF Spec

-----------------------------------------------------------------------------
(***************************************************************************)
(* The turns.  Every seat between the one that acted last and the one now  *)
(* in turn, going round the table, belongs to somebody who has folded.     *)
(***************************************************************************)
Between(k, j, c) == IF k < c THEN k < j /\ j < c ELSE j > k \/ j < c

SeatsKept ==
    /\ gPc # "start" => handNo > 0
    /\ IF gPc = "start" THEN activePlayersId = IF handNo = 0 THEN JoinOrder ELSE MapOrder
                        ELSE activePlayersId = Seating

FoldedSince ==
    (InRound \/ gPc = "equal") /\ lastActor # NoPlayer =>
        \E k \in 0 .. NumPlayers - 1 :
            /\ Seat(k) = lastActor
            /\ \A j \in 0 .. NumPlayers - 1 : Between(k, j, currentIndex) => folded[Seat(j)]

LEMMA SeatsKeptStep ==
  ASSUME TypeOK, SeatsKept, [Next]_vars
  PROVE  SeatsKept'
  <1>1. ASSUME UNCHANGED <<activePlayersId, handNo>>, gPc' # "start", gPc # "start"
        PROVE  SeatsKept'
    BY <1>1 DEF SeatsKept, Seating
  <1>2. ASSUME UNCHANGED <<activePlayersId, handNo, gPc>>
        PROVE  SeatsKept'
    BY <1>2 DEF SeatsKept, Seating
  <1>3. CASE MainStep
    BY <1>2, <1>3 DEF MainStep, gameVars, ServerStep, Pop, SetPlayerFold,
       DoubleBet, PotRead, PotWrite, PayRead, PayWrite, UpdatePlayerBet,
       ToggleRead, ToggleWrite, Notify, tableVars
  <1>4. CASE StartGame
    <2>1. gPc = "start" /\ gPc' # "start" /\ handNo' = handNo + 1 /\ handNo \in Nat
          /\ activePlayersId' = activePlayersId
      BY <1>4 DEF StartGame, TypeOK, GameTypeOK, tableVars
    <2> QED BY <2>1 DEF SeatsKept, Seating
  <1>5. CASE Deal \/ BlindRead \/ BlindPay \/ BlindBet
    BY <1>1, <1>5 DEF Deal, BlindRead, BlindPay, BlindBet, tableVars, handVars
  <1>6. CASE EnterStage \/ DrawBoard \/ LoopTest \/ BetsDiffer \/ BetsEqual
    BY <1>1, <1>6 DEF EnterStage, DrawBoard, LoopTest, BetsDiffer, BetsEqual,
       tableVars, handVars
  <1>7. CASE SkipFolded \/ SendSync \/ TestFlag \/ Sleep \/ Wake \/ Consume
    BY <1>1, <1>7 DEF SkipFolded, SendSync, TestFlag, Sleep, Wake, Consume,
       AdvanceSeat, tableVars, handVars
  <1>8. CASE CardChecking \/ ClearPot
    BY <1>1, <1>8 DEF CardChecking, ClearPot, handVars
  <1>9. CASE ResetPlayer
    <2>1. gPc = "reset" /\ handNo' = handNo
      BY <1>9 DEF ResetPlayer
    <2>2. CASE cursor < NumPlayers
      BY <1>1, <1>9, <2>1, <2>2 DEF ResetPlayer
    <2>3. CASE ~(cursor < NumPlayers)
      <3>1. gPc' = "start" /\ activePlayersId' = MapOrder
        BY <1>9, <2>3 DEF ResetPlayer
      <3>2. handNo > 0 /\ handNo \in Nat
        BY <2>1 DEF SeatsKept, TypeOK, GameTypeOK
      <3> QED BY <2>1, <3>1, <3>2 DEF SeatsKept
    <2> QED BY <2>2, <2>3
  <1>10. CASE SpuriousWakeup
    BY <1>2, <1>10 DEF SpuriousWakeup, gameVars
  <1>11. CASE \E p \in Players : Answer(p) \/ StrayKey(p)
    BY <1>2, <1>11 DEF Answer, StrayKey, Send, tableVars, gameVars
  <1>12. CASE UNCHANGED vars
    BY <1>2, <1>12 DEF vars, tableVars, gameVars
  <1> QED BY <1>3, <1>4, <1>5, <1>6, <1>7, <1>8, <1>9, <1>10, <1>11, <1>12
      DEF Next, GameStep, QuietStep

LEMMA FoldedSinceStep ==
  ASSUME TypeOK, Progress, FoldedSince, [Next]_vars
  PROVE  FoldedSince'
  <1>a. /\ NumActive = NumPlayers /\ NumPlayers >= 3 /\ NumPlayers \in Nat
        /\ currentIndex \in 0 .. NumPlayers - 1
    BY ActiveLength, NumPlayersAssumption DEF TypeOK, GameTypeOK
  <1>b. \A j \in 0 .. NumPlayers - 1 : Seat(j) \in Players
    BY SeatIsPlayer
  <1>1. ASSUME UNCHANGED <<activePlayersId, currentIndex, lastActor>>,
               InRound' \/ gPc' = "equal" => InRound \/ gPc = "equal",
               \A p \in Players : folded[p] => folded'[p]
        PROVE  FoldedSince'
    <2> SUFFICES ASSUME (InRound \/ gPc = "equal") /\ lastActor # NoPlayer
                 PROVE  (\E k \in 0 .. NumPlayers - 1 :
                           /\ Seat(k) = lastActor
                           /\ \A j \in 0 .. NumPlayers - 1 :
                                 Between(k, j, currentIndex) => folded[Seat(j)])'
        BY <1>1 DEF FoldedSince
    <2>1. PICK k \in 0 .. NumPlayers - 1 :
             /\ Seat(k) = lastActor
             /\ \A j \in 0 .. NumPlayers - 1 : Between(k, j, currentIndex) => folded[Seat(j)]
      BY DEF FoldedSince
    <2>2. \A j \in 0 .. NumPlayers - 1 : Seat(j)' = Seat(j)
      BY <1>1 DEF Seat
    <2>3. \A j \in 0 .. NumPlayers - 1 : Between(k, j, currentIndex') => folded'[Seat(j)']
      BY <1>1, <1>b, <2>1, <2>2
    <2> QED BY <1>1, <2>1, <2>2, <2>3 DEF Between
  <1>2. CASE MainStep
    <2>1. \A p \in Players : folded[p] => folded'[p]
      <3>1. CASE SetPlayerFold
        BY <3>1 DEF SetPlayerFold, TypeOK, TableTypeOK
      <3>2. CASE ~SetPlayerFold
        BY <1>2, <3>2 DEF MainStep, ServerStep, Pop, DoubleBet,
           PotRead, PotWrite, PayRead, PayWrite, UpdatePlayerBet, ToggleRead,
           ToggleWrite, Notify, tableVars, moneyVars
      <3> QED BY <3>1, <3>2
    <2>2. activePlayersId' = activePlayersId
      BY <1>2 DEF MainStep, ServerStep, Pop, SetPlayerFold, DoubleBet,
         PotRead, PotWrite, PayRead, PayWrite, UpdatePlayerBet, ToggleRead,
         ToggleWrite, Notify, tableVars
    <2> QED BY <1>1, <1>2, <2>1, <2>2 DEF MainStep, gameVars, InRound
  <1>3. CASE EnterStage
    BY <1>3 DEF EnterStage, FoldedSince
  <1>4. CASE LoopTest \/ BetsDiffer \/ BetsEqual \/ SendSync \/ DrawBoard \/ TestFlag
             \/ Sleep \/ Wake \/ SpuriousWakeup
    BY <1>1, <1>4 DEF LoopTest, BetsDiffer, BetsEqual, SendSync, DrawBoard, TestFlag,
       Sleep, Wake, SpuriousWakeup, InRound, tableVars, moneyVars, roundVars, gameVars
  <1>c. ASSUME AdvanceSeat
        PROVE  /\ currentIndex' = IF currentIndex = NumPlayers - 1 THEN 0 ELSE currentIndex + 1
               /\ currentIndex' \in 0 .. NumPlayers - 1
    BY <1>a, <1>c DEF AdvanceSeat, NextIndex
  <1>5. CASE SkipFolded
    <2>1. /\ InRound /\ AdvanceSeat /\ folded[currentId] /\ currentId = Seat(currentIndex)
          /\ UNCHANGED <<activePlayersId, folded, lastActor>>
      BY <1>5 DEF SkipFolded, tableVars, InRound, Progress
    <2> SUFFICES ASSUME lastActor # NoPlayer
                 PROVE  (\E k \in 0 .. NumPlayers - 1 :
                           /\ Seat(k) = lastActor
                           /\ \A j \in 0 .. NumPlayers - 1 :
                                 Between(k, j, currentIndex) => folded[Seat(j)])'
        BY <2>1 DEF FoldedSince
    <2>2. PICK k \in 0 .. NumPlayers - 1 :
             /\ Seat(k) = lastActor
             /\ \A j \in 0 .. NumPlayers - 1 : Between(k, j, currentIndex) => folded[Seat(j)]
      BY <2>1 DEF FoldedSince
    <2>3. \A j \in 0 .. NumPlayers - 1 : Seat(j)' = Seat(j)
      BY <2>1 DEF Seat
    <2>4. ASSUME NEW j \in 0 .. NumPlayers - 1, Between(k, j, currentIndex')
          PROVE  Between(k, j, currentIndex) \/ j = currentIndex
      BY <1>a, <1>c, <2>1, <2>4 DEF Between
    <2>5. \A j \in 0 .. NumPlayers - 1 : Between(k, j, currentIndex') => folded'[Seat(j)']
      BY <2>1, <2>2, <2>3, <2>4
    <2> QED BY <2>1, <2>2, <2>3, <2>5 DEF Between
  <1>6. CASE Consume
    <2>1. /\ AdvanceSeat /\ lastActor' = currentId /\ currentId = Seat(currentIndex)
          /\ activePlayersId' = activePlayersId
      BY <1>6 DEF Consume, moneyVars, InRound, Progress
    <2>2. Seat(currentIndex) = lastActor' /\ \A j \in 0 .. NumPlayers - 1 : Seat(j)' = Seat(j)
      BY <2>1 DEF Seat
    <2>3. \A j \in 0 .. NumPlayers - 1 : ~Between(currentIndex, j, currentIndex')
      BY <1>a, <1>c, <2>1 DEF Between
    <2>4. \A j \in 0 .. NumPlayers - 1 :
             Between(currentIndex, j, currentIndex') => folded'[Seat(j)']
      BY <2>3
    <2> QED BY <1>a, <2>2, <2>4 DEF FoldedSince, Between
  <1>7. CASE \/ StartGame \/ Deal \/ BlindRead \/ BlindPay \/ BlindBet
             \/ CardChecking \/ ClearPot \/ ResetPlayer
    <2>1. ~InRound' /\ gPc' # "equal"
      BY <1>7 DEF StartGame, Deal, BlindRead, BlindPay, BlindBet, CardChecking,
         ClearPot, ResetPlayer, InRound
    <2> QED BY <2>1 DEF FoldedSince
  <1>8. CASE \E p \in Players : Answer(p) \/ StrayKey(p)
    BY <1>1, <1>8 DEF Answer, StrayKey, Send, tableVars, gameVars, InRound
  <1>9. CASE UNCHANGED vars
    BY <1>1, <1>9 DEF vars, tableVars, gameVars, InRound
  <1> QED BY <1>2, <1>3, <1>4, <1>5, <1>6, <1>7, <1>8, <1>9
      DEF Next, GameStep, QuietStep

\* A remainder, for the numbers that go once round the table.
LEMMA Wrap ==
  ASSUME NEW n \in Nat \ {0}
  PROVE  /\ \A a \in 0 .. n - 1 : a % n = a
         /\ \A a \in n .. 2 * n - 1 : a % n = a - n
         /\ \A a \in (-n) .. (-1) : a % n = a + n
  OBVIOUS

LEMMA SeatingOrders == \A i, j \in 1 .. NumPlayers : Seating[i] = Seating[j] => i = j
  <1>1. IsFiniteSet(1 .. NumPlayers) /\ Cardinality(1 .. NumPlayers) = NumPlayers
    BY FS_Interval, NumPlayersAssumption
  <1>2. Cardinality(Players) = NumPlayers
    BY FS_Interval, NumPlayersAssumption DEF Players
  <1>3. MapOrder \in Surjection(1 .. NumPlayers, Players)
    BY MapOrderAssumption DEF Surjection
  <1>4. MapOrder \in Injection(1 .. NumPlayers, Players)
    BY <1>1, <1>2, <1>3, FS_SurjSameCardinalityImpliesInj
  <1>5. \A i, j \in 1 .. NumPlayers : MapOrder[i] = MapOrder[j] => i = j
    BY <1>4 DEF Injection, IsInjective
  <1>6. \A i, j \in 1 .. NumPlayers : JoinOrder[i] = JoinOrder[j] => i = j
    BY DEF JoinOrder
  <1> QED BY <1>5, <1>6 DEF Seating

LEMMA OrderFollows ==
  ASSUME TypeOK, Progress, SeatsKept, FoldedSince
  PROVE  TurnsInOrder
  <1> SUFFICES ASSUME Waiting, lastActor # NoPlayer,
                      NEW p \in StrictlyBetween(lastActor, currentId)
               PROVE  folded[p]
      BY DEF TurnsInOrder
  <1>1. /\ NumPlayers >= 3 /\ NumPlayers \in Nat \ {0}
        /\ currentIndex \in 0 .. NumPlayers - 1
        /\ InRound /\ activePlayersId = Seating /\ currentId = Seat(currentIndex)
    BY ActiveLength, NumPlayersAssumption
    DEF TypeOK, GameTypeOK, Waiting, InRound, SeatsKept, Progress
  <1>2. PICK k \in 0 .. NumPlayers - 1 :
           /\ Seat(k) = lastActor
           /\ \A j \in 0 .. NumPlayers - 1 : Between(k, j, currentIndex) => folded[Seat(j)]
    BY <1>1 DEF FoldedSince
  <1>3. \A i \in 0 .. NumPlayers - 1 : \A q : q = Seat(i) => SeatOf(q) = i + 1
    <2> SUFFICES ASSUME NEW i \in 0 .. NumPlayers - 1
                 PROVE  SeatOf(Seat(i)) = i + 1
        OBVIOUS
    <2>1. i + 1 \in 1 .. NumPlayers /\ Seating[i + 1] = Seat(i)
      BY <1>1 DEF Seat
    <2>2. \A j \in 1 .. NumPlayers : Seating[j] = Seat(i) => j = i + 1
      BY <2>1, SeatingOrders
    <2> QED BY <2>1, <2>2 DEF SeatOf
  <1>4. SeatOf(lastActor) = k + 1 /\ SeatOf(currentId) = currentIndex + 1
    BY <1>1, <1>2, <1>3
  <1> DEFINE span == (currentIndex - k - 1) % NumPlayers
  <1>5. PICK d \in 0 .. span - 1 : p = Seating[1 + ((k + 1 + d) % NumPlayers)]
    <2>1. (SeatOf(currentId) - SeatOf(lastActor) - 1) % NumPlayers = span
      <3>1. SeatOf(currentId) - SeatOf(lastActor) - 1 = currentIndex - k - 1
        BY <1>1, <1>4
      <3> QED BY <3>1
    <2> QED BY <1>4, <2>1 DEF StrictlyBetween
  <1>6. span = IF k < currentIndex THEN currentIndex - k - 1
                                   ELSE currentIndex - k - 1 + NumPlayers
    <2>1. CASE k < currentIndex
      <3>1. currentIndex - k - 1 \in 0 .. NumPlayers - 1
        BY <1>1, <2>1
      <3> QED BY <1>1, <2>1, <3>1, Wrap
    <2>2. CASE ~(k < currentIndex)
      <3>1. currentIndex - k - 1 \in (-NumPlayers) .. (-1)
        BY <1>1, <2>2
      <3> QED BY <1>1, <2>2, <3>1, Wrap
    <2> QED BY <2>1, <2>2
  <1> DEFINE j == (k + 1 + d) % NumPlayers
  <1>7. d \in Nat /\ d < span
    BY <1>1, <1>6
  <1> HIDE DEF span
  <1>8. j = IF k + 1 + d < NumPlayers THEN k + 1 + d ELSE k + 1 + d - NumPlayers
    <2>1. CASE k + 1 + d < NumPlayers
      <3>1. k + 1 + d \in 0 .. NumPlayers - 1
        BY <1>1, <1>7, <2>1
      <3> QED BY <1>1, <2>1, <3>1, Wrap
    <2>2. CASE ~(k + 1 + d < NumPlayers)
      <3>1. k + 1 + d \in NumPlayers .. 2 * NumPlayers - 1
        BY <1>1, <1>6, <1>7, <2>2
      <3> DEFINE a == k + 1 + d
      <3> HIDE DEF a
      <3>2. a \in NumPlayers .. 2 * NumPlayers - 1 => a % NumPlayers = a - NumPlayers
        BY <1>1, Wrap
      <3>3. (k + 1 + d) % NumPlayers = k + 1 + d - NumPlayers
        BY <1>1, <1>7, <3>1, <3>2 DEF a
      <3> QED BY <2>2, <3>3
    <2> QED BY <2>1, <2>2
  <1> HIDE DEF j
  <1>9. j \in 0 .. NumPlayers - 1 /\ Between(k, j, currentIndex)
    BY <1>1, <1>6, <1>7, <1>8 DEF Between
  <1>10. p = Seat(j)
    <2>1. p = Seating[1 + j]
      BY <1>5 DEF j
    <2> QED BY <1>1, <1>9, <2>1 DEF Seat
  <1> QED BY <1>2, <1>9, <1>10

(***************************************************************************)
(* Whoever is asked, all the players seated between the last to act and    *)
(* the one asked have folded: nobody is passed over, for any table, any    *)
(* order of the map and any keys.                                          *)
(***************************************************************************)
THEOREM NobodyIsPassedOver == Spec => []TurnsInOrder
  <1>1. Init => Progress /\ SeatsKept /\ FoldedSince
    BY DEF Init, TableInit, GameInit, Progress, SeatsKept, FoldedSince, InRound, RoundOver
  <1>2. /\ TypeOK /\ Seated /\ Progress /\ SeatsKept /\ FoldedSince /\ [Next]_vars
             => Progress' /\ SeatsKept' /\ FoldedSince'
    BY ProgressStep, SeatsKeptStep, FoldedSinceStep
  <1>3. TypeOK /\ Progress /\ SeatsKept /\ FoldedSince => TurnsInOrder
    BY OrderFollows
  <1> QED BY <1>1, <1>2, <1>3, TypeCorrect, EverybodyIsSeated, PTL DEF Spec

-----------------------------------------------------------------------------
(***************************************************************************)
(* The money of the first hand.  A payment that is under way is in the pot *)
(* before it is out of the player's pocket; of the blinds as many count as *)
(* were collected, and they are collected before anybody can raise.        *)
(***************************************************************************)
Collecting == gPc \in {"start", "deal", "blindRead", "blindPay", "blindBet"}

BlindsPaid ==
    IF gPc \in {"start", "deal"} \/ (gPc \in {"blindRead", "blindPay"} /\ cursor = 1) THEN 0
    ELSE IF gPc \in {"blindRead", "blindPay"} \/ (gPc = "blindBet" /\ cursor = 1)
      THEN InitialBet \div 2
    ELSE BlindsOfFirstHand

PotAhead == IF sPc \in {"payRead", "payWrite"} THEN Owed ELSE 0

FirstHand == handNo = 0 \/ (handNo = 1 /\ gPc \notin {"reset", "start"})

PotAccounts ==
    /\ handNo = 0 => gPc = "start"
    /\ FirstHand => Paid + PotAhead <= pot + BlindsPaid
    /\ FirstHand /\ Collecting => currentBet = InitialBet

\* Paid, with the money as a parameter.
SpentBy(m) == [p \in Players |-> InitialMoney - m[p]]

PaidOutOf(m) ==
    (CHOOSE iter : iter =
        [s \in SUBSET Players |->
            IF s = {} THEN 0
            ELSE (InitialMoney - m[CHOOSE x \in s : TRUE]) + iter[s \ {CHOOSE x \in s : TRUE}]])[Players]

LEMMA PaidIs == Paid = PaidOutOf(money) /\ Paid' = PaidOutOf(money')
  BY DEF Paid, MapThenSumSet, MapThenFoldSet, PaidOutOf

LEMMA PlayersFinite == IsFiniteSet(Players)
  BY FS_Interval, NumPlayersAssumption DEF Players

LEMMA PaidOutIsSum ==
  ASSUME NEW m \in [Players -> Int]
  PROVE  \E f \in [SUBSET Players -> Int] :
            IsSum(f, SpentBy(m), Players) /\ PaidOutOf(m) = f[Players]
  <1> DEFINE IsOne(g) == g =
        [s \in SUBSET Players |->
            IF s = {} THEN 0
            ELSE (InitialMoney - m[CHOOSE x \in s : TRUE]) + g[s \ {CHOOSE x \in s : TRUE}]]
             it == CHOOSE g : IsOne(g)
  <1>1. SpentBy(m) \in [Players -> Int]
    BY MoneyAssumption DEF SpentBy
  <1>2. ASSUME NEW g PROVE IsOne(g) <=> IsSum(g, SpentBy(m), Players)
    <2>1. \A s \in SUBSET Players : s # {} => OneOf(s) \in Players
      BY PlayersFinite, OneOut
    <2>2. \A s \in SUBSET Players : s # {} => SpentBy(m)[OneOf(s)] = InitialMoney - m[OneOf(s)]
      BY <2>1 DEF SpentBy
    <2>3. [s \in SUBSET Players |->
             IF s = {} THEN 0 ELSE (InitialMoney - m[OneOf(s)]) + g[s \ {OneOf(s)}]]
          = [s \in SUBSET Players |->
             IF s = {} THEN 0 ELSE SpentBy(m)[OneOf(s)] + g[s \ {OneOf(s)}]]
      BY <2>2
    <2> QED BY <2>3 DEF IsSum, OneOf
  <1>3. \E g : IsOne(g)
    <2> HIDE DEF IsOne
    <2> QED BY <1>1, <1>2, PlayersFinite, SumExists
  <1>4. IsOne(it)
    <2> HIDE DEF IsOne
    <2> QED BY <1>3
  <1>5. PaidOutOf(m) = it[Players]
    BY DEF PaidOutOf
  <1> HIDE DEF IsOne, it
  <1>6. IsSum(it, SpentBy(m), Players)
    BY <1>2, <1>4
  <1>7. it \in [SUBSET Players -> Int]
    BY <1>1, <1>6, PlayersFinite, SumIsNumber
  <1> QED BY <1>5, <1>6, <1>7

\* What one player pays is added to what all have paid.
LEMMA SpentSums ==
  ASSUME NEW v \in [Players -> Int], NEW w \in [Players -> Int], NEW p \in Players,
         \A q \in Players : q # p => w[q] = v[q],
         NEW f, IsSum(f, v, Players), NEW g, IsSum(g, w, Players)
  PROVE  g[Players] = f[Players] + (w[p] - v[p])
  BY PlayersFinite, SumChanges

LEMMA PaidDiffers ==
  ASSUME NEW m \in [Players -> Int], NEW n \in [Players -> Int], NEW p \in Players,
         \A q \in Players : q # p => n[q] = m[q]
  PROVE  PaidOutOf(n) = PaidOutOf(m) + (m[p] - n[p])
  <1>1. PICK f \in [SUBSET Players -> Int] :
           IsSum(f, SpentBy(m), Players) /\ PaidOutOf(m) = f[Players]
    BY PaidOutIsSum
  <1>2. PICK g \in [SUBSET Players -> Int] :
           IsSum(g, SpentBy(n), Players) /\ PaidOutOf(n) = g[Players]
    BY PaidOutIsSum
  <1>3. /\ SpentBy(m) \in [Players -> Int] /\ SpentBy(n) \in [Players -> Int]
        /\ \A q \in Players : q # p => SpentBy(n)[q] = SpentBy(m)[q]
    BY MoneyAssumption DEF SpentBy
  <1>4. g[Players] = f[Players] + (SpentBy(n)[p] - SpentBy(m)[p])
    BY <1>1, <1>2, <1>3, SpentSums
  <1>5. SpentBy(n)[p] - SpentBy(m)[p] = m[p] - n[p]
    BY MoneyAssumption DEF SpentBy
  <1> QED BY <1>1, <1>2, <1>4, <1>5

LEMMA PaymentAdds ==
  ASSUME NEW m \in [Players -> Int], NEW p \in Players, NEW d \in Int,
         NEW n, n = [m EXCEPT ![p] = m[p] - d]
  PROVE  PaidOutOf(n) = PaidOutOf(m) + d
  <1>1. /\ n \in [Players -> Int] /\ \A q \in Players : q # p => n[q] = m[q]
        /\ m[p] - n[p] = d
    OBVIOUS
  <1>2. PaidOutOf(n) = PaidOutOf(m) + (m[p] - n[p])
    BY <1>1, PaidDiffers
  <1> QED BY <1>1, <1>2

LEMMA PaidIsNumber == ASSUME NEW m \in [Players -> Int] PROVE PaidOutOf(m) \in Int
  <1>1. Players \in SUBSET Players
    OBVIOUS
  <1> QED BY <1>1, PaidOutIsSum

LEMMA NothingPaid ==
  ASSUME NEW m, m = [p \in Players |-> InitialMoney]
  PROVE  PaidOutOf(m) = 0
  <1>1. m \in [Players -> Int]
    BY MoneyAssumption
  <1>2. PICK f \in [SUBSET Players -> Int] :
           IsSum(f, SpentBy(m), Players) /\ PaidOutOf(m) = f[Players]
    BY <1>1, PaidOutIsSum
  <1>3. SpentBy(m) \in [Players -> Int] /\ \A q \in Players : SpentBy(m)[q] = 0
    BY MoneyAssumption DEF SpentBy
  <1> QED BY <1>2, <1>3, PlayersFinite, SumOfZeros

LEMMA AccountsByServer ==
  ASSUME TypeOK, Handoff, UpdatesAreNotLost, PaysForAction, PotAccounts, MainStep
  PROVE  PotAccounts'
  <1>a. /\ money \in [Players -> Int] /\ bet \in [Players -> Nat]
        /\ currentBet \in Nat /\ pot \in Int /\ InitialMoney \in Nat /\ InitialBet \in Nat
        /\ sPc # "idle" => sMsg.player \in Players /\ sMsg.kind \in Kinds
    BY MoneyAssumption DEF TypeOK, TableTypeOK, ServerTypeOK, Messages
  <1>b. /\ gPc' = gPc /\ cursor' = cursor /\ handNo' = handNo
        /\ FirstHand' = FirstHand /\ BlindsPaid' = BlindsPaid /\ Collecting' = Collecting
    BY DEF MainStep, gameVars, FirstHand, BlindsPaid, Collecting
  <1>c. Paid = PaidOutOf(money) /\ Paid' = PaidOutOf(money') /\ Paid \in Int
    BY <1>a, PaidIs, PaidIsNumber
  <1>d. BlindsPaid \in Int
    BY <1>a DEF BlindsPaid, BlindsOfFirstHand
  <1>1. (FirstHand /\ Collecting => currentBet = InitialBet)'
    <2> SUFFICES ASSUME FirstHand, Collecting PROVE currentBet' = InitialBet
        BY <1>b
    <2>1. Notify
      BY ServerRests DEF Waiting, Collecting
    <2> QED BY <2>1 DEF Notify, moneyVars, PotAccounts
  <1>2. ASSUME money' = money, pot' = pot, PotAhead' = PotAhead PROVE PotAccounts'
    <2>1. Paid' = Paid
      BY <1>c, <1>2
    <2> QED BY <1>b, <1>1, <1>2, <2>1 DEF PotAccounts
  <1>3. CASE PotWrite
    <2>1. /\ money' = money /\ pot' = pot + currentBet /\ PotAhead = 0
          /\ sPc' = "payRead" /\ Owed' = Owed /\ sMsg.player \in Players
      BY <1>3, <1>a DEF PotWrite, UpdatesAreNotLost, PotAhead, Owed
    <2>2. Owed <= currentBet /\ Owed \in Int
      BY <1>a, <2>1 DEF Owed
    <2>3. PotAhead' = Owed /\ Paid' = Paid
      BY <1>c, <2>1 DEF PotAhead
    <2>4. FirstHand => Paid + Owed <= pot + currentBet + BlindsPaid
      BY <1>a, <1>c, <1>d, <2>1, <2>2 DEF PotAccounts
    <2> QED BY <1>a, <1>b, <1>c, <1>d, <1>1, <2>1, <2>2, <2>3, <2>4 DEF PotAccounts
  <1>4. CASE PayWrite
    <2>1. /\ money' = [money EXCEPT ![sMsg.player] = money[sMsg.player] - Owed]
          /\ pot' = pot /\ PotAhead = Owed /\ sPc' = "setBet" /\ sMsg.player \in Players
      BY <1>4, <1>a DEF PayWrite, UpdatesAreNotLost, PotAhead
    <2>2. Owed \in Int
      BY <1>a, <2>1 DEF Owed
    <2>3. Paid' = Paid + Owed
      <3> DEFINE p == sMsg.player
                 d == Owed
      <3>1. p \in Players /\ d \in Int /\ money' = [money EXCEPT ![p] = money[p] - d]
        BY <2>1, <2>2
      <3> HIDE DEF p, d
      <3>2. PaidOutOf(money') = PaidOutOf(money) + d
        BY <1>a, <3>1, PaymentAdds
      <3> QED BY <1>c, <3>2 DEF d
    <2>4. PotAhead' = 0
      BY <2>1 DEF PotAhead
    <2> QED BY <1>a, <1>b, <1>c, <1>d, <1>1, <2>1, <2>2, <2>3, <2>4 DEF PotAccounts
  <1>5. CASE \/ Pop \/ SetPlayerFold \/ DoubleBet \/ PotRead \/ PayRead
             \/ UpdatePlayerBet \/ ToggleRead \/ ToggleWrite \/ Notify
    <2>1. money' = money /\ pot' = pot
      BY <1>5 DEF Pop, SetPlayerFold, DoubleBet, PotRead, PayRead, UpdatePlayerBet,
         ToggleRead, ToggleWrite, Notify, tableVars, moneyVars
    <2>2. PotAhead' = PotAhead
      BY <1>5 DEF Pop, SetPlayerFold, DoubleBet, PotRead, PayRead, UpdatePlayerBet,
         ToggleRead, ToggleWrite, Notify, tableVars, moneyVars, PotAhead, Owed
    <2> QED BY <1>2, <2>1, <2>2
  <1> QED BY <1>3, <1>4, <1>5 DEF MainStep, ServerStep

LEMMA AccountsByGame ==
  ASSUME TypeOK, Handoff, UpdatesAreNotLost, PotAccounts, GameStep
  PROVE  PotAccounts'
  <1>a. /\ money \in [Players -> Int] /\ currentBet \in Nat /\ pot \in Int /\ handNo \in Nat
        /\ InitialMoney \in Nat /\ InitialBet \in Nat /\ InitialBet \div 2 \in Nat
    BY MoneyAssumption DEF TypeOK, TableTypeOK, GameTypeOK
  <1>b. Paid = PaidOutOf(money) /\ Paid' = PaidOutOf(money') /\ Paid \in Int
    BY <1>a, PaidIs, PaidIsNumber
  <1>c. ~Waiting \/ gPc = "consume" => PotAhead = 0 /\ PotAhead' = 0
    <2> SUFFICES ASSUME ~Waiting \/ gPc = "consume" PROVE PotAhead = 0 /\ PotAhead' = 0
        OBVIOUS
    <2>1. ~Acting
      BY DEF Handoff, Waiting, Quiet, Flagged
    <2>2. sPc \notin {"payRead", "payWrite"} /\ sPc' = sPc
      BY <2>1 DEF Acting, GameStep, serverLocals
    <2> QED BY <2>2 DEF PotAhead
  <1>1. CASE StartGame
    <2>1. /\ gPc = "start" /\ gPc' = "deal" /\ handNo' = handNo + 1
          /\ money' = money /\ pot' = pot /\ currentBet' = currentBet /\ ~Waiting
      BY <1>1 DEF StartGame, tableVars, Waiting
    <2>2. FirstHand' => FirstHand /\ Collecting
      BY <1>a, <2>1 DEF FirstHand, Collecting
    <2>3. BlindsPaid' = 0 /\ BlindsPaid = 0 /\ Paid' = Paid /\ handNo' # 0
      BY <1>a, <1>b, <2>1 DEF BlindsPaid
    <2> QED BY <1>c, <2>1, <2>2, <2>3 DEF PotAccounts
  <1>2. ASSUME ~Waiting, gPc # "start", money' = money, pot' = pot, currentBet' = currentBet,
               handNo' = handNo, gPc' # "start", BlindsPaid' = BlindsPaid, gPc # "reset",
               Collecting' => Collecting
        PROVE  PotAccounts'
    <2>1. Paid' = Paid /\ (FirstHand' => FirstHand) /\ handNo' # 0
      BY <1>b, <1>2 DEF FirstHand, PotAccounts
    <2> QED BY <1>c, <1>2, <2>1 DEF PotAccounts
  <1>3. CASE Deal \/ BlindRead
    <2>1. /\ money' = money /\ pot' = pot /\ currentBet' = currentBet /\ handNo' = handNo
          /\ ~Waiting /\ Collecting
          /\ \/ gPc = "deal" /\ gPc' = "deal"
             \/ gPc = "deal" /\ gPc' = "blindRead" /\ cursor' = 1
             \/ gPc = "blindRead" /\ gPc' = "blindPay" /\ cursor' = cursor
      BY <1>3 DEF Deal, BlindRead, tableVars, handVars, Waiting, Collecting
    <2>2. BlindsPaid' = BlindsPaid
      BY <2>1 DEF BlindsPaid
    <2> QED BY <1>2, <2>1, <2>2
  <1>4. CASE BlindPay
    <2> DEFINE p == BlindPlayer
    <2>1. /\ p \in Players /\ cursor \in {1, 2}
          /\ gPc = "blindPay" /\ gPc' = "blindBet" /\ handNo' = handNo /\ cursor' = cursor
          /\ pot' = pot /\ currentBet' = currentBet /\ ~Waiting
      BY <1>4, SeatIsPlayer DEF BlindPay, handVars, Waiting, BlindPlayer, TypeOK, GameTypeOK
    <2>2. money' = [money EXCEPT ![p] = money[p] - BlindAmount]
      BY <1>4 DEF BlindPay, UpdatesAreNotLost
    <2>3. BlindAmount \in Int
      BY <1>a DEF BlindAmount
    <2>4. Paid' = Paid + BlindAmount
      <3> HIDE DEF p
      <3> QED BY <1>a, <1>b, <2>1, <2>2, <2>3, PaymentAdds
    <2>5. FirstHand' = FirstHand /\ Collecting /\ handNo' # 0
      BY <2>1 DEF FirstHand, Collecting, PotAccounts
    <2>6. FirstHand => BlindsPaid' = BlindsPaid + BlindAmount /\ BlindsPaid \in Int
      <3> SUFFICES ASSUME FirstHand PROVE BlindsPaid' = BlindsPaid + BlindAmount /\ BlindsPaid \in Int
          OBVIOUS
      <3>1. currentBet = InitialBet
        BY <2>5 DEF PotAccounts
      <3> QED BY <1>a, <2>1, <3>1 DEF BlindsPaid, BlindAmount, BlindsOfFirstHand
    <2> HIDE DEF p
    <2>7. FirstHand => Paid' + PotAhead' <= pot' + BlindsPaid'
      BY <1>a, <1>b, <1>c, <2>1, <2>3, <2>4, <2>5, <2>6 DEF PotAccounts
    <2> QED BY <2>1, <2>5, <2>7 DEF PotAccounts
  <1>5. CASE BlindBet
    <2>1. /\ money' = money /\ pot' = pot /\ currentBet' = currentBet /\ handNo' = handNo
          /\ ~Waiting /\ Collecting /\ gPc = "blindBet" /\ cursor \in {1, 2}
          /\ IF cursor = 1 THEN gPc' = "blindRead" /\ cursor' = 2 ELSE gPc' = "stage"
      BY <1>5 DEF BlindBet, Waiting, Collecting, TypeOK, GameTypeOK
    <2>2. BlindsPaid' = BlindsPaid
      BY <2>1 DEF BlindsPaid
    <2> QED BY <1>2, <2>1, <2>2
  <1>6. CASE EnterStage \/ DrawBoard \/ LoopTest \/ BetsDiffer \/ BetsEqual
             \/ SkipFolded \/ SendSync
    <2>1. /\ gPc \in {"stage", "draw", "loop", "equal", "turn"}
          /\ gPc' \in {"stage", "draw", "loop", "equal", "turn", "test"}
          /\ money' = money /\ pot' = pot /\ currentBet' = currentBet /\ handNo' = handNo
      BY <1>6 DEF EnterStage, DrawBoard, LoopTest, BetsDiffer, BetsEqual, SkipFolded,
         SendSync, AdvanceSeat, tableVars, handVars
    <2>2. BlindsPaid' = BlindsPaid /\ ~Waiting /\ ~Collecting'
      BY <2>1 DEF BlindsPaid, Waiting, Collecting
    <2> QED BY <1>2, <2>1, <2>2
  <1>7. CASE CardChecking
    <2>1. NumActive # 1
      BY ActiveLength, NumPlayersAssumption
    <2>2. /\ gPc = "stage" /\ gPc' \in {"aborted", "ending"}
          /\ money' = money /\ pot' = pot /\ currentBet' = currentBet /\ handNo' = handNo
      BY <1>7, <2>1 DEF CardChecking, handVars
    <2>3. BlindsPaid' = BlindsPaid /\ ~Waiting /\ ~Collecting'
      BY <2>2 DEF BlindsPaid, Waiting, Collecting
    <2> QED BY <1>2, <2>2, <2>3
  <1>8. CASE TestFlag \/ Sleep \/ Wake \/ Consume
    <2>1. /\ gPc \in {"test", "presleep", "asleep", "consume"}
          /\ gPc' \in {"test", "presleep", "asleep", "consume", "loop"}
          /\ UNCHANGED <<money, bet, pot, currentBet, handNo, sPc, sMsg>>
      BY <1>8 DEF TestFlag, Sleep, Wake, Consume, AdvanceSeat, tableVars, moneyVars,
         handVars, GameStep, serverLocals
    <2>2. BlindsPaid' = BlindsPaid /\ ~Collecting' /\ FirstHand' = FirstHand
      BY <2>1 DEF BlindsPaid, Collecting, FirstHand
    <2>3. PotAhead' = PotAhead /\ Paid' = Paid
      BY <1>b, <2>1 DEF PotAhead, Owed
    <2> QED BY <2>1, <2>2, <2>3 DEF PotAccounts
  <1>9. CASE ClearPot \/ ResetPlayer
    <2>1. gPc' \in {"reset", "start"} /\ handNo' = handNo /\ gPc # "start"
      BY <1>9 DEF ClearPot, ResetPlayer
    <2>2. ~FirstHand' /\ handNo' # 0
      BY <2>1 DEF FirstHand, PotAccounts
    <2> QED BY <2>2 DEF PotAccounts
  <1> QED BY <1>1, <1>3, <1>4, <1>5, <1>6, <1>7, <1>8, <1>9 DEF GameStep, QuietStep

(***************************************************************************)
(* When no player presses a key out of turn, what the players paid in the  *)
(* first hand beyond the blinds is in the pot, at every step of every      *)
(* handler, for any number of players.                                     *)
(***************************************************************************)
THEOREM PotCovers == Impatient = {} => (Spec => []PotCoversPayments)
  <1> SUFFICES ASSUME Impatient = {} PROVE Spec => []PotCoversPayments
      OBVIOUS
  <1>1. Init => PotAccounts
    <2> SUFFICES ASSUME Init PROVE PotAccounts
        OBVIOUS
    <2>1. Paid = 0
      BY PaidIs, NothingPaid DEF Init, TableInit
    <2>2. PotAhead = 0 /\ BlindsPaid = 0 /\ pot = 0 /\ handNo = 0 /\ gPc = "start"
          /\ currentBet = InitialBet
      BY DEF Init, TableInit, ServerInit, GameInit, PotAhead, BlindsPaid
    <2> QED BY <2>1, <2>2 DEF PotAccounts
  <1>2. TypeOK /\ Handoff /\ UpdatesAreNotLost /\ Linked /\ PotAccounts /\ [Next]_vars
            => PotAccounts'
    <2> SUFFICES ASSUME TypeOK, Handoff, UpdatesAreNotLost, Linked, PotAccounts, [Next]_vars
                 PROVE  PotAccounts'
        OBVIOUS
    <2>1. CASE MainStep
      BY <2>1, AccountsByServer DEF Linked
    <2>2. CASE GameStep
      BY <2>2, AccountsByGame
    <2>3. ASSUME UNCHANGED <<moneyVars, serverLocals, gameVars>> PROVE PotAccounts'
      <3>1. UNCHANGED <<money, bet, pot, currentBet, sPc, sMsg, gPc, cursor, handNo>>
        BY <2>3 DEF moneyVars, serverLocals, gameVars
      <3>2. Paid' = Paid
        BY <3>1, PaidIs
      <3>3. PotAhead' = PotAhead /\ BlindsPaid' = BlindsPaid /\ FirstHand' = FirstHand
            /\ Collecting' = Collecting
        BY <3>1 DEF PotAhead, Owed, BlindsPaid, FirstHand, Collecting
      <3> QED BY <3>1, <3>2, <3>3 DEF PotAccounts
    <2>4. CASE SpuriousWakeup /\ UNCHANGED <<inbox, serverLocals, clientVars>>
      BY <2>3, <2>4 DEF SpuriousWakeup
    <2>5. CASE \E p \in Players : Answer(p)
      BY <2>3, <2>5 DEF Answer, Send, tableVars, moneyVars
    <2>6. CASE UNCHANGED vars
      BY <2>3, <2>6 DEF vars, tableVars, moneyVars
    <2> QED BY <2>1, <2>2, <2>4, <2>5, <2>6 DEF Next, StrayKey
  <1>3. TypeOK /\ BetNeverExceedsCurrent /\ PotAccounts => PotCoversPayments
    <2> SUFFICES ASSUME TypeOK, BetNeverExceedsCurrent, PotAccounts, handNo = 1, gPc \notin {"reset", "start"}
                 PROVE  Paid <= pot + BlindsOfFirstHand
        BY DEF PotCoversPayments
    <2>1. /\ money \in [Players -> Int] /\ pot \in Int /\ InitialBet \in Nat
          /\ InitialBet \div 2 \in Nat
      BY MoneyAssumption DEF TypeOK, TableTypeOK
    <2>2. Paid \in Int
      BY <2>1, PaidIs, PaidIsNumber
    <2>3. PotAhead \in Nat
      <3>1. CASE sPc \notin {"payRead", "payWrite"}
        BY <3>1 DEF PotAhead
      <3>2. CASE sPc \in {"payRead", "payWrite"}
        <4>1. sMsg.player \in Players /\ bet \in [Players -> Nat] /\ currentBet \in Nat
          BY <3>2 DEF TypeOK, TableTypeOK, ServerTypeOK, Messages
        <4>2. bet[sMsg.player] \in Nat /\ bet[sMsg.player] <= currentBet
          BY <4>1 DEF BetNeverExceedsCurrent
        <4> QED BY <3>2, <4>1, <4>2 DEF PotAhead, Owed
      <3> QED BY <3>1, <3>2
    <2>4. Paid + PotAhead <= pot + BlindsPaid
      BY DEF PotAccounts, FirstHand
    <2>5. BlindsPaid \in Int /\ BlindsPaid <= BlindsOfFirstHand /\ BlindsOfFirstHand \in Int
      BY <2>1 DEF BlindsPaid, BlindsOfFirstHand
    <2> QED BY <2>1, <2>2, <2>3, <2>4, <2>5
  <1>4. Spec => []Handoff /\ []UpdatesAreNotLost /\ []Linked
    BY HandoffHolds, NoUpdateLost, LinkHolds
  <1> QED BY <1>1, <1>2, <1>3, <1>4, TypeCorrect, BetsBounded, PTL DEF Spec
=============================================================================
