------------------------------ MODULE GameThread ------------------------------
(***************************************************************************)
(* The game thread: Game::game_loop.  One action per step that another     *)
(* thread can see or disturb.  The thread takes GameState::m_mutex only    *)
(* inside sendMessage; it waits for a player on GameState::m_cond with a   *)
(* mutex of its own, so the flag it tests there is not protected.          *)
(***************************************************************************)
EXTENDS GameState

CONSTANT MaxHands           \* bound: hands the thread plays

VARIABLES
    gPc,                \* where the thread is
    gReg,               \* the value a read-modify-write will store
    cursor,             \* position in the loop being run (deal, blinds,
                        \* equalBets, reset)
    handNo,             \* hands started (counts towards MaxHands)
    deck,               \* Deque::m_cards; shuffled, so a set
    board,              \* communityCards
    blinds,             \* <<m_smallBlind, m_bigBlind>>
    stage,              \* the local stage of run_game
    currentIndex,       \* the seat whose turn it is, from 0
    currentId,          \* Game::currentId
    actionsThisRound,   \* local of bettingRound, a uint8_t
    winner,             \* idWinner of the last showdown
    acted,              \* history: players whose action this round consumed
    lastActor           \* history: the last of them

handVars  == <<handNo, deck, board, blinds>>
roundVars == <<currentIndex, currentId, actionsThisRound, acted, lastActor>>
gameVars  == <<gPc, gReg, cursor, handNo, deck, board, blinds, stage,
               currentIndex, currentId, actionsThisRound, winner, acted,
               lastActor>>

BettingStages == {"PreFlop", "Flop", "Turn", "River"}

\* Cards added to the board when a stage begins.  Fault: the loop of the flop
\* ends one card early.
ShortFlop  == [PreFlop |-> 0, Flop |-> 2, Turn |-> 1, River |-> 1]
BoardCards == [PreFlop |-> 0, Flop |-> 3, Turn |-> 1, River |-> 1]

GameTypeOK ==
    /\ gPc \in {"start", "deal", "blindRead", "blindPay", "blindBet", "stage",
                "draw", "loop", "equal", "turn", "test", "presleep", "asleep",
                "consume", "ending", "reset", "aborted"}
    /\ gReg \in Int
    /\ cursor \in 1 .. NumPlayers
    /\ gPc \in {"blindRead", "blindPay", "blindBet"} => cursor \in {1, 2}
    /\ gPc = "draw" => cursor <= BoardCards[stage]
    /\ gPc \in {"draw", "loop", "equal", "turn", "test", "presleep", "asleep",
                "consume"} => stage \in BettingStages
    /\ handNo \in Nat
    /\ deck \subseteq Cards
    /\ board \subseteq Cards
    /\ blinds \in [1 .. 2 -> 0 .. NumPlayers - 1]
    /\ stage \in BettingStages \cup {"CardChecking"}
    /\ currentIndex \in 0 .. NumPlayers - 1
    /\ currentId \in Players
    /\ actionsThisRound \in 0 .. UInt8 - 1
    /\ winner \in Players \cup {NoPlayer}
    /\ acted \subseteq Players
    /\ lastActor \in Players \cup {NoPlayer}

GameInit ==
    /\ gPc = "start"
    /\ gReg = 0
    /\ cursor = 1
    /\ handNo = 0
    /\ deck = Cards
    /\ board = {}
    /\ blinds = <<0, 1>>
    /\ stage = "PreFlop"
    /\ currentIndex = 0
    /\ currentId = 0
    /\ actionsThisRound = 0
    /\ winner = NoPlayer
    /\ acted = {}
    /\ lastActor = NoPlayer

NumActive == Len(activePlayersId)

\* The player at seat i of m_activePlayersId, counted from 0 as in the code.
Seat(i) == activePlayersId[i + 1]

\* The cards getCard() may return.  After a shuffle every card of d may be on
\* top; DrawChoices keeps the lowest of them.
Drawable(d) == {c \in d : Cardinality({x \in d : x < c}) < DrawChoices}

(***************************************************************************)
(* start_game                                                              *)
(***************************************************************************)
StartGame ==
    /\ gPc = "start"
    /\ handNo < MaxHands
    /\ handNo' = handNo + 1
    /\ cursor' = 1
    /\ gPc' = "deal"
    /\ UNCHANGED <<tableVars, gReg, deck, board, blinds, stage, roundVars,
                   winner>>

\* Two cards to the next player in the map; sendMessage takes the lock.
Deal ==
    /\ gPc = "deal"
    /\ ~locked
    /\ \E c1 \in Drawable(deck) : \E c2 \in Drawable(deck \ {c1}) :
          /\ hand' = [hand EXCEPT ![MapOrder[cursor]] = {c1, c2}]
          /\ deck' = deck \ {c1, c2}
    /\ IF cursor < NumPlayers
         THEN cursor' = cursor + 1 /\ gPc' = gPc
         ELSE cursor' = 1 /\ gPc' = "blindRead"
    /\ UNCHANGED <<money, bet, folded, activePlayersId, currentBet, pot,
                   syncVars, gReg, handNo, board, blinds, stage, roundVars,
                   winner>>

(***************************************************************************)
(* run_game: collectBlinds, which takes no lock.  cursor is 1 for the      *)
(* small blind, 2 for the big one.                                         *)
(***************************************************************************)
BlindPlayer == Seat(blinds[cursor])

\* Fault: the current bet is taken for the small blind.
DoubleBlinds == IF cursor = 1 THEN currentBet ELSE 2 * currentBet
BlindAmount  == IF cursor = 1 THEN currentBet \div 2 ELSE currentBet

BlindRead ==
    /\ gPc = "blindRead"
    /\ gReg' = money[BlindPlayer] - BlindAmount
    /\ gPc' = "blindPay"
    /\ UNCHANGED <<tableVars, cursor, handVars, stage, roundVars, winner>>

BlindPay ==
    /\ gPc = "blindPay"
    /\ money' = [money EXCEPT ![BlindPlayer] = gReg]
    /\ gReg' = 0
    /\ gPc' = "blindBet"
    /\ UNCHANGED <<bet, folded, hand, activePlayersId, currentBet, pot,
                   syncVars, cursor, handVars, stage, roundVars, winner>>

\* The second setBet is followed by the locals of run_game and the messages
\* that tell the players their money.
BlindBet ==
    /\ gPc = "blindBet"
    /\ bet' = [bet EXCEPT ![BlindPlayer] = BlindAmount]
    /\ IF cursor = 1
         THEN cursor' = 2 /\ gPc' = "blindRead" /\ UNCHANGED <<stage, board>>
         ELSE /\ cursor' = 1 /\ gPc' = "stage"
              /\ stage' = "PreFlop" /\ board' = {}
    /\ UNCHANGED <<money, folded, hand, activePlayersId, currentBet, pot,
                   syncVars, gReg, handNo, deck, blinds, roundVars, winner>>

(***************************************************************************)
(* run_game: the switch over the stages, and the head of bettingRound.     *)
(***************************************************************************)
FirstIndex == IF stage = "PreFlop" THEN 2 ELSE 0

FollowingStage == [PreFlop |-> "Flop",  Flop  |-> "Turn",
                   Turn    |-> "River", River |-> "CardChecking"]

NextStage == IF NumActive = 1 THEN "CardChecking" ELSE FollowingStage[stage]

EnterStage ==
    /\ gPc = "stage"
    /\ stage \in BettingStages
    /\ currentIndex' = FirstIndex
    /\ currentId' = Seat(FirstIndex)
    /\ actionsThisRound' = 0
    /\ acted' = {}
    /\ lastActor' = NoPlayer
    /\ cursor' = 1
    /\ gPc' = IF BoardCards[stage] = 0 THEN "loop" ELSE "draw"
    /\ UNCHANGED <<tableVars, gReg, handVars, stage, winner>>

DrawBoard ==
    /\ gPc = "draw"
    /\ \E c \in Drawable(deck) : board' = board \cup {c} /\ deck' = deck \ {c}
    /\ IF cursor < BoardCards[stage]
         THEN cursor' = cursor + 1 /\ UNCHANGED gPc
         ELSE cursor' = 1 /\ gPc' = "loop"
    /\ UNCHANGED <<tableVars, gReg, handNo, blinds, stage, roundVars, winner>>

(***************************************************************************)
(* bettingRound: the loop condition.  playersNeeded is the number of       *)
(* active players, which no step of a betting round changes.               *)
(***************************************************************************)
\* Fault: the round is over one action early.
OneActionShort == actionsThisRound + 1 < NumActive
ActionsMissing == actionsThisRound < NumActive

LoopTest ==
    /\ gPc = "loop"
    /\ IF NumActive > 1 /\ ActionsMissing
         THEN gPc' = "turn" /\ UNCHANGED stage
         ELSE IF NumActive > 1
                THEN gPc' = "equal" /\ UNCHANGED stage
                ELSE gPc' = "stage" /\ stage' = NextStage
    /\ cursor' = 1
    /\ UNCHANGED <<tableVars, gReg, handVars, roundVars, winner>>

\* equalBets looks at one player at a time, folded or not.
BetsDiffer ==
    /\ gPc = "equal"
    /\ bet[activePlayersId[cursor]] # currentBet
    /\ cursor' = 1
    /\ gPc' = "turn"
    /\ UNCHANGED <<tableVars, gReg, handVars, stage, roundVars, winner>>

\* Fault: the first equal bet decides.
NoMoreBets == FALSE
MoreBets   == cursor < NumActive

BetsEqual ==
    /\ gPc = "equal"
    /\ bet[activePlayersId[cursor]] = currentBet
    /\ IF MoreBets
         THEN cursor' = cursor + 1 /\ UNCHANGED <<gPc, stage>>
         ELSE cursor' = 1 /\ gPc' = "stage" /\ stage' = NextStage
    /\ UNCHANGED <<tableVars, gReg, handVars, roundVars, winner>>

(***************************************************************************)
(* bettingRound: one turn.                                                 *)
(***************************************************************************)
\* Fault: the wrap around comes one seat early.
WrapsEarly == IF currentIndex + 1 >= NumActive - 1 THEN 0 ELSE currentIndex + 1
NextIndex  == IF currentIndex + 1 >= NumActive THEN 0 ELSE currentIndex + 1

AdvanceSeat ==
    /\ currentIndex' = NextIndex
    /\ currentId' = Seat(NextIndex)
    /\ gPc' = "loop"

SkipFolded ==
    /\ gPc = "turn"
    /\ folded[currentId]
    /\ AdvanceSeat
    /\ UNCHANGED <<tableVars, gReg, cursor, handVars, stage, actionsThisRound,
                   winner, acted, lastActor>>

\* Fault: the showdown does not wait for the last player of the river.
LastNotAwaited ==
    /\ gPc = "turn"
    /\ ~folded[currentId]
    /\ ~locked
    /\ IF stage # "River" \/ actionsThisRound + 1 < NumActive
         THEN gPc' = "test" /\ UNCHANGED stage
         ELSE gPc' = "stage" /\ stage' = NextStage
    /\ UNCHANGED <<tableVars, gReg, cursor, handVars, roundVars, winner>>

\* The Sync message; sendMessage takes the lock.  GameStep of PokerServer
\* prompts the client.
SendSync ==
    /\ gPc = "turn"
    /\ ~folded[currentId]
    /\ ~locked
    /\ gPc' = "test"
    /\ UNCHANGED <<tableVars, gReg, cursor, handVars, stage, roundVars, winner>>

\* m_cond.wait(lck, pred): test the flag, enter the wait set, leave it, test
\* again.  lck is Game::m_mutex, which no other thread ever takes, so the
\* server can set the flag and notify between the test and the wait.
TestFlag ==
    /\ gPc = "test"
    /\ gPc' = IF playerAction THEN "consume" ELSE "presleep"
    /\ UNCHANGED <<tableVars, gReg, cursor, handVars, stage, roundVars, winner>>

Sleep ==
    /\ gPc = "presleep"
    /\ condWaiting' = TRUE
    /\ gPc' = "asleep"
    /\ UNCHANGED <<moneyVars, hand, activePlayersId, playerAction, locked,
                   gReg, cursor, handVars, stage, roundVars, winner>>

\* Fault: the wait has no predicate to test again.
WakeWithoutTest ==
    /\ gPc = "asleep"
    /\ ~condWaiting
    /\ gPc' = "consume"
    /\ UNCHANGED <<tableVars, gReg, cursor, handVars, stage, roundVars, winner>>

Wake ==
    /\ gPc = "asleep"
    /\ ~condWaiting
    /\ gPc' = "test"
    /\ UNCHANGED <<tableVars, gReg, cursor, handVars, stage, roundVars, winner>>

\* A condition variable may wake a thread nobody notified.
SpuriousWakeup ==
    /\ condWaiting
    /\ condWaiting' = FALSE
    /\ UNCHANGED <<moneyVars, hand, activePlayersId, playerAction, locked,
                   gameVars>>

Consume ==
    /\ gPc = "consume"
    /\ playerAction' = FALSE
    /\ actionsThisRound' = (actionsThisRound + 1) % UInt8
    /\ acted' = acted \cup {currentId}
    /\ lastActor' = currentId
    /\ AdvanceSeat
    /\ UNCHANGED <<moneyVars, hand, activePlayersId, locked, condWaiting,
                   gReg, cursor, handVars, stage, winner>>

(***************************************************************************)
(* The showdown.  omp::Hand is not initialised before cards are added to   *)
(* it, so the evaluated values are arbitrary: any player of                *)
(* m_activePlayersId may come out best, folded ones too.  If no value is   *)
(* positive idWinner is never assigned, and looking it up in the map       *)
(* throws in a thread that catches nothing.  Only the branch of a single   *)
(* player credits the pot.                                                 *)
(***************************************************************************)
CardChecking ==
    /\ gPc = "stage"
    /\ stage = "CardChecking"
    /\ IF NumActive = 1
         THEN /\ winner' = Seat(0)
              /\ money' = [money EXCEPT ![Seat(0)] = @ + pot]
         ELSE /\ winner' \in {Seat(i) : i \in 0 .. NumActive - 1} \cup {NoPlayer}
              /\ UNCHANGED money
    /\ gPc' = IF winner' = NoPlayer THEN "aborted" ELSE "ending"
    /\ UNCHANGED <<bet, folded, hand, activePlayersId, currentBet, pot,
                   syncVars, gReg, cursor, handVars, stage, roundVars>>

(***************************************************************************)
(* ending_round, which takes no lock.                                      *)
(***************************************************************************)
\* Fault: the blinds do not wrap around.
NotWrapped(b) == b + 1
Rotated(b)    == (b + 1) % NumActive

ClearPot ==
    /\ gPc = "ending"
    /\ pot' = 0
    /\ blinds' = [b \in 1 .. 2 |-> Rotated(blinds[b])]
    /\ cursor' = 1
    /\ gPc' = "reset"
    /\ UNCHANGED <<money, bet, folded, hand, activePlayersId, currentBet,
                   syncVars, gReg, handNo, deck, board, stage, roundVars,
                   winner>>

\* reset_round of the next player in the map.  m_activePlayersId, which only
\* this thread uses, is rebuilt along the way; the deck is refilled at the end.
ResetPlayer ==
    /\ gPc = "reset"
    /\ bet' = [bet EXCEPT ![MapOrder[cursor]] = 0]
    /\ hand' = [hand EXCEPT ![MapOrder[cursor]] = {}]
    /\ folded' = [folded EXCEPT ![MapOrder[cursor]] = FALSE]
    /\ IF cursor < NumPlayers
         THEN cursor' = cursor + 1 /\ UNCHANGED <<gPc, activePlayersId, deck>>
         ELSE /\ cursor' = 1 /\ gPc' = "start"
              /\ activePlayersId' = MapOrder
              /\ deck' = Cards
    /\ UNCHANGED <<money, currentBet, pot, syncVars, gReg, handNo, board,
                   blinds, stage, roundVars, winner>>

=============================================================================
