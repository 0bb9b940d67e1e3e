------------------------------ MODULE GameState ------------------------------
(***************************************************************************)
(* The data the server's main thread and the game thread share: class      *)
(* GameState with its map of Players.  The module declares that data and   *)
(* the constants; the operations of GameState are steps of the thread that *)
(* calls them (ServerThread and GameThread), because most of them can be   *)
(* cut in the middle by the other thread.                                  *)
(***************************************************************************)
EXTENDS Integers, Sequences, FiniteSets

CONSTANTS
    NumPlayers,     \* players at the table, 5 in Server::on_client_connect
    MapOrder,       \* the order in which iterating m_players visits the ids
    InitialMoney,   \* Player::m_money at construction, 2500
    InitialBet,     \* GameState::m_currentBet at construction, 50
    UInt8,          \* number of values of a uint8_t, 256
    DeckSize,       \* cards in the deck, 52
    DrawChoices     \* exploration bound: cards a draw chooses from

Players  == 0 .. NumPlayers - 1
NoPlayer == NumPlayers
Cards    == 1 .. DeckSize

\* Ids are handed out in order of connection, and m_activePlayersId gets them
\* in that order: the seating of the first hand.
JoinOrder == [i \in 1 .. NumPlayers |-> i - 1]

\* Three seats at least: run_game starts the betting at index 2.
ASSUME NumPlayersAssumption == NumPlayers \in Nat /\ NumPlayers >= 3
ASSUME MapOrderAssumption ==
    /\ MapOrder \in [1 .. NumPlayers -> Players]
    /\ \A p \in Players : \E i \in 1 .. NumPlayers : MapOrder[i] = p
ASSUME MoneyAssumption == InitialMoney \in Nat /\ InitialBet \in Nat
ASSUME UInt8Assumption == UInt8 \in Nat /\ UInt8 > NumPlayers
ASSUME DeckAssumption ==
    DeckSize \in Nat /\ DeckSize >= 2 * NumPlayers + 5 /\ DrawChoices \in Nat

VARIABLES
    money,              \* Player::m_money (long long; may go below zero)
    bet,                \* Player::m_bet
    folded,             \* Player::m_folded
    hand,               \* Player::hand, the set of cards it holds
    activePlayersId,    \* m_activePlayersId
    currentBet,         \* m_currentBet
    pot,                \* m_pot
    playerAction,       \* m_playerAction
    locked,             \* m_mutex is held by the server thread
    condWaiting         \* the game thread is in the wait set of m_cond

moneyVars == <<money, bet, folded, currentBet, pot>>
syncVars  == <<playerAction, locked, condWaiting>>
tableVars == <<money, bet, folded, hand, activePlayersId, currentBet, pot,
               playerAction, locked, condWaiting>>

TableTypeOK ==
    /\ money \in [Players -> Int]
    /\ bet \in [Players -> Nat]
    /\ folded \in [Players -> BOOLEAN]
    /\ hand \in [Players -> SUBSET Cards]
    /\ activePlayersId \in [1 .. NumPlayers -> Players]
    /\ currentBet \in Nat
    /\ pot \in Int
    /\ playerAction \in BOOLEAN
    /\ locked \in BOOLEAN
    /\ condWaiting \in BOOLEAN

TableInit ==
    /\ money = [p \in Players |-> InitialMoney]
    /\ bet = [p \in Players |-> 0]
    /\ folded = [p \in Players |-> FALSE]
    /\ hand = [p \in Players |-> {}]
    /\ activePlayersId = JoinOrder
    /\ currentBet = InitialBet
    /\ pot = 0
    /\ playerAction = FALSE
    /\ locked = FALSE
    /\ condWaiting = FALSE

=============================================================================
