------------------------------ MODULE PokerServer ------------------------------
(***************************************************************************)
(* A table from the moment the fifth client is seated: the server's main   *)
(* thread, the game thread and the players at their keyboards, over the    *)
(* shared GameState.  Starting this late loses nothing for these           *)
(* properties: before it there is no game thread, and on_message runs on   *)
(* players that on_client_connect already inserted.                        *)
(***************************************************************************)
EXTENDS ServerThread, GameThread

CONSTANTS
    KeysUsed,       \* the kinds of message the players' keys produce
    Impatient,      \* players who press keys whether or not it is their turn
    MaxBet,         \* bound: no raise beyond this current bet
    MaxPot,         \* bound: no key is pressed once the pot is larger
    MaxInbox,       \* bound: messages waiting in the server's queue
    MaxStray        \* bound: keys pressed out of turn

ASSUME KeysAssumption ==
    /\ KeysUsed \subseteq Kinds
    /\ Impatient \subseteq Players
    /\ MaxBet \in Nat /\ MaxPot \in Nat /\ MaxInbox \in Nat /\ MaxHands \in Nat
    /\ MaxStray \in Nat

VARIABLES
    prompted,   \* players with a Sync on the way or on the screen
    stray       \* keys pressed out of turn (counts towards MaxStray)

clientVars == <<prompted, stray>>
vars == <<tableVars, inbox, serverLocals, gameVars, clientVars>>

TypeOK ==
    /\ TableTypeOK
    /\ ServerTypeOK
    /\ GameTypeOK
    /\ prompted \subseteq Players
    /\ stray \in Nat

Init ==
    /\ TableInit
    /\ ServerInit
    /\ GameInit
    /\ prompted = {}
    /\ stray = 0

(***************************************************************************)
(* The players.  A player answers a Sync with one of the three action      *)
(* keys; AppClient does not check that there was a Sync, so an impatient   *)
(* one presses any key at any time.  The message travels at its own pace:  *)
(* the step is its arrival in the server's queue.                          *)
(***************************************************************************)
Send(p, k) ==
    /\ gPc # "aborted"
    /\ k \in KeysUsed
    /\ Len(inbox) < MaxInbox
    /\ pot <= MaxPot
    /\ k = "Raise" => 2 * currentBet <= MaxBet
    /\ inbox' = Append(inbox, [player |-> p, kind |-> k])
    /\ UNCHANGED <<tableVars, serverLocals, gameVars>>

Answer(p) ==
    /\ p \in prompted
    /\ \E k \in Kinds \ {"Ping"} : Send(p, k)
    /\ prompted' = prompted \ {p}
    /\ UNCHANGED stray

StrayKey(p) ==
    /\ p \in Impatient
    /\ stray < MaxStray
    /\ stray' = stray + 1
    /\ \E k \in Kinds : Send(p, k)
    /\ UNCHANGED prompted

\* The steps of the game thread that leave the clients and the queue alone,
\* and the one that prompts a client.
QuietStep ==
    \/ StartGame  \/ Deal      \/ BlindRead  \/ BlindPay   \/ BlindBet
    \/ EnterStage \/ DrawBoard \/ LoopTest   \/ BetsDiffer \/ BetsEqual
    \/ SkipFolded \/ TestFlag  \/ Sleep      \/ Wake       \/ Consume
    \/ CardChecking \/ ClearPot \/ ResetPlayer

GameStep ==
    \/ QuietStep /\ UNCHANGED <<inbox, serverLocals, clientVars>>
    \/ SendSync /\ prompted' = prompted \cup {currentId}
                /\ UNCHANGED <<inbox, serverLocals, stray>>

\* std::terminate, called when the game thread throws, ends this thread too.
MainStep == gPc # "aborted" /\ ServerStep /\ UNCHANGED <<gameVars, clientVars>>

Next ==
    \/ MainStep
    \/ GameStep
    \/ SpuriousWakeup /\ UNCHANGED <<inbox, serverLocals, clientVars>>
    \/ \E p \in Players : Answer(p) \/ StrayKey(p)

Spec == Init /\ [][Next]_vars

(***************************************************************************)
(* The scheduler runs both threads.  That a prompted player answers is an  *)
(* assumption about people; the code has no timeout.  Spurious wakeups may *)
(* happen but cannot be counted on.                                        *)
(***************************************************************************)
Fairness ==
    /\ WF_vars(MainStep)
    /\ WF_vars(GameStep)
    /\ \A p \in Players : WF_vars(Answer(p))

FairSpec == Spec /\ Fairness

-----------------------------------------------------------------------------
\* The main thread is in the middle of a player's action: it may still change
\* money, bets, the pot or the flag.
Acting == sPc \notin {"idle", "notify"}

\* The game thread waits for the player in turn.
Waiting == gPc \in {"test", "presleep", "asleep", "consume"}

(***************************************************************************)
(* The two threads take turns: while the main thread handles an action the *)
(* game thread is in its wait, where it touches no shared data but the     *)
(* flag.  Nothing in Server::on_message or GameState enforces it; it holds *)
(* as long as every player waits for a Sync before pressing a key.         *)
(***************************************************************************)
NoConcurrentHandler == Acting => gPc \in {"test", "presleep", "asleep"}

(***************************************************************************)
(* The action being handled is the one of the player in turn.  on_message  *)
(* never compares remote->getId() with the player the game waits for.      *)
(***************************************************************************)
ActsInTurn == Acting => sMsg.player = currentId

(***************************************************************************)
(* The handoff the two properties above rest on, for players who answer    *)
(* only when asked: outside of the wait nothing is under way, and in it    *)
(* the turn of currentId is in exactly one place, on the player's screen,  *)
(* in the queue, in the handler, or in the flag.                           *)
(***************************************************************************)
Quiet == prompted = {} /\ inbox = <<>> /\ ~Acting

Asked    == prompted = {currentId} /\ inbox = <<>> /\ ~Acting /\ ~playerAction
Answered == /\ prompted = {} /\ ~Acting /\ ~playerAction
            /\ Len(inbox) = 1
            /\ inbox[1].player = currentId /\ inbox[1].kind # "Ping"
Handled  == /\ prompted = {} /\ inbox = <<>> /\ Acting /\ ~playerAction
            /\ sMsg.player = currentId
            /\ sPc = "toggleWrite" => sFlip
Flagged  == Quiet /\ playerAction

Handoff ==
    IF Waiting
      THEN Flagged \/ (gPc # "consume" /\ (Asked \/ Answered \/ Handled))
      ELSE Quiet /\ ~playerAction

(***************************************************************************)
(* No bet is above the current bet: a bet is only ever a copy of           *)
(* m_currentBet or half of it, and m_currentBet never falls, not even      *)
(* between hands.  It survives every interleaving with impatient players.  *)
(***************************************************************************)
BetNeverExceedsCurrent == \A p \in Players : bet[p] <= currentBet

(***************************************************************************)
(* A seat is passed over only if its player has folded: between the player *)
(* who acted last in a betting round and the player now asked, in the      *)
(* seating of this hand, everyone has folded.  updates.txt reports that    *)
(* erasing a folding player from m_activePlayersId broke this.             *)
(***************************************************************************)
Seating == IF handNo = 1 THEN JoinOrder ELSE MapOrder

SeatOf(p) == CHOOSE i \in 1 .. NumPlayers : Seating[i] = p

StrictlyBetween(p, q) ==
    LET span == (SeatOf(q) - SeatOf(p) - 1) % NumPlayers
    IN  {Seating[1 + ((SeatOf(p) + d) % NumPlayers)] : d \in 0 .. span - 1}

TurnsInOrder ==
    (Waiting /\ lastActor # NoPlayer) =>
        \A p \in StrictlyBetween(lastActor, currentId) : folded[p]

(***************************************************************************)
(* When a betting round ends, every player who has not folded acted in it, *)
(* and all bets are equal to the current bet.                              *)
(***************************************************************************)
RoundOver == gPc = "stage" /\ stage # "PreFlop"

EveryoneActs == RoundOver => \A p \in Players : folded[p] \/ p \in acted

RoundEndsEven ==
    (RoundOver /\ NumActive > 1) => \A p \in Players : bet[p] = currentBet

(***************************************************************************)
(* What stands before a player was paid: the bet is covered by the money   *)
(* the player has spent.  (Nobody is ever credited, see the showdown.)     *)
(***************************************************************************)
BetsAreBacked == \A p \in Players : bet[p] <= InitialMoney - money[p]

(***************************************************************************)
(* In the first hand, what the players have paid beyond the two blinds is  *)
(* in the pot, at every point of every handler.  The pot may hold more:    *)
(* call() adds the whole current bet to it whatever the player still owed. *)
(***************************************************************************)
Paid == MapThenSumSet(LAMBDA p : InitialMoney - money[p], Players)

BlindsOfFirstHand == InitialBet + InitialBet \div 2

PotCoversPayments ==
    (handNo = 1 /\ gPc \notin {"reset", "start"}) =>
        Paid <= pot + BlindsOfFirstHand

(***************************************************************************)
(* The showdown finds a board of five cards and two cards in every hand,   *)
(* and no card is in two places, even after several hands of the deck.     *)
(***************************************************************************)
ShowdownIsComplete ==
    (gPc = "stage" /\ stage = "CardChecking") =>
        /\ Cardinality(board) = 5
        /\ \A p \in Players : Cardinality(hand[p]) = 2
        /\ \A p, q \in Players : p # q => hand[p] \cap hand[q] = {}
        /\ \A p \in Players : hand[p] \cap (board \cup deck) = {}

-----------------------------------------------------------------------------
(***************************************************************************)
(* The same table seen from the players' seats.  A handler's effects count *)
(* from its last write to the shared data on, the change of the bet; the   *)
(* payment of a blind from the change of the bet; a new hand from the      *)
(* moment the pot is cleared.  Until then, what was done is undone here.   *)
(***************************************************************************)
Paying   == sPc \in {"potRead", "potWrite", "payRead", "payWrite", "setBet"}
PotAdded == sPc \in {"payRead", "payWrite", "setBet"}

Undone(m, p, amount) == [m EXCEPT ![p] = @ + amount]

SeenMoney ==
    IF sPc = "setBet" THEN Undone(money, sMsg.player, Owed)
    ELSE IF gPc = "blindBet" THEN Undone(money, BlindPlayer, BlindAmount)
    ELSE money

SeenCurrentBet ==
    IF Paying /\ sMsg.kind = "Raise" THEN currentBet \div 2 ELSE currentBet

SeenPot == IF PotAdded THEN pot - currentBet ELSE pot

SeenBet    == IF gPc = "reset" THEN [p \in Players |-> 0] ELSE bet
SeenFolded == IF gPc = "reset" THEN [p \in Players |-> FALSE] ELSE folded

\* The turn is over when the handler has made its changes, though the game
\* thread does not know it yet.
SeenToAct ==
    IF /\ Waiting /\ gPc # "consume" /\ ~playerAction
       /\ sPc \notin {"toggleRead", "toggleWrite"}
      THEN currentId ELSE NoPlayer

Table == INSTANCE AtomicTable WITH
            money <- SeenMoney, bet <- SeenBet, folded <- SeenFolded,
            currentBet <- SeenCurrentBet, pot <- SeenPot, toAct <- SeenToAct

(***************************************************************************)
(* Every step of the two threads is a whole action of one player, a blind, *)
(* a new hand, or nothing, although Server::on_message makes it out of     *)
(* separately locked sections and the game thread takes no lock at all.    *)
(***************************************************************************)
ImplementsAtomicTable == Table!Spec

-----------------------------------------------------------------------------
(***************************************************************************)
(* What a stored value was computed from is still there when it is stored: *)
(* no update of the pot or of a player's money overwrites another.  The    *)
(* comment on GameState calls it thread safe; one key pressed out of turn  *)
(* while the game thread collects the blinds or clears the pot refutes it. *)
(***************************************************************************)
UpdatesAreNotLost ==
    /\ sPc = "potWrite" => sReg = pot + currentBet
    /\ sPc = "payWrite" => sReg = money[sMsg.player] - Owed
    /\ gPc = "blindPay" => gReg = money[BlindPlayer] - BlindAmount

(***************************************************************************)
(* While somebody is left who has not folded, the player announced as the  *)
(* winner is one of those.  The showdown runs over m_activePlayersId,      *)
(* which folding does not shorten.                                         *)
(***************************************************************************)
FoldedNeverWins ==
    (gPc = "ending" /\ \E p \in Players : ~folded[p]) => ~folded[winner]

(***************************************************************************)
(* The game thread sleeps although the player's action has arrived: the    *)
(* notification came between the test of the flag and the wait.            *)
(***************************************************************************)
WakeupLost == condWaiting /\ playerAction /\ sPc = "idle"

(***************************************************************************)
(* The game thread takes note of every action of a player.  It does not:   *)
(* the flag is set under another mutex than the one it waits with.         *)
(***************************************************************************)
AnswerIsNoticed == playerAction ~> ~playerAction

(***************************************************************************)
(* Short of a lost wakeup, a betting round in which players only answer in *)
(* turn comes to its end.  It does not once a player folds with a smaller  *)
(* bet than the current one: equalBets waits for that player for ever.     *)
(***************************************************************************)
BettingRoundEnds == (gPc = "turn") ~> (gPc = "stage" \/ WakeupLost)

(***************************************************************************)
(* Among players who answer in turn and never fold, a hand that was dealt  *)
(* is played to its showdown, short of a lost wakeup: the betting rounds   *)
(* terminate however often bets are raised, and nobody waits for somebody  *)
(* who was not asked.                                                      *)
(***************************************************************************)
HandEnds == (gPc = "deal") ~> (gPc \in {"ending", "aborted"} \/ WakeupLost)

=============================================================================
