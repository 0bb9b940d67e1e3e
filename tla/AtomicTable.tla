----------------------------- MODULE AtomicTable -----------------------------
(***************************************************************************)
(* The table as its players know it: one of them is asked, and what that   *)
(* player does, a fold, a call or a raise, happens at once.  The threads,  *)
(* the lock, the flag and the queue of the server are out of sight.        *)
(* PokerServer implements it as long as nobody plays out of turn.          *)
(***************************************************************************)
EXTENDS Integers

CONSTANTS Players, NoPlayer, InitialMoney, InitialBet

VARIABLES
    money, bet, folded, currentBet, pot,    \* as in GameState
    toAct                                   \* the player asked, or NoPlayer

tableState == <<money, bet, folded, currentBet, pot, toAct>>

Init ==
    /\ money = [p \in Players |-> InitialMoney]
    /\ bet = [p \in Players |-> 0]
    /\ folded = [p \in Players |-> FALSE]
    /\ currentBet = InitialBet
    /\ pot = 0
    /\ toAct = NoPlayer

\* Only a player who has not folded is asked, and nobody while another is.
Ask(p) ==
    /\ toAct = NoPlayer
    /\ ~folded[p]
    /\ toAct' = p
    /\ UNCHANGED <<money, bet, folded, currentBet, pot>>

Fold(p) ==
    /\ toAct = p
    /\ toAct' = NoPlayer
    /\ folded' = [folded EXCEPT ![p] = TRUE]
    /\ UNCHANGED <<money, bet, currentBet, pot>>

\* The player's bet becomes b and the pot grows by it; the player pays owed.
Stake(p, b, owed) ==
    /\ toAct = p
    /\ toAct' = NoPlayer
    /\ bet' = [bet EXCEPT ![p] = b]
    /\ money' = [money EXCEPT ![p] = @ - owed]
    /\ pot' = pot + b
    /\ UNCHANGED folded

Call(p) ==
    /\ Stake(p, currentBet, currentBet - bet[p])
    /\ UNCHANGED currentBet

Raise(p) ==
    /\ Stake(p, 2 * currentBet, 2 * currentBet)
    /\ currentBet' = 2 * currentBet

\* A blind is a bet that nobody asks for and that the pot does not see.
Blind(p, amount) ==
    /\ toAct = NoPlayer
    /\ bet' = [bet EXCEPT ![p] = amount]
    /\ money' = [money EXCEPT ![p] = @ - amount]
    /\ UNCHANGED <<folded, currentBet, pot, toAct>>

\* The bets, the folds and the pot go; the money and the current bet stay.
NewHand ==
    /\ toAct = NoPlayer
    /\ bet' = [p \in Players |-> 0]
    /\ folded' = [p \in Players |-> FALSE]
    /\ pot' = 0
    /\ UNCHANGED <<money, currentBet, toAct>>

Next ==
    \/ \E p \in Players :
          \/ Ask(p) \/ Fold(p) \/ Call(p) \/ Raise(p)
          \/ Blind(p, currentBet \div 2) \/ Blind(p, currentBet)
    \/ NewHand

Spec == Init /\ [][Next]_tableState

=============================================================================
