----------------------------- MODULE ServerThread -----------------------------
(***************************************************************************)
(* The server's main thread: AppServer's loop pops one message at a time   *)
(* and runs Server::on_message on it.  The handler of a player's action is *)
(* a series of separately locked sections, and the game thread, which does *)
(* not take the lock, can run between any two of its memory accesses.      *)
(***************************************************************************)
EXTENDS GameState, SequencesExt, FiniteSetsExt

VARIABLES
    inbox,      \* net::tcp::server::m_messages
    sPc,        \* where the main thread is in on_message
    sMsg,       \* the message being handled
    sReg,       \* the value a read-modify-write of the handler will store
    sFlip       \* the value changePlayerAction will store

serverLocals == <<sPc, sMsg, sReg, sFlip>>

Kinds    == {"Ping", "Fold", "Call", "Raise"}
Messages == [player : Players, kind : Kinds]
NoMsg    == [player |-> NoPlayer, kind |-> "Ping"]

ServerTypeOK ==
    /\ inbox \in Seq(Messages)
    /\ sPc \in {"idle", "fold", "double", "potRead", "potWrite", "payRead",
                "payWrite", "setBet", "toggleRead", "toggleWrite", "notify"}
    /\ IF sPc = "idle" THEN sMsg = NoMsg ELSE sMsg \in Messages
    /\ sReg \in Int
    /\ sFlip \in BOOLEAN

ServerInit ==
    /\ inbox = <<>>
    /\ sPc = "idle"
    /\ sMsg = NoMsg
    /\ sReg = 0
    /\ sFlip = FALSE

\* Faults: a raise pays only what it raises by; a call adds its bet again.
RaiseOwesIncrease ==
    IF sMsg.kind = "Call" THEN currentBet - bet[sMsg.player] ELSE currentBet \div 2
CallOwesSum ==
    IF sMsg.kind = "Call" THEN currentBet + bet[sMsg.player] ELSE currentBet

\* What the player whose action is handled still owes: a Call pays up to the
\* current bet, a Raise pays the whole of it whatever was bet before.
Owed == IF sMsg.kind = "Call" THEN currentBet - bet[sMsg.player] ELSE currentBet

\* update() takes the newest message, not the oldest.  A Ping is echoed and
\* leaves the shared data alone.
Pop ==
    /\ sPc = "idle"
    /\ inbox # <<>>
    /\ inbox' = Front(inbox)
    /\ \/ Last(inbox).kind = "Ping"  /\ sPc' = "idle"    /\ sMsg' = NoMsg
       \/ Last(inbox).kind = "Fold"  /\ sPc' = "fold"    /\ sMsg' = Last(inbox)
       \/ Last(inbox).kind = "Call"  /\ sPc' = "potRead" /\ sMsg' = Last(inbox)
       \/ Last(inbox).kind = "Raise" /\ sPc' = "double"  /\ sMsg' = Last(inbox)
    /\ UNCHANGED <<sReg, sFlip, tableVars>>

SetPlayerFold ==
    /\ sPc = "fold"
    /\ ~locked
    /\ folded' = [folded EXCEPT ![sMsg.player] = TRUE]
    /\ sPc' = "toggleRead"
    /\ UNCHANGED <<inbox, sMsg, sReg, sFlip, money, bet, hand, activePlayersId,
                   currentBet, pot, syncVars>>

\* raise(), first statement; the lock is kept for PotRead and PotWrite.
DoubleBet ==
    /\ sPc = "double"
    /\ ~locked
    /\ locked' = TRUE
    /\ currentBet' = 2 * currentBet
    /\ sPc' = "potRead"
    /\ UNCHANGED <<inbox, sMsg, sReg, sFlip, money, bet, folded, hand,
                   activePlayersId, pot, playerAction, condWaiting>>

\* m_pot += m_currentBet, of raise() and of call().
PotRead ==
    /\ sPc = "potRead"
    /\ sMsg.kind = "Call" => ~locked
    /\ locked' = TRUE
    /\ sReg' = pot + currentBet
    /\ sPc' = "potWrite"
    /\ UNCHANGED <<inbox, sMsg, sFlip, moneyVars, hand, activePlayersId,
                   playerAction, condWaiting>>

PotWrite ==
    /\ sPc = "potWrite"
    /\ pot' = sReg
    /\ locked' = FALSE
    /\ sPc' = "payRead"
    /\ UNCHANGED <<inbox, sMsg, sReg, sFlip, money, bet, folded, hand,
                   activePlayersId, currentBet, playerAction, condWaiting>>

\* player.setMoney(player.getMoney() - ...), in a locked section of its own.
PayRead ==
    /\ sPc = "payRead"
    /\ ~locked
    /\ locked' = TRUE
    /\ sReg' = money[sMsg.player] - Owed
    /\ sPc' = "payWrite"
    /\ UNCHANGED <<inbox, sMsg, sFlip, moneyVars, hand, activePlayersId,
                   playerAction, condWaiting>>

PayWrite ==
    /\ sPc = "payWrite"
    /\ money' = [money EXCEPT ![sMsg.player] = sReg]
    /\ locked' = FALSE
    /\ sPc' = "setBet"
    /\ UNCHANGED <<inbox, sMsg, sReg, sFlip, bet, folded, hand,
                   activePlayersId, currentBet, pot, playerAction, condWaiting>>

UpdatePlayerBet ==
    /\ sPc = "setBet"
    /\ ~locked
    /\ bet' = [bet EXCEPT ![sMsg.player] = currentBet]
    /\ sPc' = "toggleRead"
    /\ UNCHANGED <<inbox, sMsg, sReg, sFlip, money, folded, hand,
                   activePlayersId, currentBet, pot, syncVars>>

\* changePlayerAction negates the flag instead of setting it.  Fault: the value
\* read is stored.
NotToggled == playerAction
Toggled    == ~playerAction

ToggleRead ==
    /\ sPc = "toggleRead"
    /\ ~locked
    /\ locked' = TRUE
    /\ sFlip' = Toggled
    /\ sPc' = "toggleWrite"
    /\ UNCHANGED <<inbox, sMsg, sReg, moneyVars, hand, activePlayersId,
                   playerAction, condWaiting>>

ToggleWrite ==
    /\ sPc = "toggleWrite"
    /\ playerAction' = sFlip
    /\ sPc' = "notify"
    /\ UNCHANGED <<inbox, sMsg, sReg, sFlip, moneyVars, hand, activePlayersId,
                   locked, condWaiting>>

\* notify_one reaches the game thread only if it is in the wait set already;
\* then the handler returns and its locals go out of scope.
Notify ==
    /\ sPc = "notify"
    /\ condWaiting' = FALSE
    /\ locked' = FALSE
    /\ sPc' = "idle"
    /\ sMsg' = NoMsg
    /\ sReg' = 0
    /\ sFlip' = FALSE
    /\ UNCHANGED <<inbox, moneyVars, hand, activePlayersId, playerAction>>

ServerStep ==
    \/ Pop       \/ SetPlayerFold \/ DoubleBet \/ PotRead
    \/ PotWrite  \/ PayRead       \/ PayWrite  \/ UpdatePlayerBet
    \/ ToggleRead \/ ToggleWrite  \/ Notify

=============================================================================
