-------------------------------- MODULE Lobby --------------------------------
(***************************************************************************)
(* From the listening socket to the running game: net::tcp::server with    *)
(* its list of connections, and Server::on_client_connect.  The list is    *)
(* appended to by the io thread and walked, and pruned, by every thread    *)
(* that broadcasts, without a lock.  Of the game the module keeps who is   *)
(* asked and who broadcasts when; PokerServer has the rest.                *)
(***************************************************************************)
EXTENDS Integers, Sequences, SequencesExt

CONSTANTS
    Clients,        \* the processes that may connect, once each
    Seats,          \* connections that start the game, 5
    Nobody          \* a null pointer, or nobody in particular

ASSUME ClientsAssumption == Nobody \notin Clients
ASSUME SeatsAssumption == Seats \in Nat \ {0}

Threads == {"io", "main", "game"}

VARIABLES
    client,             \* each client: "away", "here" or "gone"
    backlog,            \* connected clients the acceptor has not returned yet
    accepting,          \* an async_accept is outstanding
    open,               \* clients whose connection object has an open socket
    connections,        \* m_connections
    idCounter,          \* m_idCounter
    players,            \* GameState::m_players: id i is players[i + 1]
    activePlayersId,    \* GameState::m_activePlayersId
    playersCount,       \* GameState::m_playersCount
    gameAt,             \* the game thread: "none", "runs" or "waits"
    asked,              \* the client it waits for
    playerAction,       \* GameState::m_playerAction
    inbox,              \* clients with an action key in the server's queue
    walk,               \* the message_all each thread is in
    strayed,            \* history: a key was pressed unasked
    undefined           \* the list was changed while another thread used it

tableVars == <<idCounter, players, activePlayersId, playersCount>>
gameVars  == <<gameAt, asked, playerAction>>
clientVars == <<client, backlog, inbox, strayed>>
vars == <<accepting, open, connections, walk, undefined, tableVars, gameVars,
          clientVars>>

\* at is 0 outside of message_all, else the element the loop looks at next;
\* reached is history, the clients the message was sent to.
NoWalk == [at |-> 0, ignore |-> Nobody, invalid |-> FALSE, reached |-> {}]

TypeOK ==
    /\ client \in [Clients -> {"away", "here", "gone"}]
    /\ backlog \subseteq Clients
    /\ accepting \in BOOLEAN
    /\ open \subseteq Clients
    /\ connections \in Seq(Clients \cup {Nobody})
    /\ idCounter \in Nat
    /\ players \in Seq(Clients)
    /\ activePlayersId \in Seq(Nat)
    /\ playersCount \in Nat
    /\ gameAt \in {"none", "runs", "waits"}
    /\ asked \in Clients \cup {Nobody}
    /\ playerAction \in BOOLEAN
    /\ inbox \subseteq Clients
    /\ walk \in [Threads -> [at : Nat, ignore : Clients \cup {Nobody},
                             invalid : BOOLEAN, reached : SUBSET Clients]]
    /\ strayed \in BOOLEAN
    /\ undefined \in BOOLEAN
    /\ \A t \in Threads : ~undefined => walk[t].at <= Len(connections) + 1

Init ==
    /\ client = [c \in Clients |-> "away"]
    /\ backlog = {}
    /\ accepting = TRUE
    /\ open = {}
    /\ connections = <<>>
    /\ idCounter = 0
    /\ players = <<>>
    /\ activePlayersId = <<>>
    /\ playersCount = 0
    /\ gameAt = "none"
    /\ asked = Nobody
    /\ playerAction = FALSE
    /\ inbox = {}
    /\ walk = [t \in Threads |-> NoWalk]
    /\ strayed = FALSE
    /\ undefined = FALSE

Walking(t) == walk[t].at > 0

\* Thread t changes the list.  If another thread is in the middle of a walk,
\* what happens from here on is undefined, and the model stops.
Modifies(t) == undefined' = (\E u \in Threads \ {t} : Walking(u))

BeginWalk(t, ignored) ==
    walk' = [walk EXCEPT ![t] = [NoWalk EXCEPT !.at = 1, !.ignore = ignored]]

(***************************************************************************)
(* The clients and their sockets.                                          *)
(***************************************************************************)
Connect(c) ==
    /\ client[c] = "away"
    /\ client' = [client EXCEPT ![c] = "here"]
    /\ backlog' = backlog \cup {c}
    /\ UNCHANGED <<accepting, open, connections, walk, undefined, tableVars,
                   gameVars, inbox, strayed>>

Leave(c) ==
    /\ client[c] = "here"
    /\ client' = [client EXCEPT ![c] = "gone"]
    /\ UNCHANGED <<accepting, open, connections, walk, undefined, tableVars,
                   gameVars, backlog, inbox, strayed>>

\* A key of a player, asked for or not, reaches the server's queue.  Bound:
\* a single key is pressed unasked.
Key(c) ==
    /\ client[c] = "here"
    /\ c \in open
    /\ c \notin inbox
    /\ asked = c \/ ~strayed
    /\ inbox' = inbox \cup {c}
    /\ asked' = IF asked = c THEN Nobody ELSE asked
    /\ strayed' = (strayed \/ asked # c)
    /\ UNCHANGED <<accepting, open, connections, walk, undefined, tableVars,
                   gameAt, playerAction, client, backlog>>

(***************************************************************************)
(* The io thread: the accept handler with on_client_connect, and the end   *)
(* of a read chain.  It runs one handler at a time; the accept handler     *)
(* ends after its broadcast.                                               *)
(***************************************************************************)
\* Fault: the game starts one connection late.
TableIsOver(n) == n > Seats
TableIsFull(n) == n = Seats

\* Fault: the counter is incremented before it is read.
Incremented == idCounter + 1
NextId      == idCounter

\* The fifth connection starts the game; after any other the server tells
\* everyone how many are missing, and accepts again.
Accept(c) ==
    /\ accepting
    /\ c \in backlog
    /\ ~Walking("io")
    /\ accepting' = FALSE
    /\ backlog' = backlog \ {c}
    /\ open' = open \cup {c}
    /\ idCounter' = idCounter + 1
    /\ connections' = Append(connections, c)
    /\ Modifies("io")
    /\ activePlayersId' = Append(activePlayersId, NextId)
    /\ playersCount' = playersCount + 1
    /\ players' = Append(players, c)
    /\ IF TableIsFull(playersCount + 1)
         THEN gameAt' = "runs" /\ UNCHANGED walk
         ELSE BeginWalk("io", Nobody) /\ UNCHANGED gameAt
    /\ UNCHANGED <<client, inbox, strayed, asked, playerAction>>

\* Fault: the acceptor is not started again after an error.
NeverAgain == FALSE
Rearmed    == TRUE

AcceptFails ==
    /\ accepting
    /\ ~Walking("io")
    /\ accepting' = Rearmed
    /\ UNCHANGED <<open, connections, walk, undefined, tableVars, gameVars,
                   clientVars>>

\* Fault: the turn of a client that has left is taken to be played.
EndsTurn(c) ==
    /\ client[c] = "gone"
    /\ c \in open
    /\ ~Walking("io")
    /\ open' = open \ {c}
    /\ playerAction' = (playerAction \/ asked = c)
    /\ UNCHANGED <<accepting, connections, walk, undefined, tableVars, gameAt,
                   asked, clientVars>>

\* read_header fails and closes the socket; nobody is told.
NoticeLeave(c) ==
    /\ client[c] = "gone"
    /\ c \in open
    /\ ~Walking("io")
    /\ open' = open \ {c}
    /\ UNCHANGED <<accepting, connections, walk, undefined, tableVars, gameVars,
                   clientVars>>

(***************************************************************************)
(* message_all, one element at a time.                                     *)
(***************************************************************************)
Element(t) == connections[walk[t].at]

\* Fault: the connection found closed is erased on the spot, which puts the
\* next one in its place, and the loop passes over it.
EraseNow(t) ==
    /\ connections' = RemoveAt(connections, walk[t].at)
    /\ walk' = [walk EXCEPT ![t].at = @ + 1]
    /\ Modifies(t)
ResetElement(t) ==
    /\ connections' = [connections EXCEPT ![walk[t].at] = Nobody]
    /\ walk' = [walk EXCEPT ![t].at = @ + 1, ![t].invalid = TRUE]
    /\ Modifies(t)

Visit(t) ==
    /\ walk[t].at \in 1 .. Len(connections)
    /\ IF Element(t) \in open
         THEN /\ walk' = [walk EXCEPT
                    ![t].at = @ + 1,
                    ![t].reached = IF Element(t) = walk[t].ignore
                                     THEN @ ELSE @ \cup {Element(t)}]
              /\ UNCHANGED <<connections, undefined>>
         ELSE ResetElement(t)
    /\ UNCHANGED <<accepting, open, tableVars, gameVars, clientVars>>

\* What the thread does after message_all: the io thread accepts again, the
\* main thread ends its handler with changePlayerAction.
AfterWalk(t) ==
    /\ accepting' = (accepting \/ t = "io")
    /\ playerAction' = IF t = "main" THEN ~playerAction ELSE playerAction

\* Fault: std::remove is called, its result is not erased.
NotErased == connections
Pruned    ==
    LET kept[i \in 0 .. Len(connections)] ==
            IF i = 0 THEN <<>>
            ELSE IF connections[i] = Nobody THEN kept[i - 1]
            ELSE Append(kept[i - 1], connections[i])
    IN  kept[Len(connections)]

EndWalk(t) ==
    /\ Walking(t)
    /\ walk[t].at > Len(connections)
    /\ IF walk[t].invalid
         THEN /\ connections' = Pruned
              /\ Modifies(t)
         ELSE UNCHANGED <<connections, undefined>>
    /\ walk' = [walk EXCEPT ![t] = NoWalk]
    /\ AfterWalk(t)
    /\ UNCHANGED <<open, tableVars, gameAt, asked, clientVars>>

(***************************************************************************)
(* The main thread handles an action key: everyone else is told.           *)
(***************************************************************************)
\* Fault: the game thread is notified before the broadcast.
NotifiesFirst(c) ==
    /\ c \in inbox
    /\ ~Walking("main")
    /\ inbox' = inbox \ {c}
    /\ BeginWalk("main", c)
    /\ playerAction' = TRUE
    /\ UNCHANGED <<accepting, open, connections, undefined, tableVars, gameAt,
                   asked, client, backlog, strayed>>

Handle(c) ==
    /\ c \in inbox
    /\ ~Walking("main")
    /\ inbox' = inbox \ {c}
    /\ BeginWalk("main", c)
    /\ UNCHANGED <<accepting, open, connections, undefined, tableVars, gameVars,
                   client, backlog, strayed>>

(***************************************************************************)
(* The game thread broadcasts, asks a player of the table, and waits.      *)
(***************************************************************************)
Announce ==
    /\ gameAt = "runs"
    /\ ~Walking("game")
    /\ BeginWalk("game", Nobody)
    /\ UNCHANGED <<accepting, open, connections, undefined, tableVars, gameVars,
                   clientVars>>

AskPlayer(i) ==
    /\ gameAt = "runs"
    /\ ~Walking("game")
    /\ i \in DOMAIN activePlayersId
    /\ asked' = players[activePlayersId[i] + 1]
    /\ gameAt' = "waits"
    /\ UNCHANGED <<accepting, open, connections, walk, undefined, tableVars,
                   playerAction, clientVars>>

Resume ==
    /\ gameAt = "waits"
    /\ playerAction
    /\ playerAction' = FALSE
    /\ asked' = Nobody
    /\ gameAt' = "runs"
    /\ UNCHANGED <<accepting, open, connections, walk, undefined, tableVars,
                   clientVars>>

-----------------------------------------------------------------------------
WalkStep(t) == Visit(t) \/ EndWalk(t)

ServerStep ==
    \/ AcceptFails
    \/ \E c \in Clients : Accept(c) \/ NoticeLeave(c) \/ Handle(c)
    \/ \E t \in Threads : WalkStep(t)
    \/ Announce
    \/ \E i \in 1 .. Seats : AskPlayer(i)
    \/ Resume

Next ==
    /\ ~undefined
    /\ \/ \E c \in Clients : Connect(c) \/ Leave(c) \/ Key(c)
       \/ ServerStep

Spec == Init /\ [][Next]_vars

(***************************************************************************)
(* Handlers that are due run: an accept succeeds in the end, a walk goes   *)
(* on.  No client has to connect, to stay or to play.                      *)
(***************************************************************************)
Fairness ==
    /\ SF_vars(~undefined /\ \E c \in Clients : Accept(c))
    /\ \A t \in Threads : WF_vars(~undefined /\ WalkStep(t))

FairSpec == Spec /\ Fairness

-----------------------------------------------------------------------------
(***************************************************************************)
(* The id handed to a connection, its place in m_activePlayersId and its   *)
(* Player agree: the n-th connection accepted has id n - 1.                *)
(***************************************************************************)
SeatsAgree ==
    /\ idCounter = playersCount
    /\ Len(players) = playersCount
    /\ activePlayersId = [i \in 1 .. playersCount |-> i - 1]
    /\ \A i, j \in 1 .. Len(players) : players[i] = players[j] => i = j

(***************************************************************************)
(* There is a game thread exactly when the table is full, and then nobody  *)
(* is accepted any more: m_players is not touched by the io thread while   *)
(* the game thread uses it, and no sixth player shifts the seats.          *)
(***************************************************************************)
TableCloses ==
    /\ playersCount <= Seats
    /\ gameAt # "none" <=> playersCount = Seats
    /\ gameAt # "none" => ~accepting /\ ~Walking("io")

(***************************************************************************)
(* No thread changes m_connections while another one walks it, as long as  *)
(* nobody presses a key unasked.  No lock protects the list: the io thread *)
(* is done with it when the game begins, and from then on the game thread  *)
(* waits while the main thread broadcasts.                                 *)
(***************************************************************************)
NoListRace == undefined => strayed

(***************************************************************************)
(* The handoff it rests on: of the key asked for, the broadcast of the     *)
(* main thread and the flag there is at most one, during the wait only.    *)
(***************************************************************************)
TurnTokens ==
    (IF asked # Nobody THEN 1 ELSE 0) + (IF inbox # {} THEN 1 ELSE 0)
        + (IF Walking("main") THEN 1 ELSE 0) + (IF playerAction THEN 1 ELSE 0)

OneThreadAtATime ==
    ~strayed =>
        /\ TurnTokens = IF gameAt = "waits" THEN 1 ELSE 0
        /\ \A c, d \in inbox : c = d
        /\ Walking("io") => gameAt = "none"
        /\ Walking("game") => gameAt = "runs"

(***************************************************************************)
(* A client whose socket is open is on the list, once; a null pointer is   *)
(* only there while the walk that put it there is under way.               *)
(***************************************************************************)
OpenAreListed ==
    ~undefined =>
        /\ \A c \in open : \E i \in 1 .. Len(connections) : connections[i] = c
        /\ \A i, j \in 1 .. Len(connections) :
              connections[i] = connections[j] /\ connections[i] # Nobody => i = j
        /\ (\E i \in 1 .. Len(connections) : connections[i] = Nobody)
               => \E t \in Threads : walk[t].invalid

(***************************************************************************)
(* A broadcast that has come to the end of the list has been sent to all   *)
(* whose socket is still open, except the one to be ignored, however many  *)
(* left while it was under way.                                            *)
(***************************************************************************)
BroadcastReaches ==
    \A t \in Threads :
        (~undefined /\ walk[t].at > Len(connections)) =>
            walk[t].at = 0 \/ open \ {walk[t].ignore} \subseteq walk[t].reached

(***************************************************************************)
(* Nothing but the player itself ends the wait for it: when the one asked  *)
(* has left, the game thread waits for as long as nobody plays out of      *)
(* turn.  on_client_disconnect is empty and has no caller.                 *)
(***************************************************************************)
LeaverIsAwaited ==
    [][(~strayed' /\ asked # Nobody /\ client[asked] = "gone")
          => (gameAt' = gameAt /\ asked' = asked)]_vars

(***************************************************************************)
(* If enough clients connect, the game starts, even if some of them have   *)
(* left again and whatever errors the acceptor met.  With fewer the server *)
(* waits: the game is for exactly five.                                    *)
(***************************************************************************)
EnoughCome ==
    (\A c \in Clients : client[c] # "away") ~> (gameAt # "none" \/ undefined)

=============================================================================
