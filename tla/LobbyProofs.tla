------------------------------ MODULE LobbyProofs ------------------------------
(***************************************************************************)
(* Theorems about Lobby, for any number of clients and of seats: how the   *)
(* seats are given out, when the table closes, why the list of             *)
(* connections, which no lock protects, is changed by one thread only, and *)
(* whom a broadcast that prunes it on the way reaches.                     *)
(***************************************************************************)
EXTENDS Lobby, SequenceTheorems, Induction

-----------------------------------------------------------------------------
(***************************************************************************)
(* The part of TypeOK that seats and threads rest on.  m_connections and   *)
(* what the walks have reached come with the list, at the end.             *)
(***************************************************************************)
Walks ==
    /\ walk = [t \in Threads |-> walk[t]]
    /\ \A t \in Threads : "at" \in DOMAIN walk[t] /\ walk[t].at \in Nat

Types ==
    /\ client \in [Clients -> {"away", "here", "gone"}]
    /\ open \subseteq Clients
    /\ backlog \subseteq Clients
    /\ inbox \subseteq Clients
    /\ players \in Seq(Clients)
    /\ playersCount \in Nat
    /\ asked \in Clients \cup {Nobody}
    /\ gameAt \in {"none", "runs", "waits"}
    /\ Walks

(***************************************************************************)
(* What BeginWalk, Visit and EndWalk do to the walks.                      *)
(***************************************************************************)
LEMMA WalkBegins ==
  ASSUME Walks, NEW t \in Threads, NEW c, BeginWalk(t, c)
  PROVE  /\ Walks'
         /\ Walking(t)'
         /\ \A u \in Threads \ {t} : Walking(u)' <=> Walking(u)
  <1> DEFINE w == [NoWalk EXCEPT !.at = 1, !.ignore = c]
  <1>1. "at" \in DOMAIN w /\ w.at = 1
    BY DEF NoWalk
  <1>2. walk' = [walk EXCEPT ![t] = w] /\ DOMAIN walk = Threads
    BY DEF BeginWalk, Walks
  <1> HIDE DEF w
  <1>3. walk'[t] = w /\ \A u \in Threads \ {t} : walk'[u] = walk[u]
    BY <1>2
  <1>4. walk' = [u \in Threads |-> walk'[u]]
    BY <1>2
  <1> QED BY <1>1, <1>3, <1>4 DEF Walks, Walking

LEMMA WalkUpdates ==
  ASSUME NEW w, "at" \in DOMAIN w, w.at \in Nat, NEW s
  PROVE  /\ [w EXCEPT !.at = w.at + 1, !.reached = s].at = w.at + 1
         /\ "at" \in DOMAIN [w EXCEPT !.at = w.at + 1, !.reached = s]
         /\ [w EXCEPT !.at = w.at + 1, !.invalid = TRUE].at = w.at + 1
         /\ "at" \in DOMAIN [w EXCEPT !.at = w.at + 1, !.invalid = TRUE]
  OBVIOUS

LEMMA WalkGoesOn ==
  ASSUME Walks, NEW t \in Threads, Visit(t)
  PROVE  /\ Walks'
         /\ \A u \in Threads : Walking(u)' <=> Walking(u)
  <1>1. /\ DOMAIN walk = Threads /\ walk[t].at \in Nat /\ walk[t].at > 0
        /\ "at" \in DOMAIN walk[t]
    BY DEF Walks, Visit
  <1>2. PICK w : walk' = [walk EXCEPT ![t] = w] /\ "at" \in DOMAIN w /\ w.at = walk[t].at + 1
    <2>1. CASE Element(t) \in open
      <3> DEFINE rest == IF Element(t) = walk[t].ignore
                           THEN walk[t].reached ELSE walk[t].reached \cup {Element(t)}
                 w == [walk[t] EXCEPT !.at = walk[t].at + 1, !.reached = rest]
      <3>1. walk' = [walk EXCEPT ![t] = w]
        BY <1>1, <2>1 DEF Visit
      <3> HIDE DEF rest
      <3> QED BY <1>1, <3>1, WalkUpdates
    <2>2. CASE Element(t) \notin open
      <3> DEFINE w == [walk[t] EXCEPT !.at = walk[t].at + 1, !.invalid = TRUE]
      <3>1. walk' = [walk EXCEPT ![t] = w]
        BY <1>1, <2>2 DEF Visit, ResetElement
      <3> QED BY <1>1, <3>1, WalkUpdates
    <2> QED BY <2>1, <2>2
  <1>3. walk'[t] = w /\ \A u \in Threads \ {t} : walk'[u] = walk[u]
    BY <1>1, <1>2
  <1>4. walk' = [u \in Threads |-> walk'[u]]
    BY <1>1, <1>2
  <1> QED BY <1>1, <1>2, <1>3, <1>4 DEF Walks, Walking

LEMMA WalkEnds ==
  ASSUME Walks, NEW t \in Threads, EndWalk(t)
  PROVE  /\ Walks'
         /\ ~Walking(t)'
         /\ \A u \in Threads \ {t} : Walking(u)' <=> Walking(u)
  <1>1. walk' = [walk EXCEPT ![t] = NoWalk] /\ DOMAIN walk = Threads
    BY DEF EndWalk, Walks
  <1>2. "at" \in DOMAIN NoWalk /\ NoWalk.at = 0
    BY DEF NoWalk
  <1>3. walk'[t] = NoWalk /\ \A u \in Threads \ {t} : walk'[u] = walk[u]
    BY <1>1
  <1>4. walk' = [u \in Threads |-> walk'[u]]
    BY <1>1
  <1> QED BY <1>2, <1>3, <1>4 DEF Walks, Walking

-----------------------------------------------------------------------------
\* Whatever happens is one of these.
LEMMA Steps ==
  ASSUME [Next]_vars
  PROVE  \/ \E c \in Clients : Connect(c) \/ Leave(c) \/ Key(c)
         \/ \E c \in Clients : Accept(c) \/ NoticeLeave(c) \/ Handle(c)
         \/ AcceptFails
         \/ \E t \in Threads : Visit(t) \/ EndWalk(t)
         \/ Announce
         \/ \E i \in 1 .. Seats : AskPlayer(i)
         \/ Resume
         \/ UNCHANGED vars
  BY DEF Next, ServerStep, WalkStep

\* The n-th connection accepted has the n-th seat.
Order == activePlayersId = [i \in 1 .. playersCount |-> i - 1]

LEMMA Threaded == "io" \in Threads /\ "main" \in Threads /\ "game" \in Threads
  BY DEF Threads

LEMMA TypesStep ==
  ASSUME Types, Len(players) = playersCount, Order, [Next]_vars
  PROVE  Types'
  <1>1. ASSUME NEW c \in Clients, Connect(c) \/ Leave(c) \/ Key(c)
        PROVE  Types'
    BY <1>1 DEF Types, Walks, Connect, Leave, Key, tableVars, gameVars
  <1>2. ASSUME NEW c \in Clients, Accept(c) PROVE Types'
    <2>1. Walks'
      BY <1>2, WalkBegins, Threaded DEF Types, Accept, Walks
    <2>2. players' \in Seq(Clients)
      BY <1>2, AppendProperties DEF Types, Accept
    <2> QED BY <1>2, <2>1, <2>2 DEF Types, Accept
  <1>3. ASSUME NEW c \in Clients, NoticeLeave(c) PROVE Types'
    BY <1>3 DEF Types, Walks, NoticeLeave, tableVars, gameVars, clientVars
  <1>4. ASSUME NEW c \in Clients, Handle(c) PROVE Types'
    <2>1. Walks'
      BY <1>4, WalkBegins, Threaded DEF Types, Handle
    <2> QED BY <1>4, <2>1 DEF Types, Handle, tableVars, gameVars
  <1>5. CASE AcceptFails
    BY <1>5 DEF Types, Walks, AcceptFails, tableVars, gameVars, clientVars
  <1>6. ASSUME NEW t \in Threads, Visit(t) PROVE Types'
    <2>1. Walks'
      BY <1>6, WalkGoesOn DEF Types
    <2> QED BY <1>6, <2>1 DEF Types, Visit, tableVars, gameVars, clientVars
  <1>7. ASSUME NEW t \in Threads, EndWalk(t) PROVE Types'
    <2>1. Walks'
      BY <1>7, WalkEnds DEF Types
    <2> QED BY <1>7, <2>1 DEF Types, EndWalk, AfterWalk, tableVars, clientVars
  <1>8. CASE Announce
    <2>1. Walks'
      BY <1>8, WalkBegins, Threaded DEF Types, Announce
    <2> QED BY <1>8, <2>1 DEF Types, Announce, tableVars, gameVars, clientVars
  <1>9. ASSUME NEW i \in 1 .. Seats, AskPlayer(i) PROVE Types'
    <2>1. asked' \in Clients
      <3>1. i \in 1 .. playersCount /\ activePlayersId[i] + 1 = i
        BY <1>9, SeatsAssumption DEF AskPlayer, Order, Types
      <3>2. players[i] \in Clients
        BY <3>1, ElementOfSeq DEF Types
      <3> QED BY <1>9, <3>1, <3>2 DEF AskPlayer
    <2> QED BY <1>9, <2>1 DEF Types, Walks, AskPlayer, tableVars, clientVars
  <1>10. CASE Resume
    BY <1>10 DEF Types, Walks, Resume, tableVars, clientVars
  <1>11. CASE UNCHANGED vars
    BY <1>11 DEF Types, Walks, vars, tableVars, gameVars, clientVars
  <1> QED BY <1>1, <1>2, <1>3, <1>4, <1>5, <1>6, <1>7, <1>8, <1>9, <1>10, <1>11, Steps

-----------------------------------------------------------------------------
(***************************************************************************)
(* The seats.  A client waits in the backlog before it is a player, and    *)
(* connects once.                                                          *)
(***************************************************************************)
Fresh ==
    /\ \A c \in backlog : client[c] # "away"
    /\ \A i \in 1 .. Len(players) : players[i] \notin backlog /\ client[players[i]] # "away"

SeatsInv == Types /\ SeatsAgree /\ Fresh

LEMMA SeatsStep ==
  ASSUME SeatsInv, [Next]_vars
  PROVE  SeatsInv'
  <1>1. Types'
    BY TypesStep DEF SeatsInv, SeatsAgree, Order
  <1>2. ASSUME NEW c \in Clients, Accept(c) PROVE (SeatsAgree /\ Fresh)'
    <2>1. /\ Len(players') = Len(players) + 1
          /\ \A i \in 1 .. Len(players) : players'[i] = players[i]
          /\ players'[Len(players) + 1] = c
      BY <1>2, AppendProperties DEF SeatsInv, Types, Accept
    <2>2. playersCount' = playersCount + 1 /\ idCounter' = idCounter + 1 /\ playersCount \in Nat
          /\ idCounter = playersCount /\ Len(players) = playersCount
      BY <1>2 DEF SeatsInv, SeatsAgree, Types, Accept
    <2>3. activePlayersId' = [i \in 1 .. playersCount + 1 |-> i - 1]
      <3>1. activePlayersId \in Seq(Int) /\ Len(activePlayersId) = playersCount
        BY <2>2 DEF SeatsInv, SeatsAgree
      <3>2. activePlayersId' = Append(activePlayersId, playersCount)
        BY <1>2, <2>2 DEF Accept, NextId
      <3> QED BY <2>2, <3>1, <3>2 DEF SeatsInv, SeatsAgree
    <2>4. \A i, j \in 1 .. Len(players') : players'[i] = players'[j] => i = j
      BY <1>2, <2>1, <2>2 DEF SeatsInv, SeatsAgree, Fresh, Accept
    <2>5. Fresh'
      BY <1>2, <2>1, <2>2 DEF SeatsInv, Types, Fresh, Accept
    <2> QED BY <2>1, <2>2, <2>3, <2>4, <2>5 DEF SeatsAgree
  <1>3. ASSUME NEW c \in Clients, Connect(c) PROVE (SeatsAgree /\ Fresh)'
    BY <1>3 DEF SeatsInv, Types, SeatsAgree, Fresh, Connect, tableVars, gameVars
  <1>4. ASSUME NEW c \in Clients, Leave(c) PROVE (SeatsAgree /\ Fresh)'
    BY <1>4 DEF SeatsInv, Types, SeatsAgree, Fresh, Leave, tableVars, gameVars
  <1>5. ASSUME UNCHANGED <<tableVars, backlog, client>> PROVE (SeatsAgree /\ Fresh)'
    BY <1>5 DEF SeatsInv, SeatsAgree, Fresh, tableVars
  <1>6. ASSUME NEW c \in Clients, Key(c) \/ NoticeLeave(c) \/ Handle(c)
        PROVE  (SeatsAgree /\ Fresh)'
    BY <1>5, <1>6 DEF Key, NoticeLeave, Handle, clientVars
  <1>7. ASSUME NEW t \in Threads, Visit(t) \/ EndWalk(t) PROVE (SeatsAgree /\ Fresh)'
    BY <1>5, <1>7 DEF Visit, EndWalk, clientVars
  <1>8. ASSUME AcceptFails \/ Announce \/ (\E i \in 1 .. Seats : AskPlayer(i)) \/ Resume
               \/ UNCHANGED vars
        PROVE (SeatsAgree /\ Fresh)'
    BY <1>5, <1>8 DEF AcceptFails, Announce, AskPlayer, Resume, clientVars, vars
  <1> QED BY <1>1, <1>2, <1>3, <1>4, <1>6, <1>7, <1>8, Steps DEF SeatsInv

LEMMA SeatsInit == Init => SeatsInv
  <1> SUFFICES ASSUME Init PROVE SeatsInv
      OBVIOUS
  <1>1. Walks
    BY DEF Init, Walks, NoWalk
  <1>2. players = <<>> /\ playersCount = 0 /\ Len(players) = 0 /\ activePlayersId = <<>>
    BY DEF Init
  <1>3. activePlayersId = [i \in 1 .. 0 |-> i - 1]
    BY <1>2
  <1> QED BY <1>1, <1>2, <1>3, EmptySeq DEF Init, SeatsInv, Types, SeatsAgree, Fresh

(***************************************************************************)
(* The n-th connection has id n - 1, the n-th place in m_activePlayersId   *)
(* and a Player of its own, however many connect.                          *)
(***************************************************************************)
THEOREM SeatsAreInOrder == Spec => []SeatsAgree
  <1>1. SeatsInv => SeatsAgree
    BY DEF SeatsInv
  <1> QED BY <1>1, SeatsInit, SeatsStep, PTL DEF Spec

-----------------------------------------------------------------------------
\* When the table closes.
ClosesInv == SeatsInv /\ TableCloses

LEMMA ClosesStep ==
  ASSUME ClosesInv, [Next]_vars
  PROVE  ClosesInv'
  <1>1. SeatsInv'
    BY SeatsStep DEF ClosesInv
  <1>2. ASSUME NEW c \in Clients, Accept(c) PROVE TableCloses'
    <2>1. /\ gameAt = "none" /\ playersCount \in Nat /\ playersCount + 1 <= Seats
          /\ playersCount' = playersCount + 1 /\ ~Walking("io")
      BY <1>2, SeatsAssumption DEF ClosesInv, TableCloses, SeatsInv, Types, Accept
    <2>2. accepting' = FALSE
      BY <1>2, Zenon DEF Accept
    <2>3. CASE playersCount + 1 = Seats
      <3>1. gameAt' = "runs" /\ walk' = walk
        BY <1>2, <2>3 DEF Accept, TableIsFull
      <3> QED BY <2>1, <2>2, <2>3, <3>1 DEF TableCloses, Walking
    <2>4. CASE playersCount + 1 # Seats
      <3>1. gameAt' = "none"
        BY <1>2, <2>1, <2>4 DEF Accept, TableIsFull
      <3> QED BY <2>1, <2>2, <2>4, <3>1, SeatsAssumption DEF TableCloses
    <2> QED BY <2>3, <2>4
  <1>3. ASSUME playersCount' = playersCount, gameAt' # "none" <=> gameAt # "none",
               accepting' => accepting \/ Walking("io"),
               Walking("io")' => Walking("io")
        PROVE  TableCloses'
    BY <1>3 DEF ClosesInv, TableCloses
  <1>4. ASSUME NEW c \in Clients, Connect(c) \/ Leave(c) \/ Key(c) \/ NoticeLeave(c)
        PROVE  TableCloses'
    BY <1>3, <1>4 DEF Connect, Leave, Key, NoticeLeave, tableVars, gameVars, Walking
  <1>5. ASSUME NEW c \in Clients, Handle(c) PROVE TableCloses'
    <2>1. Walking("io")' <=> Walking("io")
      BY <1>5, WalkBegins, Threaded DEF ClosesInv, SeatsInv, Types, Handle
    <2> QED BY <1>3, <1>5, <2>1 DEF Handle, tableVars, gameVars
  <1>6. CASE AcceptFails
    <2>1. accepting /\ UNCHANGED <<playersCount, gameAt, walk>>
      BY <1>6, Zenon DEF AcceptFails, tableVars, gameVars
    <2>2. Walking("io")' <=> Walking("io")
      BY <2>1 DEF Walking
    <2>3. playersCount' = playersCount /\ (gameAt' # "none" <=> gameAt # "none")
      BY <2>1
    <2>4. accepting' => accepting \/ Walking("io")
      BY <2>1, Zenon
    <2> QED BY <1>1, <1>3, <2>2, <2>3, <2>4 DEF ClosesInv
  <1>7. ASSUME NEW t \in Threads, Visit(t) PROVE TableCloses'
    <2>1. Walking("io")' <=> Walking("io")
      BY <1>7, WalkGoesOn, Threaded DEF ClosesInv, SeatsInv, Types
    <2> QED BY <1>3, <1>7, <2>1 DEF Visit, tableVars, gameVars
  <1>8. ASSUME NEW t \in Threads, EndWalk(t) PROVE TableCloses'
    <2>1. Walking("io")' => Walking("io")
      BY <1>8, WalkEnds, Threaded DEF ClosesInv, SeatsInv, Types
    <2>2. accepting' => accepting \/ Walking("io")
      BY <1>8 DEF EndWalk, AfterWalk
    <2> QED BY <1>3, <1>8, <2>1, <2>2 DEF EndWalk, tableVars
  <1>9. CASE Announce
    <2>1. Walking("io")' <=> Walking("io")
      BY <1>9, WalkBegins, Threaded DEF ClosesInv, SeatsInv, Types, Announce
    <2>2. playersCount' = playersCount /\ (gameAt' # "none" <=> gameAt # "none")
      BY <1>9 DEF Announce, tableVars, gameVars
    <2>3. accepting' => accepting \/ Walking("io")
      BY <1>9, Zenon DEF Announce
    <2> QED BY <1>1, <1>3, <2>1, <2>2, <2>3 DEF ClosesInv
  <1>10. ASSUME (\E i \in 1 .. Seats : AskPlayer(i)) \/ Resume \/ UNCHANGED vars
         PROVE  TableCloses'
    BY <1>3, <1>10 DEF AskPlayer, Resume, vars, tableVars, gameVars, Walking
  <1> QED BY <1>1, <1>2, <1>4, <1>5, <1>6, <1>7, <1>8, <1>9, <1>10, Steps DEF ClosesInv

LEMMA ClosesInit == Init => ClosesInv
  BY SeatsInit, SeatsAssumption DEF Init, ClosesInv, TableCloses

(***************************************************************************)
(* The game begins with the last seat, and from then on nobody is          *)
(* accepted, whoever connects, leaves or plays.                            *)
(***************************************************************************)
THEOREM TableClosesInTime == Spec => []TableCloses
  <1>1. ClosesInv => TableCloses
    BY DEF ClosesInv
  <1> QED BY <1>1, ClosesInit, ClosesStep, PTL DEF Spec

-----------------------------------------------------------------------------
(***************************************************************************)
(* The handoff between the threads: while nobody plays out of turn, the    *)
(* turn is in one place, and only one thread uses the list.                *)
(***************************************************************************)
Booleans == playerAction \in BOOLEAN /\ strayed \in BOOLEAN

LobbyInv == ClosesInv /\ Booleans /\ OneThreadAtATime /\ NoListRace

LEMMA BooleansStep ==
  ASSUME Booleans, [Next]_vars
  PROVE  Booleans'
  <1>1. ASSUME NEW c \in Clients, Connect(c) \/ Leave(c) \/ Accept(c) \/ NoticeLeave(c)
                                    \/ Handle(c)
        PROVE  Booleans'
    BY <1>1, Zenon DEF Booleans, Connect, Leave, Accept, NoticeLeave, Handle, gameVars,
       clientVars
  <1>2. ASSUME NEW c \in Clients, Key(c) PROVE Booleans'
    BY <1>2, Zenon DEF Booleans, Key
  <1>3. ASSUME NEW t \in Threads, Visit(t) PROVE Booleans'
    BY <1>3, Zenon DEF Booleans, Visit, gameVars, clientVars
  <1>4. ASSUME NEW t \in Threads, EndWalk(t) PROVE Booleans'
    BY <1>4, Zenon DEF Booleans, EndWalk, AfterWalk, clientVars
  <1>5. CASE AcceptFails \/ Announce \/ Resume \/ UNCHANGED vars
    BY <1>5, Zenon DEF Booleans, AcceptFails, Announce, Resume, vars, gameVars, clientVars
  <1>6. ASSUME NEW i \in 1 .. Seats, AskPlayer(i) PROVE Booleans'
    BY <1>6, Zenon DEF Booleans, AskPlayer, clientVars
  <1> QED BY <1>1, <1>2, <1>3, <1>4, <1>5, <1>6, Steps

\* What the invariant says of who may be walking.
LEMMA WhoWalks ==
  ASSUME LobbyInv, ~strayed
  PROVE  /\ gameAt \in {"none", "runs"} =>
               asked = Nobody /\ inbox = {} /\ ~Walking("main") /\ ~playerAction
         /\ gameAt # "none" => ~Walking("io") /\ ~accepting
         /\ gameAt # "runs" => ~Walking("game")
         /\ \A t, u \in Threads : Walking(t) /\ Walking(u) => t = u
  <1>1. /\ TurnTokens = IF gameAt = "waits" THEN 1 ELSE 0
        /\ Walking("io") => gameAt = "none"
        /\ Walking("game") => gameAt = "runs"
        /\ gameAt \in {"none", "runs", "waits"}
        /\ gameAt # "none" => ~Walking("io") /\ ~accepting
    BY DEF LobbyInv, ClosesInv, SeatsInv, Types, TableCloses, OneThreadAtATime
  <1>2. gameAt # "waits" => asked = Nobody /\ inbox = {} /\ ~Walking("main") /\ ~playerAction
    BY <1>1 DEF TurnTokens
  <1> QED BY <1>1, <1>2 DEF Threads

LEMMA HandoffStep ==
  ASSUME LobbyInv, [Next]_vars
  PROVE  OneThreadAtATime'
  <1> SUFFICES ASSUME ~strayed'
               PROVE  /\ (TurnTokens = IF gameAt = "waits" THEN 1 ELSE 0)'
                      /\ (\A c, d \in inbox : c = d)'
                      /\ (Walking("io") => gameAt = "none")'
                      /\ (Walking("game") => gameAt = "runs")'
      BY DEF OneThreadAtATime
  <1>a. /\ Walks /\ Nobody \notin Clients /\ Booleans
        /\ gameAt \in {"none", "runs", "waits"}
    BY ClientsAssumption DEF LobbyInv, ClosesInv, SeatsInv, Types
  <1>b. ~strayed => /\ TurnTokens = IF gameAt = "waits" THEN 1 ELSE 0
                    /\ \A c, d \in inbox : c = d
                    /\ Walking("io") => gameAt = "none"
                    /\ Walking("game") => gameAt = "runs"
    BY DEF LobbyInv, OneThreadAtATime
  <1>1. ASSUME UNCHANGED <<gameAt, asked, inbox, playerAction, walk, strayed>>
        PROVE  OneThreadAtATime'
    BY <1>1 DEF LobbyInv, OneThreadAtATime, TurnTokens, Walking
  <1>2. ASSUME NEW c \in Clients, Connect(c) \/ Leave(c) \/ NoticeLeave(c)
        PROVE  OneThreadAtATime'
    BY <1>1, <1>2 DEF Connect, Leave, NoticeLeave, gameVars, clientVars
  <1>3. CASE AcceptFails \/ UNCHANGED vars
    <2>1. /\ gameAt' = gameAt /\ asked' = asked /\ inbox' = inbox
          /\ playerAction' = playerAction /\ walk' = walk /\ strayed' = strayed
      BY <1>3, Zenon DEF AcceptFails, vars, gameVars, clientVars
    <2> QED BY <1>1, <2>1 DEF OneThreadAtATime
  <1>4. ASSUME NEW c \in Clients, Key(c)
        PROVE  OneThreadAtATime'
    <2>1. ~strayed /\ asked = c /\ asked # Nobody /\ asked' = Nobody /\ c \in inbox'
          /\ UNCHANGED <<gameAt, walk, playerAction>>
      BY <1>4, <1>a DEF Key, tableVars
    <2>2. inbox = {} /\ ~Walking("main") /\ ~playerAction /\ gameAt = "waits"
      BY <1>b, <2>1 DEF TurnTokens
    <2>3. inbox' = {c} /\ ~Walking("main")' /\ ~playerAction'
      BY <1>4, <2>1, <2>2 DEF Key, Walking
    <2> QED BY <1>b, <2>1, <2>2, <2>3 DEF OneThreadAtATime, TurnTokens, Walking
  <1>5. ASSUME NEW c \in Clients, Accept(c)
        PROVE  OneThreadAtATime'
    <2>1. ~strayed /\ gameAt = "none" /\ gameAt' \in {"none", "runs"}
          /\ UNCHANGED <<asked, inbox, playerAction>>
      BY <1>5 DEF Accept, LobbyInv, ClosesInv, TableCloses
    <2>2. asked = Nobody /\ inbox = {} /\ ~Walking("main") /\ ~playerAction
          /\ ~Walking("game")
      BY <2>1, WhoWalks
    <2>3. ~Walking("main")' /\ ~Walking("game")' /\ (Walking("io")' => gameAt' = "none")
      <3>1. CASE TableIsFull(playersCount + 1)
        BY <1>5, <2>2, <3>1 DEF Accept, Walking
      <3>2. CASE ~TableIsFull(playersCount + 1)
        <4>1. BeginWalk("io", Nobody) /\ gameAt' = gameAt
          BY <1>5, <3>2 DEF Accept
        <4> QED BY <1>a, <2>1, <2>2, <4>1, WalkBegins, Threaded DEF Threads
      <3> QED BY <3>1, <3>2
    <2> QED BY <2>1, <2>2, <2>3 DEF OneThreadAtATime, TurnTokens
  <1>6. ASSUME NEW c \in Clients, Handle(c)
        PROVE  OneThreadAtATime'
    <2>1. ~strayed /\ c \in inbox /\ BeginWalk("main", c) /\ inbox' = inbox \ {c}
          /\ UNCHANGED <<gameAt, asked, playerAction>>
      BY <1>6 DEF Handle, gameVars
    <2>2. gameAt = "waits" /\ asked = Nobody /\ ~playerAction /\ inbox = {c}
      BY <1>b, <2>1 DEF TurnTokens
    <2>3. Walking("main")' /\ (Walking("io")' <=> Walking("io"))
          /\ (Walking("game")' <=> Walking("game"))
      BY <1>a, <2>1, WalkBegins, Threaded DEF Threads
    <2>4. inbox' = {}
      BY <2>1, <2>2
    <2> QED BY <1>b, <2>1, <2>2, <2>3, <2>4 DEF OneThreadAtATime, TurnTokens
  <1>7. ASSUME NEW t \in Threads, Visit(t)
        PROVE  OneThreadAtATime'
    <2>1. \A u \in Threads : Walking(u)' <=> Walking(u)
      BY <1>7, <1>a, WalkGoesOn
    <2>2. UNCHANGED <<gameAt, asked, inbox, playerAction, strayed>>
      BY <1>7, Zenon DEF Visit, gameVars, clientVars
    <2> QED BY <1>b, <2>1, <2>2, Threaded DEF OneThreadAtATime, TurnTokens
  <1>8. ASSUME NEW t \in Threads, EndWalk(t)
        PROVE  OneThreadAtATime'
    <2>1. ~strayed /\ UNCHANGED <<gameAt, asked, inbox>>
      BY <1>8 DEF EndWalk, clientVars
    <2>2. ~Walking(t)' /\ \A u \in Threads \ {t} : Walking(u)' <=> Walking(u)
      BY <1>8, <1>a, WalkEnds
    <2>3. CASE t = "main"
      <3>1. gameAt = "waits" /\ asked = Nobody /\ inbox = {} /\ ~playerAction
        BY <1>8, <1>b, <2>1, <2>3 DEF EndWalk, TurnTokens
      <3>2. playerAction'
        BY <1>8, <2>3, <3>1 DEF EndWalk, AfterWalk
      <3> QED BY <1>b, <2>1, <2>2, <2>3, <3>1, <3>2 DEF OneThreadAtATime, TurnTokens, Threads
    <2>4. CASE t # "main"
      <3>1. playerAction' = playerAction
        BY <1>8, <2>4, Zenon DEF EndWalk, AfterWalk
      <3>2. /\ Walking("main")' <=> Walking("main")
            /\ Walking("io")' => Walking("io")
            /\ Walking("game")' => Walking("game")
        BY <2>2, <2>4, Threaded
      <3> QED BY <1>b, <2>1, <3>1, <3>2 DEF OneThreadAtATime, TurnTokens
    <2> QED BY <2>3, <2>4
  <1>9. CASE Announce
    <2>1. gameAt = "runs" /\ BeginWalk("game", Nobody)
          /\ UNCHANGED <<gameAt, asked, inbox, playerAction, strayed>>
      BY <1>9, Zenon DEF Announce, gameVars, clientVars
    <2>2. /\ Walking("main")' <=> Walking("main")
          /\ Walking("io")' <=> Walking("io")
      BY <1>a, <2>1, WalkBegins, Threaded DEF Threads
    <2> QED BY <1>b, <2>1, <2>2 DEF OneThreadAtATime, TurnTokens
  <1>10. ASSUME NEW i \in 1 .. Seats, AskPlayer(i)
         PROVE  OneThreadAtATime'
    <2>1. asked' \in Clients
      <3>1. i \in 1 .. playersCount /\ activePlayersId[i] + 1 = i
            /\ Len(players) = playersCount
        BY <1>10, SeatsAssumption
        DEF AskPlayer, LobbyInv, ClosesInv, SeatsInv, SeatsAgree, Types
      <3>2. players[i] \in Clients
        BY <3>1, ElementOfSeq DEF LobbyInv, ClosesInv, SeatsInv, Types
      <3> QED BY <1>10, <3>1, <3>2 DEF AskPlayer
    <2>2. /\ ~strayed /\ gameAt = "runs" /\ gameAt' = "waits" /\ ~Walking("game")
          /\ inbox' = inbox /\ walk' = walk /\ playerAction' = playerAction
      BY <1>10 DEF AskPlayer, clientVars
    <2>3. inbox = {} /\ ~Walking("main") /\ ~playerAction /\ ~Walking("io")
      BY <2>2, WhoWalks
    <2> QED BY <1>a, <2>1, <2>2, <2>3 DEF OneThreadAtATime, TurnTokens, Walking
  <1>11. CASE Resume
    <2>1. ~strayed /\ gameAt = "waits" /\ gameAt' = "runs" /\ playerAction /\ asked' = Nobody
          /\ inbox' = inbox /\ walk' = walk
      BY <1>11 DEF Resume, clientVars
    <2>2. ~playerAction'
      BY <1>11, Zenon DEF Resume
    <2>3. asked = Nobody /\ inbox = {} /\ ~Walking("main")
      BY <1>b, <2>1 DEF TurnTokens
    <2> QED BY <1>b, <2>1, <2>2, <2>3 DEF OneThreadAtATime, TurnTokens, Walking
  <1> QED BY <1>2, <1>3, <1>4, <1>5, <1>6, <1>7, <1>8, <1>9, <1>10, <1>11, Steps
          DEF OneThreadAtATime

LEMMA NoRaceStep ==
  ASSUME LobbyInv, [Next]_vars
  PROVE  NoListRace'
  <1> SUFFICES ASSUME ~strayed' PROVE ~undefined'
      BY DEF NoListRace
  <1>1. ASSUME undefined' = undefined, ~strayed PROVE ~undefined'
    BY <1>1 DEF LobbyInv, NoListRace
  <1>2. ASSUME NEW t \in Threads, ~strayed, Modifies(t),
               \A u \in Threads \ {t} : ~Walking(u)
        PROVE  ~undefined'
    BY <1>2, Zenon DEF Modifies
  <1>3. ASSUME NEW c \in Clients, Connect(c) \/ Leave(c) \/ NoticeLeave(c) \/ Handle(c) \/ Key(c)
        PROVE  ~undefined'
    <2>1. undefined' = undefined
      BY <1>3, Zenon DEF Connect, Leave, NoticeLeave, Handle, Key
    <2>2. CASE Key(c)
      BY <1>1, <2>1, <2>2 DEF Key
    <2>3. CASE Connect(c) \/ Leave(c) \/ NoticeLeave(c) \/ Handle(c)
      <3>1. strayed' = strayed
        BY <2>3, Zenon DEF Connect, Leave, NoticeLeave, Handle, clientVars
      <3> QED BY <1>1, <2>1, <3>1
    <2> QED BY <1>3, <2>2, <2>3
  <1>4. ASSUME NEW c \in Clients, Accept(c) PROVE ~undefined'
    <2>1. ~strayed /\ Modifies("io") /\ gameAt = "none" /\ ~Walking("io")
      BY <1>4 DEF Accept, LobbyInv, ClosesInv, TableCloses
    <2>2. ~Walking("main") /\ ~Walking("game")
      BY <2>1, WhoWalks
    <2> QED BY <1>2, <2>1, <2>2 DEF Threads
  <1>5. ASSUME NEW t \in Threads, Visit(t) \/ EndWalk(t) PROVE ~undefined'
    <2>1. ~strayed /\ Walking(t)
      <3>1. Walks
        BY DEF LobbyInv, ClosesInv, SeatsInv, Types
      <3>2. Walking(t)
        BY <1>5, <3>1 DEF Walks, Visit, EndWalk, Walking
      <3>3. strayed' = strayed
        BY <1>5, Zenon DEF Visit, EndWalk, clientVars
      <3> QED BY <3>2, <3>3
    <2>2. \A u \in Threads \ {t} : ~Walking(u)
      BY <2>1, WhoWalks
    <2>3. undefined' = undefined \/ Modifies(t)
      BY <1>5 DEF Visit, EndWalk, ResetElement
    <2> QED BY <1>1, <1>2, <2>1, <2>2, <2>3
  <1>6. ASSUME AcceptFails \/ Announce \/ (\E i \in 1 .. Seats : AskPlayer(i)) \/ Resume
               \/ UNCHANGED vars
        PROVE  ~undefined'
    <2>1. undefined' = undefined /\ strayed' = strayed
      BY <1>6, Zenon DEF AcceptFails, Announce, AskPlayer, Resume, clientVars, vars
    <2> QED BY <1>1, <2>1
  <1> QED BY <1>3, <1>4, <1>5, <1>6, Steps

LEMMA LobbyInit == Init => LobbyInv
  <1> SUFFICES ASSUME Init PROVE LobbyInv
      OBVIOUS
  <1>1. ClosesInv
    BY ClosesInit
  <1>2. Booleans /\ ~playerAction /\ ~undefined
    BY Zenon DEF Init, Booleans
  <1>3. \A t \in Threads : ~Walking(t)
    BY DEF Init, Walking, NoWalk
  <1> QED BY <1>1, <1>2, <1>3, Threaded
          DEF Init, LobbyInv, OneThreadAtATime, TurnTokens, NoListRace

LEMMA LobbyInvariant == Spec => []LobbyInv
  <1>1. LobbyInv /\ [Next]_vars => LobbyInv'
    BY ClosesStep, BooleansStep, HandoffStep, NoRaceStep DEF LobbyInv
  <1> QED BY <1>1, LobbyInit, PTL DEF Spec

(***************************************************************************)
(* While nobody plays out of turn, m_connections is never changed under    *)
(* another thread's walk, for any number of connections and leavers.       *)
(***************************************************************************)
THEOREM ListIsNotRaced == Spec => []NoListRace
  <1>1. LobbyInv => NoListRace
    BY DEF LobbyInv
  <1> QED BY <1>1, LobbyInvariant, PTL

(***************************************************************************)
(* A player who has left is waited for until somebody plays out of turn:   *)
(* no other step ends the wait.                                            *)
(***************************************************************************)
THEOREM LeaversAreAwaited == Spec => LeaverIsAwaited
  <1>1. ASSUME LobbyInv, [Next]_vars, ~strayed', asked # Nobody, client[asked] = "gone"
        PROVE  gameAt' = gameAt /\ asked' = asked
    <2>1. ASSUME NEW c \in Clients, Key(c) PROVE FALSE
      BY <1>1, <2>1 DEF Key
    <2>2. ASSUME ~strayed PROVE gameAt = "waits" /\ ~playerAction /\ ~accepting
      <3>1. gameAt = "waits"
        BY <1>1, <2>2, WhoWalks DEF LobbyInv, ClosesInv, SeatsInv, Types
      <3>2. ~playerAction
        BY <1>1, <2>2, <3>1 DEF LobbyInv, OneThreadAtATime, TurnTokens
      <3> QED BY <1>1, <2>2, <3>1, <3>2, WhoWalks
    <2>3. ASSUME NEW c \in Clients, Accept(c) PROVE FALSE
      BY <1>1, <2>2, <2>3 DEF Accept
    <2>4. ASSUME Resume \/ \E i \in 1 .. Seats : AskPlayer(i) PROVE FALSE
      BY <1>1, <2>2, <2>4 DEF Resume, AskPlayer, clientVars
    <2>5. ASSUME NEW c \in Clients, Connect(c) \/ Leave(c) \/ NoticeLeave(c) \/ Handle(c)
          PROVE  gameAt' = gameAt /\ asked' = asked
      BY <2>5 DEF Connect, Leave, NoticeLeave, Handle, gameVars
    <2>6. ASSUME NEW t \in Threads, Visit(t) \/ EndWalk(t)
          PROVE  gameAt' = gameAt /\ asked' = asked
      BY <2>6 DEF Visit, EndWalk, gameVars
    <2>7. ASSUME AcceptFails \/ Announce \/ UNCHANGED vars
          PROVE  gameAt' = gameAt /\ asked' = asked
      BY <2>7 DEF AcceptFails, Announce, vars, gameVars
    <2> QED BY <1>1, <2>1, <2>3, <2>4, <2>5, <2>6, <2>7, Steps
  <1>2. LobbyInv /\ [Next]_vars =>
           [(~strayed' /\ asked # Nobody /\ client[asked] = "gone")
               => (gameAt' = gameAt /\ asked' = asked)]_vars
    BY <1>1
  <1> QED BY <1>2, LobbyInvariant, PTL DEF Spec, LeaverIsAwaited

-----------------------------------------------------------------------------
\* A connection is on the list once.
ListedOnce ==
    \A i, j \in 1 .. Len(connections) :
        connections[i] = connections[j] /\ connections[i] # Nobody => i = j

(***************************************************************************)
(* What pruning leaves: the elements that are not null pointers, in a list *)
(* without any, each as often as it was there before.                      *)
(***************************************************************************)
LEMMA Pruning ==
  ASSUME connections \in Seq(Clients \cup {Nobody})
  PROVE  /\ Pruned \in Seq(Clients)
         /\ \A j \in 1 .. Len(Pruned) :
               \E i \in 1 .. Len(connections) : connections[i] = Pruned[j]
         /\ \A i \in 1 .. Len(connections) : connections[i] # Nobody =>
               \E j \in 1 .. Len(Pruned) : Pruned[j] = connections[i]
         /\ ListedOnce => \A i, j \in 1 .. Len(Pruned) : Pruned[i] = Pruned[j] => i = j
  <1> DEFINE n == Len(connections)
             IsKept(f) == f = [i \in 0 .. n |->
                                 IF i = 0 THEN <<>>
                                 ELSE IF connections[i] = Nobody THEN f[i - 1]
                                 ELSE Append(f[i - 1], connections[i])]
             kept == CHOOSE f : IsKept(f)
  <1>1. n \in Nat /\ \A i \in 1 .. n : connections[i] \in Clients \cup {Nobody}
    BY LenProperties, ElementOfSeq
  <1> HIDE DEF n
  <1>2. \E f : IsKept(f)
    <2> DEFINE S == Seq(Clients)
               step == [p \in S \X (1 .. n) |->
                          IF connections[p[2]] = Nobody THEN p[1]
                          ELSE Append(p[1], connections[p[2]])]
    <2>1. <<>> \in S
      BY EmptySeq
    <2>2. /\ IsStep(step, n, S)
          /\ \A s \in S : \A i \in 1 .. n :
               step[<<s, i>>] = IF connections[i] = Nobody THEN s ELSE Append(s, connections[i])
      BY <1>1, AppendProperties DEF IsStep
    <2> HIDE DEF step, S
    <2>3. PICK f : Recurs(f, <<>>, step, n, S)
      BY <1>1, <2>1, <2>2, Recursion
    <2>4. ASSUME NEW i \in 0 .. n
          PROVE  f[i] = IF i = 0 THEN <<>>
                        ELSE IF connections[i] = Nobody THEN f[i - 1]
                        ELSE Append(f[i - 1], connections[i])
      <3>1. CASE i = 0
        BY <2>3, <3>1 DEF Recurs
      <3>2. CASE i # 0
        <4>1. i \in 1 .. n /\ i - 1 \in 0 .. n
          BY <1>1, <3>2
        <4>2. f[i - 1] \in S
          BY <2>3, <4>1 DEF Recurs
        <4> QED BY <2>2, <2>3, <3>2, <4>1, <4>2 DEF Recurs
      <3> QED BY <3>1, <3>2
    <2>5. f = [i \in 0 .. n |-> f[i]]
      BY <2>3 DEF Recurs
    <2>6. IsKept(f)
      BY <2>4, <2>5
    <2> QED BY <2>6
  <1>3. IsKept(kept)
    BY <1>2
  <1>4. Pruned = kept[n]
    BY DEF Pruned, n
  <1> HIDE DEF kept
  <1>5. /\ kept[0] = <<>>
        /\ \A i \in 1 .. n : connections[i] = Nobody => kept[i] = kept[i - 1]
        /\ \A i \in 1 .. n : connections[i] # Nobody =>
              kept[i] = Append(kept[i - 1], connections[i])
    <2>1. \A i \in 0 .. n : kept[i] = IF i = 0 THEN <<>>
                                     ELSE IF connections[i] = Nobody THEN kept[i - 1]
                                     ELSE Append(kept[i - 1], connections[i])
      BY <1>3
    <2>2. 0 \in 0 .. n /\ \A i \in 1 .. n : i \in 0 .. n /\ i # 0
      BY <1>1
    <2> HIDE DEF kept
    <2> QED BY <2>1, <2>2
  <1> HIDE DEF IsKept
  <1> DEFINE Sound(i) == \A j \in 1 .. Len(kept[i]) :
                            \E k \in 1 .. i : connections[k] = kept[i][j]
             Complete(i) == \A k \in 1 .. i : connections[k] # Nobody =>
                            \E j \in 1 .. Len(kept[i]) : kept[i][j] = connections[k]
             Once(i) == ListedOnce => \A j, k \in 1 .. Len(kept[i]) :
                            kept[i][j] = kept[i][k] => j = k
             Right(i) == kept[i] \in Seq(Clients) /\ Sound(i) /\ Complete(i) /\ Once(i)
             T == {i \in 0 .. n : Right(i)}
  <1>6. Right(0)
    BY <1>5, EmptySeq
  <1>7. ASSUME NEW i \in 0 .. n, i < n, Right(i) PROVE Right(i + 1)
    <2>1. i + 1 \in 1 .. n /\ (i + 1) - 1 = i /\ i \in Nat
          /\ \A k \in 1 .. i + 1 : k = i + 1 \/ k \in 1 .. i
      BY <1>1, <1>7
    <2>2. CASE connections[i + 1] = Nobody
      <3>1. kept[i + 1] = kept[i]
        BY <1>5, <2>1, <2>2
      <3>2. Sound(i + 1)
        BY <1>7, <2>1, <3>1
      <3> QED BY <1>7, <2>1, <2>2, <3>1, <3>2
    <2>3. CASE connections[i + 1] # Nobody
      <3>1. kept[i + 1] = Append(kept[i], connections[i + 1]) /\ connections[i + 1] \in Clients
        BY <1>1, <1>5, <2>1, <2>3
      <3>2. /\ kept[i + 1] \in Seq(Clients)
            /\ Len(kept[i + 1]) = Len(kept[i]) + 1 /\ Len(kept[i]) \in Nat
            /\ \A j \in 1 .. Len(kept[i]) : kept[i + 1][j] = kept[i][j]
            /\ kept[i + 1][Len(kept[i]) + 1] = connections[i + 1]
        BY <1>7, <3>1, AppendProperties, LenProperties
      <3>3. \A j \in 1 .. Len(kept[i + 1]) : j = Len(kept[i]) + 1 \/ j \in 1 .. Len(kept[i])
        BY <3>2
      <3>4. Sound(i + 1)
        <4> SUFFICES ASSUME NEW j \in 1 .. Len(kept[i + 1])
                     PROVE  \E k \in 1 .. i + 1 : connections[k] = kept[i + 1][j]
            OBVIOUS
        <4>1. CASE j = Len(kept[i]) + 1
          BY <2>1, <3>2, <4>1
        <4>2. CASE j \in 1 .. Len(kept[i])
          <5>1. PICK k \in 1 .. i : connections[k] = kept[i][j]
            BY <1>7, <4>2
          <5> QED BY <2>1, <3>2, <4>2, <5>1
        <4> QED BY <3>3, <4>1, <4>2
      <3>5. Complete(i + 1)
        <4> SUFFICES ASSUME NEW k \in 1 .. i + 1, connections[k] # Nobody
                     PROVE  \E j \in 1 .. Len(kept[i + 1]) : kept[i + 1][j] = connections[k]
            OBVIOUS
        <4>1. CASE k = i + 1
          BY <3>2, <4>1
        <4>2. CASE k \in 1 .. i
          <5>1. PICK j \in 1 .. Len(kept[i]) : kept[i][j] = connections[k]
            BY <1>7, <4>2
          <5> QED BY <3>2, <5>1
        <4> QED BY <2>1, <4>1, <4>2
      <3>6. Once(i + 1)
        <4> SUFFICES ASSUME ListedOnce, NEW j \in 1 .. Len(kept[i + 1]),
                            NEW k \in 1 .. Len(kept[i + 1]), kept[i + 1][j] = kept[i + 1][k]
                     PROVE  j = k
            OBVIOUS
        <4>1. ASSUME NEW l \in 1 .. Len(kept[i]) PROVE kept[i + 1][l] # connections[i + 1]
          <5>1. PICK m \in 1 .. i : connections[m] = kept[i + 1][l]
            BY <1>7, <3>2
          <5>2. m \in 1 .. n /\ m # i + 1
            BY <2>1, <1>1
          <5> QED BY <2>1, <2>3, <5>1, <5>2 DEF ListedOnce, n
        <4>2. CASE j \in 1 .. Len(kept[i]) /\ k \in 1 .. Len(kept[i])
          BY <1>7, <3>2, <4>2
        <4> QED BY <3>2, <3>3, <4>1, <4>2
      <3> QED BY <3>2, <3>4, <3>5, <3>6
    <2> QED BY <2>2, <2>3
  <1>8. n \in T
    <2>1. 0 \in T /\ \A i \in 0 .. n : i < n /\ i \in T => i + 1 \in T
      <3> HIDE DEF Right
      <3> QED BY <1>1, <1>6, <1>7
    <2> HIDE DEF T
    <2>2. 0 .. n \subseteq T
      BY <1>1, <2>1, UpwardInduction
    <2> QED BY <1>1, <2>2
  <1>9. Right(n)
    BY <1>8
  <1> QED BY <1>1, <1>4, <1>9 DEF n

-----------------------------------------------------------------------------
(***************************************************************************)
(* The walks: what message_all has passed.  Visit and EndWalk in terms of  *)
(* the fields they change.                                                 *)
(***************************************************************************)
WalkType == [at : Nat, ignore : Clients \cup {Nobody}, invalid : BOOLEAN,
             reached : SUBSET Clients]

ListTypes ==
    /\ connections \in Seq(Clients \cup {Nobody})
    /\ walk \in [Threads -> WalkType]
    /\ accepting \in BOOLEAN
    /\ undefined \in BOOLEAN

LEMMA WalkSent ==
  ASSUME NEW w \in WalkType, NEW s \in SUBSET Clients
  PROVE  LET v == [w EXCEPT !.at = w.at + 1, !.reached = s] IN
         /\ v \in WalkType
         /\ v.at = w.at + 1 /\ v.ignore = w.ignore /\ v.invalid = w.invalid /\ v.reached = s
  <1> DEFINE u == [w EXCEPT !.at = w.at + 1]
  <1>1. u \in WalkType /\ u.at = w.at + 1 /\ u.ignore = w.ignore /\ u.invalid = w.invalid
    BY DEF WalkType
  <1>2. [w EXCEPT !.at = w.at + 1, !.reached = s] = [u EXCEPT !.reached = s]
    OBVIOUS
  <1> HIDE DEF u
  <1>3. /\ [u EXCEPT !.reached = s] \in WalkType
        /\ [u EXCEPT !.reached = s].at = u.at
        /\ [u EXCEPT !.reached = s].ignore = u.ignore
        /\ [u EXCEPT !.reached = s].invalid = u.invalid
        /\ [u EXCEPT !.reached = s].reached = s
    BY <1>1 DEF WalkType
  <1> QED BY <1>1, <1>2, <1>3

LEMMA WalkReset ==
  ASSUME NEW w \in WalkType
  PROVE  LET v == [w EXCEPT !.at = w.at + 1, !.invalid = TRUE] IN
         /\ v \in WalkType
         /\ v.at = w.at + 1 /\ v.ignore = w.ignore /\ v.invalid = TRUE /\ v.reached = w.reached
  <1> DEFINE u == [w EXCEPT !.at = w.at + 1]
  <1>1. u \in WalkType /\ u.at = w.at + 1 /\ u.ignore = w.ignore /\ u.reached = w.reached
    BY DEF WalkType
  <1>2. [w EXCEPT !.at = w.at + 1, !.invalid = TRUE] = [u EXCEPT !.invalid = TRUE]
    OBVIOUS
  <1> HIDE DEF u
  <1>3. /\ [u EXCEPT !.invalid = TRUE] \in WalkType
        /\ [u EXCEPT !.invalid = TRUE].at = u.at
        /\ [u EXCEPT !.invalid = TRUE].ignore = u.ignore
        /\ [u EXCEPT !.invalid = TRUE].invalid = TRUE
        /\ [u EXCEPT !.invalid = TRUE].reached = u.reached
    BY <1>1 DEF WalkType
  <1> QED BY <1>1, <1>2, <1>3

LEMMA EmptyWalk ==
  /\ NoWalk \in WalkType /\ NoWalk.at = 0 /\ NoWalk.invalid = FALSE
  /\ \A c \in Clients \cup {Nobody} :
        LET v == [NoWalk EXCEPT !.at = 1, !.ignore = c] IN
        v \in WalkType /\ v.at = 1 /\ v.invalid = FALSE
  <1>1. NoWalk \in WalkType /\ NoWalk.at = 0 /\ NoWalk.invalid = FALSE
    BY DEF NoWalk, WalkType
  <1>2. ASSUME NEW c \in Clients \cup {Nobody}
        PROVE  LET v == [NoWalk EXCEPT !.at = 1, !.ignore = c] IN
               v \in WalkType /\ v.at = 1 /\ v.invalid = FALSE
    <2> DEFINE u == [NoWalk EXCEPT !.at = 1]
    <2>1. u \in WalkType /\ u.at = 1 /\ u.invalid = FALSE
      BY <1>1 DEF WalkType
    <2>2. [NoWalk EXCEPT !.at = 1, !.ignore = c] = [u EXCEPT !.ignore = c]
      OBVIOUS
    <2> HIDE DEF u
    <2>3. /\ [u EXCEPT !.ignore = c] \in WalkType
          /\ [u EXCEPT !.ignore = c].at = u.at
          /\ [u EXCEPT !.ignore = c].invalid = u.invalid
      BY <2>1 DEF WalkType
    <2> QED BY <2>1, <2>2, <2>3
  <1> QED BY <1>1, <1>2

LEMMA OthersWalk ==
  ASSUME ListTypes, NEW t \in Threads, NEW w \in WalkType, walk' = [walk EXCEPT ![t] = w]
  PROVE  /\ walk' \in [Threads -> WalkType]
         /\ walk'[t] = w
         /\ \A u \in Threads \ {t} : walk'[u] = walk[u]
  BY DEF ListTypes

LEMMA BeginEffect ==
  ASSUME ListTypes, NEW t \in Threads, NEW c \in Clients \cup {Nobody}, BeginWalk(t, c)
  PROVE  /\ walk' \in [Threads -> WalkType]
         /\ walk'[t].at = 1 /\ walk'[t].invalid = FALSE
         /\ \A u \in Threads \ {t} : walk'[u] = walk[u]
  <1> DEFINE w == [NoWalk EXCEPT !.at = 1, !.ignore = c]
  <1>1. w \in WalkType /\ w.at = 1 /\ w.invalid = FALSE
    BY EmptyWalk
  <1>2. walk' = [walk EXCEPT ![t] = w]
    BY DEF BeginWalk
  <1> HIDE DEF w
  <1> QED BY <1>1, <1>2, OthersWalk

LEMMA EndEffect ==
  ASSUME ListTypes, NEW t \in Threads, EndWalk(t)
  PROVE  /\ walk' \in [Threads -> WalkType]
         /\ walk'[t].at = 0 /\ walk'[t].invalid = FALSE
         /\ \A u \in Threads \ {t} : walk'[u] = walk[u]
  <1>1. walk' = [walk EXCEPT ![t] = NoWalk]
    BY DEF EndWalk
  <1> QED BY <1>1, EmptyWalk, OthersWalk

\* A client still connected is sent the message, unless it is to be ignored.
LEMMA SendEffect ==
  ASSUME ListTypes, NEW t \in Threads, Visit(t), Element(t) \in open, open \subseteq Clients
  PROVE  /\ walk' \in [Threads -> WalkType]
         /\ walk'[t].at = walk[t].at + 1 /\ walk'[t].ignore = walk[t].ignore
         /\ walk'[t].invalid = walk[t].invalid
         /\ walk[t].reached \subseteq walk'[t].reached
         /\ Element(t) = walk[t].ignore \/ Element(t) \in walk'[t].reached
         /\ \A u \in Threads \ {t} : walk'[u] = walk[u]
         /\ UNCHANGED <<connections, undefined>>
  <1> DEFINE s == IF Element(t) = walk[t].ignore THEN walk[t].reached
                  ELSE walk[t].reached \cup {Element(t)}
             w == [walk[t] EXCEPT !.at = walk[t].at + 1, !.reached = s]
  <1>1. walk[t] \in WalkType /\ walk[t].reached \in SUBSET Clients
    BY DEF ListTypes, WalkType
  <1>2. s \in SUBSET Clients
    BY <1>1
  <1>3. walk' = [walk EXCEPT ![t] = w]
    BY DEF Visit, ListTypes
  <1>4. UNCHANGED <<connections, undefined>>
    BY DEF Visit
  <1>5. walk[t].reached \subseteq s /\ (Element(t) = walk[t].ignore \/ Element(t) \in s)
    OBVIOUS
  <1> HIDE DEF s
  <1>6. /\ w \in WalkType /\ w.at = walk[t].at + 1 /\ w.ignore = walk[t].ignore
        /\ w.invalid = walk[t].invalid /\ w.reached = s
    BY <1>1, <1>2, WalkSent
  <1> HIDE DEF w
  <1>7. /\ walk' \in [Threads -> WalkType] /\ walk'[t] = w
        /\ \A u \in Threads \ {t} : walk'[u] = walk[u]
    BY <1>3, <1>6, OthersWalk
  <1> QED BY <1>4, <1>5, <1>6, <1>7

\* The place of one who has gone becomes a null pointer.
LEMMA ResetEffect ==
  ASSUME ListTypes, NEW t \in Threads, Visit(t), Element(t) \notin open
  PROVE  /\ walk' \in [Threads -> WalkType]
         /\ walk'[t].at = walk[t].at + 1 /\ walk'[t].ignore = walk[t].ignore
         /\ walk'[t].invalid = TRUE /\ walk'[t].reached = walk[t].reached
         /\ \A u \in Threads \ {t} : walk'[u] = walk[u]
         /\ connections' = [connections EXCEPT ![walk[t].at] = Nobody]
         /\ undefined' = (\E u \in Threads \ {t} : Walking(u))
  <1> DEFINE w == [walk[t] EXCEPT !.at = walk[t].at + 1, !.invalid = TRUE]
  <1>1. walk[t] \in WalkType
    BY DEF ListTypes
  <1>2. walk' = [walk EXCEPT ![t] = w]
    BY DEF Visit, ResetElement, ListTypes
  <1>3. connections' = [connections EXCEPT ![walk[t].at] = Nobody]
    BY DEF Visit, ResetElement
  <1>4. undefined' = (\E u \in Threads \ {t} : Walking(u))
    BY DEF Visit, ResetElement, Modifies
  <1>5. /\ w \in WalkType /\ w.at = walk[t].at + 1 /\ w.ignore = walk[t].ignore
        /\ w.invalid = TRUE /\ w.reached = walk[t].reached
    BY <1>1, WalkReset
  <1> HIDE DEF w
  <1>6. /\ walk' \in [Threads -> WalkType] /\ walk'[t] = w
        /\ \A u \in Threads \ {t} : walk'[u] = walk[u]
    BY <1>2, <1>5, OthersWalk
  <1> QED BY <1>3, <1>4, <1>5, <1>6

-----------------------------------------------------------------------------
(***************************************************************************)
(* Who is on the list has connected and been accepted, so a client that is *)
(* accepted now is not on it yet.                                          *)
(***************************************************************************)
Known ==
    \A i \in 1 .. Len(connections) : connections[i] # Nobody =>
        connections[i] \notin backlog /\ client[connections[i]] # "away"

(***************************************************************************)
(* What a walk has passed and whose socket is open, it has reached.        *)
(***************************************************************************)
Passed ==
    ~undefined => \A t \in Threads :
        /\ walk[t].at <= Len(connections) + 1
        /\ walk[t].at = 0 => ~walk[t].invalid
        /\ \A i \in 1 .. Len(connections) :
              i < walk[t].at /\ connections[i] \in open =>
                  connections[i] = walk[t].ignore \/ connections[i] \in walk[t].reached

ListInv == SeatsInv /\ ListTypes /\ Known /\ OpenAreListed /\ Passed

LEMMA ListElements ==
  ASSUME ListTypes
  PROVE  /\ Len(connections) \in Nat
         /\ \A i \in 1 .. Len(connections) : connections[i] \in Clients \cup {Nobody}
         /\ \A t \in Threads : walk[t] \in WalkType /\ walk[t].at \in Nat
  <1>1. \A t \in Threads : walk[t] \in WalkType
    BY DEF ListTypes
  <1> QED BY <1>1, LenProperties, ElementOfSeq DEF ListTypes, WalkType

\* The list and the walks are left alone.
LEMMA ListStands ==
  ASSUME ListInv, UNCHANGED <<connections, walk, undefined>>, open' \subseteq open,
         \A c \in Clients : c \notin backlog /\ client[c] # "away" =>
             c \notin backlog' /\ client'[c] # "away"
  PROVE  (Known /\ OpenAreListed /\ Passed)'
  <1>1. Known'
    BY ListElements DEF ListInv, Known
  <1>2. OpenAreListed'
    BY DEF ListInv, OpenAreListed
  <1>3. Passed'
    BY DEF ListInv, Passed
  <1> QED BY <1>1, <1>2, <1>3

\* A walk begins.
LEMMA ListIsWalked ==
  ASSUME ListInv, NEW t \in Threads, NEW c \in Clients \cup {Nobody},
         BeginWalk(t, c), ~Walking(t),
         UNCHANGED <<connections, undefined, open, backlog, client>>
  PROVE  (Known /\ OpenAreListed /\ Passed)'
  <1>1. /\ walk' \in [Threads -> WalkType]
        /\ walk'[t].at = 1 /\ walk'[t].invalid = FALSE
        /\ \A u \in Threads \ {t} : walk'[u] = walk[u]
    BY BeginEffect DEF ListInv
  <1>2. Known'
    BY DEF ListInv, Known
  <1>3. ~undefined => ~walk[t].invalid
    BY ListElements DEF ListInv, Passed, Walking
  <1>4. OpenAreListed'
    BY <1>1, <1>3 DEF ListInv, OpenAreListed
  <1>5. Passed'
    BY <1>1, ListElements DEF ListInv, Passed
  <1> QED BY <1>2, <1>4, <1>5

\* Whatever a thread does to the list, no other one is walking it.
LEMMA Alone ==
  ASSUME ListInv, NEW t \in Threads, Modifies(t), ~undefined', ~undefined
  PROVE  \A u \in Threads \ {t} : walk[u].at = 0 /\ ~walk[u].invalid
  <1>1. \A u \in Threads \ {t} : ~Walking(u)
    BY DEF Modifies
  <1> QED BY <1>1, ListElements DEF ListInv, Passed, Walking

LEMMA ListGrows ==
  ASSUME ListInv, ~undefined, NEW c \in Clients, Accept(c)
  PROVE  (Known /\ OpenAreListed /\ Passed)'
  <1> DEFINE n == Len(connections)
  <1>1. /\ n \in Nat /\ Len(connections') = n + 1 /\ connections'[n + 1] = c
        /\ \A i \in 1 .. n : connections'[i] = connections[i]
        /\ \A i \in 1 .. n + 1 : i = n + 1 \/ i \in 1 .. n
    BY ListElements, AppendProperties DEF ListInv, ListTypes, Accept
  <1>2. /\ Modifies("io") /\ ~Walking("io") /\ c \in backlog
        /\ backlog' = backlog \ {c} /\ client' = client /\ open' = open \cup {c}
    BY DEF Accept, clientVars
  <1>3. Known'
    BY <1>1, <1>2 DEF ListInv, Known, SeatsInv, Fresh
  <1>4. c # Nobody /\ \A i \in 1 .. n : connections[i] # c
    BY <1>2, ClientsAssumption DEF ListInv, Known
  <1> SUFFICES ASSUME ~undefined' PROVE (OpenAreListed /\ Passed)'
      BY <1>3 DEF OpenAreListed, Passed
  <1>5. \A u \in Threads : walk[u].at = 0 /\ ~walk[u].invalid
    <2>1. walk["io"].at = 0 /\ ~walk["io"].invalid
      BY <1>2, Threaded, ListElements DEF ListInv, Passed, Walking
    <2> QED BY <1>2, <2>1, Alone, Threaded
  <1>6. \A i \in 1 .. n : connections[i] # Nobody
    BY <1>5 DEF ListInv, OpenAreListed
  <1>7. \A u \in Threads : walk'[u].at \in {0, 1} /\ ~walk'[u].invalid
    <2>1. CASE TableIsFull(playersCount + 1)
      BY <1>5, <2>1 DEF Accept
    <2>2. CASE ~TableIsFull(playersCount + 1)
      <3>1. BeginWalk("io", Nobody)
        BY <2>2 DEF Accept
      <3>2. /\ walk'["io"].at = 1 /\ walk'["io"].invalid = FALSE
            /\ \A u \in Threads \ {"io"} : walk'[u] = walk[u]
        BY <3>1, BeginEffect, Threaded DEF ListInv
      <3> QED BY <1>5, <3>2, Threaded
    <2> QED BY <2>1, <2>2
  <1> HIDE DEF n
  <1>8. OpenAreListed'
    <2>1. \A d \in open' : \E i \in 1 .. n + 1 : connections'[i] = d
      BY <1>1, <1>2 DEF ListInv, OpenAreListed, n
    <2>2. \A i, j \in 1 .. n + 1 : connections'[i] = connections'[j] => i = j
      BY <1>1, <1>4, <1>6 DEF ListInv, OpenAreListed, n
    <2>3. \A i \in 1 .. n + 1 : connections'[i] # Nobody
      BY <1>1, <1>4, <1>6
    <2> QED BY <1>1, <2>1, <2>2, <2>3 DEF OpenAreListed
  <1>9. Passed'
    BY <1>1, <1>7 DEF Passed
  <1> QED BY <1>8, <1>9

LEMMA ListIsSent ==
  ASSUME ListInv, ~undefined, NEW t \in Threads, Visit(t), Element(t) \in open
  PROVE  (Known /\ OpenAreListed /\ Passed)'
  <1>1. /\ walk' \in [Threads -> WalkType]
        /\ walk'[t].at = walk[t].at + 1 /\ walk'[t].ignore = walk[t].ignore
        /\ walk'[t].invalid = walk[t].invalid
        /\ walk[t].reached \subseteq walk'[t].reached
        /\ Element(t) = walk[t].ignore \/ Element(t) \in walk'[t].reached
        /\ \A u \in Threads \ {t} : walk'[u] = walk[u]
        /\ UNCHANGED <<connections, undefined>>
    BY SendEffect DEF ListInv, SeatsInv, Types
  <1>2. /\ walk[t].at \in 1 .. Len(connections)
        /\ UNCHANGED <<open, backlog, client>>
    BY DEF Visit, clientVars
  <1>3. Known'
    BY <1>1, <1>2 DEF ListInv, Known
  <1>4. OpenAreListed'
    BY <1>1, <1>2 DEF ListInv, OpenAreListed
  <1>5. Passed'
    <2> SUFFICES ASSUME NEW u \in Threads
                 PROVE  (/\ walk[u].at <= Len(connections) + 1
                         /\ walk[u].at = 0 => ~walk[u].invalid
                         /\ \A i \in 1 .. Len(connections) :
                              i < walk[u].at /\ connections[i] \in open =>
                                connections[i] = walk[u].ignore
                                  \/ connections[i] \in walk[u].reached)'
        BY DEF Passed
    <2>1. CASE u # t
      BY <1>1, <1>2, <2>1 DEF ListInv, Passed
    <2>2. CASE u = t
      <3>1. ASSUME NEW i \in 1 .. Len(connections), i < walk[t].at + 1, connections[i] \in open
            PROVE  connections[i] = walk[t].ignore \/ connections[i] \in walk'[t].reached
        <4>1. CASE i < walk[t].at
          BY <1>1, <3>1, <4>1 DEF ListInv, Passed
        <4>2. CASE i = walk[t].at
          BY <1>1, <4>2 DEF Element
        <4> QED BY <1>2, <3>1, <4>1, <4>2
      <3> QED BY <1>1, <1>2, <2>2, <3>1
    <2> QED BY <2>1, <2>2
  <1> QED BY <1>3, <1>4, <1>5

LEMMA ListIsReset ==
  ASSUME ListInv, ~undefined, NEW t \in Threads, Visit(t), Element(t) \notin open
  PROVE  (Known /\ OpenAreListed /\ Passed)'
  <1> DEFINE n == Len(connections)
             k == walk[t].at
  <1>1. /\ walk' \in [Threads -> WalkType]
        /\ walk'[t].at = k + 1 /\ walk'[t].ignore = walk[t].ignore
        /\ walk'[t].invalid = TRUE /\ walk'[t].reached = walk[t].reached
        /\ \A u \in Threads \ {t} : walk'[u] = walk[u]
        /\ connections' = [connections EXCEPT ![k] = Nobody]
        /\ undefined' = (\E u \in Threads \ {t} : Walking(u))
    BY ResetEffect DEF ListInv
  <1>2. k \in 1 .. n /\ UNCHANGED <<open, backlog, client>> /\ n \in Nat
    BY ListElements DEF Visit, clientVars, ListInv
  <1>3. /\ Len(connections') = n /\ connections'[k] = Nobody
        /\ \A i \in 1 .. n : i # k => connections'[i] = connections[i]
    BY <1>1, <1>2, ExceptSeq DEF ListInv, ListTypes
  <1>4. connections[k] \notin open
    BY DEF Element
  <1> HIDE DEF n, k
  <1>5. Known'
    <2> SUFFICES ASSUME NEW i \in 1 .. n, connections'[i] # Nobody
                 PROVE  connections'[i] \notin backlog /\ client[connections'[i]] # "away"
        BY <1>2, <1>3 DEF Known
    <2> QED BY <1>3 DEF ListInv, Known, n
  <1> SUFFICES ASSUME ~undefined' PROVE (OpenAreListed /\ Passed)'
      BY <1>5 DEF OpenAreListed, Passed
  <1>6. \A u \in Threads \ {t} : walk[u].at = 0 /\ ~walk[u].invalid
    <2>1. Modifies(t)
      BY <1>1, Zenon DEF Modifies
    <2> QED BY <2>1, Alone
  <1>7. OpenAreListed'
    <2>1. \A c \in open : \E i \in 1 .. n : connections'[i] = c
      <3> SUFFICES ASSUME NEW c \in open PROVE \E i \in 1 .. n : connections'[i] = c
          OBVIOUS
      <3>1. PICK i \in 1 .. n : connections[i] = c
        BY DEF ListInv, OpenAreListed, n
      <3> QED BY <1>3, <1>4, <3>1
    <2>2. \A i, j \in 1 .. n : connections'[i] = connections'[j] /\ connections'[i] # Nobody
                                  => i = j
      BY <1>3 DEF ListInv, OpenAreListed, n
    <2> QED BY <1>1, <1>2, <1>3, <2>1, <2>2 DEF OpenAreListed
  <1>8. Passed'
    <2>1. \A u \in Threads \ {t} : walk'[u].at = 0 /\ ~walk'[u].invalid
      BY <1>1, <1>6
    <2>2. ASSUME NEW i \in 1 .. n, i < k + 1, connections'[i] \in open
          PROVE  connections'[i] = walk[t].ignore \/ connections'[i] \in walk[t].reached
      <3>1. i # k
        <4>1. Nobody \notin open
          BY ClientsAssumption DEF ListInv, SeatsInv, Types
        <4> QED BY <1>3, <2>2, <4>1
      <3>2. i < k /\ connections'[i] = connections[i]
        BY <1>2, <1>3, <2>2, <3>1
      <3> QED BY <2>2, <3>2 DEF ListInv, Passed, n, k
    <2>3. walk'[t].at <= Len(connections') + 1 /\ walk'[t].at # 0
      BY <1>1, <1>2, <1>3
    <2>4. \A i \in 1 .. Len(connections') : i < walk'[t].at /\ connections'[i] \in open' =>
             connections'[i] = walk'[t].ignore \/ connections'[i] \in walk'[t].reached
      BY <1>1, <1>2, <1>3, <2>2
    <2>5. Len(connections') \in Nat
      BY <1>2, <1>3
    <2> QED BY <2>1, <2>3, <2>4, <2>5 DEF Passed
  <1> QED BY <1>7, <1>8

LEMMA ListIsPruned ==
  ASSUME ListInv, ~undefined, NEW t \in Threads, EndWalk(t)
  PROVE  (Known /\ OpenAreListed /\ Passed)'
  <1>1. /\ walk' \in [Threads -> WalkType]
        /\ walk'[t].at = 0 /\ walk'[t].invalid = FALSE
        /\ \A u \in Threads \ {t} : walk'[u] = walk[u]
    BY EndEffect DEF ListInv
  <1>2. UNCHANGED <<open, backlog, client>>
    BY DEF EndWalk, clientVars
  <1>3. CASE ~walk[t].invalid
    <2>1. UNCHANGED <<connections, undefined>>
      BY <1>3 DEF EndWalk
    <2>2. Known'
      BY <1>2, <2>1 DEF ListInv, Known
    <2>3. OpenAreListed'
      BY <1>1, <1>2, <1>3, <2>1 DEF ListInv, OpenAreListed
    <2>4. Passed'
      BY <1>1, <1>2, <2>1, ListElements DEF ListInv, Passed
    <2> QED BY <2>2, <2>3, <2>4
  <1>4. CASE walk[t].invalid
    <2>1. connections' = Pruned /\ Modifies(t)
      BY <1>4 DEF EndWalk
    <2>2. /\ connections' \in Seq(Clients)
          /\ \A j \in 1 .. Len(connections') :
                \E i \in 1 .. Len(connections) : connections[i] = connections'[j]
          /\ \A i \in 1 .. Len(connections) : connections[i] # Nobody =>
                \E j \in 1 .. Len(connections') : connections'[j] = connections[i]
          /\ ListedOnce => \A i, j \in 1 .. Len(connections') :
                connections'[i] = connections'[j] => i = j
      BY <2>1, Pruning DEF ListInv, ListTypes
    <2>3. ListedOnce
      BY DEF ListedOnce, ListInv, OpenAreListed
    <2>4. /\ \A j \in 1 .. Len(connections') : connections'[j] \in Clients
          /\ Len(connections') \in Nat
      BY <2>2, ElementOfSeq, LenProperties
    <2>5. Nobody \notin Clients /\ open \subseteq Clients
      BY ClientsAssumption DEF ListInv, SeatsInv, Types
    <2>6. Known'
      BY <1>2, <2>2 DEF ListInv, Known
    <2> SUFFICES ASSUME ~undefined' PROVE (OpenAreListed /\ Passed)'
        BY <2>6 DEF OpenAreListed, Passed
    <2>7. OpenAreListed'
      <3>1. \A c \in open' : \E j \in 1 .. Len(connections') : connections'[j] = c
        <4> SUFFICES ASSUME NEW c \in open
                     PROVE  \E j \in 1 .. Len(connections') : connections'[j] = c
            BY <1>2
        <4>1. PICK i \in 1 .. Len(connections) : connections[i] = c
          BY DEF ListInv, OpenAreListed
        <4> QED BY <2>2, <2>5, <4>1
      <3> QED BY <2>2, <2>3, <2>4, <2>5, <3>1 DEF OpenAreListed
    <2>8. \A u \in Threads : walk'[u].at = 0 /\ ~walk'[u].invalid
      BY <1>1, <2>1, Alone
    <2>9. Passed'
      BY <2>4, <2>8 DEF Passed
    <2> QED BY <2>7, <2>9
  <1> QED BY <1>3, <1>4

LEMMA FlagsStep ==
  ASSUME ListInv, [Next]_vars
  PROVE  accepting' \in BOOLEAN /\ undefined' \in BOOLEAN
  <1>a. accepting \in BOOLEAN /\ undefined \in BOOLEAN
    BY DEF ListInv, ListTypes
  <1>1. ASSUME NEW c \in Clients,
               Connect(c) \/ Leave(c) \/ Key(c) \/ NoticeLeave(c) \/ Handle(c)
        PROVE  accepting' \in BOOLEAN /\ undefined' \in BOOLEAN
    BY <1>a, <1>1, Zenon DEF Connect, Leave, Key, NoticeLeave, Handle
  <1>2. ASSUME NEW c \in Clients, Accept(c)
        PROVE  accepting' \in BOOLEAN /\ undefined' \in BOOLEAN
    BY <1>2, Zenon DEF Accept, Modifies
  <1>3. CASE AcceptFails
    BY <1>a, <1>3, Zenon DEF AcceptFails, Rearmed
  <1>4. ASSUME NEW t \in Threads, Visit(t)
        PROVE  accepting' \in BOOLEAN /\ undefined' \in BOOLEAN
    BY <1>a, <1>4, Zenon DEF Visit, ResetElement, Modifies
  <1>5. ASSUME NEW t \in Threads, EndWalk(t)
        PROVE  accepting' \in BOOLEAN /\ undefined' \in BOOLEAN
    BY <1>a, <1>5, Zenon DEF EndWalk, AfterWalk, Modifies
  <1>6. ASSUME Announce \/ (\E i \in 1 .. Seats : AskPlayer(i)) \/ Resume \/ UNCHANGED vars
        PROVE  accepting' \in BOOLEAN /\ undefined' \in BOOLEAN
    BY <1>a, <1>6, Zenon DEF Announce, AskPlayer, Resume, vars
  <1> QED BY <1>1, <1>2, <1>3, <1>4, <1>5, <1>6, Steps

LEMMA ListTypesStep ==
  ASSUME ListInv, [Next]_vars
  PROVE  ListTypes'
  <1> DEFINE Typed == connections \in Seq(Clients \cup {Nobody})
                      /\ walk \in [Threads -> WalkType]
  <1>a. Typed /\ open \subseteq Clients /\ inbox \subseteq Clients
    BY DEF ListInv, ListTypes, SeatsInv, Types
  <1>1. ASSUME UNCHANGED <<connections, walk>> PROVE Typed'
    BY <1>a, <1>1
  <1>2. ASSUME NEW c \in Clients, Connect(c) \/ Leave(c) \/ Key(c) \/ NoticeLeave(c)
        PROVE  Typed'
    BY <1>1, <1>2 DEF Connect, Leave, Key, NoticeLeave
  <1>3. ASSUME NEW c \in Clients, Accept(c) PROVE Typed'
    <2>1. connections' \in Seq(Clients \cup {Nobody})
      BY <1>a, <1>3, AppendProperties DEF Accept
    <2>2. walk' \in [Threads -> WalkType]
      <3>1. CASE TableIsFull(playersCount + 1)
        BY <1>a, <1>3, <3>1 DEF Accept
      <3>2. CASE ~TableIsFull(playersCount + 1)
        <4>1. BeginWalk("io", Nobody)
          BY <1>3, <3>2 DEF Accept
        <4> QED BY <4>1, BeginEffect, Threaded DEF ListInv
      <3> QED BY <3>1, <3>2
    <2> QED BY <2>1, <2>2
  <1>4. ASSUME NEW c \in Clients, Handle(c) PROVE Typed'
    <2>1. BeginWalk("main", c) /\ connections' = connections
      BY <1>4 DEF Handle
    <2>2. walk' \in [Threads -> WalkType]
      BY <2>1, BeginEffect, Threaded DEF ListInv
    <2> QED BY <1>a, <2>1, <2>2
  <1>5. ASSUME Announce PROVE Typed'
    <2>1. BeginWalk("game", Nobody) /\ connections' = connections
      BY <1>5 DEF Announce
    <2>2. walk' \in [Threads -> WalkType]
      BY <2>1, BeginEffect, Threaded DEF ListInv
    <2> QED BY <1>a, <2>1, <2>2
  <1>6. ASSUME NEW t \in Threads, Visit(t) PROVE Typed'
    <2>1. CASE Element(t) \in open
      <3>1. walk' \in [Threads -> WalkType] /\ connections' = connections
        BY <1>a, <1>6, <2>1, SendEffect DEF ListInv
      <3> QED BY <1>a, <3>1
    <2>2. CASE Element(t) \notin open
      <3>1. /\ walk' \in [Threads -> WalkType]
            /\ connections' = [connections EXCEPT ![walk[t].at] = Nobody]
        BY <1>6, <2>2, ResetEffect DEF ListInv
      <3>2. walk[t].at \in 1 .. Len(connections)
        BY <1>6 DEF Visit
      <3> QED BY <1>a, <3>1, <3>2, ExceptSeq
    <2> QED BY <2>1, <2>2
  <1>7. ASSUME NEW t \in Threads, EndWalk(t) PROVE Typed'
    <2>1. walk' \in [Threads -> WalkType]
      BY <1>7, EndEffect DEF ListInv
    <2>2. connections' \in Seq(Clients \cup {Nobody})
      <3>1. connections' = connections \/ connections' = Pruned
        BY <1>7 DEF EndWalk
      <3>2. Pruned \in Seq(Clients)
        BY <1>a, Pruning
      <3>3. Seq(Clients) \subseteq Seq(Clients \cup {Nobody})
        BY SeqMonotonic
      <3> QED BY <1>a, <3>1, <3>2, <3>3
    <2> QED BY <2>1, <2>2
  <1>8. ASSUME AcceptFails \/ (\E i \in 1 .. Seats : AskPlayer(i)) \/ Resume \/ UNCHANGED vars
        PROVE  Typed'
    <2>1. UNCHANGED <<connections, walk>>
      BY <1>8 DEF AcceptFails, AskPlayer, Resume, vars
    <2> QED BY <1>1, <2>1
  <1>9. Typed'
    BY <1>2, <1>3, <1>4, <1>5, <1>6, <1>7, <1>8, Steps
  <1> QED BY <1>9, FlagsStep DEF ListTypes

LEMMA ListStep ==
  ASSUME ListInv, [Next]_vars
  PROVE  ListInv'
  <1> DEFINE Goal == Known /\ OpenAreListed /\ Passed
  <1>1. ASSUME NEW c \in Clients, Connect(c) \/ Leave(c) PROVE Goal'
    <2>1. \A d \in Clients : d \notin backlog /\ client[d] # "away" =>
             d \notin backlog' /\ client'[d] # "away"
      BY <1>1 DEF Connect, Leave, ListInv, SeatsInv, Types
    <2>2. UNCHANGED <<connections, walk, undefined>> /\ open' \subseteq open
      BY <1>1 DEF Connect, Leave
    <2> QED BY <2>1, <2>2, ListStands
  <1>2. ASSUME UNCHANGED <<connections, walk, undefined, backlog, client>>, open' \subseteq open
        PROVE  Goal'
    BY <1>2, ListStands
  <1>3. ASSUME NEW c \in Clients, Key(c) \/ NoticeLeave(c) PROVE Goal'
    BY <1>2, <1>3 DEF Key, NoticeLeave, clientVars
  <1>4. ASSUME AcceptFails \/ (\E i \in 1 .. Seats : AskPlayer(i)) \/ Resume \/ UNCHANGED vars
        PROVE  Goal'
    <2>1. UNCHANGED <<connections, walk, undefined, backlog, client, open>>
      BY <1>4, Zenon DEF AcceptFails, AskPlayer, Resume, clientVars, vars
    <2> QED BY <1>2, <2>1
  <1>5. ASSUME NEW c \in Clients, Handle(c) PROVE Goal'
    <2>1. BeginWalk("main", c) /\ ~Walking("main")
          /\ UNCHANGED <<connections, undefined, open, backlog, client>>
      BY <1>5 DEF Handle
    <2> QED BY <2>1, ListIsWalked, Threaded
  <1>6. ASSUME Announce PROVE Goal'
    <2>1. BeginWalk("game", Nobody) /\ ~Walking("game")
          /\ UNCHANGED <<connections, undefined, open, backlog, client>>
      BY <1>6 DEF Announce, clientVars
    <2> QED BY <2>1, ListIsWalked, Threaded
  <1>7. ASSUME undefined PROVE Goal'
    <2>1. UNCHANGED vars
      BY <1>7 DEF Next
    <2> QED BY <1>4, <2>1
  <1>8. ASSUME ~undefined, NEW c \in Clients, Accept(c) PROVE Goal'
    BY <1>8, ListGrows
  <1>9. ASSUME ~undefined, NEW t \in Threads, Visit(t) PROVE Goal'
    BY <1>9, ListIsSent, ListIsReset
  <1>10. ASSUME ~undefined, NEW t \in Threads, EndWalk(t) PROVE Goal'
    BY <1>10, ListIsPruned
  <1>11. Goal'
    BY <1>1, <1>3, <1>4, <1>5, <1>6, <1>7, <1>8, <1>9, <1>10, Steps
  <1>12. SeatsInv'
    BY SeatsStep DEF ListInv
  <1> QED BY <1>11, <1>12, ListTypesStep DEF ListInv

LEMMA ListInit == Init => ListInv
  <1> SUFFICES ASSUME Init PROVE ListInv
      OBVIOUS
  <1>1. walk = [t \in Threads |-> NoWalk] /\ connections = <<>> /\ open = {}
    BY DEF Init
  <1>2. ListTypes
    <2>1. accepting \in BOOLEAN /\ undefined \in BOOLEAN
      BY Zenon DEF Init
    <2> QED BY <1>1, <2>1, EmptyWalk, EmptySeq DEF ListTypes
  <1>3. Known /\ OpenAreListed
    BY <1>1 DEF Known, OpenAreListed
  <1>4. Passed
    <2>1. \A t \in Threads : walk[t].at = 0 /\ ~walk[t].invalid
      BY <1>1, EmptyWalk
    <2>2. Len(connections) = 0
      BY <1>1
    <2> QED BY <2>1, <2>2 DEF Passed
  <1> QED BY <1>2, <1>3, <1>4, SeatsInit DEF ListInv

LEMMA ListInvariant == Spec => []ListInv
  BY ListInit, ListStep, PTL DEF Spec

(***************************************************************************)
(* Every variable of the lobby keeps its type, for any number of clients   *)
(* and of seats, and no walk runs past the end of m_connections.           *)
(***************************************************************************)
THEOREM LobbyIsTyped == Spec => []TypeOK
  <1>1. ListInv /\ LobbyInv => TypeOK
    <2> SUFFICES ASSUME ListInv, LobbyInv PROVE TypeOK
        OBVIOUS
    <2>1. idCounter \in Nat /\ activePlayersId \in Seq(Nat)
      BY DEF ListInv, SeatsInv, SeatsAgree, Types
    <2>2. \A t \in Threads : ~undefined => walk[t].at <= Len(connections) + 1
      BY DEF ListInv, Passed
    <2> QED BY <2>1, <2>2
           DEF ListInv, SeatsInv, Types, ListTypes, WalkType, LobbyInv, Booleans, TypeOK
  <1> QED BY <1>1, ListInvariant, LobbyInvariant, PTL

(***************************************************************************)
(* A client whose socket is open is on m_connections, once, and no null    *)
(* pointer outlives the message_all that put it there, however many join   *)
(* and leave.                                                              *)
(***************************************************************************)
THEOREM OpenStayListed == Spec => []OpenAreListed
  <1>1. ListInv => OpenAreListed
    BY DEF ListInv
  <1> QED BY <1>1, ListInvariant, PTL

(***************************************************************************)
(* A message_all that has come to the end of the list has been sent to     *)
(* everyone whose socket is open, except the one to be ignored, however    *)
(* many left, and were reset, under way.                                   *)
(***************************************************************************)
THEOREM BroadcastsReach == Spec => []BroadcastReaches
  <1>1. ASSUME ListInv, NEW t \in Threads, ~undefined, walk[t].at > Len(connections),
               walk[t].at # 0, NEW c \in open \ {walk[t].ignore}
        PROVE  c \in walk[t].reached
    <2>1. PICK i \in 1 .. Len(connections) : connections[i] = c
      BY <1>1 DEF ListInv, OpenAreListed
    <2>2. i < walk[t].at
      BY <1>1, ListElements DEF ListInv
    <2> QED BY <1>1, <2>1, <2>2 DEF ListInv, Passed
  <1>2. ListInv => BroadcastReaches
    BY <1>1 DEF BroadcastReaches
  <1> QED BY <1>2, ListInvariant, PTL
=============================================================================
