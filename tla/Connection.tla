------------------------------ MODULE Connection ------------------------------
(***************************************************************************)
(* One TCP connection and the two objects of class net::tcp::connection    *)
(* at its ends: from the client's connect() to either end closing.  Each   *)
(* end has an io_context run by one thread, so its completion handlers are *)
(* atomic; the kernel, the network and the other end run in between.       *)
(*                                                                         *)
(* A message is known by its number, the n-th that its end sends, and by   *)
(* whether it has a body.                                                  *)
(***************************************************************************)
EXTENDS Integers, Sequences

CONSTANT MaxSends       \* bound: messages each end sends

Ends == {"server", "client"}

Other(e) == IF e = "server" THEN "client" ELSE "server"

ASSUME MaxSendsAssumption == MaxSends \in [Ends -> Nat]

VARIABLES
    link,       \* the TCP handshake: "pending", "up" or "refused"
    cut,        \* the network has failed
    running,    \* the client's io_context has not been stopped
    sock,       \* m_socket of each end: "none" (no object yet), "open", "closed"
    sent,       \* number of calls of send()
    posted,     \* the lambdas send() posted, in order
    messagesOut,\* m_messagesOut
    writes,     \* the outstanding async_writes, each by what it writes
    wire,       \* what was written and not yet read by the other end
    reader,     \* the read chain: "idle", "header", "body" or "stopped"
    temp,       \* m_tempMessage: the header, and whose body it holds
    received    \* the messages add_to_incoming_msg has pushed

vars == <<link, cut, running, sock, sent, posted, messagesOut, writes, wire,
          reader, temp, received>>
netVars  == <<link, cut, running>>
outVars  == <<sent, posted, messagesOut, writes>>
readVars == <<reader, temp, received>>

Msgs  == [n : Nat, full : BOOLEAN]
Units == [part : {"header", "body"}, n : Nat, full : BOOLEAN]
Temps == [n : Nat, full : BOOLEAN, text : Nat]

NoTemp == [n |-> 0, full |-> FALSE, text |-> 0]

Unit(part, m) == [part |-> part, n |-> m.n, full |-> m.full]

TypeOK ==
    /\ link \in {"pending", "up", "refused"}
    /\ cut \in BOOLEAN
    /\ running \in BOOLEAN
    /\ sock \in [Ends -> {"none", "open", "closed"}]
    /\ sent \in [Ends -> Nat]
    /\ posted \in [Ends -> Seq(Msgs)]
    /\ messagesOut \in [Ends -> Seq(Msgs)]
    /\ writes \in [Ends -> Seq(Units)]
    /\ wire \in [Ends -> Seq(Units)]
    /\ reader \in [Ends -> {"idle", "header", "body", "stopped"}]
    /\ temp \in [Ends -> Temps]
    /\ received \in [Ends -> Seq(Temps)]

\* The client's socket is open as soon as async_connect has been called.
Init ==
    /\ link = "pending"
    /\ cut = FALSE
    /\ running = TRUE
    /\ sock = [server |-> "none", client |-> "open"]
    /\ sent = [e \in Ends |-> 0]
    /\ posted = [e \in Ends |-> <<>>]
    /\ messagesOut = [e \in Ends |-> <<>>]
    /\ writes = [e \in Ends |-> <<>>]
    /\ wire = [e \in Ends |-> <<>>]
    /\ reader = [e \in Ends |-> "idle"]
    /\ temp = [e \in Ends |-> NoTemp]
    /\ received = [e \in Ends |-> <<>>]

(***************************************************************************)
(* The kernel and the network.                                             *)
(***************************************************************************)
Handshake ==
    /\ link = "pending"
    /\ sock["client"] = "open"
    /\ link' \in {"up", "refused"}
    /\ UNCHANGED <<cut, running, sock, outVars, wire, readVars>>

Cut ==
    /\ ~cut
    /\ cut' = TRUE
    /\ UNCHANGED <<link, running, sock, outVars, wire, readVars>>

\* What e gives the kernel or waits for may fail.
Broken(e) == \/ sock[e] = "closed" \/ sock[Other(e)] = "closed"
             \/ link # "up"        \/ cut

HandlersRun(e) == e = "client" => running

(***************************************************************************)
(* Connecting.  The server's accept handler makes the connection object    *)
(* and starts the read chain; the client's connect handler starts it too,  *)
(* unless the socket was closed in the meantime.                           *)
(***************************************************************************)
ConnectToClient ==
    /\ link = "up"
    /\ sock["server"] = "none"
    /\ sock' = [sock EXCEPT !["server"] = "open"]
    /\ reader' = [reader EXCEPT !["server"] = "header"]
    /\ UNCHANGED <<netVars, outVars, wire, temp, received>>

ConnectToServer ==
    /\ running
    /\ reader["client"] = "idle"
    /\ \/ /\ link = "up" /\ sock["client"] = "open"
          /\ reader' = [reader EXCEPT !["client"] = "header"]
       \/ /\ link = "refused" \/ sock["client"] = "closed"
          /\ reader' = [reader EXCEPT !["client"] = "stopped"]
    /\ UNCHANGED <<netVars, sock, outVars, wire, temp, received>>

\* Client::end and the destructor: the context is stopped, its thread joined,
\* the socket closed.
Disconnect ==
    /\ running
    /\ running' = FALSE
    /\ sock' = [sock EXCEPT !["client"] = "closed"]
    /\ UNCHANGED <<link, cut, outVars, wire, readVars>>

(***************************************************************************)
(* Sending.  The client checks is_connected; Player::message does not.     *)
(***************************************************************************)
Send(e) ==
    /\ sent[e] < MaxSends[e]
    /\ IF e = "client" THEN sock[e] = "open" ELSE sock[e] # "none"
    /\ sent' = [sent EXCEPT ![e] = @ + 1]
    /\ \E full \in BOOLEAN :
          posted' = [posted EXCEPT ![e] =
                        Append(@, [n |-> sent[e] + 1, full |-> full])]
    /\ UNCHANGED <<netVars, sock, messagesOut, writes, wire, readVars>>

\* Fault: the lambda starts a write whatever is under way.
AlwaysStart(e) == TRUE
StartsWrite(e) == messagesOut[e] = <<>>

RunSend(e) ==
    /\ HandlersRun(e)
    /\ posted[e] # <<>>
    /\ posted' = [posted EXCEPT ![e] = Tail(@)]
    /\ messagesOut' = [messagesOut EXCEPT ![e] = Append(@, Head(posted[e]))]
    /\ writes' = IF StartsWrite(e)
                   THEN [writes EXCEPT ![e] =
                            Append(@, Unit("header", messagesOut'[e][1]))]
                   ELSE writes
    /\ UNCHANGED <<netVars, sock, sent, wire, readVars>>

\* The message at the front has been written: the chain goes on with the next.
\* Fault: it does not go on.
StopsAfterOne(e) ==
    /\ messagesOut' = [messagesOut EXCEPT ![e] = Tail(@)]
    /\ writes' = [writes EXCEPT ![e] = Tail(@)]
PopAndContinue(e) ==
    /\ messagesOut' = [messagesOut EXCEPT ![e] = Tail(@)]
    /\ writes' = [writes EXCEPT ![e] =
                     IF Len(messagesOut[e]) = 1 THEN Tail(@)
                     ELSE Append(Tail(@), Unit("header", messagesOut[e][2]))]

Written(e, part) ==
    /\ HandlersRun(e)
    /\ writes[e] # <<>>
    /\ Head(writes[e]).part = part
    /\ sock[e] = "open" /\ link = "up"
    /\ wire' = [wire EXCEPT ![e] = Append(@, Head(writes[e]))]
    /\ UNCHANGED <<netVars, sock, sent, posted, readVars>>

WriteHeader(e) ==
    /\ Written(e, "header")
    /\ IF Head(messagesOut[e]).full
         THEN /\ writes' = [writes EXCEPT ![e] =
                               Append(Tail(@), Unit("body", Head(messagesOut[e])))]
              /\ UNCHANGED messagesOut
         ELSE PopAndContinue(e)

WriteBody(e) ==
    /\ Written(e, "body")
    /\ PopAndContinue(e)

\* Fault: the failed message is dropped and the chain goes on.
SkipFailed(e) ==
    /\ HandlersRun(e)
    /\ writes[e] # <<>>
    /\ Broken(e)
    /\ PopAndContinue(e)
    /\ UNCHANGED <<netVars, sock, sent, posted, wire, readVars>>

\* The socket is closed; the message stays at the front of the queue, so no
\* later send() starts a write.  What failed here may have got through.
WriteFailed(e) ==
    /\ HandlersRun(e)
    /\ writes[e] # <<>>
    /\ Broken(e)
    /\ writes' = [writes EXCEPT ![e] = Tail(@)]
    /\ sock' = [sock EXCEPT ![e] = "closed"]
    /\ \/ UNCHANGED wire
       \/ link = "up" /\ wire' = [wire EXCEPT ![e] = Append(@, Head(writes[e]))]
    /\ UNCHANGED <<netVars, sent, posted, messagesOut, readVars>>

(***************************************************************************)
(* Receiving.                                                              *)
(***************************************************************************)
Readable(e, part) ==
    /\ HandlersRun(e)
    /\ reader[e] = part
    /\ sock[e] = "open"
    /\ wire[Other(e)] # <<>>
    /\ Head(wire[Other(e)]).part = part
    /\ wire' = [wire EXCEPT ![Other(e)] = Tail(@)]

\* The header is read into m_tempMessage, whose body is resized only if one is
\* announced; a message without a body keeps what the last one left.
ReadHeader(e) ==
    /\ Readable(e, "header")
    /\ LET u == Head(wire[Other(e)])
           t == [n |-> u.n, full |-> u.full, text |-> temp[e].text]
       IN  /\ temp' = [temp EXCEPT ![e] = t]
           /\ IF u.full
                THEN reader' = [reader EXCEPT ![e] = "body"] /\ UNCHANGED received
                ELSE received' = [received EXCEPT ![e] = Append(@, t)]
                     /\ UNCHANGED reader
    /\ UNCHANGED <<netVars, sock, outVars>>

\* Fault: the body read is that of the previous message.
StaleText(e, u) == [temp[e] EXCEPT !.text = @]
FreshText(e, u) == [temp[e] EXCEPT !.text = u.n]

ReadBody(e) ==
    /\ Readable(e, "body")
    /\ LET t == FreshText(e, Head(wire[Other(e)]))
       IN  /\ temp' = [temp EXCEPT ![e] = t]
           /\ received' = [received EXCEPT ![e] = Append(@, t)]
           /\ reader' = [reader EXCEPT ![e] = "header"]
    /\ UNCHANGED <<netVars, sock, outVars>>

\* Fault: the socket stays open.
LeavesOpen(e) ==
    /\ HandlersRun(e)
    /\ reader[e] \in {"header", "body"}
    /\ Broken(e)
    /\ reader' = [reader EXCEPT ![e] = "stopped"]
    /\ UNCHANGED <<netVars, sock, outVars, wire, temp, received>>

ReadFailed(e) ==
    /\ HandlersRun(e)
    /\ reader[e] \in {"header", "body"}
    /\ Broken(e)
    /\ reader' = [reader EXCEPT ![e] = "stopped"]
    /\ sock' = [sock EXCEPT ![e] = "closed"]
    /\ UNCHANGED <<netVars, outVars, wire, temp, received>>

Handler(e) ==
    \/ RunSend(e)    \/ WriteHeader(e) \/ WriteBody(e) \/ WriteFailed(e)
    \/ ReadHeader(e) \/ ReadBody(e)    \/ ReadFailed(e)

Next ==
    \/ Handshake \/ Cut \/ ConnectToClient \/ ConnectToServer \/ Disconnect
    \/ \E e \in Ends : Send(e) \/ Handler(e)

Spec == Init /\ [][Next]_vars

(***************************************************************************)
(* Every handler that is due runs; a handshake ends one way or the other.  *)
(***************************************************************************)
Fairness ==
    /\ WF_vars(Handshake) /\ WF_vars(ConnectToClient) /\ WF_vars(ConnectToServer)
    /\ \A e \in Ends :
          /\ WF_vars(RunSend(e))
          /\ WF_vars(WriteHeader(e) \/ WriteBody(e) \/ WriteFailed(e))
          /\ WF_vars(ReadHeader(e) \/ ReadBody(e) \/ ReadFailed(e))

FairSpec == Spec /\ Fairness

-----------------------------------------------------------------------------
(***************************************************************************)
(* At most one async_write is outstanding on a socket, so the bytes of two *)
(* messages never mix, and while it is outstanding its message is at the   *)
(* front of m_messagesOut: front() and pop_front(), which block when the   *)
(* queue is empty, never block the io thread.                              *)
(***************************************************************************)
OneWriteInFlight ==
    \A e \in Ends :
        /\ Len(writes[e]) <= 1
        /\ writes[e] # <<>> =>
              /\ messagesOut[e] # <<>>
              /\ Head(writes[e]).n = Head(messagesOut[e]).n

(***************************************************************************)
(* Messages arrive in the order they were sent and none is missing or      *)
(* doubled, whatever fails on the way: the i-th received is the i-th sent. *)
(***************************************************************************)
InOrder ==
    \A e \in Ends : \A i \in 1 .. Len(received[e]) : received[e][i].n = i

(***************************************************************************)
(* A message that announces a body is delivered with its own body.         *)
(***************************************************************************)
TextArrives ==
    \A e \in Ends : \A i \in 1 .. Len(received[e]) :
        received[e][i].full => received[e][i].text = received[e][i].n

(***************************************************************************)
(* The stream from e to the other end, which InOrder and TextArrives rest  *)
(* on.  Every message of it is in one place: posted, in the queue, on the  *)
(* wire or received.  Pending is what the other end will read: the wire    *)
(* and the unit being written.                                             *)
(***************************************************************************)
Pending(e) == wire[e] \o writes[e]

\* Messages e has taken off its queue.
Done(e) == sent[e] - Len(posted[e]) - Len(messagesOut[e])

Numbered(e) ==
    /\ \A i \in 1 .. Len(posted[e]) :
          posted[e][i].n = sent[e] - Len(posted[e]) + i
    /\ \A i \in 1 .. Len(messagesOut[e]) : messagesOut[e][i].n = Done(e) + i

\* The write under way is of the front message.  Without one the queue is
\* empty, or was abandoned when the socket failed.
Writing(e) ==
    IF writes[e] = <<>>
      THEN messagesOut[e] # <<>> => sock[e] = "closed"
      ELSE /\ Len(writes[e]) = 1
           /\ messagesOut[e] # <<>>
           /\ writes[e][1] = Unit(writes[e][1].part, messagesOut[e][1])
           /\ writes[e][1].part = "body" => writes[e][1].full

Follows(u, v) ==
    IF u.part = "header" /\ u.full THEN v.part = "body" /\ v.n = u.n
                                   ELSE v.part = "header" /\ v.n = u.n + 1

Chained(e) ==
    \A i \in 1 .. Len(Pending(e)) - 1 : Follows(Pending(e)[i], Pending(e)[i + 1])

\* Where the reader of the other end is: the next unit is the one it reads for.
Reading(e) ==
    LET o == Other(e)
    IN  /\ reader[o] = "body" => temp[o].n = Len(received[o]) + 1 /\ temp[o].full
        /\ (reader[o] # "stopped" /\ Pending(e) # <<>>) =>
              IF reader[o] = "body"
                THEN Pending(e)[1].part = "body" /\ Pending(e)[1].n = temp[o].n
                ELSE /\ Pending(e)[1].part = "header"
                     /\ Pending(e)[1].n = Len(received[o]) + 1

\* With nothing left to write, what is on the wire ends with the last message.
Ending(e) ==
    messagesOut[e] = <<>> =>
        IF Pending(e) = <<>>
          THEN reader[Other(e)] # "stopped" =>
                  /\ reader[Other(e)] # "body"
                  /\ Len(received[Other(e)]) = Done(e)
          ELSE LET u == Pending(e)[Len(Pending(e))]
               IN  u.n = Done(e) /\ (u.part = "header" => ~u.full)

Stream(e) ==
    Numbered(e) /\ Writing(e) /\ Chained(e) /\ Reading(e) /\ Ending(e)

Streams ==
    /\ InOrder /\ TextArrives
    /\ sock["server"] = "none" => reader["server"] = "idle"
    /\ \A e \in Ends : Stream(e)

(***************************************************************************)
(* What is sent arrives, unless an end has closed its socket or there      *)
(* never was a connection.                                                 *)
(***************************************************************************)
Ended == link = "refused" \/ \E e \in Ends : sock[e] = "closed"

Arrives ==
    \A e \in Ends : \A i \in 1 .. MaxSends[e] :
        (sent[e] >= i) ~> (Len(received[Other(e)]) >= i \/ Ended)

(***************************************************************************)
(* The server's end closes once the client has quit, so that message_all   *)
(* can drop it; the game itself is not told.                               *)
(***************************************************************************)
QuitIsNoticed == (~running /\ sock["server"] = "open") ~> sock["server"] = "closed"

=============================================================================
