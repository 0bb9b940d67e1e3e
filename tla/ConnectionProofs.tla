--------------------------- MODULE ConnectionProofs ---------------------------
(***************************************************************************)
(* Connection keeps its messages in order, with one write in flight, for   *)
(* any number of messages and whatever fails.                              *)
(***************************************************************************)
EXTENDS Connection, SequenceTheorems, TLAPS

LEMMA OtherEnd ==
    ASSUME NEW e \in Ends
    PROVE  Other(e) \in Ends /\ Other(e) # e /\ Other(Other(e)) = e
BY DEF Ends, Other

\* What appending to a sequence, and taking off its head, does to its elements.
LEMMA AppendElements ==
    ASSUME NEW S, NEW s \in Seq(S), NEW x \in S
    PROVE  /\ Append(s, x) \in Seq(S)
           /\ Len(Append(s, x)) = Len(s) + 1
           /\ \A i \in 1 .. Len(s) : Append(s, x)[i] = s[i]
           /\ Append(s, x)[Len(s) + 1] = x
OBVIOUS

LEMMA TailElements ==
    ASSUME NEW S, NEW s \in Seq(S), s # <<>>
    PROVE  /\ Tail(s) \in Seq(S)
           /\ Head(s) = s[1] /\ Head(s) \in S
           /\ Len(s) \in Nat /\ Len(s) >= 1
           /\ Len(Tail(s)) = Len(s) - 1
           /\ \A i \in 1 .. Len(s) - 1 : Tail(s)[i] = s[i + 1]
<1>1. Len(s) \in Nat /\ Len(s) >= 1
  BY EmptySeq
<1>2. Len(Tail(s)) = Len(s) - 1 /\ \A i \in 1 .. Len(s) - 1 : Tail(s)[i] = s[i + 1]
  BY <1>1, HeadTailProperties
<1> QED BY <1>1, <1>2, HeadTailProperties

LEMMA UnitType ==
    ASSUME NEW m \in Msgs, NEW part \in {"header", "body"}
    PROVE  /\ Unit(part, m) \in Units
           /\ Unit(part, m).part = part
           /\ Unit(part, m).n = m.n /\ Unit(part, m).full = m.full
BY DEF Unit, Msgs, Units

-----------------------------------------------------------------------------
LEMMA InitType == Init => TypeOK
<1> SUFFICES ASSUME Init PROVE TypeOK
  OBVIOUS
<1>1. /\ sock \in [Ends -> {"none", "open", "closed"}]
      /\ sent \in [Ends -> Nat]
      /\ link \in {"pending", "up", "refused"}
  BY DEF Init, Ends
<1>0. cut \in BOOLEAN /\ running \in BOOLEAN
  BY Zenon DEF Init
<1>2. /\ posted \in [Ends -> Seq(Msgs)] /\ messagesOut \in [Ends -> Seq(Msgs)]
      /\ writes \in [Ends -> Seq(Units)] /\ wire \in [Ends -> Seq(Units)]
      /\ received \in [Ends -> Seq(Temps)]
  BY EmptySeq DEF Init
<1>3. reader \in [Ends -> {"idle", "header", "body", "stopped"}]
  BY DEF Init
<1>4. temp \in [Ends -> Temps]
  BY DEF Init, Temps, NoTemp
<1> QED BY <1>0, <1>1, <1>2, <1>3, <1>4 DEF TypeOK

LEMMA SendType ==
    ASSUME TypeOK, NEW a \in Ends, Send(a)
    PROVE  TypeOK'
<1> PICK full \in BOOLEAN :
        posted' = [posted EXCEPT ![a] =
                      Append(@, [n |-> sent[a] + 1, full |-> full])]
  BY DEF Send
<1>1. [n |-> sent[a] + 1, full |-> full] \in Msgs
  BY DEF TypeOK, Msgs
<1>2. posted' \in [Ends -> Seq(Msgs)]
  BY <1>1, AppendElements DEF TypeOK
<1>3. sent' \in [Ends -> Nat]
  BY DEF TypeOK, Send
<1> QED BY <1>2, <1>3 DEF TypeOK, Send, netVars, readVars

LEMMA RunSendType ==
    ASSUME TypeOK, NEW a \in Ends, RunSend(a)
    PROVE  TypeOK'
<1>1. Head(posted[a]) \in Msgs /\ Tail(posted[a]) \in Seq(Msgs)
  BY TailElements DEF TypeOK, RunSend
<1>2. posted' \in [Ends -> Seq(Msgs)]
  BY <1>1 DEF TypeOK, RunSend
<1>3. /\ messagesOut'[a] = Append(messagesOut[a], Head(posted[a]))
      /\ messagesOut' \in [Ends -> Seq(Msgs)]
  BY <1>1, AppendElements DEF TypeOK, RunSend
<1>4. messagesOut'[a][1] \in Msgs
  BY <1>1, <1>3, AppendElements DEF TypeOK
<1>5. Unit("header", messagesOut'[a][1]) \in Units
  BY <1>4, UnitType
<1>6. writes' \in [Ends -> Seq(Units)]
  BY <1>5, AppendElements DEF TypeOK, RunSend
<1> QED BY <1>2, <1>3, <1>6 DEF TypeOK, RunSend, netVars, readVars

\* What Streams says of a write under way, in the form the write steps need.
LEMMA WriteFacts ==
    ASSUME TypeOK, NEW a \in Ends, Stream(a), writes[a] # <<>>
    PROVE  /\ messagesOut[a] # <<>>
           /\ messagesOut[a][1] \in Msgs /\ Head(messagesOut[a]) = messagesOut[a][1]
           /\ Tail(messagesOut[a]) \in Seq(Msgs)
           /\ Len(Tail(messagesOut[a])) = Len(messagesOut[a]) - 1
           /\ \A i \in 1 .. Len(messagesOut[a]) - 1 :
                 Tail(messagesOut[a])[i] = messagesOut[a][i + 1]
           /\ Len(messagesOut[a]) \in Nat /\ Len(messagesOut[a]) >= 1
           /\ Len(writes[a]) = 1
           /\ Tail(writes[a]) = <<>>
           /\ Head(writes[a]) = writes[a][1] /\ writes[a][1] \in Units
           /\ writes[a] = <<writes[a][1]>>
<1>1. Len(writes[a]) = 1 /\ messagesOut[a] # <<>>
  BY DEF Stream, Writing
<1>2. writes[a] \in Seq(Units) /\ messagesOut[a] \in Seq(Msgs)
  BY DEF TypeOK
<1>3. /\ Tail(writes[a]) \in Seq(Units) /\ Len(Tail(writes[a])) = 0
      /\ Head(writes[a]) = writes[a][1] /\ writes[a][1] \in Units
  BY <1>1, <1>2, TailElements
<1>4. Tail(writes[a]) = <<>>
  BY <1>3, EmptySeq
<1>5. writes[a] = <<writes[a][1]>>
  BY <1>1, <1>2
<1>6. /\ messagesOut[a][1] \in Msgs /\ Head(messagesOut[a]) = messagesOut[a][1]
      /\ Tail(messagesOut[a]) \in Seq(Msgs)
      /\ Len(Tail(messagesOut[a])) = Len(messagesOut[a]) - 1
      /\ Len(messagesOut[a]) \in Nat /\ Len(messagesOut[a]) >= 1
      /\ \A i \in 1 .. Len(messagesOut[a]) - 1 :
            Tail(messagesOut[a])[i] = messagesOut[a][i + 1]
  BY <1>1, <1>2, TailElements
<1> QED BY <1>1, <1>3, <1>4, <1>5, <1>6

\* The write that PopAndContinue starts.
LEMMA PopFacts ==
    ASSUME TypeOK, NEW a \in Ends, Stream(a), writes[a] # <<>>, PopAndContinue(a)
    PROVE  /\ messagesOut' = [messagesOut EXCEPT ![a] = Tail(@)]
           /\ messagesOut' \in [Ends -> Seq(Msgs)]
           /\ writes' \in [Ends -> Seq(Units)]
           /\ \A b \in Ends : b # a => writes'[b] = writes[b]
           /\ IF Len(messagesOut[a]) = 1
                THEN writes'[a] = <<>> /\ messagesOut'[a] = <<>>
                ELSE /\ writes'[a] = <<Unit("header", messagesOut[a][2])>>
                     /\ messagesOut[a][2] \in Msgs
                     /\ Len(messagesOut[a]) > 1
                     /\ messagesOut'[a] # <<>>
                     /\ messagesOut'[a][1] = messagesOut[a][2]
<1>0. messagesOut \in [Ends -> Seq(Msgs)] /\ writes \in [Ends -> Seq(Units)]
  BY DEF TypeOK
<1>1. messagesOut' = [messagesOut EXCEPT ![a] = Tail(@)]
  BY DEF PopAndContinue
<1>2. messagesOut' \in [Ends -> Seq(Msgs)]
  BY <1>0, <1>1, WriteFacts
<1>3. CASE Len(messagesOut[a]) = 1
  <2>3. writes' = [writes EXCEPT ![a] = <<>>]
    BY <1>3, WriteFacts DEF PopAndContinue
  <2>4. messagesOut'[a] = <<>>
    BY <1>0, <1>1, <1>3, WriteFacts, EmptySeq
  <2> QED BY <1>0, <1>1, <1>2, <1>3, <2>3, <2>4
<1>4. CASE Len(messagesOut[a]) # 1
  <2>1. Len(messagesOut[a]) > 1
    BY <1>4, WriteFacts
  <2>2. messagesOut[a][2] \in Msgs
    BY <1>0, <2>1
  <2>3. Unit("header", messagesOut[a][2]) \in Units
    BY <2>2, UnitType
  <2>4. writes' = [writes EXCEPT ![a] =
                      Append(Tail(@), Unit("header", messagesOut[a][2]))]
    BY <1>4 DEF PopAndContinue
  <2>5. Append(<<>>, Unit("header", messagesOut[a][2]))
          = <<Unit("header", messagesOut[a][2])>>
    BY <2>3
  <2>6. writes' = [writes EXCEPT ![a] = <<Unit("header", messagesOut[a][2])>>]
    BY <2>4, <2>5, WriteFacts
  <2>7. messagesOut'[a] = Tail(messagesOut[a])
    BY <1>0, <1>1
  <2>8. messagesOut'[a] # <<>> /\ messagesOut'[a][1] = messagesOut[a][2]
    <3>1. Len(messagesOut'[a]) >= 1
      BY <2>1, <2>7, WriteFacts
    <3>2. messagesOut'[a] # <<>>
      BY <3>1, EmptySeq
    <3>3. 1 \in 1 .. Len(messagesOut[a]) - 1
      BY <2>1, WriteFacts
    <3> QED BY <2>7, <3>2, <3>3, WriteFacts
  <2>9. writes'[a] = <<Unit("header", messagesOut[a][2])>>
    BY <1>0, <2>6
  <2>10. writes' \in [Ends -> Seq(Units)]
    BY <1>0, <2>3, <2>6
  <2> QED BY <1>0, <1>1, <1>2, <1>4, <2>1, <2>2, <2>6, <2>8, <2>9, <2>10
<1> QED BY <1>3, <1>4

LEMMA WriteType ==
    ASSUME TypeOK, NEW a \in Ends, Stream(a),
           WriteHeader(a) \/ WriteBody(a) \/ WriteFailed(a)
    PROVE  TypeOK'
<1>1. CASE WriteFailed(a)
  <2>1. writes' \in [Ends -> Seq(Units)]
    BY <1>1, WriteFacts, EmptySeq DEF TypeOK, WriteFailed
  <2>2. Append(wire[a], Head(writes[a])) \in Seq(Units)
    BY <1>1, WriteFacts, AppendElements DEF TypeOK, WriteFailed
  <2>3. wire' \in [Ends -> Seq(Units)]
    BY <1>1, <2>2 DEF TypeOK, WriteFailed
  <2> QED BY <1>1, <2>1, <2>3 DEF TypeOK, WriteFailed, netVars, readVars
<1>2. CASE WriteHeader(a) \/ WriteBody(a)
  <2>1. writes[a] # <<>>
    BY <1>2 DEF WriteHeader, WriteBody, Written
  <2>2. wire' \in [Ends -> Seq(Units)]
    <3>1. wire' = [wire EXCEPT ![a] = Append(@, Head(writes[a]))]
      BY <1>2 DEF WriteHeader, WriteBody, Written
    <3>2. Head(writes[a]) \in Units
      BY <2>1, WriteFacts
    <3>3. Append(wire[a], Head(writes[a])) \in Seq(Units)
      BY <3>2, AppendElements DEF TypeOK
    <3> QED BY <3>1, <3>3 DEF TypeOK
  <2>3. messagesOut' \in [Ends -> Seq(Msgs)] /\ writes' \in [Ends -> Seq(Units)]
    <3>1. CASE PopAndContinue(a)
      BY <2>1, <3>1, PopFacts
    <3>2. CASE ~PopAndContinue(a)
      <4>1. /\ writes' = [writes EXCEPT ![a] =
                             Append(Tail(@), Unit("body", Head(messagesOut[a])))]
            /\ UNCHANGED messagesOut
        BY <1>2, <3>2 DEF WriteHeader, WriteBody
      <4>2. Unit("body", Head(messagesOut[a])) \in Units
        BY <2>1, WriteFacts, UnitType
      <4> QED BY <2>1, <4>1, <4>2, WriteFacts, AppendElements, EmptySeq DEF TypeOK
    <3> QED BY <3>1, <3>2
  <2> QED BY <1>2, <2>2, <2>3
      DEF TypeOK, WriteHeader, WriteBody, Written, netVars, readVars
<1> QED BY <1>1, <1>2

LEMMA ReadType ==
    ASSUME TypeOK, NEW a \in Ends, ReadHeader(a) \/ ReadBody(a)
    PROVE  TypeOK'
<1> DEFINE e == Other(a)
           u == Head(wire[e])
<1>0. e \in Ends
  BY OtherEnd
<1>1. u \in Units /\ Tail(wire[e]) \in Seq(Units)
  BY <1>0, TailElements DEF TypeOK, ReadHeader, ReadBody, Readable
<1>2. wire' \in [Ends -> Seq(Units)]
  BY <1>0, <1>1 DEF TypeOK, ReadHeader, ReadBody, Readable
<1>3. temp[a] \in Temps
  BY DEF TypeOK
<1>4. CASE ReadHeader(a)
  <2> DEFINE t == [n |-> u.n, full |-> u.full, text |-> temp[a].text]
  <2>1. t \in Temps
    BY <1>1, <1>3 DEF Units, Temps
  <2>2. temp' \in [Ends -> Temps]
    BY <1>4, <2>1 DEF TypeOK, ReadHeader
  <2>3. received' \in [Ends -> Seq(Temps)]
    <3>1. Append(received[a], t) \in Seq(Temps)
      BY <2>1, AppendElements DEF TypeOK
    <3>2. received' = received \/ received' = [received EXCEPT ![a] = Append(@, t)]
      BY <1>4 DEF ReadHeader
    <3> QED BY <3>1, <3>2 DEF TypeOK
  <2>4. reader' \in [Ends -> {"idle", "header", "body", "stopped"}]
    BY <1>4 DEF TypeOK, ReadHeader
  <2> QED BY <1>2, <1>4, <2>2, <2>3, <2>4 DEF TypeOK, ReadHeader, netVars, outVars
<1>5. CASE ReadBody(a)
  <2>1. FreshText(a, u) \in Temps
    BY <1>1, <1>3 DEF Units, Temps, FreshText
  <2>2. temp' \in [Ends -> Temps]
    BY <1>5, <2>1 DEF TypeOK, ReadBody
  <2>3. received' \in [Ends -> Seq(Temps)]
    BY <1>5, <2>1, AppendElements DEF TypeOK, ReadBody
  <2>4. reader' \in [Ends -> {"idle", "header", "body", "stopped"}]
    BY <1>5 DEF TypeOK, ReadBody
  <2> QED BY <1>2, <1>5, <2>2, <2>3, <2>4 DEF TypeOK, ReadBody, netVars, outVars
<1> QED BY <1>4, <1>5

\* The steps that leave the messages alone.
Quiet == Handshake \/ Cut \/ ConnectToClient \/ ConnectToServer \/ Disconnect

LEMMA QuietType == TypeOK /\ Quiet => TypeOK'
<1> SUFFICES ASSUME TypeOK, Quiet PROVE TypeOK'
  OBVIOUS
<1>1. CASE Handshake
  BY <1>1 DEF TypeOK, Handshake, outVars, readVars
<1>2. CASE Cut
  BY <1>2 DEF TypeOK, Cut, outVars, readVars
<1>3. CASE ConnectToClient
  BY <1>3 DEF TypeOK, ConnectToClient, outVars, netVars, Ends
<1>4. CASE ConnectToServer
  BY <1>4 DEF TypeOK, ConnectToServer, outVars, netVars, Ends
<1>5. CASE Disconnect
  <2>1. running' \in BOOLEAN
    BY <1>5, Zenon DEF Disconnect
  <2> QED BY <1>5, <2>1 DEF TypeOK, Disconnect, outVars, readVars, Ends
<1> QED BY <1>1, <1>2, <1>3, <1>4, <1>5 DEF Quiet

LEMMA ReadFailedType ==
    ASSUME TypeOK, NEW a \in Ends, ReadFailed(a)
    PROVE  TypeOK'
BY DEF TypeOK, ReadFailed, outVars, netVars

-----------------------------------------------------------------------------
LEMMA ConcatElements ==
    ASSUME NEW S, NEW s \in Seq(S), NEW t \in Seq(S)
    PROVE  /\ s \o t \in Seq(S)
           /\ Len(s) \in Nat /\ Len(t) \in Nat
           /\ Len(s \o t) = Len(s) + Len(t)
           /\ \A i \in 1 .. Len(s) : (s \o t)[i] = s[i]
           /\ \A i \in 1 .. Len(t) : (s \o t)[Len(s) + i] = t[i]
           /\ s \o t = <<>> <=> (s = <<>> /\ t = <<>>)
<1> DEFINE n == Len(s)
           m == Len(t)
           c == s \o t
<1>1. n \in Nat /\ m \in Nat
  BY LenProperties
<1>2. /\ c \in Seq(S) /\ Len(c) = n + m
      /\ \A i \in 1 .. n + m : c[i] = IF i <= n THEN s[i] ELSE t[i - n]
  BY ConcatProperties
<1>3. c = <<>> <=> (s = <<>> /\ t = <<>>)
  BY ConcatEqualIffEmpty
<1> HIDE DEF n, m, c
<1>4. \A i \in 1 .. n : c[i] = s[i]
  BY <1>1, <1>2
<1>5. \A i \in 1 .. m : c[n + i] = t[i]
  BY <1>1, <1>2
<1> QED BY <1>1, <1>2, <1>3, <1>4, <1>5 DEF n, m, c

LEMMA PendingElements ==
    ASSUME TypeOK, NEW e \in Ends
    PROVE  /\ Pending(e) \in Seq(Units)
           /\ Len(wire[e]) \in Nat /\ Len(writes[e]) \in Nat
           /\ Len(Pending(e)) = Len(wire[e]) + Len(writes[e])
           /\ \A i \in 1 .. Len(wire[e]) : Pending(e)[i] = wire[e][i]
           /\ \A i \in 1 .. Len(writes[e]) :
                 Pending(e)[Len(wire[e]) + i] = writes[e][i]
           /\ Pending(e) = <<>> <=> (wire[e] = <<>> /\ writes[e] = <<>>)
BY ConcatElements DEF Pending, TypeOK

\* A step that leaves the stream of e alone, but for closing its socket.
LEMMA StreamStays ==
    ASSUME NEW e \in Ends, Stream(e),
           /\ sent'[e] = sent[e] /\ posted'[e] = posted[e]
           /\ messagesOut'[e] = messagesOut[e] /\ writes'[e] = writes[e]
           /\ wire'[e] = wire[e],
           sock[e] = "closed" => sock'[e] = "closed",
           /\ temp'[Other(e)] = temp[Other(e)]
           /\ received'[Other(e)] = received[Other(e)],
           \/ reader'[Other(e)] = reader[Other(e)]
           \/ reader[Other(e)] = "idle" /\ reader'[Other(e)] = "header"
           \/ reader'[Other(e)] = "stopped"
    PROVE  Stream(e)'
<1>1. Pending(e)' = Pending(e) /\ Done(e)' = Done(e)
  BY DEF Pending, Done
<1>2. Numbered(e)'
  BY <1>1 DEF Stream, Numbered
<1>3. Writing(e)'
  BY DEF Stream, Writing
<1>4. Chained(e)'
  BY <1>1 DEF Stream, Chained
<1>5. Reading(e)'
  BY <1>1 DEF Stream, Reading
<1>6. Ending(e)'
  BY <1>1 DEF Stream, Ending
<1> QED BY <1>2, <1>3, <1>4, <1>5, <1>6 DEF Stream

LEMMA QuietStream ==
    ASSUME TypeOK, Streams, NEW e \in Ends, Quiet
    PROVE  Stream(e)'
<1>1. UNCHANGED <<sent, posted, messagesOut, writes, wire, temp, received>>
  BY DEF Quiet, Handshake, Cut, ConnectToClient, ConnectToServer, Disconnect,
         outVars, readVars
<1>2. sock[e] = "closed" => sock'[e] = "closed"
  BY DEF Quiet, Handshake, Cut, ConnectToClient, ConnectToServer, Disconnect,
         TypeOK, Ends
<1>3. \/ reader'[Other(e)] = reader[Other(e)]
      \/ reader[Other(e)] = "idle" /\ reader'[Other(e)] = "header"
      \/ reader'[Other(e)] = "stopped"
  <2>1. CASE ConnectToServer
    BY <2>1, OtherEnd DEF ConnectToServer, TypeOK, Ends
  <2>2. CASE ConnectToClient
    BY <2>2, OtherEnd DEF ConnectToClient, TypeOK, Streams
  <2> QED BY <2>1, <2>2 DEF Quiet, Handshake, Cut, Disconnect, readVars
<1> QED BY <1>1, <1>2, <1>3, StreamStays DEF Streams

LEMMA SendStream ==
    ASSUME TypeOK, NEW a \in Ends, NEW e \in Ends, Stream(e), Send(a)
    PROVE  Stream(e)'
<1>1. CASE e # a
  BY <1>1, StreamStays DEF Send, netVars, readVars, TypeOK
<1>2. CASE e = a
  <2>1. PICK full \in BOOLEAN :
            posted' = [posted EXCEPT ![a] =
                          Append(@, [n |-> sent[a] + 1, full |-> full])]
    BY DEF Send
  <2> DEFINE m == [n |-> sent[a] + 1, full |-> full]
  <2>2. m \in Msgs /\ m.n = sent[a] + 1
    BY DEF TypeOK, Msgs
  <2>3. posted[a] \in Seq(Msgs) /\ Len(posted[a]) \in Nat /\ sent[a] \in Nat
    BY LenProperties DEF TypeOK
  <2>4. /\ posted'[a] = Append(posted[a], m)
        /\ Len(posted'[a]) = Len(posted[a]) + 1
        /\ \A i \in 1 .. Len(posted[a]) : posted'[a][i] = posted[a][i]
        /\ posted'[a][Len(posted[a]) + 1] = m
    <3>1. posted'[a] = Append(posted[a], m)
      BY <2>1 DEF TypeOK
    <3> HIDE DEF m
    <3> QED BY <2>2, <2>3, <3>1, AppendElements
  <2>5. sent'[a] = sent[a] + 1
    BY DEF Send, TypeOK
  <2>6. UNCHANGED <<messagesOut, writes, wire, reader, temp, received, sock>>
    BY DEF Send, readVars
  <2>7. Len(messagesOut[a]) \in Nat
    BY LenProperties DEF TypeOK
  <2> HIDE DEF m
  <2>8. Done(a)' = Done(a) /\ Pending(a)' = Pending(a)
    BY <2>3, <2>4, <2>5, <2>6, <2>7 DEF Done, Pending
  <2>9. Numbered(a)'
    <3>1. \A i \in 1 .. Len(messagesOut'[a]) :
             messagesOut'[a][i].n = Done(a)' + i
      BY <1>2, <2>6, <2>8 DEF Stream, Numbered
    <3>2. ASSUME NEW i \in 1 .. Len(posted'[a])
          PROVE  posted'[a][i].n = sent'[a] - Len(posted'[a]) + i
      <4>1. CASE i <= Len(posted[a])
        BY <1>2, <2>3, <2>4, <2>5, <4>1 DEF Stream, Numbered
      <4>2. CASE i = Len(posted[a]) + 1
        BY <2>2, <2>3, <2>4, <2>5, <4>2
      <4> QED BY <2>3, <2>4, <4>1, <4>2
    <3> QED BY <3>1, <3>2 DEF Numbered
  <2>10. Writing(a)' /\ Chained(a)' /\ Reading(a)' /\ Ending(a)'
    BY <1>2, <2>6, <2>8 DEF Stream, Writing, Chained, Reading, Ending
  <2> QED BY <1>2, <2>9, <2>10 DEF Stream
<1> QED BY <1>1, <1>2

LEMMA RunSendStream ==
    ASSUME TypeOK, NEW a \in Ends, NEW e \in Ends, Stream(e), RunSend(a)
    PROVE  Stream(e)'
<1>1. CASE e # a
  BY <1>1, StreamStays DEF RunSend, netVars, readVars, TypeOK
<1>2. CASE e = a
  <2> DEFINE m == Head(posted[a])
  <2>0. /\ posted[a] \in Seq(Msgs) /\ messagesOut[a] \in Seq(Msgs)
        /\ sent[a] \in Nat
        /\ Len(posted[a]) \in Nat /\ Len(messagesOut[a]) \in Nat
    BY LenProperties DEF TypeOK
  <2>1. /\ posted'[a] = Tail(posted[a])
        /\ m = posted[a][1] /\ m \in Msgs
        /\ Len(posted[a]) >= 1
        /\ Len(posted'[a]) = Len(posted[a]) - 1
        /\ \A i \in 1 .. Len(posted[a]) - 1 : posted'[a][i] = posted[a][i + 1]
    <3>1. posted'[a] = Tail(posted[a]) /\ posted[a] # <<>>
      BY DEF RunSend, TypeOK
    <3> QED BY <2>0, <3>1, TailElements
  <2>2. /\ messagesOut'[a] = Append(messagesOut[a], m)
        /\ Len(messagesOut'[a]) = Len(messagesOut[a]) + 1
        /\ \A i \in 1 .. Len(messagesOut[a]) :
              messagesOut'[a][i] = messagesOut[a][i]
        /\ messagesOut'[a][Len(messagesOut[a]) + 1] = m
        /\ messagesOut'[a] # <<>>
    <3>1. messagesOut'[a] = Append(messagesOut[a], m)
      BY DEF RunSend, TypeOK
    <3> HIDE DEF m
    <3> QED BY <2>0, <2>1, <3>1, AppendElements, AppendProperties
  <2>3. UNCHANGED <<sent, wire, reader, temp, received, sock>>
    BY DEF RunSend, readVars
  <2>4. m.n = sent[a] - Len(posted[a]) + 1
    BY <1>2, <2>0, <2>1 DEF Stream, Numbered
  <2> HIDE DEF m
  <2>5. Done(a)' = Done(a) /\ Done(a) \in Int
    <3> DEFINE s == sent[a]
               p == Len(posted[a])
               q == Len(messagesOut[a])
    <3>1. s \in Nat /\ p \in Nat /\ q \in Nat
      BY <2>0
    <3>2. Done(a) = s - p - q /\ Done(a)' = s - (p - 1) - (q + 1)
      BY <2>1, <2>2, <2>3 DEF Done
    <3> HIDE DEF s, p, q
    <3> QED BY <3>1, <3>2
  <2>6. Numbered(a)'
    <3>1. ASSUME NEW i \in 1 .. Len(posted'[a])
          PROVE  posted'[a][i].n = sent'[a] - Len(posted'[a]) + i
      <4>1. i + 1 \in 1 .. Len(posted[a]) /\ i \in 1 .. Len(posted[a]) - 1
        BY <2>0, <2>1
      <4>2. posted[a][i + 1].n = sent[a] - Len(posted[a]) + (i + 1)
        BY <1>2, <4>1 DEF Stream, Numbered
      <4>3. /\ posted'[a][i].n = sent[a] - Len(posted[a]) + (i + 1)
            /\ sent'[a] - Len(posted'[a]) + i = sent[a] - (Len(posted[a]) - 1) + i
        BY <2>1, <2>3, <4>1, <4>2
      <4> DEFINE s == sent[a]
                 p == Len(posted[a])
      <4>4. s \in Nat /\ p \in Nat /\ i \in Int
        BY <2>0
      <4> HIDE DEF s, p
      <4>5. s - p + (i + 1) = s - (p - 1) + i
        BY <4>4
      <4> QED BY <4>3, <4>5 DEF s, p
    <3>2. ASSUME NEW i \in 1 .. Len(messagesOut'[a])
          PROVE  messagesOut'[a][i].n = Done(a)' + i
      <4>1. CASE i <= Len(messagesOut[a])
        BY <1>2, <2>0, <2>2, <2>5, <4>1 DEF Stream, Numbered
      <4>2. CASE i = Len(messagesOut[a]) + 1
        <5>1. messagesOut'[a][i] = m
          BY <2>2, <4>2
        <5>2. Done(a)' = sent[a] - Len(posted[a]) - Len(messagesOut[a])
          BY <2>5 DEF Done
        <5> QED BY <2>0, <2>4, <4>2, <5>1, <5>2
      <4> QED BY <2>0, <2>2, <4>1, <4>2
    <3> QED BY <3>1, <3>2 DEF Numbered
  <2>7. CASE messagesOut[a] # <<>>
    <3>1. writes' = writes
      BY <2>7 DEF RunSend, StartsWrite
    <3>2. Pending(a)' = Pending(a)
      BY <2>3, <3>1 DEF Pending
    <3>3. messagesOut'[a][1] = messagesOut[a][1]
      BY <2>0, <2>2, <2>7, EmptySeq
    <3>4. Writing(a)'
      BY <1>2, <2>2, <2>3, <2>7, <3>1, <3>3 DEF Stream, Writing
    <3>5. Chained(a)' /\ Reading(a)' /\ Ending(a)'
      BY <1>2, <2>2, <2>3, <3>2 DEF Stream, Chained, Reading, Ending
    <3> QED BY <1>2, <2>6, <3>4, <3>5 DEF Stream
  <2>8. CASE messagesOut[a] = <<>>
    <3> DEFINE w == Unit("header", m)
    <3>1. messagesOut'[a][1] = m
      BY <2>0, <2>2, <2>8, EmptySeq
    <3>2. writes[a] = <<>>
      BY <1>2, <2>8 DEF Stream, Writing
    <3>3. /\ w \in Units /\ w.part = "header" /\ w.n = m.n /\ w.full = m.full
      BY <2>1, UnitType
    <3>4. writes'[a] = <<w>>
      BY <2>8, <3>1, <3>2, <3>3 DEF RunSend, StartsWrite, TypeOK
    <3>5. Writing(a)'
      <4>1. Len(writes'[a]) = 1 /\ writes'[a][1] = w /\ writes'[a] # <<>>
        BY <3>4
      <4>2. w = Unit(w.part, m)
        BY <3>3
      <4> HIDE DEF w
      <4> QED BY <2>2, <3>1, <3>3, <4>1, <4>2 DEF Writing
    <3>6. /\ Len(Pending(a)') = Len(Pending(a)) + 1
          /\ \A i \in 1 .. Len(Pending(a)) : Pending(a)'[i] = Pending(a)[i]
          /\ Pending(a)'[Len(Pending(a)) + 1] = w
          /\ Len(Pending(a)) \in Nat
          /\ Pending(a)' # <<>>
          /\ Pending(a) = <<>> <=> Len(Pending(a)) = 0
      <4>1. Pending(a) = wire[a] /\ Pending(a) \in Seq(Units)
        BY <3>2, ConcatEmptySeq DEF Pending, TypeOK
      <4>2. Pending(a)' = Append(Pending(a), w)
        BY <2>3, <3>3, <3>4, <4>1, AppendIsConcat DEF Pending
      <4> HIDE DEF w
      <4> QED BY <3>3, <4>1, <4>2, AppendElements, AppendProperties, EmptySeq
    <3> HIDE DEF w
    <3>7. Done(a) + 1 = m.n
      BY <2>0, <2>4, <2>8, EmptySeq DEF Done
    <3>8. Chained(a)'
      <4> SUFFICES ASSUME NEW i \in 1 .. Len(Pending(a)') - 1
                   PROVE  Follows(Pending(a)'[i], Pending(a)'[i + 1])
        BY DEF Chained
      <4>1. CASE i < Len(Pending(a))
        BY <1>2, <3>6, <4>1 DEF Stream, Chained
      <4>2. CASE i = Len(Pending(a))
        BY <1>2, <2>8, <3>3, <3>6, <3>7, <4>2 DEF Stream, Ending, Follows
      <4> QED BY <3>6, <4>1, <4>2
    <3>9. Reading(a)'
      <4>1. CASE Pending(a) = <<>>
        BY <1>2, <2>3, <2>8, <3>3, <3>6, <3>7, <4>1 DEF Stream, Reading, Ending
      <4>2. CASE Pending(a) # <<>>
        BY <1>2, <2>3, <3>6, <4>2 DEF Stream, Reading
      <4> QED BY <4>1, <4>2
    <3>10. Ending(a)'
      BY <2>2 DEF Ending
    <3> QED BY <1>2, <2>6, <3>5, <3>8, <3>9, <3>10 DEF Stream
  <2> QED BY <2>7, <2>8
<1> QED BY <1>1, <1>2

\* What Chained, Reading and Ending need when a unit is added to the stream.
LEMMA StreamGrows ==
    ASSUME NEW e \in Ends, Chained(e), Reading(e),
           Len(Pending(e)) \in Nat, Len(Pending(e)) >= 1,
           Pending(e) # <<>>, Pending(e)' # <<>>,
           Len(Pending(e)') = Len(Pending(e)) + 1,
           \A i \in 1 .. Len(Pending(e)) : Pending(e)'[i] = Pending(e)[i],
           Follows(Pending(e)[Len(Pending(e))], Pending(e)'[Len(Pending(e)) + 1]),
           UNCHANGED <<reader, temp, received>>
    PROVE  Chained(e)' /\ Reading(e)'
<1>1. Chained(e)'
  <2> SUFFICES ASSUME NEW i \in 1 .. Len(Pending(e)') - 1
               PROVE  Follows(Pending(e)'[i], Pending(e)'[i + 1])
    BY DEF Chained
  <2>1. CASE i < Len(Pending(e))
    BY <2>1 DEF Chained
  <2>2. CASE i = Len(Pending(e))
    BY <2>2
  <2> QED BY <2>1, <2>2
<1>2. Reading(e)'
  BY DEF Reading
<1> QED BY <1>1, <1>2

LEMMA WriteStream ==
    ASSUME TypeOK, TypeOK', NEW a \in Ends, NEW e \in Ends, Stream(a), Stream(e),
           WriteHeader(a) \/ WriteBody(a)
    PROVE  Stream(e)'
<1>0. writes[a] # <<>> /\ UNCHANGED <<sent, posted, reader, temp, received, sock>>
  BY DEF WriteHeader, WriteBody, Written, readVars
<1>1. CASE e # a
  <2>1. messagesOut'[e] = messagesOut[e] /\ writes'[e] = writes[e]
    BY <1>1 DEF WriteHeader, WriteBody, PopAndContinue, TypeOK
  <2>2. wire'[e] = wire[e]
    BY <1>1 DEF WriteHeader, WriteBody, Written, TypeOK
  <2> QED BY <1>0, <2>1, <2>2, StreamStays
<1>2. CASE e = a
  <2> DEFINE w == writes[a][1]
             P == Pending(a)
             n == Len(P)
  <2>1. /\ w \in Units /\ writes[a] = <<w>> /\ Len(writes[a]) = 1
        /\ w = Unit(w.part, messagesOut[a][1])
        /\ w.n = messagesOut[a][1].n /\ w.full = messagesOut[a][1].full
        /\ w.part = "body" => w.full
    BY <1>0, WriteFacts DEF Stream, Writing, Unit
  <2>0. /\ wire[a] \in Seq(Units) /\ wire'[a] \in Seq(Units)
        /\ messagesOut[a] \in Seq(Msgs) /\ posted[a] \in Seq(Msgs)
        /\ sent[a] \in Nat /\ Len(posted[a]) \in Nat
        /\ Len(messagesOut[a]) \in Nat
    BY LenProperties DEF TypeOK
  <2>2. wire'[a] = Append(wire[a], w)
    <3>1. wire'[a] = Append(wire[a], Head(writes[a]))
      BY DEF WriteHeader, WriteBody, Written, TypeOK
    <3> QED BY <1>0, <3>1, WriteFacts
  <2>3. /\ P \in Seq(Units) /\ P = Append(wire[a], w)
        /\ n \in Nat /\ n >= 1 /\ P # <<>> /\ P[n] = w
    <3> HIDE DEF w
    <3>1. P = Append(wire[a], w)
      BY <2>0, <2>1, AppendIsConcat DEF Pending
    <3>2. Len(wire[a]) \in Nat
      BY <2>0, LenProperties
    <3> QED BY <2>0, <2>1, <3>1, <3>2, AppendProperties
  <2>4. messagesOut[a][1].n = Done(a) + 1
    BY <1>0, WriteFacts DEF Stream, Numbered
  <2>5. Done(a) \in Int
    BY <2>0 DEF Done
  <2> HIDE DEF w
  <2>6. CASE w.part = "header" /\ w.full
    <3> DEFINE b == Unit("body", messagesOut[a][1])
    <3>1. /\ b \in Units /\ b.part = "body" /\ b.n = w.n /\ b.full
      BY <1>0, <2>1, <2>6, WriteFacts, UnitType
    <3>2. messagesOut' = messagesOut /\ writes'[a] = <<b>>
      <4>1. WriteHeader(a) /\ Head(messagesOut[a]).full
        BY <1>0, <2>1, <2>6, WriteFacts DEF w, WriteHeader, WriteBody, Written
      <4>2. /\ messagesOut' = messagesOut
            /\ writes'[a] = Append(Tail(writes[a]), Unit("body", Head(messagesOut[a])))
        BY <4>1 DEF WriteHeader, TypeOK
      <4>3. writes'[a] = Append(<<>>, b)
        BY <1>0, <4>2, WriteFacts
      <4>4. Append(<<>>, b) = <<b>>
        BY <3>1
      <4> HIDE DEF b
      <4> QED BY <4>2, <4>3, <4>4
    <3> HIDE DEF b
    <3>3. /\ P' = Append(P, b) /\ Len(P') = n + 1 /\ P' # <<>>
          /\ \A i \in 1 .. n : P'[i] = P[i]
          /\ P'[n + 1] = b
      <4>1. P' = Append(P, b)
        BY <2>0, <2>2, <2>3, <3>1, <3>2, AppendIsConcat DEF Pending
      <4> QED BY <2>3, <3>1, <4>1, AppendProperties
    <3>4. Follows(P[n], P'[n + 1])
      BY <2>3, <2>6, <3>1, <3>3 DEF Follows
    <3>5. Chained(a)' /\ Reading(a)'
      BY <1>0, <1>2, <2>3, <3>3, <3>4, StreamGrows DEF Stream
    <3>6. Numbered(a)'
      BY <1>0, <1>2, <3>2 DEF Stream, Numbered, Done
    <3>7. Writing(a)'
      <4>1. Len(writes'[a]) = 1 /\ writes'[a][1] = b /\ writes'[a] # <<>>
        BY <3>2
      <4>2. b = Unit(b.part, messagesOut'[a][1])
        BY <3>1, <3>2 DEF b
      <4> QED BY <1>0, <3>1, <3>2, <4>1, <4>2, WriteFacts DEF Writing
    <3>8. Ending(a)'
      BY <1>0, <3>2, WriteFacts DEF Ending
    <3> QED BY <1>2, <3>5, <3>6, <3>7, <3>8 DEF Stream
  <2>7. CASE ~(w.part = "header" /\ w.full)
    <3>1. PopAndContinue(a)
      BY <1>0, <2>1, <2>7, WriteFacts DEF w, WriteHeader, WriteBody, Written
    <3>2. /\ messagesOut'[a] = Tail(messagesOut[a])
          /\ Len(messagesOut'[a]) = Len(messagesOut[a]) - 1
          /\ \A i \in 1 .. Len(messagesOut'[a]) :
                messagesOut'[a][i] = messagesOut[a][i + 1]
          /\ Len(messagesOut[a]) \in Nat /\ Len(messagesOut[a]) >= 1
      <4>1. messagesOut'[a] = Tail(messagesOut[a])
        BY <3>1 DEF PopAndContinue, TypeOK
      <4> QED BY <1>0, <4>1, WriteFacts
    <3>3. Done(a)' = Done(a) + 1
      <4> DEFINE s == sent[a]
                 p == Len(posted[a])
                 q == Len(messagesOut[a])
      <4>1. s \in Nat /\ p \in Nat /\ q \in Nat
        BY <3>2, LenProperties DEF TypeOK
      <4>2. Done(a) = s - p - q /\ Done(a)' = s - p - (q - 1)
        BY <1>0, <3>2 DEF Done
      <4> HIDE DEF s, p, q
      <4> QED BY <4>1, <4>2
    <3>4. Numbered(a)'
      <4>1. ASSUME NEW i \in 1 .. Len(messagesOut'[a])
            PROVE  messagesOut'[a][i].n = Done(a)' + i
        <5>1. i + 1 \in 1 .. Len(messagesOut[a]) /\ i \in Int
          BY <3>2
        <5>2. messagesOut[a][i + 1].n = Done(a) + (i + 1)
          BY <1>2, <5>1 DEF Stream, Numbered
        <5>3. messagesOut'[a][i] = messagesOut[a][i + 1]
          BY <3>2
        <5> QED BY <2>5, <3>3, <5>1, <5>2, <5>3
      <4>2. \A i \in 1 .. Len(posted'[a]) :
               posted'[a][i].n = sent'[a] - Len(posted'[a]) + i
        BY <1>0, <1>2 DEF Stream, Numbered
      <4> QED BY <4>1, <4>2 DEF Numbered
    <3>5. w.n = Done(a)' /\ ~(w.part = "header" /\ w.full)
      BY <2>1, <2>4, <2>7, <3>3
    <3>6. CASE Len(messagesOut[a]) = 1
      <4>1. writes'[a] = <<>> /\ messagesOut'[a] = <<>>
        BY <1>0, <3>1, <3>6, PopFacts
      <4>2. P' = P
        BY <2>2, <2>3, <4>1, ConcatEmptySeq DEF Pending, TypeOK
      <4>3. Chained(a)' /\ Reading(a)'
        BY <1>0, <1>2, <4>2 DEF Stream, Chained, Reading
      <4>4. Ending(a)' /\ Writing(a)'
        BY <2>3, <3>5, <4>1, <4>2 DEF Ending, Writing
      <4> QED BY <1>2, <3>4, <4>3, <4>4 DEF Stream
    <3>7. CASE Len(messagesOut[a]) # 1
      <4> DEFINE h == Unit("header", messagesOut[a][2])
      <4>1. /\ writes'[a] = <<h>> /\ messagesOut'[a] # <<>>
            /\ messagesOut'[a][1] = messagesOut[a][2]
            /\ messagesOut[a][2] \in Msgs /\ Len(messagesOut[a]) > 1
        BY <1>0, <3>1, <3>7, PopFacts
      <4>2. /\ h \in Units /\ h.part = "header" /\ h.n = messagesOut[a][2].n
            /\ h = Unit(h.part, messagesOut'[a][1])
        BY <4>1, UnitType
      <4>3. h.n = w.n + 1
        <5>1. 2 \in 1 .. Len(messagesOut[a])
          BY <3>2, <4>1
        <5>2. messagesOut[a][2].n = Done(a) + 2
          BY <1>2, <5>1 DEF Stream, Numbered
        <5> QED BY <2>1, <2>4, <2>5, <4>2, <5>2
      <4> HIDE DEF h
      <4>4. /\ P' = Append(P, h) /\ Len(P') = n + 1 /\ P' # <<>>
            /\ \A i \in 1 .. n : P'[i] = P[i]
            /\ P'[n + 1] = h
        <5>1. P' = Append(P, h)
          BY <2>0, <2>2, <2>3, <4>1, <4>2, AppendIsConcat DEF Pending
        <5> QED BY <2>3, <4>2, <5>1, AppendProperties
      <4>5. Follows(P[n], P'[n + 1])
        BY <2>3, <2>7, <4>2, <4>3, <4>4 DEF Follows
      <4>6. Chained(a)' /\ Reading(a)'
        BY <1>0, <1>2, <2>3, <4>4, <4>5, StreamGrows DEF Stream
      <4>7. Writing(a)'
        <5>1. Len(writes'[a]) = 1 /\ writes'[a][1] = h /\ writes'[a] # <<>>
          BY <4>1
        <5> QED BY <4>1, <4>2, <5>1 DEF Writing
      <4>8. Ending(a)'
        BY <4>1 DEF Ending
      <4> QED BY <1>2, <3>4, <4>6, <4>7, <4>8 DEF Stream
    <3> QED BY <3>6, <3>7
  <2> QED BY <2>6, <2>7
<1> QED BY <1>1, <1>2

LEMMA WriteFailedStream ==
    ASSUME TypeOK, NEW a \in Ends, NEW e \in Ends, Stream(a), Stream(e),
           WriteFailed(a)
    PROVE  Stream(e)'
<1>0. /\ writes[a] # <<>> /\ sock'[a] = "closed"
      /\ UNCHANGED <<sent, posted, messagesOut, reader, temp, received>>
  BY DEF WriteFailed, readVars, TypeOK
<1>1. CASE e # a
  <2>1. writes'[e] = writes[e] /\ sock'[e] = sock[e] /\ wire'[e] = wire[e]
    BY <1>1 DEF WriteFailed, TypeOK
  <2> QED BY <1>0, <2>1, StreamStays
<1>2. CASE e = a
  <2>1. writes'[a] = <<>> /\ messagesOut[a] # <<>> /\ Len(writes[a]) = 1
    BY <1>0, WriteFacts DEF WriteFailed, TypeOK
  <2>2. CASE wire' = wire
    <3>1. /\ Pending(a)' = wire[a]
          /\ Len(Pending(a)) = Len(wire[a]) + 1
          /\ Len(wire[a]) \in Nat
          /\ \A i \in 1 .. Len(wire[a]) : Pending(a)[i] = wire[a][i]
          /\ Pending(a) # <<>>
      <4>1. Pending(a)' = wire[a]
        BY <1>0, <2>1, <2>2, ConcatEmptySeq DEF Pending, TypeOK
      <4> QED BY <1>0, <2>1, <4>1, PendingElements
    <3>2. Chained(a)'
      BY <1>2, <3>1 DEF Stream, Chained
    <3>3. Reading(a)'
      <4>1. wire[a] # <<>> => Len(wire[a]) >= 1
        BY EmptySeq DEF TypeOK
      <4> QED BY <1>0, <1>2, <3>1, <4>1 DEF Stream, Reading
    <3>4. Numbered(a)' /\ Writing(a)' /\ Ending(a)'
      BY <1>0, <1>2, <2>1 DEF Stream, Numbered, Done, Writing, Ending
    <3> QED BY <1>2, <3>2, <3>3, <3>4 DEF Stream
  <2>3. CASE wire' = [wire EXCEPT ![a] = Append(@, Head(writes[a]))]
    <3>1. /\ Head(writes[a]) \in Units /\ writes[a] = <<Head(writes[a])>>
          /\ wire[a] \in Seq(Units)
      BY <1>0, WriteFacts DEF TypeOK
    <3>2. wire'[a] = wire[a] \o writes[a] /\ wire'[a] \in Seq(Units)
      <4> DEFINE h == Head(writes[a])
      <4>1. wire'[a] = Append(wire[a], h) /\ writes[a] = <<h>>
        BY <2>3, <3>1 DEF TypeOK
      <4>2. h \in Units
        BY <3>1
      <4> HIDE DEF h
      <4>3. Append(wire[a], h) = wire[a] \o <<h>> /\ Append(wire[a], h) \in Seq(Units)
        BY <3>1, <4>2, AppendIsConcat, AppendElements
      <4> QED BY <4>1, <4>3
    <3>3. Pending(a)' = Pending(a)
      BY <2>1, <3>2, ConcatEmptySeq DEF Pending
    <3> QED BY <1>0, <1>2, <2>1, <3>3
        DEF Stream, Numbered, Done, Writing, Chained, Reading, Ending
  <2>4. wire' = wire \/ wire' = [wire EXCEPT ![a] = Append(@, Head(writes[a]))]
    BY DEF WriteFailed
  <2> QED BY <1>2, <2>2, <2>3, <2>4
<1> QED BY <1>1, <1>2

LEMMA ReadFailedStream ==
    ASSUME TypeOK, NEW a \in Ends, NEW e \in Ends, Stream(e), ReadFailed(a)
    PROVE  Stream(e)'
<1>1. /\ UNCHANGED <<sent, posted, messagesOut, writes, wire, temp, received>>
      /\ sock[e] = "closed" => sock'[e] = "closed"
  BY DEF ReadFailed, outVars, TypeOK
<1>2. reader'[Other(e)] = reader[Other(e)] \/ reader'[Other(e)] = "stopped"
  BY OtherEnd DEF ReadFailed, TypeOK
<1> QED BY <1>1, <1>2, StreamStays

-----------------------------------------------------------------------------
\* Reading: e is the end whose stream it is, a the one that reads.
LEMMA ReadFacts ==
    ASSUME TypeOK, NEW a \in Ends, Stream(Other(a)), ReadHeader(a) \/ ReadBody(a)
    PROVE  LET e == Other(a)
               u == Pending(e)[1]
           IN  /\ u \in Units /\ u = Head(wire[e])
               /\ UNCHANGED <<sent, posted, messagesOut, writes, sock>>
               /\ Pending(e) # <<>>
               /\ Len(Pending(e)) \in Nat /\ Len(Pending(e)) >= 1
               /\ Len(Pending(e)') = Len(Pending(e)) - 1
               /\ \A i \in 1 .. Len(Pending(e)) - 1 :
                     Pending(e)'[i] = Pending(e)[i + 1]
               /\ Pending(e)' = <<>> <=> Len(Pending(e)) = 1
               /\ wire'[a] = wire[a]
<1> DEFINE e == Other(a)
<1>0. e \in Ends /\ e # a
  BY OtherEnd
<1> HIDE DEF e
<1>1. /\ wire[e] # <<>> /\ wire' = [wire EXCEPT ![e] = Tail(@)]
      /\ UNCHANGED <<sent, posted, messagesOut, writes, sock>>
  BY DEF ReadHeader, ReadBody, Readable, outVars, e
<1>2. wire[e] \in Seq(Units) /\ writes[e] \in Seq(Units)
  BY <1>0 DEF TypeOK
<1>3. /\ Tail(wire[e]) \in Seq(Units) /\ Head(wire[e]) = wire[e][1]
      /\ Head(wire[e]) \in Units
      /\ Len(wire[e]) \in Nat /\ Len(wire[e]) >= 1
      /\ Len(Tail(wire[e])) = Len(wire[e]) - 1
      /\ \A i \in 1 .. Len(wire[e]) - 1 : Tail(wire[e])[i] = wire[e][i + 1]
  BY <1>1, <1>2, TailElements
<1>4. Pending(e)' = Tail(wire[e]) \o writes[e] /\ wire'[a] = wire[a]
  BY <1>0, <1>1 DEF Pending, TypeOK
<1> DEFINE w == wire[e]
           t == Tail(wire[e])
           s == writes[e]
           n == Len(w)
           m == Len(s)
<1>5. /\ Len(w \o s) = n + m /\ Len(t \o s) = (n - 1) + m /\ m \in Nat
      /\ w \o s # <<>> /\ w \o s \in Seq(Units) /\ t \o s \in Seq(Units)
      /\ \A i \in 1 .. n : (w \o s)[i] = w[i]
      /\ \A i \in 1 .. m : (w \o s)[n + i] = s[i]
      /\ \A i \in 1 .. n - 1 : (t \o s)[i] = t[i]
      /\ \A i \in 1 .. m : (t \o s)[(n - 1) + i] = s[i]
  <2>1. w \in Seq(Units) /\ t \in Seq(Units) /\ s \in Seq(Units) /\ w # <<>>
    BY <1>1, <1>2, <1>3
  <2>2. Len(t) = n - 1
    BY <1>3
  <2> HIDE DEF w, t, s
  <2>3. /\ Len(w \o s) = n + m /\ m \in Nat
        /\ w \o s # <<>> /\ w \o s \in Seq(Units)
        /\ \A i \in 1 .. n : (w \o s)[i] = w[i]
        /\ \A i \in 1 .. m : (w \o s)[n + i] = s[i]
    BY <2>1, ConcatElements
  <2>4. /\ Len(t \o s) = Len(t) + m /\ t \o s \in Seq(Units)
        /\ \A i \in 1 .. Len(t) : (t \o s)[i] = t[i]
        /\ \A i \in 1 .. m : (t \o s)[Len(t) + i] = s[i]
    BY <2>1, ConcatElements
  <2> QED BY <2>2, <2>3, <2>4
<1>6. \A i \in 1 .. n - 1 : t[i] = w[i + 1]
  BY <1>3
<1>7. n \in Nat /\ n >= 1
  BY <1>3
<1>8. t \o s = <<>> <=> Len(t \o s) = 0
  BY <1>5, EmptySeq
<1> HIDE DEF w, t, s, n, m
<1>9. ASSUME NEW i \in 1 .. (n + m) - 1
      PROVE  (t \o s)[i] = (w \o s)[i + 1]
  <2>1. CASE i <= n - 1
    <3>1. i \in 1 .. n - 1 /\ i + 1 \in 1 .. n
      BY <1>5, <1>7, <2>1
    <3>2. (t \o s)[i] = t[i] /\ (w \o s)[i + 1] = w[i + 1]
      BY <1>5, <3>1
    <3> QED BY <1>6, <3>1, <3>2
  <2>2. CASE ~(i <= n - 1)
    <3> DEFINE j == i - (n - 1)
    <3>1. j \in 1 .. m /\ (n - 1) + j = i /\ n + j = i + 1
      BY <1>5, <1>7, <2>2
    <3> HIDE DEF j
    <3>2. (t \o s)[(n - 1) + j] = s[j] /\ (w \o s)[n + j] = s[j]
      BY <1>5, <3>1
    <3> QED BY <3>1, <3>2
  <2> QED BY <2>1, <2>2
<1>10. Pending(e) = w \o s /\ Pending(e)' = t \o s
  BY <1>4 DEF Pending, w, s, t
<1>11. /\ (w \o s)[1] = w[1]
       /\ Len(w \o s) \in Nat /\ Len(w \o s) >= 1
       /\ Len(t \o s) = Len(w \o s) - 1
       /\ t \o s = <<>> <=> Len(w \o s) = 1
       /\ \A i \in 1 .. Len(w \o s) - 1 : (t \o s)[i] = (w \o s)[i + 1]
  BY <1>5, <1>7, <1>8, <1>9
<1>12. w[1] = Head(wire[e]) /\ Head(wire[e]) \in Units
  BY <1>3 DEF w
<1> QED BY <1>1, <1>4, <1>5, <1>10, <1>11, <1>12 DEF e

LEMMA ReadStream ==
    ASSUME TypeOK, TypeOK', NEW a \in Ends, NEW e \in Ends, Stream(e),
           Stream(Other(a)), ReadHeader(a) \/ ReadBody(a)
    PROVE  Stream(e)'
<1> DEFINE f == Other(a)
           u == Pending(f)[1]
           P == Pending(f)
           r == Len(received[a])
<1>0. f \in Ends /\ f # a /\ Other(f) = a
  BY OtherEnd
<1> HIDE DEF f
<1>1. /\ u \in Units /\ u = Head(wire[f])
      /\ UNCHANGED <<sent, posted, messagesOut, writes, sock>>
      /\ P # <<>> /\ Len(P) \in Nat /\ Len(P) >= 1 /\ Len(P') = Len(P) - 1
      /\ \A i \in 1 .. Len(P) - 1 : P'[i] = P[i + 1]
      /\ P' = <<>> <=> Len(P) = 1
      /\ wire'[a] = wire[a]
  BY ReadFacts DEF f
<1>2. /\ \A b \in Ends : b # a => /\ reader'[b] = reader[b] /\ temp'[b] = temp[b]
                                  /\ received'[b] = received[b]
      /\ \A b \in Ends : b # f => wire'[b] = wire[b]
  <2>1. wire' = [wire EXCEPT ![f] = Tail(@)]
    BY DEF ReadHeader, ReadBody, Readable, f
  <2>2. \A b \in Ends : b # f => wire'[b] = wire[b]
    BY <2>1 DEF TypeOK
  <2>3. \A b \in Ends : b # a => /\ reader'[b] = reader[b] /\ temp'[b] = temp[b]
                                /\ received'[b] = received[b]
    BY DEF ReadHeader, ReadBody, TypeOK
  <2> QED BY <2>2, <2>3
<1>3. CASE e # f
  <2>1. Other(e) # a /\ Other(e) \in Ends
    BY <1>0, <1>3 DEF Ends, Other
  <2> QED BY <1>1, <1>2, <1>3, <2>1, StreamStays
<1>4. CASE e = f
  <2>0. /\ Stream(f) /\ r \in Nat
        /\ received[a] \in Seq(Temps)
    BY <1>4, LenProperties DEF TypeOK
  <2>1. Numbered(f)' /\ Writing(f)'
    BY <1>1, <2>0 DEF Stream, Numbered, Done, Writing
  <2> HIDE DEF P, u
  <2>2. Chained(f)'
    <3> SUFFICES ASSUME NEW i \in 1 .. Len(P') - 1
                 PROVE  Follows(P'[i], P'[i + 1])
      BY DEF Chained, P
    <3>1. /\ i \in 1 .. Len(P) - 1 /\ i + 1 \in 1 .. Len(P) - 1
          /\ i + 1 \in Int
      BY <1>1
    <3>2. Follows(P[i + 1], P[(i + 1) + 1])
      BY <2>0, <3>1 DEF Stream, Chained, P
    <3>3. P'[i] = P[i + 1] /\ P'[i + 1] = P[(i + 1) + 1]
      BY <1>1, <3>1
    <3> QED BY <3>2, <3>3
  <2>3. Len(P) > 1 => P'[1] = P[2] /\ Follows(u, P[2])
    <3> SUFFICES ASSUME Len(P) > 1 PROVE P'[1] = P[2] /\ Follows(u, P[2])
      OBVIOUS
    <3>1. 1 \in 1 .. Len(P) - 1
      BY <1>1
    <3> QED BY <1>1, <2>0, <3>1 DEF Stream, Chained, P, u
  <2>4. messagesOut[f] = <<>> =>
           /\ P[Len(P)].n = Done(f)
           /\ P[Len(P)].part = "header" => ~P[Len(P)].full
    BY <1>1, <2>0 DEF Stream, Ending, P
  <2>5. Len(P) > 1 => P'[Len(P')] = P[Len(P)]
    <3> SUFFICES ASSUME Len(P) > 1 PROVE P'[Len(P')] = P[Len(P)]
      OBVIOUS
    <3>1. Len(P) - 1 \in 1 .. Len(P) - 1 /\ (Len(P) - 1) + 1 = Len(P)
      BY <1>1
    <3> QED BY <1>1, <3>1
  <2>6. Done(f)' = Done(f) /\ messagesOut' = messagesOut
    BY <1>1 DEF Done
  <2>7. CASE ReadHeader(a) /\ u.full
    <3>1. reader[a] = "header" /\ reader'[a] = "body"
      BY <2>7, <1>1 DEF ReadHeader, Readable, TypeOK, f
    <3>2. u.part = "header" /\ u.n = r + 1
      BY <1>0, <1>1, <2>0, <3>1 DEF Stream, Reading, P, u
    <3>3. received'[a] = received[a] /\ temp'[a].n = u.n /\ temp'[a].full
      BY <1>1, <2>7 DEF ReadHeader, TypeOK, f
    <3>4. Reading(f)'
      BY <1>0, <1>1, <2>3, <2>7, <3>1, <3>2, <3>3 DEF Reading, Follows, P
    <3>5. Ending(f)'
      <4>1. messagesOut[f] = <<>> => Len(P) > 1
        BY <1>1, <2>4, <2>7, <3>2 DEF u, P
      <4> QED BY <1>0, <1>1, <2>4, <2>5, <2>6, <4>1 DEF Ending, P
    <3> QED BY <1>4, <2>1, <2>2, <3>4, <3>5 DEF Stream
  <2>8. CASE (ReadHeader(a) /\ ~u.full) \/ ReadBody(a)
    <3>1. /\ reader[a] \in {"header", "body"} /\ reader'[a] = "header"
          /\ reader[a] = "header" => ReadHeader(a) /\ ~u.full
          /\ u.part = reader[a]
      BY <2>8, <1>1 DEF ReadHeader, ReadBody, Readable, TypeOK, f
    <3>2. u.n = r + 1
      BY <1>0, <1>1, <2>0, <3>1 DEF Stream, Reading, P, u
    <3>3. Len(received'[a]) = r + 1
      <4>1. PICK t : received'[a] = Append(received[a], t)
        <5>1. CASE ReadHeader(a) /\ ~u.full
          <6>1. ~Head(wire[f]).full
            BY <1>1, <5>1
          <6>2. PICK t : received' = [received EXCEPT ![a] = Append(@, t)]
            BY <5>1, <6>1, Zenon DEF ReadHeader, f
          <6>3. received'[a] = Append(received[a], t)
            BY <6>2, Zenon DEF TypeOK
          <6> QED BY <6>3, Zenon
        <5>2. CASE ReadBody(a)
          BY <5>2 DEF ReadBody, TypeOK
        <5> QED BY <2>8, <5>1, <5>2
      <4>2. received'[a] \in Seq(Temps)
        BY DEF TypeOK
      <4> QED BY <2>0, <4>1, <4>2
    <3>4. Len(P) > 1 => P'[1].part = "header" /\ P'[1].n = u.n + 1
      BY <2>3, <3>1 DEF Follows
    <3>5. Reading(f)'
      BY <1>0, <1>1, <2>0, <3>1, <3>2, <3>3, <3>4 DEF Reading, P
    <3>6. Ending(f)'
      BY <1>0, <1>1, <2>4, <2>5, <2>6, <3>1, <3>2, <3>3 DEF Ending, P, u
    <3> QED BY <1>4, <2>1, <2>2, <3>5, <3>6 DEF Stream
  <2> QED BY <2>7, <2>8
<1> QED BY <1>3, <1>4

\* What a read delivers.
LEMMA ReadDelivers ==
    ASSUME TypeOK, TypeOK', Streams, NEW a \in Ends, ReadHeader(a) \/ ReadBody(a)
    PROVE  InOrder' /\ TextArrives'
<1> DEFINE f == Other(a)
           u == Head(wire[f])
           r == Len(received[a])
<1>0. f \in Ends /\ Other(f) = a /\ Stream(f)
  BY OtherEnd DEF Streams
<1>1. /\ u \in Units /\ u = Pending(f)[1] /\ Pending(f) # <<>>
  BY <1>0, ReadFacts
<1>2. r \in Nat /\ received[a] \in Seq(Temps) /\ received'[a] \in Seq(Temps)
  BY LenProperties DEF TypeOK
<1>3. \A b \in Ends : b # a => received'[b] = received[b]
  BY DEF ReadHeader, ReadBody, TypeOK
<1> HIDE DEF f
<1>4. CASE received'[a] = received[a]
  BY <1>3, <1>4 DEF Streams, InOrder, TextArrives
<1>5. CASE received'[a] # received[a]
  <2>1. PICK t \in Temps : /\ received'[a] = Append(received[a], t)
                           /\ t.n = r + 1
                           /\ t.full => t.text = t.n
    <3>1. CASE ReadHeader(a)
      <4> DEFINE t == [n |-> u.n, full |-> u.full, text |-> temp[a].text]
      <4>1. reader[a] = "header" /\ ~u.full
        BY <1>5, <3>1 DEF ReadHeader, Readable, TypeOK, f
      <4>2. u.n = r + 1
        BY <1>0, <1>1, <4>1 DEF Stream, Reading
      <4>3. received'[a] = Append(received[a], t)
        BY <3>1, <4>1 DEF ReadHeader, TypeOK, f
      <4>4. t \in Temps
        BY <1>1 DEF Units, Temps, TypeOK
      <4> QED BY <4>1, <4>2, <4>3, <4>4
    <3>2. CASE ReadBody(a)
      <4> DEFINE t == FreshText(a, u)
      <4>1. reader[a] = "body"
        BY <3>2 DEF ReadBody, Readable
      <4>2. u.n = r + 1 /\ temp[a].n = r + 1
        BY <1>0, <1>1, <4>1 DEF Stream, Reading
      <4>3. received'[a] = Append(received[a], t)
        BY <3>2 DEF ReadBody, TypeOK, f
      <4>4. t \in Temps /\ t.n = temp[a].n /\ t.text = u.n
        <5>1. temp[a] \in Temps /\ u.n \in Nat
          BY <1>1 DEF Units, TypeOK
        <5> HIDE DEF u
        <5> QED BY <5>1 DEF Temps, FreshText
      <4> QED BY <4>2, <4>3, <4>4
    <3> QED BY <3>1, <3>2
  <2>2. /\ Len(received'[a]) = r + 1
        /\ \A i \in 1 .. r : received'[a][i] = received[a][i]
        /\ received'[a][r + 1] = t
    BY <1>2, <2>1, AppendElements
  <2>3. ASSUME NEW i \in 1 .. Len(received'[a])
        PROVE  /\ received'[a][i].n = i
               /\ received'[a][i].full => received'[a][i].text = received'[a][i].n
    <3>1. CASE i \in 1 .. r
      BY <2>2, <3>1 DEF Streams, InOrder, TextArrives
    <3>2. CASE i = r + 1
      BY <2>1, <2>2, <3>2
    <3> QED BY <1>2, <2>2, <3>1, <3>2
  <2> QED BY <1>3, <2>3 DEF Streams, InOrder, TextArrives
<1> QED BY <1>4, <1>5

-----------------------------------------------------------------------------
LEMMA InitStreams == Init => Streams
<1> SUFFICES ASSUME Init PROVE Streams
  OBVIOUS
<1>1. \A e \in Ends : Pending(e) = <<>> /\ Done(e) = 0
  BY DEF Init, Pending, Done
<1>2. \A e \in Ends : Stream(e)
  BY <1>1, OtherEnd DEF Init, Stream, Numbered, Writing, Chained, Reading, Ending
<1>3. InOrder /\ TextArrives
  BY DEF Init, InOrder, TextArrives
<1> QED BY <1>2, <1>3 DEF Streams, Init, Ends

LEMMA Step == TypeOK /\ Streams /\ [Next]_vars => TypeOK' /\ Streams'
<1> SUFFICES ASSUME TypeOK, Streams, [Next]_vars PROVE TypeOK' /\ Streams'
  OBVIOUS
<1>0. \A e \in Ends : Stream(e)
  BY DEF Streams
<1>1. CASE Quiet
  <2>1. TypeOK'
    BY <1>1, QuietType
  <2>2. \A e \in Ends : Stream(e)'
    BY <1>1, QuietStream
  <2>3. received' = received
    BY <1>1 DEF Quiet, Handshake, Cut, ConnectToClient, ConnectToServer,
                Disconnect, readVars
  <2>4. sock'["server"] = "none" => reader'["server"] = "idle"
    BY <1>1 DEF Quiet, Handshake, Cut, ConnectToClient, ConnectToServer,
                Disconnect, readVars, Streams, TypeOK, Ends
  <2> QED BY <2>1, <2>2, <2>3, <2>4 DEF Streams, InOrder, TextArrives
<1>2. ASSUME NEW a \in Ends, Send(a) \/ Handler(a)
      PROVE  TypeOK' /\ Streams'
  <2>1. CASE Send(a)
    <3>1. TypeOK' /\ \A e \in Ends : Stream(e)'
      BY <1>0, <2>1, SendType, SendStream
    <3> QED BY <2>1, <3>1 DEF Send, readVars, Streams, InOrder, TextArrives
  <2>2. CASE RunSend(a)
    <3>1. TypeOK' /\ \A e \in Ends : Stream(e)'
      BY <1>0, <2>2, RunSendType, RunSendStream
    <3> QED BY <2>2, <3>1 DEF RunSend, readVars, Streams, InOrder, TextArrives
  <2>3. CASE WriteHeader(a) \/ WriteBody(a)
    <3>1. TypeOK'
      BY <1>0, <2>3, WriteType
    <3>2. \A e \in Ends : Stream(e)'
      BY <1>0, <2>3, <3>1, WriteStream
    <3>3. UNCHANGED <<sock, reader, received>>
      BY <2>3 DEF WriteHeader, WriteBody, Written, readVars
    <3> QED BY <3>1, <3>2, <3>3 DEF Streams, InOrder, TextArrives
  <2>4. CASE WriteFailed(a)
    <3>1. TypeOK' /\ \A e \in Ends : Stream(e)'
      BY <1>0, <2>4, WriteType, WriteFailedStream
    <3>2. sock'["server"] = "none" => sock["server"] = "none"
      BY <2>4 DEF WriteFailed, TypeOK
    <3> QED BY <2>4, <3>1, <3>2
        DEF WriteFailed, readVars, Streams, InOrder, TextArrives
  <2>5. CASE ReadHeader(a) \/ ReadBody(a)
    <3>1. TypeOK'
      BY <2>5, ReadType
    <3>2. \A e \in Ends : Stream(e)'
      BY <1>0, <2>5, <3>1, ReadStream, OtherEnd
    <3>3. InOrder' /\ TextArrives'
      BY <2>5, <3>1, ReadDelivers
    <3>4. sock' = sock /\ (sock["server"] = "none" => reader'["server"] = reader["server"])
      <4>1. sock' = sock
        BY <2>5 DEF ReadHeader, ReadBody
      <4>2. sock["server"] = "none" => a # "server"
        BY <2>5 DEF ReadHeader, ReadBody, Readable
      <4>3. a # "server" => reader'["server"] = reader["server"]
        <5>1. \/ reader' = reader
              \/ \E v : reader' = [reader EXCEPT ![a] = v]
          BY <2>5, Zenon DEF ReadHeader, ReadBody
        <5> QED BY <5>1 DEF TypeOK, Ends
      <4> QED BY <4>1, <4>2, <4>3 DEF Ends
    <3> QED BY <3>1, <3>2, <3>3, <3>4 DEF Streams
  <2>6. CASE ReadFailed(a)
    <3>1. TypeOK' /\ \A e \in Ends : Stream(e)'
      BY <1>0, <2>6, ReadFailedType, ReadFailedStream
    <3>2. sock'["server"] = "none" => reader'["server"] = "idle"
      BY <2>6 DEF ReadFailed, Streams, TypeOK, Ends
    <3> QED BY <2>6, <3>1, <3>2 DEF ReadFailed, Streams, InOrder, TextArrives
  <2> QED BY <1>2, <2>1, <2>2, <2>3, <2>4, <2>5, <2>6 DEF Handler
<1>3. CASE UNCHANGED vars
  <2>1. TypeOK'
    BY <1>3 DEF vars, TypeOK
  <2>2. \A e \in Ends : Stream(e)'
    BY <1>0, <1>3, StreamStays DEF vars
  <2> QED BY <1>3, <2>1, <2>2 DEF vars, Streams, InOrder, TextArrives
<1> QED BY <1>1, <1>2, <1>3 DEF Next, Quiet

(***************************************************************************)
(* The stream invariant: where every message of a connection is, at every  *)
(* point of the write and read chains and after any failure.               *)
(***************************************************************************)
THEOREM StreamsHold == Spec => [](TypeOK /\ Streams)
<1>1. Init => TypeOK /\ Streams
  BY InitType, InitStreams
<1> QED BY <1>1, Step, PTL DEF Spec

(***************************************************************************)
(* Messages arrive in order, none missing and none doubled.                *)
(***************************************************************************)
THEOREM MessagesInOrder == Spec => []InOrder
<1>1. Streams => InOrder
  BY DEF Streams
<1> QED BY <1>1, StreamsHold, PTL

(***************************************************************************)
(* A message that announces a body is delivered with its own.              *)
(***************************************************************************)
THEOREM TextsArrive == Spec => []TextArrives
<1>1. Streams => TextArrives
  BY DEF Streams
<1> QED BY <1>1, StreamsHold, PTL

(***************************************************************************)
(* One async_write at a time, of the message at the front of the queue.    *)
(***************************************************************************)
THEOREM OneWrite == Spec => []OneWriteInFlight
<1>1. TypeOK /\ Streams => OneWriteInFlight
  <2> SUFFICES ASSUME TypeOK, Streams, NEW e \in Ends
               PROVE  /\ Len(writes[e]) <= 1
                      /\ writes[e] # <<>> =>
                            /\ messagesOut[e] # <<>>
                            /\ Head(writes[e]).n = Head(messagesOut[e]).n
    BY DEF OneWriteInFlight
  <2>1. CASE writes[e] = <<>>
    BY <2>1
  <2>2. CASE writes[e] # <<>>
    <3>1. /\ messagesOut[e] # <<>> /\ Len(writes[e]) = 1
          /\ writes[e][1] = Unit(writes[e][1].part, messagesOut[e][1])
      BY <2>2 DEF Streams, Stream, Writing
    <3>2. /\ Head(writes[e]) = writes[e][1]
          /\ Head(messagesOut[e]) = messagesOut[e][1]
      BY <2>2, WriteFacts DEF Streams
    <3>3. Unit(writes[e][1].part, messagesOut[e][1]).n = messagesOut[e][1].n
      BY DEF Unit
    <3> QED BY <3>1, <3>2, <3>3
  <2> QED BY <2>1, <2>2
<1> QED BY <1>1, StreamsHold, PTL

=============================================================================
