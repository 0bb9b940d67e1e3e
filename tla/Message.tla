------------------------------- MODULE Message -------------------------------
(***************************************************************************)
(* The message codec, net_message.h: a header with the size of the body,   *)
(* and a body to which data, strings and other messages are appended and   *)
(* from which they are taken back.  A byte is a member of Bytes.  The      *)
(* operators do not look at what a body was made of: data are popped from  *)
(* its end whatever is there.  The connection resizes the receiver's body  *)
(* to the size in the header, so that the two must agree.                  *)
(***************************************************************************)
EXTENDS Integers, SequencesExt

CONSTANTS
    Bytes,
    Sizes,      \* sizeof(DataType), of the types that are pushed and popped
    Lengths,    \* of the strings that are pushed
    MaxBody     \* bound: bytes in a body, pieces pushed into it

ASSUME MessageAssumption == Sizes \subseteq Nat \ {0} /\ Lengths \subseteq Nat

VARIABLES
    header,     \* [id, size]
    body,
    pieces,     \* history: what was pushed and not popped, as [kind, bytes]
    echo,       \* the body of a second message, made of this one
    got         \* the value just popped, with what should have come out

msgVars == <<header, body, pieces, echo, got>>

Ids   == {"Ping", "Info"}
Datum == UNION {[1 .. n -> Bytes] : n \in Sizes}
Texts == UNION {[1 .. n -> Bytes] : n \in Lengths}

Nothing == [value |-> <<>>, pushed |-> <<>>]

MessageInit ==
    /\ header = [id |-> "Ping", size |-> 0]
    /\ body = <<>> /\ pieces = <<>> /\ echo = <<>> /\ got = Nothing

SetId(i) ==
    /\ header' = [header EXCEPT !.id = i]
    /\ got' = Nothing
    /\ UNCHANGED <<body, pieces, echo>>

Clear ==
    /\ body' = <<>>
    /\ header' = [header EXCEPT !.size = 0]
    /\ pieces' = <<>> /\ got' = Nothing
    /\ UNCHANGED echo

Appended(b, bytes) == b \o bytes

Resized(b) == [header EXCEPT !.size = Len(b)]

Push(kind, bytes) ==
    /\ Len(body) + Len(bytes) <= MaxBody /\ Len(pieces) < MaxBody
    /\ body' = Appended(body, bytes)
    /\ header' = Resized(body')
    /\ pieces' = Append(pieces, [kind |-> kind, bytes |-> bytes])
    /\ got' = Nothing
    /\ UNCHANGED echo

PushData(d)   == Push("data", d)
PushString(s) == Push("text", s)
PushMessage   == Push("message", echo)

\* The server answers a Ping with the body it came with.
Echo ==
    /\ header.id = "Ping"
    /\ echo' = Appended(<<>>, body)
    /\ got' = Nothing
    /\ UNCHANGED <<header, body, pieces>>

\* The bytes pushed and not popped, in order.
Pushed == FlattenSeq([i \in DOMAIN pieces |-> pieces[i].bytes])

FirstOf(s, n) == SubSeq(s, 1, Len(s) - n)
LastOf(s, n)  == SubSeq(s, Len(s) - n + 1, Len(s))

\* Data come out of the back.  Fault: out of the front.
LeftByFront(b, n) == SubSeq(b, n + 1, Len(b))
LeftByPop(b, n)   == FirstOf(b, n)

\* What was pushed last is a datum of n bytes.
Matches(n) ==
    pieces # <<>> /\ Last(pieces).kind = "data" /\ Len(Last(pieces).bytes) = n

\* A datum of n bytes is popped, the one pushed last or, if that was not one
\* of this size, the n bytes at the end; what stays of the pieces is no datum.
PopData(n) ==
    /\ n <= Len(body)
    /\ got' = [value  |-> LastOf(body, n),
               pushed |-> IF Matches(n) THEN Last(pieces).bytes ELSE LastOf(Pushed, n)]
    /\ body' = LeftByPop(body, n)
    /\ header' = Resized(body')
    /\ pieces' = IF Matches(n) THEN Front(pieces)
                 ELSE <<[kind |-> "rest", bytes |-> FirstOf(Pushed, n)]>>
    /\ UNCHANGED echo

\* The body is shorter than the datum: its size minus the datum's wraps
\* around, the copy reads memory in front of the body, and resize throws,
\* the size being beyond any vector's.  If the program survives the copy, the
\* message is as it was.
PopShort(n) ==
    /\ n > Len(body)
    /\ got' = Nothing
    /\ UNCHANGED <<header, body, pieces, echo>>

\* A string is everything that is left, and nothing is left then.
PopString ==
    /\ got' = [value |-> body, pushed |-> Pushed]
    /\ body' = <<>>
    /\ header' = Resized(body')
    /\ pieces' = <<>>
    /\ UNCHANGED echo

MessageNext ==
    \/ \E i \in Ids : SetId(i)
    \/ \E d \in Datum : PushData(d)
    \/ \E s \in Texts : PushString(s)
    \/ \E n \in Sizes : PopData(n) \/ PopShort(n)
    \/ PushMessage \/ Echo \/ Clear \/ PopString

MessageSpec == MessageInit /\ [][MessageNext]_msgVars

-----------------------------------------------------------------------------
(***************************************************************************)
(* The header always announces the body there is, also after a pop failed; *)
(* the body is what was pushed and not popped since, in that order; and    *)
(* what is popped is a datum that was pushed last and whole, whatever was  *)
(* pushed and popped before it, or else the bytes pushed last, even if     *)
(* these are part of a string.                                             *)
(***************************************************************************)
CarriesWhatWasPushed ==
    /\ header.size = Len(body)
    /\ body = Pushed
    /\ got.value = got.pushed

=============================================================================
