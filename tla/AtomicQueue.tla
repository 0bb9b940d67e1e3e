------------------------------ MODULE AtomicQueue ------------------------------
(***************************************************************************)
(* What a safe_queue promises to its users: messages are put at the back   *)
(* and taken from one end, each in a single step.  ServerThread, Connection*)
(* and the client's loop rely on this.                                     *)
(***************************************************************************)
EXTENDS Integers, Sequences

VARIABLES
    queue,      \* m_Queue; a message is known by its number
    taken,      \* the messages popped, in order
    fromFront   \* the user pops at the front (client) or at the back (server)

queueVars == <<queue, taken, fromFront>>

QueueInit ==
    /\ queue = <<>>
    /\ taken = <<>>
    /\ fromFront \in BOOLEAN

NextItem == Len(queue) + Len(taken) + 1

Push ==
    /\ queue' = Append(queue, NextItem)
    /\ UNCHANGED <<taken, fromFront>>

End(q)      == IF fromFront THEN Head(q) ELSE q[Len(q)]
Shorter(q)  == IF fromFront THEN Tail(q) ELSE SubSeq(q, 1, Len(q) - 1)

Take ==
    /\ queue # <<>>
    /\ taken' = Append(taken, End(queue))
    /\ queue' = Shorter(queue)
    /\ UNCHANGED fromFront

QueueNext == Push \/ Take

QueueSpec == QueueInit /\ [][QueueNext]_queueVars

=============================================================================
