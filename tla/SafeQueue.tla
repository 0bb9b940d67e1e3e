------------------------------- MODULE SafeQueue -------------------------------
(***************************************************************************)
(* class safe_queue: a deque, a mutex and a condition variable.  Any       *)
(* number of threads push; one thread takes, as each queue of the program  *)
(* has one consumer.  The server's main thread pops at the back and sleeps *)
(* while there is nothing; the client's loop asks is_connected() and       *)
(* empty() first and pops at the front, until the quit key is pressed.  An *)
(* operation on the deque is two steps, so that without the mutex one      *)
(* could overwrite another.                                                *)
(***************************************************************************)
EXTENDS Integers, Sequences

CONSTANTS
    Pushers,    \* threads that push
    Consumer,   \* the thread that takes
    NoOne,      \* no thread
    MaxItems    \* bound: messages pushed

Threads == Pushers \cup {Consumer}

ASSUME SafeQueueAssumption ==
    Consumer \notin Pushers /\ NoOne \notin Threads /\ MaxItems \in Nat

VARIABLES
    queue,      \* m_Queue
    taken,      \* history: what the consumer popped, in order
    fromFront,  \* the consumer is the client's loop
    open,       \* the client's socket is open: is_connected()
    m_mtx,      \* the thread that holds the mutex, or NoOne
    waiting,    \* the consumer is in the wait set of m_cond
    pc,         \* where each thread is
    copy        \* the deque as a thread inside an operation found it

vars == <<queue, taken, fromFront, open, m_mtx, waiting, pc, copy>>

Abstract == INSTANCE AtomicQueue

PusherLabels == {"idle", "push", "store", "notify", "unlock"}
ConsumerLabels ==
    {"idle", "empty", "seen", "test", "wait", "pop", "store", "unlock",
     "quit"}

TypeOK ==
    /\ queue \in Seq(Nat) /\ taken \in Seq(Nat)
    /\ fromFront \in BOOLEAN /\ open \in BOOLEAN /\ waiting \in BOOLEAN
    /\ m_mtx \in Threads \cup {NoOne}
    /\ pc \in [Threads -> PusherLabels \cup ConsumerLabels]
    /\ \A p \in Pushers : pc[p] \in PusherLabels
    /\ pc[Consumer] \in ConsumerLabels
    /\ copy \in [Threads -> Seq(Nat)]

Init ==
    /\ Abstract!QueueInit
    /\ open = TRUE
    /\ m_mtx = NoOne
    /\ waiting = FALSE
    /\ pc = [t \in Threads |-> "idle"]
    /\ copy = [t \in Threads |-> <<>>]

Goto(t, l) == pc' = [pc EXCEPT ![t] = l]

Lock(t, from, to) ==
    /\ pc[t] = from
    /\ m_mtx = NoOne
    /\ m_mtx' = t
    /\ Goto(t, to)
    /\ UNCHANGED <<queue, taken, fromFront, open, waiting, copy>>

Unlock(t) ==
    /\ pc[t] = "unlock"
    /\ m_mtx' = NoOne
    /\ Goto(t, "idle")
    /\ UNCHANGED <<queue, taken, fromFront, open, waiting, copy>>

\* The first half of an operation on the deque.
Load(t, from) ==
    /\ pc[t] = from
    /\ copy' = [copy EXCEPT ![t] = queue]
    /\ Goto(t, "store")
    /\ UNCHANGED <<queue, taken, fromFront, open, m_mtx, waiting>>

(***************************************************************************)
(* push_back                                                               *)
(***************************************************************************)
\* Fault: the lock is not taken.
NoLock(p) ==
    /\ pc[p] = "idle"
    /\ Abstract!NextItem <= MaxItems
    /\ Goto(p, "push")
    /\ UNCHANGED <<queue, taken, fromFront, open, m_mtx, waiting, copy>>

PushLock(p) == Abstract!NextItem <= MaxItems /\ Lock(p, "idle", "push")

PushLoad(p) == Load(p, "push")

PushStore(p) ==
    /\ pc[p] = "store"
    /\ queue' = Append(copy[p], Len(copy[p]) + Len(taken) + 1)
    /\ Goto(p, "notify")
    /\ UNCHANGED <<taken, fromFront, open, m_mtx, waiting, copy>>

\* Fault: only the first message is notified of.
NotifyFirst(p) ==
    /\ pc[p] = "notify"
    /\ waiting' = (waiting /\ Abstract!NextItem > 2)
    /\ Goto(p, "unlock")
    /\ UNCHANGED <<queue, taken, fromFront, open, m_mtx, copy>>

Notify(p) ==
    /\ pc[p] = "notify"
    /\ waiting' = FALSE
    /\ Goto(p, "unlock")
    /\ UNCHANGED <<queue, taken, fromFront, open, m_mtx, copy>>

\* The thread that pushes for the client also closes its socket, when a read
\* or a write has failed.  What is in the queue stays there.
Close(p) ==
    /\ fromFront /\ open
    /\ pc[p] = "idle"
    /\ open' = FALSE
    /\ UNCHANGED <<queue, taken, fromFront, m_mtx, waiting, pc, copy>>

(***************************************************************************)
(* The consumer: for the client is_connected() and empty(), then pop_front *)
(* or pop_back.                                                            *)
(***************************************************************************)
Call ==
    /\ pc[Consumer] = "idle"
    /\ fromFront => open
    /\ Goto(Consumer, IF fromFront THEN "empty" ELSE "seen")
    /\ UNCHANGED <<queue, taken, fromFront, open, m_mtx, waiting, copy>>

\* The quit key ends the client's loop.
Quit ==
    /\ pc[Consumer] = "idle" /\ fromFront
    /\ Goto(Consumer, "quit")
    /\ UNCHANGED <<queue, taken, fromFront, open, m_mtx, waiting, copy>>

\* Fault: the client pops whatever empty() says.
AlwaysPops == "seen"
AfterEmpty == IF queue = <<>> THEN "idle" ELSE "seen"

\* Locked throughout; nothing else is touched in between.
Empty ==
    /\ pc[Consumer] = "empty"
    /\ m_mtx = NoOne
    /\ Goto(Consumer, AfterEmpty)
    /\ UNCHANGED <<queue, taken, fromFront, open, m_mtx, waiting, copy>>

PopLock == Lock(Consumer, "seen", "test")

\* wait tests its predicate and, if there is nothing, releases the mutex and
\* enters the wait set in one step.
Test ==
    /\ pc[Consumer] = "test"
    /\ IF queue # <<>>
         THEN Goto(Consumer, "pop") /\ UNCHANGED <<m_mtx, waiting>>
         ELSE Goto(Consumer, "wait") /\ m_mtx' = NoOne /\ waiting' = TRUE
    /\ UNCHANGED <<queue, taken, fromFront, open, copy>>

Wake == ~waiting /\ Lock(Consumer, "wait", "test")

Spurious ==
    /\ waiting
    /\ waiting' = FALSE
    /\ UNCHANGED <<queue, taken, fromFront, open, m_mtx, pc, copy>>

PopLoad == Load(Consumer, "pop")

PopStore ==
    /\ pc[Consumer] = "store"
    /\ taken' = Append(taken, Abstract!End(copy[Consumer]))
    /\ queue' = Abstract!Shorter(copy[Consumer])
    /\ Goto(Consumer, "unlock")
    /\ UNCHANGED <<fromFront, open, m_mtx, waiting, copy>>

PusherStep(p) ==
    PushLock(p) \/ PushLoad(p) \/ PushStore(p) \/ Notify(p) \/ Close(p)

ConsumerStep == Call \/ Empty \/ PopLock \/ Test \/ Wake \/ PopLoad \/ PopStore

Next ==
    \/ \E p \in Pushers : PusherStep(p)
    \/ ConsumerStep \/ Quit \/ Spurious
    \/ \E t \in Threads : Unlock(t)

Spec == Init /\ [][Next]_vars

(***************************************************************************)
(* A thread inside an operation goes on, and one that wants the mutex gets *)
(* it again and again free in the end.  Nobody has to push, to close the   *)
(* socket or to quit; once it is closed, the client asks for nothing.      *)
(***************************************************************************)
Fairness ==
    /\ \A p \in Pushers : WF_vars(PushLoad(p) \/ PushStore(p) \/ Notify(p))
    /\ \A t \in Threads : WF_vars(Unlock(t))
    /\ SF_vars(ConsumerStep)

FairSpec == Spec /\ Fairness

-----------------------------------------------------------------------------
(***************************************************************************)
(* A safe_queue is an atomic queue: every push and pop takes effect in one *)
(* step, no message is lost, doubled or taken from the wrong end.          *)
(***************************************************************************)
IsAtomicQueue == Abstract!QueueSpec

(***************************************************************************)
(* The consumer does not sleep over a message, unless the thread that      *)
(* pushed it is about to notify.                                           *)
(***************************************************************************)
NoLostWakeup ==
    (waiting /\ queue # <<>>) => \E p \in Pushers : pc[p] = "notify"

(***************************************************************************)
(* The client's loop, which also reads the keyboard, never sleeps in       *)
(* pop_front: what empty() saw is still there, nobody else takes.          *)
(***************************************************************************)
PollingNeverWaits == fromFront => pc[Consumer] # "wait"

(***************************************************************************)
(* While there are messages the consumer goes on taking them, the server's *)
(* for ever, the client's as long as the socket is open and nobody quits.  *)
(* What is still in the queue then is never taken.                         *)
(***************************************************************************)
MessagesAreTaken ==
    \A n \in 0 .. MaxItems :
        (queue # <<>> /\ Len(taken) = n)
            ~> (Len(taken) > n \/ ~open \/ pc[Consumer] = "quit")

=============================================================================
