---------------------------- MODULE SafeQueueProofs ----------------------------
(***************************************************************************)
(* For any number of pushing threads and of messages: a safe_queue is an   *)
(* atomic queue, loses no wakeup, and never blocks a consumer that polls.  *)
(***************************************************************************)
EXTENDS SafeQueue, SequenceTheorems, TLAPS

\* The thread holds the mutex.
Inside == {"push", "store", "notify", "unlock", "test", "pop"}

Locked == \A t \in Threads : pc[t] \in Inside <=> m_mtx = t

\* Inside an operation the deque is as the thread found it.
CopyFresh == \A t \in Threads : pc[t] = "store" => copy[t] = queue

Sleeping == waiting => pc[Consumer] = "wait"

HasItem == pc[Consumer] \in {"pop", "store"} => queue # <<>>

\* What empty() told the client's loop still holds.
Polled ==
    fromFront => /\ pc[Consumer] # "wait"
                 /\ pc[Consumer] \in {"seen", "test"} => queue # <<>>

IInv ==
    TypeOK /\ Locked /\ CopyFresh /\ Sleeping /\ HasItem /\ Polled /\ NoLostWakeup

USE SafeQueueAssumption DEF PusherLabels, ConsumerLabels

-----------------------------------------------------------------------------
LEMMA InitIInv == Init => IInv
<1> SUFFICES ASSUME Init PROVE IInv
  OBVIOUS
<1>1. /\ queue = <<>> /\ taken = <<>> /\ m_mtx = NoOne /\ ~waiting
      /\ \A t \in Threads : pc[t] = "idle"
      /\ Consumer \in Threads /\ NoOne \notin Threads
  BY DEF Init, Abstract!QueueInit, Threads
<1>2. fromFront \in BOOLEAN /\ open \in BOOLEAN /\ waiting \in BOOLEAN
  BY Zenon DEF Init, Abstract!QueueInit
<1>3. pc \in [Threads -> PusherLabels \cup ConsumerLabels] /\ copy \in [Threads -> Seq(Nat)]
  BY DEF Init
<1>4. TypeOK
  BY <1>1, <1>2, <1>3 DEF TypeOK, Threads
<1> QED BY <1>1, <1>4
    DEF IInv, Locked, Inside, CopyFresh, Sleeping, HasItem, Polled, NoLostWakeup

-----------------------------------------------------------------------------
LEMMA LockStep ==
    ASSUME IInv, NEW t \in Threads, NEW from, NEW to,
           Lock(t, from, to),
           \/ t \in Pushers /\ from = "idle" /\ to = "push"
           \/ t = Consumer /\ from \in {"seen", "wait"} /\ to = "test" /\ ~waiting
    PROVE  IInv'
<1>0. /\ pc' = [pc EXCEPT ![t] = to] /\ pc[t] = from /\ m_mtx = NoOne /\ m_mtx' = t
      /\ UNCHANGED <<queue, taken, fromFront, open, waiting, copy>>
  BY DEF Lock, Goto
<1>1. /\ pc' \in [Threads -> PusherLabels \cup ConsumerLabels] /\ pc'[t] = to
      /\ \A s \in Threads : s # t => pc'[s] = pc[s]
  BY <1>0 DEF IInv, TypeOK
<1>2. TypeOK'
  BY <1>0, <1>1 DEF IInv, TypeOK, Threads
<1>3. Locked'
  BY <1>0, <1>1 DEF IInv, Locked, Inside, Threads
<1>4. CopyFresh' /\ HasItem' /\ Polled' /\ Sleeping'
  BY <1>0, <1>1 DEF IInv, CopyFresh, HasItem, Polled, Sleeping, Threads
<1>5. NoLostWakeup'
  BY <1>0, <1>1 DEF IInv, NoLostWakeup, Threads
<1> QED BY <1>2, <1>3, <1>4, <1>5 DEF IInv

LEMMA UnlockStep ==
    ASSUME IInv, NEW t \in Threads, Unlock(t)
    PROVE  IInv'
<1>0. /\ pc' = [pc EXCEPT ![t] = "idle"] /\ pc[t] = "unlock" /\ m_mtx' = NoOne
      /\ UNCHANGED <<queue, taken, fromFront, open, waiting, copy>>
  BY DEF Unlock, Goto
<1>1. /\ pc' \in [Threads -> PusherLabels \cup ConsumerLabels] /\ pc'[t] = "idle"
      /\ \A s \in Threads : s # t => pc'[s] = pc[s]
  BY <1>0 DEF IInv, TypeOK
<1>2. TypeOK'
  BY <1>0, <1>1 DEF IInv, TypeOK, Threads
<1>3. Locked'
  BY <1>0, <1>1 DEF IInv, Locked, Inside, Threads
<1>4. CopyFresh' /\ HasItem' /\ Polled' /\ Sleeping'
  BY <1>0, <1>1 DEF IInv, CopyFresh, HasItem, Polled, Sleeping, Threads
<1>5. NoLostWakeup'
  BY <1>0, <1>1 DEF IInv, NoLostWakeup, Threads
<1> QED BY <1>2, <1>3, <1>4, <1>5 DEF IInv

LEMMA LoadStep ==
    ASSUME IInv, NEW t \in Threads, NEW from, Load(t, from),
           \/ t \in Pushers /\ from = "push"
           \/ t = Consumer /\ from = "pop"
    PROVE  IInv'
<1>0. /\ pc' = [pc EXCEPT ![t] = "store"] /\ pc[t] = from
      /\ copy' = [copy EXCEPT ![t] = queue]
      /\ UNCHANGED <<queue, taken, fromFront, open, m_mtx, waiting>>
  BY DEF Load, Goto
<1>1. /\ pc' \in [Threads -> PusherLabels \cup ConsumerLabels] /\ pc'[t] = "store"
      /\ \A s \in Threads : s # t => pc'[s] = pc[s]
      /\ copy' \in [Threads -> Seq(Nat)] /\ copy'[t] = queue
      /\ \A s \in Threads : s # t => copy'[s] = copy[s]
  BY <1>0 DEF IInv, TypeOK
<1>2. TypeOK'
  BY <1>0, <1>1 DEF IInv, TypeOK, Threads
<1>3. Locked'
  BY <1>0, <1>1 DEF IInv, Locked, Inside, Threads
<1>4. CopyFresh' /\ HasItem' /\ Polled' /\ Sleeping'
  BY <1>0, <1>1 DEF IInv, CopyFresh, HasItem, Polled, Sleeping, Threads
<1>5. NoLostWakeup'
  BY <1>0, <1>1 DEF IInv, NoLostWakeup, Threads
<1> QED BY <1>2, <1>3, <1>4, <1>5 DEF IInv

-----------------------------------------------------------------------------
\* No other thread is inside while one is.
LEMMA Exclusion ==
    ASSUME IInv, NEW s \in Threads, NEW t \in Threads,
           pc[s] \in Inside, pc[t] \in Inside
    PROVE  s = t
BY DEF IInv, Locked

LEMMA PushStoreStep ==
    ASSUME IInv, NEW p \in Pushers, PushStore(p)
    PROVE  IInv' /\ Abstract!Push
<1>0. /\ pc' = [pc EXCEPT ![p] = "notify"] /\ pc[p] = "store"
      /\ queue' = Append(copy[p], Len(copy[p]) + Len(taken) + 1)
      /\ UNCHANGED <<taken, fromFront, open, m_mtx, waiting, copy>>
      /\ p \in Threads /\ p # Consumer
  BY DEF PushStore, Goto, Threads
<1>1. /\ pc' \in [Threads -> PusherLabels \cup ConsumerLabels] /\ pc'[p] = "notify"
      /\ \A s \in Threads : s # p => pc'[s] = pc[s]
  BY <1>0 DEF IInv, TypeOK
<1>2. copy[p] = queue
  BY <1>0 DEF IInv, CopyFresh
<1>3. queue' = Append(queue, Len(queue) + Len(taken) + 1)
  BY <1>0, <1>2
<1>4. Len(queue) + Len(taken) + 1 \in Nat
  BY DEF IInv, TypeOK
<1>5. queue' \in Seq(Nat) /\ queue' # <<>>
  <2>1. queue \in Seq(Nat)
    BY DEF IInv, TypeOK
  <2> QED BY <1>3, <1>4, <2>1, AppendProperties
<1>6. TypeOK'
  BY <1>0, <1>1, <1>5 DEF IInv, TypeOK, Threads
<1>7. Locked'
  BY <1>0, <1>1 DEF IInv, Locked, Inside, Threads
<1>8. CopyFresh'
  <2>1. \A s \in Threads : pc[s] = "store" => s = p
    BY <1>0, Exclusion DEF Inside
  <2> QED BY <1>0, <1>1, <2>1 DEF CopyFresh
<1>9. HasItem' /\ Polled' /\ Sleeping'
  BY <1>0, <1>1, <1>5 DEF IInv, HasItem, Polled, Sleeping, Threads
<1>10. NoLostWakeup'
  BY <1>0, <1>1 DEF NoLostWakeup
<1>11. Abstract!Push
  BY <1>0, <1>3 DEF Abstract!Push, Abstract!NextItem
<1> QED BY <1>6, <1>7, <1>8, <1>9, <1>10, <1>11 DEF IInv

LEMMA NotifyStep ==
    ASSUME IInv, NEW p \in Pushers, Notify(p)
    PROVE  IInv'
<1>0. /\ pc' = [pc EXCEPT ![p] = "unlock"] /\ pc[p] = "notify" /\ ~waiting'
      /\ UNCHANGED <<queue, taken, fromFront, open, m_mtx, copy>>
      /\ p \in Threads /\ p # Consumer
  BY DEF Notify, Goto, Threads
<1>1. /\ pc' \in [Threads -> PusherLabels \cup ConsumerLabels] /\ pc'[p] = "unlock"
      /\ \A s \in Threads : s # p => pc'[s] = pc[s]
  BY <1>0 DEF IInv, TypeOK
<1>2. waiting' \in BOOLEAN
  BY Zenon DEF Notify
<1>3. TypeOK'
  BY <1>0, <1>1, <1>2 DEF IInv, TypeOK, Threads
<1>4. Locked'
  BY <1>0, <1>1 DEF IInv, Locked, Inside, Threads
<1>5. CopyFresh' /\ HasItem' /\ Polled' /\ Sleeping' /\ NoLostWakeup'
  BY <1>0, <1>1 DEF IInv, CopyFresh, HasItem, Polled, Sleeping, NoLostWakeup, Threads
<1> QED BY <1>3, <1>4, <1>5 DEF IInv

-----------------------------------------------------------------------------
\* Call, Empty and Quit: the consumer outside the mutex.
LEMMA PollStep ==
    ASSUME IInv, NEW to \in {"idle", "empty", "seen", "quit"},
           pc[Consumer] \in {"idle", "empty"}, Goto(Consumer, to),
           (fromFront /\ to = "seen") => queue # <<>>,
           UNCHANGED <<queue, taken, fromFront, open, m_mtx, waiting, copy>>
    PROVE  IInv'
<1>0. Consumer \in Threads
  BY DEF Threads
<1>1. pc' = [pc EXCEPT ![Consumer] = to]
  BY DEF Goto
<1>2. /\ to \in ConsumerLabels
      /\ to \notin Inside /\ pc[Consumer] \notin Inside /\ to # "store" /\ to # "wait"
  BY DEF Inside
<1>3. /\ pc' \in [Threads -> PusherLabels \cup ConsumerLabels] /\ pc'[Consumer] = to
      /\ \A s \in Threads : s # Consumer => pc'[s] = pc[s]
  BY <1>0, <1>1, <1>2 DEF IInv, TypeOK
<1>4. TypeOK'
  BY <1>0, <1>2, <1>3 DEF IInv, TypeOK, Threads
<1>5. Locked'
  BY <1>0, <1>2, <1>3 DEF IInv, Locked, Inside, Threads
<1>6. CopyFresh' /\ HasItem' /\ Polled' /\ Sleeping' /\ NoLostWakeup'
  BY <1>0, <1>2, <1>3
     DEF IInv, CopyFresh, HasItem, Polled, Sleeping, NoLostWakeup, Threads
<1> QED BY <1>4, <1>5, <1>6 DEF IInv

LEMMA CloseStep ==
    ASSUME IInv, NEW p \in Pushers, Close(p)
    PROVE  IInv'
<1>1. ~open' /\ UNCHANGED <<queue, taken, fromFront, m_mtx, waiting, pc, copy>>
  BY DEF Close
<1>2. open' \in BOOLEAN
  BY Zenon DEF Close
<1>3. TypeOK'
  BY <1>1, <1>2 DEF IInv, TypeOK
<1> QED BY <1>1, <1>3
    DEF IInv, Locked, CopyFresh, HasItem, Polled, Sleeping, NoLostWakeup

LEMMA TestStep ==
    ASSUME IInv, Test
    PROVE  IInv'
<1>0. /\ UNCHANGED <<queue, taken, fromFront, open, copy>>
      /\ pc[Consumer] = "test" /\ Consumer \in Threads
  BY DEF Test, Threads
<1>1. CASE queue # <<>>
  <2>1. pc' = [pc EXCEPT ![Consumer] = "pop"] /\ UNCHANGED <<m_mtx, waiting>>
    BY <1>1 DEF Test, Goto
  <2>2. /\ pc' \in [Threads -> PusherLabels \cup ConsumerLabels] /\ pc'[Consumer] = "pop"
        /\ \A s \in Threads : s # Consumer => pc'[s] = pc[s]
    BY <1>0, <2>1 DEF IInv, TypeOK
  <2>3. TypeOK'
    BY <1>0, <2>1, <2>2 DEF IInv, TypeOK, Threads
  <2>4. Locked'
    BY <1>0, <2>1, <2>2 DEF IInv, Locked, Inside, Threads
  <2>5. CopyFresh' /\ HasItem' /\ Polled' /\ Sleeping' /\ NoLostWakeup'
    BY <1>0, <1>1, <2>1, <2>2
       DEF IInv, CopyFresh, HasItem, Polled, Sleeping, NoLostWakeup, Threads
  <2> QED BY <2>3, <2>4, <2>5 DEF IInv
<1>2. CASE queue = <<>>
  <2>1. pc' = [pc EXCEPT ![Consumer] = "wait"] /\ m_mtx' = NoOne /\ waiting'
    BY <1>2 DEF Test, Goto
  <2>2. /\ pc' \in [Threads -> PusherLabels \cup ConsumerLabels] /\ pc'[Consumer] = "wait"
        /\ \A s \in Threads : s # Consumer => pc'[s] = pc[s]
    BY <1>0, <2>1 DEF IInv, TypeOK
  <2>3. waiting' \in BOOLEAN
    BY <1>2, Zenon DEF Test
  <2>4. TypeOK'
    BY <1>0, <2>1, <2>2, <2>3 DEF IInv, TypeOK, Threads
  <2>5. Locked'
    BY <1>0, <2>1, <2>2 DEF IInv, Locked, Inside, Threads
  <2>6. CopyFresh' /\ HasItem' /\ Polled' /\ Sleeping' /\ NoLostWakeup'
    BY <1>0, <1>2, <2>1, <2>2
       DEF IInv, CopyFresh, HasItem, Polled, Sleeping, NoLostWakeup, Threads
  <2> QED BY <2>4, <2>5, <2>6 DEF IInv
<1> QED BY <1>1, <1>2

LEMMA SpuriousStep ==
    ASSUME IInv, Spurious
    PROVE  IInv'
<1>1. ~waiting' /\ UNCHANGED <<queue, taken, fromFront, open, m_mtx, pc, copy>>
  BY DEF Spurious
<1>2. waiting' \in BOOLEAN
  BY Zenon DEF Spurious
<1>3. TypeOK'
  BY <1>1, <1>2 DEF IInv, TypeOK
<1> QED BY <1>1, <1>3
    DEF IInv, Locked, CopyFresh, HasItem, Polled, Sleeping, NoLostWakeup

\* Taking an item from either end of a sequence that has one.
LEMMA EndType ==
    ASSUME NEW q \in Seq(Nat), q # <<>>
    PROVE  Abstract!End(q) \in Nat /\ Abstract!Shorter(q) \in Seq(Nat)
<1>1. Len(q) \in Nat /\ Len(q) >= 1
  BY EmptySeq
<1>2. Head(q) \in Nat /\ Tail(q) \in Seq(Nat) /\ q[Len(q)] \in Nat
  BY <1>1, HeadTailProperties
<1>3. SubSeq(q, 1, Len(q) - 1) \in Seq(Nat)
  BY <1>1
<1> QED BY <1>2, <1>3 DEF Abstract!End, Abstract!Shorter

LEMMA PopStoreStep ==
    ASSUME IInv, PopStore
    PROVE  IInv' /\ Abstract!Take
<1>0. /\ pc' = [pc EXCEPT ![Consumer] = "unlock"] /\ pc[Consumer] = "store"
      /\ taken' = Append(taken, Abstract!End(copy[Consumer]))
      /\ queue' = Abstract!Shorter(copy[Consumer])
      /\ UNCHANGED <<fromFront, open, m_mtx, waiting, copy>>
      /\ Consumer \in Threads
  BY DEF PopStore, Goto, Threads
<1>1. /\ pc' \in [Threads -> PusherLabels \cup ConsumerLabels] /\ pc'[Consumer] = "unlock"
      /\ \A s \in Threads : s # Consumer => pc'[s] = pc[s]
  BY <1>0 DEF IInv, TypeOK
<1>2. copy[Consumer] = queue /\ queue # <<>>
  BY <1>0 DEF IInv, CopyFresh, HasItem
<1>3. /\ taken' = Append(taken, Abstract!End(queue))
      /\ queue' = Abstract!Shorter(queue)
  BY <1>0, <1>2
<1>4. queue' \in Seq(Nat) /\ taken' \in Seq(Nat)
  <2>1. queue \in Seq(Nat) /\ taken \in Seq(Nat)
    BY DEF IInv, TypeOK
  <2>2. Abstract!End(queue) \in Nat /\ Abstract!Shorter(queue) \in Seq(Nat)
    BY <1>2, <2>1, EndType
  <2> QED BY <1>3, <2>1, <2>2, AppendProperties
<1>5. TypeOK'
  BY <1>0, <1>1, <1>4 DEF IInv, TypeOK, Threads
<1>6. Locked'
  BY <1>0, <1>1 DEF IInv, Locked, Inside, Threads
<1>7. CopyFresh'
  <2>1. \A s \in Threads : pc[s] = "store" => s = Consumer
    BY <1>0, Exclusion DEF Inside
  <2> QED BY <1>0, <1>1, <2>1 DEF CopyFresh
<1>8. HasItem' /\ Polled' /\ Sleeping' /\ NoLostWakeup'
  BY <1>0, <1>1 DEF IInv, HasItem, Polled, Sleeping, NoLostWakeup, Threads
<1>9. Abstract!Take
  BY <1>0, <1>2, <1>3 DEF Abstract!Take
<1> QED BY <1>5, <1>6, <1>7, <1>8, <1>9 DEF IInv

-----------------------------------------------------------------------------
\* One step: the invariant is kept, and the queue makes an abstract step.
LEMMA Step ==
    ASSUME IInv, [Next]_vars
    PROVE  IInv' /\ [Abstract!QueueNext]_(Abstract!queueVars)
<1> USE DEF Abstract!queueVars, Abstract!QueueNext
<1>1. CASE UNCHANGED vars
  BY <1>1 DEF vars, IInv, TypeOK, Locked, CopyFresh, Sleeping, HasItem, Polled,
              NoLostWakeup
<1>2. ASSUME NEW p \in Pushers, PusherStep(p)
      PROVE  IInv' /\ [Abstract!QueueNext]_(Abstract!queueVars)
  <2> p \in Threads
    BY DEF Threads
  <2>1. CASE PushLock(p)
    BY <2>1, LockStep DEF PushLock, Lock
  <2>2. CASE PushLoad(p)
    BY <2>2, LoadStep DEF PushLoad, Load
  <2>3. CASE PushStore(p)
    BY <2>3, PushStoreStep
  <2>4. CASE Notify(p)
    BY <2>4, NotifyStep DEF Notify
  <2>5. CASE Close(p)
    BY <2>5, CloseStep DEF Close
  <2> QED BY <1>2, <2>1, <2>2, <2>3, <2>4, <2>5 DEF PusherStep
<1>3. CASE ConsumerStep
  <2> Consumer \in Threads
    BY DEF Threads
  <2>1. CASE Call
    BY <2>1, PollStep DEF Call
  <2>7. CASE Empty
    <3>1. AfterEmpty \in {"idle", "seen"} /\ (AfterEmpty = "seen" => queue # <<>>)
      BY DEF AfterEmpty
    <3> QED BY <2>7, <3>1, PollStep DEF Empty
  <2>2. CASE PopLock
    <3>1. ~waiting
      BY <2>2 DEF PopLock, Lock, IInv, Sleeping
    <3> QED BY <2>2, <3>1, LockStep DEF PopLock, Lock
  <2>3. CASE Test
    BY <2>3, TestStep DEF Test
  <2>4. CASE Wake
    BY <2>4, LockStep DEF Wake, Lock
  <2>5. CASE PopLoad
    BY <2>5, LoadStep DEF PopLoad, Load
  <2>6. CASE PopStore
    BY <2>6, PopStoreStep
  <2> QED BY <1>3, <2>1, <2>2, <2>3, <2>4, <2>5, <2>6, <2>7 DEF ConsumerStep
<1>4. CASE Spurious
  BY <1>4, SpuriousStep DEF Spurious
<1>5. ASSUME NEW t \in Threads, Unlock(t)
      PROVE  IInv' /\ [Abstract!QueueNext]_(Abstract!queueVars)
  BY <1>5, UnlockStep DEF Unlock
<1>6. CASE Quit
  BY <1>6, PollStep DEF Quit
<1> QED BY <1>1, <1>2, <1>3, <1>4, <1>5, <1>6 DEF Next

THEOREM Invariance == Spec => []IInv
BY InitIInv, Step, PTL DEF Spec

(***************************************************************************)
(* The consumer sleeps over no message, however many threads push.         *)
(***************************************************************************)
THEOREM WakeupsArrive == Spec => []NoLostWakeup
BY Invariance, PTL DEF IInv

(***************************************************************************)
(* A consumer that asks empty() first is never put to sleep by pop_front.  *)
(***************************************************************************)
THEOREM PollingConsumerRuns == Spec => []PollingNeverWaits
<1>1. IInv => PollingNeverWaits
  BY DEF IInv, Polled, PollingNeverWaits
<1> QED BY <1>1, Invariance, PTL

(***************************************************************************)
(* safe_queue implements AtomicQueue: push_back takes effect when the      *)
(* deque is stored, pop_front and pop_back likewise, and every other step  *)
(* leaves the abstract queue as it is.                                     *)
(***************************************************************************)
THEOREM Refinement == Spec => IsAtomicQueue
<1>1. Init => Abstract!QueueInit
  BY DEF Init
<1> QED BY <1>1, Invariance, Step, PTL DEF Spec, IsAtomicQueue, Abstract!QueueSpec

=============================================================================
