------------------------ MODULE CallbackQueueProofs ------------------------
(***************************************************************************)
(* For any number of service threads, validators and waiters and any queue *)
(* limit, the callbacks run as in a queue with a single thread, a thread   *)
(* that waited for the queue finds every earlier event delivered, and a    *)
(* shutdown loses none.                                                    *)
(*                                                                         *)
(* First the inductive invariant and what a step does to the threads, to   *)
(* cs_main and to the callbacks in hand and in the queue; then the order   *)
(* of the callbacks and the theorems.                                      *)
(***************************************************************************)
EXTENDS CallbackQueue, TLAPS

\* Where each kind of thread can be.
ServicePcs == {"idle", "process", "callback", "ran", "added", "schedule", "ended"}
ValidatorPcs == {"idle", "sync", "ready", "added", "schedule", "locked", "waiting", "ended"}
WaiterPcs == {"idle", "sync", "added", "schedule", "waiting", "ended"}
ShutoffPcs == {"idle", "added", "schedule", "process", "callback", "ran"}
Pcs == ServicePcs \cup ValidatorPcs
Phases == {"up", "requested", "stop", "join", "write", "flush", "done"}
Stopped == {"stop", "join", "write", "flush", "done"}

TypeOK ==
  /\ m_callbacks_pending \in Seq(Callbacks) /\ m_are_callbacks_running \in BOOLEAN
  /\ scheduled \in Nat
  /\ pc \in [Threads -> Pcs] /\ callback \in [Threads -> Callbacks \cup {NoCallback}]
  /\ csMain \in Validators \cup {NoThread}
  /\ chain \in Nat /\ delivered \in Seq(Nat) /\ promised \subseteq Validators \cup Waiters
  /\ mark \in [Threads -> Nat] /\ phase \in Phases
  /\ chain <= MaxEvents + 1 /\ (phase \notin {"flush", "done"} => chain <= MaxEvents)

Roles ==
  /\ \A t \in Services : pc[t] \in ServicePcs
  /\ \A t \in Validators : pc[t] \in ValidatorPcs
  /\ \A t \in Waiters : pc[t] \in WaiterPcs
  /\ pc[Shutoff] \in ShutoffPcs

\* Who has ended at which point of Shutdown.
Joined ==
  /\ phase \in Stopped =>
       (\A t \in Waiters : pc[t] \in {"idle", "ended"}) /\ Ended(Validators \ LoadBlock)
  /\ phase \in Stopped \ {"stop"} => Ended(Services)
  /\ phase \in {"write", "flush", "done"} => Ended(LoadBlock)
  /\ phase # "flush" => pc[Shutoff] = "idle"

\* m_are_callbacks_running is a lock that the thread in a callback holds.
Exclusive ==
  /\ \A t, u \in Running : t = u
  /\ m_are_callbacks_running <=> Running # {}
  /\ \A t \in Threads : t \in Running <=> callback[t] # NoCallback

\* cs_main is held from the change of the chain to Unlock.
Locking == \A t \in Threads : csMain = t => pc[t] \in {"added", "schedule", "locked"}

IsEvent(c) == c[1] = "event"
IsPromise(c) == c[1] = "promise"
Waiting == 1 .. Len(m_callbacks_pending)
InHand == {t \in Threads : pc[t] = "callback"}

\* The events taken off the queue, told to the subscribers or about to be.
Begun == Len(delivered) + (IF \E t \in InHand : IsEvent(callback[t]) THEN 1 ELSE 0)

\* The events delivered, in hand and in the queue are, in this order, those of the chain.
InOrder ==
  /\ Begun <= chain
  /\ \A i \in 1 .. Len(delivered) : delivered[i] = i
  /\ \A t \in InHand : IsEvent(callback[t]) => callback[t][2] = Len(delivered) + 1
  /\ \A i \in Waiting : IsEvent(m_callbacks_pending[i]) =>
       Begun < m_callbacks_pending[i][2] /\ m_callbacks_pending[i][2] <= chain
  /\ \A i, j \in Waiting :
       i < j /\ IsEvent(m_callbacks_pending[i]) /\ IsEvent(m_callbacks_pending[j]) =>
         m_callbacks_pending[i][2] < m_callbacks_pending[j][2]
  /\ \A n \in Begun + 1 .. chain : \E i \in Waiting : m_callbacks_pending[i] = Event(n)

\* A promise is behind the events there were when it was added.
Behind ==
  /\ \A t \in Threads : mark[t] <= chain
  /\ \A i, j \in Waiting :
       i < j /\ IsPromise(m_callbacks_pending[i]) /\ IsEvent(m_callbacks_pending[j]) =>
         mark[m_callbacks_pending[i][2]] < m_callbacks_pending[j][2]
  /\ \A t \in InHand : IsPromise(callback[t]) => mark[callback[t][2]] <= Len(delivered)
  /\ \A t \in promised : mark[t] <= Len(delivered)

\* The threads with a promise that is set, in hand or in the queue.
Owed == {t \in Threads :
  \/ t \in promised
  \/ \E i \in Waiting : m_callbacks_pending[i] = Promise(t)
  \/ \E u \in InHand : callback[u] = Promise(t)}
Awaits(t) == pc[t] \in {"added", "schedule", "waiting"} /\ csMain # t

\* A thread has at most one promise outstanding, and only while it waits for it.
Outstanding ==
  /\ \A t \in Owed : Awaits(t)
  /\ \A i, j \in Waiting :
       IsPromise(m_callbacks_pending[i]) /\ m_callbacks_pending[j] = m_callbacks_pending[i] => i = j
  /\ \A i \in Waiting : IsPromise(m_callbacks_pending[i]) =>
       /\ m_callbacks_pending[i][2] \notin promised
       /\ \A t \in InHand : callback[t] # m_callbacks_pending[i]
  /\ \A t \in InHand : IsPromise(callback[t]) => callback[t][2] \notin promised

Emptied == phase = "done" => m_callbacks_pending = <<>>

IInv ==
  /\ TypeOK /\ Roles /\ Joined /\ Exclusive /\ Locking
  /\ InOrder /\ Behind /\ Outstanding /\ Emptied

---------------------------------------------------------------------------
\* The two forms of a callback of AddToProcessQueue, told apart by their first field.
LEMMA CallbackShape ==
  /\ \A n : Event(n)[1] = "event" /\ Event(n)[2] = n /\ Event(n) # NoCallback
  /\ \A t : Promise(t)[1] = "promise" /\ Promise(t)[2] = t /\ Promise(t) # NoCallback
  /\ \A c \in Callbacks :
       \/ IsEvent(c) /\ ~IsPromise(c) /\ c = Event(c[2]) /\ c[2] \in 1 .. MaxEvents + 1
       \/ IsPromise(c) /\ ~IsEvent(c) /\ c = Promise(c[2]) /\ c[2] \in Validators \cup Waiters
  /\ NoCallback \notin Callbacks
  BY CallbackQueueAssumption DEF Event, Promise, NoCallback, Callbacks, IsEvent, IsPromise

\* An event has a number, which is the one it was made with.
LEMMA EventNumber ==
  /\ \A c \in Callbacks : IsEvent(c) => c[2] \in Nat
  /\ \A c, n : c = Event(n) => IsEvent(c) /\ c[2] = n
  BY CallbackShape DEF IsEvent

\* The order of the marks and the numbers of events, and the places in the queue.
LEMMA OrderFacts ==
  /\ \A m \in Nat : ~(m < m) /\ m <= m
  /\ \A m, n \in Nat : m <= n => m < n + 1
  /\ \A n \in Nat \ {0} : \A i \in 1 .. n - 1 : i + 1 \in 1 .. n /\ i + 1 # 1
  OBVIOUS

\* The length of a sequence such as the queue is a number.
LEMMA LenProperties == \A S : \A s \in Seq(S) : Len(s) \in Nat
  OBVIOUS

\* What is in the queue is a callback.
LEMMA ElementOfSeq == \A S : \A s \in Seq(S) : \A i \in 1 .. Len(s) : s[i] \in S
  OBVIOUS

\* The queue and the list of delivered events start empty.
LEMMA EmptySeq == \A S : <<>> \in Seq(S) /\ Len(<<>>) = 0
  OBVIOUS

\* Adding an event to those delivered.
LEMMA AppendProperties ==
  \A S : \A s \in Seq(S), x \in S :
    /\ Append(s, x) \in Seq(S) /\ Len(Append(s, x)) = Len(s) + 1
    /\ Append(s, x)[Len(s) + 1] = x /\ \A i \in 1 .. Len(s) : Append(s, x)[i] = s[i]
  OBVIOUS

\* The queue with a callback more, as AddToProcessQueue leaves it.
LEMMA PushFacts ==
  ASSUME m_callbacks_pending \in Seq(Callbacks), NEW c \in Callbacks, Push(c)
  PROVE  /\ m_callbacks_pending' \in Seq(Callbacks)
         /\ Len(m_callbacks_pending) \in Nat
         /\ Len(m_callbacks_pending') = Len(m_callbacks_pending) + 1
         /\ m_callbacks_pending'[Len(m_callbacks_pending) + 1] = c
         /\ \A i \in Waiting : m_callbacks_pending'[i] = m_callbacks_pending[i]
  BY DEF Push, Waiting

\* The queue without its head, as ProcessQueue leaves it.
LEMMA TailFacts ==
  ASSUME m_callbacks_pending \in Seq(Callbacks), m_callbacks_pending # <<>>,
         m_callbacks_pending' = Tail(m_callbacks_pending)
  PROVE  /\ m_callbacks_pending' \in Seq(Callbacks)
         /\ Len(m_callbacks_pending) \in Nat \ {0}
         /\ Len(m_callbacks_pending') = Len(m_callbacks_pending) - 1
         /\ Head(m_callbacks_pending) = m_callbacks_pending[1] /\ m_callbacks_pending[1] \in Callbacks
         /\ \A i \in Waiting' : m_callbacks_pending'[i] = m_callbacks_pending[i + 1]
  BY DEF Waiting

---------------------------------------------------------------------------
\* The types of the state of the queue and its threads.
LEMMA TypeStep ==
  ASSUME TypeOK, Roles, Exclusive, Next
  PROVE  TypeOK'
<1> USE CallbackQueueAssumption DEF TypeOK, Threads, client, history, Goto, Pcs, ServicePcs, ValidatorPcs
<1>1. ASSUME NEW t \in Threads,
             \/ MaybeScheduleProcessQueue(t) \/ Schedule(t) \/ LimitValidationInterfaceQueue(t)
             \/ CallSync(t) \/ SyncReturn(t) \/ Unlock(t) \/ End(t) \/ TakeTask(t) \/ ServiceEnds(t)
             \/ CallbacksDone(t)
      PROVE  TypeOK'
  <2>1. CASE MaybeScheduleProcessQueue(t) \/ Schedule(t)
    <3>1. Return(t) \in Pcs
      BY DEF Return
    <3>2. CASE MaybeScheduleProcessQueue(t)
      BY <3>1, <3>2 DEF MaybeScheduleProcessQueue
    <3>3. CASE Schedule(t)
      BY <3>1, <3>3 DEF Schedule
    <3>4. QED
      BY <2>1, <3>2, <3>3, Zenon
  <2>2. CASE LimitValidationInterfaceQueue(t) \/ CallSync(t)
    <3>1. CASE LimitValidationInterfaceQueue(t)
      BY <3>1 DEF LimitValidationInterfaceQueue
    <3>2. CASE CallSync(t)
      BY <3>2 DEF CallSync
    <3>3. QED
      BY <2>2, <3>1, <3>2, Zenon
  <2>3. CASE Unlock(t) \/ End(t)
    BY <2>3 DEF Unlock, End
  <2>4. CASE TakeTask(t)
    BY <2>4 DEF TakeTask
  <2>5. CASE ServiceEnds(t)
    BY <2>5 DEF ServiceEnds
  <2>6. CASE CallbacksDone(t)
    BY <2>6, Zenon DEF CallbacksDone
  <2>7. CASE SyncReturn(t)
    BY <2>7 DEF SyncReturn
  <2>8. QED
    BY <1>1, <2>1, <2>2, <2>3, <2>4, <2>5, <2>6, <2>7, Zenon
<1>2. ASSUME NEW t \in Threads, SyncWithValidationInterfaceQueue(t) PROVE TypeOK'
  <2>1. t \in Validators \cup Waiters
    BY <1>2, Zenon DEF SyncWithValidationInterfaceQueue, Roles, ShutoffPcs
  <2>2. Promise(t) \in Callbacks
    BY <2>1 DEF Callbacks
  <2>3. m_callbacks_pending' \in Seq(Callbacks)
    BY <1>2, <2>2, PushFacts DEF SyncWithValidationInterfaceQueue
  <2>4. QED
    BY <1>2, <2>3 DEF SyncWithValidationInterfaceQueue
<1>3. ASSUME NEW t \in Threads, Connect(t) \/ ConnectMore(t) PROVE TypeOK'
  <2>1. AddEvent(t) /\ csMain' \in Validators \cup {NoThread}
    BY <1>3, Zenon DEF Connect, ConnectMore, Roles, WaiterPcs, ShutoffPcs
  <2>2. Event(chain + 1) \in Callbacks
    <3>1. chain + 1 \in 1 .. MaxEvents + 1
      BY <2>1 DEF AddEvent
    <3>2. QED
      BY <3>1 DEF Callbacks
  <2>3. m_callbacks_pending' \in Seq(Callbacks)
    BY <2>1, <2>2, PushFacts DEF AddEvent
  <2>4. QED
    BY <2>1, <2>3 DEF AddEvent
<1>4. ASSUME NEW t \in Threads, ProcessQueue(t) PROVE TypeOK'
  <2>1. CASE UNCHANGED client
    BY <1>4, <2>1 DEF ProcessQueue
  <2>2. CASE ~UNCHANGED client
    <3>1. m_callbacks_pending # <<>> /\ m_callbacks_pending' = Tail(m_callbacks_pending)
      BY <1>4, <2>2 DEF ProcessQueue
    <3>2. m_callbacks_pending' \in Seq(Callbacks) /\ Head(m_callbacks_pending) \in Callbacks
      BY <3>1, TailFacts
    <3>3. /\ callback' = [callback EXCEPT ![t] = Head(m_callbacks_pending)]
          /\ m_are_callbacks_running' = TRUE /\ pc' = [pc EXCEPT ![t] = "callback"]
      BY <1>4, <2>2 DEF ProcessQueue
    <3>4. callback' \in [Threads -> Callbacks \cup {NoCallback}]
      BY <3>2, <3>3
    <3>5. QED
      BY <1>4, <3>2, <3>3, <3>4 DEF ProcessQueue
  <2>3. QED
    BY <2>1, <2>2, Zenon
<1>5. ASSUME NEW t \in Threads, RunCallback(t) PROVE TypeOK'
  <2>1. callback[t] \in Callbacks
    BY <1>5 DEF RunCallback, Exclusive, Running
  <2>2. CASE callback[t][1] = "event"
    <3>1. callback[t][2] \in Nat
      BY <2>1, <2>2, CallbackShape DEF IsEvent, IsPromise
    <3>2. delivered' \in Seq(Nat) /\ UNCHANGED promised
      <4>1. delivered' = Append(delivered, callback[t][2]) /\ UNCHANGED promised
        BY <1>5, <2>2 DEF RunCallback
      <4>2. QED
        BY <3>1, <4>1, AppendProperties
    <3>3. QED
      BY <1>5, <3>2 DEF RunCallback
  <2>3. CASE callback[t][1] = "promise"
    BY <1>5, <2>1, <2>3, CallbackShape DEF RunCallback, IsEvent, IsPromise
  <2>4. QED
    BY <1>5, <2>2, <2>3 DEF RunCallback
<1>6. CASE RequestShutdown \/ StopScheduler \/ JoinService \/ JoinLoadBlock \/ QueueEmpty
  BY <1>6 DEF RequestShutdown, StopScheduler, JoinService, JoinLoadBlock, QueueEmpty, Enter, Phases
<1>7. CASE ForceFlushStateToDisk
  <2> phase = "write" /\ chain' = chain + 1 /\ chain + 1 \in 1 .. MaxEvents + 1
    BY <1>7 DEF ForceFlushStateToDisk
  <2>1. Event(chain + 1) \in Callbacks
    BY DEF Callbacks
  <2>2. m_callbacks_pending' \in Seq(Callbacks)
    BY <1>7, <2>1, PushFacts DEF ForceFlushStateToDisk
  <2>3. QED
    BY <1>7, <2>2 DEF ForceFlushStateToDisk, Phases
<1>8. CASE EmptyQueue
  BY <1>8, Zenon DEF EmptyQueue
<1>9. QED
  BY <1>1, <1>2, <1>3, <1>4, <1>5, <1>6, <1>7, <1>8, Zenon DEF Next, Body, ShutdownStep

\* Each thread keeps to its part, and the phases of Shutdown outlast the threads they join.
LEMMA RoleStep ==
  ASSUME TypeOK, Roles, Joined, Next
  PROVE  Roles' /\ Joined'
<1> USE CallbackQueueAssumption DEF TypeOK, Roles, Joined, Threads, Goto, ServicePcs, ValidatorPcs, WaiterPcs, ShutoffPcs,
        Ended, Stopped
<1>1. ASSUME NEW t \in Threads,
             MaybeScheduleProcessQueue(t) \/ Schedule(t)
      PROVE  Roles' /\ Joined'
  <2>1. CASE t \in Services \cup {Shutoff}
    <3>1. Return(t) = "idle" /\ pc[t] \in {"added", "schedule"}
      BY <1>1, <2>1 DEF Return, MaybeScheduleProcessQueue, Schedule
    <3>2. \E l \in {"schedule", "idle"} : pc' = [pc EXCEPT ![t] = l]
      BY <1>1, <3>1 DEF MaybeScheduleProcessQueue, Schedule
    <3>3. UNCHANGED phase
      BY <1>1 DEF MaybeScheduleProcessQueue, Schedule
    <3>4. QED
      BY <2>1, <3>1, <3>2, <3>3
  <2>2. CASE t \in Validators
    <3>1. Return(t) \in {"locked", "waiting"} /\ pc[t] \in {"added", "schedule"}
      BY <1>1, <2>2 DEF Return, MaybeScheduleProcessQueue, Schedule
    <3>2. \E l \in {"schedule", "locked", "waiting"} : pc' = [pc EXCEPT ![t] = l]
      BY <1>1, <3>1 DEF MaybeScheduleProcessQueue, Schedule
    <3>3. UNCHANGED phase
      BY <1>1 DEF MaybeScheduleProcessQueue, Schedule
    <3>4. QED
      BY <2>2, <3>1, <3>2, <3>3
  <2>3. CASE t \in Waiters
    <3>1. Return(t) = "waiting" /\ pc[t] \in {"added", "schedule"}
      BY <1>1, <2>3 DEF Return, MaybeScheduleProcessQueue, Schedule
    <3>2. \E l \in {"schedule", "waiting"} : pc' = [pc EXCEPT ![t] = l]
      BY <1>1, <3>1 DEF MaybeScheduleProcessQueue, Schedule
    <3>3. UNCHANGED phase
      BY <1>1 DEF MaybeScheduleProcessQueue, Schedule
    <3>4. QED
      BY <2>3, <3>1, <3>2, <3>3
  <2>4. QED
    BY <2>1, <2>2, <2>3
<1>2. ASSUME NEW t \in Threads,
             \/ LimitValidationInterfaceQueue(t) \/ CallSync(t)
             \/ SyncWithValidationInterfaceQueue(t) \/ SyncReturn(t)
      PROVE  Roles' /\ Joined'
  <2>1. CASE LimitValidationInterfaceQueue(t)
    BY <2>1 DEF LimitValidationInterfaceQueue
  <2>2. CASE CallSync(t)
    BY <2>2 DEF CallSync, ShutdownRequested
  <2>3. CASE SyncWithValidationInterfaceQueue(t)
    BY <2>3 DEF SyncWithValidationInterfaceQueue
  <2>4. CASE SyncReturn(t)
    BY <2>4 DEF SyncReturn
  <2>5. QED
    BY <1>2, <2>1, <2>2, <2>3, <2>4
<1>3. ASSUME NEW t \in Threads, Connect(t) \/ ConnectMore(t) \/ Unlock(t) \/ End(t)
      PROVE  Roles' /\ Joined'
  <2>1. t \in Validators
    BY <1>3 DEF Connect, ConnectMore, Unlock, End
  <2>2. CASE Connect(t) \/ ConnectMore(t)
    <3>1. CASE Connect(t)
      BY <2>1, <3>1 DEF Connect, AddEvent
    <3>2. CASE ConnectMore(t)
      BY <2>1, <3>2 DEF ConnectMore, AddEvent
    <3>3. QED
      BY <2>2, <3>1, <3>2, Zenon
  <2>3. CASE Unlock(t)
    BY <2>1, <2>3 DEF Unlock, history
  <2>4. CASE End(t)
    BY <2>1, <2>4 DEF End
  <2>5. QED
    BY <1>3, <2>2, <2>3, <2>4
<1>4. ASSUME NEW t \in Threads,
             TakeTask(t) \/ ServiceEnds(t) \/ ProcessQueue(t) \/ RunCallback(t) \/ CallbacksDone(t)
      PROVE  Roles' /\ Joined'
  <2>1. CASE TakeTask(t)
    BY <2>1 DEF TakeTask
  <2>3. CASE ServiceEnds(t)
    BY <2>3 DEF ServiceEnds
  <2>2. CASE ProcessQueue(t) \/ RunCallback(t) \/ CallbacksDone(t)
    <3>0. pc[t] \in {"process", "callback", "ran"}
      BY <2>2 DEF ProcessQueue, RunCallback, CallbacksDone
    <3>1. t \in Services \cup {Shutoff}
      BY <3>0, Zenon
    <3>2. CASE ProcessQueue(t)
      <4>1. \E l \in {"idle", "callback"} : pc' = [pc EXCEPT ![t] = l]
        BY <3>2 DEF ProcessQueue
      <4>2. pc[t] = "process" /\ UNCHANGED phase
        BY <3>2 DEF ProcessQueue
      <4>3. QED
        BY <3>1, <4>1, <4>2
    <3>3. CASE RunCallback(t)
      BY <3>1, <3>3 DEF RunCallback
    <3>4. CASE CallbacksDone(t)
      BY <3>1, <3>4 DEF CallbacksDone
    <3>5. QED
      BY <2>2, <3>2, <3>3, <3>4
  <2>4. QED
    BY <1>4, <2>1, <2>2, <2>3
<1>5. CASE RequestShutdown \/ StopScheduler \/ JoinService \/ JoinLoadBlock \/ QueueEmpty
  BY <1>5 DEF RequestShutdown, StopScheduler, JoinService, JoinLoadBlock, QueueEmpty, Enter
<1>6. CASE ForceFlushStateToDisk
  BY <1>6 DEF ForceFlushStateToDisk
<1>7. CASE EmptyQueue
  BY <1>7 DEF EmptyQueue
<1>8. QED
  BY <1>1, <1>2, <1>3, <1>4, <1>5, <1>6, <1>7 DEF Next, Body, ShutdownStep

\* m_are_callbacks_running admits one thread to a callback at a time.
LEMMA ExclusiveStep ==
  ASSUME TypeOK, Joined, Exclusive, Next
  PROVE  Exclusive'
<1> USE DEF TypeOK, Exclusive, Running, Goto, client
<1>1. ASSUME NEW t \in Threads,
             \/ MaybeScheduleProcessQueue(t) \/ Schedule(t) \/ LimitValidationInterfaceQueue(t)
             \/ CallSync(t) \/ SyncWithValidationInterfaceQueue(t) \/ SyncReturn(t) \/ Connect(t)
             \/ ConnectMore(t) \/ Unlock(t) \/ End(t) \/ TakeTask(t) \/ ServiceEnds(t)
      PROVE  Exclusive'
  <2>1. \/ UNCHANGED pc
        \/ /\ pc[t] \notin {"callback", "ran"}
           /\ \E l \in Pcs \ {"callback", "ran"} : pc' = [pc EXCEPT ![t] = l]
    BY <1>1 DEF MaybeScheduleProcessQueue, Schedule, LimitValidationInterfaceQueue, CallSync, SyncReturn,
              SyncWithValidationInterfaceQueue, Connect, ConnectMore, AddEvent, Unlock, End, TakeTask,
              ServiceEnds, Return, Pcs, ServicePcs, ValidatorPcs
  <2>2. UNCHANGED <<m_are_callbacks_running, callback>>
    BY <1>1 DEF MaybeScheduleProcessQueue, Schedule, LimitValidationInterfaceQueue, CallSync, SyncReturn,
              SyncWithValidationInterfaceQueue, Connect, ConnectMore, AddEvent, Unlock, End, TakeTask,
              ServiceEnds
  <2>3. Running' = Running
    BY <2>1
  <2>4. QED
    BY <2>2, <2>3
<1>2. ASSUME NEW t \in Threads, ProcessQueue(t) PROVE Exclusive'
  <2>1. CASE UNCHANGED client
    BY <1>2, <2>1 DEF ProcessQueue
  <2>2. CASE ~UNCHANGED client
    <3>1. /\ ~m_are_callbacks_running /\ m_are_callbacks_running'
          /\ m_callbacks_pending # <<>> /\ m_callbacks_pending' = Tail(m_callbacks_pending)
          /\ callback' = [callback EXCEPT ![t] = Head(m_callbacks_pending)]
          /\ pc' = [pc EXCEPT ![t] = "callback"]
      BY <1>2, <2>2 DEF ProcessQueue
    <3>2. callback'[t] # NoCallback
      BY <3>1, TailFacts, CallbackShape
    <3>3. QED
      BY <3>1, <3>2
  <2>3. QED
    BY <2>1, <2>2
<1>3. ASSUME NEW t \in Threads, RunCallback(t) PROVE Exclusive'
  BY <1>3 DEF RunCallback
<1>4. ASSUME NEW t \in Threads, CallbacksDone(t) PROVE Exclusive'
  <2>1. Running' = {}
    BY <1>4 DEF CallbacksDone
  <2>2. QED
    BY <1>4, <2>1 DEF CallbacksDone
<1>5. CASE RequestShutdown \/ StopScheduler \/ JoinService \/ JoinLoadBlock \/ QueueEmpty
  BY <1>5 DEF RequestShutdown, StopScheduler, JoinService, JoinLoadBlock, QueueEmpty, Enter
<1>6. CASE ForceFlushStateToDisk \/ EmptyQueue
  <2>1. pc[Shutoff] = "idle" /\ Shutoff \in Threads
    BY <1>6 DEF ForceFlushStateToDisk, EmptyQueue, Joined, Threads
  <2>2. Running' = Running
    BY <1>6, <2>1 DEF ForceFlushStateToDisk, EmptyQueue
  <2>3. QED
    BY <1>6, <2>2 DEF ForceFlushStateToDisk, EmptyQueue
<1>7. QED
  BY <1>1, <1>2, <1>3, <1>4, <1>5, <1>6, Zenon DEF Next, Body, ShutdownStep


\* Whoever waits for its promise goes on waiting until SyncReturn.
LEMMA AwaitsStep ==
  ASSUME TypeOK, Roles, Next, NEW u \in Validators \cup Waiters, Awaits(u), ~SyncReturn(u)
  PROVE  Awaits(u)'
<1> USE CallbackQueueAssumption DEF TypeOK, Threads, Awaits, Goto
<1>1. ASSUME NEW t \in Threads, MaybeScheduleProcessQueue(t) \/ Schedule(t) PROVE Awaits(u)'
  <2>1. u = t => Return(t) = "waiting"
    BY DEF Return
  <2>2. QED
    BY <1>1, <2>1 DEF MaybeScheduleProcessQueue, Schedule
<1>2. ASSUME NEW t \in Threads,
             \/ LimitValidationInterfaceQueue(t) \/ CallSync(t)
             \/ SyncWithValidationInterfaceQueue(t) \/ SyncReturn(t)
      PROVE  Awaits(u)'
  BY <1>2 DEF LimitValidationInterfaceQueue, CallSync, SyncWithValidationInterfaceQueue, SyncReturn
<1>3. ASSUME NEW t \in Threads, Connect(t) \/ ConnectMore(t) \/ Unlock(t) \/ End(t)
      PROVE  Awaits(u)'
  BY <1>3 DEF Connect, ConnectMore, AddEvent, Unlock, End
<1>4. ASSUME NEW t \in Threads,
             TakeTask(t) \/ ServiceEnds(t) \/ ProcessQueue(t) \/ RunCallback(t) \/ CallbacksDone(t)
      PROVE  Awaits(u)'
  <2>1. UNCHANGED csMain /\ pc[t] \notin {"added", "schedule", "waiting"}
    BY <1>4 DEF TakeTask, ServiceEnds, ProcessQueue, RunCallback, CallbacksDone
  <2>2. \E l : pc' = [pc EXCEPT ![t] = l]
    BY <1>4 DEF TakeTask, ServiceEnds, ProcessQueue, RunCallback, CallbacksDone
  <2>3. QED
    BY <2>1, <2>2
<1>5. CASE RequestShutdown \/ StopScheduler \/ JoinService \/ JoinLoadBlock \/ QueueEmpty
  BY <1>5 DEF RequestShutdown, StopScheduler, JoinService, JoinLoadBlock, QueueEmpty, Enter
<1>6. CASE ForceFlushStateToDisk \/ EmptyQueue
  BY <1>6 DEF ForceFlushStateToDisk, EmptyQueue
<1>7. QED
  BY <1>1, <1>2, <1>3, <1>4, <1>5, <1>6, Zenon DEF Next, Body, ShutdownStep

\* cs_main is held by a thread between Connect and Unlock.
LEMMA LockingStep ==
  ASSUME TypeOK, Roles, Locking, Next
  PROVE  Locking'
<1> USE CallbackQueueAssumption DEF TypeOK, Threads, Locking, Goto
<1>1. ASSUME NEW t \in Threads, MaybeScheduleProcessQueue(t) \/ Schedule(t) PROVE Locking'
  <2>1. csMain = t => Return(t) = "locked"
    BY DEF Return
  <2>2. QED
    BY <1>1, <2>1 DEF MaybeScheduleProcessQueue, Schedule
<1>2. ASSUME NEW t \in Threads,
             \/ LimitValidationInterfaceQueue(t) \/ CallSync(t)
             \/ SyncWithValidationInterfaceQueue(t) \/ SyncReturn(t)
      PROVE  Locking'
  BY <1>2 DEF LimitValidationInterfaceQueue, CallSync, SyncWithValidationInterfaceQueue, SyncReturn
<1>3. ASSUME NEW t \in Threads, Connect(t) \/ ConnectMore(t) \/ Unlock(t) \/ End(t)
      PROVE  Locking'
  BY <1>3 DEF Connect, ConnectMore, AddEvent, Unlock, End
<1>4. ASSUME NEW t \in Threads,
             TakeTask(t) \/ ServiceEnds(t) \/ ProcessQueue(t) \/ RunCallback(t) \/ CallbacksDone(t)
      PROVE  Locking'
  <2>1. UNCHANGED csMain /\ pc[t] \notin {"added", "schedule", "locked"}
    BY <1>4 DEF TakeTask, ServiceEnds, ProcessQueue, RunCallback, CallbacksDone
  <2>2. \E l : pc' = [pc EXCEPT ![t] = l]
    BY <1>4 DEF TakeTask, ServiceEnds, ProcessQueue, RunCallback, CallbacksDone
  <2>3. QED
    BY <2>1, <2>2
<1>5. CASE RequestShutdown \/ StopScheduler \/ JoinService \/ JoinLoadBlock \/ QueueEmpty
  BY <1>5 DEF RequestShutdown, StopScheduler, JoinService, JoinLoadBlock, QueueEmpty, Enter
<1>6. CASE ForceFlushStateToDisk \/ EmptyQueue
  BY <1>6 DEF ForceFlushStateToDisk, EmptyQueue
<1>7. QED
  BY <1>1, <1>2, <1>3, <1>4, <1>5, <1>6, Zenon DEF Next, Body, ShutdownStep

---------------------------------------------------------------------------
(* What a step does to the callbacks in hand and in the queue. *)
SameHand == InHand' = InHand /\ \A u \in InHand : callback'[u] = callback[u]

Quiet == SameHand /\ UNCHANGED <<m_callbacks_pending, chain, delivered, promised, mark>>

AddsEvent ==
  /\ SameHand /\ Event(chain + 1) \in Callbacks /\ Push(Event(chain + 1)) /\ chain' = chain + 1
  /\ UNCHANGED <<delivered, promised, mark>>

AddsPromise(t) ==
  /\ SameHand /\ Promise(t) \in Callbacks /\ Push(Promise(t)) /\ mark' = [mark EXCEPT ![t] = chain]
  /\ t \notin Owed /\ Awaits(t)'
  /\ UNCHANGED <<chain, delivered, promised>>

Takes(t) ==
  /\ InHand = {} /\ InHand' = {t}
  /\ m_callbacks_pending # <<>> /\ m_callbacks_pending' = Tail(m_callbacks_pending)
  /\ callback'[t] = Head(m_callbacks_pending)
  /\ UNCHANGED <<chain, delivered, promised, mark>>

Runs(t) ==
  /\ InHand = {t} /\ InHand' = {} /\ callback[t] \in Callbacks
  /\ IF IsEvent(callback[t])
     THEN delivered' = Append(delivered, callback[t][2]) /\ UNCHANGED promised
     ELSE promised' = promised \cup {callback[t][2]} /\ UNCHANGED delivered
  /\ UNCHANGED <<m_callbacks_pending, chain, mark>>

Returns(t) ==
  /\ SameHand /\ t \in promised /\ promised' = promised \ {t} /\ SyncReturn(t)
  /\ UNCHANGED <<m_callbacks_pending, chain, delivered, mark>>

\* Each action is of one of these kinds.
LEMMA Kinds ==
  ASSUME IInv, Next
  PROVE  Quiet \/ AddsEvent \/ \E t \in Threads : AddsPromise(t) \/ Takes(t) \/ Runs(t) \/ Returns(t)
<1> USE CallbackQueueAssumption DEF IInv, TypeOK, Threads, client, history, Goto, InHand
<1>1. ASSUME NEW t \in Threads,
             \/ MaybeScheduleProcessQueue(t) \/ Schedule(t) \/ LimitValidationInterfaceQueue(t)
             \/ CallSync(t) \/ Unlock(t) \/ End(t) \/ TakeTask(t) \/ ServiceEnds(t)
      PROVE  Quiet
  <2>1. UNCHANGED <<client, history>> /\ pc[t] # "callback"
    BY <1>1 DEF MaybeScheduleProcessQueue, Schedule, LimitValidationInterfaceQueue, CallSync,
                Unlock, End, TakeTask, ServiceEnds
  <2>2. \E l : l # "callback" /\ pc' = [pc EXCEPT ![t] = l]
    BY <1>1 DEF MaybeScheduleProcessQueue, Schedule, LimitValidationInterfaceQueue, CallSync,
                Unlock, End, TakeTask, ServiceEnds, Return
  <2>3. QED
    BY <2>1, <2>2 DEF Quiet, SameHand
<1>2. ASSUME NEW t \in Threads, SyncWithValidationInterfaceQueue(t) PROVE AddsPromise(t)
  <2>1. t \in Validators \cup Waiters /\ pc[t] = "sync" /\ csMain # t
    BY <1>2, Zenon DEF SyncWithValidationInterfaceQueue, Roles, ServicePcs, ShutoffPcs, Locking
  <2>2. Promise(t) \in Callbacks
    BY <2>1 DEF Callbacks
  <2>3. t \notin Owed
    BY <2>1, Zenon DEF Outstanding, Awaits
  <2>4. SameHand /\ Awaits(t)'
    BY <1>2, <2>1 DEF SyncWithValidationInterfaceQueue, SameHand, Awaits
  <2>5. QED
    BY <1>2, <2>2, <2>3, <2>4 DEF SyncWithValidationInterfaceQueue, AddsPromise
<1>3. ASSUME NEW t \in Threads, SyncReturn(t) PROVE Returns(t)
  BY <1>3 DEF SyncReturn, Returns, SameHand
<1>4. ASSUME NEW t \in Threads, Connect(t) \/ ConnectMore(t) PROVE AddsEvent
  <2>1. AddEvent(t) /\ pc[t] # "callback"
    BY <1>4 DEF Connect, ConnectMore
  <2>2. chain + 1 \in 1 .. MaxEvents + 1
    BY <2>1 DEF AddEvent
  <2>3. Event(chain + 1) \in Callbacks
    BY <2>2 DEF Callbacks
  <2>4. SameHand
    BY <2>1 DEF AddEvent, SameHand
  <2>5. QED
    BY <2>1, <2>3, <2>4 DEF AddEvent, AddsEvent
<1>5. ASSUME NEW t \in Threads, ProcessQueue(t) PROVE Quiet \/ Takes(t)
  <2>1. CASE m_are_callbacks_running \/ m_callbacks_pending = <<>>
    BY <1>5, <2>1 DEF ProcessQueue, Quiet, SameHand
  <2>2. CASE ~(m_are_callbacks_running \/ m_callbacks_pending = <<>>)
    <3>1. Running = {}
      BY <2>2 DEF Exclusive
    <3>2. InHand = {} /\ InHand' = {t}
      BY <1>5, <2>2, <3>1 DEF Running, ProcessQueue
    <3>3. QED
      BY <1>5, <2>2, <3>2 DEF ProcessQueue, Takes
  <2>3. QED
    BY <2>1, <2>2
<1>6. ASSUME NEW t \in Threads, RunCallback(t) PROVE Runs(t)
  <2>1. t \in Running /\ callback[t] \in Callbacks
    BY <1>6 DEF RunCallback, Exclusive, Running
  <2>2. InHand = {t} /\ InHand' = {}
    BY <1>6, <2>1 DEF RunCallback, Exclusive, Running
  <2>3. QED
    BY <1>6, <2>1, <2>2, CallbackShape DEF RunCallback, Runs, IsEvent, IsPromise
<1>7. ASSUME NEW t \in Threads, CallbacksDone(t) PROVE Quiet
  BY <1>7 DEF CallbacksDone, Quiet, SameHand
<1>8. CASE RequestShutdown \/ StopScheduler \/ JoinService \/ JoinLoadBlock \/ QueueEmpty
  BY <1>8 DEF RequestShutdown, StopScheduler, JoinService, JoinLoadBlock, QueueEmpty, Enter, Quiet, SameHand
<1>9. CASE EmptyQueue
  BY <1>9 DEF EmptyQueue, Quiet, SameHand
<1>10. CASE ForceFlushStateToDisk
  <2>1. chain + 1 \in 1 .. MaxEvents + 1 /\ pc[Shutoff] = "idle"
    BY <1>10 DEF ForceFlushStateToDisk, Joined
  <2>2. Event(chain + 1) \in Callbacks
    BY <2>1 DEF Callbacks
  <2>3. SameHand
    BY <1>10, <2>1 DEF ForceFlushStateToDisk, SameHand
  <2>4. QED
    BY <1>10, <2>2, <2>3 DEF ForceFlushStateToDisk, AddsEvent
<1>11. QED
  BY <1>1, <1>2, <1>3, <1>4, <1>5, <1>6, <1>7, <1>8, <1>9, <1>10 DEF Next, Body, ShutdownStep

\* When Shutdown is done no thread is in a call.
LEMMA QuietAtEnd ==
  ASSUME TypeOK, Roles, Joined, phase = "done", NEW t \in Threads
  PROVE  pc[t] \in {"idle", "ended"}
  BY CallbackQueueAssumption DEF TypeOK, Roles, Joined, Threads, Ended, Stopped

\* Nothing is added to the queue once it was found empty in Shutdown.
LEMMA EmptiedStep ==
  ASSUME TypeOK, Roles, Joined, Emptied, Next
  PROVE  Emptied'
<1> SUFFICES ASSUME phase' = "done" PROVE m_callbacks_pending' = <<>>
  BY DEF Emptied
<1>1. CASE phase = "done"
  <2>1. m_callbacks_pending = <<>> /\ Shutoff \in Threads /\ \A t \in Threads : pc[t] \in {"idle", "ended"}
    BY <1>1, QuietAtEnd, Zenon DEF Emptied, Threads
  <2>2. ASSUME NEW t \in Threads, Body(t) PROVE UNCHANGED m_callbacks_pending
    BY <2>1, <2>2 DEF Body, client, MaybeScheduleProcessQueue, Schedule, SyncWithValidationInterfaceQueue,
                SyncReturn, Connect, ConnectMore, Unlock, End, TakeTask, ServiceEnds, ProcessQueue,
                RunCallback, CallbacksDone
  <2>3. ASSUME NEW t \in Threads, LimitValidationInterfaceQueue(t) \/ CallSync(t)
        PROVE  UNCHANGED m_callbacks_pending
    BY <2>3 DEF LimitValidationInterfaceQueue, CallSync, client
  <2>4. CASE RequestShutdown \/ ShutdownStep
    BY <1>1, <2>4 DEF RequestShutdown, ShutdownStep, StopScheduler, JoinService, JoinLoadBlock,
                ForceFlushStateToDisk, EmptyQueue, QueueEmpty, Enter
  <2>5. QED
    BY <2>1, <2>2, <2>3, <2>4 DEF Next
<1>2. CASE phase # "done"
  <2>1. ASSUME NEW t \in Threads, Body(t) \/ LimitValidationInterfaceQueue(t) \/ CallSync(t)
        PROVE  UNCHANGED phase
    BY <2>1, Zenon DEF Body, MaybeScheduleProcessQueue, Schedule, SyncWithValidationInterfaceQueue, SyncReturn,
                Connect, ConnectMore, AddEvent, Unlock, End, TakeTask, ServiceEnds, ProcessQueue,
                RunCallback, CallbacksDone, LimitValidationInterfaceQueue, CallSync
  <2>2. QueueEmpty
    BY <1>2, <2>1 DEF Next, ShutdownStep, RequestShutdown, StopScheduler, JoinService,
                JoinLoadBlock, ForceFlushStateToDisk, EmptyQueue, Enter
  <2>3. m_callbacks_pending = <<>> /\ UNCHANGED m_callbacks_pending
    BY <2>2 DEF QueueEmpty, Enter, client
  <2>4. QED
    BY <2>3, Zenon
<1>3. QED
  BY <1>1, <1>2

Starts(t) ==
  /\ Running = {} /\ Running' = {t}
  /\ m_callbacks_pending # <<>> /\ m_callbacks_pending' = Tail(m_callbacks_pending)
  /\ callback'[t] = Head(m_callbacks_pending)

Finishes(t) == Running = {t} /\ Running' = {} /\ UNCHANGED m_callbacks_pending

\* A step adds a callback, starts one, ends one, or does none of these.
LEMMA SerialKinds ==
  ASSUME IInv, Next
  PROVE  \/ /\ Running' = Running /\ UNCHANGED callback
            /\ UNCHANGED m_callbacks_pending \/ \E c \in Callbacks : Push(c)
         \/ \E t \in Threads : Starts(t) \/ Finishes(t)
<1> DEFINE Idle == Running' = Running /\ UNCHANGED callback
<1> USE DEF IInv, TypeOK, client, Goto, Running
<1>1. ASSUME NEW t \in Threads,
             \/ MaybeScheduleProcessQueue(t) \/ Schedule(t) \/ LimitValidationInterfaceQueue(t)
             \/ CallSync(t) \/ SyncReturn(t) \/ Unlock(t) \/ End(t) \/ TakeTask(t) \/ ServiceEnds(t)
      PROVE  Idle /\ UNCHANGED m_callbacks_pending
  <2>1. UNCHANGED client /\ pc[t] \notin {"callback", "ran"}
    BY <1>1 DEF MaybeScheduleProcessQueue, Schedule, LimitValidationInterfaceQueue, CallSync,
                SyncReturn, Unlock, End, TakeTask, ServiceEnds
  <2>2. \E l : l \notin {"callback", "ran"} /\ pc' = [pc EXCEPT ![t] = l]
    BY <1>1 DEF MaybeScheduleProcessQueue, Schedule, LimitValidationInterfaceQueue, CallSync,
                SyncReturn, Unlock, End, TakeTask, ServiceEnds, Return
  <2>3. QED
    BY <2>1, <2>2
<1>2. ASSUME NEW t \in Threads, SyncWithValidationInterfaceQueue(t)
      PROVE  Idle /\ \E c \in Callbacks : Push(c)
  <2>1. t \in Validators \cup Waiters
    BY <1>2, CallbackQueueAssumption, Zenon
    DEF SyncWithValidationInterfaceQueue, Roles, ServicePcs, ShutoffPcs, Threads
  <2>2. Promise(t) \in Callbacks
    BY <2>1 DEF Callbacks
  <2>3. QED
    BY <1>2, <2>2 DEF SyncWithValidationInterfaceQueue
<1>3. ASSUME NEW t \in Threads, Connect(t) \/ ConnectMore(t)
      PROVE  Idle /\ \E c \in Callbacks : Push(c)
  <2>1. AddEvent(t) /\ pc[t] \notin {"callback", "ran"}
    BY <1>3 DEF Connect, ConnectMore
  <2>2. chain + 1 \in 1 .. MaxEvents + 1
    BY <2>1, CallbackQueueAssumption DEF AddEvent
  <2>3. Event(chain + 1) \in Callbacks
    BY <2>2 DEF Callbacks
  <2>4. QED
    BY <2>1, <2>3 DEF AddEvent
<1>4. ASSUME NEW t \in Threads, ProcessQueue(t)
      PROVE  Starts(t) \/ (Idle /\ UNCHANGED m_callbacks_pending)
  <2>1. CASE m_are_callbacks_running \/ m_callbacks_pending = <<>>
    BY <1>4, <2>1 DEF ProcessQueue
  <2>2. CASE ~(m_are_callbacks_running \/ m_callbacks_pending = <<>>)
    <3>1. Running = {}
      BY <2>2 DEF Exclusive
    <3>2. Running' = {t}
      BY <1>4, <2>2, <3>1 DEF ProcessQueue
    <3>3. QED
      BY <1>4, <2>2, <3>1, <3>2 DEF ProcessQueue, Starts
  <2>3. QED
    BY <2>1, <2>2
<1>5. ASSUME NEW t \in Threads, RunCallback(t) PROVE Idle /\ UNCHANGED m_callbacks_pending
  BY <1>5 DEF RunCallback
<1>6. ASSUME NEW t \in Threads, CallbacksDone(t) PROVE Finishes(t)
  <2>1. Running = {t}
    BY <1>6 DEF CallbacksDone, Exclusive
  <2>2. QED
    BY <1>6, <2>1 DEF CallbacksDone, Finishes
<1>7. CASE RequestShutdown \/ StopScheduler \/ JoinService \/ JoinLoadBlock \/ QueueEmpty
  BY <1>7 DEF RequestShutdown, StopScheduler, JoinService, JoinLoadBlock, QueueEmpty, Enter
<1>8. CASE EmptyQueue
  BY <1>8 DEF EmptyQueue
<1>9. CASE ForceFlushStateToDisk
  <2>1. chain + 1 \in 1 .. MaxEvents + 1 /\ pc[Shutoff] = "idle"
    BY <1>9, CallbackQueueAssumption DEF ForceFlushStateToDisk, Joined
  <2>2. Event(chain + 1) \in Callbacks
    BY <2>1 DEF Callbacks
  <2>3. QED
    BY <1>9, <2>1, <2>2 DEF ForceFlushStateToDisk
<1>10. QED
  BY <1>1, <1>2, <1>3, <1>4, <1>5, <1>6, <1>7, <1>8, <1>9 DEF Next, Body, ShutdownStep

---------------------------------------------------------------------------
\* The order of the events: what is added is newer than all others, and what is taken off
\* the queue is the oldest.
LEMMA OrderStep ==
  ASSUME TypeOK, InOrder,
         Quiet \/ AddsEvent \/ \E t \in Threads : AddsPromise(t) \/ Takes(t) \/ Runs(t) \/ Returns(t)
  PROVE  InOrder'
<1>a. m_callbacks_pending \in Seq(Callbacks) /\ delivered \in Seq(Nat)
  BY DEF TypeOK
<1>b. \A i \in Waiting : m_callbacks_pending[i] \in Callbacks
  BY <1>a, ElementOfSeq DEF Waiting
<1>0. Len(delivered) \in Nat /\ Len(m_callbacks_pending) \in Nat /\ Begun \in Nat /\ chain \in Nat
  BY <1>a, LenProperties DEF Begun, TypeOK
<1>1. ASSUME SameHand, UNCHANGED delivered PROVE Begun' = Begun
  BY <1>1 DEF Begun, SameHand
<1>2. ASSUME NEW t \in Threads, Returns(t) PROVE InOrder'
  BY <1>1, <1>2, Zenon DEF Returns, InOrder, SameHand, Waiting
<1>3. CASE AddsEvent
  <2> DEFINE n == Len(m_callbacks_pending)
             e == Event(chain + 1)
  <2>1. /\ Len(m_callbacks_pending') = n + 1 /\ m_callbacks_pending'[n + 1] = e
        /\ \A i \in 1 .. n : m_callbacks_pending'[i] = m_callbacks_pending[i]
    BY <1>a, <1>3, PushFacts, Zenon DEF AddsEvent, Waiting
  <2>2. IsEvent(e) /\ e[2] = chain + 1
    BY CallbackShape, Zenon DEF IsEvent
  <2>3. Begun' = Begun /\ chain' = chain + 1 /\ UNCHANGED delivered /\ SameHand
    BY <1>1, <1>3 DEF AddsEvent
  <2>4. Waiting = 1 .. n /\ Waiting' = 1 .. n + 1
    BY <2>1 DEF Waiting
  <2> HIDE DEF n, e
  <2>5. \A k \in Begun' + 1 .. chain' : \E i \in Waiting' : m_callbacks_pending'[i] = Event(k)
    <3> SUFFICES ASSUME NEW k \in Begun + 1 .. chain + 1
                 PROVE  \E i \in Waiting' : m_callbacks_pending'[i] = Event(k)
      BY <2>3
    <3>1. CASE k = chain + 1
      BY <1>0, <2>1, <2>4, <3>1 DEF e, n
    <3>2. CASE k # chain + 1
      <4>1. k \in Begun + 1 .. chain
        BY <1>0, <3>2
      <4>2. PICK i \in Waiting : m_callbacks_pending[i] = Event(k)
        BY <4>1 DEF InOrder
      <4>3. i \in Waiting'
        BY <1>0, <2>4 DEF n
      <4>4. QED
        BY <2>1, <2>4, <4>2, <4>3
    <3>3. QED
      BY <3>1, <3>2
  <2>6. \A i, j \in Waiting' :
          i < j /\ IsEvent(m_callbacks_pending'[i]) /\ IsEvent(m_callbacks_pending'[j]) =>
            m_callbacks_pending'[i][2] < m_callbacks_pending'[j][2]
    <3> SUFFICES ASSUME NEW i \in Waiting', NEW j \in Waiting', i < j,
                        IsEvent(m_callbacks_pending'[i]), IsEvent(m_callbacks_pending'[j])
                 PROVE  m_callbacks_pending'[i][2] < m_callbacks_pending'[j][2]
      OBVIOUS
    <3>1. i \in Waiting /\ m_callbacks_pending'[i] = m_callbacks_pending[i]
      BY <1>0, <2>1, <2>4 DEF n
    <3>2. CASE j = n + 1
      <4>1. m_callbacks_pending[i] \in Callbacks
        BY <1>b, <3>1
      <4>2. m_callbacks_pending[i][2] \in Int /\ m_callbacks_pending[i][2] <= chain
        BY <3>1, <4>1, CallbackShape DEF InOrder, IsEvent, IsPromise
      <4>3. m_callbacks_pending'[j][2] = chain + 1 /\ m_callbacks_pending'[i][2] = m_callbacks_pending[i][2]
        BY <2>1, <2>2, <3>1, <3>2, Zenon
      <4>4. \A x \in Int, y \in Nat : x <= y => x < y + 1
        OBVIOUS
      <4>5. QED
        BY <1>0, <4>2, <4>3, <4>4, Zenon
    <3>3. CASE j # n + 1
      <4>1. j \in Waiting /\ m_callbacks_pending'[j] = m_callbacks_pending[j]
        BY <1>0, <2>1, <2>4, <3>3 DEF n
      <4>2. QED
        BY <3>1, <4>1 DEF InOrder
    <3>4. QED
      BY <3>2, <3>3
  <2>7. \A i \in Waiting' : IsEvent(m_callbacks_pending'[i]) =>
          Begun' < m_callbacks_pending'[i][2] /\ m_callbacks_pending'[i][2] <= chain'
    <3> SUFFICES ASSUME NEW i \in Waiting', IsEvent(m_callbacks_pending'[i])
                 PROVE  Begun < m_callbacks_pending'[i][2] /\ m_callbacks_pending'[i][2] <= chain + 1
      BY <2>3
    <3>1. CASE i = n + 1
      BY <1>0, <2>1, <2>2, <3>1 DEF InOrder
    <3>2. CASE i # n + 1
      <4>1. i \in Waiting /\ m_callbacks_pending'[i] = m_callbacks_pending[i]
        BY <1>0, <2>1, <2>4, <3>2 DEF n
      <4>2. m_callbacks_pending[i] \in Callbacks
        BY <1>b, <4>1
      <4>3. m_callbacks_pending[i][2] \in Int
        BY <4>1, <4>2, CallbackShape DEF IsEvent, IsPromise
      <4>4. QED
        BY <1>0, <4>1, <4>3 DEF InOrder
    <3>3. QED
      BY <3>1, <3>2
  <2>8. QED
    BY <1>0, <2>3, <2>5, <2>6, <2>7 DEF InOrder, SameHand
<1>4. ASSUME NEW t \in Threads, AddsPromise(t) PROVE InOrder'
  <2> DEFINE n == Len(m_callbacks_pending)
  <2>1. /\ Len(m_callbacks_pending') = n + 1 /\ m_callbacks_pending'[n + 1] = Promise(t)
        /\ \A i \in 1 .. n : m_callbacks_pending'[i] = m_callbacks_pending[i]
    BY <1>a, <1>4, PushFacts, Zenon DEF AddsPromise, Waiting
  <2>2. ~IsEvent(Promise(t)) /\ \A k : Promise(t) # Event(k)
    BY <1>4, CallbackShape DEF AddsPromise, IsEvent, IsPromise
  <2>3. Begun' = Begun /\ UNCHANGED <<chain, delivered>> /\ SameHand
    BY <1>1, <1>4 DEF AddsPromise
  <2>4. Waiting = 1 .. n /\ Waiting' = 1 .. n + 1
    BY <2>1, Zenon DEF Waiting
  <2> HIDE DEF n
  <2>5. \A i \in Waiting' : IsEvent(m_callbacks_pending'[i]) =>
          i \in Waiting /\ m_callbacks_pending'[i] = m_callbacks_pending[i]
    BY <1>0, <2>1, <2>2, <2>4 DEF n
  <2>6. \A k \in Begun' + 1 .. chain' : \E i \in Waiting' : m_callbacks_pending'[i] = Event(k)
    <3> SUFFICES ASSUME NEW k \in Begun + 1 .. chain
                 PROVE  \E i \in Waiting' : m_callbacks_pending'[i] = Event(k)
      BY <2>3
    <3>1. PICK i \in Waiting : m_callbacks_pending[i] = Event(k)
      BY DEF InOrder
    <3>2. i \in Waiting'
      BY <1>0, <2>4 DEF n
    <3>3. QED
      BY <2>1, <2>4, <3>1, <3>2
  <2>7. QED
    BY <2>3, <2>5, <2>6, Zenon DEF InOrder, SameHand
<1>5. ASSUME NEW t \in Threads, Takes(t) PROVE InOrder'
  <2> DEFINE n == Len(m_callbacks_pending)
             c == m_callbacks_pending[1]
  <2>1. /\ n \in Nat \ {0} /\ Len(m_callbacks_pending') = n - 1
        /\ c \in Callbacks /\ callback'[t] = c
        /\ \A i \in 1 .. n - 1 : m_callbacks_pending'[i] = m_callbacks_pending[i + 1]
    BY <1>a, <1>5, TailFacts, Zenon DEF Takes, Waiting
  <2>2. Waiting = 1 .. n /\ Waiting' = 1 .. n - 1
    BY <2>1 DEF Waiting
  <2>3. Begun = Len(delivered) /\ UNCHANGED <<chain, delivered>> /\ InHand' = {t}
    BY <1>5 DEF Begun, Takes
  <2>4. Begun' = Begun + (IF IsEvent(c) THEN 1 ELSE 0)
    BY <1>0, <2>1, <2>3, Zenon DEF Begun
  <2> HIDE DEF n, c
  <2>5. IsEvent(c) => c[2] = Begun + 1 /\ Begun + 1 <= chain
    <3> SUFFICES ASSUME IsEvent(c) PROVE c[2] = Begun + 1 /\ Begun + 1 <= chain
      BY Zenon
    <3>1. c[2] \in Nat /\ Begun < c[2] /\ c[2] <= chain
      <4>1. c[2] \in Nat
        BY <2>1, EventNumber, Zenon
      <4>2. 1 \in Waiting
        BY <2>1, <2>2
      <4>3. QED
        BY <4>1, <4>2, Zenon DEF InOrder, c
    <3>2. PICK i \in Waiting : m_callbacks_pending[i] = Event(Begun + 1)
      <4>1. Begun + 1 \in Begun + 1 .. chain
        BY <1>0, <3>1
      <4>2. QED
        BY <4>1, Zenon DEF InOrder
    <3>3. IsEvent(m_callbacks_pending[i]) /\ m_callbacks_pending[i][2] = Begun + 1
      BY <3>2, EventNumber, Zenon
    <3>4. i = 1
      <4>1. ASSUME 1 < i PROVE FALSE
        <5>1. c[2] < m_callbacks_pending[i][2]
          BY <2>1, <2>2, <3>3, <4>1 DEF InOrder, c
        <5>2. QED
          BY <1>0, <3>1, <3>3, <5>1
      <4>2. QED
        BY <2>2, <4>1
    <3>5. QED
      BY <1>0, <3>1, <3>3, <3>4, Zenon DEF c
  <2>6. \A i \in Waiting' : i + 1 \in Waiting /\ m_callbacks_pending'[i] = m_callbacks_pending[i + 1]
    BY <2>1, <2>2
  <2>7. \A i \in Waiting' : IsEvent(m_callbacks_pending'[i]) =>
          Begun' < m_callbacks_pending'[i][2] /\ m_callbacks_pending'[i][2] <= chain'
    <3> SUFFICES ASSUME NEW i \in Waiting', IsEvent(m_callbacks_pending[i + 1])
                 PROVE  Begun' < m_callbacks_pending[i + 1][2] /\ m_callbacks_pending[i + 1][2] <= chain
      BY <2>3, <2>6
    <3>1. Begun < m_callbacks_pending[i + 1][2] /\ m_callbacks_pending[i + 1][2] <= chain
      BY <2>6, Zenon DEF InOrder
    <3>2. IsEvent(c) => c[2] < m_callbacks_pending[i + 1][2]
      <4>1. 1 \in Waiting /\ 1 < i + 1 /\ i + 1 \in Waiting
        BY <2>1, <2>2, <2>6
      <4>2. QED
        BY <4>1, Zenon DEF InOrder, c
    <3>3. QED
      BY <1>0, <2>4, <2>5, <3>1, <3>2
  <2>8. \A i, j \in Waiting' :
          i < j /\ IsEvent(m_callbacks_pending'[i]) /\ IsEvent(m_callbacks_pending'[j]) =>
            m_callbacks_pending'[i][2] < m_callbacks_pending'[j][2]
    <3> SUFFICES ASSUME NEW i \in Waiting', NEW j \in Waiting', i < j,
                        IsEvent(m_callbacks_pending[i + 1]), IsEvent(m_callbacks_pending[j + 1])
                 PROVE  m_callbacks_pending[i + 1][2] < m_callbacks_pending[j + 1][2]
      BY <2>6
    <3>1. i + 1 < j + 1 /\ i + 1 \in Waiting /\ j + 1 \in Waiting
      BY <2>1, <2>2, <2>6
    <3>2. QED
      BY <3>1, Zenon DEF InOrder
  <2>9. \A k \in Begun' + 1 .. chain' : \E i \in Waiting' : m_callbacks_pending'[i] = Event(k)
    <3> SUFFICES ASSUME NEW k \in Begun' + 1 .. chain'
                 PROVE  \E i \in Waiting' : m_callbacks_pending'[i] = Event(k)
      OBVIOUS
    <3>1. k \in Begun + 1 .. chain
      BY <1>0, <2>3, <2>4
    <3>2. PICK i \in Waiting : m_callbacks_pending[i] = Event(k)
      BY <3>1 DEF InOrder
    <3>3. i # 1
      <4>1. c # Event(k)
        BY <1>0, <2>3, <2>4, <2>5, CallbackShape DEF IsEvent
      <4>2. QED
        BY <3>2, <4>1 DEF c
    <3>4. i - 1 \in Waiting' /\ m_callbacks_pending'[i - 1] = m_callbacks_pending[i]
      BY <2>1, <2>2, <2>6, <3>3
    <3>5. QED
      BY <3>2, <3>4
  <2>10. Begun' <= chain' /\ \A u \in InHand' : IsEvent(callback'[u]) => callback'[u][2] = Len(delivered') + 1
    BY <1>0, <2>1, <2>3, <2>4, <2>5 DEF InOrder
  <2>11. QED
    BY <2>3, <2>7, <2>8, <2>9, <2>10 DEF InOrder
<1>6. ASSUME NEW t \in Threads, Runs(t) PROVE InOrder'
  <2>1. UNCHANGED <<m_callbacks_pending, chain>> /\ InHand = {t} /\ InHand' = {}
    BY <1>6, Zenon DEF Runs
  <2>2. CASE IsEvent(callback[t])
    <3>1. Begun = Len(delivered) + 1 /\ callback[t][2] = Len(delivered) + 1
      BY <2>1, <2>2, Zenon DEF Begun, InOrder
    <3>2. delivered' = Append(delivered, Len(delivered) + 1)
      BY <1>6, <2>2, <3>1, Zenon DEF Runs
    <3>3. /\ Len(delivered') = Len(delivered) + 1
          /\ \A i \in 1 .. Len(delivered') : delivered'[i] = i
      <4> DEFINE n == Len(delivered)
      <4>1. n \in Nat /\ n + 1 \in Nat
        BY <1>a, LenProperties
      <4>2. Len(delivered') = n + 1 /\ delivered'[n + 1] = n + 1 /\ \A i \in 1 .. n : delivered'[i] = delivered[i]
        BY <1>a, <3>2, <4>1, AppendProperties
      <4>3. \A i \in 1 .. n : delivered[i] = i
        BY <1>0, Zenon DEF InOrder
      <4> HIDE DEF n
      <4>4. \A i \in 1 .. n + 1 : i \in 1 .. n \/ i = n + 1
        BY <4>1
      <4>5. \A i \in 1 .. Len(delivered') : delivered'[i] = i
        BY <4>2, <4>3, <4>4, Zenon
      <4>6. QED
        BY <4>2, <4>5 DEF n
    <3>4. Begun' = Begun
      BY <2>1, <3>1, <3>3 DEF Begun
    <3>5. QED
      BY <2>1, <3>3, <3>4, Zenon DEF InOrder, Waiting
  <2>3. CASE ~IsEvent(callback[t])
    <3>1. UNCHANGED delivered /\ Begun' = Begun
      BY <1>6, <2>1, <2>3, Zenon DEF Runs, Begun
    <3>2. QED
      BY <2>1, <3>1, Zenon DEF InOrder, Waiting
  <2>4. QED
    BY <2>2, <2>3
<1>7. CASE Quiet
  BY <1>1, <1>7, Zenon DEF Quiet, InOrder, SameHand, Waiting
<1>8. QED
  BY <1>2, <1>3, <1>4, <1>5, <1>6, <1>7

\* A promise stays behind the events it was added after, so that these are delivered
\* before it is set.
LEMMA BehindStep ==
  ASSUME TypeOK, Exclusive, InOrder, Behind,
         Quiet \/ AddsEvent \/ \E t \in Threads : AddsPromise(t) \/ Takes(t) \/ Runs(t) \/ Returns(t)
  PROVE  Behind'
<1>a. /\ m_callbacks_pending \in Seq(Callbacks) /\ delivered \in Seq(Nat)
      /\ promised \subseteq Validators \cup Waiters
  BY DEF TypeOK
<1>b. \A i \in Waiting : m_callbacks_pending[i] \in Callbacks
  BY <1>a, ElementOfSeq DEF Waiting
<1>0. /\ Len(delivered) \in Nat /\ Len(m_callbacks_pending) \in Nat /\ chain \in Nat
      /\ mark \in [Threads -> Nat]
  BY <1>a, LenProperties, Zenon DEF TypeOK
<1>1. CASE Quiet
  BY <1>1, Zenon DEF Quiet, Behind, SameHand, Waiting
<1>2. ASSUME NEW t \in Threads, Returns(t) PROVE Behind'
  BY <1>2, Zenon DEF Returns, Behind, SameHand, Waiting
<1>3. CASE AddsEvent
  <2> DEFINE n == Len(m_callbacks_pending)
             e == Event(chain + 1)
  <2>1. /\ Len(m_callbacks_pending') = n + 1 /\ m_callbacks_pending'[n + 1] = e
        /\ \A i \in 1 .. n : m_callbacks_pending'[i] = m_callbacks_pending[i]
    BY <1>a, <1>3, PushFacts, Zenon DEF AddsEvent, Waiting
  <2>2. Waiting = 1 .. n /\ Waiting' = 1 .. n + 1 /\ e[2] = chain + 1 /\ n \in Nat
    BY <1>0, <2>1, CallbackShape, Zenon DEF Waiting
  <2> HIDE DEF n, e
  <2>3. \A i, j \in Waiting' :
          i < j /\ IsPromise(m_callbacks_pending'[i]) /\ IsEvent(m_callbacks_pending'[j]) =>
            mark[m_callbacks_pending'[i][2]] < m_callbacks_pending'[j][2]
    <3> SUFFICES ASSUME NEW i \in Waiting', NEW j \in Waiting', i < j,
                        IsPromise(m_callbacks_pending'[i]), IsEvent(m_callbacks_pending'[j])
                 PROVE  mark[m_callbacks_pending'[i][2]] < m_callbacks_pending'[j][2]
      OBVIOUS
    <3>1. i \in Waiting /\ m_callbacks_pending'[i] = m_callbacks_pending[i]
      BY <1>0, <2>1, <2>2 DEF n
    <3>2. CASE j = n + 1
      <4>1. m_callbacks_pending[i] \in Callbacks
        BY <1>b, <3>1, Zenon
      <4>2. m_callbacks_pending[i][2] \in Threads
        BY <3>1, <4>1, CallbackShape, Zenon DEF IsEvent, IsPromise, Threads
      <4>3. QED
        <5>1. mark[m_callbacks_pending[i][2]] \in Nat /\ mark[m_callbacks_pending[i][2]] <= chain
          BY <1>0, <4>2, Zenon DEF Behind
        <5>2. mark[m_callbacks_pending[i][2]] < chain + 1
          BY <1>0, <5>1, OrderFacts, Zenon
        <5>3. QED
          BY <2>1, <2>2, <3>1, <3>2, <5>2, Zenon
    <3>3. CASE j # n + 1
      <4>1. j \in Waiting /\ m_callbacks_pending'[j] = m_callbacks_pending[j]
        <5>1. j \in 1 .. n
          BY <2>2, <3>3
        <5>2. QED
          BY <2>1, <2>2, <5>1, Zenon
      <4>2. QED
        BY <3>1, <4>1, Zenon DEF Behind
    <3>4. QED
      BY <3>2, <3>3
  <2>4. UNCHANGED <<delivered, promised, mark>> /\ chain' = chain + 1 /\ SameHand
    BY <1>3, Zenon DEF AddsEvent
  <2>5. \A t \in Threads : mark'[t] <= chain'
    BY <1>0, <2>4 DEF Behind
  <2>6. QED
    BY <2>3, <2>4, <2>5, Zenon DEF Behind, SameHand
<1>4. ASSUME NEW t \in Threads, AddsPromise(t) PROVE Behind'
  <2> DEFINE n == Len(m_callbacks_pending)
  <2>1. /\ Len(m_callbacks_pending') = n + 1 /\ m_callbacks_pending'[n + 1] = Promise(t)
        /\ \A i \in 1 .. n : m_callbacks_pending'[i] = m_callbacks_pending[i]
    BY <1>a, <1>4, PushFacts, Zenon DEF AddsPromise, Waiting
  <2>2. Waiting = 1 .. n /\ Waiting' = 1 .. n + 1 /\ ~IsEvent(Promise(t)) /\ n \in Nat
    BY <1>0, <2>1, CallbackShape, Zenon DEF Waiting, IsEvent
  <2> HIDE DEF n
  <2>3. \A u \in Threads : u # t => mark'[u] = mark[u]
    BY <1>4 DEF AddsPromise
  <2>4. \A i, j \in Waiting' :
          i < j /\ IsPromise(m_callbacks_pending'[i]) /\ IsEvent(m_callbacks_pending'[j]) =>
            mark'[m_callbacks_pending'[i][2]] < m_callbacks_pending'[j][2]
    <3> SUFFICES ASSUME NEW i \in Waiting', NEW j \in Waiting', i < j,
                        IsPromise(m_callbacks_pending'[i]), IsEvent(m_callbacks_pending'[j])
                 PROVE  mark'[m_callbacks_pending'[i][2]] < m_callbacks_pending'[j][2]
      BY Zenon
    <3>1. j \in Waiting /\ m_callbacks_pending'[j] = m_callbacks_pending[j]
      BY <1>0, <2>1, <2>2 DEF n
    <3>2. i \in Waiting /\ m_callbacks_pending'[i] = m_callbacks_pending[i]
      <4>1. i \in 1 .. n
        BY <2>2, <3>1
      <4>2. QED
        BY <2>1, <2>2, <4>1, Zenon
    <3>3. m_callbacks_pending[i] \in Callbacks
      BY <1>b, <3>2, Zenon
    <3>4. m_callbacks_pending[i][2] \in Threads /\ m_callbacks_pending[i][2] # t
      <4>1. m_callbacks_pending[i] = Promise(m_callbacks_pending[i][2]) /\ m_callbacks_pending[i][2] \in Threads
        BY <3>2, <3>3, CallbackShape, Zenon DEF IsEvent, IsPromise, Threads
      <4>2. QED
        BY <1>4, <3>2, <4>1, Zenon DEF AddsPromise, Owed
    <3>5. QED
      BY <2>3, <3>1, <3>2, <3>4, Zenon DEF Behind
  <2>5. \A u \in Threads : mark'[u] <= chain'
    <3>1. mark'[t] = chain /\ chain' = chain
      BY <1>0, <1>4 DEF AddsPromise
    <3>2. chain <= chain
      BY <1>0, OrderFacts, Zenon
    <3>3. QED
      BY <2>3, <3>1, <3>2, Zenon DEF Behind
  <2>6. \A u \in promised' : mark'[u] <= Len(delivered')
    <3>1. promised' = promised /\ t \notin promised /\ promised \subseteq Threads
      BY <1>a, <1>4, Zenon DEF AddsPromise, Owed, Threads
    <3>2. QED
      BY <1>4, <2>3, <3>1, Zenon DEF Behind, AddsPromise
  <2>7. \A u \in InHand' : IsPromise(callback'[u]) => mark'[callback'[u][2]] <= Len(delivered')
    <3> SUFFICES ASSUME NEW u \in InHand, IsPromise(callback[u])
                 PROVE  mark'[callback[u][2]] <= Len(delivered)
      BY <1>4, Zenon DEF AddsPromise, SameHand
    <3>1. callback[u] \in Callbacks
      BY DEF TypeOK, InHand, Exclusive, Running
    <3>2. callback[u] = Promise(callback[u][2]) /\ callback[u][2] \in Threads
      BY <3>1, CallbackShape, Zenon DEF IsEvent, IsPromise, Threads
    <3>3. callback[u][2] # t
      BY <1>4, <3>2, Zenon DEF AddsPromise, Owed
    <3>4. QED
      BY <2>3, <3>2, <3>3, Zenon DEF Behind
  <2>8. QED
    BY <2>4, <2>5, <2>6, <2>7, Zenon DEF Behind
<1>5. ASSUME NEW t \in Threads, Takes(t) PROVE Behind'
  <2> DEFINE n == Len(m_callbacks_pending)
             c == m_callbacks_pending[1]
  <2>1. /\ n \in Nat \ {0} /\ Len(m_callbacks_pending') = n - 1
        /\ c \in Callbacks /\ callback'[t] = c
        /\ \A i \in 1 .. n - 1 : m_callbacks_pending'[i] = m_callbacks_pending[i + 1]
    BY <1>a, <1>5, TailFacts, Zenon DEF Takes, Waiting
  <2>2. Waiting = 1 .. n /\ Waiting' = 1 .. n - 1
    BY <2>1, Zenon DEF Waiting
  <2>3. UNCHANGED <<chain, delivered, promised, mark>> /\ InHand' = {t} /\ Begun = Len(delivered)
    BY <1>0, <1>5 DEF Takes, Begun
  <2> HIDE DEF n, c
  <2>4. \A i, j \in Waiting' :
          i < j /\ IsPromise(m_callbacks_pending'[i]) /\ IsEvent(m_callbacks_pending'[j]) =>
            mark[m_callbacks_pending'[i][2]] < m_callbacks_pending'[j][2]
    <3> SUFFICES ASSUME NEW i \in Waiting', NEW j \in Waiting', i < j,
                        IsPromise(m_callbacks_pending'[i]), IsEvent(m_callbacks_pending'[j])
                 PROVE  mark[m_callbacks_pending'[i][2]] < m_callbacks_pending'[j][2]
      BY Zenon
    <3>1. i + 1 < j + 1 /\ i + 1 \in Waiting /\ j + 1 \in Waiting
      BY <2>1, <2>2
    <3>2. m_callbacks_pending'[i] = m_callbacks_pending[i + 1] /\ m_callbacks_pending'[j] = m_callbacks_pending[j + 1]
      BY <2>1, <2>2
    <3>3. QED
      BY <3>1, <3>2, Zenon DEF Behind
  <2>5. IsPromise(c) => mark[c[2]] <= Len(delivered)
    <3> SUFFICES ASSUME IsPromise(c), mark[c[2]] > Len(delivered) PROVE FALSE
      BY <1>0, <2>1, CallbackShape DEF IsPromise, IsEvent, Threads
    <3>1. c[2] \in Threads /\ mark[c[2]] \in Nat /\ mark[c[2]] <= chain
      BY <1>0, <2>1, CallbackShape, Zenon DEF IsPromise, IsEvent, Threads, Behind
    <3>2. mark[c[2]] \in Begun + 1 .. chain
      BY <1>0, <2>3, <3>1
    <3>3. PICK i \in Waiting : m_callbacks_pending[i] = Event(mark[c[2]])
      BY <3>2 DEF InOrder
    <3>4. IsEvent(m_callbacks_pending[i]) /\ m_callbacks_pending[i][2] = mark[c[2]]
      BY <3>3, EventNumber
    <3>5. i # 1
      BY <3>4 DEF c, IsEvent, IsPromise
    <3>6. 1 \in Waiting /\ 1 < i
      BY <2>1, <2>2, <3>5
    <3>7. mark[c[2]] < mark[c[2]]
      BY <3>4, <3>6 DEF Behind, c
    <3>8. QED
      BY <3>1, <3>7, OrderFacts
  <2>6. QED
    BY <2>1, <2>3, <2>4, <2>5, Zenon DEF Behind
<1>6. ASSUME NEW t \in Threads, Runs(t) PROVE Behind'
  <2>1. UNCHANGED <<m_callbacks_pending, chain, mark>> /\ InHand = {t} /\ InHand' = {}
    BY <1>6, Zenon DEF Runs
  <2>2. CASE IsEvent(callback[t])
    <3>1. callback[t][2] \in Nat
      <4>1. callback[t] \in Callbacks
        BY <1>6, Zenon DEF Runs
      <4>2. QED
        BY <2>2, <4>1, EventNumber, Zenon
    <3>2. delivered' = Append(delivered, callback[t][2]) /\ UNCHANGED promised
      BY <1>6, <2>2, Zenon DEF Runs
    <3>3. Len(delivered') = Len(delivered) + 1
      BY <1>a, <3>1, <3>2, AppendProperties, Zenon
    <3>4. \A u \in promised : mark[u] <= Len(delivered')
      <4>1. \A u \in promised : mark[u] \in Nat
        BY <1>a, <1>0, Zenon DEF Threads
      <4>2. \A u \in promised : mark[u] <= Len(delivered)
        BY Zenon DEF Behind
      <4>3. QED
        BY <1>0, <3>3, <4>1, <4>2
    <3>5. QED
      BY <2>1, <3>2, <3>4, Zenon DEF Behind, Waiting
  <2>3. CASE ~IsEvent(callback[t])
    <3>1. UNCHANGED delivered /\ promised' = promised \cup {callback[t][2]}
      BY <1>6, <2>3, Zenon DEF Runs
    <3>2. IsPromise(callback[t])
      BY <1>6, <2>3, CallbackShape, Zenon DEF Runs
    <3>3. \A u \in promised' : mark[u] <= Len(delivered)
      BY <2>1, <3>1, <3>2, Zenon DEF Behind
    <3>4. QED
      BY <2>1, <3>1, <3>3, Zenon DEF Behind, Waiting
  <2>4. QED
    BY <2>2, <2>3, Zenon
<1>7. QED
  BY <1>1, <1>2, <1>3, <1>4, <1>5, <1>6

\* A promise is in one place at a time, and its thread is waiting.
LEMMA OutstandingStep ==
  ASSUME TypeOK, Roles, Exclusive, Outstanding, Next,
         Quiet \/ AddsEvent \/ \E t \in Threads : AddsPromise(t) \/ Takes(t) \/ Runs(t) \/ Returns(t)
  PROVE  Outstanding'
<1>a. m_callbacks_pending \in Seq(Callbacks) /\ promised \subseteq Validators \cup Waiters
  BY DEF TypeOK
<1>b. \A i \in Waiting : m_callbacks_pending[i] \in Callbacks
  BY <1>a, ElementOfSeq DEF Waiting
<1>0. Len(m_callbacks_pending) \in Nat /\ \A u \in InHand : callback[u] \in Callbacks
  BY <1>a, LenProperties DEF TypeOK, Exclusive, Running, InHand
<1>1. Owed \subseteq Validators \cup Waiters
  <2> SUFFICES ASSUME NEW u \in Owed PROVE u \in Validators \cup Waiters
    OBVIOUS
  <2>1. CASE u \in promised
    BY <1>a, <2>1, Zenon
  <2>2. ASSUME NEW c \in Callbacks, c = Promise(u) PROVE u \in Validators \cup Waiters
    <3>1. c[1] = "promise" /\ c[2] = u
      BY <2>2, CallbackShape
    <3>2. IsPromise(c) /\ ~IsEvent(c)
      BY <3>1 DEF IsEvent, IsPromise
    <3>3. QED
      BY <3>1, <3>2, CallbackShape
  <2>3. \A i \in Waiting : m_callbacks_pending[i] \in Callbacks
    BY <1>b
  <2>4. QED
    BY <1>0, <2>1, <2>2, <2>3 DEF Owed
<1>2. ASSUME NEW u \in Owed, u \in promised => u \in promised' PROVE Awaits(u)'
  BY <1>1, <1>2, AwaitsStep, Zenon DEF Outstanding, SyncReturn
<1>3. CASE Quiet
  <2>1. UNCHANGED <<m_callbacks_pending, promised>> /\ SameHand
    BY <1>3, Zenon DEF Quiet
  <2>2. Owed' = Owed
    BY <2>1 DEF Owed, SameHand, Waiting
  <2>3. \A u \in Owed' : Awaits(u)'
    BY <1>2, <2>1, <2>2
  <2>4. m_callbacks_pending' = m_callbacks_pending /\ promised' = promised /\ Waiting' = Waiting /\ InHand' = InHand
    BY <2>1 DEF SameHand, Waiting
  <2>5. \A u \in InHand : callback'[u] = callback[u]
    BY <2>1, Zenon DEF SameHand
  <2>6. \A i \in Waiting' : IsPromise(m_callbacks_pending'[i]) =>
          /\ m_callbacks_pending'[i][2] \notin promised'
          /\ \A t \in InHand' : callback'[t] # m_callbacks_pending'[i]
    BY <2>4, <2>5, Zenon DEF Outstanding
  <2>7. \A t \in InHand' : IsPromise(callback'[t]) => callback'[t][2] \notin promised'
    BY <2>4, <2>5, Zenon DEF Outstanding
  <2>8. \A i, j \in Waiting' :
          IsPromise(m_callbacks_pending'[i]) /\ m_callbacks_pending'[j] = m_callbacks_pending'[i] => i = j
    BY <2>4, Zenon DEF Outstanding
  <2>9. QED
    BY <2>3, <2>6, <2>7, <2>8, Zenon DEF Outstanding
<1>4. ASSUME NEW t \in Threads, Returns(t) PROVE Outstanding'
  <2>1. UNCHANGED m_callbacks_pending /\ SameHand /\ t \in promised /\ promised' = promised \ {t}
    BY <1>4, Zenon DEF Returns
  <2>2. Owed' \subseteq Owed /\ t \notin Owed'
    <3>1. Owed' \subseteq Owed
      BY <2>1, Zenon DEF Owed, SameHand, Waiting
    <3>2. ASSUME NEW i \in Waiting, m_callbacks_pending[i] = Promise(t) PROVE FALSE
      <4>1. m_callbacks_pending[i][1] = "promise" /\ m_callbacks_pending[i][2] = t
        BY <3>2, CallbackShape, Zenon
      <4>2. QED
        BY <2>1, <3>2, <4>1, Zenon DEF Outstanding, IsPromise
    <3>3. ASSUME NEW u \in InHand, callback[u] = Promise(t) PROVE FALSE
      <4>1. callback[u][1] = "promise" /\ callback[u][2] = t
        BY <3>3, CallbackShape, Zenon
      <4>2. QED
        BY <2>1, <4>1 DEF Outstanding, IsPromise
    <3>4. QED
      BY <2>1, <3>1, <3>2, <3>3, Zenon DEF Owed, SameHand, Waiting
  <2>3. \A u \in Owed' : Awaits(u)'
    BY <1>2, <2>1, <2>2
  <2>4. Waiting' = Waiting /\ InHand' = InHand /\ \A u \in InHand : callback'[u] = callback[u]
    BY <2>1 DEF SameHand, Waiting
  <2>5. \A i \in Waiting : IsPromise(m_callbacks_pending[i]) => m_callbacks_pending[i][2] \notin promised'
    BY <2>1, Zenon DEF Outstanding
  <2>6. \A u \in InHand : IsPromise(callback[u]) => callback[u][2] \notin promised'
    BY <2>1, Zenon DEF Outstanding
  <2>7. \A i \in Waiting : IsPromise(m_callbacks_pending[i]) =>
          \A u \in InHand' : callback'[u] # m_callbacks_pending[i]
    BY <2>4 DEF Outstanding
  <2>8. \A u \in InHand' : IsPromise(callback'[u]) => callback'[u][2] \notin promised'
    BY <2>4, <2>6
  <2>9. m_callbacks_pending' = m_callbacks_pending /\ Waiting' = Waiting
    BY <2>1, <2>4, Zenon
  <2>10. QED
    BY <2>3, <2>5, <2>7, <2>8, <2>9, Zenon DEF Outstanding
<1>5. ASSUME NEW c \in Callbacks, Push(c), SameHand, UNCHANGED promised,
             \A u \in Owed' : Awaits(u)', \A u : c = Promise(u) => u \notin Owed
      PROVE  Outstanding'
  <2> DEFINE n == Len(m_callbacks_pending)
  <2>1. /\ Len(m_callbacks_pending') = n + 1 /\ m_callbacks_pending'[n + 1] = c
        /\ \A i \in 1 .. n : m_callbacks_pending'[i] = m_callbacks_pending[i]
    BY <1>a, <1>5, PushFacts, Zenon DEF Waiting
  <2>2. Waiting = 1 .. n /\ Waiting' = 1 .. n + 1 /\ n \in Nat
    BY <1>0, <2>1 DEF Waiting
  <2> HIDE DEF n
  <2>3. \A i \in Waiting' : i # n + 1 => i \in Waiting /\ m_callbacks_pending'[i] = m_callbacks_pending[i]
    BY <2>1, <2>2
  <2>4. IsPromise(c) => c = Promise(c[2]) /\ c[2] \in Threads \ Owed
    BY <1>5, CallbackShape, Zenon DEF IsEvent, IsPromise, Threads
  <2>5. \A i \in Waiting : IsPromise(c) => m_callbacks_pending[i] # c
    BY <2>4, Zenon DEF Owed
  <2>6. \A i, j \in Waiting' :
          IsPromise(m_callbacks_pending'[i]) /\ m_callbacks_pending'[j] = m_callbacks_pending'[i] => i = j
    BY <2>1, <2>3, <2>5, Zenon DEF Outstanding
  <2>7. \A i \in Waiting' : IsPromise(m_callbacks_pending'[i]) =>
          /\ m_callbacks_pending'[i][2] \notin promised
          /\ \A u \in InHand : callback[u] # m_callbacks_pending'[i]
    BY <2>1, <2>3, <2>4, Zenon DEF Outstanding, Owed
  <2>8. QED
    BY <1>5, <2>6, <2>7, Zenon DEF Outstanding, SameHand
<1>6. CASE AddsEvent
  <2>1. Event(chain + 1) \in Callbacks /\ Push(Event(chain + 1)) /\ SameHand /\ UNCHANGED promised
    BY <1>6, Zenon DEF AddsEvent
  <2>2. \A u : Event(chain + 1) # Promise(u)
    BY CallbackShape, Zenon
  <2>3. Owed' \subseteq Owed
    <3>1. \A i \in Waiting', u \in Threads : m_callbacks_pending'[i] = Promise(u) =>
            i \in Waiting /\ m_callbacks_pending[i] = Promise(u)
      BY <1>a, <1>0, <2>1, <2>2, PushFacts DEF Waiting
    <3>2. QED
      BY <2>1, <3>1, Zenon DEF Owed, SameHand
  <2>4. QED
    BY <1>2, <1>5, <2>1, <2>2, <2>3
<1>7. ASSUME NEW t \in Threads, AddsPromise(t) PROVE Outstanding'
  <2>1. /\ Promise(t) \in Callbacks /\ Push(Promise(t)) /\ SameHand /\ UNCHANGED promised
        /\ t \notin Owed /\ Awaits(t)'
    BY <1>7, Zenon DEF AddsPromise
  <2>2. \A u : Promise(t) = Promise(u) => u = t
    BY CallbackShape, Zenon
  <2>3. Owed' \subseteq Owed \cup {t}
    <3>1. \A i \in Waiting', u \in Threads : m_callbacks_pending'[i] = Promise(u) =>
            u = t \/ (i \in Waiting /\ m_callbacks_pending[i] = Promise(u))
      BY <1>a, <1>0, <2>1, <2>2, PushFacts DEF Waiting
    <3>2. QED
      BY <2>1, <3>1, Zenon DEF Owed, SameHand
  <2>4. \A u \in Owed' : Awaits(u)'
    BY <1>2, <2>1, <2>3, Zenon
  <2>5. QED
    BY <1>5, <2>1, <2>2, <2>4
<1>8. ASSUME NEW t \in Threads, Takes(t) PROVE Outstanding'
  <2> DEFINE n == Len(m_callbacks_pending)
             c == m_callbacks_pending[1]
  <2>1. /\ n \in Nat \ {0} /\ Len(m_callbacks_pending') = n - 1
        /\ c \in Callbacks /\ callback'[t] = c
        /\ \A i \in 1 .. n - 1 : m_callbacks_pending'[i] = m_callbacks_pending[i + 1]
    BY <1>a, <1>8, TailFacts, Zenon DEF Takes, Waiting
  <2>2. Waiting = 1 .. n /\ Waiting' = 1 .. n - 1 /\ 1 \in Waiting
    BY <2>1 DEF Waiting
  <2>3. UNCHANGED promised /\ InHand = {} /\ InHand' = {t}
    BY <1>8, Zenon DEF Takes
  <2> HIDE DEF n, c
  <2>4. \A i \in Waiting' : i + 1 \in Waiting /\ i + 1 # 1 /\ m_callbacks_pending'[i] = m_callbacks_pending[i + 1]
    BY <2>1, <2>2, OrderFacts, Zenon
  <2>5. Owed' \subseteq Owed
    BY <2>1, <2>2, <2>3, <2>4 DEF Owed, c
  <2>6. \A u \in Owed' : Awaits(u)'
    BY <1>2, <2>3, <2>5, Zenon
  <2>7. \A i, j \in Waiting' :
          IsPromise(m_callbacks_pending'[i]) /\ m_callbacks_pending'[j] = m_callbacks_pending'[i] => i = j
    <3> SUFFICES ASSUME NEW i \in Waiting', NEW j \in Waiting', IsPromise(m_callbacks_pending[i + 1]),
                        m_callbacks_pending[j + 1] = m_callbacks_pending[i + 1]
                 PROVE  i = j
      BY <2>4, Zenon
    <3>1. i + 1 = j + 1
      BY <2>4 DEF Outstanding
    <3>2. QED
      BY <2>1, <2>2, <3>1
  <2>8. \A i \in Waiting' : IsPromise(m_callbacks_pending'[i]) =>
          m_callbacks_pending'[i][2] \notin promised /\ c # m_callbacks_pending'[i]
    BY <2>2, <2>4 DEF Outstanding, c
  <2>9. IsPromise(c) => c[2] \notin promised
    BY <2>2 DEF Outstanding, c
  <2>10. QED
    BY <2>1, <2>3, <2>6, <2>7, <2>8, <2>9 DEF Outstanding
<1>9. ASSUME NEW t \in Threads, Runs(t) PROVE Outstanding'
  <2>1. UNCHANGED m_callbacks_pending /\ InHand = {t} /\ InHand' = {} /\ callback[t] \in Callbacks
    BY <1>9, Zenon DEF Runs
  <2>2. CASE IsEvent(callback[t])
    <3>1. UNCHANGED promised
      BY <1>9, <2>2, Zenon DEF Runs
    <3>2. Owed' \subseteq Owed
      BY <2>1, <3>1 DEF Owed, Waiting
    <3>3. \A u \in Owed' : Awaits(u)'
      BY <1>2, <3>1, <3>2, Zenon
    <3>4. QED
      BY <2>1, <3>1, <3>3, Zenon DEF Outstanding, Waiting
  <2>3. CASE ~IsEvent(callback[t])
    <3>1. promised' = promised \cup {callback[t][2]}
      BY <1>9, <2>3, Zenon DEF Runs
    <3>2. IsPromise(callback[t]) /\ callback[t] = Promise(callback[t][2]) /\ callback[t][2] \in Threads
      BY <2>1, <2>3, CallbackShape, Zenon DEF Threads
    <3>3. Owed' \subseteq Owed
      BY <2>1, <3>1, <3>2 DEF Owed, Waiting
    <3>4. \A u \in Owed' : Awaits(u)'
      BY <1>2, <3>1, <3>3, Zenon
    <3>5. \A i \in Waiting : IsPromise(m_callbacks_pending[i]) => m_callbacks_pending[i][2] # callback[t][2]
      <4> SUFFICES ASSUME NEW i \in Waiting, IsPromise(m_callbacks_pending[i]),
                          m_callbacks_pending[i][2] = callback[t][2]
                   PROVE  FALSE
        OBVIOUS
      <4>1. m_callbacks_pending[i] \in Callbacks
        BY <1>b, Zenon
      <4>2. m_callbacks_pending[i] = callback[t]
        BY <3>2, <4>1, CallbackShape, Zenon DEF IsEvent, IsPromise
      <4>3. QED
        BY <2>1, <4>2 DEF Outstanding
    <3>6. QED
      BY <2>1, <3>1, <3>4, <3>5, Zenon DEF Outstanding, Waiting
  <2>4. QED
    BY <2>2, <2>3
<1>10. QED
  BY <1>3, <1>4, <1>6, <1>7, <1>8, <1>9

---------------------------------------------------------------------------
\* The inductive invariant holds initially and is preserved by every step.
THEOREM Inductive == Spec => []IInv
<1>1. Init => IInv
  <2> SUFFICES ASSUME Init PROVE IInv
    OBVIOUS
  <2> USE CallbackQueueAssumption DEF Init
  <2>1. TypeOK
    <3>1. m_callbacks_pending \in Seq(Callbacks) /\ delivered \in Seq(Nat)
      BY EmptySeq
    <3>2. callback \in [Threads -> Callbacks \cup {NoCallback}] /\ mark \in [Threads -> Nat]
      OBVIOUS
    <3>3. pc \in [Threads -> Pcs]
      BY DEF Pcs, ServicePcs
    <3>4. phase \in Phases /\ chain \in Nat /\ chain <= MaxEvents /\ chain <= MaxEvents + 1
      BY DEF Phases
    <3>5. QED
      BY <3>1, <3>2, <3>3, <3>4, Zenon DEF TypeOK
  <2>2. Roles /\ Joined /\ Locking
    BY DEF Roles, Joined, Locking, Threads, ServicePcs, ValidatorPcs, WaiterPcs, ShutoffPcs, Stopped
  <2>3. Running = {} /\ InHand = {} /\ Waiting = {} /\ Len(delivered) = 0
    BY DEF Running, InHand, Waiting
  <2>4. Exclusive
    BY <2>3 DEF Exclusive
  <2>5. InOrder
    BY <2>3 DEF InOrder, Begun
  <2>6. Behind /\ Outstanding /\ Emptied
    BY <2>3 DEF Behind, Outstanding, Owed, Emptied
  <2>7. QED
    BY <2>1, <2>2, <2>4, <2>5, <2>6 DEF IInv
<1>2. IInv /\ [Next]_vars => IInv'
  <2> SUFFICES ASSUME IInv, [Next]_vars PROVE IInv'
    OBVIOUS
  <2>1. CASE Next
    <3>1. (TypeOK /\ Roles /\ Joined /\ Exclusive /\ Locking)'
      BY <2>1, TypeStep, RoleStep, ExclusiveStep, LockingStep DEF IInv
    <3>2. (InOrder /\ Behind /\ Outstanding)'
      BY <2>1, Kinds, OrderStep, BehindStep, OutstandingStep DEF IInv
    <3>3. Emptied'
      BY <2>1, EmptiedStep DEF IInv
    <3>4. QED
      BY <3>1, <3>2, <3>3 DEF IInv
  <2>2. CASE UNCHANGED vars
    <3> USE <2>2 DEF vars, client, history
    <3>1. (TypeOK /\ Roles /\ Joined /\ Locking /\ Emptied)'
      BY DEF IInv, TypeOK, Roles, Joined, Locking, Emptied, Ended
    <3>2. Running' = Running /\ InHand' = InHand /\ Waiting' = Waiting
      BY DEF Running, InHand, Waiting
    <3>3. Begun' = Begun /\ Owed' = Owed
      BY <3>2, Zenon DEF Begun, Owed
    <3>4. (Exclusive /\ InOrder /\ Behind)'
      BY <3>2, <3>3, Zenon DEF IInv, Exclusive, InOrder, Behind
    <3>5. Outstanding'
      BY <3>2, <3>3, Zenon DEF IInv, Outstanding, Awaits
    <3>6. QED
      BY <3>1, <3>4, <3>5, Zenon DEF IInv
  <2>3. QED
    BY <2>1, <2>2
<1>3. QED
  BY <1>1, <1>2, PTL DEF Spec

\* When the promise of SyncWithValidationInterfaceQueue is set, every event added before the
\* call has been delivered, in the order of the chain, whatever the threads and their number.
THEOREM SyncDrained == Spec => []SyncDrains
<1>1. IInv => SyncDrains
  <2> SUFFICES ASSUME IInv, NEW t \in promised PROVE HeardOf(mark[t])
    BY DEF SyncDrains
  <2>1. mark[t] \in Nat /\ mark[t] <= Len(delivered) /\ Len(delivered) \in Nat
    BY LenProperties, Zenon DEF IInv, TypeOK, Behind, Threads
  <2>2. \A i \in 1 .. Len(delivered) : delivered[i] = i
    BY Zenon DEF IInv, InOrder
  <2>3. QED
    BY <2>1, <2>2 DEF HeardOf
<1>2. QED
  BY <1>1, Inductive, PTL

\* Once Shutdown has emptied the queue, every event was delivered in order and none is left:
\* the threads that add events have ended, and no callback is in hand.
THEOREM NothingLost == Spec => []FlushComplete
<1>1. ASSUME IInv, phase = "done" PROVE HeardOf(chain) /\ m_callbacks_pending = <<>>
  <2>1. m_callbacks_pending = <<>> /\ Waiting = {}
    BY <1>1 DEF IInv, Emptied, Waiting
  <2>2. InHand = {}
    BY <1>1, QuietAtEnd DEF IInv, InHand
  <2>3. Begun = Len(delivered) /\ Len(delivered) \in Nat /\ chain \in Nat
    BY <1>1, <2>2, LenProperties DEF IInv, TypeOK, Begun
  <2>4. chain <= Len(delivered)
    BY <1>1, <2>1, <2>3 DEF IInv, InOrder
  <2>5. \A i \in 1 .. Len(delivered) : delivered[i] = i
    BY <1>1 DEF IInv, InOrder
  <2>6. QED
    BY <2>1, <2>3, <2>4, <2>5 DEF HeardOf
<1>2. IInv => FlushComplete
  BY <1>1 DEF FlushComplete
<1>3. QED
  BY <1>2, Inductive, PTL

---------------------------------------------------------------------------
(* The service threads together run the callbacks as one thread would. *)
Current == IF Running = {} THEN NoCallback ELSE callback[CHOOSE t \in Running : TRUE]

\* With one thread in a callback, Current is the callback of that thread.
LEMMA CurrentFacts ==
  /\ Running = {} => Current = NoCallback
  /\ \A t : Running = {t} => Current = callback[t]
  BY DEF Current

\* SingleThreadedSchedulerClient with any number of service threads and with Shutdown's
\* EmptyQueue implements the queue that a single thread serves.
THEOREM ServesSerially == Spec => SerialSpec
<1> USE DEF Serial!vars
<1>1. Init => Serial!Init
  <2> SUFFICES ASSUME Init PROVE m_callbacks_pending = <<>> /\ Current = NoCallback
    BY DEF Serial!Init, Current
  <2>1. Running = {}
    BY DEF Init, Running
  <2>2. QED
    BY <2>1, CurrentFacts DEF Init
<1>2. ASSUME IInv, [Next]_vars PROVE [Serial!Next]_(Serial!vars)
  <2>1. /\ \/ m_callbacks_pending' = m_callbacks_pending /\ Current' = Current
           \/ \E c \in Callbacks : m_callbacks_pending' = Append(m_callbacks_pending, c) /\ Current' = Current
           \/ /\ m_callbacks_pending # <<>> /\ Current = NoCallback
              /\ Current' = Head(m_callbacks_pending) /\ m_callbacks_pending' = Tail(m_callbacks_pending)
           \/ Current # NoCallback /\ Current' = NoCallback /\ m_callbacks_pending' = m_callbacks_pending
    <3>1. CASE Next
      <4>1. CASE /\ Running' = Running /\ UNCHANGED callback
                 /\ UNCHANGED m_callbacks_pending \/ \E c \in Callbacks : Push(c)
        <5>1. Current' = Current
          BY <4>1 DEF Current
        <5>2. QED
          BY <4>1, <5>1 DEF Push
      <4>2. ASSUME NEW t \in Threads, Starts(t)
            PROVE  /\ m_callbacks_pending # <<>> /\ Current = NoCallback
                   /\ Current' = Head(m_callbacks_pending) /\ m_callbacks_pending' = Tail(m_callbacks_pending)
        <5>1. Current = NoCallback
          BY <4>2, CurrentFacts DEF Starts
        <5>2. Current' = callback'[t]
          BY <4>2 DEF Starts, Current
        <5>3. QED
          BY <4>2, <5>1, <5>2 DEF Starts
      <4>3. ASSUME NEW t \in Threads, Finishes(t)
            PROVE  Current # NoCallback /\ Current' = NoCallback /\ m_callbacks_pending' = m_callbacks_pending
        <5>1. Current = callback[t] /\ callback[t] # NoCallback
          BY <1>2, <4>3, CurrentFacts DEF Finishes, IInv, Exclusive
        <5>2. Current' = NoCallback
          BY <4>3 DEF Finishes, Current
        <5>3. QED
          BY <4>3, <5>1, <5>2 DEF Finishes
      <4>4. QED
        BY <1>2, <3>1, <4>1, <4>2, <4>3, SerialKinds
    <3>2. CASE UNCHANGED vars
      BY <3>2 DEF vars, client, Current, Running
    <3>3. QED
      BY <1>2, <3>1, <3>2
  <2>2. QED
    BY <2>1, Zenon DEF Serial!Next, Serial!Enqueue, Serial!Start, Serial!Finish, Current
<1>3. QED
  BY <1>1, <1>2, Inductive, PTL DEF Spec, SerialSpec, Serial!Spec

===========================================================================
