--------------------------- MODULE CallbackQueue ---------------------------
(***************************************************************************)
(* The queue of validation callbacks (SingleThreadedSchedulerClient in     *)
(* scheduler.cpp, validationinterface.cpp) with the threads that fill it,  *)
(* wait for it and shut it down.                                           *)
(*                                                                         *)
(* A validator is a thread that calls ActivateBestChain: it waits for the  *)
(* queue when that is long, then changes the chain and adds the events of  *)
(* the change while it holds cs_main.  A waiter calls                      *)
(* SyncWithValidationInterfaceQueue (an RPC).  The service threads of the  *)
(* scheduler take copies of ProcessQueue in any order; each runs one       *)
(* callback.  A subscriber's callback needs cs_main.  A step is a stretch  *)
(* under m_callbacks_mutex, or under the mutex of the scheduler.           *)
(*                                                                         *)
(* Shutdown joins the RPC and network threads, stops the scheduler, joins  *)
(* the load block thread, writes the state to disk, and runs what is left  *)
(* of the queue itself.                                                    *)
(***************************************************************************)
EXTENDS Integers, Sequences, FiniteSets

CONSTANTS
  Services, Validators, Waiters, Shutoff,   \* threads; Shutoff is the one in Shutdown
  LoadBlock,     \* the validators joined after the scheduler is stopped
  NoThread,
  MaxPending,    \* 10 in LimitValidationInterfaceQueue
  MaxEvents      \* bound on the number of events before ChainStateFlushed

Threads == Services \cup Validators \cup Waiters \cup {Shutoff}

ASSUME CallbackQueueAssumption ==
  /\ LoadBlock \subseteq Validators
  /\ NoThread \notin Threads /\ Shutoff \notin Services \cup Validators \cup Waiters
  /\ Services \cap (Validators \cup Waiters) = {} /\ Validators \cap Waiters = {}
  /\ MaxPending \in Nat /\ MaxEvents \in Nat

VARIABLES
  m_callbacks_pending, m_are_callbacks_running,
  scheduled,     \* copies of ProcessQueue in the scheduler's taskQueue
  pc,
  callback,      \* what a thread in ProcessQueue has taken off the queue
  csMain,        \* the holder of cs_main
  chain,         \* events of the chain so far
  delivered,     \* the events the subscribers have been told of, in that order
  promised,      \* the waiting threads whose promise is set
  mark,          \* per thread, the value of chain when it added its promise
  phase          \* of Shutdown

client == <<m_callbacks_pending, m_are_callbacks_running, callback>>
history == <<chain, delivered, promised, mark>>
vars == <<client, scheduled, pc, csMain, history, phase>>

Event(n) == <<"event", n>>
Promise(t) == <<"promise", t>>
NoCallback == <<>>
Callbacks == {Event(n) : n \in 1 .. MaxEvents + 1} \cup {Promise(t) : t \in Validators \cup Waiters}

Goto(t, l) == pc' = [pc EXCEPT ![t] = l]
ShutdownRequested == phase # "up"

Init ==
  /\ m_callbacks_pending = <<>> /\ m_are_callbacks_running = FALSE /\ scheduled = 0
  /\ pc = [t \in Threads |-> "idle"] /\ callback = [t \in Threads |-> NoCallback]
  /\ csMain = NoThread
  /\ chain = 0 /\ delivered = <<>> /\ promised = {} /\ mark = [t \in Threads |-> 0]
  /\ phase = "up"

---------------------------------------------------------------------------
(* AddToProcessQueue: push, then MaybeScheduleProcessQueue. *)
Push(c) == m_callbacks_pending' = Append(m_callbacks_pending, c)

\* Where MaybeScheduleProcessQueue returns to: ProcessQueue's caller, the critical section
\* of cs_main, or the wait for the promise.
Return(t) ==
  IF t \in Services \cup {Shutoff} THEN "idle" ELSE IF csMain = t THEN "locked" ELSE "waiting"

MaybeScheduleProcessQueue(t) ==
  /\ pc[t] = "added"
  /\ Goto(t, IF m_are_callbacks_running \/ m_callbacks_pending = <<>> THEN Return(t) ELSE "schedule")
  /\ UNCHANGED <<client, scheduled, csMain, history, phase>>

Schedule(t) ==
  /\ pc[t] = "schedule"
  /\ scheduled' = scheduled + 1
  /\ Goto(t, Return(t))
  /\ UNCHANGED <<client, csMain, history, phase>>

---------------------------------------------------------------------------
(* The threads that add callbacks. *)

\* One thread at a time is inside of ActivateBestChain.
ChainstateMutexFree(t) == \A u \in Validators \ {t} : pc[u] \in {"idle", "ended"}

\* Start of an iteration of ActivateBestChain: LimitValidationInterfaceQueue.
LimitValidationInterfaceQueue(t) ==
  /\ t \in Validators /\ pc[t] = "idle" /\ ChainstateMutexFree(t)
  /\ Goto(t, IF Len(m_callbacks_pending) > MaxPending THEN "sync" ELSE "ready")
  /\ UNCHANGED <<client, scheduled, csMain, history, phase>>

\* A waiter calls once.
CallSync(t) ==
  /\ t \in Waiters /\ pc[t] = "idle" /\ ~ShutdownRequested
  /\ Goto(t, "sync")
  /\ UNCHANGED <<client, scheduled, csMain, history, phase>>

SyncJumpsQueue(t) ==   \* variant: the promise is put at the head of the queue
  /\ pc[t] = "sync"
  /\ m_callbacks_pending' = <<Promise(t)>> \o m_callbacks_pending
  /\ mark' = [mark EXCEPT ![t] = chain]
  /\ Goto(t, "added")
  /\ UNCHANGED <<m_are_callbacks_running, callback, scheduled, csMain, chain, delivered, promised, phase>>
SyncWithValidationInterfaceQueue(t) ==
  /\ pc[t] = "sync"
  /\ Push(Promise(t))
  /\ mark' = [mark EXCEPT ![t] = chain]
  /\ Goto(t, "added")
  /\ UNCHANGED <<m_are_callbacks_running, callback, scheduled, csMain, chain, delivered, promised, phase>>

SyncReturn(t) ==
  /\ pc[t] = "waiting" /\ t \in promised
  /\ promised' = promised \ {t}
  /\ Goto(t, IF t \in Waiters THEN "ended" ELSE "ready")
  /\ UNCHANGED <<client, scheduled, csMain, chain, delivered, mark, phase>>

AddEvent(t) ==
  /\ chain < MaxEvents
  /\ chain' = chain + 1
  /\ Push(Event(chain + 1))
  /\ Goto(t, "added")
  /\ UNCHANGED <<m_are_callbacks_running, callback, scheduled, delivered, promised, mark, phase>>

\* The chain changes; BlockConnected and the like and then UpdatedBlockTip are added before
\* cs_main is released, so a change and its event are one step.
Connect(t) ==
  /\ pc[t] = "ready" /\ csMain = NoThread
  /\ csMain' = t
  /\ AddEvent(t)
ConnectMore(t) == pc[t] = "locked" /\ AddEvent(t) /\ UNCHANGED csMain

\* ActivateBestChain leaves its loop when a shutdown was requested.
Unlock(t) ==
  /\ pc[t] = "locked"
  /\ csMain' = NoThread
  /\ Goto(t, IF ShutdownRequested THEN "ended" ELSE "idle")
  /\ UNCHANGED <<client, scheduled, history, phase>>

\* ActivateBestChain finds nothing to do, or its thread does not call it again.
End(t) ==
  /\ t \in Validators
  /\ pc[t] = "ready" \/ (pc[t] = "idle" /\ ShutdownRequested)
  /\ Goto(t, IF ShutdownRequested THEN "ended" ELSE "idle")
  /\ UNCHANGED <<client, scheduled, csMain, history, phase>>

---------------------------------------------------------------------------
(* The service threads, and Shutdown in EmptyQueue. *)
TakeTask(s) ==
  /\ s \in Services /\ pc[s] = "idle"
  /\ phase \in {"up", "requested"} /\ scheduled > 0
  /\ scheduled' = scheduled - 1
  /\ Goto(s, "process")
  /\ UNCHANGED <<client, csMain, history, phase>>

\* serviceQueue returns once stopRequested is set.
ServiceEndsDrained(s) ==   \* variant: waits for the queue to be drained
  /\ s \in Services /\ pc[s] = "idle" /\ phase = "stop" /\ scheduled = 0
  /\ Goto(s, "ended")
  /\ UNCHANGED <<client, scheduled, csMain, history, phase>>
ServiceEnds(s) ==
  /\ s \in Services /\ pc[s] = "idle" /\ phase = "stop"
  /\ Goto(s, "ended")
  /\ UNCHANGED <<client, scheduled, csMain, history, phase>>

ProcessQueueUnguarded(t) ==   \* variant: does not look at m_are_callbacks_running
  /\ pc[t] = "process"
  /\ IF m_callbacks_pending = <<>>
     THEN Goto(t, "idle") /\ UNCHANGED client
     ELSE /\ m_are_callbacks_running' = TRUE
          /\ callback' = [callback EXCEPT ![t] = Head(m_callbacks_pending)]
          /\ m_callbacks_pending' = Tail(m_callbacks_pending)
          /\ Goto(t, "callback")
  /\ UNCHANGED <<scheduled, csMain, history, phase>>
ProcessQueue(t) ==
  /\ pc[t] = "process"
  /\ IF m_are_callbacks_running \/ m_callbacks_pending = <<>>
     THEN Goto(t, "idle") /\ UNCHANGED client
     ELSE /\ m_are_callbacks_running' = TRUE
          /\ callback' = [callback EXCEPT ![t] = Head(m_callbacks_pending)]
          /\ m_callbacks_pending' = Tail(m_callbacks_pending)
          /\ Goto(t, "callback")
  /\ UNCHANGED <<scheduled, csMain, history, phase>>

\* The subscribers are told of an event, or the promise is set.
RunCallback(t) ==
  /\ pc[t] = "callback"
  /\ \/ /\ callback[t][1] = "event" /\ csMain = NoThread
        /\ delivered' = Append(delivered, callback[t][2])
        /\ UNCHANGED promised
     \/ /\ callback[t][1] = "promise"
        /\ promised' = promised \cup {callback[t][2]}
        /\ UNCHANGED delivered
  /\ Goto(t, "ran")
  /\ UNCHANGED <<client, scheduled, csMain, chain, mark, phase>>

\* ~RAIICallbacksRunning.
CallbacksDoneSilent(t) ==   \* variant: does not look for further callbacks
  /\ pc[t] = "ran"
  /\ m_are_callbacks_running' = FALSE
  /\ callback' = [callback EXCEPT ![t] = NoCallback]
  /\ Goto(t, "idle")
  /\ UNCHANGED <<m_callbacks_pending, scheduled, csMain, history, phase>>
CallbacksDone(t) ==
  /\ pc[t] = "ran"
  /\ m_are_callbacks_running' = FALSE
  /\ callback' = [callback EXCEPT ![t] = NoCallback]
  /\ Goto(t, "added")
  /\ UNCHANGED <<m_callbacks_pending, scheduled, csMain, history, phase>>

---------------------------------------------------------------------------
(* Shutdown. *)
Ended(S) == \A t \in S : pc[t] = "ended"
Enter(old, new) == phase = old /\ phase' = new /\ UNCHANGED <<client, scheduled, pc, csMain, history>>

RequestShutdown == Enter("up", "requested")
\* StopHTTPServer and CConnman::Stop join their threads; then scheduler->stop().
StopScheduler ==
  /\ \A t \in Waiters : pc[t] \in {"idle", "ended"}
  /\ Ended(Validators \ LoadBlock)
  /\ Enter("requested", "stop")
JoinService == Ended(Services) /\ Enter("stop", "join")
JoinLoadBlock == Ended(LoadBlock) /\ Enter("join", "write")

\* ForceFlushStateToDisk adds ChainStateFlushed, one event more.
ForceFlushStateToDisk ==
  /\ phase = "write" /\ phase' = "flush"
  /\ chain' = chain + 1
  /\ Push(Event(chain + 1))
  /\ Goto(Shutoff, "added")
  /\ UNCHANGED <<m_are_callbacks_running, callback, scheduled, csMain, delivered, promised, mark>>

\* EmptyQueue: ProcessQueue again and again until the queue is empty.
EmptyQueue ==
  /\ phase = "flush" /\ pc[Shutoff] = "idle" /\ m_callbacks_pending # <<>>
  /\ Goto(Shutoff, "process")
  /\ UNCHANGED <<client, scheduled, csMain, history, phase>>
QueueOnce == pc[Shutoff] = "idle" /\ Enter("flush", "done")   \* variant: no loop
QueueEmpty == m_callbacks_pending = <<>> /\ pc[Shutoff] = "idle" /\ Enter("flush", "done")

Body(t) ==
  \/ MaybeScheduleProcessQueue(t) \/ Schedule(t)
  \/ SyncWithValidationInterfaceQueue(t) \/ SyncReturn(t)
  \/ Connect(t) \/ ConnectMore(t) \/ Unlock(t) \/ End(t)
  \/ TakeTask(t) \/ ServiceEnds(t) \/ ProcessQueue(t) \/ RunCallback(t) \/ CallbacksDone(t)

ShutdownStep ==
  \/ StopScheduler \/ JoinService \/ JoinLoadBlock \/ ForceFlushStateToDisk
  \/ EmptyQueue \/ QueueEmpty

Next ==
  \/ \E t \in Threads : Body(t) \/ LimitValidationInterfaceQueue(t) \/ CallSync(t)
  \/ RequestShutdown \/ ShutdownStep

Spec == Init /\ [][Next]_vars

\* Every thread inside a call goes on, and so does Shutdown; nothing makes anybody start a
\* call or request a shutdown.
FairSpec == Spec /\ (\A t \in Threads : WF_vars(Body(t))) /\ WF_vars(ShutdownStep)

---------------------------------------------------------------------------
Running == {t \in Threads : pc[t] \in {"callback", "ran"}}

\* SingleThreadedSchedulerClient keeps its promise with any number of service threads.
Serial == INSTANCE SerialQueue WITH
  None <- NoCallback, queue <- m_callbacks_pending,
  current <- IF Running = {} THEN NoCallback ELSE callback[CHOOSE t \in Running : TRUE]
SerialSpec == Serial!Spec

\* The subscribers have heard of the first n changes of the chain, in the order they were
\* made.
HeardOf(n) == Len(delivered) >= n /\ \A i \in 1 .. n : delivered[i] = i

\* When SyncWithValidationInterfaceQueue returns, all events added before it was called have
\* been delivered in order ("Dependencies exist that require UpdatedBlockTip events to be
\* delivered in the order in which the chain actually updates").
SyncDrains == \A t \in promised : HeardOf(mark[t])

\* Shutdown loses no event: "FlushStateToDisk generates a ChainStateFlushed callback, which
\* we should avoid missing".
FlushComplete == phase = "done" => HeardOf(chain) /\ m_callbacks_pending = <<>>

\* Whoever waits for the queue is woken, also when a shutdown starts meanwhile.
SyncReturns == \A t \in Validators \cup Waiters : pc[t] = "waiting" ~> pc[t] # "waiting"

\* A shutdown that was requested is completed.
ShutdownEnds == phase = "requested" ~> phase = "done"
=============================================================================
