----------------------------- MODULE Scheduler -----------------------------
(***************************************************************************)
(* CScheduler (scheduler.cpp): threads in serviceQueue share a queue of    *)
(* tasks ordered by time.                                                  *)
(*                                                                         *)
(* A step is a stretch of serviceQueue under newTaskMutex, up to a wait,   *)
(* the call of a task or the return.  One client thread schedules tasks,   *)
(* moves the mock time and at last stops the scheduler; its notifications  *)
(* come after it released the mutex.  A task of Repeating was given to     *)
(* scheduleEvery and schedules itself again when it ends.  wait_until of a *)
(* notified thread may report a timeout if its time has come as well.      *)
(***************************************************************************)
EXTENDS Integers, Sequences, FiniteSets

CONSTANTS
  Threads, Tasks, Repeating,
  Delays,      \* how far ahead a task is scheduled, or the mock time moved
  Interval,    \* the delta of scheduleEvery
  NoTask,
  MaxTime      \* bound on the time

ASSUME SchedulerAssumption ==
  /\ IsFiniteSet(Threads) /\ Threads # {} /\ Repeating \subseteq Tasks
  /\ Delays \subseteq Nat /\ Interval \in Nat \ {0} /\ MaxTime \in Nat

VARIABLES
  taskQueue,                      \* sequence of [time, task], the first to run at its head
  stopRequested, stopWhenEmpty, nThreadsServicingQueue,
  pc, timeToWaitFor, f,           \* of each service thread
  now,
  client,                         \* what the client is doing
  unused                          \* tasks the client has not scheduled yet

stopFlags == <<stopRequested, stopWhenEmpty>>
vars == <<taskQueue, stopFlags, nThreadsServicingQueue, pc, timeToWaitFor, f, now, client, unused>>

Init ==
  /\ taskQueue = <<>> /\ stopRequested = FALSE /\ stopWhenEmpty = FALSE
  /\ nThreadsServicingQueue = 0
  /\ pc = [t \in Threads |-> "start"] /\ timeToWaitFor = [t \in Threads |-> 0]
  /\ f = [t \in Threads |-> NoTask]
  /\ now = 0 /\ client = "idle" /\ unused = Tasks

---------------------------------------------------------------------------
\* std::multimap::insert: behind the tasks of the same time.
Insert(q, e) ==
  LET k == Cardinality({i \in DOMAIN q : q[i].time <= e.time})
  IN  SubSeq(q, 1, k) \o <<e>> \o SubSeq(q, k + 1, Len(q))

\* What a notification or a spurious wakeup makes of a waiting thread.
Woken(l) == IF l = "timed" THEN "timed_woken" ELSE "woken"
Sleeping(pcs) == {t \in Threads : pcs[t] \in {"wait", "timed"}}
NotifyOne(pcs) ==
  IF Sleeping(pcs) = {} THEN {pcs} ELSE {[pcs EXCEPT ![t] = Woken(@)] : t \in Sleeping(pcs)}

ShouldStopAtOnce == stopRequested \/ stopWhenEmpty   \* variant: leaves tasks behind
ShouldStop == stopRequested \/ (stopWhenEmpty /\ taskQueue = <<>>)

\* The end of serviceQueue; "n" is nThreadsServicingQueue before.
Leave(t, n) ==
  nThreadsServicingQueue' = n - 1 /\ pc' \in NotifyOne([pc EXCEPT ![t] = "ended"])

\* serviceQueue from the head of its outer loop.
Loop(t, n) ==
  /\ \/ ShouldStop /\ Leave(t, n) /\ UNCHANGED timeToWaitFor
     \/ /\ ~ShouldStop /\ taskQueue = <<>>
        /\ nThreadsServicingQueue' = n
        /\ pc' = [pc EXCEPT ![t] = "wait"]
        /\ UNCHANGED timeToWaitFor
     \/ /\ ~ShouldStop /\ taskQueue # <<>>
        /\ nThreadsServicingQueue' = n
        /\ pc' = [pc EXCEPT ![t] = "timed"]
        /\ timeToWaitFor' = [timeToWaitFor EXCEPT ![t] = Head(taskQueue).time]
  /\ f' = [f EXCEPT ![t] = NoTask]
  /\ UNCHANGED <<taskQueue, stopFlags, now, client, unused>>

ServiceQueue(t) == pc[t] = "start" /\ Loop(t, nThreadsServicingQueue + 1)

\* A wakeup; also the way back into the loop after a task.
Resume(t) == pc[t] \in {"woken", "timed_woken"} /\ Loop(t, nThreadsServicingQueue)

\* wait_until reports a timeout: the first task is taken, if there is one and no stop.
TimeoutAnyTime(t) ==   \* variant: a wakeup is taken for the timeout
  /\ pc[t] \in {"timed", "timed_woken"}
  /\ IF ShouldStop \/ taskQueue = <<>>
     THEN Loop(t, nThreadsServicingQueue)
     ELSE /\ f' = [f EXCEPT ![t] = Head(taskQueue)]
          /\ taskQueue' = Tail(taskQueue)
          /\ pc' = [pc EXCEPT ![t] = "run"]
          /\ UNCHANGED <<stopFlags, nThreadsServicingQueue, timeToWaitFor, now, client, unused>>
Timeout(t) ==
  /\ pc[t] \in {"timed", "timed_woken"} /\ now >= timeToWaitFor[t]
  /\ IF ShouldStop \/ taskQueue = <<>>
     THEN Loop(t, nThreadsServicingQueue)
     ELSE /\ f' = [f EXCEPT ![t] = Head(taskQueue)]
          /\ taskQueue' = Tail(taskQueue)
          /\ pc' = [pc EXCEPT ![t] = "run"]
          /\ UNCHANGED <<stopFlags, nThreadsServicingQueue, timeToWaitFor, now, client, unused>>

\* The task ends; one of scheduleEvery has called scheduleFromNow (Repeat).
FinishTask(t) ==
  /\ pc[t] = "run"
  /\ IF f[t].task \in Repeating /\ now + Interval <= MaxTime
     THEN /\ taskQueue' = Insert(taskQueue, [time |-> now + Interval, task |-> f[t].task])
          /\ pc' = [pc EXCEPT ![t] = "notify"]
     ELSE pc' = [pc EXCEPT ![t] = "woken"] /\ UNCHANGED taskQueue
  /\ UNCHANGED <<stopFlags, nThreadsServicingQueue, timeToWaitFor, f, now, client, unused>>
NotifyRepeat(t) ==
  /\ pc[t] = "notify"
  /\ pc' \in NotifyOne([pc EXCEPT ![t] = "woken"])
  /\ UNCHANGED <<taskQueue, stopFlags, nThreadsServicingQueue, timeToWaitFor, f, now, client, unused>>

SpuriousWakeup(t) ==
  /\ pc[t] \in {"wait", "timed"}
  /\ pc' = [pc EXCEPT ![t] = Woken(@)]
  /\ UNCHANGED <<taskQueue, stopFlags, nThreadsServicingQueue, timeToWaitFor, f, now, client, unused>>

---------------------------------------------------------------------------
(* The client. *)
Schedule(k, d) ==
  /\ client = "idle" /\ k \in unused /\ now + d <= MaxTime
  /\ taskQueue' = Insert(taskQueue, [time |-> now + d, task |-> k])
  /\ unused' = unused \ {k}
  /\ client' = "notify"
  /\ UNCHANGED <<stopFlags, nThreadsServicingQueue, pc, timeToWaitFor, f, now>>

\* Bounded to times that stay natural numbers.
MockForward(d) ==
  /\ client = "idle" /\ d > 0 /\ \A i \in DOMAIN taskQueue : taskQueue[i].time >= d
  /\ taskQueue' = [i \in DOMAIN taskQueue |-> [taskQueue[i] EXCEPT !.time = @ - d]]
  /\ client' = "notify"
  /\ UNCHANGED <<stopFlags, nThreadsServicingQueue, pc, timeToWaitFor, f, now, unused>>

NotifyScheduleNever ==   \* variant: no notification
  /\ client = "notify" /\ client' = "idle"
  /\ UNCHANGED <<taskQueue, stopFlags, nThreadsServicingQueue, pc, timeToWaitFor, f, now, unused>>
NotifySchedule ==
  /\ client = "notify"
  /\ pc' \in NotifyOne(pc)
  /\ client' = "idle"
  /\ UNCHANGED <<taskQueue, stopFlags, nThreadsServicingQueue, timeToWaitFor, f, now, unused>>

\* stop and StopWhenDrained.
Stop ==
  /\ client = "idle" /\ client' = "stopping"
  /\ \/ stopRequested' = TRUE /\ UNCHANGED stopWhenEmpty
     \/ stopWhenEmpty' = TRUE /\ UNCHANGED stopRequested
  /\ UNCHANGED <<taskQueue, nThreadsServicingQueue, pc, timeToWaitFor, f, now, unused>>
NotifyStopNever ==   \* variant: no notification
  /\ client = "stopping" /\ client' = "joining"
  /\ UNCHANGED <<taskQueue, stopFlags, nThreadsServicingQueue, pc, timeToWaitFor, f, now, unused>>
NotifyStop ==
  /\ client = "stopping" /\ client' = "joining"
  /\ pc' = [t \in Threads |-> IF t \in Sleeping(pc) THEN Woken(pc[t]) ELSE pc[t]]
  /\ UNCHANGED <<taskQueue, stopFlags, nThreadsServicingQueue, timeToWaitFor, f, now, unused>>
Join ==
  /\ client = "joining" /\ \A t \in Threads : pc[t] = "ended"
  /\ client' = "joined"
  /\ UNCHANGED <<taskQueue, stopFlags, nThreadsServicingQueue, pc, timeToWaitFor, f, now, unused>>

Tick ==
  /\ now < MaxTime /\ now' = now + 1
  /\ UNCHANGED <<taskQueue, stopFlags, nThreadsServicingQueue, pc, timeToWaitFor, f, client, unused>>

Service(t) == ServiceQueue(t) \/ Resume(t) \/ Timeout(t) \/ FinishTask(t) \/ NotifyRepeat(t)

Next ==
  \/ \E t \in Threads : Service(t) \/ SpuriousWakeup(t)
  \/ \E d \in Delays : MockForward(d) \/ \E k \in Tasks : Schedule(k, d)
  \/ NotifySchedule \/ Stop \/ NotifyStop \/ Join \/ Tick

Spec == Init /\ [][Next]_vars

\* Threads that can run do, tasks end, time passes, and the client finishes its calls.  A
\* wait_until whose time has come reports it sooner or later, however often it is woken.
FairSpec ==
  /\ Spec
  /\ \A t \in Threads : WF_vars(Service(t)) /\ WF_vars(Timeout(t))
  /\ WF_vars(NotifySchedule) /\ WF_vars(NotifyStop) /\ WF_vars(Join) /\ WF_vars(Tick)

---------------------------------------------------------------------------
\* ~CScheduler: when all threads are joined none is counted and, after StopWhenDrained, no
\* task is left.
DestructorSafe ==
  client = "joined" => nThreadsServicingQueue = 0 /\ (stopWhenEmpty => taskQueue = <<>>)

\* "Call func at/after time t" (scheduler.h): as long as one thread serves the queue, which
\* is what the node starts, no task is taken before its time, however the queue, the mock
\* time and the wakeups change under its wait.
NotEarly ==
  [][\A t \in Threads :
       f'[t] \notin {f[t], NoTask} /\ (\A u \in Threads \ {t} : pc[u] = "start")
         => f'[t].time <= now]_vars

\* A task that was scheduled is run unless the scheduler is stopped, whichever thread a
\* notification reaches.
TasksRun ==
  \A k \in Tasks :
    (\E i \in DOMAIN taskQueue : taskQueue[i].task = k)
      ~> (stopRequested \/ \E t \in Threads : f[t] # NoTask /\ f[t].task = k)

\* stop and StopWhenDrained return: every thread leaves serviceQueue.
StopReturns == client = "stopping" ~> client = "joined"
=============================================================================
