-------------------------- MODULE SchedulerProofs ---------------------------
(***************************************************************************)
(* The scheduler stops in good order and a thread that serves the queue    *)
(* alone takes no task before its time, for any number of threads and      *)
(* tasks and any delays.                                                   *)
(***************************************************************************)
EXTENDS Scheduler, FiniteSetTheorems, TLAPS

Places == {"start", "wait", "timed", "woken", "timed_woken", "run", "notify", "ended"}
Items == [time : Nat, task : Tasks]

TypeOK ==
  /\ taskQueue \in Seq(Items) /\ nThreadsServicingQueue \in Int /\ now \in Nat
  /\ pc \in [Threads -> Places] /\ timeToWaitFor \in [Threads -> Nat]
  /\ f \in [Threads -> Items \cup {NoTask}]
  /\ stopRequested \in BOOLEAN /\ stopWhenEmpty \in BOOLEAN
  /\ client \in {"idle", "notify", "stopping", "joining", "joined"}
  /\ unused \subseteq Tasks

\* The threads inside serviceQueue are the ones the scheduler counts.
Serving(p) == {t \in Threads : p[t] \notin {"start", "ended"}}
Counted == nThreadsServicingQueue = Cardinality(Serving(pc))

\* A thread leaves only after a stop, the client asks for one stop, of one kind, and waits for
\* all threads.
StopOrder ==
  /\ (\E t \in Threads : pc[t] = "ended") => stopRequested \/ stopWhenEmpty
  /\ client \in {"idle", "notify"} => ~stopRequested /\ ~stopWhenEmpty
  /\ ~(stopRequested /\ stopWhenEmpty)
  /\ client = "joined" => \A t \in Threads : pc[t] = "ended"

\* The last thread to leave after StopWhenDrained leaves an empty queue: a task that repeats
\* goes back into the queue before its thread can leave.
AllEnded(p) == \A t \in Threads : p[t] = "ended"
Drained == stopWhenEmpty /\ AllEnded(pc) => taskQueue = <<>>

\* While no other thread has begun to serve, the first task is due when the wait ends: a new
\* head comes before the old one, and the mock time only moves tasks nearer.
Alone(p, t) == \A u \in Threads \ {t} : p[u] = "start"
HeadDue ==
  \A t \in Threads :
    pc[t] \in {"timed", "timed_woken"} /\ Alone(pc, t)
      => taskQueue # <<>> /\ Head(taskQueue).time <= timeToWaitFor[t]

Inv == TypeOK /\ Counted /\ StopOrder /\ Drained /\ HeadDue

---------------------------------------------------------------------------
\* A sequence's length, domain and range.
LEMMA SeqFacts ==
  ASSUME NEW S, NEW q \in Seq(S)
  PROVE  /\ Len(q) \in Nat /\ DOMAIN q = 1 .. Len(q) /\ \A i \in 1 .. Len(q) : q[i] \in S
         /\ q # <<>> => Len(q) > 0 /\ Head(q) = q[1] /\ Head(q) \in S /\ Tail(q) \in Seq(S)
OBVIOUS

\* A part of a sequence.
LEMMA SubSeqFacts ==
  ASSUME NEW S, NEW q \in Seq(S), NEW m \in 1 .. Len(q) + 1, NEW n \in 0 .. Len(q), m <= n + 1
  PROVE  /\ SubSeq(q, m, n) \in Seq(S) /\ Len(SubSeq(q, m, n)) = n - m + 1
         /\ \A i \in 1 .. (n - m + 1) : SubSeq(q, m, n)[i] = q[m + i - 1]
<1>1. Len(q) \in Nat BY SeqFacts
<1>2. \A i \in m .. n : q[i] \in S BY <1>1, SeqFacts
<1> QED BY <1>1, <1>2

\* Two sequences one after the other.
LEMMA ConcatFacts ==
  ASSUME NEW S, NEW p \in Seq(S), NEW q \in Seq(S)
  PROVE  /\ p \o q \in Seq(S) /\ Len(p \o q) = Len(p) + Len(q)
         /\ \A i \in 1 .. Len(p) : (p \o q)[i] = p[i]
         /\ \A i \in 1 .. Len(q) : (p \o q)[Len(p) + i] = q[i]
OBVIOUS

\* schedule: the first task of the queue is the earlier one of the new task and the first task
\* before.
LEMMA InsertFacts ==
  ASSUME NEW q \in Seq(Items), NEW e \in Items
  PROVE  /\ Insert(q, e) \in Seq(Items) /\ Insert(q, e) # <<>>
         /\ q # <<>> => Head(Insert(q, e)).time <= Head(q).time
<1> DEFINE before == {i \in DOMAIN q : q[i].time <= e.time}
           k == Cardinality(before)
           front == SubSeq(q, 1, k)
           back == SubSeq(q, k + 1, Len(q))
           r == Insert(q, e)
<1>0. Len(q) \in Nat /\ DOMAIN q = 1 .. Len(q) BY SeqFacts
<1>1. IsFiniteSet(1 .. Len(q)) /\ Cardinality(1 .. Len(q)) = Len(q)
  <2>1. 1 \in Int /\ Len(q) \in Int BY <1>0
  <2>2. /\ IsFiniteSet(1 .. Len(q))
        /\ Cardinality(1 .. Len(q)) = IF 1 > Len(q) THEN 0 ELSE Len(q) - 1 + 1
    BY <2>1, FS_Interval, Zenon
  <2> QED BY <1>0, <2>2
<1>2. before \subseteq 1 .. Len(q) BY <1>0
<1>3. IsFiniteSet(before) /\ k <= Len(q)
  BY <1>1, <1>2, FS_Subset
<1>4. k \in 0 .. Len(q)
  <2>1. k \in Nat BY <1>3, FS_CardinalityType
  <2> QED BY <2>1, <1>3, <1>0
<1> HIDE DEF k
<1>5. front \in Seq(Items) /\ Len(front) = k /\ \A i \in 1 .. k : front[i] = q[i]
  <2>1. 1 \in 1 .. Len(q) + 1 /\ 1 <= k + 1 BY <1>0, <1>4
  <2>2. /\ front \in Seq(Items) /\ Len(front) = k - 1 + 1
        /\ \A i \in 1 .. (k - 1 + 1) : front[i] = q[1 + i - 1]
    BY <2>1, <1>4, SubSeqFacts
  <2> QED BY <2>2, <1>4
<1>6. back \in Seq(Items)
  <2>1. k + 1 \in 1 .. Len(q) + 1 /\ Len(q) \in 0 .. Len(q) /\ k + 1 <= Len(q) + 1 BY <1>0, <1>4
  <2> QED BY <2>1, SubSeqFacts
<1>7. <<e>> \in Seq(Items) /\ Len(<<e>>) = 1 /\ <<e>>[1] = e OBVIOUS
<1>8. r = (front \o <<e>>) \o back BY DEF Insert, k
<1> HIDE DEF front, back, r
<1> DEFINE fe == front \o <<e>>
<1>9. /\ fe \in Seq(Items) /\ Len(fe) = k + 1 /\ fe[k + 1] = e
      /\ \A i \in 1 .. k : fe[i] = q[i]
  BY <1>4, <1>5, <1>7, ConcatFacts
<1> HIDE DEF fe
<1>10. /\ r \in Seq(Items) /\ Len(r) = k + 1 + Len(back)
       /\ \A i \in 1 .. (k + 1) : r[i] = fe[i]
  <2>1. r = fe \o back BY <1>8 DEF fe
  <2>2. /\ fe \o back \in Seq(Items) /\ Len(fe \o back) = Len(fe) + Len(back)
        /\ \A i \in 1 .. Len(fe) : (fe \o back)[i] = fe[i]
    BY <1>6, <1>9, ConcatFacts, Zenon
  <2> QED BY <2>1, <2>2, <1>9
<1>11. Len(r) > 0 /\ r[1] = fe[1]
  <2>1. Len(back) \in Nat BY <1>6, SeqFacts
  <2> QED BY <2>1, <1>10, <1>4
<1>12. r # <<>> /\ Head(r) = fe[1]
  BY <1>10, <1>11, SeqFacts
<1>13. ASSUME q # <<>> PROVE fe[1].time <= Head(q).time
  <2>1. Len(q) > 0 /\ Head(q) = q[1] /\ q[1] \in Items BY <1>13, SeqFacts
  <2>2. CASE k = 0
    <3>1. before = {} BY <2>2, <1>3, FS_EmptySet, Zenon DEF k
    <3>2. ~(q[1].time <= e.time) BY <3>1, <2>1, <1>0
    <3> QED BY <3>2, <2>1, <2>2, <1>9 DEF Items
  <2>3. CASE k # 0
    <3>1. fe[1] = q[1] BY <2>3, <1>4, <1>9
    <3> QED BY <3>1, <2>1 DEF Items
  <2> QED BY <2>2, <2>3
<1> QED BY <1>10, <1>12, <1>13 DEF r

---------------------------------------------------------------------------
\* q is p but for some waiting threads that were woken.
Wakes(p, q) ==
  /\ q \in [Threads -> Places]
  /\ \A u \in Threads :
       \/ q[u] = p[u]
       \/ p[u] = "wait" /\ q[u] = "woken"
       \/ p[u] = "timed" /\ q[u] = "timed_woken"

\* notify_one wakes at most one waiting thread.
LEMMA NotifyFacts ==
  ASSUME NEW p \in [Threads -> Places], NEW q \in NotifyOne(p)
  PROVE  Wakes(p, q)
<1>1. CASE Sleeping(p) = {}
  BY <1>1 DEF NotifyOne, Wakes
<1>2. CASE Sleeping(p) # {}
  <2>1. PICK t \in Sleeping(p) : q = [p EXCEPT ![t] = Woken(@)]
    BY <1>2 DEF NotifyOne
  <2>2. t \in Threads /\ p[t] \in {"wait", "timed"} BY DEF Sleeping
  <2> QED BY <2>1, <2>2 DEF Wakes, Woken, Places
<1> QED BY <1>1, <1>2

\* A wakeup changes neither who serves the queue, nor who has ended, nor who is alone.
LEMMA WakesFacts ==
  ASSUME NEW p \in [Threads -> Places], NEW q, Wakes(p, q)
  PROVE  /\ Serving(q) = Serving(p)
         /\ \A t \in Threads : q[t] = "ended" <=> p[t] = "ended"
         /\ \A t \in Threads : q[t] = "start" <=> p[t] = "start"
         /\ \A t \in Threads : q[t] \in {"timed", "timed_woken"} => p[t] \in {"timed", "timed_woken"}
BY DEF Wakes, Serving

\* What a thread's entering or leaving serviceQueue does to the number of threads in it.
LEMMA CountFacts ==
  ASSUME NEW p \in [Threads -> Places], NEW t \in Threads, NEW l \in Places
  PROVE  /\ Cardinality(Serving(p)) \in Nat
         /\ p[t] \notin {"start", "ended"} /\ l \notin {"start", "ended"}
              => Serving([p EXCEPT ![t] = l]) = Serving(p)
         /\ p[t] = "start" /\ l \notin {"start", "ended"}
              => Cardinality(Serving([p EXCEPT ![t] = l])) = Cardinality(Serving(p)) + 1
         /\ p[t] \notin {"start", "ended"} /\ l = "ended"
              => Cardinality(Serving([p EXCEPT ![t] = l])) = Cardinality(Serving(p)) - 1
         /\ p[t] = "start" /\ l = "ended" => Serving([p EXCEPT ![t] = l]) = Serving(p)
<1> DEFINE q == [p EXCEPT ![t] = l]
<1>1. IsFiniteSet(Serving(p))
  BY SchedulerAssumption, FS_Subset DEF Serving
<1>2. Cardinality(Serving(p)) \in Nat BY <1>1, FS_CardinalityType
<1>3. ASSUME p[t] \notin {"start", "ended"}, l \notin {"start", "ended"}
      PROVE  Serving(q) = Serving(p)
  BY <1>3 DEF Serving
<1>4. ASSUME p[t] = "start", l = "ended" PROVE Serving(q) = Serving(p)
  BY <1>4 DEF Serving
<1>5. ASSUME p[t] = "start", l \notin {"start", "ended"}
      PROVE  Cardinality(Serving(q)) = Cardinality(Serving(p)) + 1
  <2>1. Serving(q) = Serving(p) \cup {t} /\ t \notin Serving(p) BY <1>5 DEF Serving
  <2> QED BY <2>1, <1>1, FS_AddElement, Zenon
<1>6. ASSUME p[t] \notin {"start", "ended"}, l = "ended"
      PROVE  Cardinality(Serving(q)) = Cardinality(Serving(p)) - 1
  <2>1. Serving(q) = Serving(p) \ {t} /\ t \in Serving(p) BY <1>6 DEF Serving
  <2> QED BY <2>1, <1>1, FS_RemoveElement, Zenon
<1> QED BY <1>2, <1>3, <1>4, <1>5, <1>6

---------------------------------------------------------------------------
\* The three ways out of the head of serviceQueue's loop.
LoopEnds(t, n) ==
  /\ ShouldStop /\ nThreadsServicingQueue' = n - 1
  /\ Wakes([pc EXCEPT ![t] = "ended"], pc')
  /\ UNCHANGED timeToWaitFor
LoopWaits(t, n) ==
  /\ nThreadsServicingQueue' = n
  /\ \/ pc' = [pc EXCEPT ![t] = "wait"] /\ UNCHANGED timeToWaitFor
     \/ /\ pc' = [pc EXCEPT ![t] = "timed"] /\ taskQueue # <<>>
        /\ timeToWaitFor' = [timeToWaitFor EXCEPT ![t] = Head(taskQueue).time]

\* What the head of serviceQueue's loop does: the thread returns or waits.
LEMMA LoopKinds ==
  ASSUME TypeOK, NEW t \in Threads, NEW n \in Int, Loop(t, n)
  PROVE  /\ LoopEnds(t, n) \/ LoopWaits(t, n)
         /\ f' = [f EXCEPT ![t] = NoTask]
         /\ UNCHANGED <<taskQueue, stopFlags, now, client, unused>>
<1>1. [pc EXCEPT ![t] = "ended"] \in [Threads -> Places] BY DEF TypeOK, Places
<1>2. ASSUME ShouldStop, Leave(t, n), UNCHANGED timeToWaitFor PROVE LoopEnds(t, n)
  BY <1>1, <1>2, NotifyFacts, Zenon DEF Leave, LoopEnds
<1> QED BY <1>2 DEF Loop, LoopWaits

\* The kinds of steps.  A thread comes to the head of the loop:
Loops(t) ==
  /\ \E n \in Int :
       /\ \/ pc[t] = "start" /\ n = nThreadsServicingQueue + 1
          \/ pc[t] \in {"woken", "timed", "timed_woken"} /\ n = nThreadsServicingQueue
       /\ LoopEnds(t, n) \/ LoopWaits(t, n)
  /\ f' = [f EXCEPT ![t] = NoTask]
  /\ UNCHANGED <<taskQueue, stopFlags, now, client, unused>>
\* it takes the first task at its timeout:
Takes(t) ==
  /\ pc[t] \in {"timed", "timed_woken"} /\ now >= timeToWaitFor[t] /\ taskQueue # <<>>
  /\ f' = [f EXCEPT ![t] = Head(taskQueue)]
  /\ taskQueue' = Tail(taskQueue)
  /\ pc' = [pc EXCEPT ![t] = "run"]
  /\ UNCHANGED <<stopFlags, nThreadsServicingQueue, timeToWaitFor, now, client, unused>>
\* threads are woken, by a thread that goes back to the loop, by the client or spuriously:
Wakeup ==
  /\ \E p \in [Threads -> Places] :
       /\ p = pc \/ \E t \in Threads : pc[t] = "notify" /\ p = [pc EXCEPT ![t] = "woken"]
       /\ Wakes(p, pc')
  /\ client' = client \/ <<client, client'>> \in {<<"notify", "idle">>, <<"stopping", "joining">>}
  /\ UNCHANGED <<taskQueue, stopFlags, nThreadsServicingQueue, timeToWaitFor, f, now, unused>>

\* What a step does to the queue, the counter of service threads and their places.
LEMMA Kinds ==
  ASSUME TypeOK, Next
  PROVE  \/ \E t \in Threads : Loops(t) \/ Takes(t) \/ FinishTask(t)
         \/ \E d \in Delays : MockForward(d) \/ \E k \in Tasks : Schedule(k, d)
         \/ Wakeup \/ Stop \/ Join \/ Tick
<1>0. nThreadsServicingQueue \in Int /\ nThreadsServicingQueue + 1 \in Int
      /\ pc \in [Threads -> Places]
  BY DEF TypeOK
<1>1. ASSUME NEW t \in Threads, ServiceQueue(t) PROVE Loops(t)
  BY <1>0, <1>1, LoopKinds DEF ServiceQueue, Loops
<1>2. ASSUME NEW t \in Threads, Resume(t) PROVE Loops(t)
  BY <1>0, <1>2, LoopKinds DEF Resume, Loops
<1>3. ASSUME NEW t \in Threads, Timeout(t) PROVE Loops(t) \/ Takes(t)
  <2>1. CASE ShouldStop \/ taskQueue = <<>>
    <3>1. pc[t] \in {"timed", "timed_woken"} /\ Loop(t, nThreadsServicingQueue)
      BY <1>3, <2>1 DEF Timeout
    <3> QED BY <3>1, <1>0, LoopKinds DEF Loops
  <2>2. CASE ~(ShouldStop \/ taskQueue = <<>>)
    BY <1>3, <2>2 DEF Timeout, Takes
  <2> QED BY <2>1, <2>2
<1>4. ASSUME NEW t \in Threads, NotifyRepeat(t) PROVE Wakeup
  <2> DEFINE p == [pc EXCEPT ![t] = "woken"]
  <2>1. p \in [Threads -> Places] BY <1>0 DEF Places
  <2>2. pc[t] = "notify" /\ pc' \in NotifyOne(p) BY <1>4 DEF NotifyRepeat
  <2>3. Wakes(p, pc') BY <2>1, <2>2, NotifyFacts, Zenon
  <2>4. \E r \in [Threads -> Places] :
          /\ r = pc \/ \E u \in Threads : pc[u] = "notify" /\ r = [pc EXCEPT ![u] = "woken"]
          /\ Wakes(r, pc')
    BY <2>1, <2>2, <2>3, Zenon
  <2> QED BY <1>4, <2>4 DEF NotifyRepeat, Wakeup
<1>5. ASSUME NEW t \in Threads, SpuriousWakeup(t) PROVE Wakeup
  <2>1. Wakes(pc, pc') BY <1>0, <1>5 DEF SpuriousWakeup, Wakes, Woken, Places
  <2> QED BY <1>0, <1>5, <2>1 DEF SpuriousWakeup, Wakeup
<1>6. ASSUME NotifySchedule PROVE Wakeup
  <2>1. Wakes(pc, pc') BY <1>0, <1>6, NotifyFacts DEF NotifySchedule
  <2> QED BY <1>0, <1>6, <2>1 DEF NotifySchedule, Wakeup
<1>7. ASSUME NotifyStop PROVE Wakeup
  <2>1. Wakes(pc, pc') BY <1>0, <1>7 DEF NotifyStop, Wakes, Sleeping, Woken, Places
  <2> QED BY <1>0, <1>7, <2>1 DEF NotifyStop, Wakeup
<1> QED BY <1>1, <1>2, <1>3, <1>4, <1>5, <1>6, <1>7 DEF Next, Service

---------------------------------------------------------------------------
\* The tasks in the queue have times.
LEMMA ItemFacts ==
  /\ \A e \in Items : e.time \in Nat
  /\ \A e \in Items, d \in Nat : e.time >= d
       => [e EXCEPT !.time = @ - d] \in Items /\ [e EXCEPT !.time = @ - d].time <= e.time
  /\ \A q \in Seq(Items) : q # <<>> => Head(q).time \in Nat
<1>1. \A e \in Items : e.time \in Nat BY DEF Items
<1>2. ASSUME NEW e \in Items, NEW d \in Nat, e.time >= d
      PROVE  [e EXCEPT !.time = @ - d] \in Items /\ [e EXCEPT !.time = @ - d].time <= e.time
  <2>1. e.time \in Nat /\ e.task \in Tasks BY DEF Items
  <2>2. [e EXCEPT !.time = @ - d] = [time |-> e.time - d, task |-> e.task] BY DEF Items
  <2>3. e.time - d \in Nat /\ e.time - d <= e.time BY <1>2, <2>1
  <2> QED BY <2>1, <2>2, <2>3 DEF Items
<1>3. \A q \in Seq(Items) : q # <<>> => Head(q) \in Items BY SeqFacts
<1> QED BY <1>1, <1>2, <1>3

\* The loop keeps the types.
LEMMA LoopType ==
  ASSUME TypeOK, NEW t \in Threads, Loops(t)
  PROVE  /\ nThreadsServicingQueue' \in Int /\ pc' \in [Threads -> Places]
         /\ timeToWaitFor' \in [Threads -> Nat] /\ f' \in [Threads -> Items \cup {NoTask}]
<1>0. /\ pc \in [Threads -> Places] /\ timeToWaitFor \in [Threads -> Nat]
      /\ f \in [Threads -> Items \cup {NoTask}] /\ taskQueue \in Seq(Items)
  BY DEF TypeOK
<1>1. PICK n \in Int : LoopEnds(t, n) \/ LoopWaits(t, n) BY DEF Loops
<1>2. nThreadsServicingQueue' \in Int BY <1>1 DEF LoopEnds, LoopWaits
<1>3. pc' \in [Threads -> Places]
  BY <1>0, <1>1 DEF LoopEnds, LoopWaits, Wakes, Places
<1>4. taskQueue # <<>> => Head(taskQueue).time \in Nat
  BY <1>0, ItemFacts
<1>5. timeToWaitFor' \in [Threads -> Nat]
  BY <1>0, <1>1, <1>4 DEF LoopEnds, LoopWaits
<1>6. f' \in [Threads -> Items \cup {NoTask}] BY <1>0 DEF Loops
<1> QED BY <1>2, <1>3, <1>5, <1>6

\* MockForward lowers every time and keeps the order of the queue.
LEMMA ForwardFacts ==
  ASSUME TypeOK, NEW d \in Delays, MockForward(d)
  PROVE  /\ taskQueue' \in Seq(Items)
         /\ taskQueue # <<>> => taskQueue' # <<>> /\ Head(taskQueue').time <= Head(taskQueue).time
<1>0. d \in Nat /\ taskQueue \in Seq(Items) BY SchedulerAssumption DEF TypeOK
<1>1. /\ Len(taskQueue) \in Nat /\ DOMAIN taskQueue = 1 .. Len(taskQueue)
      /\ \A i \in 1 .. Len(taskQueue) : taskQueue[i] \in Items
  BY <1>0, SeqFacts
<1>2. \A i \in DOMAIN taskQueue :
        /\ taskQueue[i] \in Items /\ taskQueue[i].time >= d
        /\ taskQueue'[i] = [taskQueue[i] EXCEPT !.time = @ - d]
  BY <1>1 DEF MockForward
<1>3. \A i \in DOMAIN taskQueue :
        taskQueue'[i] \in Items /\ taskQueue'[i].time <= taskQueue[i].time
  <2> TAKE i \in DOMAIN taskQueue
  <2> DEFINE e == taskQueue[i]
             lower == [e EXCEPT !.time = @ - d]
  <2>1. e \in Items /\ e.time >= d /\ taskQueue'[i] = lower BY <1>2
  <2>2. lower \in Items /\ lower.time <= e.time BY <1>0, <2>1, ItemFacts
  <2> QED BY <2>1, <2>2
<1>4. taskQueue' = [i \in 1 .. Len(taskQueue) |-> taskQueue'[i]]
  BY <1>1 DEF MockForward
<1>5. taskQueue' \in Seq(Items) /\ Len(taskQueue') = Len(taskQueue)
  BY <1>1, <1>3, <1>4
<1>6. ASSUME taskQueue # <<>>
      PROVE  taskQueue' # <<>> /\ Head(taskQueue').time <= Head(taskQueue).time
  <2>1. Len(taskQueue) > 0 /\ Head(taskQueue) = taskQueue[1] /\ 1 \in DOMAIN taskQueue
    BY <1>0, <1>1, <1>6, SeqFacts
  <2>2. taskQueue' # <<>> BY <1>5, <2>1
  <2>3. Head(taskQueue') = taskQueue'[1] BY <1>5, <2>2, SeqFacts
  <2> QED BY <1>3, <2>1, <2>2, <2>3
<1> QED BY <1>5, <1>6

\* A task that is scheduled, by the client or by itself, has a time and a place in the queue.
LEMMA ScheduleFacts ==
  ASSUME TypeOK, NEW d \in Nat, NEW k \in Tasks,
         taskQueue' = Insert(taskQueue, [time |-> now + d, task |-> k])
  PROVE  /\ taskQueue' \in Seq(Items)
         /\ taskQueue # <<>> => taskQueue' # <<>> /\ Head(taskQueue').time <= Head(taskQueue).time
<1>1. [time |-> now + d, task |-> k] \in Items /\ taskQueue \in Seq(Items) BY DEF TypeOK, Items
<1> QED BY <1>1, InsertFacts, Zenon

\* A task that ends leaves the queue as it was or puts its successor into it.
LEMMA FinishFacts ==
  ASSUME TypeOK, NEW t \in Threads, FinishTask(t)
  PROVE  /\ taskQueue' \in Seq(Items)
         /\ taskQueue # <<>> => taskQueue' # <<>> /\ Head(taskQueue').time <= Head(taskQueue).time
         /\ pc[t] = "run"
         /\ \E l \in {"notify", "woken"} : pc' = [pc EXCEPT ![t] = l]
<1>0. taskQueue \in Seq(Items) /\ Interval \in Nat /\ Repeating \subseteq Tasks
  BY SchedulerAssumption DEF TypeOK
<1>1. CASE f[t].task \in Repeating /\ now + Interval <= MaxTime
  <2>1. taskQueue' = Insert(taskQueue, [time |-> now + Interval, task |-> f[t].task])
    BY <1>1 DEF FinishTask
  <2>2. /\ taskQueue' \in Seq(Items)
        /\ taskQueue # <<>> => taskQueue' # <<>> /\ Head(taskQueue').time <= Head(taskQueue).time
    BY <1>0, <1>1, <2>1, ScheduleFacts
  <2> QED BY <1>1, <2>2 DEF FinishTask
<1>2. CASE ~(f[t].task \in Repeating /\ now + Interval <= MaxTime)
  <2>1. taskQueue # <<>> => Head(taskQueue).time \in Nat BY <1>0, ItemFacts
  <2> QED BY <1>0, <1>2, <2>1 DEF FinishTask
<1> QED BY <1>1, <1>2

\* Every step keeps the types.
LEMMA TypeStep == ASSUME TypeOK, Next PROVE TypeOK'
<1>1. ASSUME NEW t \in Threads, Loops(t) PROVE TypeOK'
  BY <1>1, LoopType, Zenon DEF Loops, TypeOK, stopFlags
<1>2. ASSUME NEW t \in Threads, Takes(t) PROVE TypeOK'
  <2>1. Head(taskQueue) \in Items /\ Tail(taskQueue) \in Seq(Items)
    BY <1>2, SeqFacts DEF Takes, TypeOK
  <2>2. pc' \in [Threads -> Places] BY <1>2 DEF Takes, TypeOK, Places
  <2>3. f' \in [Threads -> Items \cup {NoTask}] BY <1>2, <2>1 DEF Takes, TypeOK
  <2> QED BY <1>2, <2>1, <2>2, <2>3 DEF Takes, TypeOK, stopFlags
<1>3. ASSUME NEW t \in Threads, FinishTask(t) PROVE TypeOK'
  <2>1. taskQueue' \in Seq(Items) BY <1>3, FinishFacts
  <2>2. pc' \in [Threads -> Places] BY <1>3, FinishFacts, Zenon DEF TypeOK, Places
  <2> QED BY <1>3, <2>1, <2>2 DEF FinishTask, TypeOK, stopFlags
<1>4. ASSUME NEW d \in Delays, MockForward(d) PROVE TypeOK'
  <2>1. taskQueue' \in Seq(Items) BY <1>4, ForwardFacts
  <2> QED BY <1>4, <2>1 DEF MockForward, TypeOK, stopFlags
<1>5. ASSUME NEW d \in Delays, NEW k \in Tasks, Schedule(k, d) PROVE TypeOK'
  <2>1. d \in Nat BY SchedulerAssumption
  <2>2. taskQueue' \in Seq(Items) BY <1>5, <2>1, ScheduleFacts DEF Schedule
  <2> QED BY <1>5, <2>2 DEF Schedule, TypeOK, stopFlags
<1>6. ASSUME Wakeup PROVE TypeOK'
  <2>1. pc' \in [Threads -> Places] BY <1>6 DEF Wakeup, Wakes
  <2>2. client' \in {"idle", "notify", "stopping", "joining", "joined"} BY <1>6 DEF Wakeup, TypeOK
  <2> QED BY <1>6, <2>1, <2>2 DEF Wakeup, TypeOK, stopFlags
<1>7. ASSUME Stop \/ Join \/ Tick PROVE TypeOK'
  <2>1. CASE Stop BY <2>1, Zenon DEF Stop, TypeOK
  <2>2. CASE Join BY <2>2 DEF Join, TypeOK, stopFlags
  <2>3. CASE Tick BY <2>3 DEF Tick, TypeOK, stopFlags
  <2> QED BY <1>7, <2>1, <2>2, <2>3
<1> QED BY <1>1, <1>2, <1>3, <1>4, <1>5, <1>6, <1>7, Kinds

---------------------------------------------------------------------------
\* nThreadsServicingQueue goes up when a thread enters serviceQueue and down when it leaves.
LEMMA CountStep == ASSUME TypeOK, Counted, Next PROVE Counted'
<1>0. pc \in [Threads -> Places] /\ nThreadsServicingQueue \in Int BY DEF TypeOK
<1>1. ASSUME NEW t \in Threads, Loops(t) PROVE Counted'
  <2>1. PICK n \in Int :
          /\ \/ pc[t] = "start" /\ n = nThreadsServicingQueue + 1
             \/ pc[t] \in {"woken", "timed", "timed_woken"} /\ n = nThreadsServicingQueue
          /\ LoopEnds(t, n) \/ LoopWaits(t, n)
    BY <1>1 DEF Loops
  <2>2. CASE LoopEnds(t, n)
    <3> DEFINE p == [pc EXCEPT ![t] = "ended"]
    <3>1. p \in [Threads -> Places] /\ "ended" \in Places BY <1>0 DEF Places
    <3>2. Serving(pc') = Serving(p) BY <2>2, <3>1, WakesFacts, Zenon DEF LoopEnds
    <3>3. Cardinality(Serving(p)) = n - 1
      <4>1. CASE pc[t] = "start"
        <5>1. Serving(p) = Serving(pc) BY <1>0, <4>1, <3>1, CountFacts, Zenon
        <5> QED BY <1>0, <2>1, <4>1, <5>1 DEF Counted
      <4>2. CASE pc[t] # "start"
        <5>1. pc[t] \notin {"start", "ended"} /\ n = nThreadsServicingQueue BY <2>1, <4>2
        <5>2. Cardinality(Serving(p)) = Cardinality(Serving(pc)) - 1
          BY <1>0, <5>1, <3>1, CountFacts, Zenon
        <5> QED BY <5>1, <5>2 DEF Counted
      <4> QED BY <4>1, <4>2
    <3> QED BY <2>2, <3>2, <3>3 DEF LoopEnds, Counted
  <2>3. CASE LoopWaits(t, n)
    <3>1. PICK l \in {"wait", "timed"} : pc' = [pc EXCEPT ![t] = l] BY <2>3 DEF LoopWaits
    <3>2. l \in Places /\ l \notin {"start", "ended"} BY DEF Places
    <3>3. Cardinality(Serving(pc')) = n
      BY <1>0, <2>1, <3>1, <3>2, CountFacts, Zenon DEF Counted
    <3> QED BY <2>3, <3>3 DEF LoopWaits, Counted
  <2> QED BY <2>1, <2>2, <2>3
<1>2. ASSUME NEW t \in Threads, Takes(t) \/ FinishTask(t) PROVE Counted'
  <2>1. PICK l \in {"run", "notify", "woken"} : pc' = [pc EXCEPT ![t] = l]
    BY <1>2, FinishFacts DEF Takes
  <2>2. l \in Places /\ l \notin {"start", "ended"} BY DEF Places
  <2>3. pc[t] \notin {"start", "ended"} BY <1>2 DEF Takes, FinishTask
  <2>4. Serving(pc') = Serving(pc) BY <1>0, <2>1, <2>2, <2>3, CountFacts, Zenon
  <2>5. nThreadsServicingQueue' = nThreadsServicingQueue BY <1>2 DEF Takes, FinishTask
  <2> QED BY <2>4, <2>5 DEF Counted
<1>3. ASSUME Wakeup PROVE Counted'
  <2>1. PICK p \in [Threads -> Places] :
          /\ p = pc \/ \E t \in Threads : pc[t] = "notify" /\ p = [pc EXCEPT ![t] = "woken"]
          /\ Wakes(p, pc')
    BY <1>3 DEF Wakeup
  <2>2. Serving(pc') = Serving(p) BY <2>1, WakesFacts
  <2>3. Serving(p) = Serving(pc)
    <3>1. "woken" \in Places BY DEF Places
    <3> QED BY <1>0, <2>1, <3>1, CountFacts
  <2> QED BY <1>3, <2>2, <2>3 DEF Wakeup, Counted
<1>4. ASSUME UNCHANGED <<pc, nThreadsServicingQueue>> PROVE Counted'
  BY <1>4 DEF Counted
<1> QED BY <1>1, <1>2, <1>3, <1>4, Kinds, Zenon DEF MockForward, Schedule, Stop, Join, Tick

\* Where a step can put a thread: only a thread at the head of the loop ends, for a stop, and a
\* thread that has ended stays.
LEMMA EndedFacts ==
  ASSUME TypeOK, Next
  PROVE  /\ \A t \in Threads : pc[t] = "ended" => pc'[t] = "ended"
         /\ (\E t \in Threads : pc[t] # "ended" /\ pc'[t] = "ended")
              => ShouldStop /\ UNCHANGED <<taskQueue, stopFlags, client>>
<1>0. pc \in [Threads -> Places] BY DEF TypeOK
<1>1. ASSUME NEW t \in Threads, Loops(t)
      PROVE  /\ \A u \in Threads : pc[u] = "ended" => pc'[u] = "ended"
             /\ (\E u \in Threads : pc[u] # "ended" /\ pc'[u] = "ended") => ShouldStop
             /\ UNCHANGED <<taskQueue, stopFlags, client>>
  <2>1. pc[t] # "ended" BY <1>1 DEF Loops
  <2>2. PICK n \in Int : LoopEnds(t, n) \/ LoopWaits(t, n) BY <1>1 DEF Loops
  <2>3. CASE LoopEnds(t, n)
    <3> DEFINE p == [pc EXCEPT ![t] = "ended"]
    <3>1. p \in [Threads -> Places] BY <1>0 DEF Places
    <3>2. \A u \in Threads : pc'[u] = "ended" <=> p[u] = "ended"
      BY <2>3, <3>1, WakesFacts, Zenon DEF LoopEnds
    <3> QED BY <1>0, <1>1, <2>3, <3>2 DEF LoopEnds, Loops
  <2>4. CASE LoopWaits(t, n)
    <3>1. PICK l \in {"wait", "timed"} : pc' = [pc EXCEPT ![t] = l] BY <2>4 DEF LoopWaits
    <3> QED BY <1>0, <1>1, <2>1, <3>1 DEF Loops
  <2> QED BY <2>2, <2>3, <2>4
<1>2. ASSUME NEW t \in Threads, Takes(t) \/ FinishTask(t)
      PROVE  \A u \in Threads : pc'[u] = "ended" <=> pc[u] = "ended"
  <2>1. PICK l \in {"run", "notify", "woken"} : pc' = [pc EXCEPT ![t] = l]
    BY <1>2, FinishFacts DEF Takes
  <2>2. pc[t] # "ended" BY <1>2 DEF Takes, FinishTask
  <2> QED BY <1>0, <2>1, <2>2
<1>3. ASSUME Wakeup PROVE \A u \in Threads : pc'[u] = "ended" <=> pc[u] = "ended"
  <2>1. PICK p \in [Threads -> Places] :
          /\ p = pc \/ \E t \in Threads : pc[t] = "notify" /\ p = [pc EXCEPT ![t] = "woken"]
          /\ Wakes(p, pc')
    BY <1>3 DEF Wakeup
  <2>2. \A u \in Threads : pc'[u] = "ended" <=> p[u] = "ended" BY <2>1, WakesFacts
  <2>3. \A u \in Threads : p[u] = "ended" <=> pc[u] = "ended" BY <1>0, <2>1
  <2> QED BY <2>2, <2>3
<1>4. ASSUME UNCHANGED pc PROVE \A u \in Threads : pc'[u] = "ended" <=> pc[u] = "ended"
  BY <1>4
<1>5. CASE \E t \in Threads : Loops(t) BY <1>1, <1>5
<1>6. CASE \E t \in Threads : Takes(t) \/ FinishTask(t) BY <1>2, <1>6
<1>7. CASE UNCHANGED pc BY <1>7
<1> QED BY <1>3, <1>5, <1>6, <1>7, Kinds, Zenon DEF MockForward, Schedule, Stop, Join, Tick

\* The order of the client's calls and the threads' leaving.
LEMMA StopStep == ASSUME TypeOK, StopOrder, Next PROVE StopOrder'
<1>0. stopRequested \in BOOLEAN /\ stopWhenEmpty \in BOOLEAN BY DEF TypeOK
<1>1. /\ \A t \in Threads : pc[t] = "ended" => pc'[t] = "ended"
      /\ (\E t \in Threads : pc[t] # "ended" /\ pc'[t] = "ended")
           => ShouldStop /\ UNCHANGED <<taskQueue, stopFlags, client>>
  BY EndedFacts
<1>2. ASSUME UNCHANGED stopFlags,
             client' = client \/ <<client, client'>> \in {<<"notify", "idle">>, <<"stopping", "joining">>}
                \/ <<client, client'>> = <<"idle", "notify">>
                \/ Join
      PROVE  StopOrder'
  <2>1. (\E t \in Threads : pc'[t] = "ended") => stopRequested' \/ stopWhenEmpty'
    BY <1>1, <1>2 DEF StopOrder, stopFlags, ShouldStop
  <2>2. client' \in {"idle", "notify"} => ~stopRequested' /\ ~stopWhenEmpty'
    BY <1>2 DEF StopOrder, stopFlags, Join
  <2>3. ~(stopRequested' /\ stopWhenEmpty') BY <1>2 DEF StopOrder, stopFlags
  <2>4. client' = "joined" => \A t \in Threads : pc'[t] = "ended"
    BY <1>1, <1>2 DEF StopOrder, Join
  <2> QED BY <2>1, <2>2, <2>3, <2>4 DEF StopOrder
<1>3. ASSUME Stop PROVE StopOrder'
  BY <1>3 DEF Stop, StopOrder
<1>4. CASE \E t \in Threads : Loops(t) \/ Takes(t) \/ FinishTask(t)
  BY <1>2, <1>4 DEF Loops, Takes, FinishTask
<1>5. CASE \E d \in Delays : MockForward(d) \/ \E k \in Tasks : Schedule(k, d)
  BY <1>2, <1>5, Zenon DEF MockForward, Schedule
<1>6. CASE Wakeup \/ Join \/ Tick
  BY <1>2, <1>6 DEF Wakeup, Join, Tick
<1> QED BY <1>3, <1>4, <1>5, <1>6, Kinds

\* A queue that was drained for the last thread to leave gets no task any more.
LEMMA DrainStep == ASSUME TypeOK, StopOrder, Drained, Next PROVE Drained'
<1>0. pc \in [Threads -> Places] BY DEF TypeOK
<1> SUFFICES ASSUME stopWhenEmpty', AllEnded(pc') PROVE taskQueue' = <<>>
  BY DEF Drained
<1>1. CASE AllEnded(pc)
  <2>1. PICK t \in Threads : pc[t] = "ended" BY <1>1, SchedulerAssumption DEF AllEnded
  <2>2. client \notin {"idle", "notify"} BY <2>1 DEF StopOrder
  <2>3. \A u \in Threads : ~Loops(u) /\ ~Takes(u) /\ ~FinishTask(u)
    BY <1>1 DEF AllEnded, Loops, Takes, FinishTask
  <2>4. Wakeup \/ Join \/ Tick
    BY <2>2, <2>3, Kinds, Zenon DEF MockForward, Schedule, Stop
  <2>5. UNCHANGED <<taskQueue, stopWhenEmpty>> BY <2>4, Zenon DEF Wakeup, Join, Tick, stopFlags
  <2> QED BY <1>1, <2>5 DEF Drained
<1>2. CASE ~AllEnded(pc)
  <2>1. \E t \in Threads : pc[t] # "ended" /\ pc'[t] = "ended" BY <1>2 DEF AllEnded
  <2>2. ShouldStop /\ UNCHANGED <<taskQueue, stopFlags, client>> BY <2>1, EndedFacts
  <2>3. stopWhenEmpty BY <2>2 DEF stopFlags
  <2> QED BY <2>2, <2>3 DEF ShouldStop, StopOrder
<1> QED BY <1>1, <1>2

\* Whatever happens during the wait of the only thread, the first task stays due at its end.
LEMMA DueStep == ASSUME TypeOK, HeadDue, Next PROVE HeadDue'
<1>0. /\ pc \in [Threads -> Places] /\ timeToWaitFor \in [Threads -> Nat]
      /\ taskQueue \in Seq(Items)
  BY DEF TypeOK
<1> SUFFICES ASSUME NEW t \in Threads, pc'[t] \in {"timed", "timed_woken"}, Alone(pc', t)
             PROVE  taskQueue' # <<>> /\ Head(taskQueue').time <= timeToWaitFor'[t]
  BY DEF HeadDue
<1>1. \A u \in Threads : pc'[u] \in {"start", "timed", "timed_woken"} BY DEF Alone
<1>2. taskQueue # <<>> => Head(taskQueue).time \in Nat BY <1>0, ItemFacts
<1>3. ASSUME NEW u \in Threads, Loops(u)
      PROVE  taskQueue' # <<>> /\ Head(taskQueue').time <= timeToWaitFor'[t]
  <2>1. PICK n \in Int : LoopEnds(u, n) \/ LoopWaits(u, n) BY <1>3 DEF Loops
  <2>2. ~LoopEnds(u, n)
    <3> SUFFICES ASSUME LoopEnds(u, n) PROVE FALSE
      OBVIOUS
    <3> DEFINE p == [pc EXCEPT ![u] = "ended"]
    <3>1. p \in [Threads -> Places] /\ p[u] = "ended" BY <1>0 DEF Places
    <3>2. pc'[u] = "ended" BY <3>1, WakesFacts, Zenon DEF LoopEnds
    <3> QED BY <1>1, <3>2
  <2>3. PICK l \in {"wait", "timed"} : pc' = [pc EXCEPT ![u] = l] BY <2>1, <2>2 DEF LoopWaits
  <2>4. pc'[u] = l BY <1>0, <2>3
  <2>5. u = t /\ l = "timed" BY <1>1, <2>4 DEF Alone
  <2>6. /\ pc' = [pc EXCEPT ![t] = "timed"] /\ taskQueue # <<>>
        /\ timeToWaitFor' = [timeToWaitFor EXCEPT ![t] = Head(taskQueue).time]
    BY <1>0, <2>1, <2>2, <2>4, <2>5 DEF LoopWaits
  <2>7. taskQueue' = taskQueue BY <1>3 DEF Loops
  <2> QED BY <1>0, <1>2, <2>6, <2>7
<1>4. ASSUME NEW u \in Threads, Takes(u) \/ FinishTask(u) PROVE FALSE
  <2>1. PICK l \in {"run", "notify", "woken"} : pc' = [pc EXCEPT ![u] = l]
    BY <1>4, FinishFacts DEF Takes
  <2>2. pc'[u] = l BY <1>0, <2>1
  <2> QED BY <1>1, <2>2
<1>5. ASSUME Wakeup
      PROVE  taskQueue' # <<>> /\ Head(taskQueue').time <= timeToWaitFor'[t]
  <2>1. PICK p \in [Threads -> Places] :
          /\ p = pc \/ \E u \in Threads : pc[u] = "notify" /\ p = [pc EXCEPT ![u] = "woken"]
          /\ Wakes(p, pc')
    BY <1>5 DEF Wakeup
  <2>2. p[t] \in {"timed", "timed_woken"} /\ Alone(p, t)
    BY <2>1, WakesFacts DEF Alone
  <2>3. \A u \in Threads : p[u] # "woken" BY <2>2 DEF Alone
  <2>4. p = pc BY <1>0, <2>1, <2>3
  <2>5. taskQueue # <<>> /\ Head(taskQueue).time <= timeToWaitFor[t]
    BY <2>2, <2>4 DEF HeadDue
  <2> QED BY <1>5, <2>5 DEF Wakeup
<1>6. ASSUME UNCHANGED <<pc, timeToWaitFor>>, taskQueue' \in Seq(Items),
             taskQueue # <<>> => taskQueue' # <<>> /\ Head(taskQueue').time <= Head(taskQueue).time
      PROVE  taskQueue' # <<>> /\ Head(taskQueue').time <= timeToWaitFor'[t]
  <2>1. taskQueue # <<>> /\ Head(taskQueue).time <= timeToWaitFor[t]
    BY <1>6 DEF HeadDue
  <2>2. Head(taskQueue').time \in Nat BY <1>6, <2>1, ItemFacts
  <2> QED BY <1>0, <1>2, <1>6, <2>1, <2>2
<1>7. ASSUME NEW d \in Delays, MockForward(d) \/ \E k \in Tasks : Schedule(k, d)
      PROVE  taskQueue' # <<>> /\ Head(taskQueue').time <= timeToWaitFor'[t]
  <2>1. d \in Nat BY SchedulerAssumption
  <2>2. /\ taskQueue' \in Seq(Items)
        /\ taskQueue # <<>> => taskQueue' # <<>> /\ Head(taskQueue').time <= Head(taskQueue).time
    BY <1>7, <2>1, ForwardFacts, ScheduleFacts, Zenon DEF Schedule
  <2>3. UNCHANGED <<pc, timeToWaitFor>> BY <1>7, Zenon DEF MockForward, Schedule
  <2> QED BY <1>6, <2>2, <2>3
<1>8. ASSUME Stop \/ Join \/ Tick
      PROVE  taskQueue' # <<>> /\ Head(taskQueue').time <= timeToWaitFor'[t]
  <2>1. UNCHANGED <<taskQueue, pc, timeToWaitFor>> BY <1>8 DEF Stop, Join, Tick
  <2> QED BY <1>0, <1>2, <1>6, <2>1
<1> QED BY <1>3, <1>4, <1>5, <1>7, <1>8, Kinds

---------------------------------------------------------------------------
\* The invariant of the scheduler: its count of threads is right, threads leave after a stop,
\* the last one leaves a drained queue drained, and the head of the queue is due when the
\* only thread's wait ends.
THEOREM Inductive == Spec => []Inv
<1>1. Init => Inv
  <2> SUFFICES ASSUME Init PROVE Inv
    OBVIOUS
  <2>1. TypeOK
    <3>1. taskQueue \in Seq(Items) /\ nThreadsServicingQueue \in Int /\ now \in Nat BY DEF Init
    <3>2. pc \in [Threads -> Places] /\ timeToWaitFor \in [Threads -> Nat] BY DEF Init, Places
    <3>3. f \in [Threads -> Items \cup {NoTask}] /\ unused \subseteq Tasks BY DEF Init
    <3>4. stopRequested \in BOOLEAN /\ stopWhenEmpty \in BOOLEAN BY Zenon DEF Init
    <3>5. client \in {"idle", "notify", "stopping", "joining", "joined"} BY DEF Init
    <3> QED BY <3>1, <3>2, <3>3, <3>4, <3>5 DEF TypeOK
  <2>2. \A t \in Threads : pc[t] = "start" BY DEF Init
  <2>3. Counted
    <3>1. Serving(pc) = {} BY <2>2 DEF Serving
    <3> QED BY <3>1, FS_EmptySet DEF Init, Counted
  <2>4. StopOrder BY <2>2 DEF Init, StopOrder
  <2>5. Drained /\ HeadDue BY <2>2 DEF Init, Drained, HeadDue
  <2> QED BY <2>1, <2>3, <2>4, <2>5 DEF Inv
<1>2. Inv /\ [Next]_vars => Inv'
  <2> SUFFICES ASSUME Inv, [Next]_vars PROVE Inv'
    OBVIOUS
  <2>1. CASE Next
    BY <2>1, TypeStep, CountStep, StopStep, DrainStep, DueStep DEF Inv
  <2>2. CASE UNCHANGED vars
    <3>1. TypeOK' /\ Counted' BY <2>2 DEF Inv, TypeOK, Counted, vars, stopFlags
    <3>2. StopOrder' /\ Drained' BY <2>2 DEF Inv, StopOrder, Drained, vars, stopFlags
    <3>3. HeadDue' BY <2>2 DEF Inv, HeadDue, vars
    <3> QED BY <3>1, <3>2, <3>3 DEF Inv
  <2> QED BY <2>1, <2>2
<1> QED BY <1>1, <1>2, PTL DEF Spec

\* ~CScheduler's assertions: no thread is counted when all are joined, and StopWhenDrained has
\* run every task.
THEOREM StopsClean == Spec => []DestructorSafe
<1>1. Inv => DestructorSafe
  <2> SUFFICES ASSUME Inv, client = "joined"
               PROVE  nThreadsServicingQueue = 0 /\ (stopWhenEmpty => taskQueue = <<>>)
    BY DEF DestructorSafe
  <2>1. \A t \in Threads : pc[t] = "ended" BY DEF Inv, StopOrder
  <2>2. Serving(pc) = {} BY <2>1 DEF Serving
  <2>3. nThreadsServicingQueue = 0 BY <2>2, FS_EmptySet DEF Inv, Counted
  <2>4. stopWhenEmpty => taskQueue = <<>> BY <2>1 DEF Inv, Drained, AllEnded
  <2> QED BY <2>3, <2>4
<1> QED BY <1>1, Inductive, PTL

\* serviceQueue: a thread that serves the queue alone takes no task before its time.
THEOREM NoEarlyTask == Spec => NotEarly
<1> DEFINE Due ==
      \A t \in Threads :
        f'[t] \notin {f[t], NoTask} /\ (\A u \in Threads \ {t} : pc[u] = "start")
          => f'[t].time <= now
<1>1. Inv /\ [Next]_vars => [Due]_vars
  <2> SUFFICES ASSUME Inv, Next, NEW t \in Threads, f'[t] \notin {f[t], NoTask},
                      \A u \in Threads \ {t} : pc[u] = "start"
               PROVE  f'[t].time <= now
    OBVIOUS
  <2>0. /\ f \in [Threads -> Items \cup {NoTask}] /\ taskQueue \in Seq(Items)
        /\ timeToWaitFor \in [Threads -> Nat] /\ now \in Nat
    BY DEF Inv, TypeOK
  <2>1. ASSUME NEW u \in Threads, Loops(u) PROVE FALSE
    BY <2>0, <2>1 DEF Loops
  <2>2. ~UNCHANGED f OBVIOUS
  <2>3. PICK u \in Threads : Takes(u)
    BY <2>1, <2>2, Kinds, Zenon DEF Inv, FinishTask, MockForward, Schedule, Wakeup, Stop, Join, Tick
  <2>4. u = t /\ f'[t] = Head(taskQueue) BY <2>0, <2>3 DEF Takes
  <2>5. taskQueue # <<>> /\ Head(taskQueue).time <= timeToWaitFor[t]
    BY <2>3, <2>4 DEF Takes, Inv, HeadDue, Alone
  <2>6. now >= timeToWaitFor[t] BY <2>3, <2>4 DEF Takes
  <2>7. Head(taskQueue).time \in Nat BY <2>0, <2>5, ItemFacts
  <2> QED BY <2>0, <2>4, <2>5, <2>6, <2>7
<1> QED BY <1>1, Inductive, PTL DEF Spec, NotEarly
=============================================================================
