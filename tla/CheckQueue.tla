----------------------------- MODULE CheckQueue -----------------------------
(***************************************************************************)
(* The parallel verification of a block's scripts (checkqueue.h).          *)
(*                                                                         *)
(* The master (the thread in ConnectBlock, holding a CCheckQueueControl)   *)
(* adds batches of checks to a queue and then joins the workers in Loop    *)
(* until all checks are done.  A stretch of Loop under m_mutex, up to the  *)
(* unlock or to cond.wait, is one step; the checks of a batch run between  *)
(* two such steps and touch nothing shared.  Condition variables lose      *)
(* notifications nobody waits for, and may wake a thread for no reason.    *)
(*                                                                         *)
(* A check is an identity; Good are the ones that succeed.  The queue is a *)
(* set: "the order of booleans doesn't matter" (checkqueue.h:43).          *)
(***************************************************************************)
EXTENDS Integers, FiniteSets

CONSTANTS Workers, Master, Checks, Good, BatchSize

ASSUME CheckQueueAssumption ==
  /\ Master \notin Workers /\ IsFiniteSet(Workers)
  /\ Good \subseteq Checks
  /\ BatchSize \in Nat \ {0}

VARIABLES
  queue, nIdle, nTotal, fAllOk, nTodo, m_request_stop,   \* as in CCheckQueue
  pc,        \* where each thread is
  vChecks,   \* the batch each thread has taken; nNow is its size
  fOk,       \* each thread's fOk when it took the batch
  session,   \* the checks added under the current or last CCheckQueueControl
  result,    \* what the last Wait returned
  pool       \* progress of StartWorkerThreads and StopWorkerThreads

shared == <<queue, nIdle, nTotal, fAllOk, nTodo>>
vars == <<shared, m_request_stop, pc, vChecks, fOk, session, result, pool>>

Threads == Workers \cup {Master}

---------------------------------------------------------------------------
Max2(a, b) == IF a >= b THEN a ELSE b
Min2(a, b) == IF a <= b THEN a ELSE b

\* The number of checks a thread takes.
NNow(total, idle) ==
  Max2(1, Min2(BatchSize, Cardinality(queue) \div (total + idle + 1)))

Sleepers == {w \in Workers : pc[w] = "waiting"}
Woken(S, pcs) == [t \in Threads |-> IF t \in S THEN "woken" ELSE pcs[t]]

\* The body of Loop for thread t from the head of its while loop: "total", "idle",
\* "todo", "ok" and "pcs" are nTotal, nIdle, nTodo, fAllOk and pc at that point.
ReturnEarly(t, total, idle, todo, ok, pcs) ==   \* variant: does not wait for the others
  /\ queue = {} /\ ~m_request_stop /\ t = Master
  /\ nTotal' = total - 1 /\ nIdle' = idle /\ nTodo' = todo
  /\ result' = ok /\ fAllOk' = TRUE
  /\ pc' = [pcs EXCEPT ![t] = "idle"]
  /\ vChecks' = [vChecks EXCEPT ![t] = {}]
  /\ UNCHANGED <<queue, fOk>>
Return(t, total, idle, todo, ok, pcs) ==
  /\ queue = {} /\ ~m_request_stop /\ t = Master /\ todo = 0
  /\ nTotal' = total - 1 /\ nIdle' = idle /\ nTodo' = todo
  /\ result' = ok /\ fAllOk' = TRUE
  /\ pc' = [pcs EXCEPT ![t] = "idle"]
  /\ vChecks' = [vChecks EXCEPT ![t] = {}]
  /\ UNCHANGED <<queue, fOk>>

Sleep(t, total, idle, todo, ok, pcs) ==
  /\ queue = {} /\ ~m_request_stop /\ ~(t = Master /\ todo = 0)
  /\ nTotal' = total /\ nIdle' = idle + 1 /\ nTodo' = todo /\ fAllOk' = ok
  /\ pc' = [pcs EXCEPT ![t] = "waiting"]
  /\ vChecks' = [vChecks EXCEPT ![t] = {}]
  /\ UNCHANGED <<queue, fOk, result>>

Quit(t, total, idle, todo, ok, pcs) ==
  /\ m_request_stop
  /\ nTotal' = total /\ nIdle' = idle /\ nTodo' = todo /\ fAllOk' = ok
  /\ pc' = [pcs EXCEPT ![t] = "stopped"]
  /\ vChecks' = [vChecks EXCEPT ![t] = {}]
  /\ UNCHANGED <<queue, fOk, result>>

Take(t, total, idle, todo, ok, pcs) ==
  /\ queue # {} /\ ~m_request_stop
  /\ nTotal' = total /\ nIdle' = idle /\ nTodo' = todo /\ fAllOk' = ok
  /\ pc' = [pcs EXCEPT ![t] = "work"]
  /\ \E B \in SUBSET queue :
       /\ Cardinality(B) = NNow(total, idle)
       /\ vChecks' = [vChecks EXCEPT ![t] = B]
       /\ queue' = queue \ B
  /\ fOk' = [fOk EXCEPT ![t] = ok]
  /\ UNCHANGED result

LoopBody(t, total, idle, todo, ok, pcs) ==
  /\ \/ Return(t, total, idle, todo, ok, pcs)
     \/ Sleep(t, total, idle, todo, ok, pcs)
     \/ Quit(t, total, idle, todo, ok, pcs)
     \/ Take(t, total, idle, todo, ok, pcs)
  /\ UNCHANGED <<m_request_stop, session, pool>>

---------------------------------------------------------------------------
Init ==
  /\ queue = {} /\ nIdle = 0 /\ nTotal = 0 /\ fAllOk = TRUE /\ nTodo = 0
  /\ m_request_stop = FALSE
  /\ pc = [t \in Threads |-> IF t = Master THEN "idle" ELSE "stopped"]
  /\ vChecks = [t \in Threads |-> {}]
  /\ fOk = [t \in Threads |-> TRUE]
  /\ session = {} /\ result = TRUE
  /\ pool = "off"

StartWorkerThreads ==
  /\ pool = "off"
  /\ nIdle' = 0 /\ nTotal' = 0 /\ fAllOk' = TRUE
  /\ pc' = [t \in Threads |-> IF t \in Workers THEN "enter" ELSE pc[t]]
  /\ pool' = "running"
  /\ UNCHANGED <<queue, nTodo, m_request_stop, vChecks, fOk, session, result>>

\* First and last iteration of Loop: from the start, from cond.wait, from the checks.
Enter(t) ==
  /\ pc[t] = "enter"
  /\ LoopBody(t, nTotal + 1, nIdle, nTodo, fAllOk, pc)

Wake(t) ==
  /\ pc[t] = "woken"
  /\ LoopBody(t, nTotal, nIdle - 1, nTodo, fAllOk, pc)

\* The result of the batch: no check runs after one has failed.
BatchOk(t) == fOk[t] /\ vChecks[t] \subseteq Good

FinishSilently(t) ==   \* variant: the master is not told
  /\ pc[t] = "work"
  /\ LoopBody(t, nTotal, nIdle, nTodo - Cardinality(vChecks[t]), fAllOk /\ BatchOk(t), pc)
FinishOverwrite(t) ==   \* variant: = for &=
  LET todo == nTodo - Cardinality(vChecks[t])
      told == IF todo = 0 /\ t # Master /\ pc[Master] = "waiting" THEN {Master} ELSE {}
  IN  /\ pc[t] = "work"
      /\ LoopBody(t, nTotal, nIdle, todo, BatchOk(t), Woken(told, pc))
Finish(t) ==
  LET todo == nTodo - Cardinality(vChecks[t])
      told == IF todo = 0 /\ t # Master /\ pc[Master] = "waiting" THEN {Master} ELSE {}
  IN  /\ pc[t] = "work"
      /\ LoopBody(t, nTotal, nIdle, todo, fAllOk /\ BatchOk(t), Woken(told, pc))

SpuriousWakeup(t) ==
  /\ pc[t] = "waiting"
  /\ pc' = [pc EXCEPT ![t] = "woken"]
  /\ UNCHANGED <<shared, m_request_stop, vChecks, fOk, session, result, pool>>

---------------------------------------------------------------------------
\* The master: CCheckQueueControl's constructor, Add (locked part, then the
\* notification), and Wait, which the destructor calls when ConnectBlock has not.
Control ==
  /\ pc[Master] = "idle" /\ pool = "running"
  /\ pc' = [pc EXCEPT ![Master] = "adding"]
  /\ session' = {}
  /\ UNCHANGED <<shared, m_request_stop, vChecks, fOk, result, pool>>

AddUncounted(S) ==   \* variant: = for +=
  /\ pc[Master] = "adding" /\ S # {}
  /\ queue' = queue \cup S
  /\ nTodo' = Cardinality(S)
  /\ session' = session \cup S
  /\ pc' = [pc EXCEPT ![Master] = IF Cardinality(S) = 1 THEN "notify_one" ELSE "notify_all"]
  /\ UNCHANGED <<nIdle, nTotal, fAllOk, m_request_stop, vChecks, fOk, result, pool>>
Add(S) ==
  /\ pc[Master] = "adding" /\ S # {}
  /\ queue' = queue \cup S
  /\ nTodo' = nTodo + Cardinality(S)
  /\ session' = session \cup S
  /\ pc' = [pc EXCEPT ![Master] = IF Cardinality(S) = 1 THEN "notify_one" ELSE "notify_all"]
  /\ UNCHANGED <<nIdle, nTotal, fAllOk, m_request_stop, vChecks, fOk, result, pool>>

NotifyOne ==
  /\ pc[Master] = "notify_one"
  /\ \E S \in SUBSET Sleepers :
       /\ IF Sleepers = {} THEN S = {} ELSE \E w \in Sleepers : S = {w}
       /\ pc' = [Woken(S, pc) EXCEPT ![Master] = "adding"]
  /\ UNCHANGED <<shared, m_request_stop, vChecks, fOk, session, result, pool>>

NotifyAll ==
  /\ pc[Master] = "notify_all"
  /\ pc' = [Woken(Sleepers, pc) EXCEPT ![Master] = "adding"]
  /\ UNCHANGED <<shared, m_request_stop, vChecks, fOk, session, result, pool>>

Wait ==
  /\ pc[Master] = "adding"
  /\ pc' = [pc EXCEPT ![Master] = "enter"]
  /\ UNCHANGED <<shared, m_request_stop, vChecks, fOk, session, result, pool>>

\* StopWorkerThreads, from Shutdown: nobody verifies blocks any more (init.cpp:216-236).
RequestStop ==
  /\ pool = "running" /\ pc[Master] = "idle"
  /\ m_request_stop' = TRUE
  /\ pool' = "requested"
  /\ UNCHANGED <<shared, pc, vChecks, fOk, session, result>>

NotifyStopOne ==   \* variant: notify_one
  /\ pool = "requested"
  /\ pool' = "joining"
  /\ \E S \in SUBSET Sleepers :
       /\ IF Sleepers = {} THEN S = {} ELSE \E w \in Sleepers : S = {w}
       /\ pc' = Woken(S, pc)
  /\ UNCHANGED <<shared, m_request_stop, vChecks, fOk, session, result>>
NotifyStop ==
  /\ pool = "requested"
  /\ pool' = "joining"
  /\ pc' = Woken(Sleepers, pc)
  /\ UNCHANGED <<shared, m_request_stop, vChecks, fOk, session, result>>

Join ==
  /\ pool = "joining" /\ \A w \in Workers : pc[w] = "stopped"
  /\ m_request_stop' = FALSE
  /\ pool' = "off"
  /\ UNCHANGED <<shared, pc, vChecks, fOk, session, result>>

Next ==
  \/ StartWorkerThreads \/ RequestStop \/ NotifyStop \/ Join
  \/ Control \/ NotifyOne \/ NotifyAll \/ Wait
  \/ \E S \in SUBSET (Checks \ session) : IsFiniteSet(S) /\ Add(S)
  \/ \E t \in Threads : Enter(t) \/ Wake(t) \/ Finish(t) \/ SpuriousWakeup(t)

Spec == Init /\ [][Next]_vars

\* Threads that can run are scheduled, checks end, and ConnectBlock and Shutdown get to
\* their next call; nothing makes a spurious wakeup, an Add or a new session happen.
Fairness ==
  /\ \A t \in Threads : WF_vars(Enter(t) \/ Wake(t) \/ Finish(t))
  /\ WF_vars(NotifyOne \/ NotifyAll)
  /\ WF_vars(NotifyStop) /\ WF_vars(Join)
FairSpec == Spec /\ Fairness

---------------------------------------------------------------------------
Pcs == {"idle", "adding", "notify_one", "notify_all", "enter", "waiting", "woken", "work", "stopped"}
In(pcs, S) == {t \in Threads : pcs[t] \in S}
Pending == {c \in Checks : c \in queue \/ \E t \in Threads : c \in vChecks[t]}

TypeOK ==
  /\ queue \subseteq Checks /\ session \subseteq Checks
  /\ nIdle \in Nat /\ nTotal \in Nat /\ nTodo \in Nat
  /\ fAllOk \in BOOLEAN /\ m_request_stop \in BOOLEAN /\ result \in BOOLEAN
  /\ pc \in [Threads -> Pcs]
  /\ vChecks \in [Threads -> SUBSET Checks]
  /\ fOk \in [Threads -> BOOLEAN]
  /\ pool \in {"off", "running", "requested", "joining"}

\* Wait returns true exactly when every check added since the control was created
\* succeeds: a block is accepted only if all its scripts were verified, and one bad
\* block does not spoil the next.
ResultExact == pc[Master] = "idle" => (result <=> session \subseteq Good)

\* nTodo counts the checks queued or in the hands of some thread, and no check is in two
\* places: the counter by which the master decides that all is done never drifts.
TodoExact ==
  /\ nTodo = Cardinality(Pending)
  /\ \A t \in Threads : vChecks[t] \cap queue = {}
  /\ \A t, u \in Threads : t # u => vChecks[t] \cap vChecks[u] = {}

\* Once Wait has returned no thread holds a check: ConnectBlock may let go of what the
\* checks point to, and the next control finds the queue unused (checkqueue.h:226).
QuietWhenIdle == pc[Master] = "idle" => Pending = {} /\ fAllOk

\* nIdle and (while the pool is up) nTotal count the threads in cond.wait and in Loop, so
\* that the batch sizes are computed from the truth.
CountsExact ==
  /\ nIdle = Cardinality(In(pc, {"waiting", "woken"}))
  /\ pool = "running" => nTotal = Cardinality(In(pc, {"waiting", "woken", "work"}))

\* Every Wait returns: the master is told of the last batch whoever finishes it.
WaitReturns == (pc[Master] = "enter") ~> (pc[Master] = "idle")

\* StopWorkerThreads joins all workers, wherever the request finds them.
StopEnds == (pool = "requested") ~> (pool = "off")
===========================================================================
