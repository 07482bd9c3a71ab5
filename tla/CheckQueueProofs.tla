-------------------------- MODULE CheckQueueProofs --------------------------
(***************************************************************************)
(* The check queue returns the right answer, for any number of workers,    *)
(* any batch size and any finite set of checks added.                      *)
(***************************************************************************)
EXTENDS CheckQueue, FiniteSetTheorems, TLAPS

Dozing == {"waiting", "woken"}
Looping == {"waiting", "woken", "work"}

\* Only a working thread holds checks, all pending checks belong to the session, and the
\* master is out of Loop while the pool is not up.
Custody ==
  /\ IsFiniteSet(session) /\ Pending \subseteq session
  /\ \A t \in Threads : pc[t] = "work" <=> vChecks[t] # {}
  /\ pool # "running" => pc[Master] = "idle"
  /\ m_request_stop => pool \in {"requested", "joining"}

\* During a session the status is exact about the checks that are done, and a thread that skips its
\* batch does so because of a failure in the same session.
StatusOK ==
  /\ pc[Master] # "idle" /\ fAllOk => session \ Pending \subseteq Good
  /\ ~fAllOk => ~(session \subseteq Good)
  /\ \A t \in Threads : pc[t] = "work" /\ ~fOk[t] => ~(session \subseteq Good)

Ind ==
  /\ TypeOK /\ Custody /\ StatusOK
  /\ TodoExact /\ CountsExact /\ QuietWhenIdle /\ ResultExact

---------------------------------------------------------------------------
LEMMA ThreadsFinite == IsFiniteSet(Threads)
BY CheckQueueAssumption, FS_AddElement DEF Threads

\* The threads at some places of the code form a finite set.
LEMMA InFinite ==
  ASSUME NEW f, NEW S
  PROVE  /\ IsFiniteSet(In(f, S)) /\ Cardinality(In(f, S)) \in Nat
         /\ \A t : IsFiniteSet(In(f, S) \ {t}) /\ Cardinality(In(f, S) \ {t}) \in Nat
<1>1. IsFiniteSet(In(f, S))
  BY ThreadsFinite, FS_Subset DEF In
<1>2. \A t : IsFiniteSet(In(f, S) \ {t})
  BY <1>1, FS_RemoveElement
<1> QED BY <1>1, <1>2, FS_CardinalityType

\* What a thread's leaving or reaching a place does to the counts.
LEMMA CountLeave ==
  ASSUME NEW f, NEW S, NEW t \in Threads
  PROVE  /\ f[t] \in S => Cardinality(In(f, S) \ {t}) = Cardinality(In(f, S)) - 1
         /\ f[t] \notin S => In(f, S) \ {t} = In(f, S)
<1>1. IsFiniteSet(In(f, S)) BY InFinite
<1>2. t \in In(f, S) <=> f[t] \in S BY DEF In
<1> QED BY <1>1, <1>2, FS_RemoveElement, Zenon

LEMMA CountArrive ==
  ASSUME NEW f, NEW S, NEW t \in Threads, NEW g, g[t] \in S,
         \A u \in Threads \ {t} : g[u] = f[u]
  PROVE  Cardinality(In(g, S)) = Cardinality(In(f, S) \ {t}) + 1
<1>1. In(g, S) = (In(f, S) \ {t}) \cup {t} BY DEF In
<1>2. Cardinality((In(f, S) \ {t}) \cup {t}) = Cardinality(In(f, S) \ {t}) + 1
  BY InFinite, FS_AddElement, Zenon
<1> QED BY <1>1, <1>2

---------------------------------------------------------------------------
\* What holds of the arguments of LoopBody: t's own batch is accounted for, t itself is
\* not counted among the idle but is among the total.
Rest(t) == {c \in Checks : c \in queue \/ \E u \in Threads \ {t} : c \in vChecks[u]}

BodyPre(t, total, idle, todo, ok, pcs) ==
  /\ total \in Nat /\ idle \in Nat /\ todo \in Nat /\ ok \in BOOLEAN /\ pcs \in [Threads -> Pcs]
  /\ pool = "running" => total = Cardinality(In(pcs, Looping) \ {t}) + 1
  /\ idle = Cardinality(In(pcs, Dozing) \ {t})
  /\ todo = Cardinality(Rest(t))
  /\ t = Master => pool = "running"
  /\ \A u \in Threads \ {t} : (pcs[u] = "work" <=> pc[u] = "work") /\ (pcs[u] = "idle" <=> pc[u] = "idle")
  /\ (t = Master \/ pc[Master] # "idle") /\ ok => session \ Rest(t) \subseteq Good
  /\ ~ok => ~(session \subseteq Good)
  /\ t # Master /\ pc[Master] = "idle" => ok

LEMMA RestFinite ==
  ASSUME Ind, NEW t \in Threads
  PROVE  Rest(t) \subseteq Pending /\ IsFiniteSet(Rest(t)) /\ IsFiniteSet(Pending) /\ IsFiniteSet(queue)
<1>1. Rest(t) \subseteq Pending /\ queue \subseteq Pending
  BY DEF Rest, Pending, Ind, TypeOK
<1>2. IsFiniteSet(Pending)
  BY FS_Subset DEF Ind, Custody
<1> QED BY <1>1, <1>2, FS_Subset

LEMMA MasterThread == Master \in Threads /\ \A t \in Threads : t # Master => t \in Workers
BY CheckQueueAssumption DEF Threads

\* The master leaves Loop.
LEMMA ReturnKeeps ==
  ASSUME Ind, NEW t \in Threads, NEW total, NEW idle, NEW todo, NEW ok, NEW pcs,
         BodyPre(t, total, idle, todo, ok, pcs),
         Return(t, total, idle, todo, ok, pcs), UNCHANGED <<m_request_stop, session, pool>>
  PROVE  Ind'
<1> USE MasterThread
<1>1. t = Master /\ Rest(t) = {}
  BY RestFinite, FS_EmptySet, Zenon DEF BodyPre, Return
<1>2. pc' = [pcs EXCEPT ![t] = "idle"] /\ pc' \in [Threads -> Pcs] /\ pc'[Master] = "idle"
  BY <1>1 DEF Return, BodyPre, Pcs
<1>3. vChecks' = [vChecks EXCEPT ![t] = {}] /\ queue' = queue /\ fOk' = fOk
  BY DEF Return
<1>4. Pending' = {}
  BY <1>1, <1>3 DEF Rest, Pending, Ind, TypeOK
<1>5. TypeOK'
  <2>1. total - 1 \in Nat
    BY <1>1, InFinite DEF BodyPre
  <2> QED BY <1>2, <1>3, <2>1, SMTT(30) DEF TypeOK, Ind, Return, BodyPre
<1>6. Custody'
  BY <1>1, <1>2, <1>3, <1>4 DEF Custody, Ind, BodyPre, Pending, TypeOK
<1>7. StatusOK' /\ ResultExact' /\ QuietWhenIdle'
  <2>1. fAllOk' /\ result' = ok /\ session' = session
    BY DEF Return
  <2>2. ok <=> session \subseteq Good
    BY <1>1 DEF BodyPre
  <2>3. \A u \in Threads : pc'[u] = "work" => pc[u] = "work"
    BY <1>2, <1>1 DEF BodyPre
  <2> QED BY <1>2, <1>3, <1>4, <2>1, <2>2, <2>3 DEF StatusOK, ResultExact, QuietWhenIdle, Ind
<1>8. TodoExact'
  <2>1. nTodo' = 0 BY <1>1, FS_EmptySet DEF Return, BodyPre
  <2> QED BY <1>3, <1>4, <2>1, FS_EmptySet DEF TodoExact, Ind, TypeOK
<1>9. CountsExact'
  <2>1. "idle" \notin Dozing /\ "idle" \notin Looping BY DEF Dozing, Looping
  <2>2. pcs \in [Threads -> Pcs] BY DEF BodyPre
  <2>3. In(pc', Dozing) = In(pcs, Dozing) \ {t} /\ In(pc', Looping) = In(pcs, Looping) \ {t}
    BY <1>2, <2>1, <2>2 DEF In
  <2>4. Cardinality(In(pcs, Looping) \ {t}) \in Nat BY InFinite
  <2>5. total = Cardinality(In(pcs, Looping) \ {t}) + 1 /\ idle = Cardinality(In(pcs, Dozing) \ {t})
    BY <1>1 DEF BodyPre
  <2>6. nTotal' = total - 1 /\ nIdle' = idle
    BY DEF Return
  <2>7. nTotal' = Cardinality(In(pcs, Looping) \ {t})
    BY <2>4, <2>5, <2>6
  <2>8. nIdle' = Cardinality(In(pc', Dozing)) /\ nTotal' = Cardinality(In(pc', Looping))
    BY <2>3, <2>5, <2>6, <2>7
  <2> QED BY <2>8 DEF CountsExact, Dozing, Looping
<1> QED BY <1>5, <1>6, <1>7, <1>8, <1>9 DEF Ind

\* A thread goes to sleep, or a worker leaves Loop: nothing is held by t afterwards.
LEMMA EmptyHanded ==
  ASSUME Ind, NEW t \in Threads, NEW total, NEW idle, NEW todo, NEW ok, NEW pcs,
         NEW p \in {"waiting", "stopped"},
         BodyPre(t, total, idle, todo, ok, pcs),
         m_request_stop => t # Master, p = "waiting" => ~m_request_stop,
         t # Master \/ p = "waiting",
         nTodo' = todo, nTotal' = total, fAllOk' = ok,
         pc' = [pcs EXCEPT ![t] = p], vChecks' = [vChecks EXCEPT ![t] = {}],
         UNCHANGED <<queue, fOk, result, m_request_stop, session, pool>>
  PROVE  /\ Custody' /\ StatusOK' /\ QuietWhenIdle' /\ ResultExact' /\ TodoExact'
         /\ nIdle' \in Nat => TypeOK'
<1> USE MasterThread
<1>1. pc' \in [Threads -> Pcs] /\ pc'[t] = p /\ \A u \in Threads \ {t} : pc'[u] = pcs[u]
  BY DEF BodyPre, Pcs
<1>2. Pending' = Rest(t)
  BY DEF Rest, Pending, Ind, TypeOK
<1>3. pc'[Master] = "idle" <=> t # Master /\ pc[Master] = "idle"
  BY <1>1 DEF BodyPre
<1>4. \A u \in Threads : pc'[u] = "work" <=> u # t /\ pc[u] = "work"
  BY <1>1 DEF BodyPre
<1>5. Rest(t) \subseteq Pending /\ IsFiniteSet(Rest(t))
  BY RestFinite
<1>6. Custody'
  <2>1. \A u \in Threads : pc'[u] = "work" <=> vChecks'[u] # {}
    BY <1>4 DEF Ind, Custody, TypeOK
  <2>2. Pending' \subseteq session
    BY <1>2, <1>5 DEF Ind, Custody
  <2>3. pool # "running" => pc'[Master] = "idle"
    BY <1>3 DEF Ind, Custody, BodyPre
  <2> QED BY <2>1, <2>2, <2>3 DEF Custody, Ind
<1>7. StatusOK'
  <2>1. pc'[Master] # "idle" /\ ok => session \ Rest(t) \subseteq Good
    BY <1>3 DEF BodyPre
  <2>2. ~ok => ~(session \subseteq Good)
    BY DEF BodyPre
  <2> QED BY <1>2, <1>4, <2>1, <2>2 DEF StatusOK, Ind
<1>8. QuietWhenIdle' /\ ResultExact'
  <2>1. pc'[Master] = "idle" => ok /\ Rest(t) = {}
    BY <1>3, <1>5 DEF BodyPre, Ind, QuietWhenIdle
  <2> QED BY <1>2, <1>3, <2>1 DEF QuietWhenIdle, ResultExact, Ind
<1>9. TodoExact'
  BY <1>2 DEF TodoExact, Ind, BodyPre, TypeOK
<1>10. nIdle' \in Nat => TypeOK'
  BY <1>1 DEF TypeOK, Ind, BodyPre
<1> QED BY <1>6, <1>7, <1>8, <1>9, <1>10

LEMMA SleepKeeps ==
  ASSUME Ind, NEW t \in Threads, NEW total, NEW idle, NEW todo, NEW ok, NEW pcs,
         BodyPre(t, total, idle, todo, ok, pcs),
         Sleep(t, total, idle, todo, ok, pcs), UNCHANGED <<m_request_stop, session, pool>>
  PROVE  Ind'
<1>1. nIdle' \in Nat
  BY DEF Sleep, BodyPre
<1>2. /\ Custody' /\ StatusOK' /\ QuietWhenIdle' /\ ResultExact' /\ TodoExact'
      /\ nIdle' \in Nat => TypeOK'
  BY EmptyHanded, Zenon DEF Sleep
<1>3. CountsExact'
  <2>1. "waiting" \in Dozing /\ "waiting" \in Looping BY DEF Dozing, Looping
  <2>2. pcs \in [Threads -> Pcs] /\ pc' = [pcs EXCEPT ![t] = "waiting"] BY DEF BodyPre, Sleep
  <2>3. pc'[t] = "waiting" /\ \A u \in Threads \ {t} : pc'[u] = pcs[u]
    BY <2>2
  <2>4. /\ idle + 1 = Cardinality(In(pcs, Dozing) \ {t}) + 1
        /\ pool = "running" => total = Cardinality(In(pcs, Looping) \ {t}) + 1
    BY DEF BodyPre
  <2>5. nIdle' = idle + 1 /\ nTotal' = total
    BY DEF Sleep
  <2>6. /\ Cardinality(In(pc', Dozing)) = Cardinality(In(pcs, Dozing) \ {t}) + 1
        /\ Cardinality(In(pc', Looping)) = Cardinality(In(pcs, Looping) \ {t}) + 1
    BY <2>1, <2>3, CountArrive
  <2>7. nIdle' = Cardinality(In(pc', Dozing)) /\ (pool = "running" => nTotal' = Cardinality(In(pc', Looping)))
    BY <2>4, <2>5, <2>6
  <2> QED BY <2>7 DEF CountsExact, Dozing, Looping
<1> QED BY <1>1, <1>2, <1>3 DEF Ind

LEMMA QuitKeeps ==
  ASSUME Ind, NEW t \in Threads, NEW total, NEW idle, NEW todo, NEW ok, NEW pcs,
         BodyPre(t, total, idle, todo, ok, pcs),
         Quit(t, total, idle, todo, ok, pcs), UNCHANGED <<m_request_stop, session, pool>>
  PROVE  Ind'
<1>1. t # Master /\ pool # "running"
  BY DEF Quit, BodyPre, Ind, Custody
<1>2. nIdle' \in Nat
  BY DEF Quit, BodyPre
<1>3. /\ Custody' /\ StatusOK' /\ QuietWhenIdle' /\ ResultExact' /\ TodoExact'
      /\ nIdle' \in Nat => TypeOK'
  BY <1>1, EmptyHanded, Zenon DEF Quit
<1>4. CountsExact'
  <2>1. "stopped" \notin Dozing BY DEF Dozing
  <2>2. pcs \in [Threads -> Pcs] /\ pc' = [pcs EXCEPT ![t] = "stopped"] BY DEF BodyPre, Quit
  <2>3. In(pc', Dozing) = In(pcs, Dozing) \ {t}
    BY <2>1, <2>2 DEF In
  <2>4. nIdle' = Cardinality(In(pc', Dozing))
    BY <2>3, Zenon DEF Quit, BodyPre
  <2> QED BY <1>1, <2>4 DEF CountsExact, Dozing
<1> QED BY <1>2, <1>3, <1>4 DEF Ind

LEMMA TakeKeeps ==
  ASSUME Ind, NEW t \in Threads, NEW total, NEW idle, NEW todo, NEW ok, NEW pcs,
         BodyPre(t, total, idle, todo, ok, pcs),
         Take(t, total, idle, todo, ok, pcs), UNCHANGED <<m_request_stop, session, pool>>
  PROVE  Ind'
<1> USE MasterThread
<1>1. PICK B \in SUBSET queue : /\ Cardinality(B) = NNow(total, idle)
                                /\ vChecks' = [vChecks EXCEPT ![t] = B] /\ queue' = queue \ B
  BY Zenon DEF Take
<1> B # {}
  <2>1. Cardinality(queue) \div (total + idle + 1) \in Nat
    BY RestFinite, FS_CardinalityType, SMTT(30) DEF BodyPre
  <2>2. NNow(total, idle) >= 1
    BY <2>1, CheckQueueAssumption DEF NNow, Max2, Min2
  <2> QED BY <1>1, <2>2, FS_EmptySet
<1>2. /\ pc' = [pcs EXCEPT ![t] = "work"] /\ pc' \in [Threads -> Pcs] /\ pcs \in [Threads -> Pcs]
      /\ pc'[t] = "work" /\ \A u \in Threads \ {t} : pc'[u] = pcs[u]
  BY DEF Take, BodyPre, Pcs
<1>3. Pending' = Rest(t)
  BY <1>1 DEF Rest, Pending, Ind, TypeOK
<1>4. pc'[Master] # "idle" /\ (t = Master \/ pc[Master] # "idle")
  BY <1>2 DEF BodyPre, Take, Ind, QuietWhenIdle, Pending, TypeOK
<1>5. TypeOK'
  BY <1>1, <1>2 DEF TypeOK, Ind, BodyPre, Take
<1>6. Custody'
  <2>1. \A u \in Threads : pc'[u] = "work" <=> vChecks'[u] # {}
    BY <1>1, <1>2 DEF Ind, Custody, TypeOK, BodyPre
  <2>2. Pending' \subseteq session
    BY <1>3, RestFinite DEF Ind, Custody
  <2>3. pool = "running"
    BY <1>4 DEF Ind, Custody, BodyPre
  <2> QED BY <2>1, <2>2, <2>3 DEF Custody, Ind
<1>7. StatusOK'
  <2>1. fAllOk' = ok /\ fOk' = [fOk EXCEPT ![t] = ok]
    BY DEF Take
  <2>2. (ok => session \ Rest(t) \subseteq Good) /\ (~ok => ~(session \subseteq Good))
    BY <1>4 DEF BodyPre
  <2>3. \A u \in Threads \ {t} : (pc'[u] = "work" => pc[u] = "work") /\ fOk'[u] = fOk[u]
    BY <1>2, <2>1 DEF BodyPre, Ind, TypeOK
  <2>4. fOk'[t] = ok
    BY <2>1 DEF Ind, TypeOK
  <2>5. \A u \in Threads : pc'[u] = "work" /\ ~fOk'[u] => ~(session \subseteq Good)
    BY <2>2, <2>3, <2>4 DEF StatusOK, Ind
  <2> QED BY <1>3, <2>1, <2>2, <2>5 DEF StatusOK
<1>8. QuietWhenIdle' /\ ResultExact'
  BY <1>4 DEF QuietWhenIdle, ResultExact
<1>9. TodoExact'
  <2>1. nTodo' = Cardinality(Rest(t)) BY DEF Take, BodyPre
  <2> QED BY <1>1, <1>3, <2>1 DEF TodoExact, Ind, TypeOK
<1>10. CountsExact'
  <2>1. "work" \notin Dozing /\ "work" \in Looping BY DEF Dozing, Looping
  <2>2. In(pc', Dozing) = In(pcs, Dozing) \ {t}
    BY <1>2, <2>1 DEF In
  <2>3. /\ idle = Cardinality(In(pcs, Dozing) \ {t})
        /\ pool = "running" => total = Cardinality(In(pcs, Looping) \ {t}) + 1
    BY DEF BodyPre
  <2>4. nIdle' = idle /\ nTotal' = total
    BY DEF Take
  <2>5. Cardinality(In(pc', Looping)) = Cardinality(In(pcs, Looping) \ {t}) + 1
    <3>1. pc'[t] \in Looping /\ \A u \in Threads \ {t} : pc'[u] = pcs[u]
      BY <1>2, <2>1
    <3> QED BY <3>1, CountArrive
  <2>6. nIdle' = Cardinality(In(pc', Dozing)) /\ (pool = "running" => nTotal' = Cardinality(In(pc', Looping)))
    BY <2>2, <2>3, <2>4, <2>5
  <2> QED BY <2>6 DEF CountsExact, Dozing, Looping
<1> QED BY <1>5, <1>6, <1>7, <1>8, <1>9, <1>10 DEF Ind

LEMMA LoopBodyKeeps ==
  ASSUME Ind, NEW t \in Threads, NEW total, NEW idle, NEW todo, NEW ok, NEW pcs,
         BodyPre(t, total, idle, todo, ok, pcs), LoopBody(t, total, idle, todo, ok, pcs)
  PROVE  Ind'
BY ReturnKeeps, SleepKeeps, QuitKeeps, TakeKeeps DEF LoopBody

---------------------------------------------------------------------------
\* A thread that holds no checks: its entry to Loop, and its return from cond.wait.
LEMMA EnterKeeps ==
  ASSUME Ind, NEW t \in Threads, Enter(t)
  PROVE  Ind'
<1>1. pc[t] = "enter" /\ vChecks[t] = {} /\ Rest(t) = Pending
  BY DEF Enter, Ind, Custody, Rest, Pending
<1>2. In(pc, Dozing) \ {t} = In(pc, Dozing) /\ In(pc, Looping) \ {t} = In(pc, Looping)
  BY <1>1 DEF In, Dozing, Looping
<1>3. nIdle = Cardinality(In(pc, Dozing)) /\ (pool = "running" => nTotal = Cardinality(In(pc, Looping)))
  BY DEF Ind, CountsExact, Dozing, Looping
<1>4. nIdle = Cardinality(In(pc, Dozing) \ {t}) /\ (pool = "running" => nTotal + 1 = Cardinality(In(pc, Looping) \ {t}) + 1)
  BY <1>2, <1>3
<1>5. t = Master => pool = "running"
  BY <1>1 DEF Ind, Custody
<1>6. BodyPre(t, nTotal + 1, nIdle, nTodo, fAllOk, pc)
  BY <1>1, <1>4, <1>5 DEF BodyPre, Ind, TypeOK, TodoExact, StatusOK, QuietWhenIdle
<1> QED BY <1>6, LoopBodyKeeps DEF Enter

LEMMA WakeKeeps ==
  ASSUME Ind, NEW t \in Threads, Wake(t)
  PROVE  Ind'
<1>1. pc[t] = "woken" /\ vChecks[t] = {} /\ Rest(t) = Pending
  BY DEF Wake, Ind, Custody, Rest, Pending
<1>2. pc[t] \in Dozing /\ pc[t] \in Looping
  BY <1>1 DEF Dozing, Looping
<1>3. nIdle = Cardinality(In(pc, Dozing)) /\ (pool = "running" => nTotal = Cardinality(In(pc, Looping)))
  BY DEF Ind, CountsExact, Dozing, Looping
<1>4. /\ Cardinality(In(pc, Dozing) \ {t}) = Cardinality(In(pc, Dozing)) - 1
      /\ Cardinality(In(pc, Looping) \ {t}) = Cardinality(In(pc, Looping)) - 1
  BY <1>2, CountLeave, Zenon
<1>5. Cardinality(In(pc, Dozing) \ {t}) \in Nat /\ Cardinality(In(pc, Looping)) \in Nat
  BY InFinite
<1>6. /\ nIdle - 1 = Cardinality(In(pc, Dozing) \ {t}) /\ nIdle - 1 \in Nat
      /\ pool = "running" => nTotal = Cardinality(In(pc, Looping) \ {t}) + 1
  BY <1>3, <1>4, <1>5
<1>7. t = Master => pool = "running"
  BY <1>1 DEF Ind, Custody
<1>8. BodyPre(t, nTotal, nIdle - 1, nTodo, fAllOk, pc)
  BY <1>1, <1>6, <1>7 DEF BodyPre, Ind, TypeOK, TodoExact, StatusOK, QuietWhenIdle
<1> QED BY <1>8, LoopBodyKeeps DEF Wake

\* Waking sleepers changes no count.
LEMMA WokenSame ==
  ASSUME TypeOK, NEW S, \A u \in S \cap Threads : pc[u] = "waiting"
  PROVE  /\ Woken(S, pc) \in [Threads -> Pcs]
         /\ In(Woken(S, pc), Dozing) = In(pc, Dozing)
         /\ In(Woken(S, pc), Looping) = In(pc, Looping)
         /\ \A u \in Threads : Woken(S, pc)[u] = pc[u] \/ (pc[u] = "waiting" /\ Woken(S, pc)[u] = "woken")
BY DEF Woken, In, Dozing, Looping, TypeOK, Pcs

\* A thread hands in the result of its batch.
LEMMA FinishKeeps ==
  ASSUME Ind, NEW t \in Threads, Finish(t)
  PROVE  Ind'
<1> DEFINE todo == nTodo - Cardinality(vChecks[t])
           told == IF todo = 0 /\ t # Master /\ pc[Master] = "waiting" THEN {Master} ELSE {}
           pcs == Woken(told, pc)
           ok == fAllOk /\ BatchOk(t)
<1>1. pc[t] = "work" /\ LoopBody(t, nTotal, nIdle, todo, ok, pcs)
  BY DEF Finish
<1>2. /\ pcs \in [Threads -> Pcs]
      /\ In(pcs, Dozing) = In(pc, Dozing) /\ In(pcs, Looping) = In(pc, Looping)
      /\ \A u \in Threads : pcs[u] = pc[u] \/ (pc[u] = "waiting" /\ pcs[u] = "woken")
  BY WokenSame DEF Ind
<1>3. todo = Cardinality(Rest(t)) /\ todo \in Nat
  <2>1. vChecks[t] \subseteq Pending /\ Rest(t) = Pending \ vChecks[t] /\ Pending \cap vChecks[t] = vChecks[t]
    BY DEF Rest, Pending, Ind, TypeOK, TodoExact
  <2>2. IsFiniteSet(Pending) /\ IsFiniteSet(Rest(t))
    BY RestFinite
  <2>3. Cardinality(Rest(t)) = Cardinality(Pending) - Cardinality(vChecks[t])
    BY <2>1, <2>2, FS_Difference, Zenon
  <2>4. Cardinality(Rest(t)) \in Nat
    BY <2>2, FS_CardinalityType
  <2> QED BY <2>3, <2>4 DEF Ind, TodoExact
<1>4. nIdle = Cardinality(In(pcs, Dozing) \ {t})
  <2>1. In(pc, Dozing) \ {t} = In(pc, Dozing)
    BY <1>1 DEF In, Dozing
  <2>2. nIdle = Cardinality(In(pc, Dozing))
    BY DEF Ind, CountsExact, Dozing
  <2> QED BY <1>2, <2>1, <2>2, Zenon
<1>5. pool = "running" => nTotal = Cardinality(In(pcs, Looping) \ {t}) + 1
  <2>1. pc[t] \in Looping
    BY <1>1 DEF Looping
  <2>2. Cardinality(In(pc, Looping) \ {t}) = Cardinality(In(pc, Looping)) - 1
    BY <2>1, CountLeave
  <2>3. Cardinality(In(pc, Looping)) \in Nat
    BY InFinite
  <2>4. pool = "running" => nTotal = Cardinality(In(pc, Looping))
    BY DEF Ind, CountsExact, Looping
  <2>5. pool = "running" => nTotal = Cardinality(In(pc, Looping) \ {t}) + 1
    BY <2>2, <2>3, <2>4
  <2> QED BY <1>2, <2>5
<1>6. t = Master => pool = "running"
  BY <1>1 DEF Ind, Custody
<1>7. vChecks[t] \subseteq session /\ Pending \subseteq Rest(t) \cup vChecks[t]
  BY DEF Ind, Custody, Pending, Rest, TypeOK
<1>8. ~ok => ~(session \subseteq Good)
  BY <1>1, <1>7 DEF BatchOk, Ind, StatusOK
<1>9. (t = Master \/ pc[Master] # "idle") /\ ok => session \ Rest(t) \subseteq Good
  BY <1>1, <1>7 DEF BatchOk, Ind, StatusOK
<1>10. t # Master /\ pc[Master] = "idle" => ok
  <2>1. pc[Master] = "idle" => vChecks[t] = {}
    BY DEF Ind, QuietWhenIdle, Pending, TypeOK
  <2> QED BY <1>1, <2>1 DEF Ind, Custody
<1>11. \A u \in Threads \ {t} : (pcs[u] = "work" <=> pc[u] = "work") /\ (pcs[u] = "idle" <=> pc[u] = "idle")
  BY <1>2
<1>12. nTotal \in Nat /\ nIdle \in Nat /\ ok \in BOOLEAN
  BY DEF Ind, TypeOK
<1> HIDE DEF todo, told, pcs, ok
<1>13. BodyPre(t, nTotal, nIdle, todo, ok, pcs)
  BY <1>2, <1>3, <1>4, <1>5, <1>6, <1>8, <1>9, <1>10, <1>11, <1>12 DEF BodyPre
<1> QED BY <1>1, <1>13, LoopBodyKeeps

---------------------------------------------------------------------------
\* Steps that move threads without touching the queue: notifications and the calls of
\* the master and of the thread that starts and stops the pool.
LEMMA MoveKeeps ==
  ASSUME Ind, pc' \in [Threads -> Pcs],
         \A u \in Threads : /\ pc'[u] = "work" <=> pc[u] = "work"
                            /\ pc'[u] = "idle" <=> pc[u] = "idle"
                            /\ pc'[u] \in Dozing <=> pc[u] \in Dozing,
         m_request_stop' \in BOOLEAN, pool' \in {"off", "running", "requested", "joining"},
         pool' = "running" => pool = "running", pool' # "running" => pc[Master] = "idle",
         m_request_stop' => pool' \in {"requested", "joining"},
         UNCHANGED <<shared, vChecks, fOk, session, result>>
  PROVE  Ind'
<1> USE MasterThread
<1>1. Pending' = Pending /\ (pc'[Master] = "idle" <=> pc[Master] = "idle")
  BY DEF Pending, shared
<1>2. In(pc', Dozing) = In(pc, Dozing) /\ In(pc', Looping) = In(pc, Looping)
  BY DEF In, Dozing, Looping
<1>3. TypeOK' BY DEF Ind, TypeOK, shared
<1>4. Custody' BY <1>1 DEF Ind, Custody
<1>5. StatusOK' BY <1>1 DEF Ind, StatusOK, shared
<1>6. TodoExact' BY <1>1 DEF Ind, TodoExact, shared
<1>7. QuietWhenIdle' /\ ResultExact'
  BY <1>1 DEF Ind, QuietWhenIdle, ResultExact, shared
<1>8. CountsExact'
  <2>1. nIdle = Cardinality(In(pc, Dozing)) /\ (pool = "running" => nTotal = Cardinality(In(pc, Looping)))
    BY DEF Ind, CountsExact, Dozing, Looping
  <2>2. nIdle' = Cardinality(In(pc', Dozing)) /\ (pool' = "running" => nTotal' = Cardinality(In(pc', Looping)))
    BY <1>2, <2>1 DEF shared
  <2> QED BY <2>2 DEF CountsExact, Dozing, Looping
<1> QED BY <1>3, <1>4, <1>5, <1>6, <1>7, <1>8 DEF Ind

LEMMA CallsKeep ==
  ASSUME Ind, NotifyOne \/ NotifyAll \/ Wait \/ RequestStop \/ NotifyStop \/ Join
  PROVE  Ind'
<1> USE MasterThread
<1>1. \A S \in SUBSET Sleepers :
        /\ Woken(S, pc) \in [Threads -> Pcs]
        /\ \A u \in Threads : \/ Woken(S, pc)[u] = pc[u]
                              \/ u \in Workers /\ pc[u] = "waiting" /\ Woken(S, pc)[u] = "woken"
  BY CheckQueueAssumption DEF Sleepers, Woken, Ind, TypeOK, Pcs
<1>2. CASE NotifyOne
  <2>1. PICK S \in SUBSET Sleepers : pc' = [Woken(S, pc) EXCEPT ![Master] = "adding"]
    BY <1>2, Zenon DEF NotifyOne
  <2>2. /\ pc' \in [Threads -> Pcs]
        /\ \A u \in Threads : /\ pc'[u] = "work" <=> pc[u] = "work"
                              /\ pc'[u] = "idle" <=> pc[u] = "idle"
                              /\ pc'[u] \in Dozing <=> pc[u] \in Dozing
    <3>1. pc[Master] = "notify_one" /\ pc \in [Threads -> Pcs]
      BY <1>2 DEF NotifyOne, Ind, TypeOK
    <3>2. /\ Woken(S, pc) \in [Threads -> Pcs]
          /\ \A u \in Threads : \/ Woken(S, pc)[u] = pc[u]
                                \/ pc[u] = "waiting" /\ Woken(S, pc)[u] = "woken"
      BY <1>1
    <3>3. pc' \in [Threads -> Pcs] /\ pc'[Master] = "adding"
      BY <2>1, <3>2 DEF Pcs
    <3>4. \A u \in Threads \ {Master} : pc'[u] = Woken(S, pc)[u]
      BY <2>1, <3>2
    <3> QED BY <3>1, <3>2, <3>3, <3>4 DEF Dozing
  <2>3. /\ m_request_stop' = m_request_stop /\ pool' = pool
        /\ UNCHANGED <<shared, vChecks, fOk, session, result>>
    BY <1>2 DEF NotifyOne
  <2>4. /\ m_request_stop \in BOOLEAN /\ pool \in {"off", "running", "requested", "joining"}
        /\ pool # "running" => pc[Master] = "idle"
        /\ m_request_stop => pool \in {"requested", "joining"}
    BY DEF Ind, TypeOK, Custody
  <2> QED BY <2>2, <2>3, <2>4, MoveKeeps
<1>3. CASE NotifyAll
  BY <1>1, <1>3, MoveKeeps DEF NotifyAll, Dozing, Pcs, Ind, TypeOK, Custody
<1>4. CASE Wait
  BY <1>4, MoveKeeps DEF Wait, Dozing, Pcs, Ind, TypeOK, Custody
<1>5. CASE RequestStop
  BY <1>5, MoveKeeps DEF RequestStop, Ind, TypeOK, Custody
<1>6. CASE NotifyStop
  BY <1>1, <1>6, MoveKeeps DEF NotifyStop, Dozing, Ind, TypeOK, Custody
<1>7. CASE Join
  BY <1>7, MoveKeeps, Zenon DEF Join, Ind, TypeOK, Custody
<1> QED BY <1>2, <1>3, <1>4, <1>5, <1>6, <1>7

LEMMA SpuriousKeeps ==
  ASSUME Ind, NEW t \in Threads, SpuriousWakeup(t)
  PROVE  Ind'
BY MoveKeeps DEF SpuriousWakeup, Dozing, Pcs, Ind, TypeOK, Custody

LEMMA StartKeeps ==
  ASSUME Ind, StartWorkerThreads
  PROVE  Ind'
<1> USE MasterThread
<1>1. pc[Master] = "idle" /\ Pending = {} /\ fAllOk
  BY DEF StartWorkerThreads, Ind, Custody, QuietWhenIdle
<1>2. Pending' = {} /\ queue = {} /\ \A u \in Threads : vChecks[u] = {}
  BY <1>1 DEF StartWorkerThreads, Pending, Ind, TypeOK
<1>3. pc' = [t \in Threads |-> IF t \in Workers THEN "enter" ELSE pc[t]] /\ pc'[Master] = "idle"
  BY <1>1, CheckQueueAssumption DEF StartWorkerThreads
<1>4. \A u \in Threads : pc'[u] \in {"enter", "idle"}
  BY <1>3
<1>5. In(pc', Dozing) = {} /\ In(pc', Looping) = {}
  BY <1>4 DEF In, Dozing, Looping
<1>6. TypeOK' BY <1>3 DEF StartWorkerThreads, Ind, TypeOK, Pcs
<1>7. Custody' BY <1>2, <1>3, <1>4 DEF StartWorkerThreads, Ind, Custody
<1>8. StatusOK' BY <1>3, <1>4 DEF StartWorkerThreads, StatusOK
<1>9. TodoExact' BY <1>1, <1>2 DEF StartWorkerThreads, Ind, TodoExact
<1>10. QuietWhenIdle' /\ ResultExact'
  BY <1>1, <1>2 DEF StartWorkerThreads, QuietWhenIdle, ResultExact, Ind
<1>11. CountsExact'
  <2>1. nIdle' = Cardinality(In(pc', Dozing)) /\ nTotal' = Cardinality(In(pc', Looping))
    BY <1>5, FS_EmptySet DEF StartWorkerThreads
  <2> QED BY <2>1 DEF CountsExact, Dozing, Looping
<1> QED BY <1>6, <1>7, <1>8, <1>9, <1>10, <1>11 DEF Ind

\* A new control starts from an empty session; the queue is quiet.
LEMMA ControlKeeps ==
  ASSUME Ind, Control
  PROVE  Ind'
<1> USE MasterThread
<1>1. pc[Master] = "idle" /\ Pending = {} /\ fAllOk /\ pool = "running"
  BY DEF Control, Ind, QuietWhenIdle
<1>2. Pending' = {}
  BY <1>1 DEF Control, shared, Pending
<1>3. pc' = [pc EXCEPT ![Master] = "adding"] /\ pc' \in [Threads -> Pcs] /\ pc'[Master] = "adding"
  BY DEF Control, Ind, TypeOK, Pcs
<1>4. In(pc', Dozing) = In(pc, Dozing) /\ In(pc', Looping) = In(pc, Looping)
  BY <1>1, <1>3 DEF In, Dozing, Looping
<1>5. \A u \in Threads : vChecks[u] = {} /\ pc[u] # "work" /\ pc'[u] # "work"
  BY <1>1, <1>3 DEF Pending, Ind, TypeOK, Custody
<1>6. TypeOK' BY <1>3 DEF Control, shared, Ind, TypeOK
<1>7. Custody'
  <2>1. IsFiniteSet(session') BY FS_EmptySet DEF Control
  <2>2. \A u \in Threads : vChecks'[u] = {} /\ pc'[u] # "work" BY <1>5 DEF Control
  <2> QED BY <1>1, <1>2, <2>1, <2>2 DEF Control, Ind, Custody
<1>8. StatusOK' BY <1>1, <1>5 DEF Control, shared, StatusOK
<1>9. TodoExact' BY <1>1, <1>2 DEF Control, shared, Ind, TodoExact
<1>10. QuietWhenIdle' /\ ResultExact'
  BY <1>3 DEF QuietWhenIdle, ResultExact
<1>11. CountsExact'
  <2>1. nIdle = Cardinality(In(pc, Dozing)) /\ nTotal = Cardinality(In(pc, Looping))
    BY <1>1 DEF Ind, CountsExact, Dozing, Looping
  <2>2. nIdle' = Cardinality(In(pc', Dozing)) /\ nTotal' = Cardinality(In(pc', Looping))
    BY <1>4, <2>1 DEF Control, shared
  <2> QED BY <2>2 DEF CountsExact, Dozing, Looping
<1> QED BY <1>6, <1>7, <1>8, <1>9, <1>10, <1>11 DEF Ind

LEMMA AddKeeps ==
  ASSUME Ind, NEW S \in SUBSET (Checks \ session), IsFiniteSet(S), Add(S)
  PROVE  Ind'
<1> USE MasterThread
<1>1. pc[Master] = "adding" /\ pool = "running"
  BY DEF Add, Ind, Custody
<1>2. Pending' = Pending \cup S /\ Pending \cap S = {}
  BY DEF Add, Pending, Ind, Custody
<1>3. PICK p \in {"notify_one", "notify_all"} : pc' = [pc EXCEPT ![Master] = p]
  BY Zenon DEF Add
<1>4. /\ pc' \in [Threads -> Pcs] /\ pc'[Master] \notin {"idle", "work"}
      /\ \A u \in Threads : pc'[u] = "work" <=> pc[u] = "work"
  BY <1>1, <1>3 DEF Ind, TypeOK, Pcs
<1>5. In(pc', Dozing) = In(pc, Dozing) /\ In(pc', Looping) = In(pc, Looping)
  BY <1>1, <1>3 DEF In, Dozing, Looping, Ind, TypeOK
<1>6. IsFiniteSet(session') /\ nTodo' = Cardinality(Pending') /\ nTodo' \in Nat
  <2>1. IsFiniteSet(session \cup S)
    BY FS_Union, Zenon DEF Ind, Custody
  <2>2. IsFiniteSet(Pending)
    BY RestFinite
  <2>3. Cardinality(Pending \cup S) = Cardinality(Pending) + Cardinality(S) - Cardinality(Pending \cap S)
    BY <2>2, FS_Union
  <2>4. Cardinality(Pending \cap S) = 0
    BY <1>2, FS_EmptySet
  <2>5. Cardinality(S) \in Nat /\ Cardinality(Pending) \in Nat
    BY <2>2, FS_CardinalityType
  <2>6. nTodo' = Cardinality(Pending) + Cardinality(S)
    BY DEF Add, Ind, TodoExact
  <2>7. nTodo' = Cardinality(Pending \cup S) /\ nTodo' \in Nat
    BY <2>3, <2>4, <2>5, <2>6
  <2> QED BY <1>2, <2>1, <2>7 DEF Add
<1>7. TypeOK' BY <1>4, <1>6 DEF Add, Ind, TypeOK
<1>8. Custody' BY <1>1, <1>2, <1>4, <1>6 DEF Add, Ind, Custody
<1>9. StatusOK'
  <2>1. session' \ Pending' \subseteq session \ Pending
    BY <1>2 DEF Add
  <2> QED BY <1>1, <1>4, <2>1 DEF Add, Ind, StatusOK
<1>10. TodoExact' BY <1>6 DEF Add, Ind, TodoExact, Custody, Pending, TypeOK
<1>11. QuietWhenIdle' /\ ResultExact'
  BY <1>4 DEF QuietWhenIdle, ResultExact
<1>12. CountsExact'
  <2>1. nIdle = Cardinality(In(pc, Dozing)) /\ nTotal = Cardinality(In(pc, Looping))
    BY <1>1 DEF Ind, CountsExact, Dozing, Looping
  <2>2. nIdle' = Cardinality(In(pc', Dozing)) /\ nTotal' = Cardinality(In(pc', Looping))
    BY <1>5, <2>1 DEF Add
  <2> QED BY <2>2 DEF CountsExact, Dozing, Looping
<1> QED BY <1>7, <1>8, <1>9, <1>10, <1>11, <1>12, Zenon DEF Ind

---------------------------------------------------------------------------
LEMMA InitInd == Init => Ind
<1> SUFFICES ASSUME Init PROVE Ind OBVIOUS
<1> USE MasterThread
<1>1. Pending = {} BY DEF Init, Pending
<1>2. \A u \in Threads : pc[u] \in {"idle", "stopped"} BY DEF Init
<1>3. In(pc, Dozing) = {} BY <1>2 DEF In, Dozing
<1>4. TypeOK BY Zenon DEF Init, TypeOK, Pcs
<1>5. Custody BY <1>1, <1>2, FS_EmptySet DEF Init, Custody
<1>6. StatusOK BY <1>2 DEF Init, StatusOK
<1>7. TodoExact BY <1>1, FS_EmptySet DEF Init, TodoExact
<1>8. QuietWhenIdle /\ ResultExact BY <1>1 DEF Init, QuietWhenIdle, ResultExact
<1>9. CountsExact BY <1>3, FS_EmptySet DEF Init, CountsExact, Dozing
<1> QED BY <1>4, <1>5, <1>6, <1>7, <1>8, <1>9 DEF Ind

LEMMA NextInd == Ind /\ [Next]_vars => Ind'
<1> SUFFICES ASSUME Ind, [Next]_vars PROVE Ind' OBVIOUS
<1>1. CASE UNCHANGED vars
  BY <1>1 DEF vars, shared, Ind, TypeOK, Custody, StatusOK, TodoExact, CountsExact, QuietWhenIdle,
              ResultExact, Pending
<1>2. ASSUME NEW S \in SUBSET (Checks \ session), IsFiniteSet(S), Add(S) PROVE Ind'
  BY <1>2, AddKeeps
<1>3. ASSUME NEW t \in Threads, Enter(t) \/ Wake(t) \/ Finish(t) \/ SpuriousWakeup(t) PROVE Ind'
  BY <1>3, EnterKeeps, WakeKeeps, FinishKeeps, SpuriousKeeps
<1> QED BY <1>1, <1>2, <1>3, StartKeeps, ControlKeeps, CallsKeep DEF Next

LEMMA Invariance == Spec => []Ind
BY InitInd, NextInd, PTL DEF Spec

\* For any number of workers, any batch size and any checks: Wait returns true exactly
\* when all checks of the session succeed (checkqueue.h: Loop, Add).
THEOREM AnswerExact == Spec => []ResultExact
<1>1. Ind => ResultExact BY DEF Ind
<1> QED BY <1>1, Invariance, PTL

\* nTodo never drifts from the checks that are queued or being run.
THEOREM NoDrift == Spec => []TodoExact
<1>1. Ind => TodoExact BY DEF Ind
<1> QED BY <1>1, Invariance, PTL

\* No check outlives Wait, and the next session starts with a clean status.
THEOREM Quiet == Spec => []QuietWhenIdle
<1>1. Ind => QuietWhenIdle BY DEF Ind
<1> QED BY <1>1, Invariance, PTL

\* nIdle and nTotal are right, and with them all variables have their types.
THEOREM Counts == Spec => [](TypeOK /\ CountsExact)
<1>1. Ind => TypeOK /\ CountsExact BY DEF Ind
<1> QED BY <1>1, Invariance, PTL
===========================================================================
