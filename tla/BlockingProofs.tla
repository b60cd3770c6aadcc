--------------------------- MODULE BlockingProofs ---------------------------
(***************************************************************************)
(* What the modules of the IPC objects rely on, for every number of        *)
(* threads and of suspend lists: a thread waits in one list at most, is    *)
(* suspended while it does, and is out of every list when it runs on.      *)
(***************************************************************************)
EXTENDS Blocking, KernelProofs

\* The suspend lists: a waiter is in one of them, once, is suspended and has no
\* result yet.
WaitsExact(j) ==
    /\ \A w \in WaitList :
         /\ IsInjective(j.wait[w])
         /\ \A t \in Range(j.wait[w]) : j.stat[t] = SUSPEND /\ j.error[t] = EOK
    /\ \A w, v \in WaitList : \A t \in Range(j.wait[w]) : t \in Range(j.wait[v]) => v = w

\* The inductive invariant of the kernel record where threads wait and nobody
\* leaves the scheduler.
KernelWaits(j) == KInv(j, {}) /\ WaitsExact(j) /\ j.stat[Idle] = READY

\* The suspend lists without thread t.
WithoutWaiter(j, t) == [w \in WaitList |-> RemoveFirst(j.wait[w], t)]

-----------------------------------------------------------------------------
(* The suspend lists under the functions of the scheduler *)

\* Unlinking a thread takes it out of the suspend lists too.
LEMMA RemoveWaits ==
    ASSUME NEW j \in KernelState, NEW t \in Thread
    PROVE  /\ rt_list_remove(j, t).wait = WithoutWaiter(j, t)
           /\ rt_list_remove(j, t).error = j.error
           /\ rt_schedule_remove_thread(j, t).wait = WithoutWaiter(j, t)
           /\ rt_schedule_remove_thread(j, t).error = j.error
<1>. DEFINE v == rt_list_remove(j, t)
            g == v.group \ {j.prio[t]}
<1>1. v.wait = WithoutWaiter(j, t) /\ v.error = j.error /\ v \in KernelState
  <2>1. v \in KernelState
    BY ListRemoveFields
  <2>2. v.wait = WithoutWaiter(j, t) /\ v.error = j.error
    BY DEF rt_list_remove, WithoutWaiter, KernelState
  <2>. QED
    BY <2>1, <2>2
<1>2. rt_schedule_remove_thread(j, t) \in {v, [v EXCEPT !.group = g]}
  BY DEF rt_schedule_remove_thread
<1>. HIDE DEF v, g
<1>3. [v EXCEPT !.group = g].wait = v.wait /\ [v EXCEPT !.group = g].error = v.error
  BY <1>1 DEF KernelState
<1>. QED
  BY <1>1, <1>2, <1>3 DEF v

\* Making a thread READY leaves them alone.
LEMMA InsertWaits ==
    ASSUME NEW j \in KernelState, NEW t \in Thread
    PROVE  /\ rt_schedule_insert_thread(j, t).wait = j.wait
           /\ rt_schedule_insert_thread(j, t).error = j.error
  BY DEF rt_schedule_insert_thread, KernelState

\* So does a switch to a thread that does not wait.
LEMMA SwitchWaits ==
    ASSUME NEW j \in KernelState, NEW to \in Thread
    PROVE  SwitchTo(j, to).wait = WithoutWaiter(j, to) /\ SwitchTo(j, to).error = j.error
<1>. DEFINE v == [j EXCEPT !.cur = to]
            w == IF j.stat[j.cur] = READY THEN rt_schedule_insert_thread(v, j.cur) ELSE v
<1>1. v \in KernelState /\ v.wait = j.wait /\ v.error = j.error /\ j.cur \in Thread
  BY DEF KernelState
<1>. HIDE DEF v
<1>2. w \in KernelState /\ w.wait = j.wait /\ w.error = j.error
  BY <1>1, InsertWaits, InsertOnly DEF QueuesOnly
<1>3. SwitchTo(j, to) = rt_schedule_remove_thread(w, to)
  BY DEF SwitchTo, v, w
<1>. HIDE DEF w
<1>. QED
  BY <1>2, <1>3, RemoveWaits DEF WithoutWaiter

\* A thread that is not in a list need not be taken out of it.
LEMMA NotAWaiter ==
    ASSUME NEW j, KernelWaits(j), NEW t \in Thread, j.stat[t] # SUSPEND
    PROVE  WithoutWaiter(j, t) = j.wait
<1>1. j.wait \in [WaitList -> Seq(Thread)]
  BY QueueFacts DEF KernelWaits, KernelState
<1>2. \A w \in WaitList : t \notin Range(j.wait[w])
  BY DEF KernelWaits, WaitsExact
<1>3. \A w \in WaitList : RemoveFirst(j.wait[w], t) = j.wait[w]
  BY <1>1, <1>2, RemoveFirstSeq
<1>. QED
  BY <1>1, <1>3 DEF WithoutWaiter

\* The record u is j after a context switch, or after none.
ContextSwitch(j, u) ==
    /\ KernelWaits(u)
    /\ u.stat = j.stat /\ u.error = j.error /\ u.wait = j.wait
    /\ u.prio = j.prio /\ u.lock = j.lock
    /\ u.timers = j.timers /\ u.tick = j.tick /\ u.deadline = j.deadline /\ u.due = j.due
    /\ u.cur = j.cur \/ j.stat[u.cur] = READY
    /\ u.cur # j.cur => j.lock = 0 /\ TopRuns(u)

\* rt_schedule does not touch the waiters, and unless the scheduler is locked
\* some READY thread runs.
LEMMA ScheduleWaits ==
    ASSUME NEW j, KernelWaits(j)
    PROVE  /\ ContextSwitch(j, rt_schedule(j))
           /\ j.lock # 0 => rt_schedule(j) = j
           /\ j.lock = 0 => j.stat[rt_schedule(j).cur] = READY /\ TopRuns(rt_schedule(j))
<1>. DEFINE h == HighestReady(j)
            to == Head(j.ready[h])
            next == IF StaysOn(j) \/ to = j.cur
                    THEN rt_schedule_remove_thread(j, j.cur)
                    ELSE SwitchTo(j, to)
            u == rt_schedule(j)
<1>1. /\ KInv(j, {}) /\ j \in KernelState /\ j.cur \in Thread
      /\ j.stat[Idle] = READY /\ Idle \notin {}
  BY QueueFacts DEF KernelWaits
<1>2. /\ KInv(u, {}) /\ Switched(j, u) /\ QueuesOnly(j, u)
      /\ j.lock # 0 => u = j
      /\ u.lock = 0 => TopRuns(u)
  BY <1>1, ScheduleKInv, ScheduleOnly, ScheduleSettles
<1>3. u.wait = j.wait /\ u.error = j.error
  <2>1. CASE j.lock # 0
    BY <1>2, <2>1
  <2>2. ASSUME NEW v \in KernelState
        PROVE  /\ [v EXCEPT !.owed = FALSE].wait = v.wait
               /\ [v EXCEPT !.owed = FALSE].error = v.error
    BY DEF KernelState
  <2>3. CASE j.lock = 0 /\ j.group = {}
    BY <1>1, <2>2, <2>3 DEF rt_schedule
  <2>4. CASE j.lock = 0 /\ j.group # {}
    <3>1. u = [next EXCEPT !.owed = FALSE]
      BY <2>4 DEF rt_schedule
    <3>2. to \in Thread /\ j.stat[to] = READY /\ to # j.cur
      BY <1>1, <2>4, HeadIsLinked, QueueFacts
    <3>. HIDE DEF to, h
    <3>3. CASE StaysOn(j)
      <4>1. j.stat[j.cur] = READY
        BY <3>3 DEF StaysOn
      <4>2. next.wait = j.wait /\ next.error = j.error /\ next \in KernelState
        BY <1>1, <3>3, <4>1, RemoveWaits, RemoveOnly, NotAWaiter, StatesDiffer DEF QueuesOnly
      <4>. HIDE DEF next
      <4>. QED
        BY <2>2, <3>1, <4>2
    <3>4. CASE ~StaysOn(j)
      <4>1. next = SwitchTo(j, to)
        BY <3>2, <3>4
      <4>2. next.wait = j.wait /\ next.error = j.error /\ next \in KernelState
        BY <1>1, <3>2, <4>1, SwitchWaits, SwitchOnly, NotAWaiter, StatesDiffer DEF QueuesOnly
      <4>. HIDE DEF next
      <4>. QED
        BY <2>2, <3>1, <4>2
    <3>. QED
      BY <3>3, <3>4
  <2>5. j.lock = 0 \/ j.lock # 0
    OBVIOUS
  <2>. QED
    BY <2>1, <2>3, <2>4, <2>5
<1>. HIDE DEF u, next
<1>4. KernelWaits(u)
  BY <1>1, <1>2, <1>3 DEF KernelWaits, WaitsExact, Switched
<1>. QED
  BY <1>2, <1>3, <1>4 DEF ContextSwitch, Switched, QueuesOnly, TopRuns, u

-----------------------------------------------------------------------------
(* Threads that wake, wait and sleep *)

\* The record u is j after thread t was readied with the result e: it is in no
\* list of waiters and its timer is stopped.
Wakes(j, u, t, e) ==
    /\ KernelWaits(u)
    /\ u.stat = [j.stat EXCEPT ![t] = READY] /\ u.error = [j.error EXCEPT ![t] = e]
    /\ u.wait = WithoutWaiter(j, t)
    /\ u.prio = j.prio /\ u.lock = j.lock
    /\ u.timers = RemoveFirst(j.timers, t) /\ u.tick = j.tick
    /\ u.deadline = [j.deadline EXCEPT ![t] = 0] /\ u.due = [j.due EXCEPT ![t] = 0]

\* What is left of the suspend lists without a thread is exact.
LEMMA WithoutWaiterExact ==
    ASSUME NEW j, KernelWaits(j), NEW t \in Thread, NEW u, KInv(u, {}), NEW e,
           u.stat = [j.stat EXCEPT ![t] = READY], u.error = [j.error EXCEPT ![t] = e],
           u.wait = WithoutWaiter(j, t)
    PROVE  KernelWaits(u)
<1>1. /\ j.wait \in [WaitList -> Seq(Thread)] /\ j.stat \in [Thread -> Stat]
      /\ j.error \in [Thread -> {EOK, ERROR, ETIMEOUT, EINTR}]
      /\ \A w \in WaitList : IsInjective(j.wait[w]) /\ Range(j.wait[w]) \subseteq Thread
  <2>1. j \in KernelState /\ WaitsExact(j)
    BY QueueFacts DEF KernelWaits
  <2>2. j.wait \in [WaitList -> Seq(Thread)]
    BY <2>1 DEF KernelState
  <2>3. \A w \in WaitList : Range(j.wait[w]) \subseteq Thread
    BY <2>2, ElementOfSeq DEF Range
  <2>. QED
    BY <2>1, <2>2, <2>3 DEF WaitsExact, KernelState
<1>2. ASSUME NEW w \in WaitList
      PROVE  IsInjective(u.wait[w]) /\ Range(u.wait[w]) = Range(j.wait[w]) \ {t}
  <2>1. u.wait[w] = RemoveFirst(j.wait[w], t) /\ j.wait[w] \in Seq(Thread)
    BY <1>1 DEF WithoutWaiter
  <2>. QED
    BY <1>1, <2>1, RemoveFirstOnce
<1>3. /\ u.stat[Idle] = READY
      /\ \A s \in Thread \ {t} : u.stat[s] = j.stat[s] /\ u.error[s] = j.error[s]
  BY <1>1, KernelConstants DEF KernelWaits
<1>4. ASSUME NEW w \in WaitList, NEW s \in Range(u.wait[w])
      PROVE  /\ s \in Range(j.wait[w]) /\ s \in Thread \ {t}
             /\ u.stat[s] = SUSPEND /\ u.error[s] = EOK
  <2>1. s \in Range(j.wait[w]) /\ s \in Thread \ {t}
    BY <1>1, <1>2, <1>4
  <2>2. j.stat[s] = SUSPEND /\ j.error[s] = EOK
    BY <2>1 DEF KernelWaits, WaitsExact
  <2>. QED
    BY <1>3, <2>1, <2>2
<1>5. \A w, v \in WaitList : \A s \in Range(u.wait[w]) : s \in Range(u.wait[v]) => v = w
  BY <1>4 DEF KernelWaits, WaitsExact
<1>. QED
  BY <1>2, <1>3, <1>4, <1>5 DEF KernelWaits, WaitsExact

\* The record j with the result e for thread t.
WithError(j, t, e) == [j EXCEPT !.error[t] = e]

\* The record u is j with another result for thread t.
ErrorOnly(j, u, t, e) ==
    /\ KInv(u, {}) /\ u.error = [j.error EXCEPT ![t] = e]
    /\ u.stat = j.stat /\ u.prio = j.prio /\ u.lock = j.lock /\ u.cur = j.cur
    /\ u.ready = j.ready /\ u.group = j.group /\ u.wait = j.wait /\ u.timers = j.timers
    /\ u.tick = j.tick /\ u.deadline = j.deadline /\ u.due = j.due

\* Clearing or setting a result changes nothing the scheduler looks at.
LEMMA ErrorSet ==
    ASSUME NEW j, KInv(j, {}), NEW t \in Thread, NEW e \in {EOK, ERROR, ETIMEOUT, EINTR}
    PROVE  ErrorOnly(j, WithError(j, t, e), t, e)
<1>. DEFINE f == [j.error EXCEPT ![t] = e]
            u == WithError(j, t, e)
<1>1. j \in KernelState /\ IsInjective(j.timers)
  BY DEF KInv
<1>2. f \in [Thread -> {EOK, ERROR, ETIMEOUT, EINTR}] /\ u = [j EXCEPT !.error = f]
  BY <1>1 DEF KernelState, WithError
<1>. HIDE DEF f, u
<1>3. /\ u \in KernelState /\ u.error = f
      /\ u.stat = j.stat /\ u.prio = j.prio /\ u.lock = j.lock /\ u.cur = j.cur
      /\ u.ready = j.ready /\ u.wait = j.wait /\ u.timers = j.timers
      /\ u.tick = j.tick /\ u.deadline = j.deadline /\ u.due = j.due
      /\ u.group = j.group /\ u.defunct = j.defunct
  BY <1>1, <1>2 DEF KernelState
<1>4. KInv(u, {})
  BY <1>1, <1>3, SameKInv DEF SameQueues
<1>. QED
  BY <1>3, <1>4 DEF ErrorOnly, f, u

\* Stopping a timer leaves the suspend lists alone.
LEMMA StopFields ==
    ASSUME NEW j \in KernelState, NEW t \in Thread
    PROVE  LET u == rt_timer_stop(j, t)
           IN  /\ u.wait = j.wait /\ u.error = j.error /\ u.tick = j.tick
               /\ u.timers = RemoveFirst(j.timers, t)
               /\ u.deadline = [j.deadline EXCEPT ![t] = 0]
               /\ u.due = [j.due EXCEPT ![t] = 0]
  BY DEF rt_timer_stop, KernelState

\* rt_thread_resume of a suspended thread, whose result was set before or not.
LEMMA ResumeWakes ==
    ASSUME NEW j, KernelWaits(j), NEW t \in Thread, j.stat[t] = SUSPEND,
           NEW e \in {EOK, ERROR, ETIMEOUT, EINTR}
    PROVE  LET u == rt_thread_resume(WithError(j, t, e), t)
           IN  Wakes(j, u, t, e) /\ u.cur = j.cur
<1>. DEFINE i == WithError(j, t, e)
            v == rt_list_remove(i, t)
            w == rt_timer_stop(v, t)
            u == rt_schedule_insert_thread(w, t)
<1>1. /\ KInv(i, {}) /\ i \in KernelState /\ i.error = [j.error EXCEPT ![t] = e]
      /\ i.stat = j.stat /\ i.prio = j.prio /\ i.lock = j.lock /\ i.cur = j.cur
      /\ i.wait = j.wait /\ i.timers = j.timers
      /\ i.tick = j.tick /\ i.deadline = j.deadline /\ i.due = j.due
  <2>1. KInv(j, {})
    BY DEF KernelWaits
  <2>2. ErrorOnly(j, i, t, e)
    BY <2>1, ErrorSet
  <2>. HIDE DEF i
  <2>. QED
    BY <2>2 DEF ErrorOnly, KInv
<1>. HIDE DEF i
<1>2. KInv(u, {}) /\ Readied(i, u, t) /\ u.cur = i.cur
  <2>1. u = rt_schedule_insert_thread(ResumeDetach(i, t), t)
    BY DEF ResumeDetach
  <2>. QED
    BY <1>1, <2>1, WakeKInv
<1>3. /\ v \in KernelState /\ QueuesOnly(i, v)
      /\ v.wait = WithoutWaiter(i, t) /\ v.error = i.error
  BY <1>1, ListRemoveOnly, RemoveWaits DEF QueuesOnly
<1>. HIDE DEF v
<1>4. /\ w \in KernelState /\ w.prio = v.prio /\ w.lock = v.lock
      /\ w.wait = v.wait /\ w.error = v.error /\ w.tick = v.tick
      /\ w.timers = RemoveFirst(v.timers, t)
      /\ w.deadline = [v.deadline EXCEPT ![t] = 0] /\ w.due = [v.due EXCEPT ![t] = 0]
  BY <1>3, TimerStopFields, StopFields
<1>. HIDE DEF w
<1>5. u.wait = w.wait /\ u.error = w.error /\ QueuesOnly(w, u)
  BY <1>4, InsertWaits, InsertOnly
<1>6. rt_thread_resume(i, t) = u
  BY <1>1 DEF rt_thread_resume, ResumeDetach, u, v, w
<1>. HIDE DEF u
<1>7. /\ u.stat = [j.stat EXCEPT ![t] = READY] /\ u.error = [j.error EXCEPT ![t] = e]
      /\ u.wait = WithoutWaiter(j, t)
      /\ u.prio = j.prio /\ u.lock = j.lock
      /\ u.timers = RemoveFirst(j.timers, t) /\ u.tick = j.tick
      /\ u.deadline = [j.deadline EXCEPT ![t] = 0] /\ u.due = [j.due EXCEPT ![t] = 0]
      /\ u.cur = j.cur
  BY <1>1, <1>2, <1>3, <1>4, <1>5 DEF Readied, QueuesOnly, WithoutWaiter
<1>8. KernelWaits(u)
  BY <1>2, <1>7, WithoutWaiterExact
<1>. QED
  BY <1>6, <1>7, <1>8 DEF Wakes, i

\* The first waiter is resumed: its result is not touched.
LEMMA HeadWakes ==
    ASSUME NEW j, KernelWaits(j), NEW w \in WaitList, j.wait[w] # << >>
    PROVE  LET t == Head(j.wait[w])
               u == rt_ipc_list_resume(j, w)
           IN  /\ t \in Range(j.wait[w]) /\ t \in Thread /\ j.stat[t] = SUSPEND
               /\ Wakes(j, u, t, EOK) /\ u.error = j.error /\ u.cur = j.cur
<1>. DEFINE t == Head(j.wait[w])
<1>1. j \in KernelState /\ j.wait[w] \in Seq(Thread)
  <2>1. j \in KernelState
    BY DEF KernelWaits, KInv
  <2>. QED
    BY <2>1 DEF KernelState
<1>2. t \in Range(j.wait[w]) /\ t \in Thread
  BY <1>1, HeadInRange
<1>3. j.stat[t] = SUSPEND /\ j.error[t] = EOK
  BY <1>2 DEF KernelWaits, WaitsExact
<1>. HIDE DEF t
<1>4. WithError(j, t, EOK) = j /\ [j.error EXCEPT ![t] = EOK] = j.error
  BY <1>1, <1>2, <1>3 DEF KernelState, WithError
<1>5. rt_ipc_list_resume(j, w) = rt_thread_resume(WithError(j, t, EOK), t)
  BY <1>4 DEF rt_ipc_list_resume, t
<1>6. LET u == rt_ipc_list_resume(j, w) IN Wakes(j, u, t, EOK) /\ u.cur = j.cur
  BY <1>2, <1>3, <1>5, ResumeWakes
<1>. QED
  BY <1>2, <1>3, <1>4, <1>6 DEF Wakes, t

\* Nobody joins a list when a thread is woken.
LEMMA WokenShrinks ==
    ASSUME NEW j, KernelWaits(j), NEW u, NEW t, NEW e, Wakes(j, u, t, e)
    PROVE  \A w \in WaitList : Range(u.wait[w]) \subseteq Range(j.wait[w])
<1>1. j.wait \in [WaitList -> Seq(Thread)]
  <2>1. j \in KernelState
    BY DEF KernelWaits, KInv
  <2>. QED
    BY <2>1 DEF KernelState
<1>2. \A w \in WaitList : u.wait[w] = RemoveFirst(j.wait[w], t)
  BY DEF Wakes, WithoutWaiter
<1>. QED
  BY <1>1, <1>2, RemoveFirstSeq

\* rt_schedule after a thread was woken.
LEMMA WakesThenSchedules ==
    ASSUME NEW j, NEW v, NEW u, NEW t, NEW e, Wakes(j, v, t, e), ContextSwitch(v, u)
    PROVE  Wakes(j, u, t, e)
  BY DEF Wakes, ContextSwitch, WithoutWaiter

\* A timeout function, called by rt_timer_check for the timer it took off.
LEMMA TimeoutWakes ==
    ASSUME NEW j, KernelWaits(j), NEW t \in Thread, j.stat[t] = SUSPEND
    PROVE  LET u == rt_thread_timeout(rt_timer_stop(j, t), t)
           IN  /\ Wakes(j, u, t, ETIMEOUT)
               /\ u.cur = j.cur \/ (j.lock = 0 /\ u.stat[u.cur] = READY)
               /\ j.lock = 0 => TopRuns(u)
<1>. DEFINE s == rt_timer_stop(j, t)
            i == WithError(s, t, ETIMEOUT)
            v == rt_list_remove(i, t)
            w == rt_schedule_insert_thread(v, t)
            u == rt_schedule(w)
<1>1. /\ j \in KernelState /\ KInv(j, {}) /\ KInv(s, {}) /\ s \in KernelState
      /\ s.stat = j.stat /\ s.prio = j.prio /\ s.cur = j.cur /\ s.lock = j.lock
      /\ s.wait = j.wait /\ s.error = j.error /\ s.tick = j.tick
      /\ s.timers = RemoveFirst(j.timers, t) /\ t \notin Range(s.timers)
      /\ s.deadline = [j.deadline EXCEPT ![t] = 0] /\ s.due = [j.due EXCEPT ![t] = 0]
  <2>1. j \in KernelState /\ KInv(j, {})
    BY QueueFacts DEF KernelWaits
  <2>2. SameQueues(j, s) /\ Range(s.timers) = Range(j.timers) \ {t}
    BY <2>1, StopTimer
  <2>. QED
    BY <2>1, <2>2, StopFields, TimerStopFields, SameKInv
<1>. HIDE DEF s
<1>2. /\ KInv(w, {}) /\ Readied(s, w, t) /\ w.cur = s.cur
      /\ rt_thread_timeout(s, t) = u
  BY <1>1, TimeoutKInv DEF WithError
<1>3. /\ i \in KernelState /\ i.error = [s.error EXCEPT ![t] = ETIMEOUT]
      /\ i.prio = s.prio /\ i.lock = s.lock /\ i.wait = s.wait
      /\ i.timers = s.timers /\ i.tick = s.tick /\ i.deadline = s.deadline /\ i.due = s.due
  <2>1. ErrorOnly(s, i, t, ETIMEOUT)
    BY <1>1, ErrorSet
  <2>. HIDE DEF i
  <2>. QED
    BY <2>1 DEF ErrorOnly, KInv
<1>. HIDE DEF i
<1>4. /\ v \in KernelState /\ QueuesOnly(i, v)
      /\ v.wait = WithoutWaiter(i, t) /\ v.error = i.error
  BY <1>3, ListRemoveOnly, RemoveWaits DEF QueuesOnly
<1>. HIDE DEF v
<1>5. w.wait = v.wait /\ w.error = v.error /\ QueuesOnly(v, w)
  BY <1>4, InsertWaits, InsertOnly
<1>. HIDE DEF w
<1>6. /\ w.stat = [j.stat EXCEPT ![t] = READY] /\ w.error = [j.error EXCEPT ![t] = ETIMEOUT]
      /\ w.wait = WithoutWaiter(j, t) /\ w.cur = j.cur
      /\ w.prio = j.prio /\ w.lock = j.lock
      /\ w.timers = RemoveFirst(j.timers, t) /\ w.tick = j.tick
      /\ w.deadline = [j.deadline EXCEPT ![t] = 0] /\ w.due = [j.due EXCEPT ![t] = 0]
  BY <1>1, <1>2, <1>3, <1>4, <1>5 DEF Readied, QueuesOnly, WithoutWaiter
<1>7. KernelWaits(w)
  BY <1>2, <1>6, WithoutWaiterExact
<1>8. Wakes(j, w, t, ETIMEOUT)
  BY <1>6, <1>7 DEF Wakes
<1>9. ContextSwitch(w, u) /\ (w.lock = 0 => TopRuns(u))
  BY <1>7, ScheduleWaits
<1>10. Wakes(j, u, t, ETIMEOUT)
  BY <1>8, <1>9, WakesThenSchedules
<1>. QED
  BY <1>2, <1>6, <1>9, <1>10 DEF ContextSwitch, s

\* The record u is j after thread t was suspended by rt_thread_suspend.
Suspends(j, u, t) ==
    /\ KInv(u, {})
    /\ u.stat = [j.stat EXCEPT ![t] = SUSPEND] /\ u.error = j.error /\ u.wait = j.wait
    /\ u.cur = j.cur /\ u.prio = j.prio /\ u.lock = j.lock
    /\ u.timers = j.timers /\ u.tick = j.tick
    /\ u.deadline = [j.deadline EXCEPT ![t] = 0] /\ u.due = [j.due EXCEPT ![t] = 0]

\* The running thread suspends itself.
LEMMA CurrentSuspends ==
    ASSUME NEW j, KInv(j, {}), NEW t, t = j.cur, j.stat[t] = READY,
           \A w \in WaitList : t \notin Range(j.wait[w])
    PROVE  Suspends(j, rt_thread_suspend(j, t), t)
<1>. DEFINE s == [j EXCEPT !.stat[t] = SUSPEND]
            v == rt_schedule_remove_thread(s, t)
            u == rt_timer_stop(v, t)
<1>1. /\ j \in KernelState /\ t \in Thread /\ j.timers \in Seq(Thread)
      /\ t \notin Range(j.timers) /\ j.wait \in [WaitList -> Seq(Thread)]
  <2>1. j \in KernelState /\ t \in Thread
    BY QueueFacts
  <2>2. t \notin Range(j.timers)
    BY StatesDiffer DEF KInv
  <2>. QED
    BY <2>1, <2>2 DEF KernelState
<1>2. rt_thread_suspend(j, t) = u
  BY DEF rt_thread_suspend
<1>3. KInv(u, {}) /\ u.stat = [j.stat EXCEPT ![t] = SUSPEND] /\ u.cur = j.cur /\ u.lock = j.lock
  BY <1>2, SuspendCurrent
<1>4. /\ s \in KernelState /\ s.error = j.error /\ s.wait = j.wait /\ s.prio = j.prio
      /\ s.timers = j.timers /\ s.tick = j.tick /\ s.deadline = j.deadline /\ s.due = j.due
  <2>1. [j.stat EXCEPT ![t] = SUSPEND] \in [Thread -> Stat]
    BY <1>1, StatesDiffer DEF KernelState
  <2>2. s = [j EXCEPT !.stat = [j.stat EXCEPT ![t] = SUSPEND]]
    BY DEF KernelState
  <2>. QED
    BY <1>1, <2>1, <2>2 DEF KernelState
<1>. HIDE DEF s
<1>5. /\ v \in KernelState /\ QueuesOnly(s, v)
      /\ v.wait = WithoutWaiter(s, t) /\ v.error = s.error
  <2>1. QueuesOnly(s, v)
    BY <1>1, <1>4, RemoveOnly
  <2>2. v.wait = WithoutWaiter(s, t) /\ v.error = s.error
    BY <1>1, <1>4, RemoveWaits
  <2>. HIDE DEF v
  <2>. QED
    BY <2>1, <2>2 DEF QueuesOnly
<1>. HIDE DEF v
<1>6. /\ u.wait = v.wait /\ u.error = v.error /\ u.tick = v.tick /\ u.prio = v.prio
      /\ u.timers = RemoveFirst(v.timers, t)
      /\ u.deadline = [v.deadline EXCEPT ![t] = 0] /\ u.due = [v.due EXCEPT ![t] = 0]
  BY <1>1, <1>5, StopFields, TimerStopFields
<1>. HIDE DEF u
<1>7. RemoveFirst(j.timers, t) = j.timers
  BY <1>1, RemoveFirstSeq
<1>8. WithoutWaiter(j, t) = j.wait
  <2>1. \A w \in WaitList : RemoveFirst(j.wait[w], t) = j.wait[w]
    BY <1>1, RemoveFirstSeq
  <2>. QED
    BY <1>1, <2>1 DEF WithoutWaiter
<1>9. v.wait = j.wait
  BY <1>4, <1>5, <1>8 DEF WithoutWaiter
<1>. QED
  BY <1>2, <1>3, <1>4, <1>5, <1>6, <1>7, <1>9 DEF Suspends, QueuesOnly

\* The record u is j with other timers.
TimersOnly(j, u) ==
    /\ u.stat = j.stat /\ u.error = j.error /\ u.wait = j.wait
    /\ u.cur = j.cur /\ u.prio = j.prio /\ u.lock = j.lock /\ u.tick = j.tick

\* Starting a timer leaves all but the timers alone.
LEMMA StartFields ==
    ASSUME NEW j \in KernelState, NEW t \in Thread, NEW n
    PROVE  TimersOnly(j, rt_timer_start(j, t, n))
  BY DEF rt_timer_start, KernelState, TimersOnly

\* Where rt_ipc_list_suspend links the waiter t: behind those that it does not
\* go before, and before the first one that it does.
LinkedAt(j, w, t, flag, i) ==
    /\ i \in 1 .. Len(j.wait[w]) + 1
    /\ \A m \in 1 .. i - 1 : ~(flag = PRIO /\ j.prio[t] < j.prio[j.wait[w][m]])
    /\ i \in 1 .. Len(j.wait[w]) => flag = PRIO /\ j.prio[t] < j.prio[j.wait[w][i]]

\* The record u is j after thread t began to wait in the list w.
Blocks(j, u, w, t, flag, time) ==
    /\ KernelWaits(u)
    /\ u.stat = [j.stat EXCEPT ![t] = SUSPEND] /\ u.error = [j.error EXCEPT ![t] = EOK]
    /\ u.cur = j.cur /\ u.prio = j.prio /\ u.lock = j.lock /\ u.tick = j.tick
    /\ \E i \in 1 .. Len(j.wait[w]) + 1 :
         LinkedAt(j, w, t, flag, i) /\ u.wait = [j.wait EXCEPT ![w] = InsertAt(@, i, t)]
    /\ \A v \in WaitList :
         Range(u.wait[v]) = Range(j.wait[v]) \cup (IF v = w THEN {t} ELSE {})
    /\ Range(u.timers) = Range(j.timers) \cup (IF time > 0 THEN {t} ELSE {})

\* The record u is j after thread t joined the list w, which became list.
Joins(j, u, w, t, list, time) ==
    /\ KernelWaits(u)
    /\ u.stat = [j.stat EXCEPT ![t] = SUSPEND] /\ u.error = [j.error EXCEPT ![t] = EOK]
    /\ u.cur = j.cur /\ u.prio = j.prio /\ u.lock = j.lock /\ u.tick = j.tick
    /\ u.wait = [j.wait EXCEPT ![w] = list]
    /\ \A v \in WaitList :
         Range(u.wait[v]) = Range(j.wait[v]) \cup (IF v = w THEN {t} ELSE {})
    /\ Range(u.timers) = Range(j.timers) \cup (IF time > 0 THEN {t} ELSE {})

\* The running thread suspends itself, is linked somewhere in the list w, and
\* starts the timer of a timed wait.
LEMMA WaiterJoins ==
    ASSUME NEW j, KernelWaits(j), NEW t, t = j.cur, t # Idle, j.stat[t] = READY,
           NEW w \in WaitList, NEW time \in Int, NEW list \in Seq(Thread), IsInjective(list),
           Range(list) = Range(j.wait[w]) \cup {t}
    PROVE  LET v == [rt_thread_suspend(WithError(j, t, EOK), t) EXCEPT !.wait[w] = list]
           IN  Joins(j, IF time > 0 THEN rt_timer_start(v, t, time) ELSE v, w, t, list, time)
<1>. DEFINE e == WithError(j, t, EOK)
            s == rt_thread_suspend(e, t)
            v == [s EXCEPT !.wait[w] = list]
            u == IF time > 0 THEN rt_timer_start(v, t, time) ELSE v
<1>1. /\ KInv(j, {}) /\ j \in KernelState /\ t \in Thread /\ j.stat \in [Thread -> Stat]
      /\ j.wait \in [WaitList -> Seq(Thread)] /\ j.prio \in [Thread -> Priority]
      /\ j.error \in [Thread -> {EOK, ERROR, ETIMEOUT, EINTR}]
      /\ \A x \in WaitList : t \notin Range(j.wait[x])
  <2>1. KInv(j, {}) /\ j \in KernelState /\ t \in Thread
    BY QueueFacts DEF KernelWaits
  <2>2. \A x \in WaitList : t \notin Range(j.wait[x])
    BY StatesDiffer DEF KernelWaits, WaitsExact
  <2>. QED
    BY <2>1, <2>2 DEF KernelState
<1>2. ErrorOnly(j, e, t, EOK)
  BY <1>1, ErrorSet
<1>. HIDE DEF e
<1>3. Suspends(e, s, t)
  BY <1>1, <1>2, CurrentSuspends DEF ErrorOnly
<1>. HIDE DEF s
<1>5. /\ KInv(s, {}) /\ s \in KernelState /\ s.stat = [j.stat EXCEPT ![t] = SUSPEND]
      /\ s.error = [j.error EXCEPT ![t] = EOK] /\ s.wait = j.wait
      /\ s.cur = j.cur /\ s.prio = j.prio /\ s.lock = j.lock
      /\ s.timers = j.timers /\ s.tick = j.tick
  BY <1>2, <1>3 DEF Suspends, ErrorOnly, KInv
<1>8. /\ v \in KernelState /\ v.stat = s.stat /\ v.error = s.error
      /\ v.wait = [j.wait EXCEPT ![w] = list]
      /\ v.cur = j.cur /\ v.prio = j.prio /\ v.lock = j.lock /\ v.tick = j.tick
      /\ v.timers = j.timers /\ v.group = s.group /\ v.ready = s.ready /\ v.defunct = s.defunct
  <2>1. [s.wait EXCEPT ![w] = list] \in [WaitList -> Seq(Thread)]
    BY <1>1, <1>5
  <2>2. v = [s EXCEPT !.wait = [s.wait EXCEPT ![w] = list]]
    BY <1>5 DEF KernelState
  <2>. HIDE DEF v
  <2>. QED
    BY <1>5, <2>1, <2>2 DEF KernelState
<1>. HIDE DEF v
<1>9. KInv(v, {})
  <2>1. IsInjective(v.timers)
    BY <1>5, <1>8 DEF KInv
  <2>. QED
    BY <1>5, <1>8, <2>1, SameKInv DEF SameQueues
<1>10. v.stat = [j.stat EXCEPT ![t] = SUSPEND] /\ v.error = [j.error EXCEPT ![t] = EOK]
  BY <1>5, <1>8
<1>11. KernelWaits(v)
  <2>1. ASSUME NEW x \in WaitList, NEW y \in Range(v.wait[x])
        PROVE  /\ y \in Range(j.wait[x]) \/ (y = t /\ x = w)
               /\ v.stat[y] = SUSPEND /\ v.error[y] = EOK
    <3>1. y \in Range(j.wait[x]) \/ (y = t /\ x = w)
      BY <1>1, <1>8, <2>1
    <3>2. y \in Range(j.wait[x]) => /\ j.stat[y] = SUSPEND /\ j.error[y] = EOK
                                    /\ y # t /\ y \in Thread
      <4>1. j.wait[x] \in Seq(Thread)
        BY <1>1
      <4>2. y \in Range(j.wait[x]) => y \in Thread
        BY <4>1, ElementOfSeq DEF Range
      <4>. QED
        BY <1>1, <4>2 DEF KernelWaits, WaitsExact
    <3>. QED
      BY <1>1, <1>10, <3>1, <3>2
  <2>2. \A x \in WaitList : IsInjective(v.wait[x])
    BY <1>1, <1>8 DEF KernelWaits, WaitsExact
  <2>3. ASSUME NEW x \in WaitList, NEW z \in WaitList, NEW y \in Range(v.wait[x]),
               y \in Range(v.wait[z])
        PROVE  z = x
    <3>1. /\ y \in Range(j.wait[x]) \/ (y = t /\ x = w)
          /\ y \in Range(j.wait[z]) \/ (y = t /\ z = w)
      BY <2>1, <2>3
    <3>2. y = t => x = w /\ z = w
      BY <1>1, <3>1
    <3>3. y # t => y \in Range(j.wait[x]) /\ y \in Range(j.wait[z])
      BY <3>1
    <3>. QED
      BY <3>2, <3>3 DEF KernelWaits, WaitsExact
  <2>4. v.stat[Idle] = READY
    BY <1>1, <1>10, KernelConstants DEF KernelWaits
  <2>. QED
    BY <1>9, <2>1, <2>2, <2>3, <2>4 DEF KernelWaits, WaitsExact
<1>12. Joins(j, v, w, t, list, 0)
  <2>1. \A x \in WaitList : Range(v.wait[x]) = Range(j.wait[x]) \cup (IF x = w THEN {t} ELSE {})
    BY <1>1, <1>8
  <2>. QED
    BY <1>8, <1>10, <1>11, <2>1 DEF Joins
<1>13. CASE ~(time > 0)
  <2>1. u = v
    BY <1>13
  <2>2. Joins(j, v, w, t, list, time)
    BY <1>12, <1>13 DEF Joins
  <2>. QED
    BY <2>1, <2>2 DEF v, s, e
<1>14. CASE time > 0
  <2>. DEFINE x == rt_timer_start(v, t, time)
  <2>1. v.stat[t] = SUSPEND /\ time \in Nat
    BY <1>1, <1>10, <1>14
  <2>2. KInv(x, {}) /\ TimerStarted(v, x, t)
    BY <1>1, <1>9, <2>1, StartTimer
  <2>3. TimersOnly(v, x)
    BY <1>1, <1>8, StartFields
  <2>4. u = x
    BY <1>14
  <2>. HIDE DEF x, u
  <2>5. KernelWaits(x)
    BY <1>11, <2>2, <2>3 DEF KernelWaits, WaitsExact, TimersOnly
  <2>6. Range(x.timers) = Range(j.timers) \cup {t}
    BY <1>8, <2>2 DEF TimerStarted
  <2>7. /\ x.stat = v.stat /\ x.error = v.error /\ x.cur = v.cur /\ x.prio = v.prio
        /\ x.lock = v.lock /\ x.tick = v.tick /\ x.wait = v.wait
    BY <2>3 DEF TimersOnly
  <2>8. Joins(j, x, w, t, list, time)
    BY <1>12, <1>14, <2>5, <2>6, <2>7 DEF Joins
  <2>. QED
    BY <2>4, <2>8 DEF u, v, s, e
<1>. QED
  BY <1>13, <1>14

\* rt_ipc_list_suspend of the running thread, and the timer of a timed wait.
LEMMA BlockBlocks ==
    ASSUME NEW j, KernelWaits(j), NEW t, t = j.cur, t # Idle, j.stat[t] = READY,
           NEW w \in WaitList, NEW flag, NEW time \in Int
    PROVE  Blocks(j, Block(j, w, t, flag, time), w, t, flag, time)
<1>. DEFINE e == WithError(j, t, EOK)
            s == rt_thread_suspend(e, t)
            hits == {i \in 1 .. Len(s.wait[w]) :
                       flag = PRIO /\ s.prio[t] < s.prio[s.wait[w][i]]}
            at == IF hits = {} THEN Len(s.wait[w]) + 1 ELSE Min(hits)
            list == InsertAt(s.wait[w], at, t)
            v == [s EXCEPT !.wait[w] = list]
            u == IF time > 0 THEN rt_timer_start(v, t, time) ELSE v
<1>1. /\ KInv(j, {}) /\ t \in Thread /\ j.wait \in [WaitList -> Seq(Thread)]
      /\ \A x \in WaitList : t \notin Range(j.wait[x])
  <2>1. KInv(j, {}) /\ j \in KernelState /\ t \in Thread
    BY QueueFacts DEF KernelWaits
  <2>2. \A x \in WaitList : t \notin Range(j.wait[x])
    BY StatesDiffer DEF KernelWaits, WaitsExact
  <2>. QED
    BY <2>1, <2>2 DEF KernelState
<1>2. Block(j, w, t, flag, time) = u
  <2>1. rt_ipc_list_suspend(e, w, t, flag) = v
    BY DEF rt_ipc_list_suspend, PositionBefore
  <2>. QED
    BY <2>1 DEF Block, WithError, e
<1>3. s.wait = j.wait /\ s.prio = j.prio
  <2>1. ErrorOnly(j, e, t, EOK)
    BY <1>1, ErrorSet
  <2>2. Suspends(e, s, t)
    BY <1>1, <2>1, CurrentSuspends DEF ErrorOnly
  <2>. QED
    BY <2>1, <2>2 DEF ErrorOnly, Suspends
<1>4. at \in 1 .. Len(j.wait[w]) + 1 /\ LinkedAt(j, w, t, flag, at)
  <2>. HIDE DEF s
  <2>1. j.wait[w] \in Seq(Thread) /\ Len(j.wait[w]) \in Nat
    BY <1>1, LenProperties
  <2>2. hits \in SUBSET Nat /\ hits \subseteq 1 .. Len(j.wait[w])
    BY <1>3, <2>1
  <2>3. hits # {} => Min(hits) \in hits /\ \A y \in hits : Min(hits) <= y
    BY <2>2, MinOfNat
  <2>4. \A i \in 1 .. Len(j.wait[w]) :
          i \in hits <=> flag = PRIO /\ j.prio[t] < j.prio[j.wait[w][i]]
    BY <1>3
  <2>5. at = IF hits = {} THEN Len(j.wait[w]) + 1 ELSE Min(hits)
    BY <1>3
  <2>. HIDE DEF hits, at
  <2>6. CASE hits = {}
    BY <2>1, <2>4, <2>5, <2>6 DEF LinkedAt
  <2>7. CASE hits # {}
    <3>1. at \in hits /\ at \in 1 .. Len(j.wait[w]) /\ \A y \in hits : at <= y
      BY <2>2, <2>3, <2>5, <2>7
    <3>2. \A m \in 1 .. at - 1 : m \notin hits /\ m \in 1 .. Len(j.wait[w])
      BY <2>1, <3>1
    <3>. QED
      BY <2>1, <2>4, <3>1, <3>2 DEF LinkedAt
  <2>. QED
    BY <2>6, <2>7
<1>. HIDE DEF at
<1>5. /\ list \in Seq(Thread) /\ IsInjective(list) /\ Range(list) = Range(j.wait[w]) \cup {t}
      /\ list = InsertAt(j.wait[w], at, t)
  <2>1. j.wait[w] \in Seq(Thread) /\ IsInjective(j.wait[w]) /\ t \notin Range(j.wait[w])
    BY <1>1 DEF KernelWaits, WaitsExact
  <2>2. list = InsertAt(j.wait[w], at, t)
    BY <1>3
  <2>. QED
    BY <1>1, <1>4, <2>1, <2>2, InsertAtOnce
<1>. HIDE DEF list
<1>6. Joins(j, u, w, t, list, time)
  BY <1>5, WaiterJoins
<1>. HIDE DEF u
<1>7. u.wait = [j.wait EXCEPT ![w] = InsertAt(@, at, t)]
  BY <1>1, <1>5, <1>6 DEF Joins
<1>8. Blocks(j, u, w, t, flag, time)
  BY <1>4, <1>6, <1>7 DEF Joins, Blocks
<1>. QED
  BY <1>2, <1>8

\* Whoever blocks joins a list.
LEMMA BlocksJoin ==
    ASSUME NEW j, NEW u, NEW w, NEW t, NEW flag, NEW time, Blocks(j, u, w, t, flag, time)
    PROVE  \E list : Joins(j, u, w, t, list, time)
<1>1. PICK i : u.wait = [j.wait EXCEPT ![w] = InsertAt(@, i, t)]
  BY DEF Blocks
<1>. DEFINE list == InsertAt(j.wait[w], i, t)
<1>2. u.wait = [j.wait EXCEPT ![w] = list]
  BY <1>1
<1>. HIDE DEF list
<1>3. Joins(j, u, w, t, list, time)
  BY <1>2 DEF Blocks, Joins
<1>. QED
  BY <1>3

\* The record u is j one tick later.
Ticks(j, u) ==
    /\ KernelWaits(u)
    /\ u.stat = j.stat /\ u.error = j.error /\ u.wait = j.wait
    /\ u.prio = j.prio /\ u.lock = j.lock
    /\ u.timers = j.timers /\ u.deadline = j.deadline
    /\ u.tick = (j.tick + 1) % TICK_RANGE
    /\ u.due = [t \in Thread |-> IF t \in Range(j.timers) THEN j.due[t] - 1 ELSE j.due[t]]
    /\ u.cur = j.cur \/ j.stat[u.cur] = READY
    /\ u.cur # j.cur => j.lock = 0 /\ TopRuns(u)

\* rt_tick_increase leaves the waiters to rt_timer_check.
LEMMA TickTicks ==
    ASSUME NEW j, KernelWaits(j)
    PROVE  Ticks(j, rt_tick_increase(j))
<1>. DEFINE t == j.cur
            due == [s \in Thread |-> IF s \in Range(j.timers) THEN j.due[s] - 1 ELSE j.due[s]]
            tick == (j.tick + 1) % TICK_RANGE
            counted == [j EXCEPT !.tick = tick, !.due = due]
            v == [counted EXCEPT !.slice[t] = InitTick[t]]
            c == [counted EXCEPT !.slice[t] = @ - 1]
            u == rt_tick_increase(j)
<1>1. /\ KInv(j, {}) /\ j \in KernelState /\ t \in Thread /\ IsInjective(j.timers)
      /\ tick \in Tick /\ due \in [Thread -> Int] /\ InitTick[t] \in Nat \ {0}
  <2>1. KInv(j, {}) /\ j \in KernelState /\ t \in Thread /\ IsInjective(j.timers)
    BY QueueFacts DEF KernelWaits, KInv
  <2>2. j.tick + 1 \in Nat /\ TICK_RANGE \in Nat \ {0} /\ j.due \in [Thread -> Int]
    <3>1. j.tick \in Tick /\ j.due \in [Thread -> Int]
      BY <2>1 DEF KernelState
    <3>2. TICK_RANGE \in Nat \ {0} /\ \A n \in Tick : n + 1 \in Nat
      BY KernelConstants DEF Tick
    <3>. HIDE DEF u, c, v, counted, tick, due
    <3>. QED
      BY <3>1, <3>2
  <2>. QED
    BY <2>1, <2>2, KernelConstants DEF Tick
<1>2. u = IF j.slice[t] = 1 THEN rt_schedule(v) ELSE c
  <2>. HIDE DEF due, tick
  <2>1. counted.slice = j.slice
    BY <1>1 DEF KernelState
  <2>. QED
    BY <2>1 DEF rt_tick_increase, due, tick
<1>. HIDE DEF due, tick
<1>3. /\ counted \in KernelState /\ counted.tick = tick /\ counted.due = due
      /\ counted.stat = j.stat /\ counted.error = j.error /\ counted.wait = j.wait
      /\ counted.prio = j.prio /\ counted.lock = j.lock /\ counted.cur = j.cur
      /\ counted.timers = j.timers /\ counted.deadline = j.deadline
      /\ counted.group = j.group /\ counted.ready = j.ready /\ counted.defunct = j.defunct
      /\ counted.slice = j.slice
  BY <1>1 DEF KernelState
<1>. HIDE DEF counted
<1>4. ASSUME NEW n \in Nat \ {0}
      PROVE  LET x == [counted EXCEPT !.slice[t] = n] IN Ticks(j, x) /\ x.cur = j.cur
  <2>. DEFINE x == [counted EXCEPT !.slice[t] = n]
  <2>1. /\ x \in KernelState /\ x.tick = tick /\ x.due = due
        /\ x.stat = j.stat /\ x.error = j.error /\ x.wait = j.wait
        /\ x.prio = j.prio /\ x.lock = j.lock /\ x.cur = j.cur
        /\ x.timers = j.timers /\ x.deadline = j.deadline
        /\ x.group = j.group /\ x.ready = j.ready /\ x.defunct = j.defunct
    BY <1>1, <1>3 DEF KernelState
  <2>. HIDE DEF x
  <2>2. KInv(x, {})
    BY <1>1, <2>1, SameKInv DEF SameQueues
  <2>3. KernelWaits(x)
    BY <2>1, <2>2 DEF KernelWaits, WaitsExact
  <2>. QED
    BY <2>1, <2>3 DEF Ticks, due, tick, x
<1>5. CASE j.slice[t] = 1
  <2>1. Ticks(j, v) /\ v.cur = j.cur
    BY <1>1, <1>4
  <2>. HIDE DEF v
  <2>2. ContextSwitch(v, rt_schedule(v))
    BY <2>1, ScheduleWaits DEF Ticks
  <2>. QED
    BY <1>2, <1>5, <2>1, <2>2 DEF Ticks, ContextSwitch
<1>6. CASE j.slice[t] # 1
  <2>1. counted.slice[t] - 1 \in Nat \ {0} /\ c = [counted EXCEPT !.slice[t] = counted.slice[t] - 1]
    <3>1. j.slice[t] \in Nat \ {0}
      BY <1>1 DEF KernelState
    <3>. QED
      BY <1>3, <1>6, <3>1
  <2>2. Ticks(j, c)
    BY <1>4, <2>1
  <2>. QED
    BY <1>2, <1>6, <2>2
<1>. QED
  BY <1>5, <1>6

-----------------------------------------------------------------------------
(* The inductive invariant of the threads, and the steps of Blocking *)

\* Only a thread in the call that made it wait or sleep runs on suspended, up
\* to its rt_schedule and with the scheduler unlocked.
CurrentMayRun ==
    \/ k.stat[k.cur] = READY
    \/ k.lock = 0 /\ pc[k.cur] \in {"wait", "sleep"}

BlockingInv ==
    /\ KernelWaits(k)
    /\ isr \in {"none", "timer"}
    /\ pc = [t \in Thread |-> pc[t]] /\ pc[Idle] = "run"
    /\ CurrentMayRun
    /\ \A w \in WaitList : \A t \in Range(k.wait[w]) : pc[t] \in {"wait", "woken"}

\* The invariant says what WaitersLeave does.
LEMMA InvWaitersLeave ==
    ASSUME BlockingInv
    PROVE  WaitersLeave
  BY StatesDiffer DEF BlockingInv, KernelWaits, WaitsExact, CurrentMayRun, WaitersLeave

\* The waiters are threads.
LEMMA WaitersAreThreads ==
    ASSUME NEW j, KernelWaits(j)
    PROVE  /\ j.wait \in [WaitList -> Seq(Thread)]
           /\ \A w \in WaitList : Range(j.wait[w]) \subseteq Thread
           /\ \A w \in WaitList : j.wait[w] = << >> <=> Range(j.wait[w]) = {}
<1>1. j.wait \in [WaitList -> Seq(Thread)]
  <2>1. j \in KernelState
    BY DEF KernelWaits, KInv
  <2>. QED
    BY <2>1 DEF KernelState
<1>2. \A w \in WaitList : Range(j.wait[w]) \subseteq Thread
  BY <1>1, ElementOfSeq DEF Range
<1>3. \A w \in WaitList : j.wait[w] = << >> <=> Range(j.wait[w]) = {}
  BY <1>1, HeadInRange
<1>. QED
  BY <1>1, <1>2, <1>3

\* A thread whose call is in a section of its own, and the idle thread, wait in
\* no list and are READY.
LEMMA CallerIsReady ==
    ASSUME BlockingInv, NEW t, t = k.cur, pc[t] \notin {"wait", "sleep"}
    PROVE  /\ t \in Thread /\ k.stat[t] = READY
           /\ \A w \in WaitList : t \notin Range(k.wait[w])
<1>1. t \in Thread
  BY QueueFacts DEF BlockingInv, KernelWaits
<1>. QED
  BY <1>1, StatesDiffer DEF BlockingInv, CurrentMayRun, KernelWaits, WaitsExact

\* The threads that wait go on waiting.
NobodyLeaves ==
    /\ k'.wait = k.wait
    /\ \A t \in Thread : pc[t] \in {"wait", "woken"} =>
         k'.stat[t] = k.stat[t] /\ k'.error[t] = k.error[t]

\* The timer of thread t ends its wait or its sleep.
TimesOut(t) ==
    /\ t \in Thread /\ k.stat[t] = SUSPEND /\ t \in Range(k.timers)
    /\ Wakes(k, k', t, ETIMEOUT)
    /\ UNCHANGED pc

\* What the steps of Blocking are to an object: no call begins or ends, a locked
\* scheduler switches to nobody, and a timeout takes one waiter off its list.
Quiet ==
    /\ k'.prio = k.prio /\ k'.lock = k.lock
    /\ k.lock # 0 => k'.cur = k.cur
    /\ \A t \in Thread :
         /\ pc[t] \in {"run", "sched", "sleep", "slept"} => pc'[t] \in {"run", "sched", "sleep", "slept"}
         /\ pc[t] = "wait" => pc'[t] \in {"wait", "woken"}
         /\ pc[t] \notin {"run", "sched", "sleep", "slept", "wait"} => pc'[t] = pc[t]
    /\ \A t \in Range(k'.timers) : t \in Range(k.timers) \/ pc'[t] = "sleep"
    /\ NobodyLeaves \/ \E t \in Thread : TimesOut(t)

\* rt_thread_delay: the caller sleeps and waits in no list.
LEMMA DelayQuiet ==
    ASSUME BlockingInv, NEW t \in Thread, rt_thread_delay(t)
    PROVE  BlockingInv' /\ Quiet
<1>1. /\ t = k.cur /\ t # Idle /\ pc[t] = "run" /\ k.lock = 0
      /\ pc' = [pc EXCEPT ![t] = "sleep"] /\ isr' = isr
  BY DEF rt_thread_delay, Calls, Executes, Goto
<1>2. PICK n \in SleepTicks : k' = rt_timer_start(rt_thread_suspend(k, t), t, n)
  BY DEF rt_thread_delay
<1>. DEFINE s == rt_thread_suspend(k, t)
<1>3. /\ KernelWaits(k) /\ KInv(k, {}) /\ k \in KernelState /\ k.stat \in [Thread -> Stat]
      /\ k.stat[t] = READY
      /\ \A w \in WaitList : t \notin Range(k.wait[w])
      /\ n \in Nat
  <2>1. n \in Nat
    BY BlockingConstants
  <2>2. k.stat[t] = READY /\ \A w \in WaitList : t \notin Range(k.wait[w])
    BY <1>1, CallerIsReady
  <2>3. KernelWaits(k) /\ KInv(k, {})
    BY DEF BlockingInv, KernelWaits
  <2>. QED
    BY <2>1, <2>2, <2>3, QueueFacts
<1>4. Suspends(k, s, t)
  BY <1>1, <1>3, CurrentSuspends
<1>. HIDE DEF s
<1>5. s \in KernelState /\ s.stat[t] = SUSPEND
  BY <1>3, <1>4 DEF Suspends, KInv
<1>6. /\ KInv(k', {}) /\ TimersOnly(s, k')
      /\ Range(k'.timers) = Range(k.timers) \cup {t}
  <2>1. k' = rt_timer_start(s, t, n) /\ t \in Thread /\ KInv(s, {}) /\ s.timers = k.timers
    BY <1>1, <1>2, <1>3, <1>4, QueueFacts DEF Suspends, s
  <2>2. KInv(k', {}) /\ TimerStarted(s, k', t)
    BY <1>3, <1>5, <2>1, StartTimer
  <2>3. TimersOnly(s, k')
    BY <1>5, <2>1, StartFields
  <2>. QED
    BY <2>1, <2>2, <2>3 DEF TimerStarted
<1>7. /\ k'.stat = [k.stat EXCEPT ![t] = SUSPEND] /\ k'.error = k.error /\ k'.wait = k.wait
      /\ k'.prio = k.prio /\ k'.lock = k.lock /\ k'.cur = k.cur
  BY <1>4, <1>6 DEF Suspends, TimersOnly
<1>8. KernelWaits(k')
  <2>1. k'.stat[Idle] = READY
    BY <1>1, <1>3, <1>7, KernelConstants DEF KernelWaits
  <2>2. ASSUME NEW w \in WaitList, NEW x \in Range(k.wait[w])
        PROVE  x # t /\ x \in Thread /\ k'.stat[x] = SUSPEND
    <3>1. x # t /\ x \in Thread
      BY <1>3, WaitersAreThreads
    <3>2. k.stat[x] = SUSPEND
      BY <1>3 DEF KernelWaits, WaitsExact
    <3>. QED
      BY <1>3, <1>7, <3>1, <3>2
  <2>3. WaitsExact(k')
    <3>1. WaitsExact(k)
      BY <1>3 DEF KernelWaits
    <3>. QED
      BY <1>7, <2>2, <3>1 DEF WaitsExact
  <2>. QED
    BY <1>6, <2>1, <2>3 DEF KernelWaits
<1>9. pc'[t] = "sleep" /\ \A x \in Thread \ {t} : pc'[x] = pc[x] /\ k'.stat[x] = k.stat[x]
  BY <1>1, <1>3, <1>7 DEF BlockingInv
<1>10. BlockingInv'
  <2>1. \A w \in WaitList : \A x \in Range(k'.wait[w]) : pc'[x] \in {"wait", "woken"}
    BY <1>3, <1>7, <1>9, WaitersAreThreads, ZenonT(60) DEF BlockingInv
  <2>2. pc' = [x \in Thread |-> pc'[x]] /\ pc'[Idle] = "run"
    BY <1>1, <1>9, KernelConstants DEF BlockingInv
  <2>. QED
    BY <1>1, <1>7, <1>8, <1>9, <2>1, <2>2 DEF BlockingInv, CurrentMayRun
<1>. QED
  BY <1>1, <1>6, <1>7, <1>9, <1>10 DEF Quiet, NobodyLeaves

\* The rt_schedule at the end of a section: who waits goes to sleep.
LEMMA ScheduleQuiet ==
    ASSUME BlockingInv, NEW t \in Thread, Schedule(t)
    PROVE  BlockingInv' /\ Quiet
<1>1. /\ t = k.cur /\ pc[t] \in {"sched", "sleep", "wait"} /\ k' = rt_schedule(k)
      /\ pc' = [pc EXCEPT ![t] = IF pc[t] = "sched" THEN "run"
                                 ELSE IF pc[t] = "sleep" THEN "slept" ELSE "woken"]
      /\ isr' = isr
  BY DEF Schedule, Executes, Goto, After
<1>2. /\ ContextSwitch(k, k')
      /\ k.lock # 0 => k' = k
      /\ k.lock = 0 => k.stat[k'.cur] = READY
  BY <1>1, ScheduleWaits DEF BlockingInv
<1>3. /\ pc' = [x \in Thread |-> pc'[x]]
      /\ pc'[t] = IF pc[t] = "sched" THEN "run" ELSE IF pc[t] = "sleep" THEN "slept" ELSE "woken"
      /\ \A x \in Thread \ {t} : pc'[x] = pc[x]
  BY <1>1 DEF BlockingInv
<1>4. t # Idle
  BY <1>1 DEF BlockingInv
<1>5. k'.stat[k'.cur] = READY
  BY <1>1, <1>2, StatesDiffer DEF ContextSwitch, BlockingInv, CurrentMayRun
<1>6. \A w \in WaitList : \A x \in Range(k'.wait[w]) : pc'[x] \in {"wait", "woken"}
  BY <1>1, <1>2, <1>3, WaitersAreThreads DEF BlockingInv, ContextSwitch
<1>7. BlockingInv'
  BY <1>1, <1>2, <1>3, <1>4, <1>5, <1>6, KernelConstants DEF BlockingInv, ContextSwitch, CurrentMayRun
<1>. QED
  BY <1>1, <1>2, <1>3, <1>7 DEF Quiet, NobodyLeaves, ContextSwitch

\* The end of rt_thread_delay.
LEMMA SleepReturnQuiet ==
    ASSUME BlockingInv, NEW t \in Thread, SleepReturn(t)
    PROVE  BlockingInv' /\ Quiet
<1>. DEFINE e == IF k.error[t] = ETIMEOUT THEN EOK ELSE k.error[t]
<1>1. /\ t = k.cur /\ pc[t] = "slept" /\ k' = WithError(k, t, e)
      /\ pc' = [pc EXCEPT ![t] = "run"] /\ isr' = isr
  BY DEF SleepReturn, Continues, Executes, Goto, WithError
<1>2. /\ KernelWaits(k) /\ KInv(k, {}) /\ k \in KernelState
      /\ k.error \in [Thread -> {EOK, ERROR, ETIMEOUT, EINTR}]
  <2>1. KernelWaits(k) /\ KInv(k, {}) /\ k \in KernelState
    BY DEF BlockingInv, KernelWaits, KInv
  <2>. QED
    BY <2>1 DEF KernelState
<1>3. e \in {EOK, ERROR, ETIMEOUT, EINTR}
  BY <1>2
<1>. HIDE DEF e
<1>4. ErrorOnly(k, k', t, e)
  BY <1>1, <1>2, <1>3, ErrorSet
<1>5. k.stat[t] = READY /\ \A w \in WaitList : t \notin Range(k.wait[w])
  BY <1>1, CallerIsReady
<1>6. /\ pc' = [x \in Thread |-> pc'[x]] /\ pc'[t] = "run"
      /\ \A x \in Thread \ {t} : pc'[x] = pc[x] /\ k'.error[x] = k.error[x]
  BY <1>1, <1>2, <1>4 DEF BlockingInv, ErrorOnly
<1>7. KernelWaits(k')
  <2>1. \A w \in WaitList : \A x \in Range(k.wait[w]) : k'.error[x] = k.error[x]
    BY <1>2, <1>5, <1>6, WaitersAreThreads
  <2>2. k'.stat = k.stat /\ k'.wait = k.wait /\ KInv(k', {})
    BY <1>4 DEF ErrorOnly
  <2>3. WaitsExact(k')
    <3>1. WaitsExact(k)
      BY <1>2 DEF KernelWaits
    <3>. QED
      BY <2>1, <2>2, <3>1 DEF WaitsExact
  <2>. QED
    BY <1>2, <2>2, <2>3 DEF KernelWaits
<1>8. BlockingInv'
  <2>1. \A w \in WaitList : \A x \in Range(k'.wait[w]) : pc'[x] \in {"wait", "woken"}
    BY <1>2, <1>4, <1>5, <1>6, WaitersAreThreads, ZenonT(60) DEF BlockingInv, ErrorOnly
  <2>2. pc'[Idle] = "run"
    BY <1>6, KernelConstants DEF BlockingInv
  <2>. QED
    BY <1>1, <1>4, <1>5, <1>6, <1>7, <2>1, <2>2 DEF BlockingInv, CurrentMayRun, ErrorOnly
<1>. QED
  BY <1>1, <1>4, <1>6, <1>8 DEF Quiet, NobodyLeaves, ErrorOnly

\* The clock interrupt.
LEMMA InterruptQuiet ==
    ASSUME BlockingInv, TickInterrupt \/ TimerFire \/ TimerCheckDone
    PROVE  BlockingInv' /\ Quiet
<1>0. KernelWaits(k) /\ KInv(k, {}) /\ k \in KernelState /\ k.stat \in [Thread -> Stat]
  BY QueueFacts DEF BlockingInv, KernelWaits
<1>1. CASE TickInterrupt
  <2>1. Ticks(k, k') /\ isr' = "timer" /\ UNCHANGED pc
    BY <1>1, TickTicks DEF TickInterrupt, BlockingInv
  <2>2. BlockingInv'
    BY <2>1 DEF BlockingInv, CurrentMayRun, Ticks
  <2>. QED
    BY <2>1, <2>2 DEF Quiet, NobodyLeaves, Ticks
<1>2. CASE TimerFire
  <2>. DEFINE t == Head(k.timers)
  <2>1. /\ k.timers # << >> /\ k' = rt_thread_timeout(rt_timer_stop(k, t), t)
        /\ UNCHANGED <<pc, isr>>
    BY <1>2 DEF TimerFire, TimerDue
  <2>2. k.timers \in Seq(Thread) /\ t \in Thread /\ t \in Range(k.timers)
    BY <1>0, <2>1, HeadInRange DEF KernelState
  <2>3. k.stat[t] = SUSPEND
    BY <1>0, <2>2 DEF KInv
  <2>. HIDE DEF t
  <2>4. Wakes(k, k', t, ETIMEOUT) /\ (k'.cur = k.cur \/ (k.lock = 0 /\ k'.stat[k'.cur] = READY))
    BY <1>0, <2>1, <2>2, <2>3, TimeoutWakes
  <2>5. TimesOut(t)
    BY <2>1, <2>2, <2>3, <2>4 DEF TimesOut
  <2>6. CurrentMayRun'
    BY <1>0, <2>1, <2>2, <2>4 DEF CurrentMayRun, BlockingInv, Wakes
  <2>7. \A w \in WaitList : Range(k'.wait[w]) \subseteq Range(k.wait[w])
    <3>1. k.wait \in [WaitList -> Seq(Thread)]
      BY <1>0, WaitersAreThreads
    <3>2. \A w \in WaitList : k'.wait[w] = RemoveFirst(k.wait[w], t)
      BY <2>4 DEF Wakes, WithoutWaiter
    <3>. QED
      BY <3>1, <3>2, RemoveFirstSeq
  <2>8. BlockingInv'
    BY <2>1, <2>4, <2>6, <2>7 DEF BlockingInv, Wakes
  <2>9. Range(k'.timers) \subseteq Range(k.timers)
    BY <2>2, <2>4, RemoveFirstSeq DEF Wakes
  <2>. QED
    BY <2>1, <2>2, <2>4, <2>5, <2>8, <2>9 DEF Quiet, Wakes
<1>3. CASE TimerCheckDone
  BY <1>3 DEF TimerCheckDone, BlockingInv, CurrentMayRun, Quiet, NobodyLeaves
<1>. QED
  BY <1>1, <1>2, <1>3

\* The steps of Blocking.
LEMMA BlockingStep ==
    ASSUME BlockingInv, BlockingNext
    PROVE  BlockingInv' /\ Quiet
  BY DelayQuiet, ScheduleQuiet, SleepReturnQuiet, InterruptQuiet DEF BlockingNext

\* Whether the running thread is first of all depends on the states and the
\* priorities only.
LEMMA TopSame ==
    ASSUME NEW j, KernelWaits(j), NEW u, KernelWaits(u),
           u.stat = j.stat, u.prio = j.prio, u.cur = j.cur, TopRuns(j)
    PROVE  TopRuns(u)
  BY TopByState DEF KernelWaits

\* After a step of Blocking no READY thread is before the one that runs, unless
\* the step was no rt_schedule: then the caller is about to call it, or nothing
\* changed for the scheduler.
Settles ==
    \/ TopRuns(k')
    \/ k'.cur = k.cur /\ pc'[k.cur] = "sleep"
    \/ /\ k'.stat = k.stat /\ k'.prio = k.prio /\ k'.cur = k.cur
       /\ pc'[k.cur] = pc[k.cur] \/ pc[k.cur] = "slept"

\* Sleeps, context switches and the clock settle who runs.
LEMMA StepSettles ==
    ASSUME BlockingInv, k.lock = 0, BlockingNext
    PROVE  Settles
<1>1. KernelWaits(k) /\ KInv(k, {}) /\ k.cur \in Thread /\ pc = [x \in Thread |-> pc[x]]
  BY QueueFacts DEF BlockingInv, KernelWaits
<1>2. ASSUME NEW t \in Thread, rt_thread_delay(t) PROVE Settles
  <2>1. /\ t = k.cur /\ pc[t] = "run" /\ pc' = [pc EXCEPT ![t] = "sleep"]
    BY <1>2 DEF rt_thread_delay, Calls, Executes, Goto
  <2>2. PICK n : k' = rt_timer_start(rt_thread_suspend(k, t), t, n)
    BY <1>2 DEF rt_thread_delay
  <2>3. Suspends(k, rt_thread_suspend(k, t), t)
    BY <1>1, <2>1, CallerIsReady, CurrentSuspends
  <2>4. rt_thread_suspend(k, t) \in KernelState
    BY <2>3 DEF Suspends, KInv
  <2>5. k'.cur = k.cur
    BY <2>2, <2>3, <2>4, StartFields DEF Suspends, TimersOnly
  <2>. QED
    BY <1>1, <2>1, <2>5 DEF Settles
<1>3. ASSUME NEW t \in Thread, Schedule(t) PROVE Settles
  BY <1>1, <1>3, ScheduleWaits DEF Schedule, Settles
<1>4. ASSUME NEW t \in Thread, SleepReturn(t) PROVE Settles
  <2>. DEFINE e == IF k.error[t] = ETIMEOUT THEN EOK ELSE k.error[t]
  <2>1. t = k.cur /\ pc[t] = "slept" /\ k' = WithError(k, t, e)
    BY <1>4 DEF SleepReturn, Continues, Executes, WithError
  <2>2. e \in {EOK, ERROR, ETIMEOUT, EINTR}
    BY <1>1 DEF KInv, KernelState
  <2>. HIDE DEF e
  <2>3. ErrorOnly(k, k', t, e)
    BY <1>1, <2>1, <2>2, ErrorSet
  <2>. QED
    BY <2>1, <2>3 DEF ErrorOnly, Settles
<1>5. CASE TickInterrupt
  <2>1. Ticks(k, k') /\ UNCHANGED pc
    BY <1>1, <1>5, TickTicks DEF TickInterrupt
  <2>. QED
    BY <2>1 DEF Ticks, Settles
<1>6. CASE TimerFire
  <2>. DEFINE t == Head(k.timers)
  <2>1. k.timers # << >> /\ k' = rt_thread_timeout(rt_timer_stop(k, t), t)
    BY <1>6 DEF TimerFire, TimerDue
  <2>2. t \in Thread /\ k.stat[t] = SUSPEND
    BY <1>1, <2>1, HeadInRange DEF KInv, KernelState
  <2>. HIDE DEF t
  <2>3. TopRuns(k')
    BY <1>1, <2>1, <2>2, TimeoutWakes
  <2>. QED
    BY <2>3 DEF Settles
<1>7. CASE TimerCheckDone
  BY <1>7 DEF TimerCheckDone, Settles
<1>. QED
  BY <1>2, <1>3, <1>4, <1>5, <1>6, <1>7 DEF BlockingNext

-----------------------------------------------------------------------------
(* The start *)

\* The idle thread is one of its priority, so there is a first thread.
LEMMA FirstIsThread ==
    First \in Thread /\ \A p \in Priority :
        /\ InitQueue(p) \in Seq(Thread) /\ IsInjective(InitQueue(p))
        /\ Range(InitQueue(p)) = {t \in Thread : InitPriority[t] = p} \ {First}
<1>. DEFINE P == {p \in Priority : Started[p] # << >>}
<1>1. P \in SUBSET Nat /\ P \subseteq Priority
  BY KernelConstants DEF Priority
<1>2. PRIORITY_MAX - 1 \in P
  <2>1. PRIORITY_MAX - 1 \in Priority
    BY KernelConstants DEF Priority
  <2>2. Idle \in Range(Started[PRIORITY_MAX - 1])
    BY <2>1, KernelConstants, BlockingConstants
  <2>3. Started[PRIORITY_MAX - 1] # << >>
    BY <2>1, <2>2, HeadInRange, BlockingConstants
  <2>. QED
    BY <2>1, <2>3
<1>3. Min(P) \in P
  BY <1>1, <1>2, MinOfNat
<1>4. First \in Thread
  BY <1>1, <1>3, HeadInRange, BlockingConstants DEF First
<1>5. ASSUME NEW p \in Priority
      PROVE  /\ InitQueue(p) \in Seq(Thread) /\ IsInjective(InitQueue(p))
             /\ Range(InitQueue(p)) = {t \in Thread : InitPriority[t] = p} \ {First}
  <2>1. /\ Started[p] \in Seq(Thread) /\ IsInjective(Started[p])
        /\ Range(Started[p]) = {t \in Thread : InitPriority[t] = p}
    BY BlockingConstants
  <2>. QED
    BY <2>1, RemoveFirstOnce DEF InitQueue
<1>. QED
  BY <1>4, <1>5

\* All threads are READY, and one of them runs.
LEMMA InitBlocking ==
    ASSUME BlockingInit
    PROVE  BlockingInv /\ \A w \in WaitList : k.wait[w] = << >>
<1>1. /\ k.stat = [t \in Thread |-> READY] /\ k.prio = InitPriority
      /\ k.slice = InitTick /\ k.error = [t \in Thread |-> EOK]
      /\ k.ready = [p \in Priority |-> InitQueue(p)]
      /\ k.group = {p \in Priority : InitQueue(p) # << >>}
      /\ k.cur = First /\ k.lock = 0
      /\ k.wait = [w \in WaitList |-> << >>] /\ k.defunct = << >>
      /\ k.tick = 0 /\ k.timers = << >>
      /\ k.deadline = [t \in Thread |-> 0] /\ k.due = [t \in Thread |-> 0]
      /\ k.owed = FALSE
      /\ pc = [t \in Thread |-> "run"] /\ isr = "none"
  BY DEF BlockingInit
<1>2. k \in KernelState
  <2>1. 0 \in Tick
    BY KernelConstants DEF Tick
  <2>2. k.ready \in [Priority -> Seq(Thread)] /\ k.group \in SUBSET Priority
    BY <1>1, FirstIsThread
  <2>3. k.stat \in [Thread -> Stat] /\ << >> \in Seq(Thread)
    BY <1>1, StatesDiffer
  <2>4. /\ k.error \in [Thread -> {EOK, ERROR, ETIMEOUT, EINTR}]
        /\ k.prio \in [Thread -> Priority] /\ k.slice \in [Thread -> Nat \ {0}]
        /\ k.cur \in Thread /\ k.lock \in Nat /\ k.owed \in BOOLEAN
        /\ k.wait \in [WaitList -> Seq(Thread)] /\ k.defunct \in Seq(Thread)
        /\ k.tick \in Tick /\ k.timers \in Seq(Thread)
        /\ k.deadline \in [Thread -> Tick] /\ k.due \in [Thread -> Int]
    <3>1. k.error \in [Thread -> {EOK, ERROR, ETIMEOUT, EINTR}] /\ k.owed \in BOOLEAN
      BY <1>1
    <3>2. k.prio \in [Thread -> Priority] /\ k.slice \in [Thread -> Nat \ {0}]
      BY <1>1, KernelConstants
    <3>3. k.cur \in Thread /\ k.lock \in Nat
      BY <1>1, FirstIsThread
    <3>4. k.wait \in [WaitList -> Seq(Thread)] /\ k.defunct \in Seq(Thread) /\ k.timers \in Seq(Thread)
      BY <1>1, <2>3
    <3>5. k.tick \in Tick /\ k.deadline \in [Thread -> Tick] /\ k.due \in [Thread -> Int]
      BY <1>1, <2>1
    <3>. QED
      BY <3>1, <3>2, <3>3, <3>4, <3>5
  <2>5. k = [stat |-> k.stat, prio |-> k.prio, slice |-> k.slice, error |-> k.error,
             ready |-> k.ready, group |-> k.group, cur |-> k.cur, lock |-> k.lock,
             wait |-> k.wait, defunct |-> k.defunct, tick |-> k.tick, timers |-> k.timers,
             deadline |-> k.deadline, due |-> k.due, owed |-> k.owed]
    BY DEF BlockingInit
  <2>. QED
    BY <2>2, <2>3, <2>4, <2>5 DEF KernelState
<1>3. QueueExact(k, {})
  <2>1. ASSUME NEW p \in Priority
        PROVE  /\ p \in k.group <=> k.ready[p] # << >>
               /\ IsInjective(k.ready[p])
               /\ \A t \in Range(k.ready[p]) :
                    k.stat[t] = READY /\ k.prio[t] = p /\ t # k.cur
    BY <1>1, FirstIsThread
  <2>2. ASSUME NEW t \in Thread, t # k.cur PROVE t \in Range(k.ready[k.prio[t]])
    BY <1>1, <2>2, FirstIsThread, KernelConstants
  <2>. QED
    BY <2>1, <2>2 DEF QueueExact
<1>4. /\ IsInjective(<< >>) /\ Range(<< >>) = {}
  BY DEF IsInjective, Range
<1>5. KernelWaits(k)
  BY <1>1, <1>2, <1>3, <1>4, KernelConstants DEF KernelWaits, KInv, WaitsExact
<1>6. BlockingInv
  BY <1>1, <1>4, <1>5, FirstIsThread, KernelConstants DEF BlockingInv, CurrentMayRun
<1>. QED
  BY <1>1, <1>6

-----------------------------------------------------------------------------
(* The sections of the calls of an object *)

\* Only the running thread may have moved on in its call, to the place at.
Moves(t, at) == pc' = [pc EXCEPT ![t] = at] /\ isr' = isr

\* A section of a call that does not wait: it may wake others, and the caller
\* goes on.
LEMMA CallKeeps ==
    ASSUME BlockingInv, NEW t, t = k.cur, t # Idle, pc[t] \notin {"wait", "sleep"},
           KernelWaits(k'), k'.cur = t, k'.stat[t] = READY,
           \A w \in WaitList : Range(k'.wait[w]) \subseteq Range(k.wait[w]),
           UNCHANGED <<pc, isr>> \/ \E at : Moves(t, at)
    PROVE  BlockingInv'
<1>1. t \in Thread /\ \A w \in WaitList : t \notin Range(k.wait[w])
  BY CallerIsReady
<1>2. CASE UNCHANGED <<pc, isr>>
  BY <1>2 DEF BlockingInv, CurrentMayRun
<1>3. ASSUME NEW at, Moves(t, at) PROVE BlockingInv'
  <2>1. /\ pc' = [x \in Thread |-> pc'[x]] /\ isr' = isr
        /\ \A x \in Thread \ {t} : pc'[x] = pc[x]
    BY <1>3 DEF BlockingInv, Moves
  <2>2. \A w \in WaitList : \A x \in Range(k'.wait[w]) : pc'[x] \in {"wait", "woken"}
    <3>1. \A w \in WaitList : \A x \in Range(k'.wait[w]) :
            x \in Range(k.wait[w]) /\ x \in Thread \ {t}
      BY <1>1, WaitersAreThreads, ZenonT(60) DEF BlockingInv
    <3>. QED
      BY <2>1, <3>1 DEF BlockingInv
  <2>3. pc'[Idle] = "run"
    BY <2>1, KernelConstants DEF BlockingInv
  <2>. QED
    BY <2>1, <2>2, <2>3 DEF BlockingInv, CurrentMayRun
<1>. QED
  BY <1>2, <1>3

\* A section that makes the caller wait, with the scheduler unlocked.
LEMMA JoinKeeps ==
    ASSUME BlockingInv, NEW t, t = k.cur, t # Idle, k.lock = 0,
           NEW w \in WaitList, NEW j, NEW list, NEW time, Joins(j, k', w, t, list, time),
           j.cur = k.cur, j.lock = k.lock, j.wait = k.wait,
           Moves(t, "wait")
    PROVE  BlockingInv'
<1>1. t \in Thread
  BY QueueFacts DEF BlockingInv, KernelWaits
<1>2. /\ pc' = [x \in Thread |-> pc'[x]] /\ isr' = isr /\ pc'[t] = "wait"
      /\ \A x \in Thread \ {t} : pc'[x] = pc[x]
  BY <1>1 DEF BlockingInv, Moves
<1>3. \A v \in WaitList : \A x \in Range(k'.wait[v]) : pc'[x] \in {"wait", "woken"}
  <2>1. \A v \in WaitList : \A x \in Range(k'.wait[v]) :
          x = t \/ (x \in Range(k.wait[v]) /\ x \in Thread)
    <3>1. \A v \in WaitList : Range(k.wait[v]) \subseteq Thread
      BY WaitersAreThreads DEF BlockingInv
    <3>2. \A v \in WaitList :
            Range(k'.wait[v]) = Range(k.wait[v]) \cup (IF v = w THEN {t} ELSE {})
      BY DEF Joins
    <3>. QED
      BY <3>1, <3>2
  <2>. QED
    BY <1>2, <2>1 DEF BlockingInv
<1>4. pc'[Idle] = "run"
  BY <1>2, KernelConstants DEF BlockingInv
<1>. QED
  BY <1>2, <1>3, <1>4 DEF BlockingInv, CurrentMayRun, Joins

\* The same for rt_ipc_list_suspend.
LEMMA BlockKeeps ==
    ASSUME BlockingInv, NEW t, t = k.cur, t # Idle, k.lock = 0,
           NEW w \in WaitList, NEW j, NEW flag, NEW time, Blocks(j, k', w, t, flag, time),
           j.cur = k.cur, j.lock = k.lock, j.wait = k.wait,
           Moves(t, "wait")
    PROVE  BlockingInv'
<1>1. PICK list : Joins(j, k', w, t, list, time)
  BY BlocksJoin
<1>. QED
  BY <1>1, JoinKeeps

\* A device interrupt that wakes a waiter and schedules.
LEMMA DeviceKeeps ==
    ASSUME BlockingInv, NEW w \in WaitList, k.wait[w] # << >>,
           k' = rt_schedule(rt_ipc_list_resume(k, w)), UNCHANGED <<pc, isr>>
    PROVE  /\ BlockingInv'
           /\ Head(k.wait[w]) \in Thread /\ Head(k.wait[w]) \in Range(k.wait[w])
           /\ k.stat[Head(k.wait[w])] = SUSPEND
           /\ Wakes(k, k', Head(k.wait[w]), EOK) /\ k'.error = k.error
           /\ k.lock # 0 => k'.cur = k.cur
<1>. DEFINE t == Head(k.wait[w])
            v == rt_ipc_list_resume(k, w)
<1>0. KernelWaits(k)
  BY DEF BlockingInv
<1>1. /\ t \in Thread /\ t \in Range(k.wait[w]) /\ k.stat[t] = SUSPEND
      /\ Wakes(k, v, t, EOK) /\ v.error = k.error /\ v.cur = k.cur
  BY <1>0, HeadWakes
<1>. HIDE DEF t, v
<1>2. ContextSwitch(v, k')
  BY <1>1, ScheduleWaits DEF Wakes, v
<1>3. Wakes(k, k', t, EOK) /\ k'.error = k.error
  BY <1>1, <1>2, WakesThenSchedules DEF ContextSwitch
<1>4. \A x \in WaitList : Range(k'.wait[x]) \subseteq Range(k.wait[x])
  <2>1. \A x \in WaitList : k'.wait[x] = RemoveFirst(k.wait[x], t)
    BY <1>3 DEF Wakes, WithoutWaiter
  <2>. QED
    BY <1>0, <2>1, WaitersAreThreads, RemoveFirstSeq
<1>5. CurrentMayRun'
  <2>1. k.stat \in [Thread -> Stat]
    BY <1>0, QueueFacts DEF KernelWaits
  <2>. QED
    BY <1>1, <1>2, <1>3, <2>1 DEF CurrentMayRun, BlockingInv, Wakes, ContextSwitch
<1>6. BlockingInv'
  BY <1>3, <1>4, <1>5 DEF BlockingInv, Wakes
<1>. QED
  BY <1>1, <1>2, <1>3, <1>6 DEF t, Wakes, ContextSwitch

-----------------------------------------------------------------------------
(* The scheduler lock *)

\* The record u is j with the scheduler locked otherwise.
LockOnly(j, u) ==
    /\ KernelWaits(u)
    /\ u.stat = j.stat /\ u.error = j.error /\ u.wait = j.wait
    /\ u.prio = j.prio /\ u.cur = j.cur /\ u.timers = j.timers

\* Locking or unlocking the scheduler changes nothing else.
LEMMA LockSet ==
    ASSUME NEW j, KernelWaits(j), NEW n \in Nat
    PROVE  LockOnly(j, [j EXCEPT !.lock = n])
<1>. DEFINE u == [j EXCEPT !.lock = n]
<1>1. KInv(j, {}) /\ j \in KernelState /\ IsInjective(j.timers)
  BY DEF KernelWaits, KInv
<1>2. /\ u \in KernelState /\ u.stat = j.stat /\ u.error = j.error /\ u.wait = j.wait
      /\ u.prio = j.prio /\ u.cur = j.cur /\ u.timers = j.timers
      /\ u.ready = j.ready /\ u.group = j.group /\ u.defunct = j.defunct
  BY <1>1 DEF KernelState
<1>. HIDE DEF u
<1>3. KInv(u, {})
  BY <1>1, <1>2, SameKInv DEF SameQueues
<1>. QED
  BY <1>2, <1>3 DEF KernelWaits, WaitsExact, LockOnly, u

-----------------------------------------------------------------------------
(* Waking every waiter of a list *)

\* The record u is j after the waiters of the list w that are in gone were
\* woken with an error.
WokenAll(j, u, w, gone) ==
    /\ KernelWaits(u)
    /\ u.cur = j.cur /\ u.prio = j.prio /\ u.lock = j.lock /\ u.tick = j.tick
    /\ \A v \in WaitList : v # w => u.wait[v] = j.wait[v]
    /\ Range(u.wait[w]) = Range(j.wait[w]) \ gone
    /\ \A t \in Thread : /\ u.stat[t] = IF t \in gone THEN READY ELSE j.stat[t]
                         /\ u.error[t] = IF t \in gone THEN ERROR ELSE j.error[t]
    /\ Range(u.timers) = Range(j.timers) \ gone

\* One iteration of rt_ipc_list_resume_all wakes one waiter more.
LEMMA WokenOneMore ==
    ASSUME NEW j, NEW i, NEW w \in WaitList, NEW gone, WokenAll(j, i, w, gone),
           NEW t \in Thread, t \in Range(j.wait[w]), t \notin gone
    PROVE  WokenAll(j, ResumeWithError(i, t), w, gone \cup {t})
<1>. DEFINE u == ResumeWithError(i, t)
<1>1. /\ KernelWaits(i) /\ t \in Range(i.wait[w])
      /\ i.cur = j.cur /\ i.prio = j.prio /\ i.lock = j.lock /\ i.tick = j.tick
      /\ \A v \in WaitList : v # w => i.wait[v] = j.wait[v]
      /\ Range(i.wait[w]) = Range(j.wait[w]) \ gone
      /\ Range(i.timers) = Range(j.timers) \ gone
  BY DEF WokenAll
<1>2. /\ i.wait \in [WaitList -> Seq(Thread)] /\ i.stat \in [Thread -> Stat]
      /\ i.error \in [Thread -> {EOK, ERROR, ETIMEOUT, EINTR}]
      /\ i.timers \in Seq(Thread) /\ IsInjective(i.timers)
  <2>1. KInv(i, {}) /\ i \in KernelState
    BY <1>1, QueueFacts DEF KernelWaits
  <2>. QED
    BY <2>1 DEF KInv, KernelState
<1>3. i.stat[t] = SUSPEND /\ \A v \in WaitList : v # w => t \notin Range(i.wait[v])
  BY <1>1 DEF KernelWaits, WaitsExact
<1>4. Wakes(i, u, t, ERROR) /\ u.cur = i.cur
  <2>1. u = rt_thread_resume(WithError(i, t, ERROR), t)
    BY DEF ResumeWithError, WithError
  <2>. HIDE DEF u
  <2>. QED
    BY <1>1, <1>3, <2>1, ResumeWakes
<1>. HIDE DEF u
<1>5. /\ \A v \in WaitList : v # w => u.wait[v] = i.wait[v]
      /\ Range(u.wait[w]) = Range(i.wait[w]) \ {t}
  <2>1. \A v \in WaitList : u.wait[v] = RemoveFirst(i.wait[v], t)
    BY <1>4 DEF Wakes, WithoutWaiter
  <2>2. IsInjective(i.wait[w])
    BY <1>1 DEF KernelWaits, WaitsExact
  <2>. QED
    BY <1>2, <1>3, <2>1, <2>2, RemoveFirstSeq, RemoveFirstOnce
<1>6. Range(u.timers) = Range(i.timers) \ {t}
  BY <1>2, <1>4, RemoveFirstOnce DEF Wakes
<1>7. ASSUME NEW s \in Thread
      PROVE  /\ u.stat[s] = IF s \in gone \cup {t} THEN READY ELSE j.stat[s]
             /\ u.error[s] = IF s \in gone \cup {t} THEN ERROR ELSE j.error[s]
  <2>1. /\ u.stat = [i.stat EXCEPT ![t] = READY] /\ u.error = [i.error EXCEPT ![t] = ERROR]
    BY <1>4 DEF Wakes
  <2>2. /\ i.stat[s] = IF s \in gone THEN READY ELSE j.stat[s]
        /\ i.error[s] = IF s \in gone THEN ERROR ELSE j.error[s]
    BY DEF WokenAll
  <2>. QED
    BY <1>2, <2>1, <2>2
<1>. QED
  BY <1>1, <1>4, <1>5, <1>6, <1>7 DEF WokenAll, Wakes, u

\* The loop has a result: its steps build one function after the other.
LEMMA IterationExists ==
    ASSUME NEW j, NEW list, NEW L \in Nat
    PROVE  \E f : f = [n \in 0 .. L |->
                        IF n = 0 THEN j ELSE ResumeWithError(f[n - 1], list[n])]
<1>. DEFINE Good(m) == \E f : f = [n \in 0 .. m |->
                          IF n = 0 THEN j ELSE ResumeWithError(f[n - 1], list[n])]
            Bad == {m \in 0 .. L : ~Good(m)}
<1>1. SUFFICES ASSUME Bad # {} PROVE FALSE
  OBVIOUS
<1>2. PICK m \in Bad : \A i \in Bad : m <= i
  <2>1. Bad \in SUBSET Nat
    OBVIOUS
  <2>. QED
    BY <1>1, <2>1, MinOfNat
<1>3. CASE m = 0
  <2>. DEFINE f == [n \in 0 .. 0 |-> j]
  <2>1. f = [n \in 0 .. 0 |-> IF n = 0 THEN j ELSE ResumeWithError(f[n - 1], list[n])]
    OBVIOUS
  <2>. QED
    BY <1>2, <1>3, <2>1
<1>4. CASE m # 0
  <2>1. m \in Nat \ {0} /\ m <= L /\ m - 1 \in 0 .. L /\ m - 1 \notin Bad
    BY <1>2, <1>4
  <2>2. PICK f : f = [n \in 0 .. m - 1 |->
                       IF n = 0 THEN j ELSE ResumeWithError(f[n - 1], list[n])]
    BY <2>1
  <2>. DEFINE g == [n \in 0 .. m |->
                     IF n = m THEN ResumeWithError(f[m - 1], list[m]) ELSE f[n]]
  <2>3. ASSUME NEW n \in 0 .. m
        PROVE  g[n] = IF n = 0 THEN j ELSE ResumeWithError(g[n - 1], list[n])
    <3>1. CASE n = 0
      BY <2>1, <2>2, <3>1
    <3>2. CASE n # 0 /\ n # m
      <4>1. n \in 0 .. m - 1 /\ n - 1 \in 0 .. m /\ n - 1 # m
        BY <2>1, <3>2
      <4>2. g[n] = f[n] /\ g[n - 1] = f[n - 1]
        BY <3>2, <4>1
      <4>. QED
        BY <2>2, <3>2, <4>1, <4>2
    <3>3. CASE n = m
      <4>1. m - 1 \in 0 .. m /\ m - 1 # m /\ m # 0
        BY <2>1
      <4>. QED
        BY <3>3, <4>1
    <3>. QED
      BY <3>1, <3>2, <3>3
  <2>4. g = [n \in 0 .. m |-> IF n = 0 THEN j ELSE ResumeWithError(g[n - 1], list[n])]
    BY <2>3
  <2>5. Good(m)
    BY <2>4
  <2>. QED
    BY <1>2, <2>5
<1>. QED
  BY <1>3, <1>4

\* rt_ipc_list_resume_all wakes every waiter of the list, with an error.
LEMMA ResumeAllWakes ==
    ASSUME NEW j, KernelWaits(j), NEW w \in WaitList
    PROVE  /\ WokenAll(j, rt_ipc_list_resume_all(j, w), w, Range(j.wait[w]))
           /\ rt_ipc_list_resume_all(j, w).wait[w] = << >>
<1>. DEFINE list == j.wait[w]
            L == Len(list)
            Gone(n) == {list[i] : i \in 1 .. n}
            f == CHOOSE f : f = [n \in 0 .. L |->
                              IF n = 0 THEN j ELSE ResumeWithError(f[n - 1], list[n])]
<1>1. /\ list \in Seq(Thread) /\ IsInjective(list) /\ L \in Nat
      /\ list \in [1 .. L -> Thread] /\ Range(list) = Gone(L)
  <2>1. list \in Seq(Thread) /\ IsInjective(list)
    BY WaitersAreThreads DEF KernelWaits, WaitsExact
  <2>2. L \in Nat /\ list \in [1 .. L -> Thread]
    BY <2>1, LenProperties
  <2>. QED
    BY <2>1, <2>2 DEF Range
<1>2. rt_ipc_list_resume_all(j, w) = f[L]
  BY DEF rt_ipc_list_resume_all
<1>. HIDE DEF list, L
<1>3. f = [n \in 0 .. L |-> IF n = 0 THEN j ELSE ResumeWithError(f[n - 1], list[n])]
  BY <1>1, IterationExists
<1>. HIDE DEF f
<1>. DEFINE Bad == {n \in 0 .. L : ~WokenAll(j, f[n], w, Gone(n))}
<1>4. Bad = {}
  <2>1. SUFFICES ASSUME Bad # {} PROVE FALSE
    OBVIOUS
  <2>2. PICK m \in Bad : \A i \in Bad : m <= i
    <3>1. Bad \in SUBSET Nat
      BY <1>1
    <3>. QED
      BY <2>1, <3>1, MinOfNat
  <2>3. CASE m = 0
    <3>1. f[0] = j /\ Gone(0) = {}
      BY <1>1, <1>3
    <3>2. WokenAll(j, j, w, {})
      BY DEF WokenAll
    <3>. QED
      BY <2>2, <2>3, <3>1, <3>2
  <2>4. CASE m # 0
    <3>. HIDE DEF Gone
    <3>1. m \in 1 .. L /\ m - 1 \in 0 .. L
      BY <1>1, <2>2, <2>4
    <3>2. WokenAll(j, f[m - 1], w, Gone(m - 1))
      <4>1. m - 1 \notin Bad
        <5>. HIDE DEF Bad
        <5>. QED
          BY <1>1, <2>2, <3>1
      <4>. QED
        BY <3>1, <4>1
    <3>3. f[m] = ResumeWithError(f[m - 1], list[m])
      BY <1>1, <1>3, <3>1
    <3>4. /\ list[m] \in Thread /\ list[m] \in Range(j.wait[w]) /\ list[m] \notin Gone(m - 1)
          /\ Gone(m) = Gone(m - 1) \cup {list[m]}
      <4>1. list[m] \in Thread /\ list[m] \in Range(list)
        BY <1>1, <3>1 DEF Range
      <4>2. \A i \in 1 .. m - 1 : list[i] # list[m]
        BY <1>1, <3>1 DEF IsInjective
      <4>3. 1 .. m = (1 .. m - 1) \cup {m}
        BY <3>1
      <4>4. Gone(m) = Gone(m - 1) \cup {list[m]}
        BY <4>3 DEF Gone
      <4>5. list[m] \notin Gone(m - 1)
        BY <4>2 DEF Gone
      <4>. QED
        BY <4>1, <4>4, <4>5 DEF list
    <3>5. WokenAll(j, f[m], w, Gone(m))
      BY <3>2, <3>3, <3>4, WokenOneMore
    <3>. QED
      BY <2>2, <3>5
  <2>. QED
    BY <2>3, <2>4
<1>. HIDE DEF Gone
<1>5. WokenAll(j, f[L], w, Range(j.wait[w]))
  <2>1. L \in 0 .. L /\ L \notin Bad
    BY <1>1, <1>4
  <2>2. WokenAll(j, f[L], w, Gone(L))
    BY <2>1
  <2>. QED
    BY <1>1, <2>2 DEF list
<1>. HIDE DEF Bad
<1>6. f[L].wait[w] = << >>
  <2>1. Range(f[L].wait[w]) = {} /\ KernelWaits(f[L])
    BY <1>5 DEF WokenAll
  <2>. QED
    BY <2>1, WaitersAreThreads
<1>. QED
  BY <1>2, <1>5, <1>6

-----------------------------------------------------------------------------
(* Priorities *)

\* The record j with the priority p for thread t.
WithPriority(j, t, p) == [j EXCEPT !.prio[t] = p]

\* The record u is j with another priority for thread t.
PriorityOnly(j, u, t, p) ==
    /\ KernelWaits(u)
    /\ u.prio = [j.prio EXCEPT ![t] = p]
    /\ u.stat = j.stat /\ u.error = j.error /\ u.wait = j.wait
    /\ u.cur = j.cur /\ u.lock = j.lock /\ u.timers = j.timers

\* Setting a priority without moving the thread.
LEMMA PrioritySet ==
    ASSUME NEW j \in KernelState, NEW t \in Thread, NEW p \in Priority
    PROVE  LET u == WithPriority(j, t, p)
           IN  /\ u \in KernelState /\ u.prio = [j.prio EXCEPT ![t] = p]
               /\ u.stat = j.stat /\ u.error = j.error /\ u.wait = j.wait
               /\ u.cur = j.cur /\ u.lock = j.lock /\ u.timers = j.timers
<1>. DEFINE f == [j.prio EXCEPT ![t] = p]
<1>1. f \in [Thread -> Priority] /\ WithPriority(j, t, p) = [j EXCEPT !.prio = f]
  BY DEF KernelState, WithPriority
<1>. HIDE DEF f
<1>2. /\ WithPriority(j, t, p) \in KernelState /\ WithPriority(j, t, p).prio = f
      /\ LET u == WithPriority(j, t, p)
         IN  /\ u.stat = j.stat /\ u.error = j.error /\ u.wait = j.wait
             /\ u.cur = j.cur /\ u.lock = j.lock /\ u.timers = j.timers
  BY <1>1 DEF KernelState
<1>. QED
  BY <1>2 DEF f

\* RT_THREAD_CTRL_CHANGE_PRIORITY takes a READY thread off its queue and back,
\* which no waiter notices.
LEMMA ChangePriorityWaits ==
    ASSUME NEW j, KernelWaits(j), NEW t \in Thread, NEW p \in Priority
    PROVE  PriorityOnly(j, ChangePriority(j, t, p), t, p)
<1>. DEFINE u == ChangePriority(j, t, p)
<1>1. KInv(j, {}) /\ j \in KernelState /\ t \in Thread \ {} /\ j.stat \in [Thread -> Stat]
  BY QueueFacts DEF KernelWaits
<1>2. KInv(u, {}) /\ u.stat = j.stat /\ u.cur = j.cur /\ u.lock = j.lock
  BY <1>1, ChangePriorityKInv
<1>3. /\ u.prio = [j.prio EXCEPT ![t] = p] /\ u.error = j.error /\ u.wait = j.wait
      /\ u.timers = j.timers
  <2>1. CASE j.stat[t] # READY
    <3>1. u = WithPriority(j, t, p)
      BY <2>1 DEF ChangePriority, WithPriority
    <3>. HIDE DEF u
    <3>. QED
      BY <1>1, <3>1, PrioritySet
  <2>2. CASE j.stat[t] = READY
    <3>. DEFINE v == rt_schedule_remove_thread(j, t)
                w == WithPriority(v, t, p)
    <3>1. u = rt_schedule_insert_thread(w, t)
      BY <2>2 DEF ChangePriority, WithPriority
    <3>2. /\ v \in KernelState /\ v.prio = j.prio /\ v.timers = j.timers
          /\ v.wait = WithoutWaiter(j, t) /\ v.error = j.error
      BY <1>1, RemoveOnly, RemoveWaits DEF QueuesOnly
    <3>3. v.wait = j.wait
      BY <2>2, <3>2, NotAWaiter, StatesDiffer
    <3>. HIDE DEF v
    <3>4. /\ w \in KernelState /\ w.prio = [j.prio EXCEPT ![t] = p] /\ w.timers = j.timers
          /\ w.wait = j.wait /\ w.error = j.error
      BY <3>2, <3>3, PrioritySet
    <3>. HIDE DEF w, u
    <3>. QED
      BY <3>1, <3>4, InsertWaits, InsertOnly DEF QueuesOnly
  <2>. QED
    BY <2>1, <2>2
<1>. HIDE DEF u
<1>4. KernelWaits(u)
  BY <1>2, <1>3 DEF KernelWaits, WaitsExact
<1>. QED
  BY <1>2, <1>3, <1>4 DEF PriorityOnly, u

=============================================================================
