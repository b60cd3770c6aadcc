-------------------------- MODULE SchedulingProofs --------------------------
(***************************************************************************)
(* What the running thread may rely on, for every number of threads, of    *)
(* priorities and of ticks: the scheduler lock keeps it the processor, no  *)
(* READY thread of a higher priority is left waiting, no thread in a list  *)
(* of the kernel was given back to the heap, and who sleeps wakes in time. *)
(***************************************************************************)
EXTENDS ThreadsProofs

\* A step of Threads that ends in rt_schedule, called in the record j.
Schedules(j) ==
    /\ KInv(j, Leaving)
    /\ k' = rt_schedule(j)
    /\ j.cur = k.cur /\ j.lock = k.lock
    /\ Range(j.defunct) \subseteq Range(k.defunct)
    /\ IsInjective(k.defunct) => IsInjective(j.defunct)
    /\ \A s \in Thread : \/ j.stat[s] = k.stat[s]
                         \/ k.stat[s] = SUSPEND /\ j.stat[s] = READY

\* The calls that do nothing but rt_schedule: a yield, and the end of a call that
\* suspended its thread.
LEMMA SchedulingCalls ==
    ASSUME IInv, NEW t \in Thread,
           rt_thread_yield(t) \/ Schedule(t) \/ SleepSchedule(t)
    PROVE  Schedules(k)
<1>1. k' = rt_schedule(k)
  BY DEF rt_thread_yield, Schedule, SleepSchedule
<1>2. KInv(k, Leaving)
  BY DEF IInv
<1>. QED
  BY <1>1, <1>2, Zenon DEF Schedules

\* rt_thread_idle_excute takes the first thread off the defunct list before it
\* calls rt_schedule.
LEMMA SchedulingIdle ==
    ASSUME IInv, rt_thread_idle_excute
    PROVE  /\ Schedules(rt_list_remove(k, Head(k.defunct)))
           /\ IsInjective(k.defunct) =>
                Range(rt_list_remove(k, Head(k.defunct)).defunct)
                    = Range(k.defunct) \ {Head(k.defunct)}
<1>. DEFINE u == Head(k.defunct)
            j == rt_list_remove(k, u)
<1>1. k.defunct # << >> /\ k' = rt_schedule(j)
  BY DEF rt_thread_idle_excute
<1>2. u \in Thread /\ u \in Range(k.defunct)
  <2>1. k.defunct \in Seq(Thread)
    BY TypeFacts DEF KernelState
  <2>. QED
    BY <1>1, <2>1, HeadInRange
<1>. HIDE DEF u
<1>3. /\ k.stat[u] = CLOSE /\ KInv(k, Leaving) /\ k \in KernelState
      /\ \A p \in Priority : u \notin Range(k.ready[p])
  BY <1>2, QueueFacts, StatesDiffer DEF IInv, KInv
<1>4. SameQueues(k, j) /\ j.lock = k.lock
  BY <1>2, <1>3, ListRemoveOther
<1>5. /\ QueuesOnly(k, j)
      /\ IsInjective(k.defunct) => Range(j.defunct) = Range(k.defunct) \ {u}
  BY <1>2, <1>3, ListRemoveOnly
<1>. HIDE DEF j
<1>6. KInv(j, Leaving) /\ j.cur = k.cur /\ j.stat = k.stat
  BY <1>3, <1>4, SameKInv DEF SameQueues
<1>7. /\ Range(j.defunct) \subseteq Range(k.defunct)
      /\ IsInjective(k.defunct) => IsInjective(j.defunct)
      /\ k' = rt_schedule(j)
      /\ \A s \in Thread : j.stat[s] = k.stat[s]
  BY <1>1, <1>5, <1>6 DEF QueuesOnly, j
<1>8. Schedules(j)
  BY <1>4, <1>6, <1>7, Zenon DEF Schedules
<1>. QED
  BY <1>5, <1>8 DEF u, j

\* Waking a thread in an interrupt.
LEMMA SchedulingDevice ==
    ASSUME IInv, Disciplined, NEW u \in Thread, DeviceInterrupt(u)
    PROVE  \E j : Schedules(j)
<1>. DEFINE r == ResumeDetach(k, u)
            v == rt_schedule_insert_thread(r, u)
<1>1. k.stat[u] = SUSPEND /\ ~Claimed(u) /\ k' = rt_schedule(v)
  BY DEF DeviceInterrupt, rt_thread_resume
<1>2. u \in Thread \ Leaving
  BY <1>1 DEF Claimed, Leaving, Acting
<1>3. KInv(k, Leaving) /\ k \in KernelState
  BY TypeFacts DEF IInv
<1>4. KInv(v, Leaving) /\ Readied(k, v, u) /\ v.cur = k.cur
  BY <1>1, <1>2, <1>3, WakeKInv
<1>5. QueuesOnly(k, rt_list_remove(k, u))
  BY <1>3, ListRemoveOnly
<1>6. r \in KernelState /\ r.defunct = rt_list_remove(k, u).defunct
  BY <1>5, TimerStopFields DEF ResumeDetach, QueuesOnly
<1>7. v.defunct = r.defunct
  BY <1>6, InsertOnly
<1>. HIDE DEF v, r
<1>8. \A s \in Thread : \/ v.stat[s] = k.stat[s]
                        \/ k.stat[s] = SUSPEND /\ v.stat[s] = READY
  BY <1>1, <1>4, TypeFacts DEF Readied
<1>9. /\ Range(v.defunct) \subseteq Range(k.defunct)
      /\ IsInjective(k.defunct) => IsInjective(v.defunct)
      /\ v.lock = k.lock
  BY <1>4, <1>5, <1>6, <1>7 DEF Readied, QueuesOnly
<1>10. k' = rt_schedule(v)
  BY <1>1 DEF v, r
<1>11. Schedules(v)
  BY <1>4, <1>8, <1>9, <1>10, Zenon DEF Schedules
<1>. QED
  BY <1>11

\* The timer that rt_timer_check takes off the list wakes its thread.
LEMMA SchedulingTimer ==
    ASSUME IInv, TimerFire
    PROVE  \E j : Schedules(j)
<1>. DEFINE t == Head(k.timers)
            s == rt_timer_stop(k, t)
            e == [s EXCEPT !.error[t] = ETIMEOUT]
            r == rt_list_remove(e, t)
            w == rt_schedule_insert_thread(r, t)
<1>1. k.timers # << >> /\ k' = rt_thread_timeout(s, t)
  BY DEF TimerFire, TimerDue
<1>2. t \in Thread /\ t \in Range(k.timers) /\ k \in KernelState
  <2>1. k.timers \in Seq(Thread) /\ k \in KernelState
    BY TypeFacts DEF KernelState
  <2>. QED
    BY <1>1, <2>1, HeadInRange
<1>. HIDE DEF t
<1>3. KInv(k, Leaving) /\ k.stat[t] = SUSPEND /\ t \notin Leaving
  BY <1>2 DEF IInv, KInv
<1>4. /\ SameQueues(k, s) /\ Range(s.timers) = Range(k.timers) \ {t}
      /\ s.lock = k.lock /\ s.defunct = k.defunct
  BY <1>2, <1>3, StopTimer
<1>. HIDE DEF s
<1>5. /\ KInv(s, Leaving) /\ s.stat = k.stat /\ s.cur = k.cur
      /\ t \notin Range(s.timers) /\ s \in KernelState
  BY <1>3, <1>4, SameKInv DEF SameQueues
<1>6. /\ KInv(w, Leaving) /\ Readied(s, w, t) /\ w.cur = s.cur
      /\ rt_thread_timeout(s, t) = rt_schedule(w)
  <2>1. t \in Thread \ Leaving /\ s.stat[t] = SUSPEND
    BY <1>2, <1>3, <1>5
  <2>. QED
    BY <1>5, <2>1, TimeoutKInv
<1>7. e \in KernelState /\ e.defunct = s.defunct
  BY <1>5 DEF KernelState
<1>. HIDE DEF e
<1>8. QueuesOnly(e, r)
  BY <1>2, <1>7, ListRemoveOnly
<1>9. w.defunct = r.defunct
  BY <1>2, <1>8, InsertOnly DEF QueuesOnly
<1>. HIDE DEF r, w
<1>10. /\ Range(w.defunct) \subseteq Range(k.defunct)
       /\ IsInjective(k.defunct) => IsInjective(w.defunct)
       /\ w.lock = k.lock /\ w.cur = k.cur
       /\ k' = rt_schedule(w)
  BY <1>1, <1>4, <1>5, <1>6, <1>7, <1>8, <1>9 DEF Readied, QueuesOnly
<1>11. \A x \in Thread : \/ w.stat[x] = k.stat[x]
                         \/ k.stat[x] = SUSPEND /\ w.stat[x] = READY
  BY <1>3, <1>5, <1>6, TypeFacts DEF Readied
<1>12. Schedules(w)
  BY <1>6, <1>10, <1>11, Zenon DEF Schedules
<1>. QED
  BY <1>12

\* The clock interrupt schedules at the end of a slice; before it changes
\* nothing that the scheduler reads.
LEMMA SchedulingTick ==
    ASSUME IInv, TickInterrupt
    PROVE  \/ \E j : Schedules(j)
           \/ /\ k'.stat = k.stat /\ k'.prio = k.prio /\ k'.cur = k.cur
              /\ k'.group = k.group /\ k'.lock = k.lock /\ k'.owed = k.owed
              /\ k'.ready = k.ready /\ k'.defunct = k.defunct
<1>. DEFINE t == k.cur
            n == (k.tick + 1) % TICK_RANGE
            due == [u \in Thread |-> IF u \in Range(k.timers) THEN k.due[u] - 1 ELSE k.due[u]]
            more == [k.slice EXCEPT ![t] = InitTick[t]]
            less == [k.slice EXCEPT ![t] = k.slice[t] - 1]
            reset == [k EXCEPT !.tick = n, !.due = due, !.slice = more]
            charged == [k EXCEPT !.tick = n, !.due = due, !.slice = less]
<1>1. k \in KernelState /\ k.slice \in [Thread -> Nat \ {0}] /\ k.due \in [Thread -> Int]
      /\ k.tick \in Tick /\ t \in Thread
  BY TypeFacts DEF KernelState
<1>2. n \in Tick /\ due \in [Thread -> Int] /\ more \in [Thread -> Nat \ {0}]
  BY <1>1, KernelConstants DEF Tick
<1>3. k' = rt_tick_increase(k)
  BY DEF TickInterrupt
<1>4. k' = IF k.slice[t] = 1 THEN rt_schedule(reset) ELSE charged
  BY <1>1, <1>3 DEF rt_tick_increase, KernelState
<1>. HIDE DEF n, due, more, less
<1>5. /\ reset \in KernelState
      /\ reset.stat = k.stat /\ reset.prio = k.prio /\ reset.cur = k.cur
      /\ reset.group = k.group /\ reset.ready = k.ready /\ reset.timers = k.timers
      /\ reset.defunct = k.defunct /\ reset.lock = k.lock
  BY <1>1, <1>2 DEF KernelState
<1>6. /\ charged.stat = k.stat /\ charged.prio = k.prio /\ charged.cur = k.cur
      /\ charged.group = k.group /\ charged.lock = k.lock /\ charged.owed = k.owed
      /\ charged.ready = k.ready /\ charged.defunct = k.defunct
  BY <1>1 DEF KernelState
<1>. HIDE DEF reset, charged
<1>7. CASE k.slice[t] = 1
  <2>1. KInv(k, Leaving)
    BY DEF IInv
  <2>2. KInv(reset, Leaving)
    BY <1>5, <2>1, SmallKInv
  <2>3. k' = rt_schedule(reset)
    BY <1>4, <1>7
  <2>4. Schedules(reset)
    BY <1>5, <2>2, <2>3 DEF Schedules
  <2>. QED
    BY <2>4
<1>8. CASE k.slice[t] # 1
  BY <1>4, <1>6, <1>8
<1>. QED
  BY <1>7, <1>8

-----------------------------------------------------------------------------
(* The steps that do not call rt_schedule *)

\* The same thread runs on; it has something to say to rt_schedule soon, or
\* nothing that puts it in front of the others has changed.
Steady ==
    /\ k'.cur = k.cur
    /\ isr = "timer" => k'.lock = k.lock
    /\ \/ pc'[k.cur].at = "sched" \/ k'.lock # 0 \/ k'.owed
       \/ /\ k'.lock = k.lock /\ k'.owed = k.owed
          /\ pc'[k.cur].at # "sched" => pc[k.cur].at # "sched"
          /\ k'.stat[k.cur] = k.stat[k.cur] /\ k'.prio[k.cur] = k.prio[k.cur]
          /\ k'.group \subseteq k.group

\* The frame of a thread that calls.
LEMMA FrameOf ==
    ASSUME IInv, NEW t \in Thread, NEW f, Goto(t, f)
    PROVE  pc'[t] = f
  BY TypeFacts DEF Goto

\* A thread that suspends itself, in rt_thread_suspend or rt_thread_sleep, still
\* runs until its rt_schedule.
LEMMA SteadySuspend ==
    ASSUME IInv, NEW t \in Thread, SuspendSelf(t) \/ rt_thread_sleep(t)
    PROVE  Steady
<1>. DEFINE j == rt_thread_suspend(k, t)
<1>1. /\ t = k.cur /\ isr = "none" /\ pc[t].at = "run"
      /\ pc'[t].at = "sched"
      /\ \/ k' = j
         \/ \E n \in SleepTicks : k' = rt_timer_start(j, t, n)
  <2>1. /\ t = k.cur /\ isr = "none" /\ pc[t].at = "run"
        /\ \/ k' = j
           \/ \E n \in SleepTicks : k' = rt_timer_start(j, t, n)
    BY DEF SuspendSelf, rt_thread_sleep, Calls, Executes
  <2>2. Goto(t, Scheduling(t)) \/ Goto(t, In("sleep", "sched", t))
    BY DEF SuspendSelf, rt_thread_sleep
  <2>3. pc'[t] = Scheduling(t) \/ pc'[t] = In("sleep", "sched", t)
    BY <2>2, FrameOf
  <2>. QED
    BY <2>1, <2>3, FrameFields DEF Call, Step
<1>2. KInv(k, Leaving) /\ k.stat[t] \in {READY, SUSPEND}
  BY <1>1, CallerIsOpen DEF IInv
<1>3. j.cur = k.cur
  BY <1>1, <1>2, SuspendCurrent
<1>4. \A n : rt_timer_start(j, t, n).cur = j.cur
  <2>1. k \in KernelState
    BY TypeFacts
  <2>2. j \in KernelState
    BY <1>1, <1>2, SuspendCurrent DEF KInv
  <2>. HIDE DEF j
  <2>. QED
    BY <2>2 DEF rt_timer_start, KernelState
<1>. QED
  BY <1>1, <1>3, <1>4 DEF Steady

\* So does one that ends: rt_thread_exit has closed it and has rt_schedule to call.
LEMMA SteadyExit ==
    ASSUME IInv, NEW t \in Thread, rt_thread_exit(t)
    PROVE  Steady
<1>. DEFINE closed == rt_timer_stop([rt_schedule_remove_thread(k, t)
                                        EXCEPT !.stat[t] = CLOSE], t)
            r == <<t>> \o closed.defunct
<1>1. /\ t = k.cur /\ isr = "none" /\ Goto(t, Scheduling(t))
      /\ k' = closed \/ k' = [closed EXCEPT !.defunct = r]
  BY DEF rt_thread_exit, Calls, Executes
<1>2. pc'[t].at = "sched"
  BY <1>1, FrameOf, FrameFields
<1>3. KInv(k, Leaving)
  BY DEF IInv
<1>4. KInv(closed, Leaving) /\ closed.cur = k.cur
  BY <1>1, <1>3, CloseCurrent, ZenonT(60)
<1>. HIDE DEF closed, r
<1>5. k'.cur = k.cur
  BY <1>1, <1>4 DEF KInv, KernelState
<1>. QED
  BY <1>1, <1>2, <1>5 DEF Steady

\* rt_enter_critical, rt_exit_critical and the return of a sleep switch nothing;
\* what rt_exit_critical owes, its rt_schedule pays.
LEMMA SteadyCritical ==
    ASSUME IInv, NEW t \in Thread,
           rt_enter_critical(t) \/ rt_exit_critical(t) \/ SleepReturn(t)
    PROVE  Steady
<1>1. t = k.cur /\ isr = "none" /\ k \in KernelState /\ k.lock \in Nat /\ t \in Thread
  BY TypeFacts DEF rt_enter_critical, rt_exit_critical, SleepReturn, Calls, Continues, Executes
<1>2. CASE rt_enter_critical(t)
  <2>1. k' = [k EXCEPT !.lock = k.lock + 1]
    BY <1>2 DEF rt_enter_critical
  <2>2. k'.cur = k.cur /\ k'.lock = k.lock + 1
    BY <1>1, <2>1 DEF KernelState
  <2>. QED
    BY <1>1, <2>2 DEF Steady
<1>3. CASE rt_exit_critical(t)
  <2>1. /\ k' = [k EXCEPT !.lock = IF k.lock <= 1 THEN 0 ELSE k.lock - 1]
        /\ Goto(t, IF k.lock <= 1 THEN Scheduling(t) ELSE Running(t))
    BY <1>3 DEF rt_exit_critical
  <2>2. k'.cur = k.cur /\ k'.lock = IF k.lock <= 1 THEN 0 ELSE k.lock - 1
    BY <1>1, <2>1 DEF KernelState
  <2>3. CASE k.lock <= 1
    BY <1>1, <2>1, <2>2, <2>3, FrameOf, FrameFields DEF Steady
  <2>4. CASE ~(k.lock <= 1)
    BY <1>1, <2>2, <2>4 DEF Steady
  <2>. QED
    BY <2>3, <2>4
<1>4. CASE SleepReturn(t)
  <2>1. /\ k' = [k EXCEPT !.error[t] = IF k.error[t] = ETIMEOUT THEN EOK ELSE k.error[t]]
        /\ pc[t].at = "woken"
    BY <1>4 DEF SleepReturn, Continues
  <2>2. /\ k'.stat = k.stat /\ k'.prio = k.prio /\ k'.cur = k.cur
        /\ k'.group = k.group /\ k'.lock = k.lock /\ k'.owed = k.owed
    BY <1>1, <2>1 DEF KernelState
  <2>. QED
    BY <1>1, <2>1, <2>2 DEF Steady
<1>. QED
  BY <1>2, <1>3, <1>4

\* The first section of a call about another thread u: init, startup, resume,
\* rt_thread_control, delete or detach.
LEMMA SteadyTarget ==
    ASSUME IInv, Disciplined, NEW t \in Thread, NEW u \in Thread, TargetCall(t, u)
    PROVE  Steady
<1>1. /\ t = k.cur /\ isr = "none" /\ pc[t].at = "run"
      /\ k \in KernelState /\ KInv(k, Leaving)
  <2>1. \E op : Calls(t, op)
    BY DEF TargetCall, rt_thread_init, rt_thread_startup,
         rt_thread_resume_call, rt_thread_control, rt_thread_delete
  <2>2. t = k.cur /\ isr = "none" /\ pc[t].at = "run"
    BY <2>1 DEF Calls, Executes
  <2>. QED
    BY <2>2, TypeFacts DEF IInv
<1>2. k.stat[t] # CLOSE /\ k.stat[t] # INIT
  BY <1>1, CallerIsOpen, StatesDiffer
<1>3. k.stat \in [Thread -> Stat] /\ k.prio \in [Thread -> Priority]
  BY <1>1 DEF KernelState
<1>4. CASE rt_thread_init(t, u)
  <2>1. /\ t # u
        /\ k' = [k EXCEPT !.stat[u] = INIT, !.prio[u] = InitPriority[u],
                          !.slice[u] = InitTick[u], !.error[u] = EOK]
    BY <1>4 DEF rt_thread_init
  <2>2. /\ k'.stat = [k.stat EXCEPT ![u] = INIT] /\ k'.cur = k.cur
        /\ k'.prio = [k.prio EXCEPT ![u] = InitPriority[u]]
        /\ k'.group = k.group /\ k'.lock = k.lock /\ k'.owed = k.owed
    BY <1>1, <2>1 DEF KernelState
  <2>3. k'.stat[t] = k.stat[t] /\ k'.prio[t] = k.prio[t]
    BY <1>3, <2>1, <2>2
  <2>. QED
    BY <1>1, <2>2, <2>3 DEF Steady
<1>5. CASE rt_thread_startup(t, u)
  <2>1. /\ t # u
        /\ k' = [k EXCEPT !.stat[u] = SUSPEND, !.prio[u] = InitPriority[u]]
    BY <1>2, <1>5 DEF rt_thread_startup
  <2>2. /\ k'.stat = [k.stat EXCEPT ![u] = SUSPEND] /\ k'.cur = k.cur
        /\ k'.prio = [k.prio EXCEPT ![u] = InitPriority[u]]
        /\ k'.group = k.group /\ k'.lock = k.lock /\ k'.owed = k.owed
    BY <1>1, <2>1 DEF KernelState
  <2>3. k'.stat[t] = k.stat[t] /\ k'.prio[t] = k.prio[t]
    BY <1>3, <2>1, <2>2
  <2>. QED
    BY <1>1, <2>2, <2>3 DEF Steady
<1>6. CASE rt_thread_resume_call(t, u)
  BY <1>1, <1>6 DEF rt_thread_resume_call, Steady
<1>7. CASE rt_thread_control(t, u)
  <2>1. PICK p \in NewPriority : k' = [ChangePriority(k, u, p) EXCEPT !.owed = TRUE]
    BY <1>7 DEF rt_thread_control
  <2>2. p \in Priority /\ u \in Thread \ Leaving
    BY <1>7, ThreadsConstants DEF rt_thread_control, Claimed, Leaving, Acting
  <2>. DEFINE j == ChangePriority(k, u, p)
  <2>3. j \in KernelState /\ j.cur = k.cur
    BY <1>1, <2>2, ChangePriorityKInv DEF KInv
  <2>. HIDE DEF j
  <2>4. k' = [j EXCEPT !.owed = TRUE]
    BY <2>1 DEF j
  <2>5. k'.cur = k.cur /\ k'.owed
    BY <2>3, <2>4 DEF KernelState
  <2>. QED
    BY <1>1, <2>5 DEF Steady
<1>8. CASE rt_thread_delete(t, u)
  <2>1. k' = k \/ k' = rt_schedule_remove_thread(k, u)
    BY <1>8 DEF rt_thread_delete
  <2>2. CASE k' = k
    BY <1>1, <2>2 DEF Steady
  <2>3. CASE k' = rt_schedule_remove_thread(k, u)
    <3>1. QueuesOnly(k, k') /\ k'.stat = k.stat /\ k'.cur = k.cur /\ k'.owed = k.owed
      BY <1>1, <2>3, RemoveOnly
    <3>2. k'.group \subseteq k.group
      BY <1>1, <2>3, RemoveShrinks
    <3>. QED
      BY <1>1, <3>1, <3>2 DEF Steady, QueuesOnly
  <2>. QED
    BY <2>1, <2>2, <2>3
<1>. QED
  BY <1>4, <1>5, <1>6, <1>7, <1>8 DEF TargetCall

\* The later sections of those calls, each under its own interrupt lock.
LEMMA SteadyContinue ==
    ASSUME IInv, NEW t \in Thread,
           \/ ResumeDetachStep(t) \/ StartupInsertStep(t) \/ ResumeInsertStep(t)
           \/ DeleteTimerStep(t) \/ DeleteCloseStep(t) \/ DetachObjectStep(t)
           \/ DefunctStep(t) \/ (IdleFreeStep /\ t = Idle)
    PROVE  Steady
<1>. DEFINE u == pc[t].arg
<1>1. t = k.cur /\ isr = "none" /\ pc[t].at \in Acting
  <2>1. \E op, at : at \in Acting /\ Continues(t, op, at)
    BY DEF ResumeDetachStep, StartupInsertStep, ResumeInsertStep, DeleteTimerStep,
         DeleteCloseStep, DetachObjectStep, DefunctStep, IdleFreeStep, Acting
  <2>. QED
    BY <2>1 DEF Continues, Executes
<1>2. /\ u \in Thread /\ k \in KernelState /\ KInv(k, Leaving) /\ Undisturbed(t)
      /\ k.stat[t] # CLOSE /\ t \notin Leaving /\ pc[t].at # "sched"
  BY <1>1, TargetFacts, TypeFacts, StatesDiffer DEF IInv, Acting
<1>3. k.stat \in [Thread -> Stat]
  BY <1>2 DEF KernelState
<1>. HIDE DEF u
\* No part of k that rt_schedule compares changes.
<1>4. ASSUME k'.stat[t] = k.stat[t], k'.prio = k.prio, k'.cur = k.cur,
             k'.group = k.group, k'.lock = k.lock, k'.owed = k.owed
      PROVE  Steady
  BY <1>1, <1>2, <1>4 DEF Steady
<1>5. CASE ResumeDetachStep(t)
  <2>. DEFINE r == rt_list_remove(k, u)
  <2>1. k' = rt_timer_stop(r, u)
    BY <1>5 DEF ResumeDetachStep, ResumeDetach, u
  <2>2. /\ QueuesOnly(k, r) /\ r.stat = k.stat /\ r.cur = k.cur /\ r.owed = k.owed
        /\ r.group = k.group
    BY <1>2, ListRemoveOnly, ListRemoveFields
  <2>. HIDE DEF r
  <2>3. /\ k'.stat = r.stat /\ k'.prio = r.prio /\ k'.cur = r.cur
        /\ k'.group = r.group /\ k'.lock = r.lock /\ k'.owed = r.owed
    BY <1>2, <2>1, <2>2, TimerStopFields DEF QueuesOnly
  <2>. QED
    BY <1>4, <2>2, <2>3 DEF QueuesOnly
<1>6. CASE StartupInsertStep(t)
  <2>1. k' = rt_schedule_insert_thread(k, u) /\ pc'[t] = Scheduling(t)
    BY <1>6, FrameOf DEF StartupInsertStep, u
  <2>2. k'.cur = k.cur
    BY <1>2, <2>1, InsertOnly
  <2>3. pc'[t].at = "sched"
    BY <2>1, FrameFields
  <2>. QED
    BY <1>1, <2>2, <2>3 DEF Steady
<1>7. CASE ResumeInsertStep(t)
  <2>. DEFINE j == rt_schedule_insert_thread(k, u)
  <2>1. k' = [j EXCEPT !.owed = TRUE]
    BY <1>7 DEF ResumeInsertStep, u
  <2>2. j \in KernelState /\ j.cur = k.cur
    BY <1>2, InsertOnly DEF QueuesOnly
  <2>. HIDE DEF j
  <2>3. k'.cur = k.cur /\ k'.owed
    BY <2>1, <2>2 DEF KernelState
  <2>. QED
    BY <1>1, <2>3 DEF Steady
<1>8. CASE DeleteTimerStep(t)
  <2>1. k' = rt_timer_stop(k, u)
    BY <1>8 DEF DeleteTimerStep, u
  <2>2. /\ k'.stat = k.stat /\ k'.prio = k.prio /\ k'.cur = k.cur
        /\ k'.group = k.group /\ k'.lock = k.lock /\ k'.owed = k.owed
    BY <1>2, <2>1, TimerStopFields
  <2>. QED
    BY <1>4, <2>2
<1>9. CASE DeleteCloseStep(t)
  <2>1. k' = [k EXCEPT !.stat[u] = CLOSE] /\ pc[t].at = "close"
    BY <1>9 DEF DeleteCloseStep, Continues, u
  <2>2. u # t
    BY <1>1, <1>2, <2>1 DEF Undisturbed, u
  <2>3. /\ k'.stat = [k.stat EXCEPT ![u] = CLOSE] /\ k'.prio = k.prio
        /\ k'.cur = k.cur /\ k'.group = k.group /\ k'.lock = k.lock /\ k'.owed = k.owed
    BY <1>2, <2>1 DEF KernelState
  <2>4. k'.stat[t] = k.stat[t]
    BY <1>3, <2>2, <2>3
  <2>. QED
    BY <1>4, <2>3, <2>4
<1>10. CASE DetachObjectStep(t) \/ IdleFreeStep
  BY <1>4, <1>10 DEF DetachObjectStep, IdleFreeStep
<1>11. CASE DefunctStep(t)
  <2>. DEFINE r == <<u>> \o k.defunct
  <2>1. k' = [k EXCEPT !.defunct = r]
    BY <1>11 DEF DefunctStep, u
  <2>. HIDE DEF r
  <2>2. /\ k'.stat = k.stat /\ k'.prio = k.prio /\ k'.cur = k.cur
        /\ k'.group = k.group /\ k'.lock = k.lock /\ k'.owed = k.owed
    BY <1>2, <2>1 DEF KernelState
  <2>. QED
    BY <1>4, <2>2
<1>. QED
  BY <1>5, <1>6, <1>7, <1>8, <1>9, <1>10, <1>11

\* Every step either calls rt_schedule or is steady.
LEMMA EveryStep ==
    ASSUME Disciplined, IInv, [Next]_vars
    PROVE  (\E j : Schedules(j)) \/ Steady
<1>1. CASE \E t \in Thread : SelfCall(t)
  <2>1. PICK t \in Thread : SelfCall(t)
    BY <1>1
  <2>. QED
    BY <2>1, SchedulingCalls, SteadySuspend, SteadyExit, SteadyCritical DEF SelfCall
<1>2. CASE \E t \in Thread : Continue(t)
  <2>1. PICK t \in Thread : Continue(t)
    BY <1>2
  <2>2. CASE Schedule(t) \/ SleepSchedule(t) \/ SleepReturn(t)
    BY <2>2, SchedulingCalls, SteadyCritical
  <2>3. CASE ~(Schedule(t) \/ SleepSchedule(t) \/ SleepReturn(t))
    BY <2>1, <2>3, SteadyContinue DEF Continue
  <2>. QED
    BY <2>2, <2>3
<1>3. CASE \E t, u \in Thread : TargetCall(t, u)
  BY <1>3, SteadyTarget
<1>4. CASE \E u \in Thread : DeviceInterrupt(u)
  BY <1>4, SchedulingDevice
<1>5. CASE IdleLoop
  BY <1>5, SchedulingIdle, SteadyContinue, TypeFacts DEF IdleLoop
<1>6. CASE ClockInterrupt
  <2>1. CASE TickInterrupt
    <3>1. isr = "none" /\ pc' = pc
      BY <2>1 DEF TickInterrupt
    <3>. QED
      BY <2>1, <3>1, SchedulingTick DEF Steady
  <2>2. CASE TimerCheckDone
    BY <2>2 DEF TimerCheckDone, Steady
  <2>3. CASE TimerFire
    BY <2>3, SchedulingTimer
  <2>. QED
    BY <1>6, <2>1, <2>2, <2>3 DEF ClockInterrupt
<1>7. CASE UNCHANGED vars
  BY <1>7 DEF vars, Steady
<1>. QED
  BY <1>1, <1>2, <1>3, <1>4, <1>5, <1>6, <1>7 DEF Next

\* What a step that schedules keeps.
LEMMA SchedulesFacts ==
    ASSUME IInv, NEW j, Schedules(j)
    PROVE  /\ k'.lock = k.lock
           /\ k.lock # 0 => k'.cur = k.cur
           /\ k'.lock = 0 => TopRuns(k')
           /\ k'.stat = j.stat
           /\ k'.cur = k.cur \/ k'.stat[k'.cur] = READY
           /\ QueuesOnly(j, k')
<1>1. KInv(j, Leaving) /\ k' = rt_schedule(j) /\ j.cur = k.cur /\ j.lock = k.lock
  BY DEF Schedules
<1>2. j.stat[Idle] = READY
  BY TypeFacts, StatesDiffer DEF Schedules, IInv, LifeInv
<1>3. Idle \notin Leaving
  BY LeavingFacts
<1>4. QueuesOnly(j, k') /\ (j.lock # 0 => k' = j)
  BY <1>1, ScheduleOnly
<1>5. k'.stat = j.stat /\ (k'.cur = j.cur \/ j.stat[k'.cur] = READY)
  BY <1>1, ScheduleKInv DEF Switched
<1>6. k'.lock = 0 => TopRuns(k')
  BY <1>1, <1>2, <1>3, ScheduleSettles
<1>. QED
  BY <1>1, <1>4, <1>5, <1>6 DEF QueuesOnly

-----------------------------------------------------------------------------

\* While the scheduler is locked neither an interrupt nor a call takes the
\* processor from the running thread, and no interrupt unlocks it.
THEOREM LockKeepsProcessor == Disciplined => (Spec => LockHolds)
<1>1. ASSUME Disciplined, IInv, [Next]_vars, k.lock > 0
      PROVE  k'.cur = k.cur /\ (isr = "timer" => k'.lock = k.lock)
  <2>1. CASE \E j : Schedules(j)
    BY <1>1, <2>1, SchedulesFacts
  <2>2. CASE Steady
    BY <2>2 DEF Steady
  <2>. QED
    BY <1>1, <2>1, <2>2, EveryStep
<1>2. ASSUME Disciplined
      PROVE  IInv /\ [Next]_vars =>
               [k.lock > 0 => k'.cur = k.cur /\ (isr = "timer" => k'.lock = k.lock)]_vars
  BY <1>1, <1>2
<1>3. ASSUME Disciplined
      PROVE  Spec => LockHolds
  BY <1>2, <1>3, InductiveInvariant, PTL DEF Spec, LockHolds
<1>. QED
  BY <1>3

\* The inductive strengthening of HighestPriorityRuns: it also holds inside an
\* interrupt and in the middle of a call, unless rt_schedule is the next step.
Settled == k.lock = 0 /\ ~k.owed /\ pc[k.cur].at # "sched" => TopRuns(k)

\* At the start main runs, and idle, no higher, is all that is ready.
LEMMA InitSettled == Init => Settled
<1>1. ASSUME Init
      PROVE  TopRuns(k)
  <2>1. /\ k.cur = Main /\ k.stat[Main] = READY /\ k.prio[Main] = InitPriority[Main]
        /\ k.group = {InitPriority[Idle]}
    BY <1>1, ThreadsConstants DEF Init
  <2>2. InitPriority[Main] <= InitPriority[Idle]
    BY KernelConstants, ThreadsConstants DEF Priority
  <2>. QED
    BY <2>1, <2>2 DEF TopRuns
<1>. QED
  BY <1>1 DEF Settled

\* Every step leaves the highest ready thread running, unless the scheduler is
\* locked, a switch is owed or a call has its rt_schedule before it.
LEMMA NextSettled ==
    ASSUME Disciplined, IInv, Settled, [Next]_vars
    PROVE  Settled'
<1>1. CASE \E j : Schedules(j)
  BY <1>1, SchedulesFacts DEF Settled
<1>2. CASE Steady
  BY <1>2 DEF Steady, Settled, TopRuns
<1>. QED
  BY <1>1, <1>2, EveryStep

\* Whenever no rt_schedule is owed, a thread that executes code of its own
\* has the highest priority of all READY threads.
THEOREM PriorityIsRespected == Disciplined => (Spec => []HighestPriorityRuns)
<1>1. Settled => HighestPriorityRuns
  BY DEF Settled, HighestPriorityRuns, TopRuns
<1>2. ASSUME Disciplined
      PROVE  IInv /\ Settled /\ [Next]_vars => Settled'
  BY <1>2, NextSettled
<1>3. ASSUME Disciplined
      PROVE  Spec => []HighestPriorityRuns
  BY <1>1, <1>2, <1>3, InitSettled, InductiveInvariant, PTL DEF Spec
<1>. QED
  BY <1>3

-----------------------------------------------------------------------------
(* The defunct list and the heap *)

\* The steps at which a call has a closed thread to hand over or to give back.
Final == {"object", "defunct", "free"}

\* The inductive strengthening of NoUseAfterFree: a closed thread is on its way
\* to the heap in one place only, a call's frame or the defunct list.
Reclaimed ==
    /\ IsInjective(k.defunct)
    /\ \A t \in Leaving : k.stat[t] # CLOSE
    /\ \A t \in Thread : obj[t] = "freed" => t # k.cur /\ t \notin Range(k.defunct)
    /\ \A s \in Thread : pc[s].at \in Final =>
         obj[pc[s].arg] # "freed" /\ pc[s].arg \notin Range(k.defunct)
    /\ \A r, s \in Thread :
         r # s /\ pc[r].at \in Final /\ pc[s].at \in Final => pc[r].arg # pc[s].arg

\* No thread joins the defunct list of j in u.
DefunctShrinks(j, u) ==
    /\ Range(u.defunct) \subseteq Range(j.defunct)
    /\ IsInjective(j.defunct) => IsInjective(u.defunct)

\* The functions that act on one thread.
LEMMA ActingShrinks ==
    ASSUME NEW j \in KernelState, NEW t \in Thread
    PROVE  /\ DefunctShrinks(j, rt_thread_suspend(j, t))
           /\ DefunctShrinks(j, ResumeDetach(j, t))
           /\ \A n : rt_timer_start(j, t, n).defunct = j.defunct
           /\ \A p \in Priority : DefunctShrinks(j, ChangePriority(j, t, p))
           /\ DefunctShrinks(j, rt_timer_stop([rt_schedule_remove_thread(j, t)
                                                 EXCEPT !.stat[t] = CLOSE], t))
<1>1. DefunctShrinks(j, rt_thread_suspend(j, t))
  <2>. DEFINE v == [j EXCEPT !.stat[t] = SUSPEND]
              w == rt_schedule_remove_thread(v, t)
  <2>1. v \in KernelState /\ v.defunct = j.defunct
    BY StatesDiffer DEF KernelState
  <2>2. rt_thread_suspend(j, t) = IF j.stat[t] # READY THEN j ELSE rt_timer_stop(w, t)
    BY DEF rt_thread_suspend
  <2>. HIDE DEF v
  <2>3. QueuesOnly(v, w)
    BY <2>1, RemoveOnly
  <2>. HIDE DEF w
  <2>4. rt_timer_stop(w, t).defunct = w.defunct
    BY <2>3, TimerStopFields DEF QueuesOnly
  <2>. QED
    BY <2>1, <2>2, <2>3, <2>4 DEF QueuesOnly, DefunctShrinks
<1>2. DefunctShrinks(j, ResumeDetach(j, t))
  <2>. DEFINE w == rt_list_remove(j, t)
  <2>1. QueuesOnly(j, w) /\ ResumeDetach(j, t) = rt_timer_stop(w, t)
    BY ListRemoveOnly DEF ResumeDetach
  <2>. HIDE DEF w
  <2>2. rt_timer_stop(w, t).defunct = w.defunct
    BY <2>1, TimerStopFields DEF QueuesOnly
  <2>. QED
    BY <2>1, <2>2 DEF QueuesOnly, DefunctShrinks
<1>3. \A n : rt_timer_start(j, t, n).defunct = j.defunct
  BY DEF rt_timer_start, KernelState
<1>4. ASSUME NEW p \in Priority
      PROVE  DefunctShrinks(j, ChangePriority(j, t, p))
  <2>. DEFINE w == rt_schedule_remove_thread(j, t)
              q == [w EXCEPT !.prio[t] = p]
  <2>1. QueuesOnly(j, w)
    BY RemoveOnly
  <2>. HIDE DEF w
  <2>2. q \in KernelState /\ q.defunct = w.defunct
    BY <2>1 DEF QueuesOnly, KernelState
  <2>. HIDE DEF q
  <2>3. rt_schedule_insert_thread(q, t).defunct = q.defunct
    BY <2>2, InsertOnly
  <2>4. [j EXCEPT !.prio[t] = p].defunct = j.defunct
    BY DEF KernelState
  <2>5. ChangePriority(j, t, p) = IF j.stat[t] = READY
          THEN rt_schedule_insert_thread(q, t) ELSE [j EXCEPT !.prio[t] = p]
    BY DEF ChangePriority, q, w
  <2>. QED
    BY <2>1, <2>2, <2>3, <2>4, <2>5 DEF QueuesOnly, DefunctShrinks
<1>5. DefunctShrinks(j, rt_timer_stop([rt_schedule_remove_thread(j, t)
                                         EXCEPT !.stat[t] = CLOSE], t))
  <2>. DEFINE w == rt_schedule_remove_thread(j, t)
              v == [w EXCEPT !.stat[t] = CLOSE]
  <2>1. QueuesOnly(j, w)
    BY RemoveOnly
  <2>. HIDE DEF w
  <2>2. v \in KernelState /\ v.defunct = w.defunct
    BY <2>1, StatesDiffer DEF QueuesOnly, KernelState
  <2>. HIDE DEF v
  <2>3. rt_timer_stop(v, t).defunct = v.defunct
    BY <2>2, TimerStopFields
  <2>. QED
    BY <2>1, <2>2, <2>3 DEF QueuesOnly, DefunctShrinks, v, w
<1>. QED
  BY <1>1, <1>2, <1>3, <1>4, <1>5

\* A step that closes nobody, frees nobody and hands nobody over.
LEMMA ReclaimedKept ==
    ASSUME IInv, IInv', Reclaimed,
           DefunctShrinks(k, k'),
           k'.cur = k.cur \/ k'.stat[k'.cur] # CLOSE,
           \A s \in Thread : obj'[s] = "freed" => obj[s] = "freed",
           \A s \in Thread : k'.stat[s] = CLOSE => k.stat[s] = CLOSE,
           \A s \in Thread : pc'[s].at \in Final =>
               pc[s].at \in Final /\ pc'[s].arg = pc[s].arg,
           \A s \in Thread : pc'[s].at \in {"timer", "close"} =>
               pc'[s].arg \in Leaving \/ k.stat[pc'[s].arg] # CLOSE
    PROVE  Reclaimed'
<1>1. \A t \in Leaving' : t \in Thread /\ k'.stat[t] # CLOSE
  <2>1. \A s \in Thread : pc'[s].arg \in Thread
    BY TypeFacts DEF IInv, TypeOK, Frame
  <2>. QED
    BY <2>1 DEF Leaving, Reclaimed
<1>2. \A t \in Thread : obj'[t] = "freed" => t # k'.cur /\ t \notin Range(k'.defunct)
  <2>1. \A t \in Thread : obj'[t] = "freed" => k'.stat[t] = CLOSE
    BY DEF IInv, LifeInv
  <2>. QED
    BY <2>1 DEF Reclaimed, DefunctShrinks
<1>3. \A s \in Thread : pc'[s].at \in Final => pc[s].arg \in Thread
  BY TypeFacts
<1>. QED
  BY <1>1, <1>2, <1>3 DEF Reclaimed, DefunctShrinks

\* A thread that goes to another step of a call, or to the end of one.
LEMMA FramesAfter ==
    ASSUME IInv, NEW t \in Thread, NEW f, Goto(t, f)
    PROVE  \A s \in Thread : pc'[s] = IF s = t THEN f ELSE pc[s]
  BY TypeFacts DEF Goto

\* The steps that schedule, but for the idle thread's.
LEMMA ReclaimedSchedules ==
    ASSUME IInv, IInv', Reclaimed, NEW j, Schedules(j), obj' = obj,
           \A s \in Thread : pc'[s] = pc[s] \/ pc'[s].at \notin Acting
    PROVE  Reclaimed'
<1>1. /\ k'.stat = j.stat /\ QueuesOnly(j, k')
      /\ k'.cur = k.cur \/ k'.stat[k'.cur] = READY
  BY SchedulesFacts
<1>2. \A s \in Thread : j.stat[s] = CLOSE => k.stat[s] = CLOSE
  BY StatesDiffer DEF Schedules
<1>3. DefunctShrinks(k, k')
  BY <1>1 DEF Schedules, QueuesOnly, DefunctShrinks
<1>4. \A s \in Thread : pc'[s].at \in Final => pc'[s] = pc[s]
  BY DEF Final, Acting
<1>5. \A s \in Thread : pc'[s].at \in {"timer", "close"} => pc'[s].arg \in Leaving
  BY DEF Acting, Leaving
<1>6. k'.cur = k.cur \/ k'.stat[k'.cur] # CLOSE
  BY <1>1, StatesDiffer
<1>. QED
  BY <1>1, <1>2, <1>3, <1>4, <1>5, <1>6, ReclaimedKept

\* A step of the running thread that closes nobody and ends outside the steps
\* that take a thread out of the scheduler.
LEMMA ReclaimedOwn ==
    ASSUME IInv, IInv', Reclaimed, NEW t \in Thread, NEW f, Goto(t, f),
           f.at \notin {"timer", "close"},
           f.at \in Final => pc[t].at \in Final /\ f.arg = pc[t].arg,
           DefunctShrinks(k, k'), k'.cur = k.cur,
           \A s \in Thread : obj'[s] = "freed" => obj[s] = "freed",
           \A s \in Thread : k'.stat[s] = CLOSE => k.stat[s] = CLOSE
    PROVE  Reclaimed'
<1>1. \A s \in Thread : pc'[s] = IF s = t THEN f ELSE pc[s]
  BY FramesAfter
<1>2. \A s \in Thread : pc'[s].at \in Final =>
               pc[s].at \in Final /\ pc'[s].arg = pc[s].arg
  BY <1>1
<1>3. \A s \in Thread : pc'[s].at \in {"timer", "close"} => pc'[s].arg \in Leaving
  BY <1>1 DEF Leaving
<1>. QED
  BY <1>2, <1>3, ReclaimedKept

\* A thread that suspends itself frees nothing and closes nobody.
LEMMA ReclaimedSuspend ==
    ASSUME IInv, IInv', Reclaimed, NEW t \in Thread, SuspendSelf(t) \/ rt_thread_sleep(t)
    PROVE  Reclaimed'
<1>. DEFINE j == rt_thread_suspend(k, t)
<1>1. /\ t = k.cur /\ obj' = obj
      /\ \/ k' = j
         \/ \E n \in SleepTicks : k' = rt_timer_start(j, t, n)
      /\ Goto(t, Scheduling(t)) \/ Goto(t, In("sleep", "sched", t))
  BY DEF SuspendSelf, rt_thread_sleep, Calls, Executes
<1>2. PICK f : Goto(t, f) /\ f.at = "sched"
  BY <1>1, FrameFields DEF Call, Step
<1>3. KInv(k, Leaving) /\ k \in KernelState
  BY TypeFacts DEF IInv
<1>4. /\ j \in KernelState
      /\ j.cur = k.cur /\ j.stat = IF k.stat[t] = READY
                                   THEN [k.stat EXCEPT ![t] = SUSPEND] ELSE k.stat
  <2>1. KInv(j, Leaving) /\ j.cur = k.cur
        /\ j.stat = IF k.stat[t] = READY THEN [k.stat EXCEPT ![t] = SUSPEND] ELSE k.stat
    BY <1>1, <1>3, SuspendCurrent
  <2>. HIDE DEF j
  <2>. QED
    BY <2>1 DEF KInv
<1>5. DefunctShrinks(k, j)
  BY <1>3, ActingShrinks
<1>. HIDE DEF j
<1>6. \A n : /\ rt_timer_start(j, t, n).defunct = j.defunct
             /\ rt_timer_start(j, t, n).cur = j.cur
             /\ rt_timer_start(j, t, n).stat = j.stat
  BY <1>4 DEF rt_timer_start, KernelState
<1>7. k'.defunct = j.defunct /\ k'.cur = k.cur /\ k'.stat = j.stat
  BY <1>1, <1>4, <1>6 DEF j
<1>8. \A s \in Thread : k'.stat[s] = CLOSE => k.stat[s] = CLOSE
  BY <1>4, <1>7, TypeFacts, StatesDiffer
<1>9. DefunctShrinks(k, k')
  BY <1>5, <1>7 DEF DefunctShrinks
<1>. QED
  BY <1>1, <1>2, <1>7, <1>8, <1>9, ReclaimedOwn DEF Final

\* Neither do the critical sections and the return of a sleep.
LEMMA ReclaimedCritical ==
    ASSUME IInv, IInv', Reclaimed, NEW t \in Thread,
           rt_enter_critical(t) \/ rt_exit_critical(t) \/ SleepReturn(t)
    PROVE  Reclaimed'
<1>1. obj' = obj /\ k \in KernelState /\ pc \in [Thread -> Frame]
  BY TypeFacts DEF rt_enter_critical, rt_exit_critical, SleepReturn
<1>2. k'.stat = k.stat /\ k'.cur = k.cur /\ k'.defunct = k.defunct
  BY <1>1 DEF rt_enter_critical, rt_exit_critical, SleepReturn, KernelState
<1>3. PICK f : Goto(t, f) /\ f.at \in {"run", "sched"}
  <2>1. CASE rt_enter_critical(t)
    <3>1. Goto(t, pc[t]) /\ pc[t].at = "run"
      BY <1>1, <2>1 DEF rt_enter_critical, Calls, Goto
    <3>. QED
      BY <3>1
  <2>2. CASE rt_exit_critical(t) \/ SleepReturn(t)
    <3>1. Goto(t, Running(t)) \/ Goto(t, Scheduling(t))
      BY <2>2 DEF rt_exit_critical, SleepReturn
    <3>. QED
      BY <3>1, FrameFields
  <2>. QED
    BY <2>1, <2>2
<1>4. DefunctShrinks(k, k')
  BY <1>2 DEF DefunctShrinks
<1>. QED
  BY <1>1, <1>2, <1>3, <1>4, ReclaimedOwn DEF Final

\* The first section of a call about u: rt_thread_delete closes u, a later section
\* puts it in the defunct list.
LEMMA ReclaimedTarget ==
    ASSUME Disciplined, IInv, IInv', Reclaimed, NEW t \in Thread, NEW u \in Thread,
           TargetCall(t, u)
    PROVE  Reclaimed'
<1>1. /\ pc[t].at = "run" /\ t = k.cur
      /\ k \in KernelState /\ KInv(k, Leaving)
  <2>1. \E op : Calls(t, op)
    BY DEF TargetCall, rt_thread_init, rt_thread_startup,
         rt_thread_resume_call, rt_thread_control, rt_thread_delete
  <2>2. pc[t].at = "run" /\ t = k.cur
    BY <2>1 DEF Calls, Executes
  <2>. QED
    BY <2>2, TypeFacts DEF IInv
<1>2. CASE rt_thread_init(t, u)
  <2>1. /\ k' = [k EXCEPT !.stat[u] = INIT, !.prio[u] = InitPriority[u],
                          !.slice[u] = InitTick[u], !.error[u] = EOK]
        /\ obj' = [obj EXCEPT ![u] = InitObject[u]]
        /\ Goto(u, Running(u))
    BY <1>2 DEF rt_thread_init, Goto
  <2>2. /\ k'.stat = [k.stat EXCEPT ![u] = INIT] /\ k'.cur = k.cur
        /\ k'.defunct = k.defunct
    BY <1>1, <2>1 DEF KernelState
  <2>3. \A s \in Thread : k'.stat[s] = CLOSE => k.stat[s] = CLOSE
    BY <2>2, TypeFacts, StatesDiffer
  <2>4. InitObject[u] # "freed"
    BY DEF InitObject
  <2>5. \A s \in Thread : obj'[s] = "freed" => obj[s] = "freed"
    BY <2>1, <2>4, TypeFacts
  <2>6. DefunctShrinks(k, k')
    BY <2>2 DEF DefunctShrinks
  <2>. QED
    BY <2>1, <2>2, <2>3, <2>5, <2>6, FrameFields, ReclaimedOwn DEF Final
<1>3. CASE rt_thread_startup(t, u)
  <2>1. /\ k' = [k EXCEPT !.stat[u] = SUSPEND, !.prio[u] = InitPriority[u]]
        /\ obj' = obj /\ Goto(t, In("startup", "detach", u))
    BY <1>3 DEF rt_thread_startup
  <2>2. /\ k'.stat = [k.stat EXCEPT ![u] = SUSPEND] /\ k'.cur = k.cur
        /\ k'.defunct = k.defunct
    BY <1>1, <2>1 DEF KernelState
  <2>3. \A s \in Thread : k'.stat[s] = CLOSE => k.stat[s] = CLOSE
    BY <2>2, TypeFacts, StatesDiffer
  <2>4. DefunctShrinks(k, k')
    BY <2>2 DEF DefunctShrinks
  <2>5. In("startup", "detach", u).at = "detach"
    BY DEF In
  <2>. QED
    BY <2>1, <2>2, <2>3, <2>4, <2>5, ReclaimedOwn DEF Final
<1>4. CASE rt_thread_resume_call(t, u)
  <2>1. k' = k /\ obj' = obj /\ Goto(t, In("resume", "detach", u))
    BY <1>4 DEF rt_thread_resume_call
  <2>2. In("resume", "detach", u).at = "detach"
    BY DEF In
  <2>3. DefunctShrinks(k, k')
    BY <2>1 DEF DefunctShrinks
  <2>. QED
    BY <2>1, <2>2, <2>3, ReclaimedOwn DEF Final
<1>5. CASE rt_thread_control(t, u)
  <2>1. PICK p \in NewPriority : k' = [ChangePriority(k, u, p) EXCEPT !.owed = TRUE]
    BY <1>5 DEF rt_thread_control
  <2>2. p \in Priority /\ u \in Thread \ Leaving
    BY <1>5, ThreadsConstants DEF rt_thread_control, Claimed, Leaving, Acting
  <2>. DEFINE j == ChangePriority(k, u, p)
  <2>3. KInv(j, Leaving) /\ j.cur = k.cur /\ j.stat = k.stat
    BY <1>1, <2>2, ChangePriorityKInv
  <2>4. DefunctShrinks(k, j)
    BY <1>1, <2>2, ActingShrinks
  <2>. HIDE DEF j
  <2>5. k' = [j EXCEPT !.owed = TRUE] /\ j \in KernelState
    BY <2>1, <2>3 DEF j, KInv
  <2>6. k'.cur = k.cur /\ k'.stat = k.stat /\ k'.defunct = j.defunct
    BY <2>3, <2>5 DEF KernelState
  <2>7. DefunctShrinks(k, k')
    BY <2>4, <2>6 DEF DefunctShrinks
  <2>8. obj' = obj /\ \E f : Goto(t, f) /\ f.at \in {"run", "sched"}
    BY <1>5, FrameFields DEF rt_thread_control
  <2>. QED
    BY <2>6, <2>7, <2>8, ReclaimedOwn DEF Final
<1>6. CASE rt_thread_delete(t, u)
  <2>1. /\ k' = k \/ k' = rt_schedule_remove_thread(k, u)
        /\ k.stat[u] # CLOSE /\ obj' = obj
        /\ Goto(t, In(DeleteOp(u), "timer", u))
    BY <1>6 DEF rt_thread_delete
  <2>2. k'.stat = k.stat /\ k'.cur = k.cur /\ DefunctShrinks(k, k')
    <3>1. CASE k' = k
      BY <3>1 DEF DefunctShrinks
    <3>2. CASE k' = rt_schedule_remove_thread(k, u)
      BY <1>1, <3>2, RemoveOnly DEF QueuesOnly, DefunctShrinks
    <3>. QED
      BY <2>1, <3>1, <3>2
  <2>3. \A s \in Thread : pc'[s] = IF s = t THEN In(DeleteOp(u), "timer", u) ELSE pc[s]
    BY <2>1, FramesAfter
  <2>4. /\ In(DeleteOp(u), "timer", u).at = "timer"
        /\ In(DeleteOp(u), "timer", u).arg = u
    BY DEF In
  <2>5. \A s \in Thread : pc'[s].at \in Final =>
               pc[s].at \in Final /\ pc'[s].arg = pc[s].arg
    BY <2>3, <2>4 DEF Final
  <2>6. \A s \in Thread : pc'[s].at \in {"timer", "close"} =>
               pc'[s].arg \in Leaving \/ k.stat[pc'[s].arg] # CLOSE
    BY <2>1, <2>3, <2>4 DEF Leaving
  <2>. QED
    BY <2>1, <2>2, <2>5, <2>6, ReclaimedKept
<1>. QED
  BY <1>2, <1>3, <1>4, <1>5, <1>6 DEF TargetCall

\* The sections that act on a thread before it is closed.
LEMMA ReclaimedMoving ==
    ASSUME IInv, IInv', Reclaimed, NEW t \in Thread,
           \/ ResumeDetachStep(t) \/ StartupInsertStep(t) \/ ResumeInsertStep(t)
           \/ DeleteTimerStep(t)
    PROVE  Reclaimed'
<1>. DEFINE u == pc[t].arg
<1>1. u \in Thread /\ k \in KernelState /\ k.stat \in [Thread -> Stat] /\ obj' = obj
  BY TypeFacts DEF ResumeDetachStep, StartupInsertStep, ResumeInsertStep, DeleteTimerStep
<1>2. CASE ResumeDetachStep(t)
  <2>1. k' = ResumeDetach(k, u)
    BY <1>2 DEF ResumeDetachStep
  <2>2. PICK op : Goto(t, In(op, "insert", u))
    BY <1>2 DEF ResumeDetachStep
  <2>. DEFINE r == rt_list_remove(k, u)
  <2>3. /\ QueuesOnly(k, r) /\ r.stat = k.stat /\ r.cur = k.cur
        /\ k' = rt_timer_stop(r, u)
    BY <1>1, <2>1, ListRemoveOnly DEF ResumeDetach
  <2>. HIDE DEF r
  <2>4. k'.stat = r.stat /\ k'.cur = r.cur
    BY <1>1, <2>3, TimerStopFields DEF QueuesOnly
  <2>5. DefunctShrinks(k, k')
    BY <1>1, <2>1, ActingShrinks
  <2>6. In(op, "insert", u).at = "insert"
    BY DEF In
  <2>. QED
    BY <1>1, <2>2, <2>3, <2>4, <2>5, <2>6, ReclaimedOwn DEF Final
<1>3. CASE StartupInsertStep(t) \/ ResumeInsertStep(t)
  <2>. DEFINE j == rt_schedule_insert_thread(k, u)
  <2>1. k' = j \/ k' = [j EXCEPT !.owed = TRUE]
    BY <1>3 DEF StartupInsertStep, ResumeInsertStep
  <2>2. PICK f : Goto(t, f) /\ f.at \in {"run", "sched"}
    <3>1. Goto(t, Running(t)) \/ Goto(t, Scheduling(t))
      BY <1>3 DEF StartupInsertStep, ResumeInsertStep
    <3>. QED
      BY <3>1, FrameFields
  <2>3. /\ j \in KernelState /\ j.stat = [k.stat EXCEPT ![u] = READY]
        /\ j.cur = k.cur /\ j.defunct = k.defunct
    BY <1>1, InsertOnly DEF QueuesOnly
  <2>. HIDE DEF j
  <2>4. /\ k'.stat = [k.stat EXCEPT ![u] = READY]
        /\ k'.cur = k.cur /\ k'.defunct = k.defunct
    BY <2>1, <2>3 DEF KernelState
  <2>5. \A s \in Thread : k'.stat[s] = CLOSE => k.stat[s] = CLOSE
    BY <1>1, <2>4, StatesDiffer
  <2>6. DefunctShrinks(k, k')
    BY <2>4 DEF DefunctShrinks
  <2>. QED
    BY <1>1, <2>2, <2>4, <2>5, <2>6, ReclaimedOwn DEF Final
<1>4. CASE DeleteTimerStep(t)
  <2>1. k' = rt_timer_stop(k, u) /\ pc[t].at = "timer"
    BY <1>4 DEF DeleteTimerStep, Continues
  <2>2. PICK op : Goto(t, In(op, "close", u))
    BY <1>4 DEF DeleteTimerStep
  <2>3. k'.stat = k.stat /\ k'.cur = k.cur /\ k'.defunct = k.defunct
    BY <1>1, <2>1, TimerStopFields
  <2>4. DefunctShrinks(k, k')
    BY <2>3 DEF DefunctShrinks
  <2>5. \A s \in Thread : pc'[s] = IF s = t THEN In(op, "close", u) ELSE pc[s]
    BY <2>2, FramesAfter
  <2>6. In(op, "close", u).at = "close" /\ In(op, "close", u).arg = u
    BY DEF In
  <2>7. \A s \in Thread : pc'[s].at \in Final =>
               pc[s].at \in Final /\ pc'[s].arg = pc[s].arg
    BY <2>5, <2>6 DEF Final
  <2>8. \A s \in Thread : pc'[s].at \in {"timer", "close"} => pc'[s].arg \in Leaving
    BY <2>1, <2>5, <2>6 DEF Leaving
  <2>. QED
    BY <1>1, <2>3, <2>4, <2>7, <2>8, ReclaimedKept
<1>. QED
  BY <1>2, <1>3, <1>4

\* rt_thread_exit closes the running thread and hands it over at once.
LEMMA ReclaimedExit ==
    ASSUME IInv, IInv', Reclaimed, NEW t \in Thread, rt_thread_exit(t)
    PROVE  Reclaimed'
<1>. DEFINE closed == rt_timer_stop([rt_schedule_remove_thread(k, t)
                                        EXCEPT !.stat[t] = CLOSE], t)
            r == <<t>> \o closed.defunct
<1>1. /\ t = k.cur /\ Goto(t, Scheduling(t)) /\ pc[t].at = "run"
      /\ k' = closed \/ k' = [closed EXCEPT !.defunct = r]
      /\ obj' = obj \/ obj' = [obj EXCEPT ![t] = "detached"]
  BY DEF rt_thread_exit, Calls, Executes
<1>2. KInv(k, Leaving) /\ k \in KernelState
  BY TypeFacts DEF IInv
<1>3. KInv(closed, Leaving) /\ closed.cur = k.cur /\ closed.stat = [k.stat EXCEPT ![t] = CLOSE]
  BY <1>1, <1>2, CloseCurrent, ZenonT(60)
<1>4. DefunctShrinks(k, closed)
  BY <1>2, ActingShrinks
<1>. HIDE DEF closed
<1>5. closed \in KernelState /\ closed.defunct \in Seq(Thread)
  BY <1>3 DEF KInv, KernelState
<1>6. k.stat[t] # CLOSE /\ t \notin Leaving
  BY <1>1, <1>2, CallerIsOpen, StatesDiffer DEF KInv
<1>7. t \notin Range(k.defunct)
  BY <1>2, <1>6 DEF KInv
<1>8. /\ IsInjective(closed.defunct) /\ Range(closed.defunct) \subseteq Range(k.defunct)
      /\ IsInjective(r) /\ Range(r) = Range(closed.defunct) \cup {t}
  <2>1. IsInjective(closed.defunct) /\ Range(closed.defunct) \subseteq Range(k.defunct)
    BY <1>4 DEF Reclaimed, DefunctShrinks
  <2>. QED
    BY <1>5, <1>7, <2>1, PrependOnce
<1>. HIDE DEF r
<1>9. /\ k'.stat = [k.stat EXCEPT ![t] = CLOSE] /\ k'.cur = t
      /\ k'.defunct \in {closed.defunct, r}
  BY <1>1, <1>3, <1>5 DEF KernelState
<1>10. /\ \A s \in Thread : pc'[s] = IF s = t THEN Scheduling(t) ELSE pc[s]
       /\ Scheduling(t).at = "sched"
  BY <1>1, FramesAfter, FrameFields
<1>11. \A s \in Thread : k'.stat[s] = IF s = t THEN CLOSE ELSE k.stat[s]
  BY <1>9, TypeFacts
<1>12. Leaving' = Leaving
  BY <1>1, <1>10, LeavingSame
<1>13. /\ \A s \in Thread : obj'[s] = "freed" => s # t /\ obj[s] = "freed"
       /\ \A s \in Thread : obj[s] = "freed" => k.stat[s] = CLOSE
  BY <1>1, <1>6, TypeFacts DEF IInv, LifeInv
<1>14. ASSUME NEW s \in Thread, pc'[s].at \in Final
       PROVE  /\ pc'[s] = pc[s] /\ pc[s].at \in Final
              /\ pc[s].arg # t /\ pc[s].arg \in Thread
  <2>1. s # t /\ pc'[s] = pc[s]
    BY <1>10, <1>14 DEF Final
  <2>2. k.stat[pc[s].arg] = CLOSE
    BY <1>14, <2>1 DEF IInv, CallsUndisturbed, Undisturbed, Final
  <2>. QED
    BY <1>6, <1>14, <2>1, <2>2, TypeFacts
<1>15. Range(k'.defunct) \subseteq Range(k.defunct) \cup {t} /\ IsInjective(k'.defunct)
  BY <1>8, <1>9
<1>16. \A s \in Leaving' : k'.stat[s] # CLOSE
  BY <1>6, <1>11, <1>12, LeavingFacts DEF Reclaimed
<1>17. \A s \in Thread : obj'[s] = "freed" => s # k'.cur /\ s \notin Range(k'.defunct)
  BY <1>9, <1>13, <1>15 DEF Reclaimed
<1>18. \A s \in Thread : pc'[s].at \in Final =>
         obj'[pc'[s].arg] # "freed" /\ pc'[s].arg \notin Range(k'.defunct)
  BY <1>13, <1>14, <1>15 DEF Reclaimed
<1>19. \A q, s \in Thread :
         q # s /\ pc'[q].at \in Final /\ pc'[s].at \in Final => pc'[q].arg # pc'[s].arg
  BY <1>14 DEF Reclaimed
<1>. QED
  BY <1>15, <1>16, <1>17, <1>18, <1>19 DEF Reclaimed

\* The last section of a deletion before the defunct list: the thread is closed.
LEMMA ReclaimedClose ==
    ASSUME IInv, IInv', Reclaimed, NEW t \in Thread, DeleteCloseStep(t)
    PROVE  Reclaimed'
<1>. DEFINE u == pc[t].arg
<1>1. /\ t = k.cur /\ pc[t].at = "close" /\ obj' = obj
      /\ k' = [k EXCEPT !.stat[u] = CLOSE]
      /\ \E op, at : at \in Final /\ Goto(t, In(op, at, u))
  BY DEF DeleteCloseStep, Continues, Executes, Final
<1>2. PICK f : f.at \in Final /\ f.arg = u /\ Goto(t, f)
  <2>1. PICK op, at : at \in Final /\ Goto(t, In(op, at, u))
    BY <1>1
  <2>2. In(op, at, u).at = at /\ In(op, at, u).arg = u
    BY DEF In
  <2>. QED
    BY <2>1, <2>2
<1>3. \A s \in Thread : pc'[s] = IF s = t THEN f ELSE pc[s]
  BY <1>2, FramesAfter
<1>4. u \in Thread /\ u \in Leaving /\ u # k.cur /\ k \in KernelState
  BY <1>1, TypeFacts DEF IInv, CallsUndisturbed, Undisturbed, Leaving
<1>5. k.stat[u] # CLOSE
  BY <1>4 DEF Reclaimed
<1>6. obj[u] # "freed" /\ u \notin Range(k.defunct)
  BY <1>4, <1>5 DEF IInv, LifeInv, KInv
<1>. HIDE DEF u
<1>7. /\ k'.stat = [k.stat EXCEPT ![u] = CLOSE] /\ k'.cur = k.cur
      /\ k'.defunct = k.defunct
  BY <1>1, <1>4 DEF KernelState
<1>8. \A s \in Thread : k'.stat[s] = IF s = u THEN CLOSE ELSE k.stat[s]
  BY <1>7, TypeFacts
<1>9. ASSUME NEW s \in Thread, s # t, pc'[s].at \in {"timer", "close"}
      PROVE  pc'[s].arg \in Leaving \ {u}
  <2>1. pc'[s] = pc[s] /\ pc[s].at \in Moving /\ pc[t].at \in Moving
    BY <1>1, <1>3, <1>9 DEF Moving
  <2>2. pc[s].arg # pc[t].arg
    BY <1>9, <2>1 DEF IInv, CallsUndisturbed
  <2>. QED
    BY <1>9, <2>1, <2>2 DEF Leaving, u
<1>10. ASSUME NEW s \in Leaving'
       PROVE  k'.stat[s] # CLOSE
  <2>1. PICK x \in Thread : pc'[x].at \in {"timer", "close"} /\ s = pc'[x].arg
    BY <1>10 DEF Leaving
  <2>2. x # t
    BY <1>2, <1>3, <2>1 DEF Final
  <2>3. s \in Leaving \ {u} /\ s \in Thread
    BY <1>9, <2>1, <2>2, LeavingFacts
  <2>. QED
    BY <1>8, <2>3 DEF Reclaimed
<1>11. ASSUME NEW s \in Thread, s # t, pc'[s].at \in Final
       PROVE  pc'[s] = pc[s] /\ pc[s].at \in Final /\ pc[s].arg # u
  <2>1. pc'[s] = pc[s]
    BY <1>3, <1>11
  <2>2. k.stat[pc[s].arg] = CLOSE
    BY <1>11, <2>1 DEF IInv, CallsUndisturbed, Undisturbed, Final
  <2>. QED
    BY <1>5, <1>11, <2>1, <2>2
<1>12. \A s \in Thread : obj'[s] = "freed" => s # k'.cur /\ s \notin Range(k'.defunct)
  BY <1>1, <1>7 DEF Reclaimed
<1>13. \A s \in Thread : pc'[s].at \in Final =>
         obj'[pc'[s].arg] # "freed" /\ pc'[s].arg \notin Range(k'.defunct)
  BY <1>1, <1>2, <1>3, <1>6, <1>7, <1>11 DEF Reclaimed
<1>14. \A q, s \in Thread :
         q # s /\ pc'[q].at \in Final /\ pc'[s].at \in Final => pc'[q].arg # pc'[s].arg
  BY <1>2, <1>3, <1>11 DEF Reclaimed
<1>15. IsInjective(k'.defunct)
  BY <1>7 DEF Reclaimed
<1>. QED
  BY <1>10, <1>12, <1>13, <1>14, <1>15 DEF Reclaimed

\* The closed thread is handed over to the idle thread, or given back.
LEMMA ReclaimedFinal ==
    ASSUME IInv, IInv', Reclaimed, NEW t \in Thread,
           DetachObjectStep(t) \/ DefunctStep(t) \/ (IdleFreeStep /\ t = Idle)
    PROVE  Reclaimed'
<1>. DEFINE u == pc[t].arg
            r == <<u>> \o k.defunct
<1>1. /\ u \in Thread /\ k \in KernelState /\ k.defunct \in Seq(Thread)
      /\ KInv(k, Leaving)
  BY TypeFacts DEF IInv, KernelState
<1>2. CASE DetachObjectStep(t)
  <2>1. /\ k' = k /\ obj' = [obj EXCEPT ![u] = "detached"] /\ pc[t].at = "object"
        /\ Goto(t, In("detach", "defunct", u)) \/ Goto(t, Running(t))
    BY <1>2 DEF DetachObjectStep, Continues
  <2>2. /\ In("detach", "defunct", u).at = "defunct" /\ In("detach", "defunct", u).arg = u
        /\ Running(t).at = "run"
    BY DEF In, Running
  <2>3. PICK f : /\ Goto(t, f) /\ f.at \notin {"timer", "close"}
                 /\ f.at \in Final => f.arg = u
    BY <2>1, <2>2 DEF Final
  <2>4. \A s \in Thread : obj'[s] = "freed" => obj[s] = "freed"
    BY <2>1, TypeFacts
  <2>5. DefunctShrinks(k, k') /\ k'.cur = k.cur /\ k'.stat = k.stat
    BY <2>1 DEF DefunctShrinks
  <2>6. pc[t].at \in Final
    BY <2>1 DEF Final
  <2>. QED
    BY <2>3, <2>4, <2>5, <2>6, ReclaimedOwn
<1>3. CASE DefunctStep(t) \/ (IdleFreeStep /\ t = Idle)
  <2>1. /\ t = k.cur /\ pc[t].at \in Final /\ Goto(t, Running(t))
        /\ \/ k' = [k EXCEPT !.defunct = r] /\ obj' = obj
           \/ k' = k /\ obj' = [obj EXCEPT ![u] = "freed"]
    BY <1>3 DEF DefunctStep, IdleFreeStep, Continues, Executes, Final
  <2>2. /\ obj[u] # "freed" /\ u \notin Range(k.defunct) /\ k.stat[u] = CLOSE
        /\ \A s \in Thread \ {t} : pc[s].at \in Final => pc[s].arg # u
    BY <2>1 DEF Reclaimed, IInv, CallsUndisturbed, Undisturbed, Final
  <2>3. k.stat[t] # CLOSE /\ u # t
    <3>1. pc[t].at # "sched"
      BY <2>1 DEF Final
    <3>. QED
      BY <2>1, <2>2, <3>1, CallerIsOpen, StatesDiffer
  <2>4. IsInjective(r) /\ Range(r) = Range(k.defunct) \cup {u}
    BY <1>1, <2>2, PrependOnce DEF Reclaimed
  <2>. HIDE DEF u, r
  <2>5. /\ k'.stat = k.stat /\ k'.cur = k.cur
        /\ IsInjective(k'.defunct) /\ Range(k'.defunct) \subseteq Range(k.defunct) \cup {u}
        /\ obj'[u] = "freed" => u \notin Range(k'.defunct)
    BY <1>1, <2>1, <2>2, <2>4 DEF KernelState, Reclaimed
  <2>6. \A s \in Thread \ {u} : obj'[s] = obj[s]
    BY <2>1, TypeFacts
  <2>7. /\ \A s \in Thread : pc'[s] = IF s = t THEN Running(t) ELSE pc[s]
        /\ Running(t).at = "run"
    BY <2>1, FramesAfter, FrameFields
  <2>8. Leaving' = Leaving
    BY <2>1, <2>7, LeavingSame DEF Final
  <2>9. ASSUME NEW s \in Thread, pc'[s].at \in Final
        PROVE  pc'[s] = pc[s] /\ pc[s].at \in Final /\ pc[s].arg \in Thread \ {u}
    <3>1. s # t /\ pc'[s] = pc[s]
      BY <2>7, <2>9 DEF Final
    <3>. QED
      BY <2>2, <2>9, <3>1, TypeFacts
  <2>10. \A s \in Leaving' : k'.stat[s] # CLOSE
    BY <2>5, <2>8 DEF Reclaimed
  <2>11. \A s \in Thread : obj'[s] = "freed" => s # k'.cur /\ s \notin Range(k'.defunct)
    BY <2>1, <2>3, <2>5, <2>6 DEF Reclaimed
  <2>12. \A s \in Thread : pc'[s].at \in Final =>
         obj'[pc'[s].arg] # "freed" /\ pc'[s].arg \notin Range(k'.defunct)
    BY <2>5, <2>6, <2>9 DEF Reclaimed
  <2>13. \A q, s \in Thread :
         q # s /\ pc'[q].at \in Final /\ pc'[s].at \in Final => pc'[q].arg # pc'[s].arg
    BY <2>9 DEF Reclaimed
  <2>. QED
    BY <2>5, <2>10, <2>11, <2>12, <2>13 DEF Reclaimed
<1>. QED
  BY <1>2, <1>3

\* rt_thread_idle_excute takes a thread off the defunct list.
LEMMA ReclaimedIdle ==
    ASSUME IInv, IInv', Reclaimed, rt_thread_idle_excute
    PROVE  Reclaimed'
<1>. DEFINE u == Head(k.defunct)
            j == rt_list_remove(k, u)
<1>1. /\ k.defunct # << >> /\ pc[Idle].at = "run" /\ Idle = k.cur /\ obj' = obj
      /\ pc' = pc \/ Goto(Idle, In("idle", "free", u))
  BY DEF rt_thread_idle_excute, Continues, Executes, Goto
<1>2. u \in Thread /\ u \in Range(k.defunct)
  <2>1. k.defunct \in Seq(Thread)
    BY TypeFacts DEF KernelState
  <2>. QED
    BY <1>1, <2>1, HeadInRange
<1>3. Schedules(j) /\ Range(j.defunct) = Range(k.defunct) \ {u}
  BY SchedulingIdle DEF Reclaimed
<1>. HIDE DEF u, j
<1>4. /\ k'.stat = j.stat /\ QueuesOnly(j, k')
      /\ k'.cur = k.cur \/ k'.stat[k'.cur] = READY
  BY <1>3, SchedulesFacts
<1>5. /\ IsInjective(k'.defunct) /\ Range(k'.defunct) \subseteq Range(k.defunct) \ {u}
      /\ \A s \in Thread : k'.stat[s] = CLOSE => k.stat[s] = CLOSE
  BY <1>3, <1>4, StatesDiffer DEF Schedules, QueuesOnly, Reclaimed
<1>6. PICK f : /\ \A s \in Thread : pc'[s] = IF s = Idle THEN f ELSE pc[s]
               /\ f.at = "run" \/ (f.at = "free" /\ f.arg = u)
  <2>1. CASE pc' = pc
    BY <1>1, <2>1
  <2>2. CASE Goto(Idle, In("idle", "free", u))
    <3>1. In("idle", "free", u).at = "free" /\ In("idle", "free", u).arg = u
      BY DEF In
    <3>. QED
      BY <2>2, <3>1, TypeFacts, FramesAfter
  <2>. QED
    BY <1>1, <2>1, <2>2
<1>7. Leaving' = Leaving
  BY <1>1, <1>6, LeavingSame
<1>8. \A s \in Leaving' : k'.stat[s] # CLOSE
  BY <1>5, <1>7, LeavingFacts DEF Reclaimed
<1>9. ASSUME NEW s \in Thread, obj'[s] = "freed"
      PROVE  s # k'.cur /\ s \notin Range(k'.defunct)
  <2>1. k'.stat[s] = CLOSE
    BY <1>9 DEF IInv, LifeInv
  <2>. QED
    BY <1>1, <1>4, <1>5, <1>9, <2>1, StatesDiffer DEF Reclaimed
<1>10. ASSUME NEW s \in Thread, pc'[s].at \in Final
       PROVE  /\ pc'[s].arg \notin Range(k'.defunct) /\ obj'[pc'[s].arg] # "freed"
              /\ s # Idle => pc'[s] = pc[s] /\ pc'[s].arg # u
  <2>1. CASE s = Idle
    BY <1>1, <1>2, <1>5, <1>6, <1>10, <2>1 DEF Reclaimed, Final
  <2>2. CASE s # Idle
    BY <1>1, <1>2, <1>5, <1>6, <1>10, <2>2 DEF Reclaimed
  <2>. QED
    BY <2>1, <2>2
<1>11. \A q, s \in Thread :
         q # s /\ pc'[q].at \in Final /\ pc'[s].at \in Final => pc'[q].arg # pc'[s].arg
  BY <1>6, <1>10 DEF Reclaimed, Final
<1>. QED
  BY <1>5, <1>8, <1>9, <1>10, <1>11 DEF Reclaimed

\* At the start nothing is closed and the defunct list is empty.
LEMMA InitReclaimed == Init => Reclaimed
<1>1. ASSUME Init
      PROVE  Reclaimed
  <2>1. /\ k.defunct = << >> /\ obj = InitObject
        /\ \A t \in Thread : pc[t].at = "run"
    BY <1>1, FrameFields DEF Init
  <2>2. IsInjective(<< >>) /\ Range(<< >>) = {}
    BY DEF IsInjective, Range
  <2>3. \A t \in Thread : obj[t] # "freed"
    BY <2>1 DEF InitObject
  <2>4. Leaving = {}
    BY <2>1 DEF Leaving
  <2>. QED
    BY <2>1, <2>2, <2>3, <2>4 DEF Reclaimed, Final
<1>. QED
  BY <1>1

\* Every step keeps who may be freed: only what is closed, off every queue, and
\* in no call of another thread.
LEMMA NextReclaimed ==
    ASSUME Disciplined, IInv, IInv', Reclaimed, [Next]_vars
    PROVE  Reclaimed'
<1>1. CASE \E t \in Thread : SelfCall(t)
  <2>1. PICK t \in Thread : SelfCall(t)
    BY <1>1
  <2>2. CASE rt_thread_yield(t)
    BY <2>2, SchedulingCalls, ReclaimedSchedules DEF rt_thread_yield
  <2>. QED
    BY <2>1, <2>2, ReclaimedSuspend, ReclaimedExit, ReclaimedCritical DEF SelfCall
<1>2. CASE \E t \in Thread : Continue(t)
  <2>1. PICK t \in Thread : Continue(t)
    BY <1>2
  <2>2. CASE Schedule(t) \/ SleepSchedule(t)
    <3>1. PICK f : Goto(t, f) /\ f.at \notin Acting
      <4>1. In("sleep", "woken", t).at = "woken" /\ Running(t).at = "run"
        BY DEF In, Running
      <4>. QED
        BY <2>2, <4>1 DEF Schedule, SleepSchedule, Acting
    <3>2. \A s \in Thread : pc'[s] = IF s = t THEN f ELSE pc[s]
      BY <3>1, FramesAfter
    <3>3. Schedules(k) /\ obj' = obj
      BY <2>2, SchedulingCalls DEF Schedule, SleepSchedule
    <3>. QED
      BY <3>1, <3>2, <3>3, ReclaimedSchedules
  <2>3. CASE ~(Schedule(t) \/ SleepSchedule(t))
    BY <2>1, <2>3, ReclaimedCritical, ReclaimedMoving, ReclaimedClose, ReclaimedFinal
       DEF Continue
  <2>. QED
    BY <2>2, <2>3
<1>3. CASE \E t, u \in Thread : TargetCall(t, u)
  BY <1>3, ReclaimedTarget
<1>4. CASE \E u \in Thread : DeviceInterrupt(u)
  <2>1. PICK u \in Thread : DeviceInterrupt(u)
    BY <1>4
  <2>2. \E j : Schedules(j)
    BY <2>1, SchedulingDevice
  <2>. QED
    BY <2>1, <2>2, ReclaimedSchedules DEF DeviceInterrupt
<1>5. CASE IdleLoop
  BY <1>5, ReclaimedIdle, ReclaimedFinal, TypeFacts DEF IdleLoop
<1>6. CASE ClockInterrupt \/ UNCHANGED vars
  <2>1. pc' = pc /\ obj' = obj
    BY <1>6 DEF ClockInterrupt, TickInterrupt, TimerFire, TimerCheckDone, vars
  <2>2. CASE \E j : Schedules(j)
    BY <2>1, <2>2, ReclaimedSchedules
  <2>3. CASE k'.stat = k.stat /\ k'.cur = k.cur /\ k'.defunct = k.defunct
    <3>1. DefunctShrinks(k, k')
      BY <2>3 DEF DefunctShrinks
    <3>2. \A s \in Thread : pc'[s].at \in {"timer", "close"} => pc'[s].arg \in Leaving
      BY <2>1 DEF Leaving
    <3>. QED
      BY <2>1, <2>3, <3>1, <3>2, ReclaimedKept
  <2>. QED
    BY <1>6, <2>2, <2>3, SchedulingTick, SchedulingTimer
       DEF ClockInterrupt, TimerCheckDone, vars
<1>. QED
  BY <1>1, <1>2, <1>3, <1>4, <1>5, <1>6 DEF Next

\* The memory that the idle thread gave back to the heap is in no list of the
\* kernel, and nobody runs on its stack.
THEOREM FreedIsUnused == Disciplined => (Spec => []NoUseAfterFree)
<1>1. IInv /\ Reclaimed => NoUseAfterFree
  <2>1. ASSUME IInv, Reclaimed, NEW t \in Thread, obj[t] = "freed"
        PROVE  /\ t # k.cur
               /\ t \notin Range(k.timers) \cup Range(k.defunct)
               /\ \A p \in Priority : t \notin Range(k.ready[p])
    <3>1. k.stat[t] = CLOSE /\ KInv(k, Leaving)
      BY <2>1 DEF IInv, LifeInv
    <3>2. t \notin Range(k.timers) /\ \A p \in Priority : t \notin Range(k.ready[p])
      BY <3>1, StatesDiffer, QueueFacts DEF KInv
    <3>. QED
      BY <2>1, <3>2 DEF Reclaimed
  <2>. QED
    BY <2>1 DEF NoUseAfterFree
<1>2. ASSUME Disciplined
      PROVE  IInv /\ IInv' /\ Reclaimed /\ [Next]_vars => Reclaimed'
  BY <1>2, NextReclaimed
<1>3. ASSUME Disciplined
      PROVE  Spec => []NoUseAfterFree
  BY <1>1, <1>2, <1>3, InitReclaimed, InductiveInvariant, PTL DEF Spec
<1>. QED
  BY <1>3

-----------------------------------------------------------------------------
(* Sleeping threads and the clock *)

\* The horizon of the circular comparison is less than half of the range.
LEMMA HalfRange ==
    /\ HALF_RANGE \in Nat /\ HALF_RANGE >= 2 /\ TICK_RANGE \in Nat
    /\ 2 * HALF_RANGE <= TICK_RANGE - 1
  BY KernelConstants DEF HALF_RANGE

\* The unsigned subtractions of timer.c, for arguments no further apart than
\* the range of rt_tick.
LEMMA ModRange ==
    ASSUME NEW x \in Int
    PROVE  /\ x \in 0 .. TICK_RANGE - 1 => x % TICK_RANGE = x
           /\ x \in -TICK_RANGE .. -1 => x % TICK_RANGE = x + TICK_RANGE
           /\ x \in TICK_RANGE .. 2 * TICK_RANGE - 1 => x % TICK_RANGE = x - TICK_RANGE
<1>1. TICK_RANGE \in Nat /\ TICK_RANGE > 0
  BY KernelConstants
<1>. QED
  BY <1>1

\* Ticks until the timer of each thread expires, seen from rt_tick: a deadline
\* at most one tick ago or in the comparison's horizon.
Lag(j) == [t \in Thread |->
    LET d == j.deadline[t] - j.tick
    IN  IF d > HALF_RANGE - 1 THEN d - TICK_RANGE
        ELSE IF d < -1 THEN d + TICK_RANGE ELSE d]

\* The timer list is sorted by what is left of each timer, nothing has been
\* due for longer than the interrupt that is in progress, and the history
\* variable due counts the ticks left; earliest is -1 during that interrupt.
Timely(j, earliest) ==
    /\ \A t \in Range(j.timers) :
         /\ Lag(j)[t] \in earliest .. HALF_RANGE - 1
         /\ j.due[t] = IF Lag(j)[t] = earliest THEN earliest + 1 ELSE Lag(j)[t]
    /\ Sorted(Lag(j), j.timers)

Earliest == IF isr = "timer" THEN -1 ELSE 0

-----------------------------------------------------------------------------

\* The record u has the timers of j.
TimersSame(j, u) ==
    u.timers = j.timers /\ u.tick = j.tick /\ u.deadline = j.deadline /\ u.due = j.due

\* The record u has the timers of j, one of them stopped.
TimersStopped(j, u) ==
    \/ TimersSame(j, u)
    \/ \E t \in Thread :
         /\ u.timers = RemoveFirst(j.timers, t) /\ u.tick = j.tick
         /\ u.deadline = [j.deadline EXCEPT ![t] = 0] /\ u.due = [j.due EXCEPT ![t] = 0]

\* The types the timers have.
LEMMA TimerTypes ==
    ASSUME NEW j \in KernelState
    PROVE  /\ j.timers \in Seq(Thread) /\ j.tick \in 0 .. TICK_RANGE - 1
           /\ j.deadline \in [Thread -> 0 .. TICK_RANGE - 1] /\ j.due \in [Thread -> Int]
           /\ Lag(j) \in [Thread -> Int]
<1>1. /\ j.timers \in Seq(Thread) /\ j.tick \in 0 .. TICK_RANGE - 1
      /\ j.deadline \in [Thread -> 0 .. TICK_RANGE - 1] /\ j.due \in [Thread -> Int]
  BY DEF KernelState, Tick
<1>2. ASSUME NEW t \in Thread
      PROVE  j.deadline[t] \in Int /\ j.tick \in Int
  BY <1>1, HalfRange
<1>. QED
  BY <1>1, <1>2, HalfRange DEF Lag

\* What a list holds.
LEMMA ListElements ==
    ASSUME NEW T, NEW s \in Seq(T)
    PROVE  /\ \A i \in DOMAIN s : s[i] \in Range(s) /\ s[i] \in T
           /\ \A x \in Range(s) : x \in T /\ \E i \in DOMAIN s : s[i] = x
  BY LenProperties, ElementOfSeq DEF Range

\* Stopping a timer leaves the others sorted and in time.
LEMMA TimelyStopped ==
    ASSUME NEW j \in KernelState, NEW u \in KernelState, NEW e \in {-1, 0},
           IsInjective(j.timers), Timely(j, e), TimersStopped(j, u)
    PROVE  Timely(u, e)
<1>1. CASE TimersSame(j, u)
  <2>1. Lag(u) = Lag(j)
    BY <1>1 DEF Lag, TimersSame
  <2>. QED
    BY <1>1, <2>1 DEF Timely, TimersSame
<1>2. CASE ~TimersSame(j, u)
  <2>1. PICK t \in Thread :
         /\ u.timers = RemoveFirst(j.timers, t) /\ u.tick = j.tick
         /\ u.deadline = [j.deadline EXCEPT ![t] = 0] /\ u.due = [j.due EXCEPT ![t] = 0]
    BY <1>2 DEF TimersStopped
  <2>2. /\ u.timers \in Seq(Thread) /\ Range(u.timers) = Range(j.timers) \ {t}
        /\ Sublist(u.timers, j.timers)
    BY <2>1, TimerTypes, RemoveFirstOnce, RemoveFirstSublist
  <2>3. \A s \in Thread \ {t} : Lag(u)[s] = Lag(j)[s] /\ u.due[s] = j.due[s]
    BY <2>1, TimerTypes DEF Lag
  <2>4. \A s \in Range(u.timers) : s \in Thread \ {t}
    BY <2>2, ListElements
  <2>5. Sorted(Lag(u), u.timers)
    <3>. SUFFICES ASSUME NEW m \in DOMAIN u.timers, NEW n \in DOMAIN u.timers, m <= n
                  PROVE  Lag(u)[u.timers[m]] <= Lag(u)[u.timers[n]]
      BY DEF Sorted
    <3>1. PICK a \in DOMAIN j.timers, b \in DOMAIN j.timers :
             a <= b /\ j.timers[a] = u.timers[m] /\ j.timers[b] = u.timers[n]
      BY <2>2 DEF Sublist
    <3>2. Lag(j)[j.timers[a]] <= Lag(j)[j.timers[b]]
      BY <3>1 DEF Timely, Sorted
    <3>3. u.timers[m] \in Thread \ {t} /\ u.timers[n] \in Thread \ {t}
      BY <2>2, <2>4, ListElements
    <3>. QED
      BY <2>3, <3>1, <3>2, <3>3
  <2>. QED
    BY <2>2, <2>3, <2>4, <2>5 DEF Timely
<1>. QED
  BY <1>1, <1>2

\* What the circular comparison of rt_timer_start says of a timer in the list:
\* it expires strictly later than one started now for n ticks.
LEMMA LaterByLag ==
    ASSUME NEW j \in KernelState, Timely(j, 0), NEW s \in Range(j.timers),
           NEW n \in 0 .. HALF_RANGE - 1
    PROVE  TickDiff(j.deadline[s], (j.tick + n) % TICK_RANGE) \in 1 .. HALF_RANGE - 1
               <=> Lag(j)[s] > n
<1>. DEFINE R == TICK_RANGE
            H == HALF_RANGE
            d == j.deadline[s]
            c == j.tick
            m == (c + n) % R
            l == Lag(j)[s]
<1>1. /\ s \in Thread /\ d \in 0 .. R - 1 /\ c \in 0 .. R - 1
      /\ R \in Nat /\ H \in Nat /\ H >= 2 /\ 2 * H <= R - 1
  BY TimerTypes, ListElements, HalfRange
<1>2. l \in 0 .. H - 1
  BY DEF Timely
<1>3. l = IF d - c > H - 1 THEN d - c - R ELSE IF d - c < -1 THEN d - c + R ELSE d - c
  BY <1>1 DEF Lag
<1>4. /\ c + n <= R - 1 => m = c + n
      /\ c + n > R - 1 => m = c + n - R
  <2>. DEFINE x == c + n
  <2>1. /\ x \in Int
        /\ x <= R - 1 => x \in 0 .. R - 1
        /\ x > R - 1 => x \in R .. 2 * R - 1
    <3>. HIDE DEF c, R
    <3>. QED
      BY <1>1 DEF H
  <2>. HIDE DEF x
  <2>2. /\ x <= R - 1 => x % R = x
        /\ x > R - 1 => x % R = x - R
    BY <2>1, ModRange
  <2>. HIDE DEF c, R, m
  <2>. QED
    BY <1>1, <2>2 DEF x, m
<1>. HIDE DEF m, l, d, c
<1>5. m \in 0 .. R - 1 /\ d - m \in -R .. R - 1
  BY <1>1, <1>4
<1>6. /\ d - m >= 0 => TickDiff(d, m) = d - m
      /\ d - m < 0 => TickDiff(d, m) = d - m + R
  BY <1>1, <1>5, ModRange DEF TickDiff
<1>. HIDE DEF R, H
<1>7. TickDiff(d, m) = l - n \/ TickDiff(d, m) = l - n + R
  BY <1>1, <1>2, <1>3, <1>4, <1>5, <1>6 DEF H
<1>8. /\ l >= n => TickDiff(d, m) = l - n
      /\ l < n => TickDiff(d, m) = l - n + R
  BY <1>1, <1>2, <1>3, <1>4, <1>5, <1>6 DEF H
<1>9. TickDiff(d, m) \in 1 .. H - 1 <=> l > n
  BY <1>1, <1>2, <1>8 DEF H
<1>. QED
  BY <1>9 DEF m, l, d, c, R, H

\* What the loop condition of rt_timer_check says of the first timer.
LEMMA DueByLag ==
    ASSUME NEW j \in KernelState, NEW e \in {-1, 0}, Timely(j, e), j.timers # << >>
    PROVE  TimerDue(j) <=> Lag(j)[Head(j.timers)] <= 0
<1>. DEFINE R == TICK_RANGE
            H == HALF_RANGE
            s == Head(j.timers)
            d == j.deadline[s]
            c == j.tick
            l == Lag(j)[s]
<1>1. /\ s \in Thread /\ s \in Range(j.timers) /\ d \in 0 .. R - 1 /\ c \in 0 .. R - 1
      /\ R \in Nat /\ H \in Nat /\ H >= 2 /\ 2 * H <= R - 1
  BY TimerTypes, HeadInRange, HalfRange
<1>2. l \in -1 .. H - 1
  BY <1>1 DEF Timely
<1>3. l = IF d - c > H - 1 THEN d - c - R ELSE IF d - c < -1 THEN d - c + R ELSE d - c
  BY <1>1 DEF Lag
<1>. HIDE DEF l, d, c, s
<1>4. /\ c - d \in Int
      /\ c - d >= 0 => c - d \in 0 .. R - 1
      /\ c - d < 0 => c - d \in -R .. -1
  <2>. HIDE DEF R
  <2>. QED
    BY <1>1
<1>5. /\ c - d >= 0 => TickDiff(c, d) = c - d
      /\ c - d < 0 => TickDiff(c, d) = c - d + R
  BY <1>4, ModRange DEF TickDiff
<1>6. TickDiff(c, d) < H <=> l <= 0
  <2>. HIDE DEF R, H
  <2>. QED
    BY <1>1, <1>2, <1>3, <1>4, <1>5 DEF H
<1>. QED
  BY <1>6 DEF TimerDue, s, d, c, l

\* rt_timer_start links the timer of a sleep behind those that expire no later
\* and before those that expire later, wherever rt_tick stands.
LEMMA TimelyStarted ==
    ASSUME NEW j \in KernelState, IsInjective(j.timers), Timely(j, 0),
           NEW t \in Thread, NEW n \in 0 .. HALF_RANGE - 1
    PROVE  Timely(rt_timer_start(j, t, n), 0)
<1>. DEFINE v == rt_timer_stop(j, t)
            u == rt_timer_start(j, t, n)
            others == RemoveFirst(j.timers, t)
            timeout_tick == (j.tick + n) % TICK_RANGE
            Later(s) == TickDiff(j.deadline[s], timeout_tick) \in 1 .. HALF_RANGE - 1
            hits == {i \in 1 .. Len(others) : Later(others[i])}
            position == PositionBefore(others, Later)
            due == IF n = 0 THEN 1 ELSE n
            L == Lag(u)
<1>1. /\ j.timers \in Seq(Thread) /\ j.tick \in 0 .. TICK_RANGE - 1
      /\ j.deadline \in [Thread -> 0 .. TICK_RANGE - 1] /\ j.due \in [Thread -> Int]
      /\ n \in Nat /\ TICK_RANGE \in Nat /\ HALF_RANGE \in Nat /\ HALF_RANGE >= 2
      /\ 2 * HALF_RANGE <= TICK_RANGE - 1
  BY TimerTypes, HalfRange
<1>2. /\ others \in Seq(Thread) /\ IsInjective(others)
      /\ Range(others) = Range(j.timers) \ {t}
  BY <1>1, RemoveFirstOnce
<1>3. v \in KernelState /\ TimersStopped(j, v) /\ v.timers = others
  <2>1. v \in KernelState
    BY TimerStopFields
  <2>2. /\ v.timers = others /\ v.tick = j.tick
        /\ v.deadline = [j.deadline EXCEPT ![t] = 0] /\ v.due = [j.due EXCEPT ![t] = 0]
    BY <1>1 DEF rt_timer_stop, KernelState
  <2>. HIDE DEF v, others
  <2>. QED
    BY <2>1, <2>2 DEF TimersStopped, others
<1>4. Timely(v, 0)
  <2>. HIDE DEF v, others
  <2>. QED
    BY <1>3, TimelyStopped
<1>5. /\ u.timers = InsertAt(others, position, t) /\ u.tick = j.tick
      /\ u.deadline = [j.deadline EXCEPT ![t] = timeout_tick]
      /\ u.due = [j.due EXCEPT ![t] = due]
  BY <1>1 DEF rt_timer_start, KernelState
<1>6. position = IF hits = {} THEN Len(others) + 1 ELSE Min(hits)
  BY DEF PositionBefore
<1>7. Len(others) \in Nat /\ DOMAIN others = 1 .. Len(others)
  BY <1>2, LenProperties
<1>8. /\ timeout_tick \in 0 .. TICK_RANGE - 1
      /\ timeout_tick = j.tick + n \/ timeout_tick = j.tick + n - TICK_RANGE
  <2>. DEFINE x == j.tick + n
  <2>1. /\ x \in Int
        /\ x \in 0 .. TICK_RANGE - 1 \/ x \in TICK_RANGE .. 2 * TICK_RANGE - 1
    BY <1>1
  <2>2. timeout_tick = x % TICK_RANGE
    OBVIOUS
  <2>. HIDE DEF x, timeout_tick
  <2>3. CASE x \in 0 .. TICK_RANGE - 1
    <3>1. x % TICK_RANGE = x
      BY <2>1, <2>3, ModRange
    <3>. QED
      BY <2>2, <2>3, <3>1 DEF x
  <2>4. CASE x \in TICK_RANGE .. 2 * TICK_RANGE - 1
    <3>1. x % TICK_RANGE = x - TICK_RANGE
      BY <2>1, <2>4, ModRange
    <3>2. timeout_tick = x - TICK_RANGE
      BY <2>2, <3>1
    <3>. QED
      BY <1>1, <2>1, <2>4, <3>2, SMTT(60) DEF x
  <2>. QED
    BY <2>1, <2>3, <2>4
<1>. HIDE DEF v, u, others, timeout_tick, hits, position, due
<1>9. /\ L \in [Thread -> Int]
      /\ L[t] = n
      /\ \A s \in Thread \ {t} : L[s] = Lag(j)[s] /\ Lag(v)[s] = Lag(j)[s]
  <2>1. u.deadline[t] = timeout_tick
    BY <1>1, <1>5
  <2>2. L[t] = LET d == timeout_tick - j.tick
               IN  IF d > HALF_RANGE - 1 THEN d - TICK_RANGE
                   ELSE IF d < -1 THEN d + TICK_RANGE ELSE d
    BY <1>5, <2>1 DEF Lag
  <2>3. L[t] = n
    BY <1>1, <1>8, <2>2
  <2>4. \A s \in Thread \ {t} : L[s] = Lag(j)[s]
    BY <1>1, <1>5 DEF Lag
  <2>5. \A s \in Thread \ {t} : Lag(v)[s] = Lag(j)[s]
    BY <1>1 DEF Lag, v, rt_timer_stop, KernelState
  <2>6. \A s \in Thread : Lag(j)[s] \in Int
    BY TimerTypes
  <2>7. L = [s \in Thread |-> L[s]]
    BY DEF Lag
  <2>. HIDE DEF L
  <2>8. ASSUME NEW s \in Thread
        PROVE  L[s] \in Int
    <3>1. CASE s = t
      BY <1>1, <2>3, <3>1
    <3>2. CASE s # t
      BY <2>4, <2>6, <3>2
    <3>. QED
      BY <3>1, <3>2
  <2>9. L \in [Thread -> Int]
    BY <2>7, <2>8
  <2>. QED
    BY <2>3, <2>4, <2>5, <2>9
<1>. HIDE DEF L
<1>10. \A i \in 1 .. Len(others) :
         others[i] \in Thread \ {t} /\ others[i] \in Range(j.timers)
  BY <1>2, <1>7, ListElements
<1>11. \A i \in 1 .. Len(others) : i \in hits <=> L[others[i]] > n
  BY <1>9, <1>10, LaterByLag DEF hits, timeout_tick
<1>12. \A a, b \in 1 .. Len(others) : a <= b => L[others[a]] <= L[others[b]]
  BY <1>3, <1>4, <1>7, <1>9, <1>10 DEF Timely, Sorted
<1>13. /\ position \in 1 .. Len(others) + 1
       /\ \A i \in 1 .. position - 1 : i \in 1 .. Len(others) /\ i \notin hits
       /\ \A i \in position .. Len(others) : position \in hits /\ position \in 1 .. Len(others)
  <2>1. hits \subseteq 1 .. Len(others) /\ hits \in SUBSET Nat
    BY <1>7 DEF hits
  <2>2. CASE hits = {}
    BY <1>6, <1>7, <2>2
  <2>3. CASE hits # {}
    <3>1. position \in hits /\ \A y \in hits : position <= y
      BY <1>6, <2>1, <2>3, MinOfNat
    <3>. QED
      BY <1>7, <2>1, <3>1
  <2>. QED
    BY <2>2, <2>3
<1>14. /\ \A i \in 1 .. position - 1 : L[others[i]] <= L[t]
       /\ \A i \in position .. Len(others) : L[t] <= L[others[i]]
  <2>1. \A i \in 1 .. Len(others) : L[others[i]] \in Int
    BY <1>9, <1>10
  <2>2. ASSUME NEW i \in 1 .. position - 1
        PROVE  L[others[i]] <= L[t]
    BY <1>1, <1>9, <1>11, <1>13, <2>1
  <2>3. ASSUME NEW i \in position .. Len(others)
        PROVE  L[t] <= L[others[i]]
    <3>1. position \in 1 .. Len(others) /\ i \in 1 .. Len(others) /\ position <= i
      BY <1>7, <1>13
    <3>2. L[others[position]] > n /\ L[others[position]] <= L[others[i]]
      BY <1>11, <1>12, <1>13, <3>1
    <3>. QED
      BY <1>1, <1>9, <2>1, <3>1, <3>2
  <2>. QED
    BY <2>2, <2>3
<1>15. Sorted(L, others)
  BY <1>7, <1>12 DEF Sorted
<1>16. Sorted(L, u.timers)
  <2>1. L \in [Thread -> Int] /\ position \in 1 .. Len(others) + 1
    BY <1>9, <1>13
  <2>2. Sorted(L, InsertAt(others, position, t))
    BY <1>2, <1>14, <1>15, <2>1, InsertAtSorted
  <2>. QED
    BY <1>5, <2>2
<1>17. Range(u.timers) = (Range(j.timers) \ {t}) \cup {t}
  BY <1>2, <1>5, <1>13, InsertAtOnce
<1>18. ASSUME NEW s \in Range(u.timers)
       PROVE  /\ L[s] \in 0 .. HALF_RANGE - 1
              /\ u.due[s] = IF L[s] = 0 THEN 1 ELSE L[s]
  <2>1. CASE s = t
    BY <1>1, <1>5, <1>9, <2>1 DEF due
  <2>2. CASE s # t
    <3>1. s \in Range(j.timers) /\ s \in Thread
      BY <1>1, <1>17, <2>2, ListElements
    <3>2. L[s] = Lag(j)[s] /\ u.due[s] = j.due[s]
      BY <1>1, <1>5, <1>9, <2>2, <3>1
    <3>3. Lag(j)[s] \in 0 .. HALF_RANGE - 1 /\ j.due[s] = IF Lag(j)[s] = 0 THEN 1 ELSE Lag(j)[s]
      BY <3>1 DEF Timely
    <3>. QED
      BY <3>2, <3>3
  <2>. QED
    BY <2>1, <2>2
<1>. QED
  BY <1>16, <1>18 DEF Timely, L, u

-----------------------------------------------------------------------------
(* What each function does to the timers *)

\* Stopping a timer, in a record with the timers of j.
LEMMA StopsTimer ==
    ASSUME NEW j, NEW m \in KernelState, NEW t \in Thread, TimersSame(j, m)
    PROVE  TimersStopped(j, rt_timer_stop(m, t)) /\ rt_timer_stop(m, t) \in KernelState
<1>1. /\ rt_timer_stop(m, t).timers = RemoveFirst(m.timers, t)
      /\ rt_timer_stop(m, t).tick = m.tick
      /\ rt_timer_stop(m, t).deadline = [m.deadline EXCEPT ![t] = 0]
      /\ rt_timer_stop(m, t).due = [m.due EXCEPT ![t] = 0]
  BY DEF rt_timer_stop, KernelState
<1>. QED
  BY <1>1, TimerStopFields, ZenonT(60) DEF TimersStopped, TimersSame

\* What the scheduler changes after that stops no other timer.
LEMMA StoppedThen ==
    ASSUME NEW j, NEW m, NEW u, TimersStopped(j, m), TimersSame(m, u)
    PROVE  TimersStopped(j, u)
  BY DEF TimersStopped, TimersSame

\* The functions that act on one thread stop its timer or none.
LEMMA ActingStops ==
    ASSUME NEW j \in KernelState, NEW t \in Thread
    PROVE  /\ TimersStopped(j, rt_thread_suspend(j, t))
           /\ rt_thread_suspend(j, t) \in KernelState
           /\ TimersStopped(j, ResumeDetach(j, t)) /\ ResumeDetach(j, t) \in KernelState
           /\ TimersStopped(j, rt_thread_resume(j, t))
           /\ \A p \in Priority : TimersSame(j, ChangePriority(j, t, p))
           /\ TimersStopped(j, rt_timer_stop([rt_schedule_remove_thread(j, t)
                                                EXCEPT !.stat[t] = CLOSE], t))
<1>1. TimersStopped(j, rt_thread_suspend(j, t)) /\ rt_thread_suspend(j, t) \in KernelState
  <2>. DEFINE v == [j EXCEPT !.stat[t] = SUSPEND]
              w == rt_schedule_remove_thread(v, t)
  <2>1. v \in KernelState /\ TimersSame(j, v)
    BY StatesDiffer DEF KernelState, TimersSame
  <2>2. rt_thread_suspend(j, t) = IF j.stat[t] # READY THEN j ELSE rt_timer_stop(w, t)
    BY DEF rt_thread_suspend
  <2>. HIDE DEF v
  <2>3. QueuesOnly(v, w)
    BY <2>1, RemoveOnly
  <2>. HIDE DEF w
  <2>4. w \in KernelState /\ TimersSame(j, w)
    BY <2>1, <2>3 DEF QueuesOnly, TimersSame
  <2>5. TimersStopped(j, j)
    BY DEF TimersStopped, TimersSame
  <2>. QED
    BY <2>2, <2>4, <2>5, StopsTimer
<1>2. TimersStopped(j, ResumeDetach(j, t)) /\ ResumeDetach(j, t) \in KernelState
  <2>. DEFINE w == rt_list_remove(j, t)
  <2>1. QueuesOnly(j, w) /\ ResumeDetach(j, t) = rt_timer_stop(w, t)
    BY ListRemoveOnly DEF ResumeDetach
  <2>. HIDE DEF w
  <2>2. w \in KernelState /\ TimersSame(j, w)
    BY <2>1 DEF QueuesOnly, TimersSame
  <2>. QED
    BY <2>1, <2>2, StopsTimer
<1>3. TimersStopped(j, rt_thread_resume(j, t))
  <2>. DEFINE m == ResumeDetach(j, t)
  <2>1. rt_thread_resume(j, t) = IF j.stat[t] # SUSPEND THEN j
                                 ELSE rt_schedule_insert_thread(m, t)
    BY DEF rt_thread_resume
  <2>. HIDE DEF m
  <2>2. m \in KernelState /\ TimersStopped(j, m)
    BY <1>2 DEF m
  <2>3. TimersSame(m, rt_schedule_insert_thread(m, t))
    BY <2>2, InsertOnly DEF QueuesOnly, TimersSame
  <2>4. TimersStopped(j, j)
    BY DEF TimersStopped, TimersSame
  <2>. QED
    BY <2>1, <2>2, <2>3, <2>4, StoppedThen
<1>4. ASSUME NEW p \in Priority
      PROVE  TimersSame(j, ChangePriority(j, t, p))
  <2>. DEFINE w == rt_schedule_remove_thread(j, t)
              q == [w EXCEPT !.prio[t] = p]
  <2>1. QueuesOnly(j, w)
    BY RemoveOnly
  <2>2. ChangePriority(j, t, p) = IF j.stat[t] = READY
          THEN rt_schedule_insert_thread(q, t) ELSE [j EXCEPT !.prio[t] = p]
    BY DEF ChangePriority
  <2>. HIDE DEF w
  <2>3. q \in KernelState /\ TimersSame(w, q)
    BY <2>1 DEF QueuesOnly, KernelState, TimersSame
  <2>. HIDE DEF q
  <2>4. TimersSame(q, rt_schedule_insert_thread(q, t))
    BY <2>3, InsertOnly DEF QueuesOnly, TimersSame
  <2>5. TimersSame(j, [j EXCEPT !.prio[t] = p])
    BY DEF KernelState, TimersSame
  <2>. QED
    BY <2>1, <2>2, <2>3, <2>4, <2>5 DEF QueuesOnly, TimersSame
<1>5. TimersStopped(j, rt_timer_stop([rt_schedule_remove_thread(j, t)
                                        EXCEPT !.stat[t] = CLOSE], t))
  <2>. DEFINE w == rt_schedule_remove_thread(j, t)
              v == [w EXCEPT !.stat[t] = CLOSE]
  <2>1. QueuesOnly(j, w)
    BY RemoveOnly
  <2>. HIDE DEF w
  <2>2. v \in KernelState /\ TimersSame(j, v)
    BY <2>1, StatesDiffer DEF QueuesOnly, KernelState, TimersSame
  <2>. HIDE DEF v
  <2>3. TimersStopped(j, rt_timer_stop(v, t))
    BY <2>2, StopsTimer
  <2>. QED
    BY <2>3 DEF v, w
<1>. QED
  BY <1>1, <1>2, <1>3, <1>4, <1>5

\* rt_schedule touches no timer.
LEMMA ScheduleTimers ==
    ASSUME NEW leaving, NEW j, KInv(j, leaving)
    PROVE  TimersSame(j, rt_schedule(j))
  BY ScheduleOnly DEF QueuesOnly, TimersSame

-----------------------------------------------------------------------------
(* What each step does to the timers *)

\* The calls on the calling thread: a suspended or a closed thread has no timer.
LEMMA SelfCallStops ==
    ASSUME IInv, NEW t \in Thread, SelfCall(t), ~rt_thread_sleep(t)
    PROVE  TimersStopped(k, k') /\ isr' = isr
<1>1. KInv(k, Leaving) /\ k \in KernelState
  BY TypeFacts DEF IInv
<1>2. CASE rt_thread_yield(t)
  BY <1>1, <1>2, ScheduleTimers DEF rt_thread_yield, TimersStopped
<1>3. CASE SuspendSelf(t)
  BY <1>1, <1>3, ActingStops DEF SuspendSelf
<1>4. CASE rt_thread_exit(t)
  <2>. DEFINE c == rt_timer_stop([rt_schedule_remove_thread(k, t)
                                     EXCEPT !.stat[t] = CLOSE], t)
  <2>1. /\ isr' = isr
        /\ k' = c \/ k' = [c EXCEPT !.defunct = <<t>> \o @]
    BY <1>4 DEF rt_thread_exit
  <2>2. TimersStopped(k, c)
    BY <1>1, ActingStops
  <2>3. c \in KernelState
    <3>. DEFINE w == rt_schedule_remove_thread(k, t)
                v == [w EXCEPT !.stat[t] = CLOSE]
    <3>1. QueuesOnly(k, w)
      BY <1>1, RemoveOnly
    <3>. HIDE DEF w
    <3>2. v \in KernelState
      BY <3>1, StatesDiffer DEF QueuesOnly, KernelState
    <3>. HIDE DEF v
    <3>3. rt_timer_stop(v, t) \in KernelState
      BY <3>2, TimerStopFields
    <3>. QED
      BY <3>3 DEF v, w
  <2>. HIDE DEF c
  <2>4. TimersSame(c, [c EXCEPT !.defunct = <<t>> \o @])
    BY <2>3 DEF KernelState, TimersSame
  <2>. QED
    BY <2>1, <2>2, <2>4, StoppedThen
<1>5. CASE rt_enter_critical(t) \/ rt_exit_critical(t)
  <2>1. TimersSame(k, k') /\ isr' = isr
    BY <1>1, <1>5 DEF rt_enter_critical, rt_exit_critical, KernelState, TimersSame
  <2>. QED
    BY <2>1 DEF TimersStopped
<1>. QED
  BY <1>2, <1>3, <1>4, <1>5 DEF SelfCall

\* The calls on another thread.
LEMMA TargetCallStops ==
    ASSUME IInv, NEW t \in Thread, NEW u \in Thread, TargetCall(t, u)
    PROVE  TimersStopped(k, k') /\ isr' = isr
<1>1. KInv(k, Leaving) /\ k \in KernelState
  BY TypeFacts DEF IInv
<1>2. CASE rt_thread_init(t, u) \/ rt_thread_startup(t, u) \/ rt_thread_resume_call(t, u)
  <2>1. TimersSame(k, k') /\ isr' = isr
    BY <1>1, <1>2 DEF rt_thread_init, rt_thread_startup, rt_thread_resume_call,
                      KernelState, TimersSame
  <2>. QED
    BY <2>1 DEF TimersStopped
<1>3. CASE rt_thread_control(t, u)
  <2>1. isr' = isr
    BY <1>3 DEF rt_thread_control
  <2>2. PICK p \in NewPriority : k' = [ChangePriority(k, u, p) EXCEPT !.owed = TRUE]
    BY <1>3 DEF rt_thread_control
  <2>3. p \in Priority
    BY <2>2, ThreadsConstants
  <2>4. TimersSame(k, ChangePriority(k, u, p))
    BY <1>1, <2>3, ActingStops
  <2>5. ChangePriority(k, u, p) \in KernelState
    <3>. DEFINE w == rt_schedule_remove_thread(k, u)
                q == [w EXCEPT !.prio[u] = p]
    <3>1. QueuesOnly(k, w)
      BY <1>1, RemoveOnly
    <3>2. ChangePriority(k, u, p) = IF k.stat[u] = READY
            THEN rt_schedule_insert_thread(q, u) ELSE [k EXCEPT !.prio[u] = p]
      BY DEF ChangePriority
    <3>. HIDE DEF w
    <3>3. q \in KernelState
      BY <2>3, <3>1 DEF QueuesOnly, KernelState
    <3>. HIDE DEF q
    <3>4. rt_schedule_insert_thread(q, u) \in KernelState
      BY <3>3, InsertOnly DEF QueuesOnly
    <3>5. [k EXCEPT !.prio[u] = p] \in KernelState
      BY <1>1, <2>3 DEF KernelState
    <3>. QED
      BY <3>2, <3>4, <3>5
  <2>. DEFINE c == ChangePriority(k, u, p)
  <2>. HIDE DEF c
  <2>6. TimersSame(c, [c EXCEPT !.owed = TRUE])
    BY <2>5 DEF c, KernelState, TimersSame
  <2>. QED
    BY <2>1, <2>2, <2>4, <2>6 DEF c, TimersStopped, TimersSame
<1>4. CASE rt_thread_delete(t, u)
  <2>1. isr' = isr /\ (k' = k \/ k' = rt_schedule_remove_thread(k, u))
    BY <1>4 DEF rt_thread_delete
  <2>2. TimersSame(k, rt_schedule_remove_thread(k, u)) /\ TimersSame(k, k)
    BY <1>1, RemoveOnly DEF QueuesOnly, TimersSame
  <2>. QED
    BY <2>1, <2>2 DEF TimersStopped
<1>. QED
  BY <1>2, <1>3, <1>4 DEF TargetCall

\* The later sections of the calls.
LEMMA ContinueStops ==
    ASSUME IInv, NEW t \in Thread, Continue(t)
    PROVE  TimersStopped(k, k') /\ isr' = isr
<1>1. KInv(k, Leaving) /\ k \in KernelState /\ pc[t].arg \in Thread
  BY TypeFacts DEF IInv
<1>. DEFINE u == pc[t].arg
<1>2. CASE Schedule(t) \/ SleepSchedule(t)
  BY <1>1, <1>2, ScheduleTimers DEF Schedule, SleepSchedule, TimersStopped
<1>3. CASE SleepReturn(t) \/ DeleteCloseStep(t) \/ DetachObjectStep(t) \/ DefunctStep(t)
  <2>1. TimersSame(k, k') /\ isr' = isr
    BY <1>1, <1>3 DEF SleepReturn, DeleteCloseStep, DetachObjectStep, DefunctStep,
                      KernelState, TimersSame
  <2>. QED
    BY <2>1 DEF TimersStopped
<1>4. CASE ResumeDetachStep(t) \/ DeleteTimerStep(t)
  <2>1. isr' = isr /\ (k' = ResumeDetach(k, u) \/ k' = rt_timer_stop(k, u))
    BY <1>4 DEF ResumeDetachStep, DeleteTimerStep
  <2>2. TimersSame(k, k)
    BY DEF TimersSame
  <2>. HIDE DEF u
  <2>. QED
    BY <1>1, <2>1, <2>2, ActingStops, StopsTimer DEF u
<1>5. CASE StartupInsertStep(t) \/ ResumeInsertStep(t)
  <2>. DEFINE c == rt_schedule_insert_thread(k, u)
  <2>1. isr' = isr /\ (k' = c \/ k' = [c EXCEPT !.owed = TRUE])
    BY <1>5 DEF StartupInsertStep, ResumeInsertStep
  <2>2. QueuesOnly(k, c)
    BY <1>1, InsertOnly
  <2>. HIDE DEF c
  <2>3. TimersSame(k, k')
    BY <2>1, <2>2 DEF QueuesOnly, KernelState, TimersSame
  <2>. QED
    BY <2>1, <2>3 DEF TimersStopped
<1>. QED
  BY <1>2, <1>3, <1>4, <1>5 DEF Continue

\* The idle thread, and an interrupt that wakes a thread.
LEMMA OthersStop ==
    ASSUME IInv, Disciplined, IdleLoop \/ \E u \in Thread : DeviceInterrupt(u)
    PROVE  TimersStopped(k, k') /\ isr' = isr
<1>1. KInv(k, Leaving) /\ k \in KernelState
  BY TypeFacts DEF IInv
<1>2. CASE IdleFreeStep
  BY <1>2 DEF IdleFreeStep, TimersStopped, TimersSame
<1>3. CASE rt_thread_idle_excute
  <2>. DEFINE j == rt_list_remove(k, Head(k.defunct))
  <2>1. Schedules(j) /\ isr' = isr /\ k' = rt_schedule(j)
    BY <1>3, SchedulingIdle DEF rt_thread_idle_excute
  <2>2. TimersSame(k, j)
    <3>1. k.defunct \in Seq(Thread) /\ k.defunct # << >>
      BY <1>1, <1>3 DEF KernelState, rt_thread_idle_excute
    <3>2. Head(k.defunct) \in Thread
      BY <3>1, HeadInRange
    <3>. QED
      BY <1>1, <3>2, ListRemoveOnly DEF QueuesOnly, TimersSame
  <2>. HIDE DEF j
  <2>3. TimersSame(j, k')
    BY <2>1, ScheduleTimers DEF Schedules
  <2>. QED
    BY <2>1, <2>2, <2>3 DEF TimersStopped, TimersSame
<1>4. CASE \E u \in Thread : DeviceInterrupt(u)
  <2>1. PICK u \in Thread : DeviceInterrupt(u)
    BY <1>4
  <2>. DEFINE j == rt_thread_resume(k, u)
  <2>2. isr' = isr /\ k' = rt_schedule(j) /\ IsThread(u) /\ k.stat[u] = SUSPEND /\ ~Claimed(u)
    BY <2>1 DEF DeviceInterrupt
  <2>3. KInv(j, Leaving)
    <3>1. u \notin Leaving
      BY <2>2 DEF Claimed, Leaving, Acting
    <3>2. j = rt_schedule_insert_thread(ResumeDetach(k, u), u)
      BY <2>2 DEF rt_thread_resume
    <3>. QED
      BY <1>1, <2>2, <3>1, <3>2, WakeKInv
  <2>4. TimersStopped(k, j)
    BY <1>1, ActingStops
  <2>. HIDE DEF j
  <2>5. TimersSame(j, k')
    BY <2>2, <2>3, ScheduleTimers
  <2>. QED
    BY <2>2, <2>4, <2>5, StoppedThen
<1>. QED
  BY <1>2, <1>3, <1>4 DEF IdleLoop

\* The clock interrupt counts a tick.
LEMMA TimelyTick ==
    ASSUME IInv, Timely(k, 0), TickInterrupt
    PROVE  Timely(k', -1)
<1>. DEFINE t == k.cur
            n == (k.tick + 1) % TICK_RANGE
            due == [u \in Thread |-> IF u \in Range(k.timers) THEN k.due[u] - 1 ELSE k.due[u]]
            more == [k.slice EXCEPT ![t] = InitTick[t]]
            less == [k.slice EXCEPT ![t] = k.slice[t] - 1]
            reset == [k EXCEPT !.tick = n, !.due = due, !.slice = more]
            charged == [k EXCEPT !.tick = n, !.due = due, !.slice = less]
<1>1. /\ k \in KernelState /\ k.slice \in [Thread -> Nat \ {0}] /\ k.due \in [Thread -> Int]
      /\ k.tick \in Tick /\ t \in Thread /\ KInv(k, Leaving)
  BY TypeFacts DEF KernelState, IInv
<1>2. n \in Tick /\ due \in [Thread -> Int] /\ more \in [Thread -> Nat \ {0}]
  BY <1>1, KernelConstants DEF Tick
<1>3. k' = IF k.slice[t] = 1 THEN rt_schedule(reset) ELSE charged
  BY <1>1 DEF TickInterrupt, rt_tick_increase, KernelState
<1>. HIDE DEF more, less
<1>4. /\ reset.timers = k.timers /\ reset.tick = n
      /\ reset.deadline = k.deadline /\ reset.due = due
  BY <1>1 DEF KernelState
<1>5. /\ charged.timers = k.timers /\ charged.tick = n
      /\ charged.deadline = k.deadline /\ charged.due = due
  BY <1>1 DEF KernelState
<1>6. TimersSame(reset, rt_schedule(reset))
  <2>1. /\ reset \in KernelState
        /\ reset.stat = k.stat /\ reset.prio = k.prio /\ reset.cur = k.cur
        /\ reset.group = k.group /\ reset.ready = k.ready /\ reset.timers = k.timers
        /\ reset.defunct = k.defunct
    BY <1>1, <1>2 DEF KernelState
  <2>. HIDE DEF reset
  <2>2. KInv(reset, Leaving)
    BY <1>1, <2>1, SmallKInv
  <2>. QED
    BY <2>2, ScheduleTimers
<1>. HIDE DEF reset, charged
<1>7. k'.timers = k.timers /\ k'.tick = n /\ k'.deadline = k.deadline /\ k'.due = due
  BY <1>3, <1>4, <1>5, <1>6 DEF TimersSame
<1>8. n = IF k.tick = TICK_RANGE - 1 THEN 0 ELSE k.tick + 1
  <2>. DEFINE x == k.tick + 1
  <2>1. k.tick \in 0 .. TICK_RANGE - 1
    BY <1>1 DEF Tick
  <2>2. n = x % TICK_RANGE /\ x = k.tick + 1
    OBVIOUS
  <2>. HIDE DEF n, x
  <2>3. CASE k.tick = TICK_RANGE - 1
    <3>1. x \in Int /\ x \in TICK_RANGE .. 2 * TICK_RANGE - 1
      BY <2>1, <2>2, <2>3, HalfRange
    <3>2. n = x - TICK_RANGE
      BY <2>2, <3>1, ModRange
    <3>. QED
      BY <2>1, <2>2, <2>3, <3>2, HalfRange
  <2>4. CASE k.tick # TICK_RANGE - 1
    <3>1. x \in Int /\ x \in 0 .. TICK_RANGE - 1
      BY <2>1, <2>2, <2>4, HalfRange
    <3>2. n = x
      BY <2>2, <3>1, ModRange
    <3>. QED
      BY <2>2, <2>4, <3>2
  <2>. QED
    BY <2>3, <2>4
<1>. HIDE DEF n
<1>9. ASSUME NEW s \in Range(k.timers)
      PROVE  /\ s \in Thread /\ Lag(k)[s] \in 0 .. HALF_RANGE - 1
             /\ Lag(k')[s] = Lag(k)[s] - 1
             /\ k'.due[s] = k.due[s] - 1
  <2>. DEFINE d == k.deadline[s]
              c == k.tick
              l == Lag(k)[s]
  <2>1. /\ s \in Thread /\ c \in 0 .. TICK_RANGE - 1 /\ d \in 0 .. TICK_RANGE - 1
    BY <1>1, TimerTypes, ListElements, SMTT(60)
  <2>2. l \in 0 .. HALF_RANGE - 1
    BY DEF Timely
  <2>3. l = IF d - c > HALF_RANGE - 1 THEN d - c - TICK_RANGE
            ELSE IF d - c < -1 THEN d - c + TICK_RANGE ELSE d - c
    BY <2>1 DEF Lag
  <2>4. Lag(k')[s] = IF d - n > HALF_RANGE - 1 THEN d - n - TICK_RANGE
                     ELSE IF d - n < -1 THEN d - n + TICK_RANGE ELSE d - n
    BY <1>7, <2>1 DEF Lag
  <2>5. k'.due[s] = k.due[s] - 1
    BY <1>7, <2>1
  <2>. HIDE DEF d, c, l
  <2>6. Lag(k')[s] = l - 1
    BY <1>8, <2>1, <2>2, <2>3, <2>4, HalfRange DEF c
  <2>. QED
    BY <2>1, <2>2, <2>5, <2>6 DEF l
<1>10. ASSUME NEW s \in Range(k.timers)
       PROVE  k.due[s] = IF Lag(k)[s] = 0 THEN 1 ELSE Lag(k)[s]
  BY DEF Timely
<1>11. ASSUME NEW s \in Range(k'.timers)
       PROVE  /\ Lag(k')[s] \in -1 .. HALF_RANGE - 1
              /\ k'.due[s] = IF Lag(k')[s] = -1 THEN 0 ELSE Lag(k')[s]
  <2>1. s \in Range(k.timers)
    BY <1>7
  <2>2. /\ Lag(k)[s] \in 0 .. HALF_RANGE - 1 /\ Lag(k')[s] = Lag(k)[s] - 1
        /\ k'.due[s] = (IF Lag(k)[s] = 0 THEN 1 ELSE Lag(k)[s]) - 1
    BY <1>9, <1>10, <2>1
  <2>. QED
    BY <2>2, HalfRange
<1>12. Sorted(Lag(k'), k'.timers)
  <2>. SUFFICES ASSUME NEW a \in DOMAIN k.timers, NEW b \in DOMAIN k.timers, a <= b
                PROVE  Lag(k')[k.timers[a]] <= Lag(k')[k.timers[b]]
    BY <1>7 DEF Sorted
  <2>1. k.timers[a] \in Range(k.timers) /\ k.timers[b] \in Range(k.timers)
    BY <1>1, TimerTypes, ListElements
  <2>2. Lag(k)[k.timers[a]] <= Lag(k)[k.timers[b]]
    BY DEF Timely, Sorted
  <2>. QED
    BY <1>9, <2>1, <2>2, HalfRange
<1>. QED
  BY <1>11, <1>12 DEF Timely

\* The timer that rt_timer_check takes off the list is due, and is the only one
\* it takes off.
LEMMA FiresHead ==
    ASSUME IInv, TimerFire
    PROVE  /\ k.timers # << >> /\ Head(k.timers) \in Thread
           /\ k'.timers = RemoveFirst(k.timers, Head(k.timers))
           /\ TimersStopped(k, k')
<1>. DEFINE t == Head(k.timers)
            s == rt_timer_stop(k, t)
<1>1. k.timers # << >> /\ k' = rt_thread_timeout(s, t)
  BY DEF TimerFire, TimerDue
<1>2. t \in Thread /\ t \in Range(k.timers) /\ k \in KernelState
  <2>1. k.timers \in Seq(Thread) /\ k \in KernelState
    BY TypeFacts DEF KernelState
  <2>. QED
    BY <1>1, <2>1, HeadInRange
<1>3. s.timers = RemoveFirst(k.timers, t)
  BY <1>2 DEF rt_timer_stop, KernelState
<1>. HIDE DEF t
<1>4. KInv(k, Leaving) /\ k.stat[t] = SUSPEND /\ t \notin Leaving
  BY <1>2 DEF IInv, KInv
<1>5. SameQueues(k, s) /\ Range(s.timers) = Range(k.timers) \ {t}
  BY <1>2, <1>4, StopTimer
<1>6. TimersStopped(k, s)
  BY <1>2, StopsTimer DEF TimersSame
<1>. HIDE DEF s
<1>7. KInv(s, Leaving) /\ s \in KernelState /\ s.stat = k.stat /\ t \notin Range(s.timers)
  BY <1>4, <1>5, SameKInv DEF SameQueues
<1>. DEFINE e == [s EXCEPT !.error[t] = ETIMEOUT]
            r == rt_list_remove(e, t)
            w == rt_schedule_insert_thread(r, t)
<1>8. KInv(w, Leaving) /\ rt_thread_timeout(s, t) = rt_schedule(w)
  BY <1>2, <1>4, <1>7, TimeoutKInv
<1>9. e \in KernelState /\ TimersSame(s, e)
  BY <1>7 DEF KernelState, TimersSame
<1>. HIDE DEF e
<1>10. r \in KernelState /\ TimersSame(e, r)
  BY <1>2, <1>9, ListRemoveOnly DEF QueuesOnly, TimersSame
<1>. HIDE DEF r
<1>11. TimersSame(r, w)
  BY <1>2, <1>10, InsertOnly DEF QueuesOnly, TimersSame
<1>. HIDE DEF w
<1>12. TimersSame(w, rt_schedule(w))
  BY <1>8, ScheduleTimers
<1>13. TimersSame(s, k')
  BY <1>1, <1>8, <1>9, <1>10, <1>11, <1>12 DEF TimersSame
<1>14. TimersStopped(k, k')
  BY <1>6, <1>13, StoppedThen
<1>. QED
  BY <1>1, <1>2, <1>3, <1>13, <1>14 DEF TimersSame, t

-----------------------------------------------------------------------------

\* The inductive strengthening of NeverLate, during and between the clock
\* interrupts.
TimersTimely == Timely(k, Earliest)

\* No timer runs at the start.
LEMMA InitTimely == Init => TimersTimely
<1>1. ASSUME Init
      PROVE  TimersTimely
  <2>1. k.timers = << >>
    BY <1>1 DEF Init
  <2>2. Range(<< >>) = {} /\ DOMAIN << >> = {}
    BY DEF Range
  <2>. QED
    BY <2>1, <2>2 DEF TimersTimely, Timely, Sorted
<1>. QED
  BY <1>1

\* Every step keeps the timer list sorted, with no timer of it later than its
\* timeout: the clock does not tick past a timer rt_timer_check has not seen.
LEMMA NextTimely ==
    ASSUME Disciplined, IInv, IInv', TimersTimely, [Next]_vars
    PROVE  TimersTimely'
<1>1. /\ k \in KernelState /\ k' \in KernelState /\ IsInjective(k.timers)
      /\ Earliest \in {-1, 0} /\ SleepTicks \subseteq 0 .. HALF_RANGE - 1
      /\ isr \in {"none", "timer"} /\ Timely(k, Earliest)
  BY ThreadsConstants DEF IInv, TypeOK, KInv, Earliest, TimersTimely
<1>2. CASE TimersStopped(k, k') /\ isr' = isr
  <2>1. Timely(k', Earliest)
    BY <1>1, <1>2, TimelyStopped
  <2>. QED
    BY <1>2, <2>1 DEF TimersTimely, Earliest
<1>3. CASE \E t \in Thread : rt_thread_sleep(t)
  <2>1. PICK t \in Thread : rt_thread_sleep(t)
    BY <1>3
  <2>. DEFINE j == rt_thread_suspend(k, t)
  <2>2. PICK n \in SleepTicks : k' = rt_timer_start(j, t, n)
    BY <2>1 DEF rt_thread_sleep
  <2>3. isr = "none" /\ isr' = isr /\ t = k.cur
    BY <2>1 DEF rt_thread_sleep, Calls, Executes
  <2>4. j \in KernelState /\ TimersStopped(k, j)
    BY <1>1, ActingStops
  <2>5. IsInjective(j.timers)
    <3>1. KInv(k, Leaving)
      BY DEF IInv
    <3>2. KInv(j, Leaving)
      BY <2>3, <3>1, SuspendCurrent
    <3>. QED
      BY <3>2 DEF KInv
  <2>. HIDE DEF j
  <2>6. Timely(j, 0)
    BY <1>1, <2>3, <2>4, TimelyStopped DEF Earliest
  <2>7. Timely(k', 0)
    BY <1>1, <2>2, <2>4, <2>5, <2>6, TimelyStarted
  <2>. QED
    BY <2>3, <2>7 DEF TimersTimely, Earliest
<1>4. CASE TickInterrupt
  <2>1. isr = "none" /\ isr' = "timer"
    BY <1>4 DEF TickInterrupt
  <2>2. Timely(k', -1)
    BY <1>1, <1>4, <2>1, TimelyTick DEF Earliest
  <2>. QED
    BY <2>1, <2>2 DEF TimersTimely, Earliest
<1>5. CASE TimerFire
  <2>1. TimersStopped(k, k') /\ isr' = isr
    BY <1>5, FiresHead DEF TimerFire
  <2>. QED
    BY <1>2, <2>1
<1>6. CASE TimerCheckDone
  <2>1. isr = "timer" /\ isr' = "none" /\ k' = k /\ ~TimerDue(k)
    BY <1>6 DEF TimerCheckDone
  <2>2. Timely(k, -1)
    BY <1>1, <2>1 DEF Earliest
  <2>3. ASSUME NEW s \in Range(k.timers)
        PROVE  Lag(k)[s] \in 1 .. HALF_RANGE - 1 /\ k.due[s] = Lag(k)[s]
    <3>1. k.timers \in Seq(Thread) /\ k.timers # << >>
      <4>1. k.timers \in Seq(Thread)
        BY <1>1, TimerTypes
      <4>. QED
        BY <2>3, <4>1, HeadInRange
    <3>2. Lag(k)[Head(k.timers)] \in Int /\ ~(Lag(k)[Head(k.timers)] <= 0)
      <4>1. Head(k.timers) \in Thread
        BY <3>1, HeadInRange
      <4>2. Lag(k)[Head(k.timers)] \in Int
        BY <1>1, <4>1, TimerTypes
      <4>. QED
        BY <1>1, <2>1, <2>2, <3>1, <4>2, DueByLag
    <3>3. PICK i \in DOMAIN k.timers : k.timers[i] = s
      BY <3>1, ListElements
    <3>4. 1 \in DOMAIN k.timers /\ 1 <= i /\ Head(k.timers) = k.timers[1]
      BY <3>1, <3>3, LenProperties, EmptySeq
    <3>5. Lag(k)[Head(k.timers)] <= Lag(k)[s]
      BY <2>2, <3>3, <3>4 DEF Timely, Sorted
    <3>6. /\ Lag(k)[s] \in -1 .. HALF_RANGE - 1
          /\ k.due[s] = IF Lag(k)[s] = -1 THEN 0 ELSE Lag(k)[s]
      BY <2>2 DEF Timely
    <3>. QED
      BY <3>2, <3>5, <3>6, HalfRange
  <2>4. Timely(k, 0)
    <3>1. ASSUME NEW s \in Range(k.timers)
          PROVE  /\ Lag(k)[s] \in 0 .. HALF_RANGE - 1
                 /\ k.due[s] = IF Lag(k)[s] = 0 THEN 1 ELSE Lag(k)[s]
      BY <2>3
    <3>2. Sorted(Lag(k), k.timers)
      BY <2>2 DEF Timely
    <3>. QED
      BY <3>1, <3>2 DEF Timely
  <2>. QED
    BY <2>1, <2>4 DEF TimersTimely, Earliest
<1>7. CASE UNCHANGED vars
  <2>1. k' = k /\ isr' = isr
    BY <1>7 DEF vars
  <2>. QED
    BY <2>1 DEF TimersTimely, Earliest
<1>8. CASE Next
  BY <1>2, <1>3, <1>4, <1>5, <1>6, <1>8, SelfCallStops, ContinueStops, TargetCallStops,
     OthersStop DEF Next, ClockInterrupt
<1>. QED
  BY <1>7, <1>8

\* The timers stay sorted and none is overdue for longer than the interrupt
\* that ends it, also when rt_tick wraps.
THEOREM TimersStayTimely == Disciplined => (Spec => []TimersTimely)
<1>1. ASSUME Disciplined
      PROVE  IInv /\ IInv' /\ TimersTimely /\ [Next]_vars => TimersTimely'
  BY <1>1, NextTimely
<1>2. ASSUME Disciplined
      PROVE  Spec => []TimersTimely
  BY <1>1, <1>2, InitTimely, InductiveInvariant, PTL DEF Spec
<1>. QED
  BY <1>2

\* When rt_timer_check is done no timer is overdue.
THEOREM SleepsAreNotLate == Disciplined => (Spec => []NeverLate)
<1>1. IInv /\ TimersTimely => NeverLate
  <2>1. ASSUME IInv, TimersTimely, isr = "none", NEW t \in Range(k.timers)
        PROVE  k.due[t] > 0
    <3>1. /\ Lag(k)[t] \in 0 .. HALF_RANGE - 1
          /\ k.due[t] = IF Lag(k)[t] = 0 THEN 1 ELSE Lag(k)[t]
      BY <2>1 DEF TimersTimely, Timely, Earliest
    <3>. QED
      BY <3>1, HalfRange
  <2>. QED
    BY <2>1 DEF NeverLate
<1>2. ASSUME Disciplined
      PROVE  Spec => []NeverLate
  BY <1>1, <1>2, TimersStayTimely, InductiveInvariant, PTL
<1>. QED
  BY <1>2

\* rt_timer_check runs no timeout function before its time.
THEOREM SleepsAreNotEarly == Disciplined => (Spec => NeverEarly)
<1>. DEFINE OnTime == \A t \in Thread :
          t \in Range(k.timers) /\ isr = "timer" /\ t \notin Range(k'.timers)
              => k.due[t] <= 0
<1>1. ASSUME Disciplined, IInv, TimersTimely, [Next]_vars
      PROVE  OnTime
  <2>. SUFFICES ASSUME NEW t \in Thread, t \in Range(k.timers), isr = "timer",
                       t \notin Range(k'.timers)
                PROVE  k.due[t] <= 0
    OBVIOUS
  <2>1. TimerFire
    <3>1. k'.timers # k.timers
      OBVIOUS
    <3>2. \A s, u \in Thread : ~SelfCall(s) /\ ~Continue(s) /\ ~TargetCall(s, u)
                               /\ ~DeviceInterrupt(u) /\ ~IdleLoop /\ ~TickInterrupt
      BY DEF SelfCall, Continue, TargetCall, IdleLoop, DeviceInterrupt, TickInterrupt,
             rt_thread_yield, SuspendSelf, rt_thread_sleep, rt_thread_exit,
             rt_enter_critical, rt_exit_critical, rt_thread_init, rt_thread_startup,
             rt_thread_resume_call, rt_thread_control, rt_thread_delete, Schedule,
             SleepSchedule, SleepReturn, ResumeDetachStep, StartupInsertStep,
             ResumeInsertStep, DeleteTimerStep, DeleteCloseStep, DetachObjectStep,
             DefunctStep, rt_thread_idle_excute, IdleFreeStep, Calls, Continues, Executes
    <3>. QED
      BY <1>1, <3>1, <3>2 DEF Next, ClockInterrupt, TimerCheckDone, vars
  <2>2. /\ k \in KernelState /\ IsInjective(k.timers) /\ k.timers \in Seq(Thread)
        /\ Timely(k, -1)
    BY <1>1, TimerTypes DEF IInv, TypeOK, KInv, TimersTimely, Earliest
  <2>3. /\ k.timers # << >> /\ k'.timers = RemoveFirst(k.timers, Head(k.timers))
    BY <1>1, <2>1, FiresHead
  <2>4. t = Head(k.timers)
    BY <2>2, <2>3, RemoveFirstOnce
  <2>5. Lag(k)[t] <= 0
    BY <2>1, <2>2, <2>3, <2>4, DueByLag DEF TimerFire
  <2>6. /\ Lag(k)[t] \in -1 .. HALF_RANGE - 1
        /\ k.due[t] = IF Lag(k)[t] = -1 THEN 0 ELSE Lag(k)[t]
    BY <2>2 DEF Timely
  <2>. QED
    BY <2>5, <2>6, HalfRange
<1>. HIDE DEF OnTime
<1>2. ASSUME Disciplined
      PROVE  IInv /\ TimersTimely /\ [Next]_vars => [OnTime]_vars
  BY <1>1, <1>2
<1>3. ASSUME Disciplined
      PROVE  Spec => [][OnTime]_vars
  BY <1>2, <1>3, TimersStayTimely, InductiveInvariant, PTL DEF Spec
<1>. QED
  BY <1>3 DEF NeverEarly, OnTime

=============================================================================
