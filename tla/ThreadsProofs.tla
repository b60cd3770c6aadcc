---------------------------- MODULE ThreadsProofs ---------------------------
(***************************************************************************)
(* Disciplined threads keep the ready queue exact: the type invariant and  *)
(* the safety invariants of Threads, for every number of threads, of       *)
(* priorities and of ticks.                                                *)
(***************************************************************************)
EXTENDS Threads, KernelProofs

\* Where the threads are in their lives: what is not a registered object is
\* closed, the idle thread stays READY, and a closed thread runs no further
\* than the rt_schedule that ends rt_thread_exit.
LifeInv ==
    /\ \A t \in Thread : obj[t] \in {"detached", "freed"} => k.stat[t] = CLOSE
    /\ k.stat[k.cur] # INIT
    /\ k.stat[Idle] = READY /\ pc[Idle].at \in {"run", "free"}
    /\ k.stat[k.cur] = CLOSE => pc[k.cur].at = "sched" /\ k.lock = 0
    /\ \A t \in Thread :
         k.stat[t] = CLOSE \/ t \in Leaving => pc[t].at \notin Acting

\* The inductive invariant.
IInv ==
    /\ TypeOK
    /\ KInv(k, Leaving)
    /\ CallsUndisturbed
    /\ LifeInv

\* The fields of the frames.
LEMMA FrameFields ==
    /\ \A t \in Thread :
         /\ Running(t) \in Frame /\ Running(t).op = "none"
         /\ Running(t).at = "run" /\ Running(t).arg = t
         /\ Scheduling(t) \in Frame /\ Scheduling(t).op = "none"
         /\ Scheduling(t).at = "sched" /\ Scheduling(t).arg = t
    /\ \A op \in Call, at \in Step, u \in Thread :
         /\ In(op, at, u) \in Frame /\ In(op, at, u).op = op
         /\ In(op, at, u).at = at /\ In(op, at, u).arg = u
  BY DEF Frame, Running, Scheduling, In, Call, Step

\* The types of the parts.
LEMMA TypeFacts ==
    ASSUME IInv
    PROVE  /\ k \in KernelState /\ k.cur \in Thread /\ k.lock \in Nat
           /\ k.stat \in [Thread -> Stat] /\ Idle \in Thread
           /\ pc \in [Thread -> Frame] /\ obj \in [Thread -> ObjectState]
           /\ \A t \in Thread : /\ pc[t] \in Frame /\ pc[t].arg \in Thread
                                /\ pc[t].at \in Step /\ pc[t].op \in Call
  BY KernelConstants DEF IInv, TypeOK, KernelState, Frame

-----------------------------------------------------------------------------

\* The boot of the kernel: main runs, idle is ready, no timer runs.
LEMMA InitIInv == Init => IInv
<1>. SUFFICES ASSUME Init
              PROVE  IInv
  OBVIOUS
<1>. DEFINE q == InitPriority[Idle]
<1>1. /\ Main \in Thread /\ Idle \in Thread /\ Main # Idle
      /\ InitPriority \in [Thread -> Priority] /\ q \in Priority
      /\ InitTick \in [Thread -> Nat \ {0}] /\ 0 \in Tick
  BY KernelConstants, ThreadsConstants DEF Tick
<1>2. k \in KernelState
  <2>1. <<Idle>> \in Seq(Thread) /\ << >> \in Seq(Thread)
    BY <1>1
  <2>. QED
    BY <1>1, <2>1, StatesDiffer DEF Init, KernelState
<1>3. pc \in [Thread -> Frame] /\ \A t \in Thread : pc[t] = Running(t)
  BY FrameFields DEF Init
<1>4. /\ k.stat = [t \in Thread |-> IF t \in {Main, Idle} THEN READY ELSE INIT]
      /\ k.prio = InitPriority /\ k.cur = Main /\ k.lock = 0
      /\ k.ready = [p \in Priority |-> IF p = q THEN <<Idle>> ELSE << >>]
      /\ k.group = {q} /\ k.timers = << >> /\ k.defunct = << >>
  BY DEF Init
<1>5. Leaving = {}
  BY <1>3, FrameFields DEF Leaving
<1>6. /\ Range(<<Idle>>) = {Idle} /\ IsInjective(<<Idle>>) /\ <<Idle>> # << >>
      /\ Range(<< >>) = {} /\ IsInjective(<< >>)
  BY DEF Range, IsInjective
<1>7. QueueExact(k, {})
  <2>1. \A p \in Priority : Range(k.ready[p]) = IF p = q THEN {Idle} ELSE {}
    BY <1>4, <1>6
  <2>2. \A p \in Priority : p \in k.group <=> k.ready[p] # << >>
    BY <1>4, <1>6
  <2>3. \A p \in Priority : IsInjective(k.ready[p])
    BY <1>4, <1>6
  <2>4. \A t \in Thread : k.stat[t] = READY <=> t \in {Main, Idle}
    BY <1>4, StatesDiffer
  <2>. QED
    BY <1>1, <1>4, <2>1, <2>2, <2>3, <2>4 DEF QueueExact
<1>8. KInv(k, Leaving)
  BY <1>2, <1>4, <1>5, <1>6, <1>7 DEF KInv
<1>9. obj \in [Thread -> ObjectState] /\ \A t \in Thread : obj[t] \notin {"detached", "freed"}
  BY DEF Init, InitObject, ObjectState
<1>10. TypeOK
  BY <1>2, <1>3, <1>9 DEF TypeOK, Init
<1>11. CallsUndisturbed
  BY <1>3, FrameFields DEF CallsUndisturbed, Undisturbed, Moving
<1>12. LifeInv
  BY <1>1, <1>3, <1>4, <1>9, FrameFields, StatesDiffer DEF LifeInv, Acting
<1>. QED
  BY <1>8, <1>10, <1>11, <1>12 DEF IInv

-----------------------------------------------------------------------------
(* What a step must keep *)

\* The threads that are leaving change only with the frames that say so.
LEMMA LeavingSame ==
    ASSUME \A s \in Thread :
              pc[s].at \in {"timer", "close"} \/ pc'[s].at \in {"timer", "close"}
                  => pc'[s] = pc[s]
    PROVE  Leaving' = Leaving
  BY DEF Leaving

\* A frame that a step leaves alone stays undisturbed.
LEMMA UndisturbedStep ==
    ASSUME IInv, KInv(k', Leaving'), NEW s \in Thread, pc'[s] = pc[s],
           pc[s].at \in Acting =>
               /\ k'.stat[pc[s].arg] = k.stat[pc[s].arg]
               /\ pc[s].arg \in Range(k'.timers) => pc[s].arg \in Range(k.timers),
           k'.cur = k.cur \/ k'.stat[k'.cur] = READY
    PROVE  Undisturbed(s)'
<1>. DEFINE u == pc[s].arg
<1>1. Undisturbed(s)
  BY DEF IInv, CallsUndisturbed
<1>2. CASE pc[s].at \in {"detach", "insert"}
  BY <1>1, <1>2, StatesDiffer DEF Undisturbed, Acting
<1>3. CASE pc[s].at \in {"timer", "close"}
  <2>1. u \in Leaving' /\ u # Idle
    BY <1>1, <1>3 DEF Leaving, Undisturbed
  <2>2. /\ u # k'.cur /\ u \notin Range(k'.timers)
        /\ \A p \in Priority : u \notin Range(k'.ready[p])
    BY <2>1 DEF KInv
  <2>. QED
    BY <1>3, <2>1, <2>2 DEF Undisturbed
<1>4. CASE pc[s].at \notin {"detach", "insert", "timer", "close"}
  BY <1>1, <1>4 DEF Undisturbed, Acting
<1>. QED
  BY <1>2, <1>3, <1>4

\* A step that takes up no thread: frames of calls on other threads stay or
\* end, and nobody is closed.
LEMMA OrdinaryStep ==
    ASSUME IInv, TypeOK', KInv(k', Leaving'), Leaving' \subseteq Leaving, obj' = obj,
           \A s \in Thread : pc'[s].at \in Acting =>
               /\ pc'[s] = pc[s]
               /\ k'.stat[pc[s].arg] = k.stat[pc[s].arg]
               /\ pc[s].arg \in Range(k'.timers) => pc[s].arg \in Range(k.timers),
           k'.cur = k.cur \/ k'.stat[k'.cur] = READY,
           \A u \in Thread : \/ k'.stat[u] = k.stat[u]
                             \/ k.stat[u] # CLOSE /\ k'.stat[u] \in {READY, SUSPEND},
           k'.stat[Idle] = READY, pc'[Idle].at \in {"run", "free"},
           k'.stat[k'.cur] = CLOSE => pc'[k'.cur].at = "sched" /\ k'.lock = 0
    PROVE  IInv'
<1>1. ASSUME NEW s \in Thread
      PROVE  Undisturbed(s)'
  <2>1. CASE pc'[s].at \in Acting
    BY <2>1, UndisturbedStep
  <2>2. CASE pc'[s].at \notin Acting
    BY <2>2 DEF Undisturbed, Acting
  <2>. QED
    BY <2>1, <2>2
<1>2. CallsUndisturbed'
  BY <1>1 DEF IInv, CallsUndisturbed, Moving, Acting
<1>3. k.cur \in Thread /\ k'.cur \in Thread
  BY TypeFacts DEF TypeOK, KernelState
<1>4. LifeInv'
  <2>1. \A t \in Thread : obj'[t] \in {"detached", "freed"} => k'.stat[t] = CLOSE
    BY DEF IInv, LifeInv
  <2>2. k'.stat[k'.cur] # INIT
    BY <1>3, StatesDiffer DEF IInv, LifeInv
  <2>3. \A t \in Thread :
           k'.stat[t] = CLOSE \/ t \in Leaving' => pc'[t].at \notin Acting
    BY StatesDiffer DEF IInv, LifeInv
  <2>. QED
    BY <2>1, <2>2, <2>3 DEF LifeInv
<1>. QED
  BY <1>2, <1>4 DEF IInv

\* The same when the states of the threads do not change.
LEMMA SameStatesStep ==
    ASSUME IInv, TypeOK', KInv(k', Leaving'), Leaving' \subseteq Leaving, obj' = obj,
           \A s \in Thread : pc'[s].at \in Acting => pc'[s] = pc[s],
           k'.stat = k.stat, Range(k'.timers) \subseteq Range(k.timers),
           k'.cur = k.cur \/ k.stat[k'.cur] = READY,
           pc'[Idle].at \in {"run", "free"},
           k'.cur = k.cur /\ k.stat[k.cur] = CLOSE =>
               pc'[k.cur].at = "sched" /\ k'.lock = 0
    PROVE  IInv'
<1>1. k'.stat[Idle] = READY
  BY DEF IInv, LifeInv
<1>2. k'.stat[k'.cur] = CLOSE => pc'[k'.cur].at = "sched" /\ k'.lock = 0
  BY StatesDiffer
<1>. QED
  BY <1>1, <1>2, OrdinaryStep

\* The threads that are leaving exist and are not the idle thread.
LEMMA LeavingFacts ==
    ASSUME IInv
    PROVE  Leaving \subseteq Thread /\ Idle \notin Leaving
  BY TypeFacts DEF IInv, CallsUndisturbed, Undisturbed, Leaving

\* A thread is always READY for rt_schedule to switch to.
LEMMA IdleIsLinked ==
    ASSUME IInv, k.cur # Idle
    PROVE  k.group # {}
<1>1. k.stat[Idle] = READY /\ Idle \in Thread /\ Idle \notin Leaving
  BY TypeFacts, LeavingFacts DEF IInv, LifeInv
<1>2. /\ k.prio[Idle] \in Priority
      /\ Idle \in Range(k.ready[k.prio[Idle]])
  BY <1>1, QueueFacts DEF IInv
<1>3. k.ready[k.prio[Idle]] # << >>
  BY <1>2, QueueFacts, HeadInRange DEF IInv
<1>. QED
  BY <1>2, <1>3, QueueFacts DEF IInv

\* A call of rt_schedule in a record like k.
LEMMA ScheduleStep ==
    ASSUME IInv, NEW j, KInv(j, Leaving), Switched(k, j), j.cur = k.cur,
           j.group = k.group
    PROVE  /\ KInv(rt_schedule(j), Leaving)
           /\ rt_schedule(j) \in KernelState
           /\ Switched(k, rt_schedule(j))
           /\ k.stat[k.cur] = CLOSE => k.stat[rt_schedule(j).cur] = READY
<1>1. /\ KInv(rt_schedule(j), Leaving)
      /\ Switched(j, rt_schedule(j))
      /\ j.lock = 0 /\ j.group # {} /\ j.stat[j.cur] # READY
           => j.stat[rt_schedule(j).cur] = READY
  BY ScheduleKInv
<1>2. Switched(k, rt_schedule(j))
  BY <1>1 DEF Switched
<1>3. rt_schedule(j) \in KernelState
  BY <1>1 DEF KInv
<1>4. ASSUME k.stat[k.cur] = CLOSE
      PROVE  k.stat[rt_schedule(j).cur] = READY
  <2>1. k.cur # Idle /\ k.lock = 0 /\ k.stat[k.cur] # READY
    BY <1>4, StatesDiffer DEF IInv, LifeInv
  <2>2. k.group # {}
    BY <2>1, IdleIsLinked
  <2>. QED
    BY <1>1, <2>1, <2>2 DEF Switched
<1>. QED
  BY <1>1, <1>2, <1>3, <1>4

-----------------------------------------------------------------------------
(* Calls on the calling thread *)

\* A step of the running thread between two frames that act on nobody, which
\* leaves the states of the threads alone.
LEMMA OwnStep ==
    ASSUME IInv, NEW t \in Thread, t = k.cur, pc[t].at \notin Acting,
           NEW f \in Frame, f.at \notin Acting, t = Idle => f.at = "run",
           pc' = [pc EXCEPT ![t] = f], obj' = obj, isr' = isr,
           KInv(k', Leaving),
           k'.stat = k.stat, Range(k'.timers) \subseteq Range(k.timers),
           k'.cur = k.cur \/ k.stat[k'.cur] = READY,
           k'.cur = k.cur /\ k.stat[k.cur] = CLOSE => f.at = "sched" /\ k'.lock = 0
    PROVE  IInv'
<1>1. \A s \in Thread : pc'[s] = IF s = t THEN f ELSE pc[s]
  BY TypeFacts
<1>2. Leaving' = Leaving
  BY <1>1, LeavingSame DEF Acting
<1>3. TypeOK'
  <2>1. pc' \in [Thread -> Frame]
    BY TypeFacts
  <2>. QED
    BY <2>1 DEF IInv, TypeOK, KInv
<1>4. pc'[Idle].at \in {"run", "free"}
  BY <1>1, TypeFacts DEF IInv, LifeInv
<1>. QED
  BY <1>1, <1>2, <1>3, <1>4, SameStatesStep

\* rt_thread_yield puts the caller behind the others of its priority.
LEMMA YieldStep ==
    ASSUME IInv, NEW t \in Thread, rt_thread_yield(t)
    PROVE  IInv'
<1>1. /\ t = k.cur /\ pc[t].at = "run" /\ k' = rt_schedule(k)
      /\ pc' = pc /\ obj' = obj /\ isr' = isr
  BY DEF rt_thread_yield, Calls, Executes
<1>2. KInv(k', Leaving) /\ Switched(k, k')
      /\ (k.stat[k.cur] = CLOSE => k.stat[k'.cur] = READY)
  BY <1>1, ScheduleStep DEF IInv, Switched
<1>3. PICK f \in Frame : f.at = "run" /\ pc' = [pc EXCEPT ![t] = f]
  BY <1>1, TypeFacts
<1>4. k'.cur = k.cur => k.stat[k.cur] # CLOSE
  BY <1>2, StatesDiffer
<1>. QED
  BY <1>1, <1>2, <1>3, <1>4, OwnStep DEF Switched, Acting

\* Schedule and SleepSchedule.
LEMMA ScheduleSteps ==
    ASSUME IInv, NEW t \in Thread, Schedule(t) \/ SleepSchedule(t)
    PROVE  IInv'
<1>1. /\ t = k.cur /\ pc[t].at = "sched" /\ k' = rt_schedule(k)
      /\ obj' = obj /\ isr' = isr
      /\ pc' = [pc EXCEPT ![t] = Running(t)]
         \/ pc' = [pc EXCEPT ![t] = In("sleep", "woken", t)]
  BY DEF Schedule, SleepSchedule, Continues, Executes, Goto
<1>2. KInv(k', Leaving) /\ Switched(k, k')
      /\ (k.stat[k.cur] = CLOSE => k.stat[k'.cur] = READY)
  BY <1>1, ScheduleStep DEF IInv, Switched
<1>3. t # Idle
  BY <1>1 DEF IInv, LifeInv
<1>4. PICK f \in Frame : f.at \in {"run", "woken"} /\ pc' = [pc EXCEPT ![t] = f]
  BY <1>1, FrameFields DEF Call, Step
<1>5. k'.cur = k.cur => k.stat[k.cur] # CLOSE
  BY <1>2, StatesDiffer
<1>. QED
  BY <1>1, <1>2, <1>3, <1>4, <1>5, OwnStep DEF Switched, Acting

\* Changing the nesting, owed or error field of the kernel record.
LEMMA SmallKInv ==
    ASSUME NEW leaving, NEW j, KInv(j, leaving), NEW u,
           u \in KernelState,
           u.stat = j.stat, u.prio = j.prio, u.cur = j.cur, u.group = j.group,
           u.ready = j.ready, u.timers = j.timers, u.defunct = j.defunct
    PROVE  KInv(u, leaving)
<1>1. SameQueues(j, u)
  BY DEF SameQueues, KInv
<1>. QED
  BY <1>1, SameKInv

\* A thread that starts a call is not closed.
LEMMA CallerIsOpen ==
    ASSUME IInv, pc[k.cur].at # "sched"
    PROVE  k.stat[k.cur] \in {READY, SUSPEND}
  BY TypeFacts DEF IInv, LifeInv, Stat

\* rt_enter_critical and rt_exit_critical count, and touch no list.
LEMMA CriticalSteps ==
    ASSUME IInv, NEW t \in Thread, rt_enter_critical(t) \/ rt_exit_critical(t)
    PROVE  IInv'
<1>1. /\ t = k.cur /\ t # Idle /\ pc[t].at = "run" /\ obj' = obj /\ isr' = isr
      /\ \E n \in Nat : k' = [k EXCEPT !.lock = n]
      /\ pc' = pc \/ \E f \in {Running(t), Scheduling(t)} : pc' = [pc EXCEPT ![t] = f]
  <2>1. k.lock \in Nat
    BY TypeFacts
  <2>2. CASE rt_enter_critical(t)
    BY <2>1, <2>2 DEF rt_enter_critical, Calls, Executes
  <2>3. CASE rt_exit_critical(t)
    <3>1. (IF k.lock <= 1 THEN 0 ELSE k.lock - 1) \in Nat
      BY <2>1
    <3>2. k' = [k EXCEPT !.lock = IF k.lock <= 1 THEN 0 ELSE k.lock - 1]
      BY <2>3 DEF rt_exit_critical
    <3>3. /\ t = k.cur /\ t # Idle /\ pc[t].at = "run" /\ obj' = obj /\ isr' = isr
          /\ \E f \in {Running(t), Scheduling(t)} : pc' = [pc EXCEPT ![t] = f]
      BY <2>3 DEF rt_exit_critical, Calls, Executes, Goto
    <3>. QED
      BY <3>1, <3>2, <3>3
  <2>. QED
    BY <2>2, <2>3
<1>2. PICK f \in Frame : f.at \in {"run", "sched"} /\ pc' = [pc EXCEPT ![t] = f]
  BY <1>1, TypeFacts, FrameFields
<1>3. PICK n \in Nat : k' = [k EXCEPT !.lock = n]
  BY <1>1
<1>4. /\ k' \in KernelState
      /\ k'.stat = k.stat /\ k'.prio = k.prio /\ k'.cur = k.cur
      /\ k'.group = k.group /\ k'.ready = k.ready /\ k'.timers = k.timers
      /\ k'.defunct = k.defunct
  BY <1>3, TypeFacts DEF KernelState
<1>5. KInv(k', Leaving)
  BY <1>4, SmallKInv DEF IInv
<1>6. k.stat[k.cur] # CLOSE
  BY <1>1, CallerIsOpen, StatesDiffer
<1>. QED
  BY <1>1, <1>2, <1>4, <1>5, <1>6, OwnStep DEF Acting

\* The end of rt_thread_sleep: the timeout that woke the thread is no error.
LEMMA SleepReturnStep ==
    ASSUME IInv, NEW t \in Thread, SleepReturn(t)
    PROVE  IInv'
<1>1. /\ t = k.cur /\ pc[t].at = "woken" /\ obj' = obj /\ isr' = isr
      /\ k' = [k EXCEPT !.error[t] = IF k.error[t] = ETIMEOUT THEN EOK ELSE k.error[t]]
      /\ pc' = [pc EXCEPT ![t] = Running(t)]
  BY DEF SleepReturn, Continues, Executes, Goto
<1>2. /\ k' \in KernelState
      /\ k'.stat = k.stat /\ k'.prio = k.prio /\ k'.cur = k.cur
      /\ k'.group = k.group /\ k'.ready = k.ready /\ k'.timers = k.timers
      /\ k'.defunct = k.defunct
  BY <1>1, TypeFacts DEF KernelState
<1>3. KInv(k', Leaving)
  BY <1>2, SmallKInv DEF IInv
<1>4. k.stat[k.cur] # CLOSE /\ t # Idle
  BY <1>1, CallerIsOpen, StatesDiffer DEF IInv, LifeInv
<1>. QED
  BY <1>1, <1>2, <1>3, <1>4, FrameFields, OwnStep DEF Acting

\* RT_THREAD_CTRL_CHANGE_PRIORITY takes one section.
LEMMA ControlStep ==
    ASSUME IInv, Disciplined, NEW t \in Thread, NEW u \in Thread, rt_thread_control(t, u)
    PROVE  IInv'
<1>1. /\ t = k.cur /\ t # Idle /\ pc[t].at = "run" /\ obj' = obj /\ isr' = isr
      /\ ~Claimed(u)
      /\ \E p \in NewPriority : k' = [ChangePriority(k, u, p) EXCEPT !.owed = TRUE]
      /\ \E f \in {Running(t), Scheduling(t)} : pc' = [pc EXCEPT ![t] = f]
  BY DEF rt_thread_control, Calls, Executes, Goto
<1>2. PICK p \in NewPriority : k' = [ChangePriority(k, u, p) EXCEPT !.owed = TRUE]
  BY <1>1
<1>3. PICK f \in Frame : f.at \in {"run", "sched"} /\ pc' = [pc EXCEPT ![t] = f]
  <2>1. PICK f \in {Running(t), Scheduling(t)} : pc' = [pc EXCEPT ![t] = f]
    BY <1>1
  <2>2. f \in Frame /\ f.at \in {"run", "sched"}
    BY <2>1, FrameFields
  <2>. QED
    BY <2>1, <2>2
<1>4. p \in Priority /\ u \in Thread \ Leaving
  BY <1>1, ThreadsConstants DEF Claimed, Leaving, Acting
<1>. DEFINE j == ChangePriority(k, u, p)
<1>5. /\ KInv(j, Leaving)
      /\ j.stat = k.stat /\ j.cur = k.cur /\ j.lock = k.lock
      /\ Range(j.timers) \subseteq Range(k.timers)
      /\ Range(j.defunct) \subseteq Range(k.defunct)
  BY <1>4, ChangePriorityKInv DEF IInv
<1>. HIDE DEF j
<1>6. j \in KernelState /\ k' = [j EXCEPT !.owed = TRUE]
  BY <1>2, <1>5 DEF KInv, j
<1>7. /\ k' \in KernelState
      /\ k'.stat = j.stat /\ k'.prio = j.prio /\ k'.cur = j.cur
      /\ k'.group = j.group /\ k'.ready = j.ready /\ k'.timers = j.timers
      /\ k'.defunct = j.defunct
  BY <1>6 DEF KernelState
<1>8. KInv(k', Leaving)
  BY <1>5, <1>7, SmallKInv
<1>9. k.stat[k.cur] # CLOSE
  BY <1>1, CallerIsOpen, StatesDiffer
<1>. QED
  BY <1>1, <1>3, <1>5, <1>7, <1>8, <1>9, OwnStep, ZenonT(60) DEF Acting

\* No other call is at work on a thread that starts a call.
LEMMA CallerIsUnclaimed ==
    ASSUME IInv, pc[k.cur].at = "run", NEW s \in Thread, pc[s].at \in Acting
    PROVE  pc[s].arg # k.cur /\ s # k.cur
<1>1. Undisturbed(s) /\ s # k.cur
  BY DEF IInv, CallsUndisturbed, Acting
<1>2. k.stat[k.cur] # CLOSE
  BY CallerIsOpen, StatesDiffer
<1>. QED
  BY <1>1, <1>2 DEF Undisturbed, Acting

\* A thread suspends itself, with or without a timer.
LEMMA SuspendSteps ==
    ASSUME IInv, NEW t \in Thread, SuspendSelf(t) \/ rt_thread_sleep(t)
    PROVE  IInv'
<1>1. /\ t = k.cur /\ t # Idle /\ pc[t].at = "run" /\ obj' = obj /\ isr' = isr
      /\ \E f \in {Scheduling(t), In("sleep", "sched", t)} : pc' = [pc EXCEPT ![t] = f]
      /\ \/ k' = rt_thread_suspend(k, t)
         \/ \E n \in SleepTicks : k' = rt_timer_start(rt_thread_suspend(k, t), t, n)
  BY DEF SuspendSelf, rt_thread_sleep, Calls, Executes, Goto
<1>2. k.stat[t] \in {READY, SUSPEND} /\ k.stat \in [Thread -> Stat]
  BY <1>1, CallerIsOpen, TypeFacts
<1>. DEFINE j == rt_thread_suspend(k, t)
<1>3. /\ KInv(j, Leaving)
      /\ j.stat = IF k.stat[t] = READY THEN [k.stat EXCEPT ![t] = SUSPEND] ELSE k.stat
      /\ j.cur = k.cur /\ j.lock = k.lock
      /\ Range(j.timers) \subseteq Range(k.timers)
  BY <1>1, SuspendCurrent DEF IInv
<1>. HIDE DEF j
<1>4. j.stat = [k.stat EXCEPT ![t] = SUSPEND]
  BY <1>2, <1>3
<1>5. /\ KInv(k', Leaving)
      /\ k'.stat = [k.stat EXCEPT ![t] = SUSPEND] /\ k'.cur = k.cur
      /\ Range(k'.timers) \subseteq Range(k.timers) \cup {t}
  <2>1. CASE k' = j
    BY <1>3, <1>4, <2>1
  <2>2. CASE \E n \in SleepTicks : k' = rt_timer_start(j, t, n)
    <3>1. SleepTicks \subseteq Nat
      BY ThreadsConstants
    <3>2. PICK n \in Nat : k' = rt_timer_start(j, t, n)
      BY <2>2, <3>1
    <3>3. t \notin Leaving /\ j.stat[t] = SUSPEND
      BY <1>1, <1>2, <1>4 DEF IInv, KInv
    <3>4. KInv(k', Leaving) /\ TimerStarted(j, k', t)
      BY <1>3, <3>2, <3>3, StartTimer
    <3>. QED
      BY <1>3, <1>4, <3>4 DEF TimerStarted
  <2>. QED
    BY <1>1, <2>1, <2>2 DEF j
<1>6. PICK f \in Frame : f.at = "sched" /\ pc' = [pc EXCEPT ![t] = f]
  <2>1. PICK f \in {Scheduling(t), In("sleep", "sched", t)} : pc' = [pc EXCEPT ![t] = f]
    BY <1>1
  <2>2. f \in Frame /\ f.at = "sched"
    BY <2>1, FrameFields DEF Call, Step
  <2>. QED
    BY <2>1, <2>2
<1>7. \A s \in Thread : pc'[s] = IF s = t THEN f ELSE pc[s]
  BY <1>6, TypeFacts
<1>8. Leaving' = Leaving
  BY <1>1, <1>6, <1>7, LeavingSame
<1>9. TypeOK'
  <2>1. pc' \in [Thread -> Frame]
    BY <1>6, TypeFacts
  <2>. QED
    BY <1>1, <1>5, <2>1 DEF IInv, TypeOK, KInv
<1>10. \A s \in Thread : k'.stat[s] = IF s = t THEN SUSPEND ELSE k.stat[s]
  BY <1>2, <1>5
<1>11. ASSUME NEW s \in Thread, pc'[s].at \in Acting
       PROVE  /\ pc'[s] = pc[s]
              /\ k'.stat[pc[s].arg] = k.stat[pc[s].arg]
              /\ pc[s].arg \in Range(k'.timers) => pc[s].arg \in Range(k.timers)
  <2>1. s # t /\ pc'[s] = pc[s]
    BY <1>6, <1>7, <1>11 DEF Acting
  <2>2. pc[s].arg # t /\ pc[s].arg \in Thread
    BY <1>1, <1>11, <2>1, CallerIsUnclaimed, TypeFacts
  <2>. QED
    BY <1>5, <1>10, <2>1, <2>2
<1>12. k'.stat[Idle] = READY /\ pc'[Idle].at \in {"run", "free"}
  BY <1>1, <1>7, <1>10, TypeFacts DEF IInv, LifeInv
<1>13. k'.stat[k'.cur] # CLOSE
  BY <1>1, <1>5, <1>10, StatesDiffer
<1>14. \A u \in Thread : \/ k'.stat[u] = k.stat[u]
                         \/ k.stat[u] # CLOSE /\ k'.stat[u] \in {READY, SUSPEND}
  BY <1>2, <1>10, StatesDiffer
<1>. QED
  BY <1>1, <1>5, <1>8, <1>9, <1>11, <1>12, <1>13, <1>14, OrdinaryStep

\* The entry function of a thread returns.
LEMMA ExitStep ==
    ASSUME IInv, NEW t \in Thread, rt_thread_exit(t)
    PROVE  IInv'
<1>. DEFINE closed == rt_timer_stop([rt_schedule_remove_thread(k, t)
                                        EXCEPT !.stat[t] = CLOSE], t)
            system == obj[t] = "static" /\ t \notin CleanupThread
<1>1. /\ t = k.cur /\ t # Idle /\ pc[t].at = "run" /\ isr' = isr /\ k.lock = 0
      /\ k' = IF system THEN closed ELSE [closed EXCEPT !.defunct = <<t>> \o closed.defunct]
      /\ obj' = IF system THEN [obj EXCEPT ![t] = "detached"] ELSE obj
      /\ pc' = [pc EXCEPT ![t] = Scheduling(t)]
  BY DEF rt_thread_exit, Calls, Executes, Goto
<1>2. /\ KInv(closed, Leaving)
      /\ closed.stat = [k.stat EXCEPT ![t] = CLOSE]
      /\ closed.cur = k.cur /\ closed.lock = k.lock
      /\ Range(closed.timers) \subseteq Range(k.timers)
  BY <1>1, CloseCurrent, ZenonT(60) DEF IInv
<1>. HIDE DEF closed, system
<1>3. closed.stat[t] = CLOSE /\ closed \in KernelState
  BY <1>2, TypeFacts DEF KInv
<1>4. /\ KInv(k', Leaving)
      /\ k'.stat = closed.stat /\ k'.cur = closed.cur /\ k'.lock = closed.lock
      /\ k'.timers = closed.timers
  <2>1. CASE system
    BY <1>1, <1>2, <2>1
  <2>2. CASE ~system
    <3>. DEFINE r == <<t>> \o closed.defunct
    <3>1. k' = [closed EXCEPT !.defunct = r]
      BY <1>1, <2>2
    <3>2. KInv([closed EXCEPT !.defunct = r], Leaving)
      BY <1>2, <1>3, DefunctKInv
    <3>. HIDE DEF r
    <3>3. /\ k'.stat = closed.stat /\ k'.cur = closed.cur /\ k'.lock = closed.lock
          /\ k'.timers = closed.timers
      BY <1>3, <3>1 DEF KernelState
    <3>. QED
      BY <3>1, <3>2, <3>3
  <2>. QED
    BY <2>1, <2>2
<1>5. /\ \A s \in Thread : pc'[s] = IF s = t THEN Scheduling(t) ELSE pc[s]
      /\ Scheduling(t).at = "sched" /\ Scheduling(t) \in Frame
  BY <1>1, TypeFacts, FrameFields
<1>6. Leaving' = Leaving
  BY <1>1, <1>5, LeavingSame
<1>7. TypeOK'
  <2>1. pc' \in [Thread -> Frame]
    BY <1>1, <1>5, TypeFacts
  <2>2. obj' \in [Thread -> ObjectState]
    BY <1>1, TypeFacts DEF ObjectState
  <2>. QED
    BY <1>1, <1>4, <2>1, <2>2 DEF IInv, TypeOK, KInv
<1>8. \A s \in Thread : k'.stat[s] = IF s = t THEN CLOSE ELSE k.stat[s]
  BY <1>2, <1>4, TypeFacts
<1>9. ASSUME NEW s \in Thread
      PROVE  Undisturbed(s)'
  <2>1. CASE s = t
    BY <1>5, <2>1 DEF Undisturbed
  <2>2. CASE s # t
    <3>1. pc[s].at \in Acting => pc[s].arg # t /\ pc[s].arg \in Thread
      BY <1>1, CallerIsUnclaimed, TypeFacts
    <3>2. pc'[s] = pc[s]
      BY <1>5, <2>2
    <3>. QED
      BY <1>2, <1>4, <1>6, <1>8, <3>1, <3>2, UndisturbedStep
  <2>. QED
    BY <2>1, <2>2
<1>10. CallsUndisturbed'
  BY <1>5, <1>9 DEF IInv, CallsUndisturbed, Moving
<1>11. LifeInv'
  <2>1. \A s \in Thread : obj'[s] \in {"detached", "freed"} => k'.stat[s] = CLOSE
    BY <1>1, <1>8, TypeFacts DEF IInv, LifeInv
  <2>2. k'.cur = t /\ k'.stat[t] # INIT
    BY <1>1, <1>2, <1>4, <1>8, StatesDiffer
  <2>3. k'.stat[Idle] = READY /\ pc'[Idle].at \in {"run", "free"}
    BY <1>1, <1>5, <1>8, TypeFacts DEF IInv, LifeInv
  <2>4. pc'[t].at = "sched" /\ k'.lock = 0
    BY <1>1, <1>2, <1>4, <1>5
  <2>5. \A s \in Thread : k'.stat[s] = CLOSE \/ s \in Leaving' => pc'[s].at \notin Acting
    BY <1>5, <1>6, <1>8 DEF IInv, LifeInv, Acting
  <2>. QED
    BY <2>1, <2>2, <2>3, <2>4, <2>5 DEF LifeInv
<1>. QED
  BY <1>4, <1>6, <1>7, <1>10, <1>11 DEF IInv

-----------------------------------------------------------------------------
(* Calls on another thread *)

\* The running thread takes up thread u, on which no call is at work.
LEMMA TakeUpStep ==
    ASSUME IInv, NEW t \in Thread, t = k.cur, t # Idle, pc[t].at = "run",
           NEW u \in Thread, ~Claimed(u),
           NEW f \in Frame, f.at \in Moving, f.arg = u,
           pc' = [pc EXCEPT ![t] = f], obj' = obj, isr' = isr,
           KInv(k', Leaving'), Leaving' \subseteq Leaving \cup {u},
           u \in Leaving' => u # t /\ pc[u].at \notin Acting,
           Undisturbed(t)',
           k'.cur = k.cur, Range(k'.timers) \subseteq Range(k.timers),
           \A s \in Thread : \/ k'.stat[s] = k.stat[s]
                             \/ s = u /\ k.stat[s] = INIT /\ k'.stat[s] = SUSPEND
    PROVE  IInv'
<1>1. \A s \in Thread : pc'[s] = IF s = t THEN f ELSE pc[s]
  BY TypeFacts
<1>2. TypeOK'
  <2>1. pc' \in [Thread -> Frame]
    BY TypeFacts
  <2>. QED
    BY <2>1 DEF IInv, TypeOK, KInv
<1>3. ASSUME NEW s \in Thread, s # t
      PROVE  Undisturbed(s)'
  <2>1. pc'[s] = pc[s]
    BY <1>1, <1>3
  <2>2. pc[s].at \in Acting => pc[s].arg # u /\ pc[s].arg \in Thread
    BY TypeFacts DEF Claimed
  <2>. QED
    BY <2>1, <2>2, UndisturbedStep
<1>4. CallsUndisturbed'
  <2>1. \A s \in Thread : Undisturbed(s)'
    BY <1>3
  <2>2. ASSUME NEW r \in Thread, NEW s \in Thread, r # s,
               pc'[r].at \in Moving, pc'[s].at \in Moving
        PROVE  pc'[r].arg # pc'[s].arg
    <3>1. \A x \in Thread : pc[x].at \in Moving => pc[x].arg # u
      BY DEF Claimed, Moving, Acting
    <3>. QED
      BY <1>1, <2>2, <3>1 DEF IInv, CallsUndisturbed
  <2>. QED
    BY <2>1, <2>2 DEF CallsUndisturbed
<1>5. LifeInv'
  <2>1. \A s \in Thread : obj'[s] \in {"detached", "freed"} => k'.stat[s] = CLOSE
    BY StatesDiffer DEF IInv, LifeInv
  <2>2. k'.stat[k'.cur] # INIT
    BY StatesDiffer DEF IInv, LifeInv
  <2>3. k'.stat[Idle] = READY /\ pc'[Idle].at \in {"run", "free"}
    BY <1>1, TypeFacts, StatesDiffer DEF IInv, LifeInv
  <2>4. k'.stat[k'.cur] # CLOSE
    BY CallerIsOpen, StatesDiffer
  <2>5. ASSUME NEW s \in Thread, k'.stat[s] = CLOSE \/ s \in Leaving'
        PROVE  pc'[s].at \notin Acting
    <3>1. s # t
      BY <2>4, <2>5 DEF KInv
    <3>2. k.stat[s] = CLOSE \/ s \in Leaving \/ (s = u /\ u \in Leaving')
      BY <2>5, StatesDiffer
    <3>. QED
      BY <1>1, <3>1, <3>2 DEF IInv, LifeInv
  <2>. QED
    BY <2>1, <2>2, <2>3, <2>4, <2>5 DEF LifeInv
<1>. QED
  BY <1>2, <1>4, <1>5 DEF IInv

\* rt_thread_startup: the priorities, and the state its rt_thread_resume tests.
LEMMA StartupStep ==
    ASSUME IInv, Disciplined, NEW t \in Thread, NEW u \in Thread, rt_thread_startup(t, u)
    PROVE  IInv'
<1>1. /\ t = k.cur /\ t # Idle /\ pc[t].at = "run" /\ obj' = obj /\ isr' = isr
      /\ ~Claimed(u) /\ u \notin Range(k.timers) /\ k.stat[u] = INIT
      /\ k' = [k EXCEPT !.stat[u] = SUSPEND, !.prio[u] = InitPriority[u]]
      /\ pc' = [pc EXCEPT ![t] = In("startup", "detach", u)]
  BY DEF rt_thread_startup, Calls, Executes, Goto, MayTarget
<1>2. u # k.cur /\ \A p \in Priority : u \notin Range(k.ready[p])
  BY <1>1, QueueFacts, StatesDiffer DEF IInv, LifeInv
<1>3. InitPriority[u] \in Priority
  BY KernelConstants
<1>4. /\ k' \in KernelState
      /\ k'.stat = [k.stat EXCEPT ![u] = SUSPEND]
      /\ k'.prio = [k.prio EXCEPT ![u] = InitPriority[u]]
      /\ k'.cur = k.cur /\ k'.group = k.group /\ k'.ready = k.ready
      /\ k'.timers = k.timers /\ k'.defunct = k.defunct
  BY <1>1, <1>3, TypeFacts, StatesDiffer DEF KernelState
<1>5. k.prio \in [Thread -> Priority]
  BY TypeFacts DEF KernelState
<1>6. Changed(k, k', u) /\ k'.stat[u] = SUSPEND
  BY <1>4, <1>5, TypeFacts DEF Changed
<1>7. u \notin Range(k.defunct)
  BY <1>1, StatesDiffer DEF IInv, KInv
<1>8. KInv(k', Leaving)
  BY <1>1, <1>2, <1>6, <1>7, StatesDiffer, ChangeKInv DEF IInv
<1>. DEFINE f == In("startup", "detach", u)
<1>9. f \in Frame /\ f.at = "detach" /\ f.arg = u
  BY FrameFields DEF Call, Step
<1>. HIDE DEF f
<1>10. \A s \in Thread : pc'[s] = IF s = t THEN f ELSE pc[s]
  BY <1>1, TypeFacts DEF f
<1>11. Leaving' = Leaving
  BY <1>1, <1>9, <1>10, LeavingSame
<1>12. Undisturbed(t)'
  BY <1>1, <1>2, <1>4, <1>6, <1>9, <1>10 DEF Undisturbed
<1>13. \A s \in Thread : \/ k'.stat[s] = k.stat[s]
                         \/ s = u /\ k.stat[s] = INIT /\ k'.stat[s] = SUSPEND
  BY <1>1, <1>4, TypeFacts
<1>14. u \notin Leaving
  BY <1>1 DEF Claimed, Leaving, Acting
<1>15. pc' = [pc EXCEPT ![t] = f] /\ f.at \in Moving
  BY <1>1, <1>9 DEF f, Moving
<1>16. KInv(k', Leaving') /\ Leaving' \subseteq Leaving \cup {u} /\ u \notin Leaving'
  BY <1>8, <1>11, <1>14
<1>17. k'.cur = k.cur /\ Range(k'.timers) \subseteq Range(k.timers)
  BY <1>4
<1>. QED
  BY <1>1, <1>9, <1>12, <1>13, <1>15, <1>16, <1>17, TakeUpStep

\* rt_thread_resume has tested the state of u and has not yet touched a list.
LEMMA ResumeCallStep ==
    ASSUME IInv, Disciplined, NEW t \in Thread, NEW u \in Thread, rt_thread_resume_call(t, u)
    PROVE  IInv'
<1>1. /\ t = k.cur /\ t # Idle /\ pc[t].at = "run" /\ obj' = obj /\ isr' = isr
      /\ ~Claimed(u) /\ u \notin Range(k.timers) /\ k.stat[u] = SUSPEND
      /\ k' = k
      /\ pc' = [pc EXCEPT ![t] = In("resume", "detach", u)]
  BY DEF rt_thread_resume_call, Calls, Executes, Goto, MayTarget
<1>. DEFINE f == In("resume", "detach", u)
<1>2. f \in Frame /\ f.at = "detach" /\ f.arg = u
  BY FrameFields DEF Call, Step
<1>. HIDE DEF f
<1>3. \A s \in Thread : pc'[s] = IF s = t THEN f ELSE pc[s]
  BY <1>1, TypeFacts DEF f
<1>4. Leaving' = Leaving
  BY <1>1, <1>2, <1>3, LeavingSame
<1>5. Undisturbed(t)'
  BY <1>1, <1>2, <1>3 DEF Undisturbed
<1>6. u \notin Leaving
  BY <1>1 DEF Claimed, Leaving, Acting
<1>7. pc' = [pc EXCEPT ![t] = f] /\ f.at \in Moving /\ KInv(k', Leaving')
  BY <1>1, <1>2, <1>4 DEF f, Moving, IInv
<1>. QED
  BY <1>1, <1>2, <1>4, <1>5, <1>6, <1>7, TakeUpStep

\* The first section of rt_thread_delete and rt_thread_detach.
LEMMA DeleteStep ==
    ASSUME IInv, Disciplined, NEW t \in Thread, NEW u \in Thread, rt_thread_delete(t, u)
    PROVE  IInv'
<1>1. /\ t = k.cur /\ t # Idle /\ pc[t].at = "run" /\ obj' = obj /\ isr' = isr
      /\ ~Claimed(u) /\ u \notin Range(k.timers) /\ k.stat[u] # CLOSE
      /\ u # Idle /\ u # t /\ pc[u].at \notin Acting
      /\ k' = IF k.stat[u] = INIT THEN k ELSE rt_schedule_remove_thread(k, u)
      /\ pc' = [pc EXCEPT ![t] = In(DeleteOp(u), "timer", u)]
  BY DEF rt_thread_delete, Calls, Executes, Goto, MayTarget
<1>. DEFINE f == In(DeleteOp(u), "timer", u)
<1>2. f \in Frame /\ f.at = "timer" /\ f.arg = u
  BY FrameFields DEF Call, Step, DeleteOp
<1>. HIDE DEF f
<1>3. \A s \in Thread : pc'[s] = IF s = t THEN f ELSE pc[s]
  BY <1>1, TypeFacts DEF f
<1>4. Leaving' = Leaving \cup {u}
  <2>1. pc[t].at \notin {"timer", "close"}
    BY <1>1
  <2>. QED
    BY <1>2, <1>3, <2>1 DEF Leaving
<1>5. /\ KInv(k', Leaving \cup {u})
      /\ k'.stat = k.stat /\ k'.cur = k.cur /\ k'.timers = k.timers
  <2>1. CASE k.stat[u] = INIT
    <3>1. \A p \in Priority : u \notin Range(k.ready[p])
      BY <2>1, QueueFacts, StatesDiffer DEF IInv
    <3>. QED
      BY <1>1, <2>1, <3>1, LeaveKInv DEF IInv
  <2>2. CASE k.stat[u] # INIT
    <3>1. KInv(k', Leaving \cup {u})
      BY <1>1, <2>2, RemoveOther DEF IInv
    <3>2. Unlinked(k, k', u)
      BY <1>1, <2>2, RemoveThread, QueueFacts DEF IInv
    <3>. QED
      BY <3>1, <3>2 DEF Unlinked
  <2>. QED
    BY <2>1, <2>2
<1>6. Undisturbed(t)'
  <2>1. /\ u # k'.cur /\ u \notin Range(k'.timers)
        /\ \A p \in Priority : u \notin Range(k'.ready[p])
    BY <1>5 DEF KInv
  <2>. QED
    BY <1>1, <1>2, <1>3, <2>1 DEF Undisturbed
<1>7. pc' = [pc EXCEPT ![t] = f] /\ f.at \in Moving
  BY <1>1, <1>2 DEF f, Moving
<1>. QED
  BY <1>1, <1>2, <1>4, <1>5, <1>6, <1>7, TakeUpStep

\* The running thread t is at a step of a call on thread u.
LEMMA TargetFacts ==
    ASSUME IInv, NEW t \in Thread, t = k.cur, pc[t].at \in Acting
    PROVE  /\ pc[t].arg \in Thread /\ k.stat[t] \in {READY, SUSPEND}
           /\ t \notin Leaving /\ Undisturbed(t)
           /\ \A s \in Thread \ {t} :
                pc[t].at \in Moving /\ pc[s].at \in Moving => pc[s].arg # pc[t].arg
<1>1. pc[k.cur].at # "sched"
  BY DEF Acting
<1>2. k.stat[t] \in {READY, SUSPEND}
  BY <1>1, CallerIsOpen
<1>. QED
  BY <1>2, TypeFacts DEF IInv, KInv, CallsUndisturbed

\* Any step of the running thread on its target: its own frame is given, the
\* states of the others do not change.
LEMMA TargetStep ==
    ASSUME IInv, NEW t \in Thread, t = k.cur, pc[t].at \in Acting,
           NEW u \in Thread, pc[t].arg = u,
           NEW f \in Frame, pc' = [pc EXCEPT ![t] = f],
           f.at \in Acting => f.arg = u /\ (f.at \in Moving => pc[t].at \in Moving),
           f.at \in {"run", "sched"} \cup Acting, t = Idle => f.at = "run",
           obj' \in [Thread -> ObjectState], isr' = isr,
           \A s \in Thread : obj'[s] \in {"detached", "freed"} => k'.stat[s] = CLOSE,
           KInv(k', Leaving'), Leaving' \subseteq Leaving,
           Undisturbed(t)',
           k'.cur = k.cur, Range(k'.timers) \subseteq Range(k.timers),
           \A s \in Thread \ {u} : k'.stat[s] = k.stat[s],
           k'.stat[u] = k.stat[u]
              \/ (pc[t].at \in Moving /\ (k.stat[u] = CLOSE => k'.stat[u] = CLOSE)),
           k'.stat[t] \in {READY, SUSPEND}, k'.stat[Idle] = READY,
           k'.stat[u] = CLOSE => pc'[u].at \notin Acting
    PROVE  IInv'
<1>1. \A s \in Thread : pc'[s] = IF s = t THEN f ELSE pc[s]
  BY TypeFacts
<1>2. TypeOK'
  <2>1. pc' \in [Thread -> Frame]
    BY TypeFacts
  <2>. QED
    BY <2>1 DEF IInv, TypeOK, KInv
<1>3. ASSUME NEW s \in Thread, s # t
      PROVE  Undisturbed(s)'
  <2>1. pc'[s] = pc[s] /\ Undisturbed(s)
    BY <1>1, <1>3 DEF IInv, CallsUndisturbed
  <2>2. CASE pc[s].at \in Acting /\ pc[s].arg = u /\ k'.stat[u] # k.stat[u]
    <3>1. pc[t].at \in Moving /\ pc[s].at \notin Moving
      BY <1>3, <2>2, TargetFacts
    <3>2. k.stat[u] = CLOSE
      BY <2>1, <2>2, <3>1 DEF Undisturbed, Acting, Moving
    <3>. QED
      BY <2>2, <3>2
  <2>3. CASE ~(pc[s].at \in Acting /\ pc[s].arg = u /\ k'.stat[u] # k.stat[u])
    <3>1. pc[s].at \in Acting => pc[s].arg \in Thread /\ k'.stat[pc[s].arg] = k.stat[pc[s].arg]
      BY <2>3, TypeFacts
    <3>. QED
      BY <2>1, <3>1, UndisturbedStep
  <2>. QED
    BY <2>2, <2>3

<1>4. CallsUndisturbed'
  <2>1. \A s \in Thread : Undisturbed(s)'
    BY <1>3
  <2>2. ASSUME NEW r \in Thread, NEW s \in Thread, r # s,
               pc'[r].at \in Moving, pc'[s].at \in Moving
        PROVE  pc'[r].arg # pc'[s].arg
    <3>1. \A x \in Thread : pc'[x].at \in Moving =>
             pc[x].at \in Moving /\ pc[x].arg = pc'[x].arg
      BY <1>1 DEF Moving, Acting
    <3>. QED
      BY <2>2, <3>1 DEF IInv, CallsUndisturbed
  <2>. QED
    BY <2>1, <2>2 DEF CallsUndisturbed
<1>5. LifeInv'
  <2>1. k'.stat[k'.cur] # INIT /\ k'.stat[k'.cur] # CLOSE
    BY StatesDiffer
  <2>2. pc'[Idle].at \in {"run", "free"}
    BY <1>1, TypeFacts DEF IInv, LifeInv
  <2>3. ASSUME NEW s \in Thread, k'.stat[s] = CLOSE \/ s \in Leaving'
        PROVE  pc'[s].at \notin Acting
    <3>1. s # t
      BY <2>1, <2>3 DEF KInv
    <3>2. CASE k'.stat[s] = k.stat[s] \/ s \in Leaving'
      <4>1. k.stat[s] = CLOSE \/ s \in Leaving
        BY <2>3, <3>2
      <4>. QED
        BY <1>1, <3>1, <4>1 DEF IInv, LifeInv
    <3>3. CASE k'.stat[s] # k.stat[s] /\ s \notin Leaving'
      BY <2>3, <3>3
    <3>. QED
      BY <3>2, <3>3
  <2>. QED
    BY <2>1, <2>2, <2>3 DEF LifeInv
<1>. QED
  BY <1>2, <1>4, <1>5 DEF IInv

\* What TargetStep asks of the frames of a step of the running thread.
LEMMA TargetFrame ==
    ASSUME IInv, NEW t \in Thread, Executes(t), pc[t].at \in Acting,
           NEW f \in Frame, pc' = [pc EXCEPT ![t] = f],
           f.at \in {"timer", "close"} =>
               pc[t].at \in {"timer", "close"} /\ f.arg = pc[t].arg,
           pc[t].at \in {"timer", "close"} => f.at \in {"timer", "close"}
    PROVE  Leaving' = Leaving
<1>1. \A s \in Thread : pc'[s] = IF s = t THEN f ELSE pc[s]
  BY TypeFacts
<1>2. \A s \in Thread : /\ pc'[s].at \in {"timer", "close"} <=> pc[s].at \in {"timer", "close"}
                        /\ pc'[s].at \in {"timer", "close"} => pc'[s].arg = pc[s].arg
  BY <1>1
<1>. QED
  BY <1>2 DEF Leaving

\* The first section of rt_thread_resume.
LEMMA ResumeDetachStepIInv ==
    ASSUME IInv, NEW t \in Thread, ResumeDetachStep(t)
    PROVE  IInv'
<1>. DEFINE u == pc[t].arg
<1>1. PICK op \in {"startup", "resume"} : pc' = [pc EXCEPT ![t] = In(op, "insert", u)]
  BY DEF ResumeDetachStep, Goto
<1>2. /\ t = k.cur /\ Executes(t) /\ pc[t].at = "detach"
      /\ k' = ResumeDetach(k, u) /\ obj' = obj /\ isr' = isr
  BY DEF ResumeDetachStep, Continues, Executes
<1>3. PICK f \in Frame : f.at = "insert" /\ f.arg = u /\ pc' = [pc EXCEPT ![t] = f]
  <2>1. op \in Call /\ "insert" \in Step /\ u \in Thread
    BY TypeFacts DEF Call, Step
  <2>2. /\ In(op, "insert", u) \in Frame
        /\ In(op, "insert", u).at = "insert" /\ In(op, "insert", u).arg = u
    BY <2>1, FrameFields
  <2>. QED
    BY <1>1, <2>2
<1>4. /\ u \in Thread /\ k.stat[t] \in {READY, SUSPEND} /\ k.stat[u] = SUSPEND
      /\ u \notin Range(k.timers) /\ (u # k.cur \/ u = t)
  BY <1>2, TargetFacts DEF Undisturbed, Acting
<1>. HIDE DEF u
<1>5. \A p \in Priority : u \notin Range(k.ready[p])
  BY <1>4, QueueFacts, StatesDiffer DEF IInv
<1>6. SameQueues(k, k') /\ KInv(k', Leaving) /\ u \notin Range(k'.timers)
  BY <1>2, <1>4, <1>5, ResumeDetachKInv DEF IInv
<1>7. Leaving' = Leaving
  BY <1>2, <1>3, TargetFrame DEF Acting
<1>8. /\ k'.stat = k.stat /\ k'.cur = k.cur
      /\ Range(k'.timers) \subseteq Range(k.timers)
  BY <1>6 DEF SameQueues
<1>9. pc'[t] = f
  BY <1>3, TypeFacts
<1>10. Undisturbed(t)'
  BY <1>3, <1>4, <1>6, <1>8, <1>9 DEF Undisturbed
<1>11. t # Idle /\ k.stat[Idle] = READY
       /\ \A s \in Thread : obj[s] \in {"detached", "freed"} => k.stat[s] = CLOSE
  BY <1>2 DEF IInv, LifeInv
<1>12. /\ pc[t].at \in Acting /\ pc[t].at \in Moving /\ f.at \in Acting
       /\ pc[t].arg = u /\ obj' \in [Thread -> ObjectState]
  BY <1>2, <1>3, TypeFacts DEF Acting, Moving, u
<1>13. KInv(k', Leaving') /\ Leaving' \subseteq Leaving
  BY <1>6, <1>7
<1>14. k'.stat[u] # CLOSE
  BY <1>4, <1>8, StatesDiffer
<1>15. \A s \in Thread : obj'[s] \in {"detached", "freed"} => k'.stat[s] = CLOSE
  BY <1>2, <1>8, <1>11
<1>16. k'.stat[t] \in {READY, SUSPEND} /\ k'.stat[Idle] = READY
  BY <1>4, <1>8, <1>11
<1>17. /\ f.at \in Acting => f.arg = u /\ (f.at \in Moving => pc[t].at \in Moving)
       /\ f.at \in {"run", "sched"} \cup Acting /\ (t = Idle => f.at = "run")
       /\ k'.stat[u] = CLOSE => pc'[u].at \notin Acting
  BY <1>3, <1>11, <1>12, <1>14
<1>18. /\ \A s \in Thread \ {u} : k'.stat[s] = k.stat[s]
       /\ k'.stat[u] = k.stat[u]
             \/ (pc[t].at \in Moving /\ (k.stat[u] = CLOSE => k'.stat[u] = CLOSE))
  BY <1>8
<1>. QED
  BY <1>2, <1>3, <1>4, <1>8, <1>10, <1>12, <1>13, <1>15, <1>16, <1>17, <1>18, TargetStep

\* The second section of rt_thread_resume.
LEMMA InsertSteps ==
    ASSUME IInv, NEW t \in Thread, StartupInsertStep(t) \/ ResumeInsertStep(t)
    PROVE  IInv'
<1>. DEFINE u == pc[t].arg
            j == rt_schedule_insert_thread(k, u)
<1>1. /\ t = k.cur /\ Executes(t) /\ pc[t].at = "insert"
      /\ k' = j \/ k' = [j EXCEPT !.owed = TRUE]
      /\ obj' = obj /\ isr' = isr
      /\ pc' = [pc EXCEPT ![t] = Running(t)] \/ pc' = [pc EXCEPT ![t] = Scheduling(t)]
  BY DEF StartupInsertStep, ResumeInsertStep, Continues, Executes, Goto
<1>2. PICK f \in Frame : f.at \in {"run", "sched"} /\ pc' = [pc EXCEPT ![t] = f]
  <2>1. /\ Running(t) \in Frame /\ Running(t).at = "run"
        /\ Scheduling(t) \in Frame /\ Scheduling(t).at = "sched"
    BY FrameFields
  <2>2. CASE pc' = [pc EXCEPT ![t] = Running(t)]
    BY <2>1, <2>2
  <2>3. CASE pc' = [pc EXCEPT ![t] = Scheduling(t)]
    BY <2>1, <2>3
  <2>. QED
    BY <1>1, <2>2, <2>3
<1>3. /\ u \in Thread /\ k.stat[t] \in {READY, SUSPEND} /\ k.stat[u] = SUSPEND
      /\ u \notin Range(k.timers) /\ (u # k.cur \/ u = t)
  BY <1>1, TargetFacts DEF Undisturbed, Acting
<1>4. u \notin Leaving
  BY <1>1, TargetFacts DEF Leaving, Acting, Moving
<1>. HIDE DEF u
<1>5. \A p \in Priority : u \notin Range(k.ready[p])
  BY <1>3, QueueFacts, StatesDiffer DEF IInv
<1>6. /\ KInv(j, Leaving \ {u}) /\ j.stat = [k.stat EXCEPT ![u] = READY]
      /\ j.cur = k.cur /\ j.timers = k.timers
  <2>1. KInv(k, Leaving) /\ k.stat[u] # CLOSE /\ u \notin Range(k.timers) /\ u \in Thread
    BY <1>3, StatesDiffer DEF IInv
  <2>. QED
    BY <1>5, <2>1, InsertThread
<1>. HIDE DEF j
<1>7. KInv(j, Leaving) /\ j \in KernelState
  <2>1. Leaving \ {u} = Leaving
    BY <1>4
  <2>. QED
    BY <1>6, <2>1 DEF KInv
<1>8. /\ KInv(k', Leaving)
      /\ k'.stat = j.stat /\ k'.cur = k.cur /\ k'.timers = k.timers
  <2>1. CASE k' = j
    BY <1>6, <1>7, <2>1
  <2>2. CASE k' = [j EXCEPT !.owed = TRUE]
    <3>1. /\ k' \in KernelState
          /\ k'.stat = j.stat /\ k'.prio = j.prio /\ k'.cur = j.cur
          /\ k'.group = j.group /\ k'.ready = j.ready /\ k'.timers = j.timers
          /\ k'.defunct = j.defunct
      BY <1>7, <2>2 DEF KernelState
    <3>. QED
      BY <1>6, <1>7, <3>1, SmallKInv
  <2>. QED
    BY <1>1, <2>1, <2>2
<1>9. \A s \in Thread : k'.stat[s] = IF s = u THEN READY ELSE k.stat[s]
  BY <1>6, <1>8, TypeFacts
<1>10. Leaving' = Leaving
  BY <1>1, <1>2, TargetFrame DEF Acting
<1>11. pc'[t] = f
  BY <1>2, TypeFacts
<1>12. Undisturbed(t)'
  BY <1>2, <1>11 DEF Undisturbed
<1>13. t # Idle /\ k.stat[Idle] = READY /\ Idle \in Thread
       /\ \A s \in Thread : obj[s] \in {"detached", "freed"} => k.stat[s] = CLOSE
  BY <1>1, TypeFacts DEF IInv, LifeInv
<1>14. /\ pc[t].at \in Acting /\ pc[t].at \in Moving /\ f.at \notin Acting
       /\ pc[t].arg = u /\ obj' \in [Thread -> ObjectState]
  BY <1>1, <1>2, TypeFacts DEF Acting, Moving, u
<1>15. KInv(k', Leaving') /\ Leaving' \subseteq Leaving
  BY <1>8, <1>10
<1>16. k'.stat[u] # CLOSE /\ k.stat[u] # CLOSE
  BY <1>3, <1>9, StatesDiffer
<1>17. \A s \in Thread : obj'[s] \in {"detached", "freed"} => k'.stat[s] = CLOSE
  BY <1>1, <1>3, <1>9, <1>13, StatesDiffer
<1>18. k'.stat[t] \in {READY, SUSPEND} /\ k'.stat[Idle] = READY
  BY <1>3, <1>9, <1>13
<1>19. \A s \in Thread \ {u} : k'.stat[s] = k.stat[s]
  BY <1>9
<1>20. /\ f.at \in Acting => f.arg = u /\ (f.at \in Moving => pc[t].at \in Moving)
       /\ f.at \in {"run", "sched"} \cup Acting /\ (t = Idle => f.at = "run")
       /\ k'.stat[u] = CLOSE => pc'[u].at \notin Acting
       /\ k'.stat[u] = k.stat[u]
             \/ (pc[t].at \in Moving /\ (k.stat[u] = CLOSE => k'.stat[u] = CLOSE))
  BY <1>2, <1>13, <1>14, <1>16
<1>21. k'.cur = k.cur /\ Range(k'.timers) \subseteq Range(k.timers)
  BY <1>8
<1>. QED
  BY <1>1, <1>2, <1>3, <1>12, <1>14, <1>15, <1>17, <1>18, <1>19, <1>20, <1>21, TargetStep, ZenonT(60)

\* The second section of rt_thread_delete stops the timer.
LEMMA DeleteTimerStepIInv ==
    ASSUME IInv, NEW t \in Thread, DeleteTimerStep(t)
    PROVE  IInv'
<1>. DEFINE u == pc[t].arg
<1>1. PICK op \in {"delete", "detach"} : pc' = [pc EXCEPT ![t] = In(op, "close", u)]
  BY DEF DeleteTimerStep, Goto
<1>2. /\ t = k.cur /\ Executes(t) /\ pc[t].at = "timer"
      /\ k' = rt_timer_stop(k, u) /\ obj' = obj /\ isr' = isr
  BY DEF DeleteTimerStep, Continues, Executes
<1>3. PICK f \in Frame : f.at = "close" /\ f.arg = u /\ pc' = [pc EXCEPT ![t] = f]
  <2>1. op \in Call /\ "close" \in Step /\ u \in Thread
    BY TypeFacts DEF Call, Step
  <2>2. /\ In(op, "close", u) \in Frame
        /\ In(op, "close", u).at = "close" /\ In(op, "close", u).arg = u
    BY <2>1, FrameFields
  <2>. QED
    BY <1>1, <2>2
<1>4. /\ u \in Thread /\ k.stat[t] \in {READY, SUSPEND} /\ u # Idle
      /\ u \in Leaving
  BY <1>2, TargetFacts DEF Undisturbed, Acting, Leaving
<1>. HIDE DEF u
<1>5. SameQueues(k, k') /\ KInv(k', Leaving)
  BY <1>2, <1>4, StopTimer, SameKInv DEF IInv
<1>6. Leaving' = Leaving
  BY <1>2, <1>3, TargetFrame DEF Acting, u
<1>7. /\ k'.stat = k.stat /\ k'.cur = k.cur
      /\ Range(k'.timers) \subseteq Range(k.timers)
  BY <1>5 DEF SameQueues
<1>8. pc'[t] = f
  BY <1>3, TypeFacts
<1>9. Undisturbed(t)'
  <2>1. /\ u # k'.cur /\ u \notin Range(k'.timers)
        /\ \A p \in Priority : u \notin Range(k'.ready[p])
    BY <1>4, <1>5 DEF KInv
  <2>. QED
    BY <1>3, <1>4, <1>8, <2>1 DEF Undisturbed
<1>10. t # Idle /\ k.stat[Idle] = READY
       /\ \A s \in Thread : obj[s] \in {"detached", "freed"} => k.stat[s] = CLOSE
  BY <1>2 DEF IInv, LifeInv
<1>11. /\ pc[t].at \in Acting /\ pc[t].at \in Moving /\ f.at \in Acting
       /\ pc[t].arg = u /\ obj' \in [Thread -> ObjectState]
  BY <1>2, <1>3, TypeFacts DEF Acting, Moving, u
<1>12. KInv(k', Leaving') /\ Leaving' \subseteq Leaving
  BY <1>5, <1>6
<1>13. pc'[u].at \notin Acting
  <2>1. u # t /\ pc[u].at \notin Acting
    BY <1>2, <1>4 DEF IInv, KInv, LifeInv
  <2>. QED
    BY <1>3, <1>4, <2>1, TypeFacts
<1>14. \A s \in Thread : obj'[s] \in {"detached", "freed"} => k'.stat[s] = CLOSE
  BY <1>2, <1>7, <1>10
<1>15. k'.stat[t] \in {READY, SUSPEND} /\ k'.stat[Idle] = READY
  BY <1>4, <1>7, <1>10
<1>16. /\ f.at \in Acting => f.arg = u /\ (f.at \in Moving => pc[t].at \in Moving)
       /\ f.at \in {"run", "sched"} \cup Acting /\ (t = Idle => f.at = "run")
       /\ k'.stat[u] = CLOSE => pc'[u].at \notin Acting
  BY <1>3, <1>10, <1>11, <1>13
<1>17. /\ \A s \in Thread \ {u} : k'.stat[s] = k.stat[s]
       /\ k'.stat[u] = k.stat[u]
             \/ (pc[t].at \in Moving /\ (k.stat[u] = CLOSE => k'.stat[u] = CLOSE))
  BY <1>7
<1>. QED
  BY <1>2, <1>3, <1>4, <1>7, <1>9, <1>11, <1>12, <1>14, <1>15, <1>16, <1>17, TargetStep

\* The third section of rt_thread_delete closes the thread.
LEMMA DeleteCloseStepIInv ==
    ASSUME IInv, NEW t \in Thread, DeleteCloseStep(t)
    PROVE  IInv'
<1>. DEFINE u == pc[t].arg
<1>1. /\ t = k.cur /\ Executes(t) /\ pc[t].at = "close"
      /\ k' = [k EXCEPT !.stat[u] = CLOSE] /\ obj' = obj /\ isr' = isr
      /\ pc' = [pc EXCEPT ![t] = In("delete", "defunct", u)]
         \/ pc' = [pc EXCEPT ![t] = In("detach", "object", u)]
  BY DEF DeleteCloseStep, Continues, Executes, Goto
<1>2. PICK f \in Frame : /\ f.at \in {"defunct", "object"} /\ f.arg = u
                         /\ pc' = [pc EXCEPT ![t] = f]
  <2>1. /\ "delete" \in Call /\ "detach" \in Call
        /\ "defunct" \in Step /\ "object" \in Step /\ u \in Thread
    BY TypeFacts DEF Call, Step
  <2>2. /\ In("delete", "defunct", u) \in Frame /\ In("delete", "defunct", u).arg = u
        /\ In("delete", "defunct", u).at = "defunct"
    BY <2>1, FrameFields
  <2>3. /\ In("detach", "object", u) \in Frame /\ In("detach", "object", u).arg = u
        /\ In("detach", "object", u).at = "object"
    BY <2>1, FrameFields
  <2>4. CASE pc' = [pc EXCEPT ![t] = In("delete", "defunct", u)]
    BY <2>2, <2>4
  <2>5. CASE pc' = [pc EXCEPT ![t] = In("detach", "object", u)]
    BY <2>3, <2>5
  <2>. QED
    BY <1>1, <2>4, <2>5
<1>3. /\ u \in Thread /\ k.stat[t] \in {READY, SUSPEND} /\ u # Idle /\ u \in Leaving
      /\ \A s \in Thread \ {t} : pc[s].at \in Moving => pc[s].arg # u
  BY <1>1, TargetFacts DEF Undisturbed, Acting, Moving, Leaving
<1>4. pc[t].at \in Acting /\ pc[t].at \in Moving /\ pc[t].arg = u
  BY <1>1 DEF Acting, Moving
<1>. HIDE DEF u
<1>5. /\ u # k.cur /\ u \notin Range(k.timers) /\ pc[u].at \notin Acting
      /\ \A p \in Priority : u \notin Range(k.ready[p])
  BY <1>3 DEF IInv, KInv, LifeInv
<1>6. /\ k' \in KernelState /\ k'.stat = [k.stat EXCEPT ![u] = CLOSE]
      /\ k'.prio = k.prio /\ k'.cur = k.cur /\ k'.group = k.group
      /\ k'.ready = k.ready /\ k'.timers = k.timers /\ k'.defunct = k.defunct
  BY <1>1, TypeFacts, StatesDiffer DEF KernelState
<1>7. \A s \in Thread : k'.stat[s] = IF s = u THEN CLOSE ELSE k.stat[s]
  BY <1>6, TypeFacts
<1>8. Changed(k, k', u) /\ k'.stat[u] = CLOSE
  BY <1>3, <1>6, <1>7 DEF Changed
<1>9. KInv(k', Leaving \ {u})
  BY <1>3, <1>5, <1>8, ChangeKInv, StatesDiffer DEF IInv
<1>10. \A s \in Thread : pc'[s] = IF s = t THEN f ELSE pc[s]
  BY <1>2, TypeFacts
<1>11. Leaving' = Leaving \ {u}
  <2>1. \A s \in Thread : pc'[s].at \in {"timer", "close"} =>
           s # t /\ pc'[s] = pc[s] /\ pc[s].arg # u
    BY <1>2, <1>3, <1>10 DEF Moving
  <2>2. \A s \in Thread : pc[s].at \in {"timer", "close"} /\ pc[s].arg # u =>
           s # t /\ pc'[s] = pc[s]
    BY <1>4, <1>10
  <2>. QED
    BY <2>1, <2>2 DEF Leaving
<1>12. Undisturbed(t)'
  BY <1>2, <1>8, <1>10 DEF Undisturbed
<1>13. t # Idle /\ k.stat[Idle] = READY /\ Idle \in Thread
       /\ \A s \in Thread : obj[s] \in {"detached", "freed"} => k.stat[s] = CLOSE
  BY <1>1, TypeFacts DEF IInv, LifeInv
<1>14. /\ f.at \in Acting => f.arg = u /\ (f.at \in Moving => pc[t].at \in Moving)
       /\ f.at \in {"run", "sched"} \cup Acting /\ (t = Idle => f.at = "run")
       /\ obj' \in [Thread -> ObjectState]
  BY <1>1, <1>2, <1>4, <1>13, TypeFacts DEF Acting, Moving
<1>15. pc'[u].at \notin Acting
  BY <1>1, <1>3, <1>5, <1>10
<1>16. \A s \in Thread : obj'[s] \in {"detached", "freed"} => k'.stat[s] = CLOSE
  BY <1>1, <1>7, <1>13
<1>17. k'.stat[t] \in {READY, SUSPEND} /\ k'.stat[Idle] = READY
  BY <1>1, <1>3, <1>5, <1>7, <1>13
<1>18. /\ \A s \in Thread \ {u} : k'.stat[s] = k.stat[s]
       /\ k'.stat[u] = k.stat[u]
             \/ (pc[t].at \in Moving /\ (k.stat[u] = CLOSE => k'.stat[u] = CLOSE))
  BY <1>4, <1>7, <1>8
<1>19. /\ KInv(k', Leaving') /\ Leaving' \subseteq Leaving
       /\ k'.cur = k.cur /\ Range(k'.timers) \subseteq Range(k.timers)
  BY <1>6, <1>9, <1>11
<1>. QED
  BY <1>1, <1>2, <1>3, <1>4, <1>12, <1>14, <1>15, <1>16, <1>17, <1>18, <1>19, TargetStep

\* The sections of a call on a thread that is closed already: they change
\* the object and the defunct list.
LEMMA ReclaimSteps ==
    ASSUME IInv, NEW t \in Thread,
           DetachObjectStep(t) \/ DefunctStep(t) \/ (IdleFreeStep /\ t = Idle)
    PROVE  IInv'
<1>. DEFINE u == pc[t].arg
<1>1. /\ t = k.cur /\ Executes(t) /\ isr' = isr
      /\ pc[t].at \in {"object", "defunct", "free"}
      /\ k' = k \/ k' = [k EXCEPT !.defunct = <<u>> \o k.defunct]
      /\ obj' = obj \/ \E o \in {"detached", "freed"} : obj' = [obj EXCEPT ![u] = o]
      /\ \/ pc' = [pc EXCEPT ![t] = Running(t)]
         \/ t # Idle /\ pc' = [pc EXCEPT ![t] = In("detach", "defunct", u)]
  <2>1. CASE DetachObjectStep(t)
    <3>1. pc[t].at = "object" /\ t # Idle
      BY <2>1 DEF DetachObjectStep, Continues, IInv, LifeInv
    <3>. QED
      BY <2>1, <3>1 DEF DetachObjectStep, Continues, Executes, Goto
  <2>2. CASE DefunctStep(t)
    BY <2>2 DEF DefunctStep, Continues, Executes, Goto
  <2>3. CASE IdleFreeStep /\ t = Idle
    BY <2>3 DEF IdleFreeStep, Continues, Executes, Goto
  <2>. QED
    BY <2>1, <2>2, <2>3
<1>2. u \in Thread /\ k.stat[t] \in {READY, SUSPEND} /\ k.stat[u] = CLOSE
  BY <1>1, TargetFacts DEF Undisturbed, Acting
<1>3. PICK f \in Frame : /\ f.at \in {"run", "defunct"} /\ f.arg \in {t, u}
                         /\ f.at = "defunct" => f.arg = u /\ t # Idle
                         /\ pc' = [pc EXCEPT ![t] = f]
  <2>1. "detach" \in Call /\ "defunct" \in Step
    BY DEF Call, Step
  <2>2. /\ In("detach", "defunct", u) \in Frame /\ In("detach", "defunct", u).arg = u
        /\ In("detach", "defunct", u).at = "defunct"
    BY <1>2, <2>1, FrameFields
  <2>3. /\ Running(t) \in Frame /\ Running(t).at = "run" /\ Running(t).arg = t
    BY FrameFields
  <2>4. CASE pc' = [pc EXCEPT ![t] = Running(t)]
    BY <2>3, <2>4
  <2>5. CASE t # Idle /\ pc' = [pc EXCEPT ![t] = In("detach", "defunct", u)]
    BY <2>2, <2>5
  <2>. QED
    BY <1>1, <2>4, <2>5
<1>4. pc[t].at \in Acting /\ pc[t].at \notin {"timer", "close"} /\ pc[t].arg = u
  BY <1>1 DEF Acting
<1>. HIDE DEF u
<1>5. KInv(k, Leaving) /\ k \in KernelState
  BY TypeFacts DEF IInv
<1>6. /\ KInv(k', Leaving) /\ k'.stat = k.stat /\ k'.cur = k.cur /\ k'.timers = k.timers
  <2>. DEFINE r == <<u>> \o k.defunct
  <2>1. KInv([k EXCEPT !.defunct = r], Leaving)
    BY <1>2, <1>5, DefunctKInv
  <2>. HIDE DEF r
  <2>2. CASE k' = k
    BY <1>5, <2>2
  <2>3. CASE k' = [k EXCEPT !.defunct = r]
    BY <1>5, <2>1, <2>3 DEF KernelState
  <2>. QED
    BY <1>1, <2>2, <2>3 DEF r
<1>7. Leaving' = Leaving
  BY <1>1, <1>3, <1>4, TargetFrame
<1>8. pc'[t] = f
  BY <1>3, TypeFacts
<1>9. Undisturbed(t)'
  BY <1>2, <1>3, <1>6, <1>8 DEF Undisturbed
<1>10. obj' \in [Thread -> ObjectState] /\ \A s \in Thread \ {u} : obj'[s] = obj[s]
  BY <1>1, TypeFacts DEF ObjectState
<1>11. \A s \in Thread : obj'[s] \in {"detached", "freed"} => k'.stat[s] = CLOSE
  BY <1>2, <1>6, <1>10 DEF IInv, LifeInv
<1>12. pc'[u].at \notin Acting
  <2>1. u # t /\ pc[u].at \notin Acting
    BY <1>2, StatesDiffer DEF IInv, LifeInv
  <2>. QED
    BY <1>2, <1>3, <2>1, TypeFacts
<1>13. /\ f.at \in Acting => f.arg = u /\ (f.at \in Moving => pc[t].at \in Moving)
       /\ f.at \in {"run", "sched"} \cup Acting /\ (t = Idle => f.at = "run")
  BY <1>3 DEF Acting, Moving
<1>14. k'.stat[t] \in {READY, SUSPEND} /\ k'.stat[Idle] = READY
  BY <1>2, <1>6 DEF IInv, LifeInv
<1>15. /\ \A s \in Thread \ {u} : k'.stat[s] = k.stat[s]
       /\ k'.stat[u] = k.stat[u]
             \/ (pc[t].at \in Moving /\ (k.stat[u] = CLOSE => k'.stat[u] = CLOSE))
  BY <1>6
<1>16. /\ KInv(k', Leaving') /\ Leaving' \subseteq Leaving
       /\ k'.cur = k.cur /\ Range(k'.timers) \subseteq Range(k.timers)
  BY <1>6, <1>7
<1>. QED
  BY <1>1, <1>2, <1>3, <1>4, <1>9, <1>10, <1>11, <1>12, <1>13, <1>14, <1>15, <1>16, TargetStep, ZenonT(60)

\* A control block is initialised again.
LEMMA InitStep ==
    ASSUME IInv, Disciplined, NEW t \in Thread, NEW u \in Thread, rt_thread_init(t, u)
    PROVE  IInv'
<1>1. /\ t = k.cur /\ t # u /\ obj[u] \in {"detached", "freed"}
      /\ u \notin Range(k.defunct) /\ ~Claimed(u) /\ isr' = isr
      /\ k' = [k EXCEPT !.stat[u] = INIT, !.prio[u] = InitPriority[u],
                        !.slice[u] = InitTick[u], !.error[u] = EOK]
      /\ obj' = [obj EXCEPT ![u] = InitObject[u]]
      /\ pc' = [pc EXCEPT ![u] = Running(u)]
  BY DEF rt_thread_init, Calls, Executes
<1>2. /\ k.stat[u] = CLOSE /\ u # Idle /\ u # k.cur /\ pc[u].at \notin Acting
      /\ u \notin Leaving
  BY <1>1, StatesDiffer DEF IInv, LifeInv, Claimed, Leaving, Acting
<1>3. /\ u \notin Range(k.timers)
      /\ \A p \in Priority : u \notin Range(k.ready[p])
  BY <1>2, QueueFacts, StatesDiffer DEF IInv, KInv
<1>4. InitPriority[u] \in Priority /\ InitTick[u] \in Nat \ {0}
  BY KernelConstants
<1>5. /\ k' \in KernelState /\ k'.stat = [k.stat EXCEPT ![u] = INIT]
      /\ k'.prio = [k.prio EXCEPT ![u] = InitPriority[u]]
      /\ k'.cur = k.cur /\ k'.group = k.group /\ k'.ready = k.ready
      /\ k'.timers = k.timers /\ k'.defunct = k.defunct /\ k'.lock = k.lock
  BY <1>1, <1>4, TypeFacts, StatesDiffer DEF KernelState
<1>6. k.prio \in [Thread -> Priority]
  BY TypeFacts DEF KernelState
<1>7. \A s \in Thread : k'.stat[s] = IF s = u THEN INIT ELSE k.stat[s]
  BY <1>5, TypeFacts
<1>8. Changed(k, k', u) /\ k'.stat[u] = INIT
  BY <1>5, <1>6, <1>7 DEF Changed
<1>9. KInv(k', Leaving)
  BY <1>1, <1>2, <1>3, <1>8, ChangeKInv, StatesDiffer DEF IInv
<1>10. /\ \A s \in Thread : pc'[s] = IF s = u THEN Running(u) ELSE pc[s]
       /\ Running(u).at = "run" /\ Running(u) \in Frame
  BY <1>1, TypeFacts, FrameFields
<1>11. Leaving' = Leaving
  BY <1>2, <1>10, LeavingSame DEF Acting
<1>12. TypeOK'
  <2>1. pc' \in [Thread -> Frame]
    BY <1>1, <1>10, TypeFacts
  <2>2. InitObject[u] \in {"static", "dynamic"}
    BY DEF InitObject
  <2>3. obj' \in [Thread -> ObjectState]
    BY <1>1, <2>2, TypeFacts DEF ObjectState
  <2>. QED
    BY <1>1, <1>5, <2>1, <2>3 DEF IInv, TypeOK
<1>13. ASSUME NEW s \in Thread
       PROVE  Undisturbed(s)'
  <2>1. CASE s = u
    BY <1>10, <2>1 DEF Undisturbed
  <2>2. CASE s # u
    <3>1. pc'[s] = pc[s] /\ (pc[s].at \in Acting => pc[s].arg # u /\ pc[s].arg \in Thread)
      BY <1>1, <1>10, <2>2, TypeFacts DEF Claimed
    <3>. QED
      BY <1>5, <1>7, <1>9, <1>11, <3>1, UndisturbedStep
  <2>. QED
    BY <2>1, <2>2
<1>14. CallsUndisturbed'
  BY <1>10, <1>13 DEF IInv, CallsUndisturbed, Moving
<1>15. LifeInv'
  <2>1. \A s \in Thread : obj'[s] \in {"detached", "freed"} => k'.stat[s] = CLOSE
    <3>1. obj'[u] \in {"static", "dynamic"} /\ \A s \in Thread \ {u} : obj'[s] = obj[s]
      BY <1>1, TypeFacts DEF InitObject
    <3>. QED
      BY <1>7, <3>1 DEF IInv, LifeInv
  <2>2. k'.stat[k'.cur] = k.stat[k.cur] /\ pc'[k'.cur] = pc[k.cur] /\ k'.lock = k.lock
    BY <1>1, <1>5, <1>7, <1>10
  <2>3. k'.stat[Idle] = READY /\ pc'[Idle].at \in {"run", "free"}
    BY <1>2, <1>7, <1>10, TypeFacts DEF IInv, LifeInv
  <2>4. \A s \in Thread : k'.stat[s] = CLOSE \/ s \in Leaving' => pc'[s].at \notin Acting
    BY <1>2, <1>7, <1>10, <1>11 DEF IInv, LifeInv, Acting
  <2>. QED
    BY <1>5, <2>1, <2>2, <2>3, <2>4 DEF IInv, LifeInv
<1>. QED
  BY <1>9, <1>11, <1>12, <1>14, <1>15 DEF IInv

-----------------------------------------------------------------------------
(* The idle thread *)

\* rt_thread_idle_excute: the first defunct thread is unlinked and is idle's to free.
LEMMA IdleStep ==
    ASSUME IInv, rt_thread_idle_excute
    PROVE  IInv'
<1>. DEFINE u == Head(k.defunct)
            j == rt_list_remove(k, u)
<1>1. /\ Idle = k.cur /\ pc[Idle].at = "run" /\ k.defunct # << >>
      /\ k' = rt_schedule(j) /\ obj' = obj /\ isr' = isr
      /\ pc' = pc \/ pc' = [pc EXCEPT ![Idle] = In("idle", "free", u)]
  BY DEF rt_thread_idle_excute, Continues, Executes
<1>2. u \in Thread /\ u \in Range(k.defunct)
  <2>1. k.defunct \in Seq(Thread)
    BY TypeFacts DEF KernelState
  <2>. QED
    BY <1>1, <2>1, HeadInRange
<1>. HIDE DEF u
<1>3. /\ k.stat[u] = CLOSE /\ KInv(k, Leaving)
      /\ \A p \in Priority : u \notin Range(k.ready[p])
  BY <1>2, QueueFacts, StatesDiffer DEF IInv, KInv
<1>4. SameQueues(k, j) /\ j.lock = k.lock /\ j.timers = k.timers
  BY <1>2, <1>3, ListRemoveOther
<1>. HIDE DEF j
<1>5. KInv(j, Leaving) /\ Switched(k, j) /\ j.cur = k.cur /\ j.group = k.group
  BY <1>3, <1>4, SameKInv DEF SameQueues, Switched
<1>6. KInv(k', Leaving) /\ Switched(k, k')
  BY <1>1, <1>5, ScheduleStep
<1>7. PICK f \in Frame : /\ f.at = "run" \/ (f.at = "free" /\ f.arg = u)
                         /\ pc' = [pc EXCEPT ![Idle] = f]
  <2>1. CASE pc' = pc
    <3>1. pc[Idle] \in Frame /\ pc' = [pc EXCEPT ![Idle] = pc[Idle]]
      BY <2>1, TypeFacts
    <3>. QED
      BY <1>1, <3>1
  <2>2. CASE pc' = [pc EXCEPT ![Idle] = In("idle", "free", u)]
    <3>1. "idle" \in Call /\ "free" \in Step
      BY DEF Call, Step
    <3>2. /\ In("idle", "free", u) \in Frame /\ In("idle", "free", u).arg = u
          /\ In("idle", "free", u).at = "free"
      BY <1>2, <3>1, FrameFields
    <3>. QED
      BY <2>2, <3>2
  <2>. QED
    BY <1>1, <2>1, <2>2
<1>8. \A s \in Thread : pc'[s] = IF s = Idle THEN f ELSE pc[s]
  BY <1>7, TypeFacts
<1>9. Leaving' = Leaving
  BY <1>1, <1>7, <1>8, LeavingSame
<1>10. TypeOK'
  <2>1. pc' \in [Thread -> Frame]
    BY <1>7, TypeFacts
  <2>. QED
    BY <1>1, <1>6, <2>1 DEF IInv, TypeOK, KInv
<1>11. k'.stat = k.stat /\ k'.timers = k.timers /\ k'.lock = k.lock
       /\ (k'.cur = k.cur \/ k.stat[k'.cur] = READY)
  BY <1>6 DEF Switched
<1>12. ASSUME NEW s \in Thread
       PROVE  Undisturbed(s)'
  <2>1. CASE s = Idle
    BY <1>3, <1>7, <1>8, <1>11, <2>1, TypeFacts DEF Undisturbed
  <2>2. CASE s # Idle
    <3>1. pc'[s] = pc[s]
      BY <1>8, <2>2
    <3>. QED
      BY <1>6, <1>9, <1>11, <3>1, UndisturbedStep
  <2>. QED
    BY <2>1, <2>2
<1>13. CallsUndisturbed'
  BY <1>7, <1>8, <1>12 DEF IInv, CallsUndisturbed, Moving
<1>14. LifeInv'
  <2>1. k'.stat[k'.cur] = READY /\ k'.stat[Idle] = READY
    BY <1>1, <1>11 DEF IInv, LifeInv
  <2>2. pc'[Idle].at \in {"run", "free"}
    BY <1>7, <1>8, TypeFacts
  <2>3. \A s \in Thread : k'.stat[s] = CLOSE \/ s \in Leaving' => pc'[s].at \notin Acting
    <3>1. Idle \notin Leaving'
      BY <1>9, LeavingFacts
    <3>. QED
      BY <1>8, <1>9, <1>11, <2>1, <3>1, StatesDiffer DEF IInv, LifeInv
  <2>. QED
    BY <1>1, <1>11, <2>1, <2>2, <2>3, StatesDiffer DEF IInv, LifeInv
<1>. QED
  BY <1>6, <1>9, <1>10, <1>13, <1>14 DEF IInv

-----------------------------------------------------------------------------
(* Interrupts *)

\* A clock interrupt without a timer, and stuttering.
LEMMA QuietInterrupt ==
    ASSUME IInv, KInv(k', Leaving), Switched(k, k'), pc' = pc, obj' = obj,
           isr' \in {"none", "timer"}
    PROVE  IInv'
<1>1. Leaving' = Leaving
  BY DEF Leaving
<1>2. TypeOK'
  BY DEF IInv, TypeOK, KInv
<1>3. pc'[Idle].at \in {"run", "free"}
      /\ (k'.cur = k.cur /\ k.stat[k.cur] = CLOSE => pc'[k.cur].at = "sched" /\ k'.lock = 0)
  BY DEF IInv, LifeInv, Switched
<1>. QED
  BY <1>1, <1>2, <1>3, SameStatesStep DEF Switched

\* A tick, and the end of rt_timer_check: no list changes but by the scheduler.
LEMMA ClockSteps ==
    ASSUME IInv, TickInterrupt \/ TimerCheckDone \/ UNCHANGED vars
    PROVE  IInv'
<1>1. CASE TickInterrupt
  BY <1>1, TickKInv, QuietInterrupt DEF TickInterrupt, IInv
<1>2. CASE TimerCheckDone \/ UNCHANGED vars
  BY <1>2, QuietInterrupt DEF TimerCheckDone, vars, IInv, TypeOK, Switched
<1>. QED
  BY <1>1, <1>2

\* An interrupt makes a suspended thread READY on which no call is at work.
LEMMA ReadyStep ==
    ASSUME IInv, NEW t \in Thread, k.stat[t] = SUSPEND, ~Claimed(t),
           KInv(k', Leaving), Readied(k, k', t), pc' = pc, obj' = obj, isr' = isr
    PROVE  IInv'
<1>1. Leaving' = Leaving
  BY DEF Leaving
<1>2. TypeOK'
  BY DEF IInv, TypeOK, KInv
<1>3. \A s \in Thread : k'.stat[s] = IF s = t THEN READY ELSE k.stat[s]
  BY TypeFacts DEF Readied
<1>4. k'.lock = k.lock /\ Range(k'.timers) \subseteq Range(k.timers)
      /\ (k'.cur = k.cur \/ k'.stat[k'.cur] = READY)
  BY DEF Readied
<1>5. ASSUME NEW s \in Thread, pc'[s].at \in Acting
      PROVE  /\ pc'[s] = pc[s]
             /\ k'.stat[pc[s].arg] = k.stat[pc[s].arg]
             /\ pc[s].arg \in Range(k'.timers) => pc[s].arg \in Range(k.timers)
  BY <1>3, <1>4, <1>5, TypeFacts DEF Claimed
<1>6. \A u \in Thread : \/ k'.stat[u] = k.stat[u]
                        \/ k.stat[u] # CLOSE /\ k'.stat[u] \in {READY, SUSPEND}
  BY <1>3, StatesDiffer
<1>7. k'.stat[Idle] = READY /\ pc'[Idle].at \in {"run", "free"}
  BY <1>3, TypeFacts DEF IInv, LifeInv
<1>8. k'.stat[k'.cur] = CLOSE => pc'[k'.cur].at = "sched" /\ k'.lock = 0
  BY <1>3, <1>4, TypeFacts, StatesDiffer DEF IInv, LifeInv
<1>9. KInv(k', Leaving') /\ Leaving' \subseteq Leaving
  BY <1>1
<1>. QED
  BY <1>2, <1>4, <1>5, <1>6, <1>7, <1>8, <1>9, OrdinaryStep

\* rt_timer_check and rt_thread_timeout: a sleeper becomes ready.
LEMMA TimerFireStep ==
    ASSUME IInv, TimerFire
    PROVE  IInv'
<1>. DEFINE t == Head(k.timers)
            j == rt_timer_stop(k, t)
            w == rt_schedule_insert_thread(
                    rt_list_remove([j EXCEPT !.error[t] = ETIMEOUT], t), t)
<1>1. /\ k.timers # << >> /\ k' = rt_thread_timeout(j, t)
      /\ pc' = pc /\ obj' = obj /\ isr' = isr
  BY DEF TimerFire, TimerDue
<1>2. t \in Thread /\ t \in Range(k.timers)
  <2>1. k.timers \in Seq(Thread)
    BY TypeFacts DEF KernelState
  <2>. QED
    BY <1>1, <2>1, HeadInRange
<1>. HIDE DEF t
<1>3. KInv(k, Leaving) /\ k.stat[t] = SUSPEND /\ t \notin Leaving
  BY <1>2 DEF IInv, KInv
<1>4. ~Claimed(t)
  BY <1>2, <1>3, StatesDiffer DEF IInv, CallsUndisturbed, Undisturbed, Claimed, Acting
<1>5. /\ SameQueues(k, j) /\ Range(j.timers) = Range(k.timers) \ {t}
      /\ j.lock = k.lock /\ j.defunct = k.defunct
  BY <1>2, <1>3, StopTimer
<1>. HIDE DEF j
<1>6. KInv(j, Leaving) /\ j.stat = k.stat /\ j.cur = k.cur /\ t \notin Range(j.timers)
  BY <1>3, <1>5, SameKInv DEF SameQueues
<1>7. /\ KInv(w, Leaving) /\ Readied(j, w, t) /\ w.cur = j.cur
      /\ rt_thread_timeout(j, t) = rt_schedule(w)
  <2>1. t \in Thread \ Leaving /\ j.stat[t] = SUSPEND
    BY <1>2, <1>3, <1>6
  <2>. QED
    BY <1>6, <2>1, TimeoutKInv
<1>. HIDE DEF w
<1>8. KInv(rt_schedule(w), Leaving) /\ Readied(j, rt_schedule(w), t)
  BY <1>7, ScheduleReadied
<1>9. KInv(k', Leaving) /\ Readied(k, k', t)
  BY <1>1, <1>5, <1>6, <1>7, <1>8 DEF Readied
<1>. QED
  BY <1>1, <1>2, <1>3, <1>4, <1>9, ReadyStep

\* An interrupt handler resumes u in one piece, since nothing preempts it.
LEMMA DeviceStep ==
    ASSUME IInv, Disciplined, NEW u \in Thread, DeviceInterrupt(u)
    PROVE  IInv'
<1>. DEFINE v == rt_schedule_insert_thread(ResumeDetach(k, u), u)
<1>1. /\ k.stat[u] = SUSPEND /\ ~Claimed(u)
      /\ k' = rt_schedule(v) /\ pc' = pc /\ obj' = obj /\ isr' = isr
  BY DEF DeviceInterrupt, rt_thread_resume
<1>2. u \in Thread \ Leaving
  BY <1>1 DEF Claimed, Leaving, Acting
<1>3. KInv(k, Leaving)
  BY DEF IInv
<1>4. KInv(v, Leaving) /\ Readied(k, v, u) /\ v.cur = k.cur
  BY <1>1, <1>2, <1>3, WakeKInv
<1>. HIDE DEF v
<1>5. KInv(k', Leaving) /\ Readied(k, k', u)
  BY <1>1, <1>4, ScheduleReadied
<1>. QED
  BY <1>1, <1>5, ReadyStep

-----------------------------------------------------------------------------

\* Every step of disciplined threads and of the interrupts keeps the
\* inductive invariant.
LEMMA NextIInv ==
    ASSUME Disciplined, IInv, [Next]_vars
    PROVE  IInv'
<1>1. CASE \E t \in Thread : SelfCall(t)
  <2>1. PICK t \in Thread : SelfCall(t)
    BY <1>1
  <2>. QED
    BY <2>1, YieldStep, SuspendSteps, ExitStep, CriticalSteps DEF SelfCall
<1>2. CASE \E t \in Thread : Continue(t)
  <2>1. PICK t \in Thread : Continue(t)
    BY <1>2
  <2>2. CASE Schedule(t) \/ SleepSchedule(t) \/ SleepReturn(t)
    BY <2>2, ScheduleSteps, SleepReturnStep
  <2>3. CASE ResumeDetachStep(t) \/ StartupInsertStep(t) \/ ResumeInsertStep(t)
    BY <2>3, ResumeDetachStepIInv, InsertSteps
  <2>4. CASE DeleteTimerStep(t) \/ DeleteCloseStep(t)
    BY <2>4, DeleteTimerStepIInv, DeleteCloseStepIInv
  <2>5. CASE DetachObjectStep(t) \/ DefunctStep(t)
    BY <2>5, ReclaimSteps
  <2>. QED
    BY <2>1, <2>2, <2>3, <2>4, <2>5 DEF Continue
<1>3. CASE \E t, u \in Thread : TargetCall(t, u)
  <2>1. PICK t \in Thread, u \in Thread : TargetCall(t, u)
    BY <1>3
  <2>2. CASE rt_thread_init(t, u) \/ rt_thread_startup(t, u)
    BY <2>2, InitStep, StartupStep
  <2>3. CASE rt_thread_resume_call(t, u) \/ rt_thread_control(t, u)
    BY <2>3, ResumeCallStep, ControlStep
  <2>4. CASE rt_thread_delete(t, u)
    BY <2>4, DeleteStep
  <2>. QED
    BY <2>1, <2>2, <2>3, <2>4 DEF TargetCall
<1>4. CASE \E u \in Thread : DeviceInterrupt(u)
  BY <1>4, DeviceStep
<1>5. CASE IdleLoop
  BY <1>5, IdleStep, ReclaimSteps, TypeFacts DEF IdleLoop
<1>6. CASE ClockInterrupt
  BY <1>6, ClockSteps, TimerFireStep DEF ClockInterrupt
<1>7. CASE UNCHANGED vars
  BY <1>7, ClockSteps
<1>. QED
  BY <1>1, <1>2, <1>3, <1>4, <1>5, <1>6, <1>7 DEF Next

\* What the invariants of Threads need of the inductive invariant.
LEMMA IInvImplies ==
    ASSUME IInv
    PROVE  /\ TypeOK /\ CallsUndisturbed
           /\ ReadyQueueExact /\ SelectsThread /\ TimeoutAssert
<1>1. TypeOK /\ CallsUndisturbed /\ KInv(k, Leaving)
  BY DEF IInv
<1>2. ReadyQueueExact /\ TimeoutAssert
  BY <1>1 DEF ReadyQueueExact, KInv, TimeoutAssert
<1>3. SelectsThread
  BY <1>1, QueueFacts, HeadIsLinked DEF SelectsThread
<1>. QED
  BY <1>1, <1>2, <1>3

\* Disciplined threads keep the inductive invariant, whatever their number,
\* the priorities, the range of rt_tick and the order of the interrupts.
THEOREM InductiveInvariant == Disciplined => (Spec => []IInv)
<1>1. ASSUME Disciplined
      PROVE  Spec => []IInv
  <2>1. IInv /\ [Next]_vars => IInv'
    BY <1>1, NextIInv
  <2>. QED
    BY <2>1, InitIInv, PTL DEF Spec
<1>. QED
  BY <1>1

\* The kernel record and the frames of the calls keep their types.
THEOREM TypeCorrect == Disciplined => (Spec => []TypeOK)
<1>1. IInv => TypeOK
  BY IInvImplies
<1>. QED
  BY <1>1, InductiveInvariant, PTL

\* The ready queue stays exact: each bit of rt_thread_ready_priority_group
\* says whether its list is empty, and a thread is linked once, in the list of
\* its priority, exactly when it is READY and not running.
THEOREM ReadyQueueStaysExact == Disciplined => (Spec => []ReadyQueueExact)
<1>1. IInv => ReadyQueueExact
  BY IInvImplies
<1>. QED
  BY <1>1, InductiveInvariant, PTL

\* rt_schedule never takes the head of an empty list.
THEOREM AlwaysSelectsThread == Disciplined => (Spec => []SelectsThread)
<1>1. IInv => SelectsThread
  BY IInvImplies
<1>. QED
  BY <1>1, InductiveInvariant, PTL

\* The RT_ASSERT of rt_thread_timeout never fails.
THEOREM TimeoutNeverAsserts == Disciplined => (Spec => []TimeoutAssert)
<1>1. IInv => TimeoutAssert
  BY IInvImplies
<1>. QED
  BY <1>1, InductiveInvariant, PTL

\* No call is disturbed between two of its sections.
THEOREM CallsStayUndisturbed == Disciplined => (Spec => []CallsUndisturbed)
<1>1. IInv => CallsUndisturbed
  BY IInvImplies
<1>. QED
  BY <1>1, InductiveInvariant, PTL

\* A closed thread is never in the ready queue again.
THEOREM ClosedStaysOut == Disciplined => (Spec => []ClosedNotReady)
<1>1. IInv => ClosedNotReady
  BY QueueFacts, StatesDiffer DEF IInv, ClosedNotReady
<1>. QED
  BY <1>1, InductiveInvariant, PTL

=============================================================================
