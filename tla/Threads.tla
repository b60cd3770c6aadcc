------------------------------- MODULE Threads ------------------------------
(***************************************************************************)
(* Threads of the uniprocessor kernel calling the API of thread.c and      *)
(* scheduler.c, preempted by the clock interrupt and by device interrupts. *)
(*                                                                         *)
(* An action is one section of a function that runs with interrupts        *)
(* disabled (or one unprotected write); between two actions of a call any  *)
(* interrupt can come, and its rt_schedule can switch to another thread,   *)
(* which may start calls of its own.  pc[t] is the call thread t is in.    *)
(***************************************************************************)
EXTENDS RtKernel

CONSTANTS
    Main,           \* the thread rt_application_init starts
    StaticThread,   \* threads made by rt_thread_init; the others are created
    CleanupThread,  \* threads whose cleanup function is set
    SleepTicks,     \* arguments of rt_thread_sleep
    NewPriority,    \* arguments of RT_THREAD_CTRL_CHANGE_PRIORITY
    LOCK_MAX,       \* bound on nested rt_enter_critical calls: their count is a rt_int16_t
    Ops,            \* the calls the threads make
    Disciplined     \* see MayTarget

ASSUME ThreadsConstants ==
    /\ Main \in Thread \ {Idle}
    /\ StaticThread \subseteq Thread
    /\ Idle \in StaticThread
    /\ CleanupThread \subseteq Thread
    /\ SleepTicks \subseteq 0 .. HALF_RANGE - 1
    /\ NewPriority \subseteq Priority
    /\ LOCK_MAX \in 0 .. 2^15 - 1
    /\ Disciplined \in BOOLEAN

VARIABLES
    k,      \* the kernel record
    pc,     \* the call each thread is in: function, next step, target thread
    isr,    \* "none", or "timer" while the clock interrupt is in progress
    obj     \* what the object field and the heap say of each control block

vars == <<k, pc, isr, obj>>

\* "static" and "dynamic" are registered objects; rt_object_detach leaves
\* type 0 ("detached"); "freed" memory belongs to the heap.
ObjectState == {"static", "dynamic", "detached", "freed"}

Call == {"none", "sleep", "startup", "resume", "delete", "detach", "idle"}
Step == {"run", "sched", "woken", "detach", "insert",
         "timer", "close", "object", "defunct", "free"}
Frame == [op : Call, at : Step, arg : Thread]

\* Steps of a call that acts on another thread's control block.
Acting == {"detach", "insert", "timer", "close", "object", "defunct", "free"}

Running(t) == [op |-> "none", at |-> "run", arg |-> t]
Scheduling(t) == [op |-> "none", at |-> "sched", arg |-> t]
In(op, at, u) == [op |-> op, at |-> at, arg |-> u]

-----------------------------------------------------------------------------

InitObject == [t \in Thread |-> IF t \in StaticThread THEN "static" ELSE "dynamic"]

\* rtthread_startup has started the main and the idle thread, and
\* rt_system_scheduler_start has switched to the main thread.
Init ==
    /\ k = [stat |-> [t \in Thread |-> IF t \in {Main, Idle} THEN READY ELSE INIT],
            prio |-> InitPriority,
            slice |-> InitTick,
            error |-> [t \in Thread |-> EOK],
            ready |-> [p \in Priority |->
                          IF p = InitPriority[Idle] THEN <<Idle>> ELSE << >>],
            group |-> {InitPriority[Idle]},
            cur |-> Main,
            lock |-> 0,
            wait |-> [w \in WaitList |-> << >>],
            defunct |-> << >>,
            tick |-> 0,
            timers |-> << >>,
            deadline |-> [t \in Thread |-> 0],
            due |-> [t \in Thread |-> 0],
            owed |-> FALSE]
    /\ pc = [t \in Thread |-> Running(t)]
    /\ isr = "none"
    /\ obj = InitObject

\* Thread t executes: it is current and no interrupt is being served.
Executes(t) == isr = "none" /\ k.cur = t

\* Thread t may start the call op.
Calls(t, op) == op \in Ops /\ Executes(t) /\ t # Idle /\ pc[t].at = "run"

Continues(t, op, at) == Executes(t) /\ pc[t].op = op /\ pc[t].at = at

\* RT_ASSERT(rt_object_get_type(thread) == RT_Object_Class_Thread)
IsThread(u) == obj[u] \in {"static", "dynamic"}

\* A call of another thread on u's control block has not finished.
Claimed(u) == \E s \in Thread : pc[s].at \in Acting /\ pc[s].arg = u

(***************************************************************************)
(* rt_thread_resume, rt_thread_startup, rt_thread_delete and               *)
(* rt_thread_detach test and change a thread in several sections.          *)
(* Disciplined threads keep three rules around them: one caller at a time  *)
(* acts on a thread, the thread is not in a timed wait, and it is not      *)
(* deleted by itself or in the middle of such a call of its own.  The      *)
(* others do whatever the API allows.                                      *)
(***************************************************************************)
MayTarget(u) == Disciplined => ~Claimed(u) /\ u \notin Range(k.timers)

Goto(t, frame) == pc' = [pc EXCEPT ![t] = frame]

-----------------------------------------------------------------------------
(* Calls on the calling thread itself *)

rt_thread_yield(t) ==
    /\ Calls(t, "yield")
    /\ k' = rt_schedule(k)
    /\ UNCHANGED <<pc, isr, obj>>

\* The caller of rt_thread_suspend must call rt_schedule next.
SuspendSelf(t) ==
    /\ Calls(t, "suspend")
    /\ k' = rt_thread_suspend(k, t)
    /\ Goto(t, Scheduling(t))
    /\ UNCHANGED <<isr, obj>>

\* A call of rt_schedule that follows a section is a section of its own.
Schedule(t) ==
    /\ Continues(t, "none", "sched")
    /\ k' = rt_schedule(k)
    /\ Goto(t, Running(t))
    /\ UNCHANGED <<isr, obj>>

\* Mutant: the timer is started first, and rt_thread_suspend stops it.
SleepTimerFirst(t) ==
    /\ Calls(t, "sleep")
    /\ \E tick \in SleepTicks :
         k' = rt_thread_suspend(rt_timer_start(k, t, tick), t)
    /\ Goto(t, In("sleep", "sched", t))
    /\ UNCHANGED <<isr, obj>>

rt_thread_sleep(t) ==
    /\ Calls(t, "sleep")
    /\ \E tick \in SleepTicks :
         k' = rt_timer_start(rt_thread_suspend(k, t), t, tick)
    /\ Goto(t, In("sleep", "sched", t))
    /\ UNCHANGED <<isr, obj>>

SleepSchedule(t) ==
    /\ Continues(t, "sleep", "sched")
    /\ k' = rt_schedule(k)
    /\ Goto(t, In("sleep", "woken", t))
    /\ UNCHANGED <<isr, obj>>

SleepReturn(t) ==
    /\ Continues(t, "sleep", "woken")
    /\ k' = [k EXCEPT !.error[t] = IF @ = ETIMEOUT THEN EOK ELSE @]
    /\ Goto(t, Running(t))
    /\ UNCHANGED <<isr, obj>>

\* Mutant: a thread without cleanup is not handed to the idle thread, even
\* when it was created dynamically.
ExitForgetsDynamic(t) ==
    /\ Calls(t, "exit")
    /\ k.lock = 0
    /\ k' = rt_timer_stop([rt_schedule_remove_thread(k, t)
                              EXCEPT !.stat[t] = CLOSE], t)
    /\ Goto(t, Scheduling(t))
    /\ UNCHANGED <<isr, obj>>

\* A thread whose entry function returns.  Its object is detached at once
\* when it is static and has no cleanup; else the idle thread reclaims it.
rt_thread_exit(t) ==
    /\ Calls(t, "exit")
    /\ k.lock = 0
    /\ LET closed == rt_timer_stop([rt_schedule_remove_thread(k, t)
                                      EXCEPT !.stat[t] = CLOSE], t)
           system == obj[t] = "static" /\ t \notin CleanupThread
       IN  /\ k' = IF system THEN closed ELSE [closed EXCEPT !.defunct = <<t>> \o @]
           /\ obj' = IF system THEN [obj EXCEPT ![t] = "detached"] ELSE obj
    /\ Goto(t, Scheduling(t))
    /\ UNCHANGED <<isr>>

rt_enter_critical(t) ==
    /\ Calls(t, "critical")
    /\ k.lock < LOCK_MAX
    /\ k' = [k EXCEPT !.lock = @ + 1]
    /\ UNCHANGED <<pc, isr, obj>>

\* Mutant: the nesting is not clamped at zero.
ExitCriticalUnclamped(t) ==
    /\ Calls(t, "critical")
    /\ k' = [k EXCEPT !.lock = @ - 1]
    /\ Goto(t, IF k.lock <= 1 THEN Scheduling(t) ELSE Running(t))
    /\ UNCHANGED <<isr, obj>>

\* Mutant: leaving the critical section does not schedule.
ExitCriticalSilent(t) ==
    /\ Calls(t, "critical")
    /\ k' = [k EXCEPT !.lock = IF @ <= 1 THEN 0 ELSE @ - 1]
    /\ UNCHANGED <<pc, isr, obj>>

\* The outermost exit schedules, in a section of its own; so does an exit
\* that no enter matches, which leaves the nesting at zero.
rt_exit_critical(t) ==
    /\ Calls(t, "critical")
    /\ k' = [k EXCEPT !.lock = IF @ <= 1 THEN 0 ELSE @ - 1]
    /\ Goto(t, IF k.lock <= 1 THEN Scheduling(t) ELSE Running(t))
    /\ UNCHANGED <<isr, obj>>

-----------------------------------------------------------------------------
(* Calls on another thread *)

\* rt_thread_init and rt_thread_create: a control block that is not a
\* registered object and is in no list.
rt_thread_init(t, u) ==
    /\ Calls(t, "init")
    /\ t # u
    /\ obj[u] = (IF u \in StaticThread THEN "detached" ELSE "freed")
    /\ u \notin Range(k.defunct)
    /\ Disciplined => ~Claimed(u)
    /\ k' = [k EXCEPT !.stat[u] = INIT,
                      !.prio[u] = InitPriority[u],
                      !.slice[u] = InitTick[u],
                      !.error[u] = EOK]
    /\ obj' = [obj EXCEPT ![u] = InitObject[u]]
    /\ pc' = [pc EXCEPT ![u] = Running(u)]
    /\ UNCHANGED <<isr>>

\* rt_thread_startup up to its call of rt_thread_resume.
rt_thread_startup(t, u) ==
    /\ Calls(t, "startup")
    /\ IsThread(u) /\ k.stat[u] = INIT
    /\ MayTarget(u)
    /\ k' = [k EXCEPT !.stat[u] = SUSPEND, !.prio[u] = InitPriority[u]]
    /\ Goto(t, In("startup", "detach", u))
    /\ UNCHANGED <<isr, obj>>

\* Mutant: the state of the thread is not tested.
ResumeUntested(t, u) ==
    /\ Calls(t, "resume")
    /\ IsThread(u)
    /\ MayTarget(u)
    /\ Goto(t, In("resume", "detach", u))
    /\ UNCHANGED <<k, isr, obj>>

\* The test of rt_thread_resume, before interrupts are disabled.
rt_thread_resume_call(t, u) ==
    /\ Calls(t, "resume")
    /\ IsThread(u) /\ k.stat[u] = SUSPEND
    /\ MayTarget(u)
    /\ Goto(t, In("resume", "detach", u))
    /\ UNCHANGED <<k, isr, obj>>

ResumeDetachStep(t) ==
    /\ \E op \in {"startup", "resume"} :
         /\ Continues(t, op, "detach")
         /\ Goto(t, In(op, "insert", pc[t].arg))
    /\ k' = ResumeDetach(k, pc[t].arg)
    /\ UNCHANGED <<isr, obj>>

StartupInsertStep(t) ==
    /\ Continues(t, "startup", "insert")
    /\ k' = rt_schedule_insert_thread(k, pc[t].arg)
    /\ Goto(t, Scheduling(t))
    /\ UNCHANGED <<isr, obj>>

\* rt_thread_resume does not schedule; its caller may.
ResumeInsertStep(t) ==
    /\ Continues(t, "resume", "insert")
    /\ k' = [rt_schedule_insert_thread(k, pc[t].arg) EXCEPT !.owed = TRUE]
    /\ \E next \in {Running(t), Scheduling(t)} : Goto(t, next)
    /\ UNCHANGED <<isr, obj>>

\* RT_THREAD_CTRL_CHANGE_PRIORITY, which does not schedule either.
rt_thread_control(t, u) ==
    /\ Calls(t, "control")
    /\ IsThread(u) /\ u # Idle
    /\ Disciplined => ~Claimed(u)
    /\ \E p \in NewPriority :
         k' = [ChangePriority(k, u, p) EXCEPT !.owed = TRUE]
    /\ \E next \in {Running(t), Scheduling(t)} : Goto(t, next)
    /\ UNCHANGED <<isr, obj>>

-----------------------------------------------------------------------------
(* rt_thread_delete and rt_thread_detach, four sections *)

DeleteOp(u) == IF u \in StaticThread THEN "detach" ELSE "delete"

\* Mutant: only a suspended thread is taken out of its list.
DeleteLeavesReady(t, u) ==
    /\ Calls(t, DeleteOp(u))
    /\ u # Idle /\ IsThread(u) /\ (u \in StaticThread) = (obj[u] = "static")
    /\ k.stat[u] # CLOSE
    /\ Disciplined => t # u /\ pc[u].at \notin Acting
    /\ MayTarget(u)
    /\ k' = IF k.stat[u] = SUSPEND THEN rt_schedule_remove_thread(k, u) ELSE k
    /\ Goto(t, In(DeleteOp(u), "timer", u))
    /\ UNCHANGED <<isr, obj>>

\* Leave the scheduler.  A thread not started yet has no bit to clear.
rt_thread_delete(t, u) ==
    /\ Calls(t, DeleteOp(u))
    /\ u # Idle /\ IsThread(u) /\ (u \in StaticThread) = (obj[u] = "static")
    /\ k.stat[u] # CLOSE
    /\ Disciplined => t # u /\ pc[u].at \notin Acting
    /\ MayTarget(u)
    /\ k' = IF k.stat[u] = INIT THEN k ELSE rt_schedule_remove_thread(k, u)
    /\ Goto(t, In(DeleteOp(u), "timer", u))
    /\ UNCHANGED <<isr, obj>>

DeleteTimerStep(t) ==
    /\ \E op \in {"delete", "detach"} :
         /\ Continues(t, op, "timer")
         /\ Goto(t, In(op, "close", pc[t].arg))
    /\ k' = rt_timer_stop(k, pc[t].arg)
    /\ UNCHANGED <<isr, obj>>

DeleteCloseStep(t) ==
    /\ \/ Continues(t, "delete", "close") /\ Goto(t, In("delete", "defunct", pc[t].arg))
       \/ Continues(t, "detach", "close") /\ Goto(t, In("detach", "object", pc[t].arg))
    /\ k' = [k EXCEPT !.stat[pc[t].arg] = CLOSE]
    /\ UNCHANGED <<isr, obj>>

\* rt_object_detach, and the test of the cleanup function.
DetachObjectStep(t) ==
    /\ Continues(t, "detach", "object")
    /\ obj' = [obj EXCEPT ![pc[t].arg] = "detached"]
    /\ Goto(t, IF pc[t].arg \in CleanupThread
               THEN In("detach", "defunct", pc[t].arg) ELSE Running(t))
    /\ UNCHANGED <<k, isr>>

DefunctStep(t) ==
    /\ \E op \in {"delete", "detach"} : Continues(t, op, "defunct")
    /\ k' = [k EXCEPT !.defunct = <<pc[t].arg>> \o @]
    /\ Goto(t, Running(t))
    /\ UNCHANGED <<isr, obj>>

-----------------------------------------------------------------------------
(* The idle thread, idle.c *)

\* Mutant: the reclaimed thread stays in the defunct list.
IdleKeepsDefunct ==
    /\ Continues(Idle, "none", "run")
    /\ k.defunct # << >>
    /\ LET u == Head(k.defunct)
       IN  /\ k' = rt_schedule(k)
           /\ pc' = IF obj[u] = "static" THEN pc
                    ELSE [pc EXCEPT ![Idle] = In("idle", "free", u)]
    /\ UNCHANGED <<isr, obj>>

\* A static thread is only taken off the list: the loop returns
\* and rt_thread_idle_entry calls it again.  The section ends with the
\* rt_schedule of rt_exit_critical.
rt_thread_idle_excute ==
    /\ Continues(Idle, "none", "run")
    /\ k.defunct # << >>
    /\ LET u == Head(k.defunct)
       IN  /\ k' = rt_schedule(rt_list_remove(k, u))
           /\ pc' = IF obj[u] = "static" THEN pc
                    ELSE [pc EXCEPT ![Idle] = In("idle", "free", u)]
    /\ UNCHANGED <<isr, obj>>

\* RT_KERNEL_FREE of the stack and rt_object_delete.
IdleFreeStep ==
    /\ Continues(Idle, "idle", "free")
    /\ obj' = [obj EXCEPT ![pc[Idle].arg] = "freed"]
    /\ Goto(Idle, Running(Idle))
    /\ UNCHANGED <<k, isr>>

-----------------------------------------------------------------------------
(* Interrupts *)

\* The clock interrupt: rt_tick_increase, then the loop of rt_timer_check.
TickInterrupt ==
    /\ isr = "none"
    /\ k' = rt_tick_increase(k)
    /\ isr' = "timer"
    /\ UNCHANGED <<pc, obj>>

TimerFire ==
    /\ isr = "timer"
    /\ TimerDue(k)
    /\ LET t == Head(k.timers)
       IN  k' = rt_thread_timeout(rt_timer_stop(k, t), t)
    /\ UNCHANGED <<pc, isr, obj>>

TimerCheckDone ==
    /\ isr = "timer"
    /\ ~TimerDue(k)
    /\ isr' = "none"
    /\ UNCHANGED <<k, pc, obj>>

\* A device interrupt whose handler resumes a thread and schedules.
DeviceInterrupt(u) ==
    /\ "interrupt" \in Ops
    /\ isr = "none"
    /\ IsThread(u) /\ k.stat[u] = SUSPEND
    /\ Disciplined => ~Claimed(u)
    /\ k' = rt_schedule(rt_thread_resume(k, u))
    /\ UNCHANGED <<pc, isr, obj>>

-----------------------------------------------------------------------------

SelfCall(t) ==
    \/ rt_thread_yield(t) \/ SuspendSelf(t) \/ rt_thread_sleep(t)
    \/ rt_thread_exit(t) \/ rt_enter_critical(t) \/ rt_exit_critical(t)

TargetCall(t, u) ==
    \/ rt_thread_init(t, u) \/ rt_thread_startup(t, u)
    \/ rt_thread_resume_call(t, u) \/ rt_thread_control(t, u)
    \/ rt_thread_delete(t, u)

\* The steps of a call that was started.
Continue(t) ==
    \/ Schedule(t) \/ SleepSchedule(t) \/ SleepReturn(t)
    \/ ResumeDetachStep(t) \/ StartupInsertStep(t) \/ ResumeInsertStep(t)
    \/ DeleteTimerStep(t) \/ DeleteCloseStep(t) \/ DetachObjectStep(t)
    \/ DefunctStep(t)

IdleLoop == rt_thread_idle_excute \/ IdleFreeStep

ClockInterrupt == TickInterrupt \/ TimerFire \/ TimerCheckDone

Next ==
    \/ \E t \in Thread : SelfCall(t) \/ Continue(t)
    \/ \E t, u \in Thread : TargetCall(t, u)
    \/ \E u \in Thread : DeviceInterrupt(u)
    \/ IdleLoop
    \/ ClockInterrupt

Spec == Init /\ [][Next]_vars

-----------------------------------------------------------------------------
(* Invariants *)

\* The kernel record and the bookkeeping of the calls have their types.
TypeOK ==
    /\ k \in KernelState
    /\ pc \in [Thread -> Frame]
    /\ isr \in {"none", "timer"}
    /\ obj \in [Thread -> ObjectState]

\* Threads rt_thread_delete or rt_thread_detach took out of the scheduler and
\* did not mark CLOSE yet.
Leaving == {pc[s].arg : s \in {r \in Thread : pc[r].at \in {"timer", "close"}}}

\* The ready queue is exact, see QueueExact: what rt_schedule relies on when
\* it takes the head of the list the lowest set bit names.
ReadyQueueExact == QueueExact(k, Leaving)

\* rt_schedule selects a thread: the list the lowest set bit names is never
\* empty when interrupts are enabled.
SelectsThread == k.group # {} => k.ready[HighestReady(k)] # << >>

\* What thread s, between two sections of a call, relies on.
Undisturbed(s) ==
    LET u == pc[s].arg
    IN  /\ pc[s].at \in {"detach", "insert"} =>
             /\ k.stat[u] = SUSPEND /\ u \notin Range(k.timers)
             /\ u # k.cur \/ u = s
        /\ pc[s].at \in {"timer", "close"} =>
             /\ u # Idle /\ u # k.cur /\ u \notin Range(k.timers)
             /\ \A p \in Priority : u \notin Range(k.ready[p])
        /\ pc[s].at \in {"object", "defunct", "free"} => k.stat[u] = CLOSE

\* The steps of taking a thread into the scheduler, or out of it.
Moving == {"detach", "insert", "timer", "close"}

\* Nobody disturbs a call between two of its sections: a thread that is being
\* resumed stays suspended without a timer, one that is being deleted stays out
\* of the scheduler until it is closed and is closed until it is reclaimed, and
\* no two calls take the same thread in or out of the scheduler at a time.
CallsUndisturbed ==
    /\ \A s \in Thread : Undisturbed(s)
    /\ \A r, s \in Thread :
         r # s /\ pc[r].at \in Moving /\ pc[s].at \in Moving
             => pc[r].arg # pc[s].arg

\* RT_ASSERT(stat == RT_THREAD_SUSPEND) in rt_thread_timeout: the timer of a
\* thread only runs while the thread is suspended.
TimeoutAssert == \A t \in Range(k.timers) : k.stat[t] = SUSPEND

\* Unless a caller still owes the rt_schedule that resume and control leave
\* to it, or the scheduler is locked, the running thread has the highest
\* priority of all READY threads whenever it executes code of its own.
HighestPriorityRuns ==
    isr = "none" /\ k.lock = 0 /\ ~k.owed /\ pc[k.cur].at = "run"
        => /\ k.stat[k.cur] = READY
           /\ \A p \in k.group : k.prio[k.cur] <= p

\* Once the clock interrupt is over no timer is overdue: a sleep is never
\* late, whatever the order the timers were started in and across the
\* wrapping of rt_tick.
NeverLate == isr = "none" => \A t \in Range(k.timers) : k.due[t] > 0

\* Memory the idle thread gave back to the heap is in no kernel list and not
\* the running thread's.
NoUseAfterFree ==
    \A t \in Thread : obj[t] = "freed" =>
        /\ t # k.cur
        /\ t \notin Range(k.timers) \cup Range(k.defunct)
        /\ \A p \in Priority : t \notin Range(k.ready[p])

\* rt_object_detach's contract, "the memory of static object is not freed".
StaticNeverFreed == \A t \in StaticThread : obj[t] # "freed"

\* rt_thread_delete and rt_thread_detach remove the thread from the thread
\* queue: a closed thread is never selected again.
ClosedNotReady ==
    \A t \in Thread : k.stat[t] = CLOSE =>
        \A p \in Priority : t \notin Range(k.ready[p])

-----------------------------------------------------------------------------
(* Action properties *)

\* A thread's timeout function runs only when its sleep is over: never early,
\* also across the wrapping of rt_tick.
NeverEarly ==
    [][\A t \in Thread :
          t \in Range(k.timers) /\ isr = "timer" /\ t \notin Range(k'.timers)
              => k.due[t] <= 0]_vars

\* While the scheduler is locked the running thread keeps the processor, and
\* only the running thread unlocks it.
LockHolds == [][k.lock > 0 => k'.cur = k.cur /\ (isr = "timer" => k'.lock = k.lock)]_vars

-----------------------------------------------------------------------------
(* Liveness *)

\* Thread t leaves the point its call has reached: in a behaviour of Spec, a
\* Continue(t) step, or the IdleFreeStep of the idle thread.
MidCall(t) ==
    /\ Executes(t) /\ pc[t].at # "run"
    /\ \E f \in Frame \ {pc[t]} : pc' = [pc EXCEPT ![t] = f]

\* The clock interrupt comes again and again, and each one ends.
ClockTurns == isr' = (IF isr = "none" THEN "timer" ELSE "none")

\* Interrupts take less than all of the time, so a thread that is current
\* again and again completes the calls it has started (strong fairness: an
\* interrupt disables its steps for a while); nothing makes it start one.
Fairness ==
    /\ WF_isr(ClockTurns)
    /\ \A t \in Thread : SF_pc(MidCall(t))
    /\ SF_vars(IdleLoop)

FairSpec == Spec /\ Fairness

\* Every sleep ends (rt_thread_sleep, and the timer that rt_thread_timeout is
\* called from): the sleeper is made READY again, unless it is deleted first.
Asleep(t) == pc[t].op = "sleep" /\ k.stat[t] = SUSPEND
SleepEnds == \A t \in Thread : Asleep(t) ~> ~Asleep(t)

\* A READY thread that no READY thread has precedence over: round-robin gives
\* it the processor, provided no thread keeps the scheduler locked.
Top(t) == k.stat[t] = READY /\ \A u \in Thread : k.stat[u] = READY => k.prio[t] <= k.prio[u]
RoundRobin ==
    []<>(k.lock = 0) => \A t \in Thread : ~<>[](Top(t) /\ t # k.cur)

\* A deleted thread is reclaimed, if the idle thread runs again and again.
DeletedReclaimed ==
    []<>Executes(Idle) =>
        \A t \in Thread \ StaticThread :
            k.stat[t] = CLOSE ~> (obj[t] = "freed" \/ k.stat[t] # CLOSE)

=============================================================================
