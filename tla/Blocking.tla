------------------------------ MODULE Blocking ------------------------------
(***************************************************************************)
(* What the modules of the IPC objects share: threads that are all started *)
(* and run at their priorities, delay themselves and wait on a suspend     *)
(* list, the rt_schedule calls between two sections, and the clock         *)
(* interrupt that wakes sleepers and ends timed waits.                     *)
(*                                                                         *)
(* The modules that extend this one add the object: its state and the      *)
(* sections of its functions, built with Block and rt_ipc_list_resume.     *)
(***************************************************************************)
EXTENDS RtKernel

CONSTANTS
    Started,     \* the threads of each priority, in the order they were started
    SleepTicks   \* arguments of rt_thread_delay

ASSUME BlockingConstants ==
    /\ IsFiniteSet(Thread)
    /\ Started \in [Priority -> Seq(Thread)]
    /\ \A p \in Priority : /\ IsInjective(Started[p])
                          /\ Range(Started[p]) = {t \in Thread : InitPriority[t] = p}
    /\ SleepTicks \subseteq 0 .. HALF_RANGE - 1

VARIABLES
    k,    \* the kernel record
    pc,   \* where each thread is in its call
    isr   \* "none", or "timer" while the clock interrupt is in progress

kernelVars == <<k, pc, isr>>

\* The running thread is the first one of the highest priority.
First == Head(Started[Min({p \in Priority : Started[p] # << >>})])

\* rt_thread_startup has been called for every thread, in the order Started,
\* by a thread of the highest priority that is gone.
InitQueue(p) == RemoveFirst(Started[p], First)

BlockingInit ==
    /\ k = [stat |-> [t \in Thread |-> READY],
            prio |-> InitPriority,
            slice |-> InitTick,
            error |-> [t \in Thread |-> EOK],
            ready |-> [p \in Priority |-> InitQueue(p)],
            group |-> {p \in Priority : InitQueue(p) # << >>},
            cur |-> First,
            lock |-> 0,
            wait |-> [w \in WaitList |-> << >>],
            defunct |-> << >>,
            tick |-> 0,
            timers |-> << >>,
            deadline |-> [t \in Thread |-> 0],
            due |-> [t \in Thread |-> 0],
            owed |-> FALSE]
    /\ pc = [t \in Thread |-> "run"]
    /\ isr = "none"

Executes(t) == isr = "none" /\ k.cur = t
Calls(t) == Executes(t) /\ t # Idle /\ pc[t] = "run"
Continues(t, at) == Executes(t) /\ pc[t] = at
Goto(t, at) == pc' = [pc EXCEPT ![t] = at]

-----------------------------------------------------------------------------

\* A thread that holds the scheduler lock does not sleep.
rt_thread_delay(t) ==
    /\ Calls(t) /\ k.lock = 0
    /\ \E tick \in SleepTicks :
         k' = rt_timer_start(rt_thread_suspend(k, t), t, tick)
    /\ Goto(t, "sleep")
    /\ UNCHANGED isr

\* The rt_schedule that ends the first section of a call: the thread comes
\* back to the point after it.
After ==
    [at \in {"sched", "sleep", "wait"} |->
        CASE at = "sched" -> "run" [] at = "sleep" -> "slept" [] at = "wait" -> "woken"]

Schedule(t) ==
    /\ Executes(t) /\ pc[t] \in DOMAIN After
    /\ k' = rt_schedule(k)
    /\ Goto(t, After[pc[t]])
    /\ UNCHANGED isr

SleepReturn(t) ==
    /\ Continues(t, "slept")
    /\ k' = [k EXCEPT !.error[t] = IF @ = ETIMEOUT THEN EOK ELSE @]
    /\ Goto(t, "run")
    /\ UNCHANGED isr

TickInterrupt ==
    /\ isr = "none"
    /\ k' = rt_tick_increase(k)
    /\ isr' = "timer"
    /\ UNCHANGED pc

TimerFire ==
    /\ isr = "timer"
    /\ TimerDue(k)
    /\ LET t == Head(k.timers)
       IN  k' = rt_thread_timeout(rt_timer_stop(k, t), t)
    /\ UNCHANGED <<pc, isr>>

TimerCheckDone ==
    /\ isr = "timer"
    /\ ~TimerDue(k)
    /\ isr' = "none"
    /\ UNCHANGED <<k, pc>>

\* The steps that touch no IPC object, except that a timeout takes a waiter
\* off its list.
BlockingNext ==
    \/ \E t \in Thread : rt_thread_delay(t) \/ Schedule(t) \/ SleepReturn(t)
    \/ TickInterrupt \/ TimerFire \/ TimerCheckDone

-----------------------------------------------------------------------------

\* A suspended waiter is never also READY, and a thread that runs on after
\* its wait has left every suspend list.
WaitersLeave ==
    \A w \in WaitList : \A t \in Range(k.wait[w]) :
        /\ k.stat[t] = SUSPEND /\ pc[t] \in {"wait", "woken"}
        /\ t = k.cur => pc[t] = "wait"

\* The clock interrupt comes again and again and ends, and a thread that is
\* current again and again completes the calls it has started.
ClockTurns == isr' = (IF isr = "none" THEN "timer" ELSE "none")

MidCall(t, at) ==
    Executes(t) /\ pc[t] # "run" /\ \E a \in at : pc' = [pc EXCEPT ![t] = a] /\ a # pc[t]

=============================================================================
