------------------------------ MODULE RtKernel ------------------------------
(***************************************************************************)
(* The data structures of the uniprocessor RT-Thread kernel and the        *)
(* functions that transform them with interrupts disabled: the ready queue *)
(* of scheduler.c, the thread control block fields thread.c changes, the   *)
(* sorted list of thread timers of timer.c and the suspend lists of ipc.c. *)
(*                                                                         *)
(* The kernel state is one record k; every operator below is the effect of *)
(* one C function of the same name on that record.  A function that calls  *)
(* others inside one interrupt-disabled section is the composition of      *)
(* their operators, in the order of the calls.                             *)
(***************************************************************************)
EXTENDS Integers, Sequences, SequencesExt

CONSTANTS
    Thread,         \* the thread control blocks of the system
    Idle,           \* the idle thread, idle.c
    PRIORITY_MAX,   \* RT_THREAD_PRIORITY_MAX, at most 32: one-level bitmap
    InitPriority,   \* init_priority of each thread
    InitTick,       \* init_tick of each thread: its time slice
    WaitList,       \* the suspend_thread lists of the IPC objects
    TICK_RANGE      \* rt_tick counts modulo this (2^32 in the code)

Priority == 0 .. PRIORITY_MAX - 1
Tick == 0 .. TICK_RANGE - 1

\* RT_TICK_MAX / 2, the horizon of the circular tick comparison.
HALF_RANGE == (TICK_RANGE - 1) \div 2

ASSUME KernelConstants ==
    /\ Idle \in Thread
    /\ PRIORITY_MAX \in Nat \ {0}
    /\ InitPriority \in [Thread -> Priority]
    /\ InitPriority[Idle] = PRIORITY_MAX - 1
    /\ InitTick \in [Thread -> Nat \ {0}]
    /\ TICK_RANGE \in Nat \ (0 .. 4)

INIT == "RT_THREAD_INIT"
READY == "RT_THREAD_READY"
SUSPEND == "RT_THREAD_SUSPEND"
CLOSE == "RT_THREAD_CLOSE"
Stat == {INIT, READY, SUSPEND, CLOSE}

EOK == "RT_EOK"
ERROR == "RT_ERROR"
ETIMEOUT == "RT_ETIMEOUT"
EINTR == "RT_EINTR"

(***************************************************************************)
(* The kernel record.  ready, wait and defunct are the lists a thread's    *)
(* tlist node can be linked in, timers the list its thread_timer can be in.*)
(* Two fields are history: owed says that a caller of rt_thread_resume or  *)
(* rt_thread_control has not called rt_schedule yet, and due counts the    *)
(* ticks left of a timer without wrapping.                                 *)
(***************************************************************************)
KernelState ==
    [stat : [Thread -> Stat],
     prio : [Thread -> Priority],
     slice : [Thread -> Nat \ {0}],
     error : [Thread -> {EOK, ERROR, ETIMEOUT, EINTR}],
     ready : [Priority -> Seq(Thread)],
     group : SUBSET Priority,
     cur : Thread,
     lock : Nat,
     wait : [WaitList -> Seq(Thread)],
     defunct : Seq(Thread),
     tick : Tick,
     timers : Seq(Thread),
     deadline : [Thread -> Tick],
     due : [Thread -> Int],
     owed : BOOLEAN]

-----------------------------------------------------------------------------
(* Linked lists, rtservice.h *)

\* A thread's tlist node is in at most one list: whichever it is, unlink it.
\* Only the lists change: the bitmap is the business of the caller.
rt_list_remove(k, t) ==
    [k EXCEPT !.ready = [p \in Priority |-> RemoveFirst(k.ready[p], t)],
              !.wait = [w \in WaitList |-> RemoveFirst(k.wait[w], t)],
              !.defunct = RemoveFirst(k.defunct, t)]

\* The first position of list whose element satisfies Test, or the end.
PositionBefore(list, Test(_)) ==
    LET hits == {i \in 1 .. Len(list) : Test(list[i])}
    IN  IF hits = {} THEN Len(list) + 1 ELSE Min(hits)

-----------------------------------------------------------------------------
(* The ready queue, scheduler.c *)

\* rt_thread_ready_priority_group is the bitmap of the nonempty priorities;
\* __rt_ffs finds the lowest set bit, the highest priority.
HighestReady(k) == Min(k.group)

\* Mark t READY; link it unless it is running already.
rt_schedule_insert_thread(k, t) ==
    IF t = k.cur
    THEN [k EXCEPT !.stat[t] = READY]
    ELSE [k EXCEPT !.stat[t] = READY,
                   !.ready[k.prio[t]] = Append(@, t),
                   !.group = @ \cup {k.prio[t]}]

\* Mutant: the bit of an emptied priority stays set.
RemoveKeepsBit(k, t) == rt_list_remove(k, t)

\* Unlink t and clear its priority's bit if that priority is now empty.
rt_schedule_remove_thread(k, t) ==
    LET u == rt_list_remove(k, t)
    IN  IF u.ready[k.prio[t]] = << >>
        THEN [u EXCEPT !.group = @ \ {k.prio[t]}]
        ELSE u

\* Mutant: threads of equal priority do not take turns.
StaysOnEqual(k) == k.stat[k.cur] = READY /\ k.prio[k.cur] <= HighestReady(k)

\* A context switch is made when the running thread is not READY any more,
\* or when a READY one of the same or of a higher priority waits: the strict
\* comparison makes every call rotate threads of equal priority.
StaysOn(k) == k.stat[k.cur] = READY /\ k.prio[k.cur] < HighestReady(k)

SwitchTo(k, to) ==
    LET switched == [k EXCEPT !.cur = to]
        from == IF k.stat[k.cur] = READY
                THEN rt_schedule_insert_thread(switched, k.cur)
                ELSE switched
    IN  rt_schedule_remove_thread(from, to)

\* Mutant: the scheduler lock is not looked at.
ScheduleIgnoresLock(k) ==
    IF k.group = {}
    THEN [k EXCEPT !.owed = FALSE]
    ELSE LET to == Head(k.ready[HighestReady(k)])
             next == IF StaysOn(k) \/ to = k.cur
                     THEN rt_schedule_remove_thread(k, k.cur)
                     ELSE SwitchTo(k, to)
         IN  [next EXCEPT !.owed = FALSE]

rt_schedule(k) ==
    IF k.lock # 0
    THEN k
    ELSE IF k.group = {}
    THEN [k EXCEPT !.owed = FALSE]
    ELSE LET to == Head(k.ready[HighestReady(k)])
             next == IF StaysOn(k) \/ to = k.cur
                     THEN rt_schedule_remove_thread(k, k.cur)
                     ELSE SwitchTo(k, to)
         IN  [next EXCEPT !.owed = FALSE]

-----------------------------------------------------------------------------
(* Thread timers, timer.c *)

\* a - b in the unsigned arithmetic of rt_tick_t.
TickDiff(a, b) == (a - b) % TICK_RANGE

\* A timer that is not in the list has no deadline: rt_timer_start sets
\* timeout_tick before anything reads it again.
rt_timer_stop(k, t) ==
    [k EXCEPT !.timers = RemoveFirst(@, t), !.deadline[t] = 0, !.due[t] = 0]

\* Mutant: deadlines are compared without wrapping.
StartUnwrapped(k, t, init_tick) ==
    LET timeout_tick == (k.tick + init_tick) % TICK_RANGE
        others == RemoveFirst(k.timers, t)
        Later(u) == k.deadline[u] > timeout_tick
    IN  [k EXCEPT !.deadline[t] = timeout_tick,
                  !.due[t] = IF init_tick = 0 THEN 1 ELSE init_tick,
                  !.timers = InsertAt(others, PositionBefore(others, Later), t)]

\* Sorted insertion (a timer started with 0 ticks expires at the next tick,
\* like one started with 1): before the first timer that expires strictly later,
\* so timers with the same deadline keep the order they were started in.
rt_timer_start(k, t, init_tick) ==
    LET timeout_tick == (k.tick + init_tick) % TICK_RANGE
        others == RemoveFirst(k.timers, t)
        Later(u) == TickDiff(k.deadline[u], timeout_tick)
                        \in 1 .. HALF_RANGE - 1
    IN  [k EXCEPT !.deadline[t] = timeout_tick,
                  !.due[t] = IF init_tick = 0 THEN 1 ELSE init_tick,
                  !.timers = InsertAt(others, PositionBefore(others, Later), t)]

\* Mutant: the tick is compared with the deadline without wrapping.
DueUnwrapped(k) ==
    /\ k.timers # << >>
    /\ k.tick >= k.deadline[Head(k.timers)]

\* The loop condition of rt_timer_check: the first timer is due.
TimerDue(k) ==
    /\ k.timers # << >>
    /\ TickDiff(k.tick, k.deadline[Head(k.timers)]) < HALF_RANGE

-----------------------------------------------------------------------------
(* Threads, thread.c *)

\* Only a READY thread can be suspended; the call fails on any other.
rt_thread_suspend(k, t) ==
    IF k.stat[t] # READY
    THEN k
    ELSE rt_timer_stop(
            rt_schedule_remove_thread([k EXCEPT !.stat[t] = SUSPEND], t), t)

\* Mutant: the timer of a resumed thread keeps running.
ResumeKeepsTimer(k, t) == rt_list_remove(k, t)

\* The first of the two sections of rt_thread_resume.
ResumeDetach(k, t) == rt_timer_stop(rt_list_remove(k, t), t)

\* rt_thread_resume called with interrupts already disabled.
rt_thread_resume(k, t) ==
    IF k.stat[t] # SUSPEND
    THEN k
    ELSE rt_schedule_insert_thread(ResumeDetach(k, t), t)

\* The timeout function of thread_timer, run by rt_timer_check once it has
\* taken the timer off the list.
rt_thread_timeout(k, t) ==
    LET timedout == [k EXCEPT !.error[t] = ETIMEOUT]
    IN  rt_schedule(rt_schedule_insert_thread(rt_list_remove(timedout, t), t))

\* RT_THREAD_CTRL_CHANGE_PRIORITY: a READY thread changes queue.
ChangePriority(k, t, p) ==
    IF k.stat[t] = READY
    THEN rt_schedule_insert_thread(
            [rt_schedule_remove_thread(k, t) EXCEPT !.prio[t] = p], t)
    ELSE [k EXCEPT !.prio[t] = p]

-----------------------------------------------------------------------------
(* Suspend lists, ipc.c *)

\* The flag of an IPC object says how its suspend list is ordered.
FIFO == "RT_IPC_FLAG_FIFO"
PRIO == "RT_IPC_FLAG_PRIO"
WAITING_FOREVER == -1

\* Mutant: a waiter also passes the waiters of its own priority.
SuspendBeforeEqual(k, w, t, flag) ==
    LET s == rt_thread_suspend(k, t)
        Behind(u) == flag = PRIO /\ s.prio[t] <= s.prio[u]
    IN  [s EXCEPT !.wait[w] = InsertAt(@, PositionBefore(@, Behind), t)]

\* Mutant: the last to come is the first to be served.
SuspendAtHead(k, w, t, flag) ==
    LET s == rt_thread_suspend(k, t)
    IN  [s EXCEPT !.wait[w] = <<t>> \o @]

\* In the order of arrival, or before the first waiter of a lower priority.
rt_ipc_list_suspend(k, w, t, flag) ==
    LET s == rt_thread_suspend(k, t)
        Behind(u) == flag = PRIO /\ s.prio[t] < s.prio[u]
    IN  [s EXCEPT !.wait[w] = InsertAt(@, PositionBefore(@, Behind), t)]

\* Mutant: the timer is started first, and rt_thread_suspend stops it.
BlockTimerFirst(k, w, t, flag, time) ==
    LET s == [k EXCEPT !.error[t] = EOK]
    IN  rt_ipc_list_suspend(IF time > 0 THEN rt_timer_start(s, t, time) ELSE s,
                            w, t, flag)

\* The section that makes the running thread t wait: time 0 never comes here.
Block(k, w, t, flag, time) ==
    LET s == rt_ipc_list_suspend([k EXCEPT !.error[t] = EOK], w, t, flag)
    IN  IF time > 0 THEN rt_timer_start(s, t, time) ELSE s

\* The first waiter, in the section of the caller.
rt_ipc_list_resume(k, w) == rt_thread_resume(k, Head(k.wait[w]))

\* One iteration of rt_ipc_list_resume_all.
ResumeWithError(k, t) == rt_thread_resume([k EXCEPT !.error[t] = ERROR], t)

\* The whole loop, for a caller that has disabled interrupts.
rt_ipc_list_resume_all(k, w) ==
    LET after[n \in 0 .. Len(k.wait[w])] ==
            IF n = 0 THEN k ELSE ResumeWithError(after[n - 1], k.wait[w][n])
    IN  after[Len(k.wait[w])]

-----------------------------------------------------------------------------
(* The clock interrupt, clock.c *)

\* rt_tick_increase up to its call of rt_timer_check: count the tick, charge
\* the running thread and make it yield at the end of its slice.
rt_tick_increase(k) ==
    LET t == k.cur
        counted == [k EXCEPT !.tick = (@ + 1) % TICK_RANGE,
                             !.due = [u \in Thread |->
                                 IF u \in Range(k.timers) THEN @[u] - 1 ELSE @[u]]]
    IN  IF k.slice[t] = 1
        THEN rt_schedule([counted EXCEPT !.slice[t] = InitTick[t]])
        ELSE [counted EXCEPT !.slice[t] = @ - 1]

-----------------------------------------------------------------------------
(* What the ready queue must be *)

\* A priority's bit is set exactly when its list is not empty, and a thread is
\* linked exactly when it is READY and not running: once, in the list of its
\* priority.  The threads in leaving have been taken out of the scheduler
\* and not been marked CLOSE yet.
QueueExact(k, leaving) ==
    /\ \A p \in Priority :
         /\ p \in k.group <=> k.ready[p] # << >>
         /\ IsInjective(k.ready[p])
         /\ \A t \in Range(k.ready[p]) :
              k.stat[t] = READY /\ k.prio[t] = p /\ t # k.cur
    /\ \A t \in Thread \ leaving :
         k.stat[t] = READY /\ t # k.cur => t \in Range(k.ready[k.prio[t]])

=============================================================================
