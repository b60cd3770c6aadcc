------------------------------ MODULE WaitQueue -----------------------------
(***************************************************************************)
(* A wait queue of components/drivers/src/waitqueue.c.  A waiter's node is *)
(* apart from the thread: a timeout makes the thread ready and leaves the  *)
(* node in the queue until the thread itself removes it.                   *)
(***************************************************************************)
EXTENDS IpcCall

CONSTANTS
    QueueTimes   \* the times each thread waits

ASSUME WaitQueueConstants ==
    QueueTimes \in [Thread -> SUBSET ({WAITING_FOREVER} \cup 1 .. HALF_RANGE - 1)]

VARIABLES
    queue    \* waiting_list, flag, and history: the parity of the wakeups

waitQueueVars == <<k, pc, isr, call, budget, queue>>

WaitQueueInit == queue = [waiting_list |-> << >>, wakeup |-> FALSE, parity |-> 0]

-----------------------------------------------------------------------------

\* RT_WQ_FLAG_WAKEUP: "already wakeup".  The flag is cleared; the node is not
\* in the list.
WaitNot(t) ==
    /\ Calls(t)
    /\ queue.wakeup
    /\ queue' = [queue EXCEPT !.wakeup = FALSE]
    /\ UNCHANGED <<k, pc, isr, call, budget>>

rt_wqueue_wait(t) ==
    /\ Calls(t)
    /\ ~queue.wakeup
    /\ queue' = [queue EXCEPT !.waiting_list = Append(@, t)]
    /\ \E time \in QueueTimes[t] :
         /\ k' = LET s == rt_thread_suspend(k, t)
                 IN  IF time > 0 THEN rt_timer_start(s, t, time) ELSE s
         /\ call' = [call EXCEPT ![t] = NewCall("rt_wqueue_wait", << >>, 0)]
    /\ Goto(t, "wait")
    /\ UNCHANGED <<isr, budget>>

\* Back from rt_schedule, for whatever reason: the flag is cleared.
WaitOver(t) ==
    /\ Woken(t, "rt_wqueue_wait")
    /\ queue' = [queue EXCEPT !.wakeup = FALSE]
    /\ Goto(t, "remove")
    /\ UNCHANGED <<k, isr, call, budget>>

\* rt_wqueue_remove, in a section of its own.
WaitRemove(t) ==
    /\ Continues(t, "remove")
    /\ queue' = [queue EXCEPT !.waiting_list = RemoveFirst(@, t)]
    /\ Return(t)
    /\ UNCHANGED isr

\* Mutant: the node of the thread that was resumed stays in the list.
WokenKeepsNode == [queue EXCEPT !.wakeup = TRUE, !.parity = 1 - @]

\* The first node is removed, with the default wakeup function.
WokenQueue ==
    [queue EXCEPT !.wakeup = TRUE, !.parity = 1 - @,
                  !.waiting_list = IF @ = << >> THEN @ ELSE Tail(@)]

\* The thread of the first node is resumed, if it is suspended.
WokenKernel ==
    IF queue.waiting_list = << >> THEN k ELSE rt_thread_resume(k, Head(queue.waiting_list))

rt_wqueue_wakeup(t) ==
    /\ Calls(t)
    /\ queue' = WokenQueue
    /\ k' = WokenKernel
    /\ Goto(t, IF queue.waiting_list = << >> THEN "run" ELSE "sched")
    /\ UNCHANGED <<isr, call, budget>>

\* rt_wqueue_wakeup in the handler of a device interrupt.
DeviceWakeup ==
    /\ isr = "none"
    /\ queue' = WokenQueue
    /\ k' = IF queue.waiting_list = << >> THEN k ELSE rt_schedule(WokenKernel)
    /\ UNCHANGED <<pc, isr, call, budget>>

WaitQueueCall(t) ==
    WaitNot(t) \/ rt_wqueue_wait(t) \/ WaitOver(t) \/ WaitRemove(t) \/ rt_wqueue_wakeup(t)

WaitQueueNext ==
    \/ IpcKernelStep /\ UNCHANGED queue
    \/ \E t \in Thread : WaitQueueCall(t)
    \/ DeviceWakeup

WaitQueueSpec == IpcCallInit /\ WaitQueueInit /\ [][WaitQueueNext]_waitQueueVars

-----------------------------------------------------------------------------
(* Properties *)

Waiting == {t \in Thread : call[t].op = "rt_wqueue_wait"}
Asleep == {t \in Waiting : k.stat[t] = SUSPEND}

\* Nobody sleeps through a wakeup, that of "a soon to blocked thread" either:
\* while the flag is set, a thread that was woken is still to clear it.
NoLostWakeup == queue.wakeup /\ Asleep # {} => Waiting \ Asleep # {}

\* A wakeup that finds threads asleep wakes one of them.
WakeupWakes ==
    [][queue'.parity # queue.parity /\ Asleep # {} => Asleep' # Asleep]_waitQueueVars

\* A wakeup reaches a sleeper at once, or whoever is about to sleep.
WaitQueueSafety == []NoLostWakeup /\ WakeupWakes

=============================================================================
