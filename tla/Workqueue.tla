----------------------------- MODULE Workqueue ------------------------------
(***************************************************************************)
(* A work queue of components/drivers/src/workqueue.c: callers queue works *)
(* and cancel them, a worker thread takes them one by one and suspends     *)
(* itself when there are none.  A caller that cancels the work in progress *)
(* synchronously waits on a semaphore until the worker acknowledges it.    *)
(*                                                                         *)
(* Of the scheduler only its outcome is here: whether the worker is ready, *)
(* suspended or asleep in a work function.  Callers, the worker and the    *)
(* interrupts that queue works preempt one another anywhere, but for the   *)
(* caller that has the scheduler locked.                                   *)
(***************************************************************************)
EXTENDS Sequences, SequencesExt, FiniteSets

CONSTANTS
    Caller,         \* the threads that use the queue
    Work,           \* the rt_work structures
    NoWork          \* RT_NULL; in a walk the head of the list

ASSUME WorkqueueConstants == NoWork \notin Work

VARIABLES
    wq,       \* work_list, work_current, and the suspend list of sem
    worker,   \* at: where the worker is; stat: "ready", "suspended" or "asleep"
    user,     \* where each caller is, the work it cancels and the next one of a walk
    missed    \* history: the last resume came between the worker's test, that no
              \* longer held, and its suspend

workqueueVars == <<wq, worker, user, missed>>

UserAt(at, work) == [at |-> at, work |-> work, next |-> NoWork]

WorkqueueInit ==
    /\ wq = [work_list |-> << >>, work_current |-> NoWork, waiting |-> << >>]
    /\ worker = [at |-> "test", stat |-> "ready"]
    /\ user = [t \in Caller |-> UserAt("run", NoWork)]
    /\ missed = FALSE

\* Nobody but interrupts comes between rt_enter_critical and rt_exit_critical of
\* rt_workqueue_cancel_all_work.
Unlocked == \A t \in Caller : user[t].at \notin {"walk", "remove"}

MayCall(t) == user[t].at = "run" /\ Unlocked

-----------------------------------------------------------------------------
(* _workqueue_thread_entry *)

WorkerAt(at) == worker.stat = "ready" /\ worker.at = at /\ Unlocked

\* With interrupts enabled.
WorkerTest ==
    /\ WorkerAt("test")
    /\ worker' = [worker EXCEPT !.at = IF wq.work_list = << >> THEN "suspend" ELSE "take"]
    /\ UNCHANGED <<wq, user, missed>>

\* rt_thread_suspend and rt_schedule.
WorkerSuspend ==
    /\ WorkerAt("suspend")
    /\ worker' = [at |-> "take", stat |-> "suspended"]
    /\ UNCHANGED <<wq, user, missed>>

\* The first work is taken.  What an empty list begins with is no work, and what
\* the worker would do with it is not followed: see WorkExists.
WorkerTake ==
    /\ WorkerAt("take")
    /\ wq.work_list # << >>
    /\ wq' = [wq EXCEPT !.work_list = Tail(@), !.work_current = Head(wq.work_list)]
    /\ worker' = [worker EXCEPT !.at = "work"]
    /\ UNCHANGED <<user, missed>>

\* The work function may sleep.
WorkSleeps ==
    /\ WorkerAt("work")
    /\ worker' = [worker EXCEPT !.stat = "asleep"]
    /\ UNCHANGED <<wq, user, missed>>

WorkWakes ==
    /\ worker.stat = "asleep"
    /\ worker' = [worker EXCEPT !.stat = "ready"]
    /\ UNCHANGED <<wq, user, missed>>

\* Mutant: the work is still the current one when it is acknowledged.
ClearLate ==
    /\ WorkerAt("work")
    /\ worker' = [worker EXCEPT !.at = "ack"]
    /\ UNCHANGED <<wq, user, missed>>

\* The work function has returned.
WorkerClear ==
    /\ WorkerAt("work")
    /\ wq' = [wq EXCEPT !.work_current = NoWork]
    /\ worker' = [worker EXCEPT !.at = "ack"]
    /\ UNCHANGED <<user, missed>>

\* _workqueue_work_completion, with the scheduler locked: the semaphore is
\* released until it can be taken, that is until nobody waits any more; its
\* value is 0 before and after.
WorkerAck ==
    /\ WorkerAt("ack")
    /\ wq' = [wq EXCEPT !.waiting = << >>]
    /\ user' = [t \in Caller |-> IF t \in Range(wq.waiting)
                                 THEN [user[t] EXCEPT !.at = "woken"] ELSE user[t]]
    /\ worker' = [worker EXCEPT !.at = "test"]
    /\ UNCHANGED missed

-----------------------------------------------------------------------------
(* The callers *)

\* A work that is queued already becomes the last.
QueuedLast(w) == [wq EXCEPT !.work_list = Append(RemoveFirst(@, w), w)]

\* Mutant: whether the worker is suspended is tested before interrupts are enabled.
DoworkTestsEarly(t) ==
    /\ MayCall(t)
    /\ \E w \in Work \ {wq.work_current} : wq' = QueuedLast(w)
    /\ user' = [user EXCEPT ![t].at =
         IF wq.work_current = NoWork /\ worker.stat = "suspended" THEN "resume" ELSE "run"]
    /\ UNCHANGED <<worker, missed>>

\* rt_workqueue_dowork and rt_workqueue_critical_work: -RT_EBUSY for the work in
\* progress changes nothing.
rt_workqueue_dowork(t) ==
    /\ MayCall(t)
    /\ \E w \in Work \ {wq.work_current} : wq' = QueuedLast(w)
    /\ user' = [user EXCEPT ![t].at = IF wq.work_current = NoWork THEN "resume" ELSE "run"]
    /\ UNCHANGED <<worker, missed>>

\* rt_thread_resume of a suspended worker, whatever it was suspended for: a
\* sleep in a work function is cut short.
ResumeWorker ==
    /\ worker' = [worker EXCEPT !.stat = "ready"]
    /\ missed' = (worker.at = "suspend" /\ wq'.work_list # << >>)

DoworkResume(t) ==
    /\ user[t].at = "resume" /\ Unlocked
    /\ UNCHANGED wq
    /\ ResumeWorker
    /\ user' = [user EXCEPT ![t].at = "run"]

\* rt_workqueue_dowork in an interrupt handler.
DeviceDowork ==
    /\ \E w \in Work \ {wq.work_current} : wq' = QueuedLast(w)
    /\ IF wq.work_current = NoWork THEN ResumeWorker ELSE UNCHANGED <<worker, missed>>
    /\ UNCHANGED user

\* A work that is in progress cannot be cancelled: -RT_EBUSY.
rt_workqueue_cancel_work(t) ==
    /\ MayCall(t)
    /\ \E w \in Work \ {wq.work_current} : wq' = [wq EXCEPT !.work_list = RemoveFirst(@, w)]
    /\ UNCHANGED <<worker, user, missed>>

\* The work in progress is waited for: rt_sem_take with interrupts disabled, so
\* that nothing comes between the test and the wait.
rt_workqueue_cancel_work_sync(t) ==
    /\ MayCall(t)
    /\ \E w \in Work :
         IF wq.work_current = w
         THEN /\ wq' = [wq EXCEPT !.waiting = Append(@, t)]
              /\ user' = [user EXCEPT ![t] = UserAt("wait", w)]
         ELSE wq' = [wq EXCEPT !.work_list = RemoveFirst(@, w)] /\ UNCHANGED user
    /\ UNCHANGED <<worker, missed>>

CancelReturn(t) ==
    /\ user[t].at = "woken" /\ Unlocked
    /\ user' = [user EXCEPT ![t] = UserAt("run", NoWork)]
    /\ UNCHANGED <<wq, worker, missed>>

\* rt_workqueue_cancel_all_work walks the list with the scheduler locked and
\* interrupts enabled: from node, which is still in the list, to what followed it
\* when next was read.
NextOf(w) ==
    LET i == CHOOSE i \in DOMAIN wq.work_list : wq.work_list[i] = w
    IN  IF w \in Range(wq.work_list) /\ i < Len(wq.work_list) THEN wq.work_list[i + 1]
        ELSE NoWork

CancelAllFrom(w) == IF w = NoWork THEN UserAt("run", NoWork) ELSE UserAt("walk", w)

rt_workqueue_cancel_all_work(t) ==
    /\ MayCall(t)
    /\ user' = [user EXCEPT
         ![t] = CancelAllFrom(IF wq.work_list = << >> THEN NoWork ELSE Head(wq.work_list))]
    /\ UNCHANGED <<wq, worker, missed>>

CancelAllNext(t) ==
    /\ user[t].at = "walk"
    /\ user' = [user EXCEPT ![t].at = "remove", ![t].next = NextOf(user[t].work)]
    /\ UNCHANGED <<wq, worker, missed>>

CancelAllRemove(t) ==
    /\ user[t].at = "remove"
    /\ wq' = [wq EXCEPT !.work_list = RemoveFirst(@, user[t].work)]
    /\ user' = [user EXCEPT ![t] = CancelAllFrom(user[t].next)]
    /\ UNCHANGED <<worker, missed>>

CallerStep(t) ==
    \/ rt_workqueue_dowork(t) \/ DoworkResume(t)
    \/ rt_workqueue_cancel_work(t)
    \/ rt_workqueue_cancel_all_work(t) \/ CancelAllNext(t) \/ CancelAllRemove(t)
    \/ rt_workqueue_cancel_work_sync(t) \/ CancelReturn(t)

WorkerStep ==
    \/ WorkerTest \/ WorkerSuspend \/ WorkerTake
    \/ WorkSleeps \/ WorkWakes \/ WorkerClear \/ WorkerAck

WorkqueueNext == WorkerStep \/ (\E t \in Caller : CallerStep(t)) \/ DeviceDowork

WorkqueueSpec == WorkqueueInit /\ [][WorkqueueNext]_workqueueVars

-----------------------------------------------------------------------------
(* Properties *)

\* "we have work to do with": the worker takes a work only when there is one.  A
\* cancel after its test, or a resume for a work it has already done, makes it
\* false.
WorkExists == WorkerAt("take") => wq.work_list # << >>

\* "resume work thread": a work is never left behind by a worker that has gone to
\* sleep; whoever queued it is still to resume the worker.  A resume between the
\* worker's test and its suspend makes it false.
NoLostWork ==
    wq.work_list # << >> /\ worker.stat = "suspended" =>
        \E t \in Caller : user[t].at = "resume"

\* The worker sleeps beside a work that nobody is to resume it for only when the
\* resume for it came in that window, and until the next one.
LostOnlyIfMissed == missed \/ NoLostWork

\* A synchronous cancel waits for the work it names, which is in progress or
\* about to be acknowledged: nobody waits for a work that has gone by.
WaitsForItsWork ==
    \A t \in Range(wq.waiting) :
        wq.work_current = user[t].work \/ worker.at = "ack"

\* A work that is queued is done without another submission unless its resume
\* was missed, and who cancels waits for the work it cancels.
WorkqueueInvariant ==
    /\ LostOnlyIfMissed
    /\ WaitsForItsWork

\* A synchronous cancel comes back only when no work is in progress: "wait for
\* work completion".
BackAfterWork ==
    [][\A t \in Caller : user[t].at = "wait" /\ user'[t].at = "woken" =>
         wq.work_current = NoWork]_workqueueVars

=============================================================================
