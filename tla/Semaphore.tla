----------------------------- MODULE Semaphore ------------------------------
(***************************************************************************)
(* A semaphore of ipc.c: threads take, release, reset, detach and          *)
(* initialise it, a device interrupt releases it, waits time out.          *)
(*                                                                         *)
(* An action is one section with interrupts disabled.  rt_sem_detach and   *)
(* rt_sem_delete test the suspend list and wake its head in different      *)
(* sections, so others may come in between.                                *)
(***************************************************************************)
EXTENDS Blocking, FiniteSets

CONSTANTS
    Sem,           \* the suspend list of the semaphore
    Flag,          \* FIFO or PRIO
    Times,         \* the time arguments each thread gives rt_sem_take
    VALUE_RANGE,   \* 2^16 in the code: value is a rt_uint16_t
    InitValue,     \* the values rt_sem_init and RT_IPC_CMD_RESET are given
    BALANCE_MAX,   \* bound on releases without takes
    LOCK_MAX,      \* bound on nested rt_enter_critical calls: their count is a rt_int16_t
    Ops,           \* the calls the threads make
    Disciplined    \* see MayUse

ASSUME SemaphoreConstants ==
    /\ WaitList = {Sem}
    /\ Flag \in {FIFO, PRIO}
    /\ Times \in [Thread -> SUBSET ({WAITING_FOREVER} \cup 1 .. HALF_RANGE - 1)]
    /\ VALUE_RANGE \in Nat \ {0}
    /\ InitValue \subseteq Nat
    /\ BALANCE_MAX \in Nat
    /\ LOCK_MAX \in 0 .. 2^15 - 1
    /\ Disciplined \in BOOLEAN

VARIABLES
    value,      \* sem->value
    obj,        \* "live" while the object is registered, or "detached"
    balance,    \* history: tokens given by releases and not taken by a caller
    arrival     \* history: the waiters in their order of arrival

vars == <<k, pc, isr, value, obj, balance, arrival>>

Init ==
    /\ BlockingInit
    /\ \E v \in InitValue : value = v % VALUE_RANGE /\ balance = v
    /\ obj = "live"
    /\ arrival = << >>

InCall == {"wait", "woken"}
Detaching == \E t \in Thread : pc[t] \in {"test", "wake", "object"}

(***************************************************************************)
(* Disciplined threads do not use a semaphore that is being detached,      *)
(* detach it only when no timed wait is left, and do not wait while the    *)
(* scheduler is locked: rt_schedule would let the suspended caller run on. *)
(* The others do whatever the API allows.                                  *)
(***************************************************************************)
MayUse == obj = "live" /\ (Disciplined => ~Detaching)

MayWait == Disciplined => k.lock = 0

\* Who left the suspend list left the queue of arrivals: nobody, one or all.
Departures ==
    LET gone == Range(k.wait[Sem]) \ Range(k'.wait[Sem])
    IN  arrival' = IF k'.wait[Sem] = << >> THEN << >>
                   ELSE IF gone = {} THEN arrival
                   ELSE RemoveFirst(arrival, CHOOSE t \in gone : TRUE)

\* The callers that were given a token and are not back from rt_sem_take.
Granted == {t \in Thread : /\ pc[t] \in InCall /\ t \notin Range(k.wait[Sem])
                           /\ k.error[t] = EOK}

-----------------------------------------------------------------------------

\* A token is available.  (A take with time 0 and no token changes nothing.)
TakeAvailable(t) ==
    /\ "take" \in Ops /\ Calls(t) /\ MayUse
    /\ value > 0
    /\ value' = value - 1
    /\ balance' = balance - 1
    /\ UNCHANGED <<k, pc, isr, obj, arrival>>

\* The caller waits, for ever or for some ticks.
TakeUnavailable(t) ==
    /\ "take" \in Ops /\ Calls(t) /\ MayUse /\ MayWait
    /\ value = 0
    /\ \E time \in Times[t] : k' = Block(k, Sem, t, Flag, time)
    /\ Goto(t, "wait")
    /\ arrival' = Append(arrival, t)
    /\ UNCHANGED <<isr, value, obj, balance>>

\* Back from rt_schedule: thread->error is the result.
TakeReturn(t) ==
    /\ Continues(t, "woken")
    /\ balance' = IF k.error[t] = EOK THEN balance - 1 ELSE balance
    /\ Goto(t, "run")
    /\ UNCHANGED <<k, isr, value, obj, arrival>>

\* The section of rt_sem_release: hand the token to the first waiter, or
\* count it.
Put ==
    /\ value' = IF k.wait[Sem] = << >> THEN (value + 1) % VALUE_RANGE ELSE value
    /\ balance' = balance + 1

rt_sem_release(t) ==
    /\ "release" \in Ops /\ Calls(t) /\ MayUse
    /\ balance < BALANCE_MAX
    /\ Put
    /\ IF k.wait[Sem] = << >>
       THEN UNCHANGED <<k, pc>>
       ELSE k' = rt_ipc_list_resume(k, Sem) /\ Goto(t, "sched")
    /\ Departures
    /\ UNCHANGED <<isr, obj>>

\* rt_sem_release in the handler of a device interrupt.
DeviceRelease ==
    /\ "interrupt" \in Ops /\ isr = "none" /\ MayUse
    /\ balance < BALANCE_MAX
    /\ Put
    /\ k' = IF k.wait[Sem] = << >> THEN k
            ELSE rt_schedule(rt_ipc_list_resume(k, Sem))
    /\ Departures
    /\ UNCHANGED <<pc, isr, obj>>

\* RT_IPC_CMD_RESET: wake everybody with an error and set the value.
rt_sem_control(t) ==
    /\ "control" \in Ops /\ Calls(t) /\ MayUse
    /\ k' = rt_ipc_list_resume_all(k, Sem)
    /\ \E v \in InitValue : /\ value' = v % VALUE_RANGE
                            /\ balance' = v + Cardinality(Granted)
    /\ Goto(t, "sched")
    /\ Departures
    /\ UNCHANGED <<isr, obj>>

-----------------------------------------------------------------------------
(* The critical sections of scheduler.c around calls of the semaphore *)

rt_enter_critical(t) ==
    /\ "critical" \in Ops /\ Calls(t)
    /\ k.lock < LOCK_MAX
    /\ k' = [k EXCEPT !.lock = @ + 1]
    /\ UNCHANGED <<pc, isr, value, obj, balance, arrival>>

\* The outermost exit, or one too many, schedules in a section of its own.
rt_exit_critical(t) ==
    /\ "critical" \in Ops /\ Calls(t)
    /\ k' = [k EXCEPT !.lock = IF @ <= 1 THEN 0 ELSE @ - 1]
    /\ IF k.lock <= 1 THEN Goto(t, "sched") ELSE UNCHANGED pc
    /\ UNCHANGED <<isr, value, obj, balance, arrival>>

-----------------------------------------------------------------------------
(* rt_sem_detach; rt_sem_delete differs in giving the memory back *)

\* The test of the loop of rt_ipc_list_resume_all, with interrupts enabled.
LoopTest == IF k.wait[Sem] = << >> THEN "object" ELSE "wake"

rt_sem_detach(t) ==
    /\ "detach" \in Ops /\ Calls(t) /\ MayUse
    /\ Disciplined => Range(k.timers) \cap Range(k.wait[Sem]) = {}
    /\ Goto(t, LoopTest)
    /\ UNCHANGED <<k, isr, value, obj, balance, arrival>>

\* The section of the loop's body.  What list->next points to when the list
\* has become empty is no thread: see WakesThread.
DetachWake(t) ==
    /\ Continues(t, "wake")
    /\ k.wait[Sem] # << >>
    /\ k' = ResumeWithError(k, Head(k.wait[Sem]))
    /\ Goto(t, "test")
    /\ Departures
    /\ UNCHANGED <<isr, value, obj, balance>>

\* Mutant: one waiter is woken and the others are forgotten.
DetachTestOnce(t) ==
    /\ Continues(t, "test")
    /\ Goto(t, "object")
    /\ UNCHANGED <<k, isr, value, obj, balance, arrival>>

DetachTest(t) ==
    /\ Continues(t, "test")
    /\ Goto(t, LoopTest)
    /\ UNCHANGED <<k, isr, value, obj, balance, arrival>>

\* rt_object_detach, after which nothing schedules.
DetachObject(t) ==
    /\ Continues(t, "object")
    /\ obj' = "detached"
    /\ Goto(t, "run")
    /\ UNCHANGED <<k, isr, value, balance, arrival>>

rt_sem_init(t) ==
    /\ "detach" \in Ops /\ Calls(t)
    /\ obj = "detached"
    /\ obj' = "live"
    /\ k' = [k EXCEPT !.wait[Sem] = << >>]
    /\ \E v \in InitValue : /\ value' = v % VALUE_RANGE
                            /\ balance' = v + Cardinality(Granted)
    /\ arrival' = << >>
    /\ UNCHANGED <<pc, isr>>

-----------------------------------------------------------------------------

\* A timeout takes a waiter off its list.
KernelStep == BlockingNext /\ Departures /\ UNCHANGED <<value, obj, balance>>

SemaphoreCall(t) ==
    \/ TakeAvailable(t) \/ TakeUnavailable(t) \/ TakeReturn(t)
    \/ rt_sem_release(t) \/ rt_sem_control(t)
    \/ rt_sem_detach(t) \/ DetachWake(t) \/ DetachTest(t) \/ DetachObject(t)
    \/ rt_sem_init(t)
    \/ rt_enter_critical(t) \/ rt_exit_critical(t)

Next == KernelStep \/ (\E t \in Thread : SemaphoreCall(t)) \/ DeviceRelease

Spec == Init /\ [][Next]_vars

Steps == {"run", "sched", "sleep", "slept", "wait", "woken", "test", "wake", "object"}

FairSpec ==
    /\ Spec
    /\ WF_isr(ClockTurns)
    /\ \A t \in Thread : SF_pc(MidCall(t, Steps))

-----------------------------------------------------------------------------
(* Properties *)

TypeOK ==
    /\ k \in KernelState
    /\ pc \in [Thread -> Steps]
    /\ isr \in {"none", "timer"}
    /\ value \in 0 .. VALUE_RANGE - 1
    /\ obj \in {"live", "detached"}
    /\ balance \in Int
    /\ arrival \in Seq(Thread)

\* No token is lost and none is made up, whatever times out, is reset or is
\* released by an interrupt: those released and not taken are in sem->value or
\* on their way to a waiter (value is kept modulo 2^16).
TokensConserved == (balance - value - Cardinality(Granted)) % VALUE_RANGE = 0

\* Nobody waits on a semaphore that has a token.
NoIdleToken == value > 0 => k.wait[Sem] = << >>

\* The loop of rt_ipc_list_resume_all wakes a thread: "get next suspend
\* thread" is only done while the list is not empty.
WakesThread == \A t \in Thread : Continues(t, "wake") => k.wait[Sem] # << >>

\* Nobody waits on a semaphore that is detached: "wakeup all suspend threads".
DetachedIsEmpty == obj = "detached" => k.wait[Sem] = << >>

\* Tokens are neither lost nor invented nor idle beside a waiter, a detach wakes
\* threads only and all of them, and the value keeps to its width.
SemaphoreInvariant ==
    /\ TypeOK
    /\ TokensConserved
    /\ NoIdleToken
    /\ WaitersLeave
    /\ WakesThread
    /\ DetachedIsEmpty

\* The semaphore serves its callers as AbstractSemaphore says: in the order of
\* arrival or of priority, each with the result of what happened to it.
Told(t) ==
    IF t \in Range(k.wait[Sem]) THEN "waiting"
    ELSE IF pc[t] \notin InCall THEN "idle"
    ELSE IF k.error[t] = EOK THEN "granted" ELSE "failed"

Abstract == INSTANCE AbstractSemaphore WITH
    Caller <- Thread, Urgency <- InitPriority, ByUrgency <- (Flag = PRIO),
    queue <- arrival, status <- [t \in Thread |-> Told(t)]

Refinement == Abstract!Spec

\* A timed wait ends, with a token or without.
TimedWaitEnds ==
    \A t \in Thread : WAITING_FOREVER \notin Times[t] =>
        (t \in Range(k.wait[Sem]) ~> t \notin Range(k.wait[Sem]))

\* With a FIFO semaphore every waiter is served, if interrupts go on releasing.
FifoServes ==
    Flag = FIFO /\ []<><<DeviceRelease>>_vars =>
        \A t \in Thread : t \in Range(k.wait[Sem]) ~> t \notin Range(k.wait[Sem])

=============================================================================
