------------------------------- MODULE Mutex --------------------------------
(***************************************************************************)
(* The mutexes of ipc.c: nested takes, hand-over to a waiter, timed waits, *)
(* and the priority a waiter lends to the owner.                           *)
(*                                                                         *)
(* A thread that takes a mutex somebody else owns waits in the suspend     *)
(* list of that mutex; on[t] is the mutex of the call thread t is in.      *)
(***************************************************************************)
EXTENDS Blocking, FiniteSets

CONSTANTS
    Flag,        \* FIFO or PRIO
    Times,       \* the time arguments of rt_mutex_take; 0 does not wait
    Nobody,      \* RT_NULL, as an owner
    HOLD_RANGE,  \* 2^8 in the code: hold is a rt_uint8_t
    HOLD_MAX,    \* bound on nested takes, which nothing in the code limits
    HOLDS_MAX,   \* bound on the mutexes a thread takes at a time
    Detaches,    \* whether the threads detach mutexes
    Disciplined  \* see rt_mutex_detach

ASSUME MutexConstants ==
    /\ IsFiniteSet(WaitList) /\ WaitList # {} /\ Nobody \notin Thread
    /\ Flag \in {FIFO, PRIO}
    /\ Times \subseteq {WAITING_FOREVER} \cup 0 .. HALF_RANGE - 1
    /\ HOLD_RANGE \in Nat \ {0} /\ HOLD_MAX \in Nat \ {0}
    /\ HOLDS_MAX \in Nat \ {0}
    /\ Detaches \in BOOLEAN /\ Disciplined \in BOOLEAN

VARIABLES
    value,      \* mutex->value, 1 when the mutex is free
    owner,      \* mutex->owner
    original,   \* mutex->original_priority
    hold,       \* mutex->hold
    obj,        \* "live" while the object is registered, or "detached"
    on,         \* the mutex of the call each thread is in
    held        \* history: takes minus releases, as the callers were told

mutexVars == <<value, owner, original, hold, obj>>
vars == <<k, pc, isr, mutexVars, on, held>>

NO_PRIORITY == 255

Init ==
    /\ BlockingInit
    /\ value = [m \in WaitList |-> 1]
    /\ owner = [m \in WaitList |-> Nobody]
    /\ original = [m \in WaitList |-> NO_PRIORITY]
    /\ hold = [m \in WaitList |-> 0]
    /\ obj = [m \in WaitList |-> "live"]
    /\ on = [t \in Thread |-> CHOOSE m \in WaitList : TRUE]
    /\ held = [t \in Thread |-> [m \in WaitList |-> 0]]

\* The mutex goes to t, which keeps the priority to return to.
GiveTo(t, m) ==
    /\ owner' = [owner EXCEPT ![m] = t]
    /\ original' = [original EXCEPT ![m] = k.prio[t]]

\* Some thread is in rt_mutex_detach of m.
Detaching(m) == \E t \in Thread : pc[t] \in {"test", "wake", "object"} /\ on[t] = m

\* RT_ASSERT wants a mutex that is registered, and threads that know better
\* do not use one that is being detached.
MayUse(t, m) == Calls(t) /\ obj[m] = "live" /\ ~Detaching(m)

MayTake(t, m) ==
    /\ MayUse(t, m)
    /\ \/ held[t][m] > 0
       \/ Cardinality({n \in WaitList : held[t][n] > 0}) < HOLDS_MAX

ResetError(t) == [k EXCEPT !.error[t] = EOK]

-----------------------------------------------------------------------------
(* rt_mutex_take *)

\* The owner takes it again.
TakeAgain(t, m) ==
    /\ MayTake(t, m)
    /\ owner[m] = t /\ held[t][m] < HOLD_MAX
    /\ hold' = [hold EXCEPT ![m] = (@ + 1) % HOLD_RANGE]
    /\ held' = [held EXCEPT ![t][m] = @ + 1]
    /\ k' = ResetError(t)
    /\ UNCHANGED <<pc, isr, value, owner, original, obj, on>>

TakeFree(t, m) ==
    /\ MayTake(t, m)
    /\ owner[m] # t /\ value[m] > 0
    /\ value' = [value EXCEPT ![m] = @ - 1]
    /\ GiveTo(t, m)
    /\ hold' = [hold EXCEPT ![m] = (@ + 1) % HOLD_RANGE]
    /\ held' = [held EXCEPT ![t][m] = @ + 1]
    /\ k' = ResetError(t)
    /\ UNCHANGED <<pc, isr, obj, on>>

TakeFails(t, m) ==
    /\ MayTake(t, m)
    /\ owner[m] # t /\ value[m] = 0
    /\ 0 \in Times
    /\ k' = [k EXCEPT !.error[t] = ETIMEOUT]
    /\ UNCHANGED <<pc, isr, mutexVars, on, held>>

\* Mutant: the owner keeps its own priority.
BoostNothing(j, t, m) == j

\* The owner runs at the caller's priority, if that is the higher one.
Boost(j, t, m) ==
    IF j.prio[t] < j.prio[owner[m]] THEN ChangePriority(j, owner[m], j.prio[t]) ELSE j

TakeWaits(t, m) ==
    /\ MayTake(t, m)
    /\ owner[m] # t /\ value[m] = 0
    /\ \E time \in Times \ {0} : k' = Block(Boost(k, t, m), m, t, Flag, time)
    /\ Goto(t, "wait")
    /\ on' = [on EXCEPT ![t] = m]
    /\ UNCHANGED <<isr, mutexVars, held>>

\* Back from rt_schedule: thread->error is the result.
TakeReturn(t) ==
    /\ Continues(t, "woken")
    /\ held' = IF k.error[t] = EOK THEN [held EXCEPT ![t][on[t]] = @ + 1] ELSE held
    /\ Goto(t, "run")
    /\ UNCHANGED <<k, isr, mutexVars, on>>

-----------------------------------------------------------------------------
(* rt_mutex_release *)

\* Only the owner may release.
ReleaseFails(t, m) ==
    /\ MayUse(t, m)
    /\ 0 \in Times
    /\ owner[m] # t
    /\ k' = [k EXCEPT !.error[t] = ERROR]
    /\ UNCHANGED <<pc, isr, mutexVars, on, held>>

ReleaseInner(t, m) ==
    /\ MayUse(t, m)
    /\ owner[m] = t /\ hold[m] # 1
    /\ hold' = [hold EXCEPT ![m] = (@ - 1) % HOLD_RANGE]
    /\ held' = [held EXCEPT ![t][m] = @ - 1]
    /\ UNCHANGED <<k, pc, isr, value, owner, original, obj, on>>

\* The owner returns to the priority it had when it took the mutex.
Restore(t, m) ==
    IF original[m] # k.prio[t] THEN ChangePriority(k, t, original[m]) ELSE k

\* The last release: the mutex goes to the first waiter, and a rt_schedule
\* follows, or it is free, and none does.
ReleaseLast(t, m) ==
    /\ MayUse(t, m)
    /\ owner[m] = t /\ hold[m] = 1
    /\ held' = [held EXCEPT ![t][m] = @ - 1]
    /\ IF k.wait[m] = << >>
       THEN /\ k' = Restore(t, m)
            /\ value' = [value EXCEPT ![m] = @ + 1]
            /\ owner' = [owner EXCEPT ![m] = Nobody]
            /\ original' = [original EXCEPT ![m] = NO_PRIORITY]
            /\ hold' = [hold EXCEPT ![m] = 0]
            /\ UNCHANGED pc
       ELSE /\ k' = rt_ipc_list_resume(Restore(t, m), m)
            /\ GiveTo(Head(k.wait[m]), m)
            /\ Goto(t, "sched")
            /\ UNCHANGED <<value, hold>>
    /\ UNCHANGED <<isr, obj, on>>

-----------------------------------------------------------------------------

(* rt_mutex_detach; rt_mutex_delete differs in giving the memory back *)

LoopTest(m) == IF k.wait[m] = << >> THEN "object" ELSE "wake"

(***************************************************************************)
(* Disciplined threads detach a mutex when it is free, or as its owner:    *)
(* anybody else would take it from under the owner.  They do so with no    *)
(* lent priority to give back, which the detach does not, and with no      *)
(* timed waiter, whose timeout may empty the list between the test of the  *)
(* loop and its body.  The code tests none of this.                        *)
(***************************************************************************)
rt_mutex_detach(t, m) ==
    /\ Detaches /\ MayUse(t, m)
    /\ Disciplined => /\ owner[m] \in {Nobody, t}
                      /\ owner[m] = t => original[m] = k.prio[t]
                      /\ Range(k.timers) \cap Range(k.wait[m]) = {}
    /\ on' = [on EXCEPT ![t] = m]
    /\ Goto(t, LoopTest(m))
    /\ UNCHANGED <<k, isr, mutexVars, held>>

\* Mutant: the waiter is resumed as by a release.
DetachWakeNoError(t) ==
    /\ Continues(t, "wake")
    /\ k' = rt_ipc_list_resume(k, on[t])
    /\ Goto(t, "test")
    /\ UNCHANGED <<isr, mutexVars, on, held>>

\* What list->next points to when the list has become empty is no thread.
DetachWake(t) ==
    /\ Continues(t, "wake")
    /\ k.wait[on[t]] # << >>
    /\ k' = ResumeWithError(k, Head(k.wait[on[t]]))
    /\ Goto(t, "test")
    /\ UNCHANGED <<isr, mutexVars, on, held>>

DetachTest(t) ==
    /\ Continues(t, "test")
    /\ Goto(t, LoopTest(on[t]))
    /\ UNCHANGED <<k, isr, mutexVars, on, held>>

\* rt_object_detach: value, owner and hold stay as they are.
DetachObject(t) ==
    /\ Continues(t, "object")
    /\ obj' = [obj EXCEPT ![on[t]] = "detached"]
    /\ held' = [held EXCEPT ![t][on[t]] = 0]
    /\ Goto(t, "run")
    /\ UNCHANGED <<k, isr, value, owner, original, hold, on>>

rt_mutex_init(t, m) ==
    /\ Calls(t) /\ obj[m] = "detached"
    /\ k' = [k EXCEPT !.wait[m] = << >>]
    /\ value' = [value EXCEPT ![m] = 1]
    /\ owner' = [owner EXCEPT ![m] = Nobody]
    /\ original' = [original EXCEPT ![m] = NO_PRIORITY]
    /\ hold' = [hold EXCEPT ![m] = 0]
    /\ obj' = [obj EXCEPT ![m] = "live"]
    /\ UNCHANGED <<pc, isr, on, held>>

-----------------------------------------------------------------------------

MutexCall(t, m) ==
    \/ TakeAgain(t, m) \/ TakeFree(t, m) \/ TakeFails(t, m) \/ TakeWaits(t, m)
    \/ ReleaseFails(t, m) \/ ReleaseInner(t, m) \/ ReleaseLast(t, m)
    \/ rt_mutex_detach(t, m) \/ rt_mutex_init(t, m)

Next ==
    \/ BlockingNext /\ UNCHANGED <<mutexVars, on, held>>
    \/ \E t \in Thread, m \in WaitList : MutexCall(t, m)
    \/ \E t \in Thread : TakeReturn(t) \/ DetachWake(t) \/ DetachTest(t) \/ DetachObject(t)

Spec == Init /\ [][Next]_vars

-----------------------------------------------------------------------------
(* Properties *)

TypeOK ==
    /\ k \in KernelState
    /\ pc \in [Thread -> {"run", "sched", "sleep", "slept", "wait", "woken",
                     "test", "wake", "object"}]
    /\ isr \in {"none", "timer"}
    /\ value \in [WaitList -> 0 .. 1]
    /\ owner \in [WaitList -> Thread \cup {Nobody}]
    /\ original \in [WaitList -> Priority \cup {NO_PRIORITY}]
    /\ hold \in [WaitList -> 0 .. HOLD_RANGE - 1]
    /\ obj \in [WaitList -> {"live", "detached"}]
    /\ on \in [Thread -> WaitList]
    /\ held \in [Thread -> [WaitList -> 0 .. HOLD_MAX]]

\* The mutex was handed over to t, which is not back from rt_mutex_take.
HandedOver(t, m) ==
    /\ owner[m] = t /\ pc[t] \in {"wait", "woken"} /\ on[t] = m
    /\ t \notin Range(k.wait[m])

\* Mutual exclusion: whoever was told RT_EOK owns the mutex, as many times as
\* it has taken it, until it releases it; and nobody else was told so.
HoldersOwn ==
    \A m \in WaitList : \A t \in Thread :
        /\ HandedOver(t, m) => k.error[t] = EOK
        /\ held[t][m] = IF owner[m] # t \/ obj[m] = "detached" THEN 0
                        ELSE hold[m] - (IF HandedOver(t, m) THEN 1 ELSE 0)

\* A mutex is free, unowned and not held at the same time, and nobody waits
\* for a free one.
FreeIsUnowned ==
    \A m \in WaitList : obj[m] = "live" =>
        /\ value[m] = 1 <=> owner[m] = Nobody
        /\ value[m] = 1 <=> hold[m] = 0
        /\ value[m] = 1 => k.wait[m] = << >>

\* The owner of a mutex runs at least at the priority of every waiter: the
\* promise the test mutex_simple.c checks.
InheritsPriority ==
    \A m \in WaitList : \A t \in Range(k.wait[m]) : k.prio[owner[m]] <= k.prio[t]

\* No thread runs that has less precedence than a thread that waits for a
\* mutex whose owner could run: the inversion that inheritance is for.
NoInversion ==
    isr = "none" /\ pc[k.cur] = "run" =>
        \A m \in WaitList : \A t \in Range(k.wait[m]) :
            k.stat[owner[m]] = READY => k.prio[k.cur] <= k.prio[t]

\* "change the owner thread to original priority": a thread that owns no
\* mutex is back at its own priority.
PriorityRestored ==
    \A t \in Thread : (\A m \in WaitList : owner[m] # t) => k.prio[t] = InitPriority[t]

\* Inheritance does what it is for: the owner has the priority of its waiters,
\* nobody in between runs before them, and what was lent is given back.
PriorityInheritance == InheritsPriority /\ NoInversion /\ PriorityRestored

\* rt_mutex_detach forgets nobody: no thread waits on a mutex that is gone,
\* and whoever was waiting will return with an error.
DetachedMutexIsEmpty ==
    \A m \in WaitList : obj[m] = "detached" =>
        /\ k.wait[m] = << >>
        /\ \A t \in Thread : pc[t] \in {"wait", "woken"} /\ on[t] = m => k.error[t] # EOK

\* One thread at a time was told that it has the mutex and it is the owner, as
\* often as it took it; the free mutex has no owner and no waiters, and the
\* detached one leaves nobody asleep or mistaken for its owner.
MutexInvariant ==
    /\ TypeOK
    /\ WaitersLeave
    /\ HoldersOwn
    /\ FreeIsUnowned
    /\ DetachedMutexIsEmpty

=============================================================================
