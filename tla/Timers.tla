------------------------------- MODULE Timers -------------------------------
(***************************************************************************)
(* Application timers of timer.c in the list of the system.  Threads       *)
(* start, stop and change them in several sections; the clock interrupt's  *)
(* rt_timer_check takes those that are due from the list and calls their   *)
(* functions, which may themselves start and stop timers, and starts       *)
(* periodic timers again.                                                  *)
(*                                                                         *)
(* Threads preempt one another anywhere, so that nothing of the scheduler  *)
(* is here.  rt_timer_check keeps interrupts disabled: a timeout function  *)
(* and what follows it are one step.  The rows of the skip list are one    *)
(* list: only the last row is read for what is due.                        *)
(***************************************************************************)
EXTENDS RtKernel

CONSTANTS
    TmUser,         \* the threads that use timers
    Timer,          \* the rt_timer structures
    Owner,          \* the thread that starts and stops each timer
    TmTimes,        \* the values of init_tick
    LATE_TICKS      \* bound: how late a thread inserts a timer it has timed

\* Both times together are less than the horizon of the tick comparison.
ASSUME TimerConstants ==
    /\ Owner \in [Timer -> TmUser]
    /\ TmTimes # {} /\ LATE_TICKS \in Nat
    /\ \A n \in TmTimes : n \in Nat \ {0} /\ n + LATE_TICKS < HALF_RANGE

VARIABLES
    tm,        \* the list, the timers' fields, the tick count
    tmCheck,   \* whether rt_timer_check is in progress
    tmUser,    \* where each thread is in its call, the timer, the flags it read
    tmDue,     \* history: the ticks left of a timer's time, counted down
    tmWanted,  \* history: the timers that were started and not stopped since
    tmMarred   \* history: the timers whose flag was written over, see below

timerVars == <<tm, tmCheck, tmUser, tmDue, tmWanted, tmMarred>>

NoCaller == [at |-> "run", timer |-> CHOOSE x \in Timer : TRUE, periodic |-> FALSE, active |-> FALSE]

TimersInit ==
    /\ tm = [list |-> << >>, tick |-> 0,
             timeout_tick |-> [x \in Timer |-> 0],
             init_tick |-> [x \in Timer |-> CHOOSE n \in TmTimes : \A o \in TmTimes : n <= o],
             periodic |-> [x \in Timer |-> FALSE],
             active |-> [x \in Timer |-> FALSE],
             live |-> [x \in Timer |-> TRUE]]
    /\ tmCheck = FALSE
    /\ tmUser = [u \in TmUser |-> NoCaller]
    /\ tmDue = [x \in Timer |-> 0]
    /\ tmWanted = {}
    /\ tmMarred = {}

-----------------------------------------------------------------------------
(* Sections, as operators on the record m *)

Unlinked(m, x) == [m EXCEPT !.list = SelectSeq(@, LAMBDA y : y # x)]

Deactivated(m, x) == [Unlinked(m, x) EXCEPT !.active[x] = FALSE]

Timed(m, x) == [m EXCEPT !.timeout_tick[x] = (m.tick + m.init_tick[x]) % TICK_RANGE]

\* Before the first timer that times out later, within half the range.
Inserted(m, x) ==
    LET later(y) == TickDiff(m.timeout_tick[y], m.timeout_tick[x]) \in 1 .. HALF_RANGE - 1
        before == SelectInSeq(m.list, later)
    IN  [m EXCEPT !.list = InsertAt(@, IF before = 0 THEN Len(m.list) + 1 ELSE before, x),
                  !.active[x] = TRUE]

\* rt_timer_start and rt_timer_stop with interrupts disabled.
StartedAtOnce(m, x) == Inserted(Timed(Deactivated(m, x), x), x)
StoppedAtOnce(m, x) == IF m.active[x] THEN Deactivated(m, x) ELSE m

-----------------------------------------------------------------------------
(* The threads *)

TmUserAt(u, at) == ~tmCheck /\ tmUser[u].at = at
MayCallTimer(u, x) == TmUserAt(u, "run") /\ Owner[x] = u /\ tm.live[x]
UserGoto(u, at) == tmUser' = [tmUser EXCEPT ![u].at = at]
Begin(u, x, at) == tmUser' = [tmUser EXCEPT ![u] = [NoCaller EXCEPT !.at = at, !.timer = x]]
UserReturn(u) == tmUser' = [tmUser EXCEPT ![u] = NoCaller]

\* "stop timer firstly".
TimerStart(u, x) ==
    /\ MayCallTimer(u, x)
    /\ tm' = Deactivated(tm, x)
    /\ tmWanted' = tmWanted \cup {x}
    /\ tmMarred' = tmMarred \ {x}
    /\ Begin(u, x, "time")
    /\ UNCHANGED <<tmCheck, tmDue>>

\* timeout_tick is computed with interrupts enabled.
StartTime(u) ==
    /\ TmUserAt(u, "time")
    /\ LET x == tmUser[u].timer
       IN  tm' = Timed(tm, x) /\ tmDue' = [tmDue EXCEPT ![x] = tm.init_tick[x]]
    /\ UserGoto(u, "insert")
    /\ UNCHANGED <<tmCheck, tmWanted, tmMarred>>

StartInsert(u) ==
    /\ TmUserAt(u, "insert")
    /\ tm' = Inserted(tm, tmUser[u].timer)
    /\ UserReturn(u)
    /\ UNCHANGED <<tmCheck, tmDue, tmWanted, tmMarred>>

\* The flag is tested with interrupts enabled; -RT_ERROR changes nothing.
TimerStop(u, x) ==
    /\ MayCallTimer(u, x)
    /\ tm.active[x]
    /\ Begin(u, x, "remove")
    /\ UNCHANGED <<tm, tmCheck, tmDue, tmWanted, tmMarred>>

\* Mutant: a timer that has fired meanwhile is left to rt_timer_check.
StopRemoveIfDue(u) ==
    /\ TmUserAt(u, "remove")
    /\ tm' = IF tmDue[tmUser[u].timer] = tm.init_tick[tmUser[u].timer]
             THEN tm ELSE Unlinked(tm, tmUser[u].timer)
    /\ UserGoto(u, "clear")
    /\ UNCHANGED <<tmCheck, tmDue, tmWanted, tmMarred>>

StopRemove(u) ==
    /\ TmUserAt(u, "remove")
    /\ tm' = Unlinked(tm, tmUser[u].timer)
    /\ UserGoto(u, "clear")
    /\ UNCHANGED <<tmCheck, tmDue, tmWanted, tmMarred>>

\* The flag is cleared with interrupts enabled again.
StopClear(u) ==
    /\ TmUserAt(u, "clear")
    /\ tm' = [tm EXCEPT !.active[tmUser[u].timer] = FALSE]
    /\ tmWanted' = tmWanted \ {tmUser[u].timer}
    /\ UserReturn(u)
    /\ UNCHANGED <<tmCheck, tmDue, tmMarred>>

\* RT_TIMER_CTRL_SET_TIME.
ControlTime(u, x) ==
    /\ MayCallTimer(u, x)
    /\ \E time \in TmTimes : tm' = [tm EXCEPT !.init_tick[x] = time]
    /\ UNCHANGED <<tmCheck, tmUser, tmDue, tmWanted, tmMarred>>

(***************************************************************************)
(* RT_TIMER_CTRL_SET_ONESHOT and _PERIODIC: the flags are read, changed    *)
(* and written with interrupts enabled.  The write undoes what a timeout   *)
(* in between has done to the flag "active".                               *)
(***************************************************************************)
ControlRead(u, x) ==
    /\ MayCallTimer(u, x)
    /\ \E periodic \in BOOLEAN :
         tmUser' = [tmUser EXCEPT ![u] = [at |-> "write", timer |-> x,
                                          periodic |-> periodic, active |-> tm.active[x]]]
    /\ UNCHANGED <<tm, tmCheck, tmDue, tmWanted, tmMarred>>

ControlWrite(u) ==
    /\ TmUserAt(u, "write")
    /\ LET x == tmUser[u].timer
       IN  /\ tm' = [tm EXCEPT !.periodic[x] = tmUser[u].periodic, !.active[x] = tmUser[u].active]
           /\ tmMarred' = IF tm.active[x] = tmUser[u].active THEN tmMarred ELSE tmMarred \cup {x}
    /\ UserReturn(u)
    /\ UNCHANGED <<tmCheck, tmDue, tmWanted>>

\* rt_timer_detach and rt_timer_delete; the flag is left as it is.
TimerDetach(u, x) ==
    /\ MayCallTimer(u, x)
    /\ tm' = [Unlinked(tm, x) EXCEPT !.live[x] = FALSE]
    /\ tmWanted' = tmWanted \ {x}
    /\ UNCHANGED <<tmCheck, tmUser, tmDue, tmMarred>>

\* rt_timer_init and rt_timer_create.
TimerInit(u, x) ==
    /\ TmUserAt(u, "run") /\ Owner[x] = u
    /\ ~tm.live[x]
    /\ \E time \in TmTimes, periodic \in BOOLEAN :
         tm' = [tm EXCEPT !.live[x] = TRUE, !.init_tick[x] = time, !.timeout_tick[x] = 0,
                          !.periodic[x] = periodic, !.active[x] = FALSE]
    /\ tmMarred' = tmMarred \ {x}
    /\ UNCHANGED <<tmCheck, tmUser, tmDue, tmWanted>>

-----------------------------------------------------------------------------
(* The clock interrupt *)

\* Bound: a thread inserts the timer at most LATE_TICKS after its time.
NotTooLate == \A u \in TmUser : tmUser[u].at = "insert" => tmDue[tmUser[u].timer] > -LATE_TICKS

ClockTick ==
    /\ ~tmCheck
    /\ NotTooLate
    /\ tm' = [tm EXCEPT !.tick = (@ + 1) % TICK_RANGE]
    /\ tmDue' = [x \in Timer |->
                   IF x \in Range(tm.list) \/ \E u \in TmUser : tmUser[u].at = "insert" /\ tmUser[u].timer = x
                   THEN tmDue[x] - 1 ELSE tmDue[x]]
    /\ tmCheck' = TRUE
    /\ UNCHANGED <<tmUser, tmWanted, tmMarred>>

HeadDue ==
    /\ tm.list # << >>
    /\ TickDiff(tm.tick, tm.timeout_tick[Head(tm.list)]) < HALF_RANGE

\* What the timeout function of x may do to the timers: nothing, stop any
\* timer, or start its own one again.
Functions(m, x) ==
    {m} \cup {StoppedAtOnce(m, y) : y \in {y \in Timer : m.live[y]}}
        \cup {StartedAtOnce(m, x)}

\* A periodic timer that its function has not stopped starts again, another
\* one is marked inactive, even if its function has started it.
AfterFunction(m, x) ==
    IF m.periodic[x] /\ m.active[x]
    THEN StartedAtOnce([m EXCEPT !.active[x] = FALSE], x)
    ELSE [m EXCEPT !.active[x] = FALSE]

\* An iteration of rt_timer_check.
TimeoutFunction ==
    /\ tmCheck /\ HeadDue
    /\ LET x == Head(tm.list)
       IN  \E m \in Functions(Unlinked(tm, x), x) :
             /\ tm' = AfterFunction(m, x)
             /\ tmDue' = IF x \in Range(tm'.list)
                         THEN [tmDue EXCEPT ![x] = tm.init_tick[x]] ELSE tmDue
             /\ tmWanted' = tmWanted \ (Range(tm.list) \ Range(tm'.list))
             /\ tmMarred' = IF x \in Range(tm'.list) /\ ~tm'.active[x]
                            THEN tmMarred \cup {x} ELSE tmMarred
    /\ UNCHANGED <<tmCheck, tmUser>>

ClockDone ==
    /\ tmCheck /\ ~HeadDue
    /\ tmCheck' = FALSE
    /\ UNCHANGED <<tm, tmUser, tmDue, tmWanted, tmMarred>>

TimerCall(u) ==
    \/ \E x \in Timer : \/ TimerStart(u, x) \/ TimerStop(u, x)
                        \/ ControlTime(u, x) \/ ControlRead(u, x)
                        \/ TimerDetach(u, x) \/ TimerInit(u, x)
    \/ StartTime(u) \/ StartInsert(u) \/ StopRemove(u) \/ StopClear(u) \/ ControlWrite(u)

TimersNext ==
    \/ \E u \in TmUser : TimerCall(u)
    \/ ClockTick \/ TimeoutFunction \/ ClockDone

TimersSpec == TimersInit /\ [][TimersNext]_timerVars

-----------------------------------------------------------------------------
(* Properties *)

InCall(x) == \E u \in TmUser : tmUser[u].at # "run" /\ tmUser[u].timer = x

\* The flag "active" is set just when the timer is in the list, but for timers
\* a thread is starting or stopping and those that are detached:
\* rt_timer_stop relies on it.  In a marred timer, until it is started or
\* initialised again, the flag was written over: by rt_timer_control after a
\* timeout it did not see, or by rt_timer_check after the function of a
\* one-shot timer has started it.
ActiveIffLinked ==
    /\ IsInjective(tm.list)
    /\ \A x \in Timer \ tmMarred :
         tm.live[x] /\ ~InCall(x) => (tm.active[x] <=> x \in Range(tm.list))

\* The function of a timer is not called after the timer was stopped or
\* detached, however the steps of a stop and of the interrupt are ordered.
StoppedStaysStopped == Range(tm.list) \subseteq tmWanted

\* A timer times out neither before its tick nor after the check of its tick;
\* one that a thread inserts later times out at the next check.
FiresOnTime ==
    /\ tmCheck /\ HeadDue => tmDue[Head(tm.list)] <= 0
    /\ tmCheck /\ ~HeadDue => \A i \in DOMAIN tm.list : tmDue[tm.list[i]] > 0

\* A timer that runs is linked once, marked active and fires at its tick, and one
\* that was stopped does not run, however starts and stops meet the interrupt.
TimersInvariant ==
    /\ ActiveIffLinked
    /\ StoppedStaysStopped
    /\ FiresOnTime

\* "timer is active", says rtdef.h of RT_TIMER_FLAG_ACTIVATED: a timer in the
\* list that no thread is starting or stopping is marked so.
RunningIsActive == \A x \in Range(tm.list) : InCall(x) \/ tm.active[x]

=============================================================================
