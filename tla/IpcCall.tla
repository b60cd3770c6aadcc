------------------------------ MODULE IpcCall -------------------------------
(***************************************************************************)
(* What the IPC calls that loop share: a caller that is woken tests again  *)
(* whether it may go on, and if not waits for the rest of its time.  The   *)
(* rest is computed from the tick count when it runs again.                *)
(***************************************************************************)
EXTENDS Blocking

CONSTANTS
    Times   \* the timeouts each thread calls with

ASSUME IpcCallConstants ==
    Times \in [Thread -> SUBSET ({WAITING_FOREVER} \cup 1 .. HALF_RANGE - 1)]

VARIABLES
    call,    \* the arguments and locals of the call each thread is in
    budget   \* history: the ticks a timed call has left, counted down

callVars == <<call, budget>>

NoCall == [op |-> "none", arg |-> << >>, time |-> 0, start |-> 0]

IpcCallInit ==
    /\ BlockingInit
    /\ call = [t \in Thread |-> NoCall]
    /\ budget = [t \in Thread |-> 0]

NewCall(op, arg, time) == [op |-> op, arg |-> arg, time |-> time, start |-> 0]

Woken(t, op) == Continues(t, "woken") /\ call[t].op = op

\* A wait that ended without what the caller waits for: thread->error is the
\* result.
Failed(t) == k.error[t] # EOK

\* Mutant: the caller waits again for all the time it was given.
RestAll(c) == c.time

\* timeout -= rt_tick_get() - tick_delta, as a signed number, at least 0.
Rest(c) ==
    LET left == (c.time - TickDiff(k.tick, c.start)) % TICK_RANGE
    IN  IF c.time <= 0 THEN c.time
        ELSE IF left <= HALF_RANGE THEN left ELSE 0

Rested(t) == [call[t] EXCEPT !.time = Rest(call[t])]

\* Suspend the caller t on the list w, for ever or for c.time ticks.
WaitOn(t, w, flag, c) ==
    /\ k' = Block(k, w, t, flag, c.time)
    /\ call' = [call EXCEPT ![t] =
                  [c EXCEPT !.start = IF c.time > 0 THEN k.tick ELSE 0]]
    /\ budget' = IF pc[t] = "run" /\ c.time > 0 THEN [budget EXCEPT ![t] = c.time] ELSE budget
    /\ Goto(t, "wait")

\* The end of a call, and of a call that has resumed a waiter and schedules.
Leave(t, at) ==
    /\ call' = [call EXCEPT ![t] = NoCall]
    /\ budget' = [budget EXCEPT ![t] = 0]
    /\ Goto(t, at)

Return(t) == Leave(t, "run") /\ UNCHANGED k

\* Resume the first waiter of w, if there is one; x is the kernel record.
WakeFirst(x, w) == IF x.wait[w] = << >> THEN x ELSE rt_ipc_list_resume(x, w)

\* Where a call goes on that has woken the first waiter of w, if any.
AfterWake(w) == IF k.wait[w] = << >> THEN "run" ELSE "sched"

(***************************************************************************)
(* Bound: a caller that was woken runs again before the ticks it lost wrap *)
(* the signed difference of Rest.                                          *)
(***************************************************************************)
InTime ==
    \A t \in Thread : call[t].time > 0 =>
        TickDiff(k.tick, call[t].start) < call[t].time + HALF_RANGE

IpcKernelStep ==
    /\ BlockingNext
    /\ k'.tick # k.tick => InTime
    /\ budget' = [t \in Thread |-> IF k'.tick # k.tick /\ budget[t] > 0
                                   THEN budget[t] - 1 ELSE budget[t]]
    /\ UNCHANGED call

\* The nodes that next leads to from first, in their order, up to null; there
\* are fewer than n of them unless the list comes back to one of its nodes.
Follow(next, node, null) == IF node \in DOMAIN next THEN next[node] ELSE null

Chain(next, first, null, n) ==
    LET at[i \in 1 .. n] == IF i = 1 THEN first ELSE Follow(next, at[i - 1], null)
    IN  [i \in {j \in 1 .. n : at[j] # null} |-> at[i]]

-----------------------------------------------------------------------------

\* The callers that were resumed, with no error, and have not run since.
Resumed(op) == {t \in Thread : /\ call[t].op = op /\ k.stat[t] = READY
                               /\ k.error[t] = EOK /\ pc[t] \in {"wait", "woken"}}

\* However often a timed call is woken and waits again, it gives up at the
\* tick its timeout names, neither earlier nor later.
BudgetKept ==
    \A t \in Thread : budget[t] > 0 \/ call[t].time > 0 =>
        /\ t \in Range(k.timers) => k.due[t] = budget[t]
        /\ k.error[t] = ETIMEOUT => budget[t] = 0

=============================================================================
