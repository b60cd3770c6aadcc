------------------------------- MODULE Event --------------------------------
(***************************************************************************)
(* An event of ipc.c: a set of bits that threads and interrupts set and    *)
(* receivers wait for, all of some bits or any of them, clearing what they *)
(* get or not.  A send walks the suspend list and hands the bits to every  *)
(* waiter that is satisfied by what the waiters before it have left.       *)
(***************************************************************************)
EXTENDS IpcCall

CONSTANTS
    EvWaiters,   \* event->parent.suspend_thread
    EvFlag,      \* FIFO or PRIO
    Bit,         \* the bits of the set that are used
    Requests     \* what receivers ask for, records of Request

AND == "RT_EVENT_FLAG_AND"
OR == "RT_EVENT_FLAG_OR"

\* event_set and event_info of a thread, the arguments of rt_event_recv.
Request == [set : SUBSET Bit \ {{}}, mode : {AND, OR}, clear : BOOLEAN]

ASSUME EventConstants ==
    /\ EvWaiters \in WaitList
    /\ EvFlag \in {FIFO, PRIO}
    /\ Requests \subseteq Request

VARIABLE
    ev    \* set, obj, and history: how often each bit was taken since it was set

eventVars == <<k, pc, isr, call, budget, ev>>

NoBits == [set |-> {}, obj |-> "live", taken |-> [b \in Bit |-> 1]]

EventInit == ev = NoBits

EvDetaching == \E t \in Thread : call[t].op = "rt_event_detach"
EvMayUse == ev.obj = "live" /\ ~EvDetaching

-----------------------------------------------------------------------------

Satisfied(r, set) == IF r.mode = AND THEN r.set \subseteq set ELSE r.set \cap set # {}

\* Mutant: the bits stay set.
HandOutKeeps(e, r, got) ==
    [e EXCEPT !.taken = [b \in Bit |->
                  IF b \notin got THEN @[b]
                  ELSE IF @[b] > 0 THEN 2
                  ELSE IF r.clear THEN 1 ELSE 0]]

\* The bits a satisfied receiver gets; it clears them if it asked for that.
\* A bit that is handed out after it was cleared counts as taken twice.
HandOut(e, r, got) ==
    [e EXCEPT !.set = IF r.clear THEN @ \ got ELSE @,
              !.taken = [b \in Bit |->
                  IF b \notin got THEN @[b]
                  ELSE IF @[b] > 0 THEN 2
                  ELSE IF r.clear THEN 1 ELSE 0]]

\* An iteration of the walk of rt_event_send: a waiter for any of its bits
\* learns which ones it gets.
Walk(s, t) ==
    LET r == call[t].arg
        got == IF r.mode = AND THEN r.set ELSE r.set \cap s.event.set
    IN  IF ~Satisfied(r, s.event.set) THEN s
        ELSE [s EXCEPT !.kernel = rt_thread_resume(@, t),
                       !.event = HandOut(@, r, got),
                       !.call[t].arg.set = got]

\* The section of rt_event_send.
Sent(bits) ==
    LET set == [ev EXCEPT !.set = @ \cup bits,
                          !.taken = [b \in Bit |-> IF b \in bits THEN 0 ELSE @[b]]]
        list == k.wait[EvWaiters]
        after[n \in 0 .. Len(list)] ==
            IF n = 0 THEN [kernel |-> k, event |-> set, call |-> call]
            ELSE Walk(after[n - 1], list[n])
    IN  after[Len(list)]

\* The caller schedules if it has resumed somebody.
rt_event_send(t) ==
    /\ Calls(t) /\ EvMayUse
    /\ \E bits \in SUBSET Bit \ {{}} :
         LET s == Sent(bits)
         IN  /\ k' = s.kernel /\ ev' = s.event /\ call' = s.call
             /\ Goto(t, IF s.kernel = k THEN "run" ELSE "sched")
    /\ UNCHANGED <<isr, budget>>

\* rt_event_send in the handler of a device interrupt.
DeviceEventSend ==
    /\ isr = "none" /\ EvMayUse
    /\ \E bits \in SUBSET Bit \ {{}} :
         LET s == Sent(bits)
         IN  /\ k' = IF s.kernel = k THEN k ELSE rt_schedule(s.kernel)
             /\ ev' = s.event /\ call' = s.call
    /\ UNCHANGED <<pc, isr, budget>>

\* The receiver finds the bits it asks for.
EventRecvAtOnce(t) ==
    /\ Calls(t) /\ EvMayUse
    /\ \E r \in Requests :
         /\ Satisfied(r, ev.set)
         /\ ev' = HandOut(ev, r, r.set \cap ev.set)
    /\ k' = [k EXCEPT !.error[t] = EOK]
    /\ UNCHANGED <<pc, isr, call, budget>>

\* It does not, and waits.
EventRecvWait(t) ==
    /\ Calls(t) /\ EvMayUse
    /\ \E r \in Requests, time \in Times[t] :
         /\ ~Satisfied(r, ev.set)
         /\ WaitOn(t, EvWaiters, EvFlag, NewCall("rt_event_recv", r, time))
    /\ UNCHANGED <<isr, ev>>

\* thread->error is the result, and thread->event_set what was received.
EventRecvReturn(t) ==
    /\ Woken(t, "rt_event_recv")
    /\ Return(t)
    /\ UNCHANGED <<isr, ev>>

\* RT_IPC_CMD_RESET.
rt_event_control(t) ==
    /\ Calls(t) /\ EvMayUse
    /\ k' = rt_ipc_list_resume_all(k, EvWaiters)
    /\ ev' = NoBits
    /\ Goto(t, "sched")
    /\ UNCHANGED <<isr, call, budget>>

-----------------------------------------------------------------------------

rt_event_detach(t) ==
    /\ Calls(t) /\ EvMayUse
    /\ call' = [call EXCEPT ![t] = NewCall("rt_event_detach", << >>, 0)]
    /\ Goto(t, "wake")
    /\ UNCHANGED <<k, isr, budget, ev>>

\* An iteration of rt_ipc_list_resume_all, or rt_object_detach at its end.  (The
\* gap between the test of the loop and its section is in module Semaphore.)
EvDetachStep(t) ==
    /\ Continues(t, "wake") /\ call[t].op = "rt_event_detach"
    /\ IF k.wait[EvWaiters] # << >>
       THEN /\ k' = ResumeWithError(k, Head(k.wait[EvWaiters]))
            /\ UNCHANGED <<pc, call, budget, ev>>
       ELSE ev' = [ev EXCEPT !.obj = "detached"] /\ Return(t)
    /\ UNCHANGED isr

rt_event_init(t) ==
    /\ Calls(t)
    /\ ev.obj = "detached"
    /\ ev' = NoBits
    /\ k' = [k EXCEPT !.wait[EvWaiters] = << >>]
    /\ UNCHANGED <<pc, isr, call, budget>>

EventCall(t) ==
    \/ rt_event_send(t) \/ EventRecvAtOnce(t) \/ EventRecvWait(t) \/ EventRecvReturn(t)
    \/ rt_event_control(t) \/ rt_event_detach(t) \/ EvDetachStep(t) \/ rt_event_init(t)

EventNext ==
    \/ IpcKernelStep /\ UNCHANGED ev
    \/ \E t \in Thread : EventCall(t)
    \/ DeviceEventSend

EventSpec == IpcCallInit /\ EventInit /\ [][EventNext]_eventVars

-----------------------------------------------------------------------------
(* Properties *)

\* Nobody sleeps whose bits are set: the walk of a send reaches every waiter,
\* and what one of them clears satisfies nobody behind or before it.
NoSatisfiedSleeper ==
    \A i \in DOMAIN k.wait[EvWaiters] :
        ~Satisfied(call[k.wait[EvWaiters][i]].arg, ev.set)

\* A bit is handed out only while it is set: to any number of receivers until
\* one of them clears it, and to nobody after that before it is sent again.
BitsNotInvented == \A b \in Bit : ev.taken[b] < 2

\* Nobody sleeps on an event that is detached: "resume all suspended thread".
DetachedEventIsEmpty == ev.obj = "detached" => k.wait[EvWaiters] = << >>

\* Every waiter gets the bits it waits for as soon as they are set, no bit is
\* handed out after it was cleared, and detaching forgets nobody.
EventInvariant ==
    /\ NoSatisfiedSleeper
    /\ BitsNotInvented
    /\ DetachedEventIsEmpty

=============================================================================
