------------------------------ MODULE MCObjects -----------------------------
(***************************************************************************)
(* Instances for TLC of the objects that threads, interrupts and timers    *)
(* share.  Each behaviour is one of one object, chosen at the start; the   *)
(* others stay as they are initialised.                                    *)
(***************************************************************************)
EXTENDS Mailbox, MessageQueue, Event, MemPool, DataQueue, Completion, WaitQueue,
        RingBuffer, Workqueue, Timers, Heap

CONSTANTS
    Objects,                \* the objects there are behaviours of
    a, b, idle, n1, n2, c1, c2, tx, ty

VARIABLE object

-----------------------------------------------------------------------------
(* Two threads that take turns, one of which may time out, and idle. *)

MCInitPriority == [t \in Thread |-> IF t = idle THEN 1 ELSE 0]
MCInitTick == [t \in Thread |-> 1]
MCStarted == [p \in Priority |-> IF p = 0 THEN <<a, b>> ELSE <<idle>>]
MCTimes == [t \in Thread |-> IF t = a THEN {WAITING_FOREVER, 2} ELSE {WAITING_FOREVER}]
MCForever == [t \in Thread |-> {WAITING_FOREVER}]

MCNode == <<n1, n2>>
MCChunk == <<c1, c2>>

\* Every request for both bits.
MCRequests == {r \in Request : r.set = Bit}

\* Each of the two threads has a timer of its own.
MCOwner == tx :> a @@ ty :> b

-----------------------------------------------------------------------------

kernelCallVars == <<kernelVars, callVars>>
driverVars == <<cp, queue>>
ipcObjectVars == <<mb, mbLate, mq, mqLate, ev, mp, used, mpLate, dq>>
otherVars == <<ringVars, workqueueVars, timerVars, heapVars>>

MCInit ==
    /\ IpcCallInit
    /\ MailboxInit /\ MessageQueueInit /\ EventInit /\ MemPoolInit /\ DataQueueInit
    /\ CompletionInit /\ WaitQueueInit
    /\ RingInit /\ WorkqueueInit /\ TimersInit /\ HeapInit
    /\ object \in Objects

MailboxStep ==
    /\ object = "mailbox" /\ MailboxNext
    /\ UNCHANGED <<mq, mqLate, ev, mp, used, mpLate, dq, driverVars, otherVars>>

MessageQueueStep ==
    /\ object = "messagequeue" /\ MessageQueueNext
    /\ UNCHANGED <<mb, mbLate, ev, mp, used, mpLate, dq, driverVars, otherVars>>

EventStep ==
    /\ object = "event" /\ EventNext
    /\ UNCHANGED <<mb, mbLate, mq, mqLate, mp, used, mpLate, dq, driverVars, otherVars>>

MemPoolStep ==
    /\ object = "mempool" /\ MemPoolNext
    /\ UNCHANGED <<mb, mbLate, mq, mqLate, ev, dq, driverVars, otherVars>>

DataQueueStep ==
    /\ object = "dataqueue" /\ DataQueueNext
    /\ UNCHANGED <<mb, mbLate, mq, mqLate, ev, mp, used, mpLate, driverVars, otherVars>>

CompletionStep ==
    /\ object = "completion" /\ CompletionNext
    /\ UNCHANGED <<ipcObjectVars, queue, otherVars>>

WaitQueueStep ==
    /\ object = "waitqueue" /\ WaitQueueNext
    /\ UNCHANGED <<ipcObjectVars, cp, otherVars>>

RingStep ==
    /\ object = "ringbuffer" /\ RingNext
    /\ UNCHANGED <<kernelCallVars, ipcObjectVars, driverVars, workqueueVars, timerVars,
                   heapVars>>

WorkqueueStep ==
    /\ object = "workqueue" /\ WorkqueueNext
    /\ UNCHANGED <<kernelCallVars, ipcObjectVars, driverVars, ringVars, timerVars,
                   heapVars>>

TimersStep ==
    /\ object = "timers" /\ TimersNext
    /\ UNCHANGED <<kernelCallVars, ipcObjectVars, driverVars, ringVars, workqueueVars,
                   heapVars>>

HeapStep ==
    /\ object = "heap" /\ HeapNext
    /\ UNCHANGED <<kernelCallVars, ipcObjectVars, driverVars, ringVars, workqueueVars, timerVars>>

MCNext ==
    /\ \/ MailboxStep \/ MessageQueueStep \/ EventStep \/ MemPoolStep \/ DataQueueStep
       \/ CompletionStep \/ WaitQueueStep \/ RingStep \/ WorkqueueStep \/ TimersStep
       \/ HeapStep
    /\ UNCHANGED object

MCSpec == MCInit /\ [][MCNext]_<<object, kernelCallVars, ipcObjectVars, driverVars, otherVars>>

-----------------------------------------------------------------------------
(***************************************************************************)
(* No guard and no property looks at a tick count but through the time     *)
(* that is left to a deadline that is pending, or was spent since a call   *)
(* started to wait: two states that agree on these behave alike.           *)
(***************************************************************************)
FromNow(t) == IF t \in Range(k.timers) THEN TickDiff(k.deadline[t], k.tick) ELSE 0

KernelView == [k EXCEPT !.tick = 0, !.deadline = [t \in Thread |-> FromNow(t)]]

CallView(c) == IF c.time > 0 THEN [c EXCEPT !.start = TickDiff(k.tick, @)] ELSE c

Pending(z) ==
    z \in Range(tm.list) \/ \E u \in TmUser : tmUser[u].at = "insert" /\ tmUser[u].timer = z

TimersView ==
    <<[tm EXCEPT !.tick = 0,
                 !.timeout_tick = [z \in Timer |->
                    IF Pending(z) THEN TickDiff(tm.timeout_tick[z], tm.tick) ELSE 0]],
      tmCheck, tmUser, [z \in Timer |-> IF Pending(z) THEN tmDue[z] ELSE 0], tmWanted, tmMarred>>

MCView ==
    <<object, KernelView, pc, isr, [t \in Thread |-> CallView(call[t])], budget,
      ipcObjectVars, driverVars, ringVars, workqueueVars, TimersView,
      heapVars>>

=============================================================================
