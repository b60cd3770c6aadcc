----------------------------- MODULE DataQueue ------------------------------
(***************************************************************************)
(* A data queue of components/drivers/src/dataqueue.c: a ring of items     *)
(* with two counting indices, a list of threads that wait to push and one  *)
(* of threads that wait to pop.  A pop wakes a pusher only when no more    *)
(* than the low-water mark is left.  Drivers push and pop in interrupts    *)
(* too, without waiting.                                                   *)
(***************************************************************************)
EXTENDS IpcCall, FiniteSets

CONSTANTS
    DqPushers,     \* queue->suspended_push_list
    DqPoppers,     \* queue->suspended_pop_list
    DqSize,        \* queue->size
    DqLwm,         \* queue->lwm
    INDEX_RANGE,   \* 2^16 in the code: the indices and size are rt_uint16_t
    ThreadItem,    \* the items threads push
    DeviceItem,    \* the items the device interrupt pushes
    NoItem         \* what a slot that is not in use holds

ASSUME DataQueueConstants ==
    /\ {DqPushers, DqPoppers} \subseteq WaitList /\ DqPushers # DqPoppers
    /\ INDEX_RANGE \in Nat
    /\ DqSize \in 1 .. INDEX_RANGE - 1 /\ DqLwm \in 0 .. DqSize
    /\ NoItem \notin ThreadItem \cup DeviceItem

VARIABLE
    dq    \* its slots and indices, and history: overrun, see Overruns

dataQueueVars == <<k, pc, isr, call, budget, dq>>

DataQueueInit ==
    dq = [slots |-> [i \in 0 .. DqSize - 1 |-> NoItem], get_index |-> 0, put_index |-> 0,
          overrun |-> FALSE]

-----------------------------------------------------------------------------

\* Mutant: one item too many is let in.
FullLate == dq.put_index - dq.get_index = DqSize + 1

\* The indices are promoted to int: the difference is not taken modulo 2^16.
DqFull == dq.put_index - dq.get_index = DqSize

DqEmpty == dq.get_index = dq.put_index

Slot(i) == i % DqSize

\* The number of items there are, whatever the code thinks there are.
Items == (dq.put_index - dq.get_index) % INDEX_RANGE

(***************************************************************************)
(* Once put_index has wrapped and get_index has not, their difference is   *)
(* negative and DqFull is FALSE; and if DqSize does not divide INDEX_RANGE *)
(* the slots do not follow on from each other there.  A push may then take *)
(* the slot of an item that nobody has popped.                             *)
(***************************************************************************)
Overruns ==
    /\ dq.put_index < dq.get_index
    /\ Items >= DqSize \/ dq.slots[Slot(dq.put_index)] # NoItem

PushItem(item) ==
    dq' = [dq EXCEPT !.slots[Slot(dq.put_index)] = item,
                     !.put_index = (@ + 1) % INDEX_RANGE,
                     !.overrun = @ \/ Overruns]

PopItem ==
    dq' = [dq EXCEPT !.slots[Slot(dq.get_index)] = NoItem,
                     !.get_index = (@ + 1) % INDEX_RANGE]

\* Wait at the end of the list.  The timeout is not reduced by what was waited
\* before: c keeps it as it was given.
DqWait(t, w, c) ==
    /\ k' = Block(k, w, t, FIFO, c.arg.timeout)
    /\ call' = [call EXCEPT ![t] = c]
    /\ Goto(t, "wait")
    /\ UNCHANGED <<budget, dq>>

\* From the test of the loop of rt_data_queue_push on.
PushLoop(t, c) ==
    IF DqFull THEN DqWait(t, DqPushers, c)
    ELSE /\ PushItem(c.arg.item)
         /\ k' = WakeFirst(k, DqPoppers)
         /\ Leave(t, AfterWake(DqPoppers))

rt_data_queue_push(t) ==
    /\ Calls(t)
    /\ \E item \in ThreadItem, timeout \in Times[t] :
         PushLoop(t, NewCall("rt_data_queue_push", [item |-> item, timeout |-> timeout], 0))
    /\ UNCHANGED isr

PushResumed(t) ==
    /\ Woken(t, "rt_data_queue_push")
    /\ IF Failed(t) THEN Return(t) /\ UNCHANGED dq ELSE PushLoop(t, call[t])
    /\ UNCHANGED isr

\* rt_data_queue_push with time 0 in an interrupt handler.
DevicePush ==
    /\ isr = "none"
    /\ ~DqFull
    /\ \E item \in DeviceItem : PushItem(item)
    /\ k' = IF k.wait[DqPoppers] = << >> THEN k
            ELSE rt_schedule(rt_ipc_list_resume(k, DqPoppers))
    /\ UNCHANGED <<pc, isr, call, budget>>

\* Mutant: below the low-water mark only.
BelowMark == dq.put_index - ((dq.get_index + 1) % INDEX_RANGE) < DqLwm

\* After a pop: no more than lwm items are left.
AtMark == dq.put_index - ((dq.get_index + 1) % INDEX_RANGE) <= DqLwm

\* From the test of the loop of rt_data_queue_pop on.
PopLoop(t, c) ==
    IF DqEmpty THEN DqWait(t, DqPoppers, c)
    ELSE /\ PopItem
         /\ k' = IF AtMark THEN WakeFirst(k, DqPushers) ELSE k
         /\ Leave(t, IF AtMark THEN AfterWake(DqPushers) ELSE "run")

rt_data_queue_pop(t) ==
    /\ Calls(t)
    /\ \E timeout \in Times[t] :
         PopLoop(t, NewCall("rt_data_queue_pop", [timeout |-> timeout], 0))
    /\ UNCHANGED isr

PopResumed(t) ==
    /\ Woken(t, "rt_data_queue_pop")
    /\ IF Failed(t) THEN Return(t) /\ UNCHANGED dq ELSE PopLoop(t, call[t])
    /\ UNCHANGED isr

\* rt_data_queue_pop with time 0 in an interrupt handler.
DevicePop ==
    /\ isr = "none"
    /\ ~DqEmpty
    /\ PopItem
    /\ k' = IF AtMark /\ k.wait[DqPushers] # << >>
            THEN rt_schedule(rt_ipc_list_resume(k, DqPushers)) ELSE k
    /\ UNCHANGED <<pc, isr, call, budget>>

\* With the scheduler locked both lists are woken with an error; the items
\* stay.
rt_data_queue_reset(t) ==
    /\ Calls(t)
    /\ k' = [k EXCEPT !.lock = @ + 1]
    /\ call' = [call EXCEPT ![t] = NewCall("rt_data_queue_reset", << >>, 0)]
    /\ Goto(t, "wake")
    /\ UNCHANGED <<isr, budget, dq>>

\* An iteration of one loop and then the other; the unlock schedules, and so
\* does the function at its end.  (The gap between the test of the loop and
\* its section is a matter of module Semaphore.)
DqResetStep(t) ==
    /\ Continues(t, "wake") /\ call[t].op = "rt_data_queue_reset"
    /\ LET waiters == k.wait[DqPoppers] \o k.wait[DqPushers]
       IN  IF waiters # << >>
           THEN k' = ResumeWithError(k, Head(waiters)) /\ UNCHANGED <<pc, call, budget>>
           ELSE k' = rt_schedule([k EXCEPT !.lock = @ - 1]) /\ Leave(t, "sched")
    /\ UNCHANGED <<isr, dq>>

DataQueueCall(t) ==
    \/ rt_data_queue_push(t) \/ PushResumed(t) \/ rt_data_queue_pop(t) \/ PopResumed(t)
    \/ rt_data_queue_reset(t) \/ DqResetStep(t)

DataQueueNext ==
    \/ IpcKernelStep /\ UNCHANGED dq
    \/ \E t \in Thread : DataQueueCall(t)
    \/ DevicePush \/ DevicePop

DataQueueSpec == IpcCallInit /\ DataQueueInit /\ [][DataQueueNext]_dataQueueVars

-----------------------------------------------------------------------------
(* Properties *)

\* A thread sleeps for an item only while every item has a thread that was
\* resumed for it.
NoLostItem ==
    k.wait[DqPoppers] # << >> =>
        Items <= Cardinality(Resumed("rt_data_queue_pop"))

\* The low-water mark never leaves pushers asleep beside an empty queue, where
\* no pop would come by to wake them.
NoStandoff ==
    k.wait[DqPushers] # << >> /\ Items = 0 => Resumed("rt_data_queue_push") # {}

\* Nobody sleeps beside the item or, until a push overruns the ring, behind the
\* low-water mark he waits for.
DataQueueInvariant ==
    /\ NoLostItem
    /\ dq.overrun \/ NoStandoff

DqContents == [i \in 1 .. Items |-> dq.slots[Slot((dq.get_index + i - 1) % INDEX_RANGE)]]

DataQueueAbstract == INSTANCE AbstractQueue WITH
    Item <- ThreadItem \cup DeviceItem, Capacity <- DqSize, contents <- DqContents

\* The items come out in the order they went in, each once and never more than
\* the ring holds, until a push overruns it; and no push does before put_index
\* has wrapped round past get_index.
DataQueueRefinement ==
    /\ DataQueueAbstract!Init
    /\ [][\/ dq.overrun'
          \/ DataQueueAbstract!Put \/ DataQueueAbstract!Get]_DqContents

\* "queue is full": a push waits for a slot then, and never goes over an item
\* that is still queued.
FullWaits == Items <= DqSize

=============================================================================
