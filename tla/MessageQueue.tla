---------------------------- MODULE MessageQueue ----------------------------
(***************************************************************************)
(* A message queue of ipc.c: a linked list of messages with a pointer to   *)
(* its head and one to its tail, and a list of free nodes.  A message is   *)
(* copied into and out of its node with interrupts enabled: between the    *)
(* sections of a send or a receive the node is in neither list.            *)
(***************************************************************************)
EXTENDS IpcCall, FiniteSets

CONSTANTS
    MqReceivers,   \* mq->parent.suspend_thread
    MqFlag,        \* FIFO or PRIO
    Node,          \* the rt_mq_message blocks of msg_pool, a sequence
    NULL,          \* RT_NULL
    ThreadMessage, \* the messages threads send
    DeviceMessage, \* the messages the device interrupt sends
    NoMessage      \* what a node that is free, or just taken, holds

ASSUME MessageQueueConstants ==
    /\ MqReceivers \in WaitList
    /\ MqFlag \in {FIFO, PRIO}
    /\ IsInjective(Node) /\ NULL \notin Range(Node)
    /\ NoMessage \notin ThreadMessage \cup DeviceMessage

VARIABLES
    mq,      \* the queue: its three pointers, entry, the nodes' next and data
    mqLate   \* history: a resumed receiver went on in it after rt_mq_detach

messageQueueVars == <<k, pc, isr, call, budget, mq, mqLate>>

Message == ThreadMessage \cup DeviceMessage
Nodes == Range(Node)

\* The nodes are put in front of one another in the free list.
EmptyQueue ==
    [next |-> [n \in Nodes |->
        LET i == CHOOSE j \in DOMAIN Node : Node[j] = n
        IN  IF i = 1 THEN NULL ELSE Node[i - 1]],
     data |-> [n \in Nodes |-> NoMessage],
     head |-> NULL, tail |-> NULL,
     free |-> IF Node = << >> THEN NULL ELSE Last(Node),
     entry |-> 0, obj |-> "live"]

MessageQueueInit == mq = EmptyQueue /\ mqLate = FALSE

MqDetaching == \E t \in Thread : call[t].op = "rt_mq_detach"

\* Nobody calls on a queue that is detached or being detached.
MqMayUse == mq.obj = "live" /\ ~MqDetaching

-----------------------------------------------------------------------------
(* The sections, as operators on the queue q *)

TakeFree(q) == [q EXCEPT !.free = q.next[q.free]]

\* The copy into the node n, which no list holds.
Fill(q, n, message) == [q EXCEPT !.data[n] = message]

\* A sent message is the new tail.
LinkLast(q, n) ==
    LET linked == IF q.tail # NULL THEN [q EXCEPT !.next[q.tail] = n] ELSE q
    IN  [linked EXCEPT !.tail = n,
                       !.head = IF @ = NULL THEN n ELSE @,
                       !.entry = @ + 1]

\* An urgent message is the new head.
LinkFirst(q, n) ==
    [q EXCEPT !.next[n] = q.head,
              !.head = n,
              !.tail = IF @ = NULL THEN n ELSE @,
              !.entry = @ + 1]

\* Mutant: the tail still points to the message that was taken.
UnlinkKeepsTail(q) == [q EXCEPT !.head = q.next[q.head], !.entry = @ - 1]

\* The head is taken, whose data is still to be copied.
Unlink(q) ==
    [q EXCEPT !.head = q.next[q.head],
              !.tail = IF @ = q.head THEN NULL ELSE @,
              !.entry = @ - 1]

PutFree(q, n) ==
    [q EXCEPT !.next[n] = q.free, !.free = n, !.data[n] = NoMessage]

\* The list that starts at a pointer; one node more than there are if it
\* comes back to itself.
ListFrom(first) == Chain(mq.next, first, NULL, Len(Node) + 1)

Queued == ListFrom(mq.head)
Free == ListFrom(mq.free)

-----------------------------------------------------------------------------
(* rt_mq_send and rt_mq_urgent *)

\* A node is taken for the message.  Without one the call changes nothing.
MqSendBegin(t, op) ==
    /\ Calls(t) /\ MqMayUse
    /\ mq.free # NULL
    /\ \E message \in ThreadMessage :
         call' = [call EXCEPT ![t] = NewCall(op, [node |-> mq.free, message |-> message], 0)]
    /\ mq' = TakeFree(mq)
    /\ Goto(t, "copy")
    /\ UNCHANGED <<k, isr, budget, mqLate>>

rt_mq_send(t) == MqSendBegin(t, "rt_mq_send")
rt_mq_urgent(t) == MqSendBegin(t, "rt_mq_urgent")

\* With interrupts enabled; a sent message is to be the last.
MqSendCopy(t) ==
    /\ Continues(t, "copy") /\ call[t].op \in {"rt_mq_send", "rt_mq_urgent"}
    /\ LET n == call[t].arg.node
           last == IF call[t].op = "rt_mq_send" THEN [mq EXCEPT !.next[n] = NULL] ELSE mq
       IN  mq' = Fill(last, n, call[t].arg.message)
    /\ Goto(t, "link")
    /\ UNCHANGED <<k, isr, call, budget, mqLate>>

Link(q, op, n) == IF op = "rt_mq_send" THEN LinkLast(q, n) ELSE LinkFirst(q, n)

MqSendLink(t) ==
    /\ Continues(t, "link")
    /\ mq' = Link(mq, call[t].op, call[t].arg.node)
    /\ k' = WakeFirst(k, MqReceivers)
    /\ Leave(t, AfterWake(MqReceivers))
    /\ UNCHANGED <<isr, mqLate>>

\* Either call, from beginning to end, in an interrupt handler.
DeviceMqSend ==
    /\ isr = "none" /\ MqMayUse
    /\ mq.free # NULL
    /\ \E message \in DeviceMessage, op \in {"rt_mq_send", "rt_mq_urgent"} :
         LET n == mq.free
             taken == [TakeFree(mq) EXCEPT !.next[n] = NULL]
         IN  mq' = Link(Fill(taken, n, message), op, n)
    /\ k' = IF k.wait[MqReceivers] = << >> THEN k
            ELSE rt_schedule(rt_ipc_list_resume(k, MqReceivers))
    /\ UNCHANGED <<pc, isr, call, budget, mqLate>>

-----------------------------------------------------------------------------
(* rt_mq_recv *)

\* Mutant: the node is free before its message is copied.
MqRecvLoopFrees(t, c) ==
    IF mq.entry = 0
    THEN /\ IF c.time = 0
            THEN k' = [k EXCEPT !.error[t] = ETIMEOUT] /\ Leave(t, "run")
            ELSE WaitOn(t, MqReceivers, MqFlag, c)
         /\ UNCHANGED mq
    ELSE /\ mq' = PutFree(Unlink(mq), mq.head)
         /\ call' = [call EXCEPT ![t] =
                       NewCall("rt_mq_recv", [node |-> mq.head, message |-> mq.data[mq.head]], 0)]
         /\ budget' = [budget EXCEPT ![t] = 0]
         /\ Goto(t, "copy")
         /\ UNCHANGED k

\* From the test of the loop on.  The message that is in the node now is kept
\* to be compared with what is copied later.
MqRecvLoop(t, c) ==
    IF mq.entry = 0
    THEN /\ IF c.time = 0
            THEN k' = [k EXCEPT !.error[t] = ETIMEOUT] /\ Leave(t, "run")
            ELSE WaitOn(t, MqReceivers, MqFlag, c)
         /\ UNCHANGED mq
    ELSE /\ mq' = Unlink(mq)
         /\ call' = [call EXCEPT ![t] =
                       NewCall("rt_mq_recv", [node |-> mq.head, message |-> mq.data[mq.head]], 0)]
         /\ budget' = [budget EXCEPT ![t] = 0]
         /\ Goto(t, "copy")
         /\ UNCHANGED k

rt_mq_recv(t) ==
    /\ Calls(t) /\ MqMayUse
    /\ \E time \in Times[t] : MqRecvLoop(t, NewCall("rt_mq_recv", NoMessage, time))
    /\ UNCHANGED <<isr, mqLate>>

\* The loop does not look whether the queue is still one.
MqRecvResumed(t) ==
    /\ Woken(t, "rt_mq_recv")
    /\ IF Failed(t) THEN Return(t) /\ UNCHANGED <<mq, mqLate>>
       ELSE MqRecvLoop(t, Rested(t)) /\ mqLate' = (mqLate \/ ~MqMayUse)
    /\ UNCHANGED isr

\* The copy out of the node, with interrupts enabled: see MessageIntact.
MqRecvCopy(t) ==
    /\ Continues(t, "copy") /\ call[t].op = "rt_mq_recv"
    /\ Goto(t, "free")
    /\ UNCHANGED <<k, isr, call, budget, mq, mqLate>>

MqRecvFree(t) ==
    /\ Continues(t, "free")
    /\ mq' = PutFree(mq, call[t].arg.node)
    /\ Return(t)
    /\ UNCHANGED <<isr, mqLate>>

-----------------------------------------------------------------------------
(* RT_IPC_CMD_RESET, detach, init *)

\* The loop that moves the messages to the free list, the oldest first.
Released ==
    LET after[i \in 0 .. Len(Queued)] ==
            IF i = 0 THEN mq ELSE PutFree(Unlink(after[i - 1]), after[i - 1].head)
    IN  after[Len(Queued)]

rt_mq_control(t) ==
    /\ Calls(t) /\ MqMayUse
    /\ k' = rt_ipc_list_resume_all(k, MqReceivers)
    /\ mq' = [Released EXCEPT !.entry = 0]
    /\ Goto(t, "sched")
    /\ UNCHANGED <<isr, call, budget, mqLate>>

rt_mq_detach(t) ==
    /\ Calls(t) /\ MqMayUse
    /\ call' = [call EXCEPT ![t] = NewCall("rt_mq_detach", NoMessage, 0)]
    /\ Goto(t, "wake")
    /\ UNCHANGED <<k, isr, budget, mq, mqLate>>

\* An iteration of rt_ipc_list_resume_all, or rt_object_detach at its end.  (The
\* gap between the test of the loop and its section is in module Semaphore.)
MqDetachStep(t) ==
    /\ Continues(t, "wake") /\ call[t].op = "rt_mq_detach"
    /\ IF k.wait[MqReceivers] # << >>
       THEN /\ k' = ResumeWithError(k, Head(k.wait[MqReceivers]))
            /\ UNCHANGED <<pc, call, budget, mq>>
       ELSE mq' = [mq EXCEPT !.obj = "detached"] /\ Return(t)
    /\ UNCHANGED <<isr, mqLate>>

\* Nobody sleeps on the queue or is between the sections of a call: that is
\* left to the users, or the list would lose sleepers and its nodes be shared.
rt_mq_init(t) ==
    /\ Calls(t)
    /\ mq.obj = "detached"
    /\ k.wait[MqReceivers] = << >>
    /\ \A u \in Thread : pc[u] \notin {"copy", "link", "free"}
    /\ mq' = EmptyQueue
    /\ mqLate' = FALSE
    /\ UNCHANGED <<k, pc, isr, call, budget>>

MessageQueueCall(t) ==
    \/ rt_mq_send(t) \/ rt_mq_urgent(t) \/ MqSendCopy(t) \/ MqSendLink(t)
    \/ rt_mq_recv(t) \/ MqRecvResumed(t) \/ MqRecvCopy(t) \/ MqRecvFree(t)
    \/ rt_mq_control(t) \/ rt_mq_detach(t) \/ MqDetachStep(t) \/ rt_mq_init(t)

MessageQueueNext ==
    \/ IpcKernelStep /\ UNCHANGED <<mq, mqLate>>
    \/ \E t \in Thread : MessageQueueCall(t)
    \/ DeviceMqSend

MessageQueueSpec == IpcCallInit /\ MessageQueueInit /\ [][MessageQueueNext]_messageQueueVars

-----------------------------------------------------------------------------
(* Properties *)

\* The nodes callers hold between two sections.
Held == {call[t].arg.node : t \in {u \in Thread : pc[u] \in {"copy", "link", "free"}}}

\* Every node is queued, free, or held by one caller that copies it, in exactly
\* one of these places; the queue ends at its tail and is as long as entry.
NodesConserved ==
    /\ IsInjective(Queued \o Free)
    /\ Range(Queued) \cap Held = {} /\ Range(Free) \cap Held = {}
    /\ Range(Queued) \cup Range(Free) \cup Held = Nodes
    /\ Len(Queued) = mq.entry
    /\ mq.tail = IF Queued = << >> THEN NULL ELSE Last(Queued)

\* What a receiver copies, after it has left the section in which it took the
\* message, is that message.
MessageIntact ==
    \A t \in Thread : pc[t] = "copy" /\ call[t].op = "rt_mq_recv" =>
        mq.data[call[t].arg.node] = call[t].arg.message

\* A receiver sleeps only while every message has a receiver that was resumed
\* for it.
NoLostMessage ==
    k.wait[MqReceivers] # << >> => mq.entry <= Cardinality(Resumed("rt_mq_recv"))

\* Nobody sleeps on a queue that is detached: "resume all suspended thread".  A
\* receiver that was resumed before is not suspended and may sleep on it again.
DetachedQueueIsEmpty == mq.obj = "detached" /\ ~mqLate => k.wait[MqReceivers] = << >>

\* No node and no message is lost, shared or overwritten between the sections of
\* senders and receivers, and nobody sleeps beside a message or a dead queue.
MessageQueueInvariant ==
    /\ NodesConserved
    /\ MessageIntact
    /\ NoLostMessage
    /\ DetachedQueueIsEmpty

\* The messages come out in the order they were linked, urgent ones first,
\* whatever callers are between two sections.
MessageQueueAbstract == INSTANCE AbstractQueue WITH
    Item <- Message, Capacity <- Len(Node),
    contents <- [i \in 1 .. Len(Queued) |-> mq.data[Queued[i]]]

MessageQueueRefinement == MessageQueueAbstract!Spec

=============================================================================
