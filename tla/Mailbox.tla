------------------------------ MODULE Mailbox -------------------------------
(***************************************************************************)
(* A mailbox of ipc.c: a ring of mails with two suspend lists, one of      *)
(* receivers that found it empty and one of senders that found it full.    *)
(* Threads send, receive, reset, detach and initialise it; a device        *)
(* interrupt sends without waiting; waits time out.                        *)
(*                                                                         *)
(* rt_ipc_list_resume_all of the detach is a step per waiter: the gap      *)
(* between its test and its section is a matter of module Semaphore.  A    *)
(* caller that a mail, a free slot or a reset has resumed may go on when   *)
(* the detach has begun or is over.                                        *)
(***************************************************************************)
EXTENDS IpcCall, FiniteSets

CONSTANTS
    MbReceivers,   \* mb->parent.suspend_thread
    MbSenders,     \* mb->suspend_sender_thread
    MbFlag,        \* FIFO or PRIO
    MbSize,        \* mb->size
    ThreadMail,    \* the mails threads send
    DeviceMail,    \* the mails the device interrupt sends
    NoMail         \* what an unused slot of the pool holds

ASSUME MailboxConstants ==
    /\ {MbReceivers, MbSenders} \subseteq WaitList /\ MbReceivers # MbSenders
    /\ MbFlag \in {FIFO, PRIO}
    /\ MbSize \in Nat \ {0}
    /\ NoMail \notin ThreadMail \cup DeviceMail

Mail == ThreadMail \cup DeviceMail

VARIABLES
    mb,      \* the mailbox: pool, in_offset, out_offset, entry, and obj
    mbLate   \* history: a resumed caller went on in it after rt_mb_detach

mailboxVars == <<k, pc, isr, call, budget, mb, mbLate>>

MailboxInit ==
    /\ mb = [pool |-> [i \in 0 .. MbSize - 1 |-> NoMail],
             in_offset |-> 0, out_offset |-> 0, entry |-> 0, obj |-> "live"]
    /\ mbLate = FALSE

MbFull == mb.entry = MbSize
MbEmpty == mb.entry = 0

MbDetaching == \E t \in Thread : call[t].op = "rt_mb_detach"

\* Nobody calls on a mailbox that is detached or being detached: the calls
\* assert that it is one.
MbMayUse == mb.obj = "live" /\ ~MbDetaching

-----------------------------------------------------------------------------

\* Mutant: the last slot is not used.
NextSlotShort(i) == IF i + 1 >= MbSize - 1 THEN 0 ELSE i + 1

NextSlot(i) == IF i + 1 >= MbSize THEN 0 ELSE i + 1

\* The section of a send that finds a free slot: the mail goes in and the
\* first receiver is resumed.
Deposit(mail) ==
    mb' = [mb EXCEPT !.pool[mb.in_offset] = mail,
                     !.in_offset = NextSlot(@),
                     !.entry = @ + 1]

\* rt_mb_send_wait from the test of its loop on.
SendLoop(t, c) ==
    IF MbFull
    THEN /\ IF c.time = 0 THEN Return(t) ELSE WaitOn(t, MbSenders, MbFlag, c)
         /\ UNCHANGED mb
    ELSE /\ Deposit(c.arg)
         /\ k' = WakeFirst(k, MbReceivers)
         /\ Leave(t, AfterWake(MbReceivers))

\* Called with a time: without one, a full mailbox changes nothing.
rt_mb_send_wait(t) ==
    /\ Calls(t) /\ MbMayUse
    /\ \E mail \in ThreadMail, time \in Times[t] : SendLoop(t, NewCall("rt_mb_send_wait", mail, time))
    /\ UNCHANGED <<isr, mbLate>>

\* The loop does not look whether the mailbox is still one.
SendResumed(t) ==
    /\ Woken(t, "rt_mb_send_wait")
    /\ IF Failed(t) THEN Return(t) /\ UNCHANGED <<mb, mbLate>>
       ELSE SendLoop(t, Rested(t)) /\ mbLate' = (mbLate \/ ~MbMayUse)
    /\ UNCHANGED isr

\* Mutant: only the mail that ends the emptiness wakes a receiver.
DeviceSendWakesOnce ==
    /\ isr = "none" /\ MbMayUse
    /\ ~MbFull
    /\ \E mail \in DeviceMail : Deposit(mail)
    /\ k' = IF MbEmpty THEN rt_schedule(WakeFirst(k, MbReceivers)) ELSE k
    /\ UNCHANGED <<pc, isr, call, budget, mbLate>>

\* rt_mb_send in the handler of a device interrupt: it never waits.
DeviceSend ==
    /\ isr = "none" /\ MbMayUse
    /\ ~MbFull
    /\ \E mail \in DeviceMail : Deposit(mail)
    /\ k' = IF k.wait[MbReceivers] = << >> THEN k
            ELSE rt_schedule(rt_ipc_list_resume(k, MbReceivers))
    /\ UNCHANGED <<pc, isr, call, budget, mbLate>>

\* The section of a receive that finds a mail; the slot is free again.
Fetch ==
    mb' = [mb EXCEPT !.pool[mb.out_offset] = NoMail,
                     !.out_offset = NextSlot(@),
                     !.entry = @ - 1]

\* rt_mb_recv from the test of its loop on.
RecvLoop(t, c) ==
    IF MbEmpty
    THEN /\ IF c.time = 0
            THEN k' = [k EXCEPT !.error[t] = ETIMEOUT] /\ Leave(t, "run")
            ELSE WaitOn(t, MbReceivers, MbFlag, c)
         /\ UNCHANGED mb
    ELSE /\ Fetch
         /\ k' = WakeFirst(k, MbSenders)
         /\ Leave(t, AfterWake(MbSenders))

rt_mb_recv(t) ==
    /\ Calls(t) /\ MbMayUse
    /\ \E time \in Times[t] : RecvLoop(t, NewCall("rt_mb_recv", NoMail, time))
    /\ UNCHANGED <<isr, mbLate>>

RecvResumed(t) ==
    /\ Woken(t, "rt_mb_recv")
    /\ IF Failed(t) THEN Return(t) /\ UNCHANGED <<mb, mbLate>>
       ELSE RecvLoop(t, Rested(t)) /\ mbLate' = (mbLate \/ ~MbMayUse)
    /\ UNCHANGED isr

\* rt_mb_recv with time 0 in an interrupt handler.
DeviceRecv ==
    /\ isr = "none" /\ MbMayUse
    /\ ~MbEmpty
    /\ Fetch
    /\ k' = IF k.wait[MbSenders] = << >> THEN k
            ELSE rt_schedule(rt_ipc_list_resume(k, MbSenders))
    /\ UNCHANGED <<pc, isr, call, budget, mbLate>>

MbReset == [mb EXCEPT !.pool = [i \in 0 .. MbSize - 1 |-> NoMail],
                      !.entry = 0, !.in_offset = 0, !.out_offset = 0]

\* RT_IPC_CMD_RESET: both lists are woken with an error, the mails dropped.
rt_mb_control(t) ==
    /\ Calls(t) /\ MbMayUse
    /\ k' = rt_ipc_list_resume_all(rt_ipc_list_resume_all(k, MbReceivers), MbSenders)
    /\ mb' = MbReset
    /\ Goto(t, "sched")
    /\ UNCHANGED <<isr, call, budget, mbLate>>

-----------------------------------------------------------------------------

\* arg: the list whose waiters are woken.
rt_mb_detach(t) ==
    /\ Calls(t) /\ MbMayUse
    /\ call' = [call EXCEPT ![t] = NewCall("rt_mb_detach", MbReceivers, 0)]
    /\ Goto(t, "wake")
    /\ UNCHANGED <<k, isr, budget, mb, mbLate>>

\* An iteration of rt_ipc_list_resume_all for one list and then the other, and
\* rt_object_detach, after which nothing schedules.
MbDetachStep(t) ==
    /\ Continues(t, "wake") /\ call[t].op = "rt_mb_detach"
    /\ LET w == call[t].arg
       IN  \/ /\ k.wait[w] # << >>
              /\ k' = ResumeWithError(k, Head(k.wait[w]))
              /\ UNCHANGED <<pc, call, budget, mb>>
           \/ /\ k.wait[w] = << >> /\ w = MbReceivers
              /\ call' = [call EXCEPT ![t].arg = MbSenders]
              /\ UNCHANGED <<k, pc, budget, mb>>
           \/ /\ k.wait[w] = << >> /\ w = MbSenders
              /\ mb' = [mb EXCEPT !.obj = "detached"]
              /\ Return(t)
    /\ UNCHANGED <<isr, mbLate>>

\* Nobody sleeps on the mailbox any more: that is left to the users, or the
\* lists would lose them.
rt_mb_init(t) ==
    /\ Calls(t)
    /\ mb.obj = "detached"
    /\ k.wait[MbReceivers] = << >> /\ k.wait[MbSenders] = << >>
    /\ mb' = [MbReset EXCEPT !.obj = "live"]
    /\ mbLate' = FALSE
    /\ UNCHANGED <<k, pc, isr, call, budget>>

MailboxCall(t) ==
    \/ rt_mb_send_wait(t) \/ SendResumed(t) \/ rt_mb_recv(t) \/ RecvResumed(t)
    \/ rt_mb_control(t)
    \/ rt_mb_detach(t) \/ MbDetachStep(t) \/ rt_mb_init(t)

MailboxNext ==
    \/ IpcKernelStep /\ UNCHANGED <<mb, mbLate>>
    \/ \E t \in Thread : MailboxCall(t)
    \/ DeviceSend \/ DeviceRecv

MailboxSpec == IpcCallInit /\ MailboxInit /\ [][MailboxNext]_mailboxVars

-----------------------------------------------------------------------------
(* Properties *)

MailboxTypeOK ==
    mb \in [pool : [0 .. MbSize - 1 -> Mail \cup {NoMail}],
            in_offset : 0 .. MbSize - 1, out_offset : 0 .. MbSize - 1,
            entry : 0 .. MbSize, obj : {"live", "detached"}]

\* A receiver sleeps only while every mail has a receiver that was resumed for
\* it: no mail lies in the box with everybody asleep.
NoLostMail ==
    k.wait[MbReceivers] # << >> => mb.entry <= Cardinality(Resumed("rt_mb_recv"))

\* A sender sleeps only while every free slot has a sender that was resumed
\* for it.
NoLostSlot ==
    k.wait[MbSenders] # << >> =>
        MbSize - mb.entry <= Cardinality(Resumed("rt_mb_send_wait"))

\* Nobody sleeps on a mailbox that is detached, where nothing would wake him:
\* "resume all suspended thread", "also resume all mailbox private suspended
\* thread".  A caller that was resumed before is not suspended, tests the
\* mailbox again and may go to sleep on what is left of it.
DetachedMailboxIsEmpty ==
    mb.obj = "detached" /\ ~mbLate =>
        k.wait[MbReceivers] = << >> /\ k.wait[MbSenders] = << >>

\* No mail and no slot is left beside a sleeper, and detaching forgets nobody
\* who sleeps.
MailboxInvariant ==
    /\ MailboxTypeOK
    /\ NoLostMail
    /\ NoLostSlot
    /\ DetachedMailboxIsEmpty

\* The mails come out in the order they went in, whichever thread or interrupt
\* sent them.
MailboxQueue == INSTANCE AbstractQueue WITH
    Item <- Mail, Capacity <- MbSize,
    contents <- [i \in 1 .. mb.entry |-> mb.pool[(mb.out_offset + i - 1) % MbSize]]

MailboxRefinement == MailboxQueue!Fifo

=============================================================================
