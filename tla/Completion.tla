----------------------------- MODULE Completion -----------------------------
(***************************************************************************)
(* A completion of components/drivers/src/completion.c: one thread waits,  *)
(* with or without a timeout, for another thread or an interrupt to be     *)
(* done.                                                                   *)
(***************************************************************************)
EXTENDS IpcCall

CONSTANTS
    CpWaiters    \* completion->suspended_list

ASSUME CompletionConstants == CpWaiters \in WaitList

VARIABLE
    cp    \* completion->flag is RT_COMPLETED

completionVars == <<k, pc, isr, call, budget, cp>>

CompletionInit == cp = FALSE

-----------------------------------------------------------------------------

\* "only one thread can suspend on complete": the users see to it.
OneWaits == \A u \in Thread : call[u].op # "rt_completion_wait"

\* The flag is set: it is cleared and the caller goes on.
CompletionTaken(t) ==
    /\ Calls(t) /\ OneWaits
    /\ cp
    /\ cp' = FALSE
    /\ UNCHANGED <<k, pc, isr, call, budget>>

CompletionWait(t) ==
    /\ Calls(t) /\ OneWaits
    /\ ~cp
    /\ \E timeout \in Times[t] : k' = Block(k, CpWaiters, t, FIFO, timeout)
    /\ call' = [call EXCEPT ![t] = NewCall("rt_completion_wait", << >>, 0)]
    /\ Goto(t, "wait")
    /\ UNCHANGED <<isr, budget, cp>>

\* The flag is cleared however the wait ended, that of a completion between its
\* timeout and now too; thread->error is the result.
CompletionReturn(t) ==
    /\ Woken(t, "rt_completion_wait")
    /\ cp' = FALSE
    /\ Return(t)
    /\ UNCHANGED isr

\* rt_completion_done tests the flag with interrupts enabled.
CompletionTest(t) ==
    /\ Calls(t)
    /\ ~cp
    /\ call' = [call EXCEPT ![t] = NewCall("rt_completion_done", << >>, 0)]
    /\ Goto(t, "done")
    /\ UNCHANGED <<k, isr, budget, cp>>

CompletionDone(t) ==
    /\ Continues(t, "done")
    /\ k' = WakeFirst(k, CpWaiters)
    /\ cp' = TRUE
    /\ Leave(t, AfterWake(CpWaiters))
    /\ UNCHANGED isr

\* Mutant: the flag is set and the waiter is left asleep.
DeviceDoneOnly ==
    /\ isr = "none"
    /\ ~cp
    /\ cp' = TRUE
    /\ UNCHANGED <<k, pc, isr, call, budget>>

\* rt_completion_done in the handler of a device interrupt.
DeviceDone ==
    /\ isr = "none"
    /\ ~cp
    /\ cp' = TRUE
    /\ k' = IF k.wait[CpWaiters] = << >> THEN k
            ELSE rt_schedule(rt_ipc_list_resume(k, CpWaiters))
    /\ UNCHANGED <<pc, isr, call, budget>>

CompletionCall(t) ==
    CompletionTaken(t) \/ CompletionWait(t) \/ CompletionReturn(t)
        \/ CompletionTest(t) \/ CompletionDone(t)

CompletionNext ==
    \/ IpcKernelStep /\ UNCHANGED cp
    \/ \E t \in Thread : CompletionCall(t)
    \/ DeviceDone

CompletionSpec == IpcCallInit /\ CompletionInit /\ [][CompletionNext]_completionVars

-----------------------------------------------------------------------------
(* Properties *)

\* The waiter never sleeps beside a completion: whoever is done after the
\* waiter has tested the flag finds it in the list.
NoLostCompletion == cp => k.wait[CpWaiters] = << >>

=============================================================================
