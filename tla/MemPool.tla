------------------------------ MODULE MemPool -------------------------------
(***************************************************************************)
(* A memory pool of mempool.c: blocks of one size, the free ones chained   *)
(* through their headers; the header of an allocated block points to its   *)
(* pool.  Threads allocate, waiting if they have to, and free; a device    *)
(* interrupt frees.  The pool counts the threads on its suspend list       *)
(* itself.                                                                 *)
(***************************************************************************)
EXTENDS IpcCall, FiniteSets

CONSTANTS
    MpWaiters,   \* mp->suspend_thread
    Chunk,       \* the blocks of the pool, in the order of their addresses
    Pool,        \* the address of the pool itself
    NoChunk,     \* RT_NULL
    MpTimes      \* the times each thread gives rt_mp_alloc

ASSUME MemPoolConstants ==
    /\ MpWaiters \in WaitList
    /\ Chunk \in Seq(Range(Chunk)) /\ IsInjective(Chunk) /\ Chunk # << >>
    /\ {Pool, NoChunk} \cap Range(Chunk) = {} /\ Pool # NoChunk
    /\ MpTimes \in [Thread -> SUBSET ({WAITING_FOREVER} \cup 1 .. HALF_RANGE - 1)]

VARIABLES
    mp,    \* the pool: its counters, the list, the blocks' headers, and obj
    used,  \* history: the blocks that were allocated and not freed
    mpLate \* history: a resumed caller went on in it after rt_mp_detach

memPoolVars == <<k, pc, isr, call, budget, mp, used, mpLate>>

\* rt_mp_init chains the blocks in the order of their addresses.
NewPool ==
    [header |-> [c \in Range(Chunk) |->
        LET i == CHOOSE j \in DOMAIN Chunk : Chunk[j] = c
        IN  IF i = Len(Chunk) THEN NoChunk ELSE Chunk[i + 1]],
     block_list |-> Head(Chunk),
     block_free_count |-> Len(Chunk),
     suspend_thread_count |-> 0,
     obj |-> "live"]

MemPoolInit == mp = NewPool /\ used = {} /\ mpLate = FALSE

MpDetaching == \E t \in Thread : call[t].op = "rt_mp_detach"

\* Nobody calls on a pool that is detached or being detached.
MpMayUse == mp.obj = "live" /\ ~MpDetaching

-----------------------------------------------------------------------------
(* rt_mp_alloc *)

\* The first free block is taken and marked as the pool's.
UnlinkBlock ==
    mp' = [mp EXCEPT !.block_free_count = @ - 1,
                     !.block_list = mp.header[mp.block_list],
                     !.header[mp.block_list] = Pool]

\* Suspend the caller as the first waiter, and count it.
MpWait(t, c) ==
    /\ k' = LET s == rt_thread_suspend([k EXCEPT !.error[t] = EOK], t)
                listed == [s EXCEPT !.wait[MpWaiters] = <<t>> \o @]
            IN  IF c.time > 0 THEN rt_timer_start(listed, t, c.time) ELSE listed
    /\ mp' = [mp EXCEPT !.suspend_thread_count = @ + 1]
    /\ call' = [call EXCEPT ![t] = [c EXCEPT !.start = IF c.time > 0 THEN k.tick ELSE 0]]
    /\ Goto(t, "wait")
    /\ UNCHANGED <<budget, used>>

\* From the test of the loop on.  (With time 0 and no block nothing changes.)
MpLoop(t, c) ==
    IF mp.block_free_count = 0
    THEN IF c.time = 0 THEN Return(t) /\ UNCHANGED <<mp, used>> ELSE MpWait(t, c)
    ELSE /\ UnlinkBlock
         /\ used' = used \cup {mp.block_list}
         /\ Return(t)

rt_mp_alloc(t) ==
    /\ Calls(t) /\ MpMayUse
    /\ \E time \in MpTimes[t] : MpLoop(t, NewCall("rt_mp_alloc", << >>, time))
    /\ UNCHANGED <<isr, mpLate>>

\* Back from rt_schedule: without a block, or with the rest of the time, which
\* is computed with interrupts enabled.
MpResumed(t) ==
    /\ Woken(t, "rt_mp_alloc")
    /\ IF Failed(t)
       THEN Return(t)
       ELSE call' = [call EXCEPT ![t] = Rested(t)] /\ Goto(t, "retry") /\ UNCHANGED <<k, budget>>
    /\ UNCHANGED <<isr, mp, used, mpLate>>

\* The loop does not look whether the pool is still one.
MpRetry(t) ==
    /\ Continues(t, "retry")
    /\ MpLoop(t, call[t])
    /\ mpLate' = (mpLate \/ ~MpMayUse)
    /\ UNCHANGED isr

-----------------------------------------------------------------------------
(* rt_mp_free *)

\* Mutant: the count of the waiters is not looked after.
FreedKeepsCount(c) ==
    [mp EXCEPT !.block_free_count = @ + 1, !.header[c] = mp.block_list, !.block_list = c]

\* The block is the first of the chain again.
Freed(c) ==
    [mp EXCEPT !.block_free_count = @ + 1,
               !.header[c] = mp.block_list,
               !.block_list = c,
               !.suspend_thread_count = IF @ > 0 THEN @ - 1 ELSE 0]

\* The count decides whether a waiter is resumed.
WakeWaiter ==
    IF mp.suspend_thread_count = 0 THEN k
    ELSE rt_ipc_list_resume([k EXCEPT !.error[Head(k.wait[MpWaiters])] = EOK], MpWaiters)

\* With a count and nobody in the list there is no thread to resume: what the
\* code does then is not modelled, see CountsWaiters.
MayFree(c) ==
    /\ mp.header[c] = Pool
    /\ mp.suspend_thread_count > 0 => k.wait[MpWaiters] # << >>

rt_mp_free(t) ==
    /\ Calls(t) /\ MpMayUse
    /\ \E c \in used : MayFree(c) /\ mp' = Freed(c) /\ used' = used \ {c}
    /\ k' = WakeWaiter
    /\ Goto(t, IF mp.suspend_thread_count > 0 THEN "sched" ELSE "run")
    /\ UNCHANGED <<isr, call, budget, mpLate>>

\* rt_mp_free in the handler of a device interrupt.
DeviceFree ==
    /\ isr = "none" /\ MpMayUse
    /\ \E c \in used : MayFree(c) /\ mp' = Freed(c) /\ used' = used \ {c}
    /\ k' = IF mp.suspend_thread_count = 0 THEN k ELSE rt_schedule(WakeWaiter)
    /\ UNCHANGED <<pc, isr, call, budget, mpLate>>

-----------------------------------------------------------------------------
(* rt_mp_detach, rt_mp_init *)

rt_mp_detach(t) ==
    /\ Calls(t) /\ MpMayUse
    /\ call' = [call EXCEPT ![t] = NewCall("rt_mp_detach", << >>, 0)]
    /\ Goto(t, "wake")
    /\ UNCHANGED <<k, isr, budget, mp, used, mpLate>>

\* An iteration of the loop, or rt_object_detach at its end.  (The gap between the
\* test of the loop and its section is in module Semaphore.)
MpDetachStep(t) ==
    /\ Continues(t, "wake") /\ call[t].op = "rt_mp_detach"
    /\ IF k.wait[MpWaiters] # << >>
       THEN /\ k' = ResumeWithError(k, Head(k.wait[MpWaiters]))
            /\ mp' = [mp EXCEPT !.suspend_thread_count = @ - 1]
            /\ UNCHANGED <<pc, call, budget>>
       ELSE mp' = [mp EXCEPT !.obj = "detached"] /\ Return(t)
    /\ UNCHANGED <<isr, used, mpLate>>

\* Nobody sleeps on the pool: that is left to the users, or the list would
\* lose them.
rt_mp_init(t) ==
    /\ Calls(t)
    /\ mp.obj = "detached"
    /\ k.wait[MpWaiters] = << >>
    /\ mp' = NewPool /\ used' = {} /\ mpLate' = FALSE
    /\ UNCHANGED <<k, pc, isr, call, budget>>

MemPoolCall(t) ==
    \/ rt_mp_alloc(t) \/ MpResumed(t) \/ MpRetry(t) \/ rt_mp_free(t)
    \/ rt_mp_detach(t) \/ MpDetachStep(t) \/ rt_mp_init(t)

MemPoolNext ==
    \/ IpcKernelStep /\ UNCHANGED <<mp, used, mpLate>>
    \/ \E t \in Thread : MemPoolCall(t)
    \/ DeviceFree

MemPoolSpec == IpcCallInit /\ MemPoolInit /\ [][MemPoolNext]_memPoolVars

-----------------------------------------------------------------------------
(* Properties *)

\* The blocks block_list leads to, one more than there are if it is a circle.
FreeBlocks == Chain(mp.header, mp.block_list, NoChunk, Len(Chunk) + 1)

\* A block is free or in use, never both: the chain of free blocks is as long
\* as block_free_count says, and the headers of the blocks in use lead to the
\* pool.
BlocksConserved ==
    /\ IsInjective(FreeBlocks)
    /\ Range(FreeBlocks) = Range(Chunk) \ used
    /\ mp.block_free_count = Len(FreeBlocks)
    /\ \A c \in used : mp.header[c] = Pool

\* suspend_thread_count is what rt_mp_free takes it for: "numbers of thread
\* pended on this resource".
CountsWaiters ==
    mp.obj = "live" => mp.suspend_thread_count = Len(k.wait[MpWaiters])

\* A thread sleeps only while every free block has a thread that was resumed
\* for it.
NoLostBlock ==
    k.wait[MpWaiters] # << >> =>
        mp.block_free_count <=
            Cardinality({t \in Thread : pc[t] = "retry"} \cup Resumed("rt_mp_alloc"))

\* Nobody sleeps on a pool that is detached: "wake up all suspended threads".  A
\* caller that was resumed before is not suspended and may sleep on it again.
DetachedPoolIsEmpty == mp.obj = "detached" /\ ~mpLate => k.wait[MpWaiters] = << >>

\* Blocks are neither lost nor shared, waiters are counted, and nobody sleeps
\* beside a free block or a dead pool.
MemPoolInvariant ==
    /\ BlocksConserved
    /\ CountsWaiters
    /\ NoLostBlock
    /\ DetachedPoolIsEmpty

=============================================================================
