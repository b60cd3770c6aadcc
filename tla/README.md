# The RT-Thread kernel of the network clock, in TLA+

The repository is a "network clock based on RT-Thread": a board application on
top of the RT-Thread 4.0.0 kernel and a part of its components. This directory
models the kernel that everything else runs on, its scheduler, threads, timers
and all its IPC objects, its heap, the queues and buffers the drivers are built
from, the serial driver, the AT client of the network module, and the display of
the clock. The modules are checked with TLC on small instances. What the
scheduler, the threads, the sleeps, the semaphore, the mutex, the mailbox, the data
queue, the completion, the ring buffer, the work queue, the serial device, the AT client
and the heap promise is also proved with TLAPS, for every instance.

Paths below are relative to `src/rt-thread--backups--LK--12.8/`.

## 1. Inventory

The build for this board (`bsp/stm32f10x-HAL--LK/rtconfig.h`) is the
uniprocessor kernel with 32 priorities, 1000 ticks a second, `RT_DEBUG` on
(`RT_ASSERT` is active), semaphores, mutexes, events, mailboxes, message queues,
memory pools, no signals and no soft timers.

| component | state | operations | interacts with |
|---|---|---|---|
| scheduler, `src/scheduler.c` | `rt_thread_priority_table[]`, `rt_thread_ready_priority_group`, `rt_current_thread`, `rt_scheduler_lock_nest`, `rt_thread_defunct` | insert, remove, `rt_schedule`, enter/exit critical | everybody calls it; runs in threads and interrupts |
| threads, `src/thread.c` | `stat`, `current_priority`, `remaining_tick`, `error`, `tlist`, `thread_timer` of each control block | init/create, startup, yield, sleep, suspend, resume, control, exit, delete/detach, timeout | scheduler, timers, objects, idle thread |
| idle thread, `src/idle.c` | the defunct list, the heap | unlinks a defunct thread and frees it, or leaves a system object alone | scheduler lock, heap, objects |
| tick and timers, `src/clock.c`, `src/timer.c` | `rt_tick`, a sorted list of timers | tick interrupt, start, stop, check | wakes threads through `rt_thread_timeout` |
| objects, `src/object.c` | containers; type and static flag of each object | init, detach, allocate, delete | every create, delete and assertion |
| semaphore, `src/ipc.c` | value (16 bits), suspend list, FIFO/PRIO flag | init, detach/delete, take, trytake, release, reset | threads, interrupts, thread timers |
| mutex, `src/ipc.c` | value, owner, original priority, hold count, suspend list | take (nested), release, detach/delete | changes the priority of the owner |
| event, mailbox, message queue, `src/ipc.c` | bit set; ring of words; linked messages and free list | send, receive, urgent, reset | threads, interrupts, timers |
| memory pool, `src/mempool.c` | free blocks, suspend list and a count of it | alloc, free, delete | the same |
| heaps, `src/mem.c`, `memheap.c`, `slab.c` | block lists | malloc, free, realloc | one semaphore |
| completion, work, data and wait queues, ring buffers, `components/drivers/src` | flags, lists, indices | wait/done, submit/cancel, push/pop | built on suspend and resume |
| serial driver, `components/drivers/serial`, on `src/device.c` | open count and flags, receive FIFO shared with the interrupt, queue of DMA buffers | open, close, read, write, isr | AT client |
| AT client and sockets, `components/net/at` | one response at a time, two semaphores and a mutex | execute a command, parser thread, receive interrupt | serial driver, sockets |
| clock application, `bsp/.../applications` | the time, the digits on the panel of LEDs and their pixels, the colour | reads the clock, morphs digits, keys switch the panel, TIM3 changes the colour | clock, timer interrupt, menu |

What is hard here: every function is cut into sections with interrupts
disabled, and in the gaps the clock interrupt (time slices, timeouts), a device
interrupt, or another thread may come. A thread's `tlist` node moves between
ready lists, suspend lists and the defunct list; a thread's timer moves it on
its own. Priorities change under waiters. `rt_tick` wraps. Objects die while
threads wait on them.

What makes each component correct:
- scheduler: lists and bitmap agree, the running thread has the highest
  priority, a lock means no switch, equal priorities take turns;
- threads: a closed thread never runs again, memory is freed once and only
  dynamic memory, a resumed thread is resumed once, a deleted one is reclaimed;
- timers: no timeout is early or late, none fires on a thread that was woken;
- semaphores: no token is lost or invented, nobody waits for a token that is
  there, waiters are served in the order the flag says and told what happened;
- mutexes: mutual exclusion, priority inheritance and its end;
- mailboxes and queues: nothing is lost, duplicated or reordered, nobody sleeps
  beside the mail or the slot he waits for, a timed call keeps to its time;
- events: whoever's bits are set is awake, a cleared bit is handed to nobody;
- pools: a block is free or in use, and the count of waiters is right;
- completions, wait and work queues: no wake-up is lost between a test and a
  suspend, no work is left behind, a cancel waits for its work;
- ring buffers: mirror bits and indices describe what is in the buffer;
- application timers: active means linked, stopped means that it never fires;
- AT client: each command gets its own response, or a timeout, and no byte waits
  unnoticed;
- heap: blocks without gap or overlap, holes joined, no free block hidden from
  `rt_malloc`;
- serial device: bytes and buffers in order, none lost or doubled, a FIFO for
  whoever has it open;
- clock: after an update the panel shows the time that was read.

`PROJECT.json` lists the components with their status and the hazards of this
code, line by line, with the properties that cover each.

## 2. Modules

| module | models |
|---|---|
| `RtKernel` | the kernel data as one record `k`, and one operator per C function that changes it with interrupts disabled |
| `Threads` | EXTENDS RtKernel: threads calling `thread.c` and `scheduler.c`, idle thread, clock and device interrupts; one action per section |
| `Blocking` | EXTENDS RtKernel: what all IPC modules share: started threads that delay, wait and time out |
| `AbstractSemaphore` | what a semaphore promises: tokens, an order of arrival, who is served, what callers are told |
| `Semaphore` | EXTENDS Blocking: the semaphore of `ipc.c`; refines `AbstractSemaphore` |
| `Mutex` | EXTENDS Blocking: the mutexes of `ipc.c` |
| `IpcCall` | EXTENDS Blocking: calls that may be woken and wait again for the rest of their time |
| `AbstractQueue` | what a queue promises: items come out in the order they went in, urgent ones first |
| `Mailbox`, `MessageQueue` | EXTEND IpcCall: the ring of words, and the linked messages with their free list; both refine `AbstractQueue` |
| `Event` | EXTENDS IpcCall: bits, AND/OR/CLEAR, the walk of a send |
| `MemPool` | EXTENDS IpcCall: `mempool.c`, its chain of free blocks and its count of waiters |
| `DataQueue` | EXTENDS IpcCall: `dataqueue.c`, 16-bit indices and the low-water mark; refines `AbstractQueue` |
| `Completion`, `WaitQueue` | EXTEND IpcCall: `completion.c` and `waitqueue.c` |
| `Workqueue` | the worker thread, submitters, cancellers and interrupts of `workqueue.c` |
| `Timers` | application timers of `timer.c`: two threads, timer functions and the clock interrupt |
| `RingBuffer` | the bytes, indices and mirror bits of `ringbuffer.c` |
| `AtClient` | `at_client.c`: receive interrupt, parser thread, command callers, an AT module |
| `Heap` | `mem.c`: blocks and their headers, first fit, splitting and joining |
| `Serial` | `serial.c` as `device.c` opens it: open and close step by step, the receive FIFO, DMA transmission |
| `ClockDisplay` | `main.c`, `morphdigit.c`, `ledmatrix.c`, `timer.c` of the application: the time as pixels |
| `MCThreads`, `MCSemaphore`, `MCMutex`, `MCObjects`, `MCServices` | instances for TLC |
| `KernelProofs` | lemmas: lists, sorted lists and rings; the operators of RtKernel |
| `ThreadsProofs`, `SchedulingProofs` | theorems about Threads: the lists and the lives of threads; priorities, the lock, freed memory and timeouts |
| `BlockingProofs` | lemmas: what every step of Blocking keeps, and does to those who wait |
| `SemaphoreProofs`, `MutexProofs` | theorems about Semaphore, with its refinement, and Mutex |
| `QueueProofs` | theorems about RingBuffer, Mailbox, DataQueue, MemPool, Completion, WaitQueue and Event |
| `ServiceProofs` | theorems about Workqueue, Serial, AtClient and Heap |

### What the models leave in
A module has every interleaving and every wrap the code lets happen, also those it
does not survive well. Where such a case is in reach of a correct caller, the module
does not forbid it: a history variable records that it happened, the invariant says exactly what it excuses and for how long, and section 6 names the property that
the code breaks there and how to have TLC show it.

| history | module | records |
|---|---|---|
| `missed` | `Workqueue` | the last resume came between the worker's test and its suspend |
| `dq.overrun` | `DataQueue` | a push went over an unread item after `put_index` wrapped |
| `unread` (`Empties`) | `RingBuffer` | a forced put over equal mirror bits emptied the buffer |
| `hidden` | `Heap` | the blocks `rt_realloc` split off below `lfree` |
| `opening`, `astray` | `Serial` | opens or closes that met; a thread sent a buffer that is not the head |
| `past.gap`, `past.late`, `past.partial`, `past.clean` | `AtClient` | input in the parser's gap; an answer after its caller's time; how a command began |
| `past.led`, `past.stepped` | `ClockDisplay` | digits led to their value step by step; the interrupt stepped over BLACK |
| `tmMarred` | `Timers` | timers whose flag "active" was written over |
| `mbLate`, `mqLate`, `mpLate` | `Mailbox`, `MessageQueue`, `MemPool` | a caller resumed before a detach went on in the dead object |

Only two things are excluded by a hypothesis, `Disciplined`, because the code leaves
them to its callers and breaks at once without them: rules for `Threads` and
`Semaphore`, and for the detach of a `Mutex`.

### RtKernel
`k.ready[p]` is `rt_thread_priority_table[p]`, `k.group` the set bits of the
bitmap, `k.cur` `rt_current_thread`, `k.lock` the nesting of
`rt_enter_critical`, `k.wait[w]` the suspend list of an IPC object,
`k.defunct` the defunct list, `k.timers` the sorted timer list,
`k.deadline[t]` `timeout_tick`, and `k.stat`, `k.prio`, `k.slice`, `k.error` the
fields of the control blocks. `k.tick` counts modulo `TICK_RANGE` (2^32 in the
code) and deadlines are compared circularly, as in the code.
Two fields are history: `due` counts the ticks left of a timer without wrapping,
`owed` says that a caller of resume or control has not called `rt_schedule` yet.
Bit maps are sets of priorities, linked lists sequences, `__rt_ffs` the minimum
of a set. The running thread is in no ready list: `rt_schedule` removes the
thread it switches to.

Operators compose as the C functions call each other: `rt_thread_timeout` is
remove, insert and `rt_schedule`. A section that spans several calls is one
composition.

### Threads
`pc[t]` is the call thread `t` is in (`op`), its next step (`at`) and its target
(`arg`). `rt_thread_resume`, `rt_thread_startup`, `rt_thread_delete`,
`rt_thread_detach` and the idle thread's cleanup are split where the code
enables interrupts. The clock interrupt is `TickInterrupt` (count, charge the
slice, perhaps `rt_schedule`), one `TimerFire` per due timer, and
`TimerCheckDone`; between them no thread runs. A device interrupt resumes a
suspended thread. `obj[t]` is what the object field and the heap say of a
control block.

`Disciplined` states rules the code needs and does not check: one caller at a
time resumes, starts or deletes a thread, nobody does it to a thread in a timed
wait, and no thread deletes itself. With `Disciplined = TRUE` everything below
holds; `resume_race` shows the first thing that breaks without it.
Left out: `rt_thread_find`, hooks, stack checks, user data.

### Blocking, Semaphore, Mutex
`Block` is the section that makes a caller wait (reset error, suspend into the
list, start the timer), and `pc[t]` says "wait" before the `rt_schedule` that
follows it and "woken" after it. `arrival` (Semaphore) and `held` (Mutex) and
`balance` are history variables. In `Semaphore` the loop of `rt_sem_detach` is
modelled test by test and section by section, since it runs with interrupts
enabled; the same loop in `rt_sem_control` runs in one section. `rt_sem_delete`
differs from detach only in the heap. Undisciplined threads use the object while
it is being detached; disciplined ones do not, detach only when no timed wait is left,
and do not wait while they hold the scheduler lock (`rt_enter_critical` of
`scheduler.c`; a delay under the lock is left out altogether). Releases, resets and
detaches under the lock, by threads and by interrupts, are in the run `sem`. In
`Mutex` the takes and releases of one section are one action each, with a disjunct
per path, and `hold` counts modulo `HOLD_RANGE` (2^8).
`rt_mutex_detach` is the same loop as that of the semaphore. `Disciplined` of
`Mutex` states what it needs of its caller and does not test: the mutex is free or
the caller's, no priority is lent (or `PriorityRestored` fails, since nobody gives
the priority back), and no timed wait is left. The nesting of the scheduler lock is
bounded by `LOCK_MAX`, at most 32767, the range of `rt_scheduler_lock_nest`. The
other IPC modules have no scheduler lock.

### IpcCall and the objects above it
`call[t]` is what a caller keeps on its stack: the function, the time that is
left, the tick its last wait began at and the node or block it holds. `Rest` is
the code's recomputation of the timeout from `rt_tick_get`, and `budget` a
history that counts the caller's ticks without it. Each call is cut where the
code enables interrupts: `rt_mq_send` is take, copy, link, `rt_mq_recv` unlink,
copy, free. Sends and receives of interrupts (`DeviceSend`, ...) are one step, with
the `rt_schedule` at the end. `rt_*_detach` runs the loop of
`rt_ipc_list_resume_all` waiter by waiter, with timed waiters and callers in between
calls about; the test of the loop and its section are one step here, because what comes
between them is the matter of `Semaphore` (`WakesThread`, section 6). A caller that was
resumed before the detach goes on in the dead object as the code does (`mbLate` and its
like). Initialising an object again over a list somebody still sleeps in is left to
the user: `rt_*_init` is called when the lists are empty. `rt_*_create` and
`rt_*_delete` are init and detach but for the heap.

The nodes of `MessageQueue` are linked as in the code (`next`, `head`, `tail`,
`free`), and `Queued` and `Free` follow the links; likewise the chain of free
blocks in `MemPool`, where the header of a block in use leads back to the pool.
`Event` walks the list of the waiters with a recursive function, changing the bits as
it goes; `ev.taken` remembers which bits were handed out and cleared.
`DataQueue` keeps `put_index` and `get_index` modulo `INDEX_RANGE` (2^16) and takes
their difference as an int, as C does; the two wrap again and again.

### Workqueue, Timers, RingBuffer, AtClient, Heap, Serial, ClockDisplay
These do not use the kernel record: their own threads and interrupts interleave in
every order, but for the orders a difference of priority the code fixes excludes, and
the module's comment names. `Workqueue` has the worker's `test`, `suspend`, `take`,
`clear` and `ack` steps against `rt_workqueue_dowork`, also of an interrupt, and the three
cancels; the walk of `rt_workqueue_cancel_all_work` is a step per statement, with
interrupts in between. The work's function may sleep, and a resume may cut that short.
`WorkerTake` is the step of a list that has a work: what the code does with an empty
one (`WorkExists`, section 6) is not followed.
`Timers` cuts `rt_timer_start`, `rt_timer_stop` and `rt_timer_control` into their
sections, and lets timer functions stop any timer and start their own; each timer
is used by one thread, its owner. A thread may insert a timer up to `LATE_TICKS` after
its deadline.
`RingBuffer` is sequential: bytes, two indices and two mirror bits.
`AtClient` has the queue of lines in the device, the notices of the two semaphores,
the parser's read, reset, take, copy and end, and the caller's send, wait, timeout
and return. A command may be sent without a response object, when nobody waits. The
module answers in whole, without one of its lines, or not at all; its lines may come
before the caller waits, in the parser's gap, after the caller's time, and may be
more than the buffer holds. The parser has a higher priority than the callers, as
`at_client_para_init` gives it. What may be left over from earlier commands is in
`past`: the property about answers is about a command that begins with nothing left.
`Heap` has the headers by offset, `next` and `prev` as offsets like the code, and
`lfree`; `given` remembers who has which block, for the properties. `heap_sem` makes
`rt_malloc` and `rt_free` one step each; `rt_realloc` gives it back between its parts
and is three.
`Serial` gives each load and store of shared state in open and close a step, because
they have no lock; bytes come and transfers end at any time, whoever has the device
open reads and writes. Reception and transmission share nothing and are two next-state
relations. An assertion that fails stops the system: no step of the model.
`ClockDisplay` follows one pair of digits, hours or minutes and seconds, and the set of
pixels lit in each cell; `Erases` and `Draws` are the turns of `morph0` to `morph9`.
The clock goes on at any moment, also while the panel is off, and over midnight; TIM3
comes between any two statements.

## 3. Runs

| run | instance | shows |
|---|---|---|
| `sched` | 4 threads, 3 priorities, slices 1 and 2, lock depth 1 | `ReadyQueueExact`, `CallsUndisturbed`, `HighestPriorityRuns`, `LockHolds`, `TypeOK`, over all orders of yield, suspend, resume, startup, priority change, critical sections and interrupts |
| `life` | 4 threads, two static, sleeps of 0 and 2 ticks, `rt_tick` modulo 7 | closed threads stay out (`ClosedNotReady`), freed memory is unused (`NoUseAfterFree`), `SelectsThread`, the assertion of `rt_thread_timeout` (`TimeoutAssert`), and no sleep is late or early (`NeverLate`, `NeverEarly`) |
| `live` | the same threads, `FairSpec` | `SleepEnds`, `RoundRobin`, `DeletedReclaimed` |
| `sem` | 3 callers, a PRIO semaphore, value modulo 2, every operation and the scheduler lock | `SemaphoreInvariant` (token conservation, no idle token, detach wakes threads only and forgets nobody) and the refinement of `AbstractSemaphore` |
| `sem_live` | 2 callers, a FIFO semaphore, one waits for ever, one a tick or two, `FairSpec` | `FifoServes`, `TimedWaitEnds` |
| `mutex` | 3 priorities, one PRIO mutex, two nested takes, `hold` modulo 3, detach and init | `MutexInvariant` (the owner is who was told so; free means unowned; detach forgets nobody), `PriorityInheritance` (`InheritsPriority`, `NoInversion`, `PriorityRestored`) |
| `objects` | 2 threads of one priority, an interrupt and the clock on each of eleven objects in turn | an invariant for each object, `BudgetKept` for all that wait with a timeout, the refinements of `AbstractQueue`, `WaitQueueSafety`, `BackAfterWork` |
| `services` | 2 users of a serial device with a FIFO of 3 and a DMA queue of 3; hours (24) and minutes or seconds (60) in 2 drawing colours; AT answers of up to two lines, a response buffer of two, a device of two; each in turn | `SerialInvariant` (FIFO order, who has the device open keeps its FIFO and interrupt, DMA in order), `ClockInvariant` (the pixels of led digits, the colour), `AnswersItsCommand`, `AtClientInvariant` |
| `static_freed`, `resume_race`, `restore`, `pool_count` | the instance of a passing run, with the operations it is about | section 6: violations |

The invariants named after a module are conjunctions of named parts; each part has
its own comment in the module.

`objects` is one run for eleven modules: `MCObjects` chooses `object` in the initial
state and then takes steps of that object only, so its state space is the sum of
theirs, not the product. Its `VIEW` replaces ticks by the time that is left to a
deadline that is pending, or spent since a wait began: no guard and no property
looks at a tick in another way, so two states with the same view have the same
future. `MCServices` chooses `service` in the same way. Its view reduces the colour in
use to what it does with a pixel, forgets the pixels of digits of which nothing is said
any more, counts commands from the current one and forgets a response object nobody uses.

### Bounds and why they are enough
Three application threads are a caller, its target and a third that preempts
both; the races of this code need two of them and an interrupt. Three
priorities give a higher, an equal and a lower neighbour, and two of the threads
share one, so that rotation happens. `TICK_RANGE` 5 to 8 lets `rt_tick` wrap
within a few steps with every distance below the half range occurring. Sleeps of
0 and 2 ticks make a later timer due before an earlier one. `VALUE_RANGE` 2 wraps
the semaphore with two releases; initial value 3 is truncated by the 16 bit
assignment. `BALANCE_MAX` bounds releases without takes; `LOCK_MAX`, `HOLD_MAX`
and `HOLDS_MAX` bound nesting. `Ops` selects the calls of a run so that each run
stays exhaustive: the interplay of sleeping with a locked scheduler, for
instance, is not in a run, but in the proofs; the callers of `sem` do not sleep,
those of `sem_live` do.

In `objects`, two threads of one priority and an interrupt give two senders, two
receivers or one of each, with the interrupt as the third party; one of them may
time out after 2 ticks, so that a waiter is woken, waits again for the rest, and
gives up. Queues of two entries are empty, half full and full within a few steps.
`TICK_RANGE` 9 wraps under every timed wait; `INDEX_RANGE` 4 makes the indices of the
data queue of two wrap every other round; the ring has 4 bytes and puts of up to
5, with 7 bytes to tell apart, so that every mirror combination and every forced
overrun occurs, that over equal mirror bits included, which flips both and empties the
buffer; two works, two timers of periods 1 and 2, inserted up to
`LATE_TICKS` 1 late (`TimerConstants` wants both together below half the range). The
heap has 10 words, headers of one, blocks of at least two and requests of 1, 3 and
5, so that it holds up to four blocks and every pattern of holes between them.
In `services`, `DATA_MAX` 1 and `AT_BUF` 2 give answers of one line and of two, with
buffers that are just full; one line more arises when lines of an earlier answer come
first. `AT_FIFO`, `SENT_MAX` and `NOTICE_MAX` bound what the device, the module and the
semaphores hold: an answer, or what is left of one and part of the next; `COMMANDS` 2 tells the
current command from the others. The serial FIFO has 3 places and bytes count
modulo 3, the DMA queue 3 places and buffers modulo 5, so that each is empty, full and
overrun; two users open in either mode; `REF_MAX` 2 (255 in the code) is as many as they
can count. The clock has all 24 and all 60 values and runs up to `LATE_MAX` 2 ahead of
the time last read, which skips a digit; `BLACK` is 2 instead of 7, since colours below
it draw alike.

### Fairness
`FairSpec` assumes that the clock interrupt comes again and again and ends
(weak fairness of `ClockTurns`: SysTick is a hardware timer), and that a thread
that is current again and again completes the call it is in (strong fairness of
`MidCall`: an interrupt disables its steps for a while, but takes less than all
of the time). No thread is made to start a call, so nobody is assumed to
release a semaphore or to unlock the scheduler: `FifoServes` has the releases as a
premise, `RoundRobin` the unlocks, `DeletedReclaimed` that the idle thread
gets the processor again and again. The idle thread's loop is fair.

## 4. Refinement

`Semaphore` implements `AbstractSemaphore` (property `Refinement`, checked in `sem`
with the PRIO flag and proved for both). The abstract queue is the history of
arrivals, not `k.wait`: the refinement shows that the position `rt_ipc_list_suspend`
finds is the one that serves in the order of arrival, or of priority. The abstract
status of a caller is computed from its place in the code and `thread->error`: a
caller is "granted" exactly if it will return `RT_EOK`. So a timeout that races a
release must be decided one way, for the token and for the caller alike. Detaching a
semaphore maps to failures one by one, initialising it again to a reset.

## 5. Proofs

Every theorem holds for any number of threads, priorities, works, users, sizes and
ticks, and any subset of the calls. It starts from the named assumptions on the
constants of its module (`KernelConstants`, `MailboxConstants` and so on) and, where
the table says so, from a hypothesis that names what the code relies on and does not
check: section 6 says what fails without it.

| theorem | hypothesis | property |
|---|---|---|
| `TypeCorrect` | `Disciplined` | `TypeOK` |
| `ReadyQueueStaysExact` | `Disciplined` | `ReadyQueueExact` |
| `AlwaysSelectsThread` | `Disciplined` | `SelectsThread` |
| `TimeoutNeverAsserts` | `Disciplined` | `TimeoutAssert` |
| `CallsStayUndisturbed` | `Disciplined` | `CallsUndisturbed` |
| `ClosedStaysOut` | `Disciplined` | `ClosedNotReady` |
| `LockKeepsProcessor` | `Disciplined` | `LockHolds` |
| `PriorityIsRespected` | `Disciplined` | `HighestPriorityRuns` |
| `FreedIsUnused` | `Disciplined` | `NoUseAfterFree` |
| `SleepsAreNotLate` | `Disciplined` | `NeverLate` |
| `SleepsAreNotEarly` | `Disciplined` | `NeverEarly` |
| `SemaphoreIsSafe` | `Disciplined` | `SemaphoreInvariant` |
| `SemaphoreRefines` | `Disciplined` | `Refinement` |
| `MutexIsSafe` | `Disciplined`, `HOLD_MAX < HOLD_RANGE` | `MutexInvariant` |
| `LoansAreMadeAndReturned` | the same, `HOLDS_MAX = 1`, `Flag = PRIO` | `InheritsPriority`, `PriorityRestored` |
| `OwnerRunsForItsWaiters` | the same, and one mutex | `PriorityInheritance` |
| `RingKeepsItsBytes` | | `RingInvariant` |
| `MailboxIsAQueue` | | `MailboxRefinement` |
| `MailboxIsSafe` | | `MailboxInvariant` |
| `DataQueueIsAQueue` | | `DataQueueRefinement` |
| `DataQueueIsSafe` | | `DataQueueInvariant` |
| `CompletionIsNotLost` | | `NoLostCompletion` |
| `EventReachesItsWaiters` | | `EventInvariant` |
| `MemPoolIsSafe` | | `BlocksConserved`, `NoLostBlock`, `DetachedPoolIsEmpty` |
| `MemPoolCountsWaiters` | no `rt_mp_alloc` is timed | `MemPoolInvariant` |
| `WakeupsAreNotLost` | no wait of a wait queue is timed | `WaitQueueSafety` |
| `WorksAreDone` | | `WorkqueueInvariant` |
| `CancelComesBackAfterWork` | | `BackAfterWork` |
| `SerialDeliversInOrder` | | `SerialInvariant` |
| `ResponsesStayTheirs` | | `AtClientInvariant` |
| `CommandsGetTheirAnswers` | | `AnswersItsCommand` |
| `HeapStaysWhole` | | `HeapInvariant` |

### Threads
The argument. None of the properties is inductive. `ReadyQueueExact` is broken by a
resume that finds its target ready, so the proof must know what a call between two
sections relies on: `CallsUndisturbed`. That in turn needs the rest of
`InductiveInvariant`'s `IInv`: timers only of suspended threads (or a timeout
would ready the target), a thread that is leaving the scheduler is in no list
(`KInv`), and where threads are in their lives (`LifeInv`: the idle thread is
always READY, so `rt_schedule` always finds someone; a closed thread runs no
further than its last `rt_schedule`; a thread that acts on another one is not
closed itself).
`KernelProofs` has the facts about `RemoveFirst`, `InsertAt` and `Append` on
injective sequences, and one lemma per operator of RtKernel that says what it keeps
and what it changes, so that the step proofs never expand the record. `ThreadsProofs`
has one lemma per action and one for `Next`.

`SchedulingProofs` adds two invariants to `IInv`. `Settled`, for
`HighestPriorityRuns`: unless the scheduler is locked, a switch is owed or the
running thread has its `rt_schedule` before it, the running thread is READY and
nobody ready is higher. Every step either ends with `rt_schedule` (`Schedules`) or
readies nobody the caller does not owe a switch for (`Steady`). `Reclaimed`, for
`NoUseAfterFree`: a closed thread is on its way to the heap in one place only, a
call's frame or the defunct list, which has it once; a freed one is in neither.

`TimersTimely` is behind the two theorems on sleeps. The timer list stays sorted
although the code compares ticks modulo `TICK_RANGE`, because every deadline stays
within half the range of the clock: the circular comparison of `rt_timer_start` then
orders by the time that is left, and `due` is that time; nothing is overdue except in
the interrupt that is ending it.

### Waiting threads
`WaitersLeave` and what the objects say of their waiters are not inductive: whether a
timeout finds a thread in the list it takes it from depends on the timer list, and
whether a release may resume the head of a list on the state of that thread.
`BlockingInv` (with `WaitsExact` and `KInv`) adds what is missing: a thread is in at
most one suspend list, once; it is SUSPEND with `thread->error` clear while it is
there; a running timer belongs to a sleeper or to a waiter; the current thread is
READY, or is in the call that takes it off the processor. `BlockingProofs` states what
every kernel operation does to the waiters as three cases, so that an object's proof
never opens the scheduler: nobody moves, one is taken off its list by its timeout
(`TimeoutWakes`), one is resumed (`ResumeWakes`), or all of a list are, by the loop of
`rt_ipc_list_resume_all` (`ResumeAllWakes`). `Quiet` says what a whole step of
`BlockingNext` is to an object, `Settles` what it does for who runs.

`SemaphoreInv` adds that the history of arrivals holds exactly the waiters and that the
list is in the order in which they are to be served (`InServiceOrder`), that who left
the list is READY, and that one thread at a time detaches, acting on a test that still
holds (`DetachIsAlone`). `TokensConserved` counts by cardinality those who were
granted a token and do not know it yet. The refinement has one lemma per action: a release
removes the first of the abstract queue, a wait puts the caller at the position that
`rt_ipc_list_suspend` finds, a timeout or a detach is the failure of its waiter, a sleep
or a switch a stutter.
`Disciplined` is needed for detaches (section 6: `rt_ipc_list_resume_all`) and for takes
with the scheduler locked.

`MutexInv`, for any number of mutexes: the owner of a registered mutex has a priority
to return to (`OwnersReturn`, or `Restore` would index a ready list that does not
exist), who waits on a mutex is in the call on it and does not own it (`WaitersCall`),
who left the list is READY and has `RT_EOK` exactly if it is the owner now
(`LeaversKnow`: the hand-over and a timeout cannot both reach it), and detaches are
exact. `HOLD_MAX < HOLD_RANGE` says that nobody nests as many takes as `hold` can count;
without it `MutexInvariant` is false. `Disciplined` says that a mutex is detached by its
owner or while it is free, with no lent priority and no timed waiter; `rt_mutex_detach`
tests none of it (section 6).

`LendsInv` is behind priority inheritance: who owns no mutex has its own priority and an
owner will return to its own (`OwnPriorities`), a thread has one mutex at most and none
while it waits (`OneAtATime`), so a waiter's priority is its own, and each suspend list is
sorted by it (`WaitersSorted`), so the thread that is handed the mutex precedes those
left behind. Every hypothesis is a limit of the code: with two mutexes to a thread
`PriorityRestored` fails (run `restore`), with the FIFO flag `InheritsPriority` does
(section 6). `TopUnlessBusy` adds `NoInversion`: unless the running thread has its
`rt_schedule` before it, nobody ready precedes it, or nobody waits for the mutex. The
last case is the release of `src/ipc.c:861`, which lowers the caller and does not
schedule, and is harmless only if no other mutex has waiters: hence "one mutex".

### Queues
`RingInv` says that the unread bytes lie behind the read index, in order, and that
equal mirror bits mean that the write index is that many places behind, different
ones that it has gone round. `MbInv` says that `in_offset` lies `entry` slots behind
`out_offset`, and that a sender that waits carries a mail; the mails in the box are
then the abstract queue, a deposit is `Append`, a receive `Tail`, and every
other section, with its timeouts and wake-ups, a stutter. `DqInv` is the same with two
free-running indices that wrap: until `dq.overrun`, the slots from `get_index` on (`Span`,
also across the wrap, where it starts again at slot 0) are all different (`Seated`) and
hold the items in order (`DqRing`); a push finds no free slot and goes on only when
`put_index` has wrapped and `get_index` has not, since then alone the difference of
`dataqueue.c:66` is negative. Both refinements hold for the temporal formula: initial states
to initial states, each step to a step or a stutter.

`CpInv`: one thread at a time waits for a completion (the code asserts it), and whoever is
in the list is in that call; so the resume of `rt_completion_done` empties the list it
sets the flag beside, and a caller that joins has just seen the flag clear.

In a wait queue (`WqInv`) the nodes of the list are those of the sleepers, and while the
flag is set beside one, somebody who was woken is still to clear it, and does so before it
removes its node. A wakeup resumes the first node's thread, which is asleep, and nobody
joins while the flag is set. `WakeupsAreNotLost` is about waits for ever because it is
false of timed ones: the timeout leaves its thread's node in the list, and the next
wakeup takes that node and wakes nobody (`waitqueue.c:63`).

`MailboxInvariant` and `DataQueueInvariant` count: for each mail or item a thread sleeps
beside, another one was resumed for it, and for each free slot a sender. `Enough` is that
count for one list, by the cardinality of `Resumed`; what is put adds one and resumes one
(`EnoughMore`), what is taken takes one of each away (`EnoughLess`), and a step of anybody
else leaves the resumed threads resumed (`OthersStay`, `StillResumed`). `MbSafe` adds to
`MbInv` that who is in a list of the mailbox is in the call that waits there
(`MbListed`), and that a detach goes through the receivers first and leaves nobody behind
(`MbLeft`), until a caller that was resumed before it goes on in the dead mailbox and may
join a list there (`mbLate`). `DqSafe` has the first of these for the data queue, and that
the scheduler is locked only while the running thread is in the loops of a reset.

`MpSafe`: `Leads` says that a function leads from its first element through a sequence,
each element once, to null. The chain of the free blocks of a pool is such a sequence
(`MpBlocks`), disjoint from the blocks in use, as long as `block_free_count` says;
`rt_mp_alloc` takes its first element (`LeadsTail`) and `rt_mp_free` puts one in front
(`LeadsInFront`), which changes nothing further down (`LeadsElsewhere`). `ChainLeads`
ties the sequence to `FreeBlocks`, the walk that `BlocksConserved` is about.
`suspend_thread_count` is at least the number of the waiters, whatever times out
(`MpCounted`), so a free that finds somebody waiting resumes somebody; it is equal where
nobody gives up, which is what `CountsWaiters` says. `MpCallers` says that whoever is in
the list, or is on its way back from it (`MpComing`), is in `rt_mp_alloc`. A free that finds the count too high
and nobody waiting takes the list head for a thread (section 6) and is no step of the
model (`MayFree`).

`EvInv`: whoever is in the list of the event waits for bits that are not set, and a bit
is clear exactly if it was taken. A caller joins the list in the section that has found
its bits clear, and only the walk of a send sets bits. `SentWalks` follows that walk:
after each waiter, those it has passed are satisfied by none of the bits still set or
were resumed, because what it does next can only clear bits (`FewerSatisfy`).

The walk of a send and the loop of `rt_ipc_list_resume_all`, recursive functions in a
LET, are proved about without induction over data: of the iterations that break the
claim there would be a first one (`MinOfNat`), and so there would be a first length for
which no such function existed (`WalkExists`).

### Drivers and services
`WqInv`: where the worker is decides what `work_current` is (`InProgress`), and who cancels
waits for the work in progress or its acknowledgement (`WaitersListed`). `WqSeen`: when the
worker is suspended beside a work, or about to be, one caller is still to resume it, or its
resume was `missed`.
`SerialInv` is `FifoInv`, `SlInv` and `TxInv`. `SlAlone` counts the users that have the
device open (`SlCounted`, by cardinality), says that the FIFO, the pointer to it and the
interrupt are there `Together` when nobody is in an open or a close, and for each step of
the two what is there then (`StepFinds`); it holds unless `opening.overlapped`.
`TxOrder` says which buffer DMA sends at each step of a writer, unless `astray`.
`AtInv`: the parser waits beside an empty device, or has a release of `rx_notice` to take,
or input came in its gap (`InputNoticed`); `resp_notice` is released once for a command, to
a caller that has not begun to wait, but for late answers (`NoticeOwed`); a call whose
time is over leaves lines behind only if `past.late` says so (`TimedOut`). `AnswerInv`
follows one answer of a command that began with nothing left (`past.clean`) through the
module, the device's queue, the parser and the response buffer (`Orderly`): what is in the
buffer and what is still coming are, together, the answer (`Progress`, `Received`), and
that is what the caller finds (`CallerFinds`).
`HpInv`: the headers are a doubly linked row without a gap (`Row`), no free block
follows a free one (`Holes`), every free block is at `lfree` or above it, or `hidden`
(`Finds`), the used blocks are those given, and what a thread reallocates is its own until
it frees it. `PlugHoles` shows that `plug_holes` mends the one place where a block was just freed. `Min` of a
set of numbers (`LeastOfNat`), which is what the loops of `rt_malloc` compute, comes
from the well-foundedness of `<`.

### Only model-checked
- `MessageQueueInvariant` and its refinement. Its sleepers are those of the mailbox and
  its lists are `Leads` as the chain of a pool is, but its calls are cut in three sections
  while they hold a node that is in neither list; the invariant that follows such a node
  is not worked out. `CountsWaiters` with timeouts is false (run `pool_count`).
- `BudgetKept`: it needs the argument of `TimersTimely` for waits that are started again.
- `TimersInvariant`: `Timers` filters its list with `SelectSeq`, which the provers
  cannot expand.
- `ClockInvariant`: a finite computation over 24 and 60 values, which TLC does in full.
- Liveness (`FifoServes`, `TimedWaitEnds`, `SleepEnds`, `RoundRobin`,
  `DeletedReclaimed`): fairness and ENABLED are out of the proof system's reach.

## 6. Where the code disagrees with its comments and tests

Each is a run whose counterexample is a behaviour of the code.

- `static_freed`: `rt_thread_detach` detaches the object, which clears its static
  flag, before it queues a thread with a cleanup function for the idle thread,
  which then frees static memory (`src/thread.c:359`, `src/object.c:284`).
- `resume_race`: `rt_thread_resume` tests the state with interrupts enabled
  (`src/thread.c:711`); a timeout in between leaves a bit set over an empty
  ready list, and `rt_schedule` takes the list head for a thread.
- `restore`: `original_priority` is kept per mutex; releasing two mutexes in the
  order they were taken leaves the thread with a lent priority
  (`src/ipc.c:831`).
- `pool_count`: `rt_mp_alloc` counts itself in `suspend_thread_count`, and a
  timeout takes it off the list without counting it off. `rt_mp_free` tests the
  count alone (`src/mempool.c:421`) and takes the head of the empty list, which
  lies in the pool, for a thread.

The passing runs and the theorems go through more cases in which the code breaks what its
comments say: those a history variable of section 2 names. The modules state the broken
promise too. Each of these is found violated by TLC when it is checked in place of the
properties of the run named (INVARIANT, or PROPERTY for the two marked with an asterisk):

| definition | run | what the code does |
|---|---|---|
| `WorkExists` | `objects` | a work is cancelled after the worker's test, or the worker is resumed for a work it has done: it takes the list head for a work (`components/drivers/src/workqueue.c:58`; line 65: "we have work to do with") |
| `NoLostWork` | `objects` | a resume between the worker's test and its suspend changes nothing, and the worker sleeps beside the work until the next submission (`workqueue.c:61`; line 141: "resume work thread") |
| `FullWaits` | `objects` | `put_index - get_index` is computed in int: once `put_index` has wrapped and `get_index` has not, a full data queue, of any size, is not seen to be full, and a push goes over an item (`dataqueue.c:66`; line 68: "queue is full") |
| `DiscardsOldOnly`* | `objects` | a forced put that overtakes the read index over equal mirror bits flips both: the buffer is taken for empty, with what was just put (`ringbuffer.c:139`; line 96: "it will discard the old data") |
| `LowestFree` | `objects` | `rt_realloc` splits off a block below `lfree` and leaves `lfree` above it; `rt_malloc` refuses what that block has room for (`src/mem.c:493`; line 131: "pointer to the lowest free block") |
| `RunningIsActive` | `objects` | a one-shot timer that its own function starts again runs and is marked inactive, so that `rt_timer_stop` refuses it (`src/timer.c:542`; `include/rtdef.h:417`: "timer is active") |
| `InterruptHasFifo` | `services` | `rt_serial_close` frees and forgets the FIFO before it switches the receive interrupt off (`components/drivers/serial/serial.c:707`; line 1131 asserts the FIFO) |
| `SendsHead` | `services` | a transfer that ends between a writer's push and its look at `activated`, or a second writer, makes the thread send a buffer that is not the head, for which the end of the transfer pops the head (`serial.c:509`) |
| `MorphsToZero` | `services` | at midnight the hours go from 2 and 3 to 0 and 0; `morph0` moves the pixels of a 9 or a 5 (`morphdigit.c:500`; line 161) |
| `WaitsForItsResponse`* | `services` | the release for a line that comes between the parser's empty read and its reset of `rx_notice` is dropped, and the command times out beside its response (`components/net/at/src/at_client.c:425`; line 267: "wait response") |
| `ResponseIsItsOwn` | `services` | the answer to a command sent without a response object is read into the response of the next (`at_client.c:301`; line 270: "when you don't care response") |
| `WakesThread` | `sem`, with `Disciplined = FALSE` | `rt_ipc_list_resume_all` tests the suspend list with interrupts enabled; a timeout or a release in between empties it, and the loop resumes the list head, which is part of the object (`src/ipc.c:162`; line 167: "get next suspend thread"). All detaches share the loop |

Other behaviour that the models show and no comment or assertion rules out:

- A take of a semaphore without a token while the scheduler is locked suspends the
  caller, does not switch and returns `RT_EOK` (`src/ipc.c:394`): without "detach" in
  `Ops` and with `Disciplined = FALSE`, `SemaphoreInvariant` fails after two calls.
- A FIFO mutex handed to a low waiter does not raise it to the priority of the
  waiters it leaves behind (`src/ipc.c:850`): with `Flag = "RT_IPC_FLAG_FIFO"`,
  `InheritsPriority` fails.
- 256 nested takes make `hold` zero while the mutex is owned: with
  `HOLD_MAX = HOLD_RANGE`, `MutexInvariant` fails.
- `rt_mutex_detach` neither asks for the owner nor returns a lent priority
  (`src/ipc.c:559`): with `Disciplined = FALSE` in `MCMutex_safe.cfg`, `MutexInvariant`
  and `PriorityInheritance` fail.
- A release that lowers the priority of the owner while nobody waits does not reschedule
  (`src/ipc.c:861`): with two mutexes, `NoInversion` fails.
- A waiter of `rt_wqueue_wait` that timed out is linked until it runs, and consumes
  a wakeup meant for another (`components/drivers/src/waitqueue.c:63`): with timed
  `QueueTimes`, `WakeupWakes` fails.
- A completion that comes after a wait timed out, and before that thread runs, is
  cleared by it (`components/drivers/src/completion.c:81`).
- A caller of a mailbox, a message queue or a pool that was resumed just before its detach
  tests the dead object again and may sleep in it (`src/ipc.c:1470`, `1616`; `mbLate`,
  `mqLate`, `mpLate`).
- `rt_workqueue_dowork` resumes a worker that sleeps in a work's function and cuts the sleep
  short (`components/drivers/src/workqueue.c:143`).
- `rt_timer_control` writes back a flag it read before the interrupt changed it
  (`src/timer.c:475`; `tmMarred`).
- `rt_malloc` refuses an exact fit in the last block: its loop ends at
  `mem_size_aligned - size` (`src/mem.c:306`).
- Two opens or closes of the serial device that meet lose a count, the FIFO or the
  interrupt (`opening.overlapped`).
- A digit is not led when a second is missed, or when the panel is switched on with a stale
  `dat_array`: nobody calls `morph_reinit` (`past.led`). TIM3 between the increment and the
  comparison of `color_change` steps over BLACK (`past.stepped`).
- An answer that is late, cut, early or too long reaches no command or the next one
  (`past`).
- Deleting a thread in a timed wait leaves it ready and closed (`src/thread.c:341`,
  excluded by `Disciplined`).

## 7. Not modelled, and why

- initialising an object again over a list in which somebody sleeps, and, outside
  `Semaphore` and `Mutex`, what comes between the test and the section of
  `rt_ipc_list_resume_all`; cancels of works by interrupts; timed waits in the instance
  of `WaitQueue`;
- self-deletion of threads; delays and waits with the scheduler locked, except
  the take of a semaphore;
- `rt_workqueue_destroy`, which deletes the worker thread;
- soft timers (`RT_USING_TIMER_SOFT` is not configured) and the second level of the
  timers' skip list (one level is configured);
- nested interrupts: a handler's effect on the kernel is one section, so one
  interrupt at a time loses no order of sections;
- `pipe.c` (not configured), `ringblk_buf.c` (unused on this board); polling, DMA
  reception, termios controls and registers of the serial driver;
- `at_client_obj_recv` and `at_client_obj_send`, the AT sockets and the SAL;
- `memheap.c` and `slab.c` (not the heap of this board), device registration, kernel services, signals (not configured), SMP code (not
  configured);
- the menus, the brightness, the light mode and the pictures of the board
  application, board drivers (registers),
  and vendored code: HAL, CMSIS, lwIP, uIP, file systems, shells. They are nearly
  all of the repository's lines.

## 8. Plan

Theorems: the invariants of the other objects of `ipc.c` and `mempool.c`, from
`BlockingInv` as for the semaphore; the refinement of `MessageQueue`.

Modules: the scheduler lock for the other objects; the AT sockets above `AtClient`; the
menus of the OLED; an abstract mutex; liveness of the queues under fair senders and receivers.
