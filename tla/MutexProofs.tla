---------------------------- MODULE MutexProofs -----------------------------
(***************************************************************************)
(* What the mutexes keep true, for every number of threads and of mutexes: *)
(* mutual exclusion and its bookkeeping, and the priority that the waiters *)
(* of one mutex lend to its owner.                                         *)
(***************************************************************************)
EXTENDS Mutex, BlockingProofs, FiniteSetTheorems

InCall == {"wait", "woken"}
DetachSteps == {"test", "wake", "object"}
Steps == {"run", "sched", "sleep", "slept"} \cup InCall \cup DetachSteps

Types ==
    /\ pc \in [Thread -> Steps]
    /\ value \in [WaitList -> 0 .. 1]
    /\ owner \in [WaitList -> Thread \cup {Nobody}]
    /\ original \in [WaitList -> Priority \cup {NO_PRIORITY}]
    /\ hold \in [WaitList -> 0 .. HOLD_MAX]
    /\ obj \in [WaitList -> {"live", "detached"}]
    /\ on \in [Thread -> WaitList]
    /\ held \in [Thread -> [WaitList -> 0 .. HOLD_MAX]]

\* The owner of a registered mutex has a priority to return to.
OwnersReturn ==
    \A m \in WaitList : obj[m] = "live" /\ owner[m] # Nobody => original[m] \in Priority

\* Who waits is in the call on that mutex, and somebody else owns it.
WaitersCall ==
    \A m \in WaitList : \A t \in Range(k.wait[m]) : on[t] = m /\ owner[m] # t

\* Who has left the list runs, and has the result RT_EOK exactly if it is the
\* owner now.
LeaversKnow ==
    \A t \in Thread : pc[t] \in InCall /\ t \notin Range(k.wait[on[t]]) =>
        k.stat[t] = READY /\ (k.error[t] = EOK <=> owner[on[t]] = t)

\* One thread detaches a mutex, which is free or its own and has no timed
\* waiters, and acts on a test of the suspend list that still holds.
DetachExact ==
    \A t \in Thread : pc[t] \in DetachSteps =>
        /\ \A u \in Thread : pc[u] \in DetachSteps /\ on[u] = on[t] => u = t
        /\ obj[on[t]] = "live" /\ owner[on[t]] \in {Nobody, t}
        /\ Range(k.timers) \cap Range(k.wait[on[t]]) = {}
        /\ pc[t] = "wake" => k.wait[on[t]] # << >>
        /\ pc[t] = "object" => k.wait[on[t]] = << >>

MutexInv ==
    /\ BlockingInv /\ k.lock = 0
    /\ Types
    /\ HoldersOwn /\ FreeIsUnowned /\ DetachedMutexIsEmpty
    /\ OwnersReturn /\ WaitersCall /\ LeaversKnow
    /\ DetachExact

-----------------------------------------------------------------------------
(* What the invariant says *)

\* The types of the variables of the mutexes and of what the kernel record
\* says of the waiters.
LEMMA MutexFacts ==
    ASSUME MutexInv
    PROVE  /\ KernelWaits(k) /\ k \in KernelState /\ k.lock = 0
           /\ k.wait \in [WaitList -> Seq(Thread)]
           /\ \A m \in WaitList : Range(k.wait[m]) \subseteq Thread
           /\ \A m \in WaitList : k.wait[m] = << >> <=> Range(k.wait[m]) = {}
           /\ k.timers \in Seq(Thread) /\ IsInjective(k.timers)
           /\ k.stat \in [Thread -> Stat] /\ k.prio \in [Thread -> Priority]
           /\ k.error \in [Thread -> {EOK, ERROR, ETIMEOUT, EINTR}]
           /\ \A m \in WaitList : \A t \in Range(k.wait[m]) :
                k.stat[t] = SUSPEND /\ k.error[t] = EOK /\ pc[t] \in InCall
           /\ HOLD_MAX \in Nat \ {0} /\ HOLD_RANGE \in Nat \ {0}
           /\ \A m \in WaitList : \A t \in Thread : hold[m] \in Int /\ held[t][m] \in Int
<1>1. KernelWaits(k) /\ KInv(k, {}) /\ k \in KernelState /\ k.lock = 0
  BY QueueFacts DEF MutexInv, BlockingInv, KernelWaits
<1>2. /\ k.wait \in [WaitList -> Seq(Thread)]
      /\ \A m \in WaitList : Range(k.wait[m]) \subseteq Thread
      /\ \A m \in WaitList : k.wait[m] = << >> <=> Range(k.wait[m]) = {}
  BY <1>1, WaitersAreThreads
<1>3. /\ k.timers \in Seq(Thread) /\ IsInjective(k.timers)
      /\ k.stat \in [Thread -> Stat] /\ k.prio \in [Thread -> Priority]
      /\ k.error \in [Thread -> {EOK, ERROR, ETIMEOUT, EINTR}]
  BY <1>1 DEF KInv, KernelState
<1>4. \A m \in WaitList : \A t \in Range(k.wait[m]) :
        k.stat[t] = SUSPEND /\ k.error[t] = EOK /\ pc[t] \in InCall
  BY <1>1 DEF KernelWaits, WaitsExact, MutexInv, BlockingInv, InCall
<1>5. HOLD_MAX \in Nat \ {0} /\ HOLD_RANGE \in Nat \ {0}
  BY MutexConstants
<1>6. \A m \in WaitList : \A t \in Thread : hold[m] \in Int /\ held[t][m] \in Int
  BY <1>5 DEF MutexInv, Types
<1>. QED
  BY <1>1, <1>2, <1>3, <1>4, <1>5, <1>6

\* A caller runs, waits nowhere, and the mutex it may use is registered and
\* nobody detaches it.
LEMMA CallerFacts ==
    ASSUME MutexInv, NEW t \in Thread, NEW m \in WaitList, MayUse(t, m)
    PROVE  /\ t = k.cur /\ t # Idle /\ pc[t] = "run" /\ k.stat[t] = READY
           /\ obj[m] = "live"
           /\ \A u \in Thread : pc[u] \in DetachSteps => on[u] # m
           /\ \A n \in WaitList : t \notin Range(k.wait[n])
<1>1. t = k.cur /\ t # Idle /\ pc[t] = "run" /\ obj[m] = "live" /\ ~Detaching(m)
  BY DEF MayUse, Calls, Executes
<1>2. k.stat[t] = READY /\ \A n \in WaitList : t \notin Range(k.wait[n])
  BY <1>1, CallerIsReady DEF MutexInv
<1>. QED
  BY <1>1, <1>2 DEF Detaching, DetachSteps

\* One count changes.
LEMMA HeldChange ==
    ASSUME held \in [Thread -> [WaitList -> 0 .. HOLD_MAX]], NEW t \in Thread,
           NEW m \in WaitList, NEW c \in 0 .. HOLD_MAX, held' = [held EXCEPT ![t][m] = c]
    PROVE  /\ held' \in [Thread -> [WaitList -> 0 .. HOLD_MAX]]
           /\ \A u \in Thread, n \in WaitList :
                held'[u][n] = IF u = t /\ n = m THEN c ELSE held[u][n]
<1>. DEFINE f == [held[t] EXCEPT ![m] = c]
<1>1. held' = [held EXCEPT ![t] = f] /\ f \in [WaitList -> 0 .. HOLD_MAX]
  OBVIOUS
<1>2. \A n \in WaitList : f[n] = IF n = m THEN c ELSE held[t][n]
  OBVIOUS
<1>. HIDE DEF f
<1>. QED
  BY <1>1, <1>2

-----------------------------------------------------------------------------
(* Steps that no waiter notices *)

\* The waiters, what they were told and the timers are as they were.
Unnoticed ==
    /\ BlockingInv' /\ k'.lock = 0
    /\ k'.wait = k.wait /\ k'.timers = k.timers
    /\ \A t \in Thread : pc[t] \in InCall => k'.stat[t] = k.stat[t] /\ k'.error[t] = k.error[t]

\* The result of a thread that is in no call is set.
LEMMA ErrorUnnoticed ==
    ASSUME MutexInv, NEW t, t = k.cur, t # Idle, pc[t] = "run",
           NEW e \in {EOK, ERROR, ETIMEOUT, EINTR}, k' = WithError(k, t, e),
           UNCHANGED <<pc, isr>>
    PROVE  Unnoticed
<1>1. /\ t \in Thread /\ k.stat[t] = READY
      /\ \A n \in WaitList : t \notin Range(k.wait[n])
  BY CallerIsReady DEF MutexInv
<1>2. KernelWaits(k) /\ KInv(k, {}) /\ k.error \in [Thread -> {EOK, ERROR, ETIMEOUT, EINTR}]
  BY MutexFacts DEF KernelWaits
<1>3. ErrorOnly(k, k', t, e)
  BY <1>1, <1>2, ErrorSet
<1>4. KernelWaits(k')
  BY <1>1, <1>2, <1>3 DEF KernelWaits, WaitsExact, ErrorOnly
<1>5. BlockingInv'
  BY <1>1, <1>3, <1>4, CallKeeps DEF MutexInv, ErrorOnly
<1>6. \A s \in Thread : pc[s] \in InCall => k'.stat[s] = k.stat[s] /\ k'.error[s] = k.error[s]
  BY <1>1, <1>2, <1>3 DEF ErrorOnly, InCall
<1>. QED
  BY <1>3, <1>5, <1>6 DEF Unnoticed, ErrorOnly, MutexInv

\* A caller goes on and leaves the kernel record as it is.
LEMMA MoveUnnoticed ==
    ASSUME MutexInv, NEW t, t = k.cur, t # Idle, pc[t] \notin {"wait", "sleep"}, k' = k,
           UNCHANGED <<pc, isr>> \/ \E at : Moves(t, at)
    PROVE  Unnoticed
<1>1. t \in Thread /\ k.stat[t] = READY
  BY CallerIsReady DEF MutexInv
<1>2. BlockingInv'
  BY <1>1, CallKeeps, MutexFacts DEF MutexInv
<1>. QED
  BY <1>2, MutexFacts DEF Unnoticed

\* Whoever detaches a mutex goes on detaching it.
LEMMA DetachKept ==
    ASSUME MutexInv, Unnoticed,
           \A u \in Thread : pc[u] \in DetachSteps \/ pc'[u] \in DetachSteps =>
              /\ pc'[u] = pc[u] /\ on'[u] = on[u]
              /\ obj'[on[u]] = obj[on[u]] /\ owner'[on[u]] = owner[on[u]]
    PROVE  DetachExact'
  BY DEF MutexInv, DetachExact, Unnoticed, DetachSteps

\* Everything but the calls and the counts is as it was.
LEMMA WaitingKept ==
    ASSUME MutexInv, Unnoticed, UNCHANGED <<pc, on, obj, owner, original>>
    PROVE  /\ OwnersReturn' /\ WaitersCall' /\ LeaversKnow' /\ DetachExact'
           /\ DetachedMutexIsEmpty'
<1>1. DetachExact'
  BY DetachKept
<1>. QED
  BY <1>1 DEF MutexInv, Unnoticed, OwnersReturn, WaitersCall, LeaversKnow, DetachedMutexIsEmpty,
              InCall

\* What an owner was told, when it is in no call.
LEMMA OwnerHolds ==
    ASSUME MutexInv, NEW t \in Thread, NEW m \in WaitList, owner[m] = t, obj[m] = "live",
           pc[t] = "run"
    PROVE  /\ held[t][m] = hold[m] /\ hold[m] \in 1 .. HOLD_MAX /\ value[m] = 0
           /\ \A u \in Thread \ {t} : held[u][m] = 0
<1>1. held[t][m] = hold[m]
  BY MutexFacts DEF MutexInv, HoldersOwn, HandedOver
<1>2. value[m] = 0 /\ hold[m] # 0
  BY MutexConstants DEF MutexInv, FreeIsUnowned, Types
<1>3. hold[m] \in 1 .. HOLD_MAX
  BY <1>2, MutexFacts DEF MutexInv, Types
<1>4. \A u \in Thread \ {t} : held[u][m] = 0
  BY DEF MutexInv, HoldersOwn
<1>. QED
  BY <1>1, <1>2, <1>3, <1>4

\* Nobody holds a free mutex.
LEMMA FreeMutex ==
    ASSUME MutexInv, NEW m \in WaitList, obj[m] = "live", value[m] > 0
    PROVE  /\ value[m] = 1 /\ owner[m] = Nobody /\ hold[m] = 0 /\ k.wait[m] = << >>
           /\ \A u \in Thread : held[u][m] = 0
<1>1. value[m] = 1
  BY DEF MutexInv, Types
<1>2. owner[m] = Nobody /\ hold[m] = 0 /\ k.wait[m] = << >>
  BY <1>1 DEF MutexInv, FreeIsUnowned
<1>3. \A u \in Thread : held[u][m] = 0
  BY <1>2, MutexConstants DEF MutexInv, HoldersOwn
<1>. QED
  BY <1>1, <1>2, <1>3

\* Less than the range of hold nothing wraps around.
LEMMA NoWrap ==
    ASSUME HOLD_MAX < HOLD_RANGE, NEW n \in 0 .. HOLD_MAX
    PROVE  n % HOLD_RANGE = n
<1>1. HOLD_MAX \in Nat /\ HOLD_RANGE \in Nat /\ HOLD_RANGE > 0
  BY MutexConstants
<1>2. n \in 0 .. HOLD_RANGE - 1
  BY <1>1
<1>. QED
  BY <1>1, <1>2, RemainderAround

-----------------------------------------------------------------------------
(* rt_mutex_take without a wait *)

\* The owner takes the mutex once more.
LEMMA TakeAgainKeeps ==
    ASSUME HOLD_MAX < HOLD_RANGE, MutexInv, NEW t \in Thread, NEW m \in WaitList, TakeAgain(t, m)
    PROVE  MutexInv'
<1>1. /\ MayUse(t, m) /\ owner[m] = t /\ held[t][m] < HOLD_MAX
      /\ hold' = [hold EXCEPT ![m] = (hold[m] + 1) % HOLD_RANGE]
      /\ held' = [held EXCEPT ![t][m] = held[t][m] + 1]
      /\ k' = WithError(k, t, EOK)
      /\ UNCHANGED <<pc, isr, value, owner, original, obj, on>>
  BY DEF TakeAgain, MayTake, ResetError, WithError
<1>2. t = k.cur /\ t # Idle /\ pc[t] = "run" /\ obj[m] = "live"
  BY <1>1, CallerFacts
<1>3. Unnoticed
  BY <1>1, <1>2, ErrorUnnoticed
<1>4. /\ held[t][m] = hold[m] /\ hold[m] \in 1 .. HOLD_MAX /\ value[m] = 0 /\ HOLD_MAX \in Nat
      /\ \A u \in Thread \ {t} : held[u][m] = 0
  BY <1>1, <1>2, OwnerHolds, MutexConstants
<1>5. hold[m] + 1 \in 0 .. HOLD_MAX /\ hold[m] + 1 # 0
  BY <1>1, <1>4
<1>6. hold' = [hold EXCEPT ![m] = hold[m] + 1] /\ held' = [held EXCEPT ![t][m] = hold[m] + 1]
  BY <1>1, <1>4, <1>5, NoWrap
<1>7. /\ held' \in [Thread -> [WaitList -> 0 .. HOLD_MAX]]
      /\ \A u \in Thread, n \in WaitList :
           held'[u][n] = IF u = t /\ n = m THEN hold[m] + 1 ELSE held[u][n]
  BY <1>5, <1>6, HeldChange DEF MutexInv, Types
<1>8. Types'
  BY <1>1, <1>5, <1>6, <1>7 DEF MutexInv, Types
<1>9. HoldersOwn'
  <2>1. ASSUME NEW n \in WaitList, NEW u \in Thread
        PROVE  /\ HandedOver(u, n)' <=> HandedOver(u, n)
               /\ HandedOver(u, n) => k'.error[u] = k.error[u]
    BY <1>1, <1>3 DEF HandedOver, Unnoticed, InCall
  <2>2. ~HandedOver(t, m)
    BY <1>2 DEF HandedOver
  <2>3. \A n \in WaitList : hold'[n] = IF n = m THEN hold[m] + 1 ELSE hold[n]
    BY <1>6 DEF MutexInv, Types
  <2>. QED
    BY <1>1, <1>2, <1>4, <1>7, <2>1, <2>2, <2>3 DEF MutexInv, HoldersOwn
<1>10. FreeIsUnowned'
  BY <1>1, <1>2, <1>3, <1>4, <1>5, <1>6 DEF MutexInv, FreeIsUnowned, Unnoticed, Types
<1>. QED
  BY <1>1, <1>3, <1>8, <1>9, <1>10, WaitingKept DEF MutexInv, Unnoticed

\* A free mutex is taken.
LEMMA TakeFreeKeeps ==
    ASSUME HOLD_MAX < HOLD_RANGE, MutexInv, NEW t \in Thread, NEW m \in WaitList, TakeFree(t, m)
    PROVE  MutexInv'
<1>1. /\ MayUse(t, m) /\ owner[m] # t /\ value[m] > 0
      /\ value' = [value EXCEPT ![m] = value[m] - 1]
      /\ owner' = [owner EXCEPT ![m] = t] /\ original' = [original EXCEPT ![m] = k.prio[t]]
      /\ hold' = [hold EXCEPT ![m] = (hold[m] + 1) % HOLD_RANGE]
      /\ held' = [held EXCEPT ![t][m] = held[t][m] + 1]
      /\ k' = WithError(k, t, EOK)
      /\ UNCHANGED <<pc, isr, obj, on>>
  BY DEF TakeFree, MayTake, ResetError, WithError, GiveTo
<1>2. /\ t = k.cur /\ t # Idle /\ pc[t] = "run" /\ obj[m] = "live"
      /\ \A u \in Thread : pc[u] \in DetachSteps => on[u] # m
  BY <1>1, CallerFacts
<1>3. Unnoticed
  BY <1>1, <1>2, ErrorUnnoticed
<1>4. /\ value[m] = 1 /\ owner[m] = Nobody /\ hold[m] = 0 /\ k.wait[m] = << >>
      /\ \A u \in Thread : held[u][m] = 0
  BY <1>1, <1>2, FreeMutex
<1>5. 1 \in 0 .. HOLD_MAX /\ k.prio[t] \in Priority /\ Nobody \notin Thread
  BY MutexConstants, MutexFacts
<1>6. /\ hold' = [hold EXCEPT ![m] = 1] /\ value' = [value EXCEPT ![m] = 0]
      /\ held' = [held EXCEPT ![t][m] = 1]
  <2>1. 1 % HOLD_RANGE = 1 /\ hold[m] + 1 = 1 /\ value[m] - 1 = 0 /\ held[t][m] + 1 = 1
    BY <1>4, <1>5, NoWrap
  <2>. QED
    BY <1>1, <2>1
<1>7. /\ held' \in [Thread -> [WaitList -> 0 .. HOLD_MAX]]
      /\ \A u \in Thread, n \in WaitList :
           held'[u][n] = IF u = t /\ n = m THEN 1 ELSE held[u][n]
  BY <1>5, <1>6, HeldChange DEF MutexInv, Types
<1>8. Types'
  BY <1>1, <1>5, <1>6, <1>7 DEF MutexInv, Types
<1>9. /\ \A n \in WaitList : /\ hold'[n] = IF n = m THEN 1 ELSE hold[n]
                             /\ owner'[n] = IF n = m THEN t ELSE owner[n]
                             /\ value'[n] = IF n = m THEN 0 ELSE value[n]
                             /\ original'[n] = IF n = m THEN k.prio[t] ELSE original[n]
  BY <1>1, <1>6 DEF MutexInv, Types
<1>10. HoldersOwn'
  <2>1. ASSUME NEW n \in WaitList, NEW u \in Thread
        PROVE  /\ HandedOver(u, n)' <=> HandedOver(u, n)
               /\ HandedOver(u, n) => k'.error[u] = k.error[u]
    BY <1>1, <1>2, <1>3, <1>4, <1>5, <1>9 DEF HandedOver, Unnoticed, InCall
  <2>2. ~HandedOver(t, m)
    BY <1>2 DEF HandedOver
  <2>. QED
    BY <1>1, <1>2, <1>4, <1>7, <1>9, <2>1, <2>2 DEF MutexInv, HoldersOwn
<1>11. FreeIsUnowned' /\ OwnersReturn' /\ DetachedMutexIsEmpty'
  BY <1>1, <1>2, <1>3, <1>4, <1>5, <1>9
     DEF MutexInv, FreeIsUnowned, OwnersReturn, DetachedMutexIsEmpty, Unnoticed, InCall
<1>12. WaitersCall'
  <2>1. Range(k.wait[m]) = {}
    BY <1>4, MutexFacts
  <2>. QED
    BY <1>1, <1>3, <1>9, <2>1 DEF MutexInv, WaitersCall, Unnoticed
<1>13. LeaversKnow'
  <2>1. ASSUME NEW u \in Thread, pc[u] \in InCall, u \notin Range(k.wait[on[u]])
        PROVE  k.stat[u] = READY /\ (k.error[u] = EOK <=> owner'[on[u]] = u)
    <3>1. k.stat[u] = READY /\ (k.error[u] = EOK <=> owner[on[u]] = u) /\ on[u] \in WaitList
      BY <2>1 DEF MutexInv, LeaversKnow, Types
    <3>2. u # t /\ u # Nobody
      BY <1>2, <1>5, <2>1 DEF InCall
    <3>. QED
      BY <1>4, <1>9, <3>1, <3>2
  <2>. QED
    BY <1>1, <1>3, <2>1 DEF LeaversKnow, Unnoticed
<1>14. DetachExact'
  BY <1>1, <1>2, <1>3, <1>9, DetachKept DEF MutexInv, Types
<1>. QED
  BY <1>3, <1>8, <1>10, <1>11, <1>12, <1>13, <1>14 DEF MutexInv, Unnoticed

\* A caller that does not get the mutex at once, or does not own it, is told so.
LEMMA FailsKeeps ==
    ASSUME MutexInv, NEW t \in Thread, NEW m \in WaitList, TakeFails(t, m) \/ ReleaseFails(t, m)
    PROVE  MutexInv'
<1>1. /\ MayUse(t, m) /\ UNCHANGED <<pc, isr, value, owner, original, hold, obj, on, held>>
      /\ \E e \in {EOK, ERROR, ETIMEOUT, EINTR} : k' = WithError(k, t, e)
  BY DEF TakeFails, ReleaseFails, MayTake, mutexVars, WithError
<1>2. t = k.cur /\ t # Idle /\ pc[t] = "run"
  BY <1>1, CallerFacts
<1>3. Unnoticed
  BY <1>1, <1>2, ErrorUnnoticed
<1>4. HoldersOwn' /\ FreeIsUnowned' /\ Types'
  <2>1. FreeIsUnowned' /\ Types'
    BY <1>1, <1>3 DEF MutexInv, FreeIsUnowned, Types, Unnoticed
  <2>2. HoldersOwn'
    BY <1>1, <1>3 DEF MutexInv, HoldersOwn, HandedOver, Unnoticed, InCall
  <2>. QED
    BY <2>1, <2>2
<1>. QED
  BY <1>1, <1>3, <1>4, WaitingKept DEF MutexInv, Unnoticed

\* Back from a wait, with the result the caller was given.
LEMMA TakeReturnKeeps ==
    ASSUME MutexInv, NEW t \in Thread, TakeReturn(t)
    PROVE  MutexInv'
<1>. DEFINE m == on[t]
            c == held[t][m] + 1
<1>1. /\ t = k.cur /\ pc[t] = "woken" /\ pc' = [pc EXCEPT ![t] = "run"]
      /\ held' = IF k.error[t] = EOK THEN [held EXCEPT ![t][m] = c] ELSE held
      /\ UNCHANGED <<k, isr, value, owner, original, hold, obj, on>>
  BY DEF TakeReturn, Continues, Executes, Goto, mutexVars
<1>2. /\ t # Idle /\ m \in WaitList /\ pc \in [Thread -> Steps]
      /\ \A n \in WaitList : t \notin Range(k.wait[n])
  BY <1>1, CallerIsReady DEF MutexInv, BlockingInv, Types
<1>. HIDE DEF m, c
<1>3. Unnoticed
  BY <1>1, <1>2, MoveUnnoticed DEF Moves
<1>4. pc'[t] = "run" /\ \A u \in Thread \ {t} : pc'[u] = pc[u]
  BY <1>1, <1>2
<1>5. k.error[t] = EOK <=> owner[m] = t
  BY <1>1, <1>2 DEF MutexInv, LeaversKnow, InCall, m
<1>6. HandedOver(t, m) <=> owner[m] = t
  BY <1>1, <1>2 DEF HandedOver, m
<1>7. obj[m] = "live" \/ owner[m] # t
  BY <1>1, <1>2, <1>5 DEF MutexInv, DetachedMutexIsEmpty, Types, m
<1>8. owner[m] = t => c = hold[m] /\ c \in 0 .. HOLD_MAX
  <2>1. /\ hold[m] \in 0 .. HOLD_MAX /\ HOLD_MAX \in Nat /\ held[t][m] \in Int
        /\ held[t][m] = IF owner[m] # t \/ obj[m] = "detached" THEN 0
                        ELSE hold[m] - (IF HandedOver(t, m) THEN 1 ELSE 0)
    BY <1>2, MutexConstants, MutexFacts DEF MutexInv, HoldersOwn, Types
  <2>. HIDE DEF HandedOver
  <2>. QED
    BY <1>6, <1>7, <2>1 DEF c
<1>9. /\ held' \in [Thread -> [WaitList -> 0 .. HOLD_MAX]]
      /\ \A u \in Thread, n \in WaitList :
           held'[u][n] = IF u = t /\ n = m /\ owner[m] = t THEN c ELSE held[u][n]
  <2>1. CASE owner[m] = t
    BY <1>1, <1>2, <1>5, <1>8, <2>1, HeldChange DEF MutexInv, Types
  <2>2. CASE owner[m] # t
    BY <1>1, <1>5, <2>2 DEF MutexInv, Types
  <2>. QED
    BY <2>1, <2>2
<1>10. Types' /\ FreeIsUnowned' /\ OwnersReturn'
  BY <1>1, <1>2, <1>9 DEF MutexInv, Types, FreeIsUnowned, OwnersReturn, Steps
<1>11. HoldersOwn'
  <2>1. ASSUME NEW n \in WaitList, NEW u \in Thread
        PROVE  HandedOver(u, n)' <=> HandedOver(u, n) /\ u # t
    BY <1>1, <1>4 DEF HandedOver
  <2>2. \A n \in WaitList : n # m => ~HandedOver(t, n)
    BY DEF HandedOver, m
  <2>3. HoldersOwn
    BY DEF MutexInv
  <2>4. ASSUME NEW n \in WaitList, NEW u \in Thread
        PROVE  /\ HandedOver(u, n)' => k'.error[u] = EOK
               /\ held'[u][n] = IF owner'[n] # u \/ obj'[n] = "detached" THEN 0
                                ELSE hold'[n] - (IF HandedOver(u, n)' THEN 1 ELSE 0)
    <3>. HIDE DEF HandedOver, c
    <3>1. CASE u = t
      BY <1>1, <1>2, <1>6, <1>7, <1>8, <1>9, <2>1, <2>2, <2>3, <3>1, MutexFacts DEF HoldersOwn
    <3>2. CASE u # t
      BY <1>1, <1>9, <2>1, <2>3, <3>2, MutexFacts DEF HoldersOwn
    <3>. QED
      BY <3>1, <3>2
  <2>. QED
    BY <2>4 DEF HoldersOwn
<1>12. WaitersCall' /\ LeaversKnow' /\ DetachedMutexIsEmpty'
  BY <1>1, <1>4 DEF MutexInv, WaitersCall, LeaversKnow, DetachedMutexIsEmpty, InCall
<1>13. DetachExact'
  BY <1>1, <1>3, <1>4, DetachKept DEF DetachSteps
<1>. QED
  BY <1>3, <1>10, <1>11, <1>12, <1>13 DEF MutexInv, Unnoticed

-----------------------------------------------------------------------------
(* rt_mutex_release where nobody waits *)

\* One of several releases of a nested take.
LEMMA ReleaseInnerKeeps ==
    ASSUME HOLD_MAX < HOLD_RANGE, MutexInv, NEW t \in Thread, NEW m \in WaitList,
           ReleaseInner(t, m)
    PROVE  MutexInv'
<1>1. /\ MayUse(t, m) /\ owner[m] = t /\ hold[m] # 1
      /\ hold' = [hold EXCEPT ![m] = (hold[m] - 1) % HOLD_RANGE]
      /\ held' = [held EXCEPT ![t][m] = held[t][m] - 1]
      /\ UNCHANGED <<k, pc, isr, value, owner, original, obj, on>>
  BY DEF ReleaseInner
<1>2. t = k.cur /\ t # Idle /\ pc[t] = "run" /\ obj[m] = "live"
  BY <1>1, CallerFacts
<1>3. Unnoticed
  BY <1>1, <1>2, MoveUnnoticed
<1>4. /\ held[t][m] = hold[m] /\ hold[m] \in 1 .. HOLD_MAX /\ value[m] = 0 /\ HOLD_MAX \in Nat
      /\ \A u \in Thread \ {t} : held[u][m] = 0
  BY <1>1, <1>2, OwnerHolds, MutexConstants
<1>5. hold[m] - 1 \in 0 .. HOLD_MAX /\ hold[m] - 1 # 0
  BY <1>1, <1>4
<1>6. hold' = [hold EXCEPT ![m] = hold[m] - 1] /\ held' = [held EXCEPT ![t][m] = hold[m] - 1]
  BY <1>1, <1>4, <1>5, NoWrap
<1>7. /\ held' \in [Thread -> [WaitList -> 0 .. HOLD_MAX]]
      /\ \A u \in Thread, n \in WaitList :
           held'[u][n] = IF u = t /\ n = m THEN hold[m] - 1 ELSE held[u][n]
  BY <1>5, <1>6, HeldChange DEF MutexInv, Types
<1>8. Types'
  BY <1>1, <1>5, <1>6, <1>7 DEF MutexInv, Types
<1>9. HoldersOwn'
  <2>1. \A n \in WaitList, u \in Thread : HandedOver(u, n)' <=> HandedOver(u, n)
    BY <1>1 DEF HandedOver
  <2>2. ~HandedOver(t, m)
    BY <1>2 DEF HandedOver
  <2>3. \A n \in WaitList : hold'[n] = IF n = m THEN hold[m] - 1 ELSE hold[n]
    BY <1>6 DEF MutexInv, Types
  <2>. QED
    BY <1>1, <1>2, <1>4, <1>7, <2>1, <2>2, <2>3 DEF MutexInv, HoldersOwn
<1>10. FreeIsUnowned'
  BY <1>1, <1>2, <1>3, <1>4, <1>5, <1>6 DEF MutexInv, FreeIsUnowned, Types
<1>. QED
  BY <1>1, <1>3, <1>8, <1>9, <1>10, WaitingKept DEF MutexInv, Unnoticed

\* A priority change of a caller changes nothing that the invariant looks at.
LEMMA RestoreOnly ==
    ASSUME MutexInv, NEW t \in Thread, NEW m \in WaitList, obj[m] = "live", owner[m] = t
    PROVE  /\ KernelWaits(Restore(t, m))
           /\ LET j == Restore(t, m)
              IN  /\ j.stat = k.stat /\ j.error = k.error /\ j.wait = k.wait
                  /\ j.cur = k.cur /\ j.lock = k.lock /\ j.timers = k.timers
                  /\ j.prio = [k.prio EXCEPT ![t] = original[m]]
<1>1. original[m] \in Priority /\ KernelWaits(k) /\ k.prio \in [Thread -> Priority]
  BY MutexFacts, MutexConstants DEF MutexInv, OwnersReturn
<1>2. CASE original[m] # k.prio[t]
  <2>1. Restore(t, m) = ChangePriority(k, t, original[m])
    BY <1>2 DEF Restore
  <2>. QED
    BY <1>1, <2>1, ChangePriorityWaits DEF PriorityOnly
<1>3. CASE original[m] = k.prio[t]
  BY <1>1, <1>3 DEF Restore
<1>. QED
  BY <1>2, <1>3

\* The last release of a mutex that nobody waits for.
LEMMA ReleaseFreeKeeps ==
    ASSUME MutexInv, NEW t \in Thread, NEW m \in WaitList, ReleaseLast(t, m), k.wait[m] = << >>
    PROVE  MutexInv'
<1>1. /\ MayUse(t, m) /\ owner[m] = t /\ hold[m] = 1
      /\ value' = [value EXCEPT ![m] = value[m] + 1]
      /\ owner' = [owner EXCEPT ![m] = Nobody]
      /\ original' = [original EXCEPT ![m] = NO_PRIORITY]
      /\ hold' = [hold EXCEPT ![m] = 0]
      /\ held' = [held EXCEPT ![t][m] = held[t][m] - 1]
      /\ k' = Restore(t, m)
      /\ UNCHANGED <<pc, isr, obj, on>>
  BY DEF ReleaseLast
<1>2. /\ t = k.cur /\ t # Idle /\ pc[t] = "run" /\ obj[m] = "live" /\ k.stat[t] = READY
      /\ \A u \in Thread : pc[u] \in DetachSteps => on[u] # m
  BY <1>1, CallerFacts
<1>3. Unnoticed
  <2>1. /\ KernelWaits(k') /\ k'.stat = k.stat /\ k'.error = k.error /\ k'.wait = k.wait
        /\ k'.cur = k.cur /\ k'.lock = k.lock /\ k'.timers = k.timers
    BY <1>1, <1>2, RestoreOnly
  <2>2. BlockingInv'
    BY <1>1, <1>2, <2>1, CallKeeps DEF MutexInv
  <2>. QED
    BY <2>1, <2>2 DEF MutexInv, Unnoticed
<1>4. /\ held[t][m] = 1 /\ value[m] = 0 /\ HOLD_MAX \in Nat /\ Nobody \notin Thread
      /\ \A u \in Thread \ {t} : held[u][m] = 0
  BY <1>1, <1>2, OwnerHolds, MutexConstants
<1>5. held' = [held EXCEPT ![t][m] = 0] /\ value' = [value EXCEPT ![m] = 1]
  BY <1>1, <1>4
<1>6. /\ held' \in [Thread -> [WaitList -> 0 .. HOLD_MAX]]
      /\ \A u \in Thread, n \in WaitList :
           held'[u][n] = IF u = t /\ n = m THEN 0 ELSE held[u][n]
  BY <1>4, <1>5, HeldChange DEF MutexInv, Types
<1>7. Types'
  BY <1>1, <1>4, <1>5, <1>6 DEF MutexInv, Types
<1>8. \A n \in WaitList : /\ hold'[n] = IF n = m THEN 0 ELSE hold[n]
                          /\ owner'[n] = IF n = m THEN Nobody ELSE owner[n]
                          /\ value'[n] = IF n = m THEN 1 ELSE value[n]
                          /\ original'[n] = IF n = m THEN NO_PRIORITY ELSE original[n]
  BY <1>1, <1>5 DEF MutexInv, Types
<1>9. HoldersOwn'
  <2>1. ASSUME NEW n \in WaitList, NEW u \in Thread
        PROVE  /\ HandedOver(u, n)' <=> HandedOver(u, n)
               /\ HandedOver(u, n) => k'.error[u] = k.error[u]
    BY <1>1, <1>2, <1>3, <1>4, <1>8 DEF HandedOver, Unnoticed, InCall
  <2>. QED
    BY <1>1, <1>2, <1>4, <1>6, <1>8, <2>1, SMTT(60) DEF MutexInv, HoldersOwn
<1>10. FreeIsUnowned' /\ OwnersReturn' /\ DetachedMutexIsEmpty'
  BY <1>1, <1>2, <1>3, <1>4, <1>8
     DEF MutexInv, FreeIsUnowned, OwnersReturn, DetachedMutexIsEmpty, Unnoticed, InCall
<1>11. WaitersCall'
  <2>1. Range(k.wait[m]) = {}
    BY MutexFacts
  <2>. QED
    BY <1>1, <1>3, <1>8, <2>1 DEF MutexInv, WaitersCall, Unnoticed
<1>12. LeaversKnow'
  <2>1. ASSUME NEW u \in Thread, pc[u] \in InCall, u \notin Range(k.wait[on[u]])
        PROVE  k.stat[u] = READY /\ (k.error[u] = EOK <=> owner'[on[u]] = u)
    <3>1. k.stat[u] = READY /\ (k.error[u] = EOK <=> owner[on[u]] = u) /\ on[u] \in WaitList
      BY <2>1 DEF MutexInv, LeaversKnow, Types
    <3>2. u # t /\ u # Nobody
      BY <1>2, <1>4, <2>1 DEF InCall
    <3>. QED
      BY <1>1, <1>8, <3>1, <3>2
  <2>. QED
    BY <1>1, <1>3, <2>1 DEF LeaversKnow, Unnoticed
<1>13. DetachExact'
  BY <1>1, <1>2, <1>3, <1>8, DetachKept DEF MutexInv, Types
<1>. QED
  BY <1>3, <1>7, <1>9, <1>10, <1>11, <1>12, <1>13 DEF MutexInv, Unnoticed

-----------------------------------------------------------------------------
(* rt_mutex_detach and rt_mutex_init *)

\* A caller that does not enter or leave rt_mutex_take: what the others wait
\* for, and what the owners were told, stays.
LEMMA CallerMoves ==
    ASSUME MutexInv, Unnoticed, NEW t \in Thread, pc[t] \notin InCall, NEW at \in Steps \ InCall,
           pc' = [pc EXCEPT ![t] = at], \A u \in Thread \ {t} : on'[u] = on[u],
           \A n \in WaitList : t \notin Range(k.wait[n]),
           UNCHANGED <<value, owner, original, hold>>
    PROVE  /\ WaitersCall' /\ LeaversKnow'
           /\ pc' \in [Thread -> Steps] /\ pc'[t] = at
           /\ \A u \in Thread \ {t} : pc'[u] = pc[u]
           /\ \A n \in WaitList, u \in Thread :
                /\ HandedOver(u, n)' <=> HandedOver(u, n)
                /\ HandedOver(u, n) => k'.error[u] = k.error[u]
<1>1. /\ pc' \in [Thread -> Steps] /\ pc'[t] = at
      /\ \A u \in Thread \ {t} : pc'[u] = pc[u]
  BY DEF MutexInv, Types
<1>2. \A u \in Thread : pc'[u] \in InCall \/ pc[u] \in InCall => u # t /\ pc'[u] = pc[u]
  BY <1>1
<1>3. WaitersCall'
  <2>1. ASSUME NEW n \in WaitList, NEW u \in Range(k.wait[n])
        PROVE  on'[u] = n /\ owner'[n] # u
    <3>1. u \in Thread \ {t}
      BY MutexFacts
    <3>. QED
      BY <3>1 DEF MutexInv, WaitersCall
  <2>. QED
    BY <2>1 DEF WaitersCall, Unnoticed
<1>4. LeaversKnow'
  BY <1>2 DEF MutexInv, LeaversKnow, Unnoticed
<1>5. \A n \in WaitList, u \in Thread :
        /\ HandedOver(u, n)' <=> HandedOver(u, n)
        /\ HandedOver(u, n) => k'.error[u] = k.error[u]
  BY <1>2 DEF HandedOver, Unnoticed, InCall
<1>. QED
  BY <1>1, <1>3, <1>4, <1>5

\* A detach begins with a first test of the list.
LEMMA DetachBegins ==
    ASSUME Disciplined, MutexInv, NEW t \in Thread, NEW m \in WaitList, rt_mutex_detach(t, m)
    PROVE  MutexInv'
<1>. DEFINE at == LoopTest(m)
<1>1. /\ MayUse(t, m) /\ owner[m] \in {Nobody, t}
      /\ Range(k.timers) \cap Range(k.wait[m]) = {}
      /\ on' = [on EXCEPT ![t] = m] /\ pc' = [pc EXCEPT ![t] = at]
      /\ UNCHANGED <<k, isr, value, owner, original, hold, obj, held>>
  BY DEF rt_mutex_detach, Goto, mutexVars
<1>2. /\ t = k.cur /\ t # Idle /\ pc[t] = "run" /\ obj[m] = "live"
      /\ \A u \in Thread : pc[u] \in DetachSteps => on[u] # m
      /\ \A n \in WaitList : t \notin Range(k.wait[n])
  BY <1>1, CallerFacts
<1>3. /\ at \in Steps \ InCall /\ at \in {"wake", "object"}
      /\ at = "wake" <=> k.wait[m] # << >>
  BY DEF LoopTest, Steps, InCall, DetachSteps
<1>. HIDE DEF at
<1>4. Unnoticed
  BY <1>1, <1>2, MoveUnnoticed DEF Moves
<1>5. on' \in [Thread -> WaitList] /\ on'[t] = m /\ \A u \in Thread \ {t} : on'[u] = on[u]
  BY <1>1 DEF MutexInv, Types
<1>6. /\ WaitersCall' /\ LeaversKnow'
      /\ pc' \in [Thread -> Steps] /\ pc'[t] = at
      /\ \A u \in Thread \ {t} : pc'[u] = pc[u]
      /\ \A n \in WaitList, u \in Thread : HandedOver(u, n)' <=> HandedOver(u, n)
  BY <1>1, <1>2, <1>3, <1>4, <1>5, CallerMoves DEF InCall
<1>7. Types' /\ HoldersOwn' /\ FreeIsUnowned' /\ OwnersReturn'
  BY <1>1, <1>5, <1>6 DEF MutexInv, Types, HoldersOwn, FreeIsUnowned, OwnersReturn
<1>8. DetachedMutexIsEmpty'
  BY <1>1, <1>3, <1>5, <1>6 DEF MutexInv, DetachedMutexIsEmpty
<1>9. DetachExact'
  <2>1. ASSUME NEW u \in Thread, pc'[u] \in DetachSteps
        PROVE  u = t \/ (u # t /\ pc[u] \in DetachSteps /\ on[u] # m)
    BY <1>2, <1>6, <2>1
  <2>. QED
    BY <1>1, <1>2, <1>3, <1>5, <1>6, <2>1 DEF MutexInv, DetachExact
<1>. QED
  BY <1>4, <1>6, <1>7, <1>8, <1>9 DEF MutexInv, Unnoticed

\* The next test of the list.
LEMMA DetachTestKeeps ==
    ASSUME MutexInv, NEW t \in Thread, DetachTest(t)
    PROVE  MutexInv'
<1>. DEFINE m == on[t]
            at == LoopTest(m)
<1>1. /\ t = k.cur /\ pc[t] = "test" /\ pc' = [pc EXCEPT ![t] = at]
      /\ UNCHANGED <<k, isr, value, owner, original, hold, obj, held, on>>
  BY DEF DetachTest, Continues, Executes, Goto, mutexVars
<1>2. /\ t # Idle /\ m \in WaitList
      /\ \A n \in WaitList : t \notin Range(k.wait[n])
  BY <1>1, CallerIsReady DEF MutexInv, BlockingInv, Types
<1>3. /\ at \in Steps \ InCall /\ at \in {"wake", "object"}
      /\ at = "wake" <=> k.wait[m] # << >>
  BY DEF LoopTest, Steps, InCall, DetachSteps
<1>. HIDE DEF at
<1>4. Unnoticed
  BY <1>1, <1>2, MoveUnnoticed DEF Moves
<1>5. /\ WaitersCall' /\ LeaversKnow'
      /\ pc' \in [Thread -> Steps] /\ pc'[t] = at
      /\ \A u \in Thread \ {t} : pc'[u] = pc[u]
      /\ \A n \in WaitList, u \in Thread : HandedOver(u, n)' <=> HandedOver(u, n)
  BY <1>1, <1>2, <1>3, <1>4, CallerMoves DEF InCall
<1>6. Types' /\ HoldersOwn' /\ FreeIsUnowned' /\ OwnersReturn'
  BY <1>1, <1>5 DEF MutexInv, Types, HoldersOwn, FreeIsUnowned, OwnersReturn
<1>7. DetachedMutexIsEmpty'
  BY <1>1, <1>3, <1>5 DEF MutexInv, DetachedMutexIsEmpty
<1>8. DetachExact'
  <2>1. \A u \in Thread : pc'[u] \in DetachSteps => pc[u] \in DetachSteps
    BY <1>1, <1>5 DEF DetachSteps
  <2>. QED
    BY <1>1, <1>3, <1>5, <2>1 DEF MutexInv, DetachExact
<1>. QED
  BY <1>4, <1>5, <1>6, <1>7, <1>8 DEF MutexInv, Unnoticed

\* The object is taken off its list: nobody waits, and whoever waited was told.
LEMMA DetachObjectKeeps ==
    ASSUME MutexInv, NEW t \in Thread, DetachObject(t)
    PROVE  MutexInv'
<1>. DEFINE m == on[t]
<1>1. /\ t = k.cur /\ pc[t] = "object" /\ pc' = [pc EXCEPT ![t] = "run"]
      /\ obj' = [obj EXCEPT ![m] = "detached"] /\ held' = [held EXCEPT ![t][m] = 0]
      /\ UNCHANGED <<k, isr, value, owner, original, hold, on>>
  BY DEF DetachObject, Continues, Executes, Goto
<1>2. /\ t # Idle /\ m \in WaitList
      /\ \A n \in WaitList : t \notin Range(k.wait[n])
  BY <1>1, CallerIsReady DEF MutexInv, BlockingInv, Types
<1>3. /\ obj[m] = "live" /\ owner[m] \in {Nobody, t} /\ k.wait[m] = << >>
      /\ \A u \in Thread : pc[u] \in DetachSteps /\ on[u] = m => u = t
  BY <1>1 DEF MutexInv, DetachExact, DetachSteps
<1>4. Unnoticed
  BY <1>1, <1>2, MoveUnnoticed DEF Moves
<1>5. /\ WaitersCall' /\ LeaversKnow'
      /\ pc' \in [Thread -> Steps] /\ pc'[t] = "run"
      /\ \A u \in Thread \ {t} : pc'[u] = pc[u]
      /\ \A n \in WaitList, u \in Thread : HandedOver(u, n)' <=> HandedOver(u, n)
  BY <1>1, <1>2, <1>4, CallerMoves DEF InCall, Steps
<1>. HIDE DEF m
<1>6. /\ \A n \in WaitList : obj'[n] = IF n = m THEN "detached" ELSE obj[n]
      /\ obj' \in [WaitList -> {"live", "detached"}]
      /\ held' \in [Thread -> [WaitList -> 0 .. HOLD_MAX]]
      /\ \A u \in Thread, n \in WaitList :
           held'[u][n] = IF u = t /\ n = m THEN 0 ELSE held[u][n]
  <2>1. 0 \in 0 .. HOLD_MAX
    BY MutexConstants
  <2>. QED
    BY <1>1, <1>2, <2>1, HeldChange DEF MutexInv, Types
<1>7. Types' /\ FreeIsUnowned' /\ OwnersReturn'
  BY <1>1, <1>5, <1>6 DEF MutexInv, Types, FreeIsUnowned, OwnersReturn
<1>8. HoldersOwn'
  <2>1. \A u \in Thread \ {t} : held[u][m] = 0
    BY <1>2, <1>3, MutexConstants DEF MutexInv, HoldersOwn
  <2>2. \A u \in Thread : HandedOver(u, m) => u = t
    BY <1>3, MutexConstants DEF HandedOver
  <2>. QED
    BY <1>1, <1>2, <1>5, <1>6, <2>1, <2>2 DEF MutexInv, HoldersOwn
<1>9. DetachedMutexIsEmpty'
  <2>1. ASSUME NEW u \in Thread, pc[u] \in InCall, on[u] = m
        PROVE  k.error[u] # EOK
    <3>1. u # t /\ u # Nobody /\ u \notin Range(k.wait[m])
      BY <1>1, <1>2, <1>3, <2>1, MutexConstants, MutexFacts DEF InCall
    <3>. QED
      BY <1>3, <2>1, <3>1 DEF MutexInv, LeaversKnow
  <2>2. \A u \in Thread : pc'[u] \in InCall => pc[u] \in InCall
    BY <1>5 DEF InCall
  <2>. QED
    BY <1>1, <1>3, <1>6, <2>1, <2>2 DEF MutexInv, DetachedMutexIsEmpty, InCall
<1>10. DetachExact'
  <2>1. \A u \in Thread : pc'[u] \in DetachSteps => u # t /\ pc[u] \in DetachSteps /\ on[u] # m
    BY <1>3, <1>5 DEF DetachSteps
  <2>2. \A u \in Thread : on[u] \in WaitList
    BY DEF MutexInv, Types
  <2>. QED
    BY <1>1, <1>5, <1>6, <2>1, <2>2 DEF MutexInv, DetachExact
<1>. QED
  BY <1>4, <1>5, <1>7, <1>8, <1>9, <1>10 DEF MutexInv, Unnoticed

\* A detached mutex is put in order again; nobody waits or will own it.
LEMMA InitKeeps ==
    ASSUME MutexInv, NEW t \in Thread, NEW m \in WaitList, rt_mutex_init(t, m)
    PROVE  MutexInv'
<1>1. /\ t = k.cur /\ t # Idle /\ pc[t] = "run" /\ obj[m] = "detached"
      /\ k' = [k EXCEPT !.wait = [k.wait EXCEPT ![m] = << >>]]
      /\ value' = [value EXCEPT ![m] = 1] /\ owner' = [owner EXCEPT ![m] = Nobody]
      /\ original' = [original EXCEPT ![m] = NO_PRIORITY]
      /\ hold' = [hold EXCEPT ![m] = 0] /\ obj' = [obj EXCEPT ![m] = "live"]
      /\ UNCHANGED <<pc, isr, on, held>>
  BY DEF rt_mutex_init, Calls, Executes
<1>2. k.wait[m] = << >> /\ k \in KernelState /\ Range(k.wait[m]) = {} /\ Nobody \notin Thread
      /\ HOLD_MAX \in Nat
  BY <1>1, MutexFacts, MutexConstants DEF MutexInv, DetachedMutexIsEmpty
<1>3. k' = k
  <2>1. [k.wait EXCEPT ![m] = << >>] = k.wait
    BY <1>2 DEF KernelState
  <2>. QED
    BY <1>1, <1>2, <2>1 DEF KernelState
<1>4. Unnoticed
  BY <1>1, <1>3, MoveUnnoticed
<1>5. Types'
  BY <1>1, <1>2 DEF MutexInv, Types
<1>6. \A n \in WaitList : /\ hold'[n] = IF n = m THEN 0 ELSE hold[n]
                          /\ owner'[n] = IF n = m THEN Nobody ELSE owner[n]
                          /\ value'[n] = IF n = m THEN 1 ELSE value[n]
                          /\ original'[n] = IF n = m THEN NO_PRIORITY ELSE original[n]
                          /\ obj'[n] = IF n = m THEN "live" ELSE obj[n]
  BY <1>1 DEF MutexInv, Types
<1>7. HoldersOwn'
  <2>1. ASSUME NEW u \in Thread PROVE ~HandedOver(u, m) /\ ~HandedOver(u, m)' /\ held[u][m] = 0
    <3>1. ~HandedOver(u, m)
      BY <1>1 DEF MutexInv, HoldersOwn, DetachedMutexIsEmpty, HandedOver
    <3>2. ~HandedOver(u, m)'
      BY <1>2, <1>6 DEF HandedOver
    <3>3. held[u][m] = 0
      BY <1>1 DEF MutexInv, HoldersOwn
    <3>. QED
      BY <3>1, <3>2, <3>3
  <2>2. \A u \in Thread, n \in WaitList \ {m} : HandedOver(u, n)' <=> HandedOver(u, n)
    BY <1>1, <1>3, <1>6 DEF HandedOver
  <2>. QED
    BY <1>1, <1>2, <1>3, <1>6, <2>1, <2>2 DEF MutexInv, HoldersOwn
<1>8. FreeIsUnowned' /\ OwnersReturn' /\ DetachedMutexIsEmpty' /\ WaitersCall'
  BY <1>1, <1>2, <1>3, <1>6
     DEF MutexInv, FreeIsUnowned, OwnersReturn, DetachedMutexIsEmpty, WaitersCall
<1>9. LeaversKnow'
  <2>1. ASSUME NEW u \in Thread, pc[u] \in InCall, u \notin Range(k.wait[on[u]])
        PROVE  k.stat[u] = READY /\ (k.error[u] = EOK <=> owner'[on[u]] = u)
    <3>1. k.stat[u] = READY /\ (k.error[u] = EOK <=> owner[on[u]] = u) /\ on[u] \in WaitList
      BY <2>1 DEF MutexInv, LeaversKnow, Types
    <3>2. on[u] = m => k.error[u] # EOK
      BY <1>1, <2>1 DEF MutexInv, DetachedMutexIsEmpty, InCall
    <3>. QED
      BY <1>2, <1>6, <3>1, <3>2
  <2>. QED
    BY <1>1, <1>3, <2>1 DEF LeaversKnow
<1>10. DetachExact'
  <2>1. \A u \in Thread : on[u] \in WaitList /\ (pc[u] \in DetachSteps => on[u] # m)
    BY <1>1 DEF MutexInv, DetachExact, Types
  <2>. QED
    BY <1>1, <1>4, <1>6, <2>1, DetachKept
<1>. QED
  BY <1>4, <1>5, <1>7, <1>8, <1>9, <1>10 DEF MutexInv, Unnoticed

-----------------------------------------------------------------------------
(* A waiter leaves the list *)

\* Thread h has left the list of mutex m with the result e; the other waiters
\* go on waiting.
Leaves(h, m, e) ==
    /\ h \in Thread /\ h \in Range(k.wait[m]) /\ on[h] = m /\ pc[h] \in InCall
    /\ Range(k'.wait[m]) = Range(k.wait[m]) \ {h}
    /\ \A n \in WaitList : n # m => k'.wait[n] = k.wait[n]
    /\ \A n \in WaitList : h \notin Range(k'.wait[n])
    /\ Range(k'.timers) \subseteq Range(k.timers)
    /\ \A u \in Thread : k'.stat[u] = IF u = h THEN READY ELSE k.stat[u]
    /\ \A u \in Thread : k'.error[u] = IF u = h THEN e ELSE k.error[u]

\* Waking a waiter takes it out of the list of its mutex.
LEMMA OneLeaves ==
    ASSUME MutexInv, NEW m \in WaitList, NEW h \in Range(k.wait[m]), NEW e, NEW j,
           j.wait = k.wait, j.stat = k.stat, j.error = k.error, j.timers = k.timers,
           Wakes(j, k', h, e)
    PROVE  Leaves(h, m, e)
<1>1. /\ h \in Thread /\ on[h] = m /\ pc[h] \in InCall
      /\ k.wait \in [WaitList -> Seq(Thread)] /\ k.timers \in Seq(Thread)
      /\ k.stat \in [Thread -> Stat] /\ k.error \in [Thread -> {EOK, ERROR, ETIMEOUT, EINTR}]
      /\ IsInjective(k.wait[m])
      /\ \A n \in WaitList : n # m => h \notin Range(k.wait[n])
  <2>1. WaitsExact(k)
    BY MutexFacts DEF KernelWaits
  <2>. QED
    BY <2>1, MutexFacts DEF MutexInv, WaitersCall, WaitsExact
<1>2. /\ k'.stat = [k.stat EXCEPT ![h] = READY] /\ k'.error = [k.error EXCEPT ![h] = e]
      /\ \A n \in WaitList : k'.wait[n] = RemoveFirst(k.wait[n], h)
      /\ k'.timers = RemoveFirst(k.timers, h)
  BY DEF Wakes, WithoutWaiter
<1>3. Range(k'.wait[m]) = Range(k.wait[m]) \ {h}
  BY <1>1, <1>2, RemoveFirstOnce
<1>4. \A n \in WaitList : n # m => k'.wait[n] = k.wait[n]
  BY <1>1, <1>2, RemoveFirstSeq
<1>5. Range(k'.timers) \subseteq Range(k.timers)
  BY <1>1, <1>2, RemoveFirstSeq
<1>6. \A n \in WaitList : h \notin Range(k'.wait[n])
  BY <1>1, <1>3, <1>4
<1>7. /\ \A u \in Thread : k'.stat[u] = IF u = h THEN READY ELSE k.stat[u]
      /\ \A u \in Thread : k'.error[u] = IF u = h THEN e ELSE k.error[u]
  BY <1>1, <1>2
<1>. QED
  BY <1>1, <1>3, <1>4, <1>5, <1>6, <1>7 DEF Leaves

\* Somebody owns a mutex that somebody waits for.
LEMMA WaitersOwned ==
    ASSUME MutexInv, NEW m \in WaitList, k.wait[m] # << >>
    PROVE  /\ obj[m] = "live" /\ owner[m] \in Thread /\ owner[m] # Nobody /\ value[m] = 0
           /\ Head(k.wait[m]) \in Range(k.wait[m]) /\ Head(k.wait[m]) \in Thread
           /\ owner[m] # Head(k.wait[m])
<1>1. Head(k.wait[m]) \in Range(k.wait[m]) /\ Head(k.wait[m]) \in Thread
  BY MutexFacts, HeadInRange
<1>2. obj[m] = "live"
  BY DEF MutexInv, DetachedMutexIsEmpty, Types
<1>3. value[m] = 0 /\ owner[m] # Nobody
  BY <1>2 DEF MutexInv, FreeIsUnowned, Types
<1>. QED
  BY <1>1, <1>2, <1>3 DEF MutexInv, Types, WaitersCall

\* A step that takes a waiter off with an error, while nothing else changes
\* but the place of a thread that is in no call.
LEMMA ErrorLeaves ==
    ASSUME MutexInv, NEW m \in WaitList, NEW h, NEW e, e # EOK, Leaves(h, m, e),
           BlockingInv', k'.lock = 0,
           pc' \in [Thread -> Steps],
           \A u \in Thread : pc[u] \in InCall \/ pc'[u] \in InCall => pc'[u] = pc[u],
           UNCHANGED <<value, owner, original, hold, obj, on, held>>
    PROVE  /\ Types' /\ HoldersOwn' /\ FreeIsUnowned' /\ DetachedMutexIsEmpty'
           /\ OwnersReturn' /\ WaitersCall' /\ LeaversKnow'
<1>1. k.wait[m] # << >> /\ owner[m] # h /\ obj[m] = "live" /\ owner[m] # Nobody
  <2>1. k.wait[m] # << >>
    BY MutexFacts DEF Leaves
  <2>. QED
    BY <2>1, WaitersOwned DEF MutexInv, WaitersCall, Leaves
<1>2. Types' /\ OwnersReturn'
  BY DEF MutexInv, Types, OwnersReturn
<1>3. \A n \in WaitList : Range(k'.wait[n]) \subseteq Range(k.wait[n])
  BY DEF Leaves
<1>4. HoldersOwn'
  <2>1. ASSUME NEW n \in WaitList, NEW u \in Thread
        PROVE  /\ HandedOver(u, n)' <=> HandedOver(u, n)
               /\ HandedOver(u, n) => k'.error[u] = k.error[u]
    <3>1. HandedOver(u, n) \/ HandedOver(u, n)' => u # h
      BY <1>1 DEF HandedOver, Leaves
    <3>2. u # h => (u \in Range(k'.wait[n]) <=> u \in Range(k.wait[n]))
      BY DEF Leaves
    <3>. QED
      BY <3>1, <3>2 DEF HandedOver, Leaves, InCall
  <2>. QED
    BY <2>1 DEF MutexInv, HoldersOwn
<1>5. FreeIsUnowned'
  BY <1>1 DEF MutexInv, FreeIsUnowned, Leaves
<1>6. DetachedMutexIsEmpty'
  BY <1>1 DEF MutexInv, DetachedMutexIsEmpty, Leaves, InCall
<1>7. WaitersCall'
  BY <1>3 DEF MutexInv, WaitersCall
<1>8. LeaversKnow'
  <2>1. ASSUME NEW u \in Thread, pc'[u] \in InCall, u \notin Range(k'.wait[on[u]])
        PROVE  k'.stat[u] = READY /\ (k'.error[u] = EOK <=> owner[on[u]] = u)
    <3>1. CASE u = h
      BY <1>1, <3>1 DEF Leaves
    <3>2. CASE u # h
      <4>1. u \notin Range(k.wait[on[u]])
        BY <2>1, <3>2 DEF Leaves, MutexInv, Types
      <4>. QED
        BY <2>1, <3>2, <4>1 DEF MutexInv, LeaversKnow, Leaves
    <3>. QED
      BY <3>1, <3>2
  <2>. QED
    BY <2>1 DEF LeaversKnow
<1>. QED
  BY <1>2, <1>4, <1>5, <1>6, <1>7, <1>8

\* The loop of a detach wakes the head with an error.
LEMMA DetachWakeKeeps ==
    ASSUME MutexInv, NEW t \in Thread, DetachWake(t)
    PROVE  MutexInv'
<1>. DEFINE m == on[t]
            h == Head(k.wait[m])
<1>1. /\ t = k.cur /\ pc[t] = "wake" /\ pc' = [pc EXCEPT ![t] = "test"]
      /\ k' = ResumeWithError(k, h)
      /\ UNCHANGED <<isr, value, owner, original, hold, obj, on, held>>
  BY DEF DetachWake, Continues, Executes, Goto, mutexVars
<1>2. t # Idle /\ k.stat[t] = READY /\ m \in WaitList /\ KernelWaits(k)
  BY <1>1, CallerIsReady, MutexFacts DEF MutexInv, BlockingInv, Types
<1>3. /\ obj[m] = "live" /\ owner[m] \in {Nobody, t} /\ k.wait[m] # << >>
      /\ Range(k.timers) \cap Range(k.wait[m]) = {}
      /\ \A u \in Thread : pc[u] \in DetachSteps /\ on[u] = m => u = t
  BY <1>1 DEF MutexInv, DetachExact, DetachSteps
<1>4. h \in Range(k.wait[m]) /\ h \in Thread /\ k.stat[h] = SUSPEND /\ h # t
  BY <1>2, <1>3, WaitersOwned, MutexFacts, StatesDiffer
<1>. HIDE DEF h, m
<1>5. Wakes(k, k', h, ERROR) /\ k'.cur = k.cur
  <2>1. k' = rt_thread_resume(WithError(k, h, ERROR), h)
    BY <1>1 DEF ResumeWithError, WithError
  <2>. QED
    BY <1>2, <1>4, <2>1, ResumeWakes
<1>6. Leaves(h, m, ERROR) /\ ERROR # EOK
  BY <1>2, <1>4, <1>5, OneLeaves DEF ERROR, EOK
<1>7. BlockingInv' /\ k'.lock = 0
  <2>1. KernelWaits(k') /\ k'.cur = t /\ k'.stat[t] = READY /\ k'.lock = 0
    BY <1>1, <1>2, <1>4, <1>5, <1>6, MutexFacts DEF Wakes, Leaves
  <2>2. \A w \in WaitList : Range(k'.wait[w]) \subseteq Range(k.wait[w])
    BY <1>2, <1>5, WokenShrinks
  <2>. QED
    BY <1>1, <1>2, <2>1, <2>2, CallKeeps DEF MutexInv, Moves
<1>8. /\ pc' \in [Thread -> Steps] /\ pc'[t] = "test"
      /\ \A u \in Thread \ {t} : pc'[u] = pc[u]
  BY <1>1 DEF MutexInv, Types, Steps, DetachSteps
<1>9. /\ Types' /\ HoldersOwn' /\ FreeIsUnowned' /\ DetachedMutexIsEmpty'
      /\ OwnersReturn' /\ WaitersCall' /\ LeaversKnow'
  BY <1>1, <1>2, <1>6, <1>7, <1>8, ErrorLeaves DEF InCall
<1>10. DetachExact'
  <2>1. \A u \in Thread : pc'[u] \in DetachSteps => pc[u] \in DetachSteps /\ (u # t => on[u] # m)
    BY <1>1, <1>3, <1>8 DEF DetachSteps
  <2>2. /\ on[t] = m /\ Range(k'.wait[m]) \subseteq Range(k.wait[m])
        /\ Range(k'.timers) \subseteq Range(k.timers)
        /\ \A n \in WaitList : n # m => k'.wait[n] = k.wait[n]
    BY <1>6 DEF Leaves, m
  <2>3. \A u \in Thread : on[u] \in WaitList
    BY DEF MutexInv, Types
  <2>. QED
    BY <1>1, <1>3, <1>8, <2>1, <2>2, <2>3 DEF MutexInv, DetachExact
<1>. QED
  BY <1>7, <1>9, <1>10 DEF MutexInv

\* The last release hands the mutex to the first waiter, which will return with
\* RT_EOK and holds it once.
LEMMA ReleaseHandsOver ==
    ASSUME MutexInv, NEW t \in Thread, NEW m \in WaitList, ReleaseLast(t, m), k.wait[m] # << >>
    PROVE  MutexInv'
<1>. DEFINE h == Head(k.wait[m])
            j == Restore(t, m)
<1>1. /\ MayUse(t, m) /\ owner[m] = t /\ hold[m] = 1
      /\ owner' = [owner EXCEPT ![m] = h] /\ original' = [original EXCEPT ![m] = k.prio[h]]
      /\ held' = [held EXCEPT ![t][m] = held[t][m] - 1]
      /\ k' = rt_ipc_list_resume(j, m) /\ pc' = [pc EXCEPT ![t] = "sched"]
      /\ UNCHANGED <<isr, value, hold, obj, on>>
  BY DEF ReleaseLast, GiveTo, Goto
<1>2. /\ t = k.cur /\ t # Idle /\ pc[t] = "run" /\ obj[m] = "live" /\ k.stat[t] = READY
      /\ \A u \in Thread : pc[u] \in DetachSteps => on[u] # m
  BY <1>1, CallerFacts
<1>3. /\ KernelWaits(j) /\ j.stat = k.stat /\ j.error = k.error /\ j.wait = k.wait
      /\ j.cur = k.cur /\ j.lock = k.lock /\ j.timers = k.timers
  BY <1>1, <1>2, RestoreOnly
<1>4. h \in Range(k.wait[m]) /\ h \in Thread /\ h # t /\ k.stat[h] = SUSPEND
  BY <1>1, WaitersOwned, MutexFacts
<1>. HIDE DEF j
<1>5. Wakes(j, k', h, EOK) /\ k'.cur = k.cur
  BY <1>1, <1>3, HeadWakes
<1>. HIDE DEF h
<1>6. Leaves(h, m, EOK)
  BY <1>3, <1>4, <1>5, OneLeaves
<1>7. BlockingInv' /\ k'.lock = 0
  <2>1. KernelWaits(k') /\ k'.cur = t /\ k'.stat[t] = READY /\ k'.lock = 0
    BY <1>2, <1>3, <1>4, <1>5, <1>6, MutexFacts DEF Wakes, Leaves
  <2>2. \A w \in WaitList : Range(k'.wait[w]) \subseteq Range(k.wait[w])
    BY <1>3, <1>5, WokenShrinks
  <2>. QED
    BY <1>1, <1>2, <2>1, <2>2, CallKeeps DEF MutexInv, Moves
<1>8. /\ pc' \in [Thread -> Steps] /\ pc'[t] = "sched"
      /\ \A u \in Thread \ {t} : pc'[u] = pc[u]
  BY <1>1 DEF MutexInv, Types, Steps
<1>9. /\ held[t][m] = 1 /\ value[m] = 0 /\ HOLD_MAX \in Nat /\ Nobody \notin Thread
      /\ \A u \in Thread \ {t} : held[u][m] = 0
      /\ k.prio[h] \in Priority
  BY <1>1, <1>2, <1>4, OwnerHolds, MutexConstants, MutexFacts
<1>10. held' = [held EXCEPT ![t][m] = 0]
  <2>1. held[t][m] - 1 = 0
    BY <1>9
  <2>. QED
    BY <1>1, <2>1
<1>11. /\ held' \in [Thread -> [WaitList -> 0 .. HOLD_MAX]]
       /\ \A u \in Thread, n \in WaitList :
            held'[u][n] = IF u = t /\ n = m THEN 0 ELSE held[u][n]
  BY <1>9, <1>10, HeldChange DEF MutexInv, Types
<1>12. Types'
  BY <1>1, <1>4, <1>8, <1>9, <1>11 DEF MutexInv, Types
<1>13. \A n \in WaitList : /\ owner'[n] = IF n = m THEN h ELSE owner[n]
                           /\ original'[n] = IF n = m THEN k.prio[h] ELSE original[n]
  BY <1>1 DEF MutexInv, Types
<1>14. \A u \in Thread : (pc'[u] \in InCall <=> pc[u] \in InCall) /\ (pc'[u] \in InCall => u # t)
  BY <1>2, <1>8 DEF InCall
<1>15. HoldersOwn'
  <2>1. ASSUME NEW n \in WaitList \ {m}, NEW u \in Thread
        PROVE  /\ HandedOver(u, n)' <=> HandedOver(u, n)
               /\ HandedOver(u, n) => k'.error[u] = k.error[u]
    <3>1. HandedOver(u, n) \/ HandedOver(u, n)' => u # h
      BY <1>1, <1>6 DEF HandedOver, Leaves
    <3>. QED
      BY <1>1, <1>6, <1>13, <1>14, <3>1 DEF HandedOver, Leaves, InCall
  <2>2. ASSUME NEW u \in Thread
        PROVE  HandedOver(u, m)' <=> u = h
    BY <1>1, <1>6, <1>13, <1>14 DEF HandedOver, Leaves, InCall
  <2>3. k'.error[h] = EOK
    BY <1>6 DEF Leaves
  <2>4. ASSUME NEW u \in Thread
        PROVE  held'[u][m] = IF owner'[m] # u \/ obj'[m] = "detached" THEN 0
                             ELSE hold'[m] - (IF u = h THEN 1 ELSE 0)
    BY <1>1, <1>2, <1>4, <1>9, <1>11, <1>13
  <2>5. ASSUME NEW n \in WaitList \ {m}, NEW u \in Thread
        PROVE  held'[u][n] = IF owner'[n] # u \/ obj'[n] = "detached" THEN 0
                             ELSE hold'[n] - (IF HandedOver(u, n)' THEN 1 ELSE 0)
    <3>1. held'[u][n] = held[u][n] /\ owner'[n] = owner[n] /\ obj'[n] = obj[n] /\ hold'[n] = hold[n]
      BY <1>1, <1>11, <1>13
    <3>. QED
      BY <2>1, <3>1 DEF MutexInv, HoldersOwn
  <2>6. \A u \in Thread, n \in WaitList : HandedOver(u, n)' => k'.error[u] = EOK
    BY <2>1, <2>2, <2>3 DEF MutexInv, HoldersOwn
  <2>. QED
    BY <2>2, <2>4, <2>5, <2>6 DEF HoldersOwn
<1>16. FreeIsUnowned' /\ OwnersReturn'
  BY <1>1, <1>2, <1>4, <1>6, <1>9, <1>13 DEF MutexInv, FreeIsUnowned, OwnersReturn, Leaves
<1>17. DetachedMutexIsEmpty'
  BY <1>1, <1>2, <1>6, <1>14 DEF MutexInv, DetachedMutexIsEmpty, Leaves, InCall
<1>18. WaitersCall'
  <2>1. \A n \in WaitList : Range(k'.wait[n]) \subseteq Range(k.wait[n]) \ {h}
    BY <1>6 DEF Leaves
  <2>2. \A n \in WaitList : \A u \in Range(k'.wait[n]) : on[u] = n /\ owner[n] # u /\ u # h
    BY <2>1 DEF MutexInv, WaitersCall
  <2>. QED
    BY <1>1, <1>13, <2>2 DEF WaitersCall
<1>19. LeaversKnow'
  <2>1. ASSUME NEW u \in Thread, pc'[u] \in InCall, u \notin Range(k'.wait[on[u]])
        PROVE  k'.stat[u] = READY /\ (k'.error[u] = EOK <=> owner'[on[u]] = u)
    <3>1. CASE u = h
      BY <1>13, <1>6, <3>1 DEF Leaves
    <3>2. CASE u # h
      <4>1. u \notin Range(k.wait[on[u]]) /\ u # t /\ pc[u] \in InCall
        BY <1>6, <1>14, <2>1, <3>2 DEF Leaves, MutexInv, Types
      <4>2. /\ k.stat[u] = READY /\ (k.error[u] = EOK <=> owner[on[u]] = u)
            /\ on[u] \in WaitList
        BY <4>1 DEF MutexInv, LeaversKnow, Types
      <4>3. k'.stat[u] = k.stat[u] /\ k'.error[u] = k.error[u]
        BY <1>6, <3>2 DEF Leaves
      <4>. QED
        BY <1>1, <1>13, <3>2, <4>1, <4>2, <4>3
    <3>. QED
      BY <3>1, <3>2
  <2>. QED
    BY <1>1, <2>1 DEF LeaversKnow
<1>20. DetachExact'
  <2>1. \A u \in Thread : pc'[u] \in DetachSteps => pc[u] \in DetachSteps /\ pc'[u] = pc[u] /\ on[u] # m
    BY <1>2, <1>8 DEF DetachSteps
  <2>2. /\ Range(k'.timers) \subseteq Range(k.timers)
        /\ \A n \in WaitList : n # m => k'.wait[n] = k.wait[n]
    BY <1>6 DEF Leaves
  <2>3. \A u \in Thread : on[u] \in WaitList
    BY DEF MutexInv, Types
  <2>. QED
    BY <1>1, <1>13, <2>1, <2>2, <2>3 DEF MutexInv, DetachExact
<1>. QED
  BY <1>7, <1>12, <1>15, <1>16, <1>17, <1>18, <1>19, <1>20 DEF MutexInv

-----------------------------------------------------------------------------
(* rt_mutex_take with a wait *)

\* Lending the owner a priority changes nothing that the invariant looks at.
LEMMA BoostOnly ==
    ASSUME MutexInv, NEW t \in Thread, NEW m \in WaitList, owner[m] \in Thread
    PROVE  /\ KernelWaits(Boost(k, t, m))
           /\ LET j == Boost(k, t, m)
              IN  /\ j.stat = k.stat /\ j.error = k.error /\ j.wait = k.wait
                  /\ j.cur = k.cur /\ j.lock = k.lock /\ j.timers = k.timers
                  /\ j.prio = IF k.prio[t] < k.prio[owner[m]]
                              THEN [k.prio EXCEPT ![owner[m]] = k.prio[t]] ELSE k.prio
<1>1. k.prio[t] \in Priority /\ KernelWaits(k)
  BY MutexFacts
<1>2. CASE k.prio[t] < k.prio[owner[m]]
  <2>1. Boost(k, t, m) = ChangePriority(k, owner[m], k.prio[t])
    BY <1>2 DEF Boost
  <2>. QED
    BY <1>1, <1>2, <2>1, ChangePriorityWaits DEF PriorityOnly
<1>3. CASE ~(k.prio[t] < k.prio[owner[m]])
  BY <1>1, <1>3 DEF Boost
<1>. QED
  BY <1>2, <1>3

\* A mutex that is not free and not the caller's is somebody else's.
LEMMA TakenByAnother ==
    ASSUME MutexInv, NEW t \in Thread, NEW m \in WaitList, MayUse(t, m), owner[m] # t, value[m] = 0
    PROVE  owner[m] \in Thread /\ owner[m] # Nobody
  BY CallerFacts DEF MutexInv, FreeIsUnowned, Types

\* A caller that does not get the mutex joins the list of its waiters.
LEMMA TakeWaitsKeeps ==
    ASSUME MutexInv, NEW t \in Thread, NEW m \in WaitList, TakeWaits(t, m)
    PROVE  MutexInv'
<1>. DEFINE j == Boost(k, t, m)
<1>1. /\ MayUse(t, m) /\ owner[m] # t /\ value[m] = 0
      /\ pc' = [pc EXCEPT ![t] = "wait"] /\ on' = [on EXCEPT ![t] = m]
      /\ UNCHANGED <<isr, value, owner, original, hold, obj, held>>
  BY DEF TakeWaits, MayTake, Goto, mutexVars
<1>2. PICK time \in Times \ {0} : k' = Block(j, m, t, Flag, time)
  BY DEF TakeWaits
<1>3. /\ t = k.cur /\ t # Idle /\ pc[t] = "run" /\ obj[m] = "live" /\ k.stat[t] = READY
      /\ \A u \in Thread : pc[u] \in DetachSteps => on[u] # m
      /\ \A n \in WaitList : t \notin Range(k.wait[n])
  BY <1>1, CallerFacts
<1>4. /\ KernelWaits(j) /\ j.stat = k.stat /\ j.error = k.error /\ j.wait = k.wait
      /\ j.cur = k.cur /\ j.lock = k.lock /\ j.timers = k.timers
      /\ owner[m] # Nobody
  BY <1>1, TakenByAnother, BoostOnly
<1>. HIDE DEF j
<1>5. time \in Int
  BY MutexConstants, KernelConstants DEF WAITING_FOREVER, HALF_RANGE
<1>6. Blocks(j, k', m, t, Flag, time)
  BY <1>2, <1>3, <1>4, <1>5, BlockBlocks
<1>7. /\ \A n \in WaitList : Range(k'.wait[n]) = Range(k.wait[n]) \cup (IF n = m THEN {t} ELSE {})
      /\ \A n \in WaitList : n # m => k'.wait[n] = k.wait[n]
      /\ \A u \in Thread \ {t} : k'.stat[u] = k.stat[u] /\ k'.error[u] = k.error[u]
      /\ Range(k'.timers) \subseteq Range(k.timers) \cup {t}
      /\ k'.lock = 0
  <2>1. PICK i \in 1 .. Len(j.wait[m]) + 1 : k'.wait = [j.wait EXCEPT ![m] = InsertAt(@, i, t)]
    BY <1>6 DEF Blocks
  <2>2. /\ \A n \in WaitList : Range(k'.wait[n]) = Range(j.wait[n]) \cup (IF n = m THEN {t} ELSE {})
        /\ k'.stat = [j.stat EXCEPT ![t] = SUSPEND] /\ k'.error = [j.error EXCEPT ![t] = EOK]
        /\ Range(k'.timers) = Range(j.timers) \cup (IF time > 0 THEN {t} ELSE {})
        /\ k'.lock = j.lock
    BY <1>6 DEF Blocks
  <2>3. \A n \in WaitList : n # m => k'.wait[n] = k.wait[n]
    BY <1>4, <2>1, MutexFacts
  <2>4. \A u \in Thread \ {t} : k'.stat[u] = k.stat[u] /\ k'.error[u] = k.error[u]
    BY <1>4, <2>2, MutexFacts
  <2>5. Range(k'.timers) \subseteq Range(k.timers) \cup {t}
    BY <1>4, <2>2
  <2>. QED
    BY <1>4, <2>2, <2>3, <2>4, <2>5, MutexFacts
<1>8. BlockingInv'
  BY <1>1, <1>3, <1>4, <1>6, BlockKeeps DEF MutexInv, Moves
<1>9. /\ pc' \in [Thread -> Steps] /\ pc'[t] = "wait"
      /\ on' \in [Thread -> WaitList] /\ on'[t] = m
      /\ \A u \in Thread \ {t} : pc'[u] = pc[u] /\ on'[u] = on[u]
  BY <1>1 DEF MutexInv, Types, Steps, InCall
<1>10. Types' /\ OwnersReturn'
  BY <1>1, <1>9 DEF MutexInv, Types, OwnersReturn
<1>11. HoldersOwn'
  <2>1. ASSUME NEW n \in WaitList, NEW u \in Thread
        PROVE  /\ HandedOver(u, n)' <=> HandedOver(u, n)
               /\ HandedOver(u, n) => k'.error[u] = k.error[u]
    <3>1. CASE u = t
      <4>1. ~HandedOver(t, n)
        BY <1>3 DEF HandedOver
      <4>2. ~HandedOver(t, n)'
        BY <1>1, <1>7, <1>9 DEF HandedOver
      <4>. QED
        BY <3>1, <4>1, <4>2
    <3>2. CASE u # t
      <4>1. u \in Range(k'.wait[n]) <=> u \in Range(k.wait[n])
        BY <1>7, <3>2
      <4>. QED
        BY <1>1, <1>7, <1>9, <3>2, <4>1 DEF HandedOver
    <3>. QED
      BY <3>1, <3>2
  <2>. QED
    BY <1>1, <2>1 DEF MutexInv, HoldersOwn
<1>12. FreeIsUnowned'
  BY <1>1, <1>4, <1>7 DEF MutexInv, FreeIsUnowned
<1>13. DetachedMutexIsEmpty'
  BY <1>1, <1>3, <1>7, <1>9 DEF MutexInv, DetachedMutexIsEmpty
<1>14. WaitersCall'
  <2>1. ASSUME NEW n \in WaitList, NEW u \in Range(k'.wait[n])
        PROVE  on'[u] = n /\ owner[n] # u
    <3>1. CASE u = t
      <4>1. n = m
        BY <1>3, <1>7, <3>1
      <4>. QED
        BY <1>1, <1>9, <3>1, <4>1
    <3>2. CASE u # t
      <4>1. u \in Range(k.wait[n])
        BY <1>7, <3>2
      <4>2. u \in Thread \ {t}
        BY <3>2, <4>1, MutexFacts
      <4>. QED
        BY <1>9, <4>1, <4>2 DEF MutexInv, WaitersCall
    <3>. QED
      BY <3>1, <3>2
  <2>. QED
    BY <1>1, <2>1 DEF WaitersCall
<1>15. LeaversKnow'
  <2>1. ASSUME NEW u \in Thread, pc'[u] \in InCall, u \notin Range(k'.wait[on'[u]])
        PROVE  k'.stat[u] = READY /\ (k'.error[u] = EOK <=> owner[on'[u]] = u)
    <3>1. u # t
      BY <1>7, <1>9, <2>1
    <3>2. pc[u] \in InCall /\ on'[u] = on[u] /\ on[u] \in WaitList /\ u \notin Range(k.wait[on[u]])
      <4>1. pc[u] = pc'[u] /\ on'[u] = on[u]
        BY <1>9, <3>1
      <4>2. on[u] \in WaitList
        BY DEF MutexInv, Types
      <4>. QED
        BY <1>7, <2>1, <3>1, <4>1, <4>2
    <3>. QED
      BY <1>7, <3>1, <3>2 DEF MutexInv, LeaversKnow
  <2>. QED
    BY <1>1, <2>1 DEF LeaversKnow
<1>16. DetachExact'
  <2>1. \A u \in Thread : pc'[u] \in DetachSteps =>
          u # t /\ pc[u] \in DetachSteps /\ pc'[u] = pc[u] /\ on'[u] = on[u] /\ on[u] # m
    BY <1>3, <1>9 DEF DetachSteps
  <2>2. \A n \in WaitList : n # m =>
          Range(k'.timers) \cap Range(k'.wait[n]) \subseteq Range(k.timers) \cap Range(k.wait[n])
    BY <1>3, <1>7
  <2>3. \A u \in Thread : on[u] \in WaitList
    BY DEF MutexInv, Types
  <2>. QED
    BY <1>1, <1>7, <2>1, <2>2, <2>3 DEF MutexInv, DetachExact
<1>. QED
  BY <1>7, <1>8, <1>10, <1>11, <1>12, <1>13, <1>14, <1>15, <1>16 DEF MutexInv

-----------------------------------------------------------------------------
(* Sleeps, timeouts and context switches *)

\* A step of Blocking that takes nobody from a mutex that is being detached.
LEMMA DetachUnharmed ==
    ASSUME MutexInv, Quiet, BlockingInv', UNCHANGED <<owner, obj, on>>,
           \A n \in WaitList : /\ Range(k'.wait[n]) \subseteq Range(k.wait[n])
                               /\ Range(k.timers) \cap Range(k.wait[n]) = {} => k'.wait[n] = k.wait[n]
    PROVE  DetachExact'
<1>1. \A u \in Thread : pc[u] \in DetachSteps \/ pc'[u] \in DetachSteps => pc'[u] = pc[u]
  BY DEF MutexInv, Types, Quiet, Steps, InCall, DetachSteps
<1>2. ASSUME NEW u \in Thread, pc[u] \in DetachSteps
      PROVE  /\ k'.wait[on[u]] = k.wait[on[u]]
             /\ Range(k'.timers) \cap Range(k'.wait[on[u]]) = {}
  <2>1. on[u] \in WaitList /\ Range(k.timers) \cap Range(k.wait[on[u]]) = {}
    BY <1>2 DEF MutexInv, DetachExact, Types
  <2>2. \A s \in Range(k'.wait[on[u]]) : pc'[s] # "sleep"
    BY <2>1 DEF BlockingInv
  <2>. QED
    BY <2>1, <2>2 DEF Quiet
<1>. QED
  BY <1>1, <1>2 DEF MutexInv, DetachExact

\* A step of Blocking that takes nobody off a list.
LEMMA QuietUnnoticed ==
    ASSUME MutexInv, Quiet, BlockingInv', k'.wait = k.wait,
           \A t \in Thread : pc[t] \in InCall => k'.error[t] = k.error[t] /\ k'.stat[t] = k.stat[t],
           UNCHANGED <<mutexVars, on, held>>
    PROVE  MutexInv'
<1>1. UNCHANGED <<value, owner, original, hold, obj, on, held>>
  BY DEF mutexVars
<1>2. pc' \in [Thread -> Steps] /\ \A t \in Thread : pc[t] \in InCall <=> pc'[t] \in InCall
  <2>1. pc' = [t \in Thread |-> pc'[t]]
    BY DEF BlockingInv
  <2>2. \A t \in Thread : pc'[t] \in Steps /\ (pc[t] \in InCall <=> pc'[t] \in InCall)
    BY DEF MutexInv, Types, Quiet, Steps, InCall, DetachSteps
  <2>. QED
    BY <2>1, <2>2
<1>3. DetachExact'
  BY <1>1, DetachUnharmed
<1>4. HoldersOwn'
  <2>1. ASSUME NEW n \in WaitList, NEW u \in Thread
        PROVE  /\ HandedOver(u, n)' <=> HandedOver(u, n)
               /\ HandedOver(u, n) => k'.error[u] = k.error[u]
    BY <1>1, <1>2 DEF HandedOver, InCall
  <2>. QED
    BY <1>1, <2>1 DEF MutexInv, HoldersOwn
<1>5. Types' /\ FreeIsUnowned' /\ OwnersReturn' /\ WaitersCall'
  BY <1>1, <1>2 DEF MutexInv, Types, FreeIsUnowned, OwnersReturn, WaitersCall
<1>6. DetachedMutexIsEmpty' /\ LeaversKnow'
  <2>1. DetachedMutexIsEmpty'
    BY <1>1, <1>2 DEF MutexInv, DetachedMutexIsEmpty, InCall
  <2>2. LeaversKnow'
    BY <1>1, <1>2 DEF MutexInv, LeaversKnow
  <2>. QED
    BY <2>1, <2>2
<1>. QED
  BY <1>3, <1>4, <1>5, <1>6 DEF MutexInv, Quiet

\* A timeout that ends a wait for a mutex.
LEMMA TimeoutKeeps ==
    ASSUME MutexInv, Quiet, BlockingInv', NEW t, TimesOut(t), NEW m \in WaitList,
           t \in Range(k.wait[m]), UNCHANGED <<mutexVars, on, held>>
    PROVE  MutexInv'
<1>1. /\ Wakes(k, k', t, ETIMEOUT) /\ pc' = pc /\ t \in Range(k.timers)
      /\ UNCHANGED <<value, owner, original, hold, obj, on, held>>
  BY DEF TimesOut, mutexVars
<1>2. Leaves(t, m, ETIMEOUT) /\ ETIMEOUT # EOK
  BY <1>1, OneLeaves DEF ETIMEOUT, EOK
<1>3. k'.lock = 0
  BY DEF Quiet, MutexInv
<1>4. /\ Types' /\ HoldersOwn' /\ FreeIsUnowned' /\ DetachedMutexIsEmpty'
      /\ OwnersReturn' /\ WaitersCall' /\ LeaversKnow'
  BY <1>1, <1>2, <1>3, ErrorLeaves DEF MutexInv, Types
<1>5. DetachExact'
  BY <1>1, <1>2, DetachUnharmed DEF Leaves
<1>. QED
  BY <1>3, <1>4, <1>5 DEF MutexInv

\* The steps of Blocking.
LEMMA KernelKeeps ==
    ASSUME MutexInv, BlockingNext, UNCHANGED <<mutexVars, on, held>>
    PROVE  MutexInv'
<1>1. BlockingInv' /\ Quiet
  BY BlockingStep DEF MutexInv
<1>2. CASE NobodyLeaves
  BY <1>1, <1>2, QuietUnnoticed DEF NobodyLeaves, InCall
<1>3. ASSUME NEW t \in Thread, TimesOut(t) PROVE MutexInv'
  <2>1. ASSUME NEW m \in WaitList, t \in Range(k.wait[m]) PROVE MutexInv'
    BY <1>1, <1>3, <2>1, TimeoutKeeps
  <2>2. CASE \A m \in WaitList : t \notin Range(k.wait[m])
    <3>1. /\ k.stat[t] = SUSPEND /\ k'.stat = [k.stat EXCEPT ![t] = READY]
          /\ k'.error = [k.error EXCEPT ![t] = ETIMEOUT] /\ k'.wait = WithoutWaiter(k, t)
          /\ k.wait \in [WaitList -> Seq(Thread)] /\ k.stat \in [Thread -> Stat]
          /\ k.error \in [Thread -> {EOK, ERROR, ETIMEOUT, EINTR}]
      BY <1>3, MutexFacts DEF TimesOut, Wakes
    <3>2. k'.wait = k.wait
      <4>1. \A m \in WaitList : RemoveFirst(k.wait[m], t) = k.wait[m]
        BY <2>2, <3>1, RemoveFirstSeq
      <4>. QED
        BY <3>1, <4>1 DEF WithoutWaiter
    <3>3. pc[t] \notin InCall
      BY <2>2, <3>1, StatesDiffer DEF MutexInv, LeaversKnow, Types
    <3>4. \A s \in Thread : pc[s] \in InCall => k'.error[s] = k.error[s] /\ k'.stat[s] = k.stat[s]
      BY <3>1, <3>3
    <3>. QED
      BY <1>1, <3>2, <3>4, QuietUnnoticed
  <2>. QED
    BY <2>1, <2>2
<1>. QED
  BY <1>1, <1>2, <1>3 DEF Quiet

-----------------------------------------------------------------------------
(* The theorem *)

\* All mutexes start free and nobody is in a call.
LEMMA MutexStarts ==
    ASSUME Init
    PROVE  MutexInv
<1>1. /\ BlockingInv /\ k.lock = 0 /\ \A m \in WaitList : Range(k.wait[m]) = {} /\ k.wait[m] = << >>
      /\ pc = [t \in Thread |-> "run"]
  <2>1. BlockingInv /\ \A w \in WaitList : k.wait[w] = << >>
    BY InitBlocking DEF Init
  <2>2. k.lock = 0 /\ pc = [t \in Thread |-> "run"]
    BY DEF Init, BlockingInit
  <2>3. Range(<< >>) = {}
    BY DEF Range
  <2>. QED
    BY <2>1, <2>2, <2>3
<1>2. /\ value = [m \in WaitList |-> 1] /\ owner = [m \in WaitList |-> Nobody]
      /\ original = [m \in WaitList |-> NO_PRIORITY] /\ hold = [m \in WaitList |-> 0]
      /\ obj = [m \in WaitList |-> "live"]
      /\ on = [t \in Thread |-> CHOOSE m \in WaitList : TRUE]
      /\ held = [t \in Thread |-> [m \in WaitList |-> 0]]
      /\ HOLD_MAX \in Nat /\ Nobody \notin Thread
  BY MutexConstants DEF Init
<1>3. (CHOOSE m \in WaitList : TRUE) \in WaitList
  BY MutexConstants
<1>4. Types /\ HoldersOwn /\ FreeIsUnowned /\ DetachedMutexIsEmpty
  <2>1. Types
    BY <1>1, <1>2, <1>3 DEF Types, Steps
  <2>2. FreeIsUnowned /\ DetachedMutexIsEmpty
    BY <1>1, <1>2 DEF FreeIsUnowned, DetachedMutexIsEmpty
  <2>3. HoldersOwn
    BY <1>1, <1>2 DEF HoldersOwn, HandedOver
  <2>. QED
    BY <2>1, <2>2, <2>3
<1>5. OwnersReturn /\ WaitersCall /\ LeaversKnow /\ DetachExact
  BY <1>1, <1>2 DEF OwnersReturn, WaitersCall, LeaversKnow, DetachExact, InCall, DetachSteps
<1>. QED
  BY <1>1, <1>4, <1>5 DEF MutexInv

\* The last release, with or without a waiter.
LEMMA ReleaseLastKeeps ==
    ASSUME MutexInv, NEW t \in Thread, NEW m \in WaitList, ReleaseLast(t, m)
    PROVE  MutexInv'
  BY ReleaseFreeKeeps, ReleaseHandsOver

\* Every step keeps the invariant.
LEMMA MutexStep ==
    ASSUME Disciplined, HOLD_MAX < HOLD_RANGE, MutexInv, [Next]_vars
    PROVE  MutexInv'
<1>1. CASE BlockingNext /\ UNCHANGED <<mutexVars, on, held>>
  BY <1>1, KernelKeeps
<1>2. ASSUME NEW t \in Thread, NEW m \in WaitList, MutexCall(t, m)
      PROVE  MutexInv'
  BY <1>2, TakeAgainKeeps, TakeFreeKeeps, FailsKeeps, TakeWaitsKeeps, ReleaseInnerKeeps,
     ReleaseLastKeeps, DetachBegins, InitKeeps DEF MutexCall
<1>3. ASSUME NEW t \in Thread, TakeReturn(t) \/ DetachWake(t) \/ DetachTest(t) \/ DetachObject(t)
      PROVE  MutexInv'
  BY <1>3, TakeReturnKeeps, DetachWakeKeeps, DetachTestKeeps, DetachObjectKeeps
<1>4. CASE UNCHANGED vars
  BY <1>4 DEF vars, mutexVars, MutexInv, BlockingInv, CurrentMayRun, Types, HoldersOwn, HandedOver,
              FreeIsUnowned, DetachedMutexIsEmpty, OwnersReturn, WaitersCall, LeaversKnow, DetachExact
<1>. QED
  BY <1>1, <1>2, <1>3, <1>4 DEF Next

\* The invariant says what the run checks.
LEMMA MutexInvHolds ==
    ASSUME HOLD_MAX < HOLD_RANGE, MutexInv
    PROVE  MutexInvariant
<1>1. k \in KernelState /\ WaitersLeave
  BY MutexFacts, InvWaitersLeave DEF MutexInv
<1>2. \A m \in WaitList : hold[m] \in 0 .. HOLD_RANGE - 1
  BY MutexConstants DEF MutexInv, Types
<1>3. TypeOK
  BY <1>1, <1>2 DEF TypeOK, MutexInv, BlockingInv, Types, Steps, InCall, DetachSteps
<1>. QED
  BY <1>1, <1>3 DEF MutexInvariant, MutexInv

\* Mutual exclusion and its bookkeeping, while fewer nested takes are made than
\* hold can count and mutexes are detached as rt_mutex_detach says: who was told RT_EOK owns the mutex, as often as it took it, a
\* hand-over is one take of the waiter that gets it, a free mutex has no owner
\* and no waiters, and a detach leaves nobody behind.
THEOREM MutexIsSafe ==
    ASSUME Disciplined, HOLD_MAX < HOLD_RANGE
    PROVE  Spec => []MutexInvariant
<1>1. Init => MutexInv
  BY MutexStarts
<1>2. MutexInv /\ [Next]_vars => MutexInv'
  BY MutexStep
<1>3. MutexInv => MutexInvariant
  BY MutexInvHolds
<1>. QED
  BY <1>1, <1>2, <1>3, PTL DEF Spec

-----------------------------------------------------------------------------
(* The priorities that the waiters lend, while a thread has one mutex at   *)
(* most                                                                    *)

\* Thread t owns no registered mutex.
OwnsNone(t) == \A m \in WaitList : obj[m] = "live" => owner[m] # t

\* A thread that owns no mutex has its own priority, and an owner will return to
\* its own.
OwnPriorities ==
    /\ \A t \in Thread : OwnsNone(t) => k.prio[t] = InitPriority[t]
    /\ \A m \in WaitList :
         obj[m] = "live" /\ owner[m] # Nobody => original[m] = InitPriority[owner[m]]

\* A thread has one mutex at most, and none while it waits for another.
OneAtATime ==
    /\ \A m, n \in WaitList :
         obj[m] = "live" /\ obj[n] = "live" /\ owner[m] = owner[n] /\ owner[m] # Nobody => m = n
    /\ \A t \in Thread : pc[t] \in InCall =>
         \A m \in WaitList : obj[m] = "live" /\ owner[m] = t => m = on[t]

\* An owner that detaches its mutex is lent no priority.
DetacherOwnPriority ==
    \A t \in Thread : pc[t] \in DetachSteps /\ owner[on[t]] = t => k.prio[t] = InitPriority[t]

\* The waiters are in the order of their priorities.
WaitersSorted == \A m \in WaitList : Sorted(InitPriority, k.wait[m])

LendsInv ==
    /\ OwnPriorities /\ OneAtATime /\ DetacherOwnPriority
    /\ WaitersSorted /\ InheritsPriority

\* A waiter owns no mutex, so it has its own priority.
LEMMA WaiterOwnsNone ==
    ASSUME MutexInv, LendsInv, NEW m \in WaitList, NEW t \in Range(k.wait[m])
    PROVE  t \in Thread /\ OwnsNone(t) /\ k.prio[t] = InitPriority[t]
<1>1. t \in Thread /\ pc[t] \in InCall
  BY MutexFacts
<1>2. on[t] = m /\ owner[m] # t
  BY DEF MutexInv, WaitersCall
<1>3. OwnsNone(t)
  BY <1>1, <1>2 DEF LendsInv, OneAtATime, OwnsNone
<1>. QED
  BY <1>1, <1>3 DEF LendsInv, OwnPriorities

\* A thread that may take one more mutex owns none.
LEMMA TakerOwnsNone ==
    ASSUME MutexInv, LendsInv, HOLDS_MAX = 1, NEW t \in Thread, NEW m \in WaitList,
           MayTake(t, m), owner[m] # t
    PROVE  OwnsNone(t) /\ k.prio[t] = InitPriority[t]
<1>. DEFINE mine == {n \in WaitList : held[t][n] > 0}
<1>1. pc[t] = "run" /\ obj[m] = "live"
  BY CallerFacts DEF MayTake
<1>2. mine = {}
  <2>1. held[t][m] = 0
    BY <1>1 DEF MutexInv, HoldersOwn
  <2>2. Cardinality(mine) < 1
    BY <2>1 DEF MayTake
  <2>3. IsFiniteSet(mine) /\ Cardinality(mine) \in Nat
    BY MutexConstants, FS_Subset, FS_CardinalityType
  <2>4. Cardinality(mine) = 0
    BY <2>2, <2>3
  <2>. QED
    BY <2>3, <2>4, FS_EmptySet
<1>3. ASSUME NEW n \in WaitList, obj[n] = "live", owner[n] = t
      PROVE  FALSE
  <2>1. held[t][n] = hold[n] /\ hold[n] \in 1 .. HOLD_MAX
    BY <1>1, <1>3, OwnerHolds
  <2>2. held[t][n] > 0
    BY <2>1
  <2>. QED
    BY <1>2, <2>2
<1>4. OwnsNone(t)
  BY <1>3 DEF OwnsNone
<1>. QED
  BY <1>4 DEF LendsInv, OwnPriorities

\* Where nobody's priority and no ownership changes and nobody begins to wait.
LEMMA LendsKept ==
    ASSUME LendsInv, k'.prio = k.prio, UNCHANGED <<owner, original, obj>>,
           \A m \in WaitList : /\ Range(k'.wait[m]) \subseteq Range(k.wait[m])
                               /\ Sorted(InitPriority, k'.wait[m]),
           \A t \in Thread : pc'[t] \in InCall => pc[t] \in InCall /\ on'[t] = on[t],
           \A t \in Thread : pc'[t] \in DetachSteps /\ owner[on'[t]] = t =>
              k.prio[t] = InitPriority[t]
    PROVE  LendsInv'
<1>1. OwnPriorities'
  BY DEF LendsInv, OwnPriorities, OwnsNone
<1>2. OneAtATime'
  BY DEF LendsInv, OneAtATime
<1>3. DetacherOwnPriority'
  BY DEF DetacherOwnPriority
<1>4. WaitersSorted' /\ InheritsPriority'
  BY DEF LendsInv, WaitersSorted, InheritsPriority
<1>. QED
  BY <1>1, <1>2, <1>3, <1>4 DEF LendsInv

\* A list that loses a waiter stays sorted.
LEMMA SortedWithout ==
    ASSUME NEW s \in Seq(Thread), Sorted(InitPriority, s), NEW t
    PROVE  Sorted(InitPriority, RemoveFirst(s, t))
  BY RemoveFirstSublist DEF Sublist, Sorted

\* The first waiter is one of the highest priority.
LEMMA FirstIsHighest ==
    ASSUME NEW s \in Seq(Thread), Sorted(InitPriority, s), NEW t \in Range(s)
    PROVE  InitPriority[Head(s)] <= InitPriority[t]
<1>1. PICK i \in DOMAIN s : s[i] = t
  BY DEF Range
<1>2. DOMAIN s = 1 .. Len(s) /\ Len(s) \in Nat
  BY LenProperties
<1>3. 1 \in DOMAIN s /\ 1 <= i /\ Head(s) = s[1]
  BY <1>1, <1>2
<1>. QED
  BY <1>1, <1>3 DEF Sorted

\* Calls that change a result or a count only.
LEMMA CountsKeepLends ==
    ASSUME MutexInv, LendsInv, NEW t \in Thread,
           \/ \E m \in WaitList : \/ TakeAgain(t, m) \/ TakeFails(t, m)
                                  \/ ReleaseFails(t, m) \/ ReleaseInner(t, m)
           \/ TakeReturn(t)
    PROVE  /\ LendsInv'
           /\ k'.stat = k.stat /\ k'.prio = k.prio /\ k'.wait = k.wait /\ k'.cur = k.cur
           /\ k.cur = t /\ pc[t] \in {"run", "woken"}
<1>1. /\ t = k.cur /\ pc[t] \in {"run", "woken"}
      /\ k' = k \/ \E e : k' = WithError(k, t, e)
      /\ pc' = pc \/ pc' = [pc EXCEPT ![t] = "run"]
      /\ UNCHANGED <<owner, original, obj, on>>
  BY DEF TakeAgain, TakeFails, ReleaseFails, ReleaseInner, TakeReturn, MayTake, MayUse, Calls,
         Continues, Executes, Goto, ResetError, WithError, mutexVars
<1>2. k'.stat = k.stat /\ k'.prio = k.prio /\ k'.wait = k.wait /\ k'.cur = k.cur
  BY <1>1, MutexFacts DEF WithError, KernelState
<1>3. \A u \in Thread : /\ pc'[u] \in InCall => pc[u] \in InCall
                        /\ pc'[u] \in DetachSteps => pc[u] \in DetachSteps
  BY <1>1 DEF MutexInv, Types, InCall, DetachSteps
<1>4. \A m \in WaitList : Sorted(InitPriority, k'.wait[m])
  BY <1>2 DEF LendsInv, WaitersSorted
<1>5. \A u \in Thread : pc'[u] \in DetachSteps /\ owner[on'[u]] = u => k.prio[u] = InitPriority[u]
  BY <1>1, <1>3 DEF LendsInv, DetacherOwnPriority
<1>. QED
  BY <1>1, <1>2, <1>3, <1>4, <1>5, LendsKept

\* A free mutex is taken by a thread that owned none.
LEMMA TakeFreeLends ==
    ASSUME MutexInv, LendsInv, HOLDS_MAX = 1, NEW t \in Thread, NEW m \in WaitList, TakeFree(t, m)
    PROVE  /\ LendsInv'
           /\ k'.stat = k.stat /\ k'.prio = k.prio /\ k'.wait = k.wait /\ k'.cur = k.cur
           /\ k.cur = t /\ pc[t] = "run"
<1>1. /\ MayTake(t, m) /\ MayUse(t, m) /\ owner[m] # t /\ value[m] > 0
      /\ owner' = [owner EXCEPT ![m] = t] /\ original' = [original EXCEPT ![m] = k.prio[t]]
      /\ k' = WithError(k, t, EOK)
      /\ UNCHANGED <<pc, obj, on>>
  BY DEF TakeFree, GiveTo, MayTake, ResetError, WithError
<1>2. /\ t = k.cur /\ pc[t] = "run" /\ obj[m] = "live"
      /\ \A u \in Thread : pc[u] \in DetachSteps => on[u] # m
  BY <1>1, CallerFacts
<1>3. k'.stat = k.stat /\ k'.prio = k.prio /\ k'.wait = k.wait /\ k'.cur = k.cur
  BY <1>1, MutexFacts DEF WithError, KernelState
<1>4. owner[m] = Nobody /\ Range(k.wait[m]) = {} /\ Nobody \notin Thread
  BY <1>1, <1>2, FreeMutex, MutexFacts, MutexConstants
<1>5. OwnsNone(t) /\ k.prio[t] = InitPriority[t]
  BY <1>1, TakerOwnsNone
<1>6. \A n \in WaitList : /\ owner'[n] = IF n = m THEN t ELSE owner[n]
                          /\ original'[n] = IF n = m THEN k.prio[t] ELSE original[n]
  BY <1>1 DEF MutexInv, Types
<1>7. OwnPriorities'
  <2>1. ASSUME NEW u \in Thread, OwnsNone(u)' PROVE OwnsNone(u)
    BY <1>1, <1>4, <1>6, <2>1 DEF OwnsNone
  <2>2. \A u \in Thread : OwnsNone(u)' => k'.prio[u] = InitPriority[u]
    BY <1>3, <2>1 DEF LendsInv, OwnPriorities
  <2>3. \A n \in WaitList :
          obj'[n] = "live" /\ owner'[n] # Nobody => original'[n] = InitPriority[owner'[n]]
    BY <1>1, <1>5, <1>6 DEF LendsInv, OwnPriorities
  <2>. QED
    BY <2>2, <2>3 DEF OwnPriorities
<1>8. OneAtATime'
  <2>1. \A n \in WaitList : obj[n] = "live" => owner[n] # t
    BY <1>5 DEF OwnsNone
  <2>2. \A u \in Thread : pc[u] \in InCall => u # t
    BY <1>2 DEF InCall
  <2>. QED
    BY <1>1, <1>6, <2>1, <2>2 DEF LendsInv, OneAtATime
<1>9. DetacherOwnPriority'
  <2>1. \A u \in Thread : pc[u] \in DetachSteps => on[u] \in WaitList /\ on[u] # m
    BY <1>2 DEF MutexInv, Types
  <2>. QED
    BY <1>1, <1>3, <1>6, <2>1 DEF LendsInv, DetacherOwnPriority
<1>10. WaitersSorted' /\ InheritsPriority'
  BY <1>3, <1>4, <1>6 DEF LendsInv, WaitersSorted, InheritsPriority
<1>. QED
  BY <1>2, <1>3, <1>7, <1>8, <1>9, <1>10 DEF LendsInv

\* The one who has to wait owns no mutex, and lends its priority to the owner
\* of this one.
LEMMA TakeWaitsLends ==
    ASSUME MutexInv, LendsInv, HOLDS_MAX = 1, Flag = PRIO,
           NEW t \in Thread, NEW m \in WaitList, TakeWaits(t, m)
    PROVE  LendsInv' /\ k'.cur = t /\ pc'[t] = "wait"
<1>. DEFINE j == Boost(k, t, m)
            o == owner[m]
<1>1. /\ MayTake(t, m) /\ MayUse(t, m) /\ o # t /\ value[m] = 0
      /\ pc' = [pc EXCEPT ![t] = "wait"] /\ on' = [on EXCEPT ![t] = m]
      /\ UNCHANGED <<owner, original, obj>>
  BY DEF TakeWaits, MayTake, Goto, mutexVars
<1>2. PICK time \in Times \ {0} : k' = Block(j, m, t, Flag, time)
  BY DEF TakeWaits
<1>3. /\ t = k.cur /\ t # Idle /\ pc[t] = "run" /\ obj[m] = "live" /\ k.stat[t] = READY
      /\ \A u \in Thread : pc[u] \in DetachSteps => on[u] # m
      /\ \A n \in WaitList : t \notin Range(k.wait[n])
  BY <1>1, CallerFacts
<1>4. /\ KernelWaits(j) /\ j.stat = k.stat /\ j.wait = k.wait /\ j.cur = k.cur
      /\ j.prio = IF k.prio[t] < k.prio[o] THEN [k.prio EXCEPT ![o] = k.prio[t]] ELSE k.prio
      /\ o \in Thread /\ o # Nobody
  BY <1>1, TakenByAnother, BoostOnly
<1>. HIDE DEF j
<1>5. time \in Int
  BY MutexConstants, KernelConstants DEF WAITING_FOREVER, HALF_RANGE
<1>6. Blocks(j, k', m, t, Flag, time)
  BY <1>2, <1>3, <1>4, <1>5, BlockBlocks
<1>7. /\ k'.prio = j.prio /\ k'.cur = t
      /\ \A n \in WaitList : Range(k'.wait[n]) = Range(k.wait[n]) \cup (IF n = m THEN {t} ELSE {})
  BY <1>3, <1>4, <1>6 DEF Blocks
<1>8. OwnsNone(t) /\ k.prio[t] = InitPriority[t]
  BY <1>1, TakerOwnsNone
<1>9. /\ \A u \in Thread : u # o => k'.prio[u] = k.prio[u]
      /\ k'.prio[o] <= k.prio[o] /\ k'.prio[o] <= k.prio[t]
      /\ \A u \in Thread : k'.prio[u] \in Int /\ k.prio[u] \in Int
  <2>1. /\ k.prio \in [Thread -> Priority] /\ Priority \subseteq Int
    BY MutexFacts, KernelConstants DEF Priority
  <2>2. /\ o \in Thread /\ k.prio[t] \in Int /\ k.prio[o] \in Int
        /\ \A u \in Thread : k.prio[u] \in Int
    BY <1>4, <2>1
  <2>. HIDE DEF o
  <2>3. CASE k.prio[t] < k.prio[o]
    <3>1. k'.prio = [k.prio EXCEPT ![o] = k.prio[t]]
      BY <1>4, <1>7, <2>3 DEF o
    <3>2. k'.prio[o] = k.prio[t] /\ \A u \in Thread : u # o => k'.prio[u] = k.prio[u]
      BY <2>1, <2>2, <3>1
    <3>3. k'.prio[o] <= k.prio[o] /\ k'.prio[o] <= k.prio[t]
      BY <2>2, <2>3, <3>2
    <3>4. \A u \in Thread : k'.prio[u] \in Int
      BY <2>2, <3>2
    <3>. QED
      BY <2>2, <3>2, <3>3, <3>4
  <2>4. CASE ~(k.prio[t] < k.prio[o])
    <3>1. k'.prio = k.prio
      BY <1>4, <1>7, <2>4 DEF o
    <3>2. k.prio[o] <= k.prio[o] /\ k.prio[o] <= k.prio[t]
      BY <2>2, <2>4
    <3>. QED
      BY <2>2, <3>1, <3>2
  <2>. QED
    BY <2>3, <2>4
<1>10. /\ pc'[t] = "wait" /\ on'[t] = m
       /\ \A u \in Thread \ {t} : pc'[u] = pc[u] /\ on'[u] = on[u]
  BY <1>1 DEF MutexInv, Types
<1>. HIDE DEF o
<1>11. OwnPriorities'
  <2>1. ASSUME NEW u \in Thread, OwnsNone(u)' PROVE OwnsNone(u) /\ u # o
    BY <1>1, <1>3, <2>1 DEF OwnsNone, o
  <2>2. \A u \in Thread : OwnsNone(u)' => k'.prio[u] = InitPriority[u]
    BY <1>9, <2>1 DEF LendsInv, OwnPriorities
  <2>. QED
    BY <1>1, <2>2 DEF LendsInv, OwnPriorities
<1>12. OneAtATime'
  BY <1>1, <1>8, <1>10 DEF LendsInv, OneAtATime, OwnsNone
<1>13. DetacherOwnPriority'
  <2>1. ASSUME NEW u \in Thread, pc'[u] \in DetachSteps, owner'[on'[u]] = u
        PROVE  k'.prio[u] = InitPriority[u]
    <3>1. u # t /\ pc[u] \in DetachSteps /\ owner[on[u]] = u /\ on[u] \in WaitList /\ on[u] # m
      BY <1>1, <1>3, <1>10, <2>1 DEF DetachSteps, MutexInv, Types
    <3>2. obj[on[u]] = "live"
      BY <3>1 DEF MutexInv, DetachExact
    <3>3. u # o
      BY <1>3, <1>4, <3>1, <3>2 DEF LendsInv, OneAtATime, o
    <3>. QED
      BY <1>9, <3>1, <3>3 DEF LendsInv, DetacherOwnPriority
  <2>. QED
    BY <2>1 DEF DetacherOwnPriority
<1>14. WaitersSorted'
  <2>1. PICK i \in 1 .. Len(k.wait[m]) + 1 :
          /\ LinkedAt(j, m, t, Flag, i) /\ k'.wait = [k.wait EXCEPT ![m] = InsertAt(@, i, t)]
    BY <1>4, <1>6 DEF Blocks
  <2>. DEFINE s == k.wait[m]
  <2>2. /\ s \in Seq(Thread) /\ Sorted(InitPriority, s) /\ InitPriority \in [Thread -> Int]
        /\ Len(s) \in Nat /\ DOMAIN s = 1 .. Len(s)
    BY MutexFacts, KernelConstants, LenProperties DEF LendsInv, WaitersSorted, Priority
  <2>3. \A n \in 1 .. Len(s) :
          s[n] \in Thread /\ j.prio[s[n]] = InitPriority[s[n]] /\ j.prio[t] = InitPriority[t]
    <3>1. ASSUME NEW n \in 1 .. Len(s)
          PROVE  s[n] \in Thread /\ k.prio[s[n]] = InitPriority[s[n]] /\ s[n] # o
      <4>1. s[n] \in Range(k.wait[m])
        BY <2>2 DEF Range
      <4>. QED
        BY <1>3, <4>1, WaiterOwnsNone DEF OwnsNone, o
    <3>. QED
      BY <1>1, <1>7, <1>8, <1>9, <3>1 DEF o
  <2>. HIDE DEF s
  <2>4. /\ \A n \in 1 .. i - 1 : InitPriority[s[n]] <= InitPriority[t]
        /\ \A n \in i .. Len(s) : InitPriority[t] <= InitPriority[s[n]]
    <3>1. /\ \A n \in 1 .. i - 1 : ~(j.prio[t] < j.prio[s[n]])
          /\ i \in 1 .. Len(s) => j.prio[t] < j.prio[s[i]]
          /\ i \in 1 .. Len(s) + 1
      BY <1>4, <2>1 DEF LinkedAt, s
    <3>2. \A n \in 1 .. Len(s) : InitPriority[s[n]] \in Int /\ InitPriority[t] \in Int
      BY <2>2, <2>3
    <3>3. ASSUME NEW n \in 1 .. i - 1 PROVE InitPriority[s[n]] <= InitPriority[t]
      <4>1. n \in 1 .. Len(s)
        BY <2>2, <3>1
      <4>. QED
        BY <2>3, <3>1, <3>2, <4>1
    <3>4. ASSUME NEW n \in i .. Len(s) PROVE InitPriority[t] <= InitPriority[s[n]]
      <4>1. i \in 1 .. Len(s) /\ n \in 1 .. Len(s) /\ i <= n
        BY <2>2, <3>1
      <4>2. InitPriority[t] <= InitPriority[s[i]]
        BY <2>3, <3>1, <3>2, <4>1
      <4>3. InitPriority[s[i]] <= InitPriority[s[n]]
        BY <2>2, <4>1 DEF Sorted
      <4>4. InitPriority[t] \in Int /\ InitPriority[s[i]] \in Int /\ InitPriority[s[n]] \in Int
        BY <3>2, <4>1
      <4>. QED
        BY <4>2, <4>3, <4>4
    <3>. QED
      BY <3>3, <3>4
  <2>5. Sorted(InitPriority, InsertAt(s, i, t))
    BY <2>1, <2>2, <2>4, InsertAtSorted DEF s
  <2>6. \A n \in WaitList : k'.wait[n] = IF n = m THEN InsertAt(s, i, t) ELSE k.wait[n]
    BY <2>1, MutexFacts DEF s
  <2>. QED
    BY <2>5, <2>6 DEF LendsInv, WaitersSorted
<1>15. InheritsPriority'
  <2>1. ASSUME NEW n \in WaitList, NEW u \in Range(k.wait[n])
        PROVE  k'.prio[owner'[n]] <= k'.prio[u]
    <3>1. u \in Thread /\ u # o /\ k'.prio[u] = k.prio[u]
      BY <1>3, <1>9, WaiterOwnsNone DEF OwnsNone, o
    <3>2. k.prio[owner[n]] <= k.prio[u] /\ owner[n] \in Thread
      <4>1. k.wait[n] # << >>
        BY MutexFacts
      <4>. QED
        BY <4>1, WaitersOwned DEF LendsInv, InheritsPriority
    <3>3. k'.prio[owner[n]] <= k.prio[owner[n]]
      BY <1>9, <3>2
    <3>4. k'.prio[owner[n]] \in Int /\ k.prio[owner[n]] \in Int /\ k.prio[u] \in Int
      BY <1>9, <3>1, <3>2
    <3>5. k'.prio[owner[n]] <= k.prio[u]
      BY <3>2, <3>3, <3>4
    <3>. QED
      BY <1>1, <3>1, <3>5
  <2>2. k'.prio[owner'[m]] <= k'.prio[t]
    BY <1>1, <1>9 DEF o
  <2>3. \A n \in WaitList : \A u \in Range(k'.wait[n]) : u \in Range(k.wait[n]) \/ (n = m /\ u = t)
    BY <1>7
  <2>. QED
    BY <2>1, <2>2, <2>3 DEF InheritsPriority
<1>. QED
  BY <1>7, <1>10, <1>11, <1>12, <1>13, <1>14, <1>15 DEF LendsInv

\* The last release gives the owner its own priority back.
LEMMA OwnerRestored ==
    ASSUME MutexInv, LendsInv, NEW t \in Thread, NEW m \in WaitList, ReleaseLast(t, m)
    PROVE  LET j == Restore(t, m)
           IN  /\ KernelWaits(j) /\ j.stat = k.stat /\ j.wait = k.wait /\ j.cur = k.cur
               /\ j.prio[t] = InitPriority[t]
               /\ \A u \in Thread : u # t => j.prio[u] = k.prio[u]
               /\ t = k.cur /\ pc[t] = "run" /\ owner[m] = t /\ obj[m] = "live" /\ t # Nobody
               /\ \A u \in Thread : pc[u] \in DetachSteps => on[u] # m
               /\ \A n \in WaitList : t \notin Range(k.wait[n])
               /\ \A n \in WaitList : n # m /\ obj[n] = "live" => owner[n] # t
<1>. DEFINE j == Restore(t, m)
<1>1. MayUse(t, m) /\ owner[m] = t
  BY DEF ReleaseLast
<1>2. /\ t = k.cur /\ pc[t] = "run" /\ obj[m] = "live" /\ t # Nobody
      /\ \A u \in Thread : pc[u] \in DetachSteps => on[u] # m
      /\ \A n \in WaitList : t \notin Range(k.wait[n])
  BY <1>1, CallerFacts, MutexConstants
<1>3. /\ KernelWaits(j) /\ j.stat = k.stat /\ j.wait = k.wait /\ j.cur = k.cur
      /\ j.prio = [k.prio EXCEPT ![t] = original[m]]
  BY <1>1, <1>2, RestoreOnly
<1>4. original[m] = InitPriority[t]
  BY <1>1, <1>2 DEF LendsInv, OwnPriorities
<1>5. \A n \in WaitList : n # m /\ obj[n] = "live" => owner[n] # t
  BY <1>1, <1>2 DEF LendsInv, OneAtATime
<1>. HIDE DEF j
<1>6. j.prio[t] = InitPriority[t] /\ \A u \in Thread : u # t => j.prio[u] = k.prio[u]
  BY <1>3, <1>4, MutexFacts
<1>. QED
  BY <1>1, <1>2, <1>3, <1>5, <1>6 DEF j

\* It frees the mutex, or the first waiter owns it and needs no loan.
LEMMA ReleaseLends ==
    ASSUME MutexInv, LendsInv, NEW t \in Thread, NEW m \in WaitList, ReleaseLast(t, m)
    PROVE  /\ LendsInv' /\ k'.cur = t
           /\ k.wait[m] = << >> => k'.wait = k.wait
           /\ k.wait[m] # << >> => pc'[t] = "sched"
<1>. DEFINE j == Restore(t, m)
            h == Head(k.wait[m])
            handed == k.wait[m] # << >>
            new == IF handed THEN h ELSE Nobody
            back == IF handed THEN k.prio[h] ELSE NO_PRIORITY
<1>1. /\ KernelWaits(j) /\ j.stat = k.stat /\ j.wait = k.wait /\ j.cur = k.cur
      /\ j.prio[t] = InitPriority[t] /\ \A u \in Thread : u # t => j.prio[u] = k.prio[u]
      /\ t = k.cur /\ pc[t] = "run" /\ owner[m] = t /\ obj[m] = "live" /\ t # Nobody
      /\ \A u \in Thread : pc[u] \in DetachSteps => on[u] # m
      /\ \A n \in WaitList : t \notin Range(k.wait[n])
      /\ \A n \in WaitList : n # m /\ obj[n] = "live" => owner[n] # t
  BY OwnerRestored
<1>. HIDE DEF j
<1>2. /\ handed => k' = rt_ipc_list_resume(j, m) /\ pc' = [pc EXCEPT ![t] = "sched"]
      /\ ~handed => k' = j /\ pc' = pc
      /\ owner' = [owner EXCEPT ![m] = new] /\ original' = [original EXCEPT ![m] = back]
      /\ UNCHANGED <<obj, on>>
  BY DEF ReleaseLast, GiveTo, Goto, j
<1>3. handed => /\ h \in Range(k.wait[m]) /\ h \in Thread /\ h # t /\ h # Nobody
                /\ OwnsNone(h) /\ k.prio[h] = InitPriority[h] /\ on[h] = m
  <2>1. SUFFICES ASSUME handed
                 PROVE  /\ h \in Range(k.wait[m]) /\ h \in Thread /\ h # t /\ h # Nobody
                        /\ OwnsNone(h) /\ k.prio[h] = InitPriority[h] /\ on[h] = m
    OBVIOUS
  <2>2. h \in Range(k.wait[m]) /\ h \in Thread /\ h # t
    BY <1>1, <2>1, WaitersOwned
  <2>3. OwnsNone(h) /\ k.prio[h] = InitPriority[h]
    BY <2>2, WaiterOwnsNone
  <2>. QED
    BY <2>2, <2>3, MutexConstants DEF MutexInv, WaitersCall
<1>4. /\ k'.prio = j.prio /\ k'.cur = t
      /\ handed => k'.wait = WithoutWaiter(k, h)
      /\ ~handed => k'.wait = k.wait
  <2>1. CASE handed
    <3>1. Wakes(j, k', h, EOK) /\ k'.cur = j.cur
      BY <1>1, <1>2, <2>1, HeadWakes
    <3>. QED
      BY <1>1, <2>1, <3>1 DEF Wakes, WithoutWaiter
  <2>2. CASE ~handed
    BY <1>1, <1>2, <2>2
  <2>. QED
    BY <2>1, <2>2
<1>5. \A n \in WaitList : /\ owner'[n] = IF n = m THEN new ELSE owner[n]
                          /\ original'[n] = IF n = m THEN back ELSE original[n]
  BY <1>2 DEF MutexInv, Types
<1>6. /\ \A n \in WaitList : /\ Range(k'.wait[n]) \subseteq Range(k.wait[n])
                             /\ Sorted(InitPriority, k'.wait[n])
      /\ handed => \A u \in Range(k'.wait[m]) : u # h
  <2>1. /\ k.wait \in [WaitList -> Seq(Thread)]
        /\ \A n \in WaitList : Sorted(InitPriority, k.wait[n]) /\ IsInjective(k.wait[n])
    BY MutexFacts DEF LendsInv, WaitersSorted, KernelWaits, WaitsExact
  <2>2. CASE handed
    <3>1. \A n \in WaitList : k'.wait[n] = RemoveFirst(k.wait[n], h)
      BY <1>4, <2>2 DEF WithoutWaiter
    <3>2. \A n \in WaitList : /\ Range(RemoveFirst(k.wait[n], h)) = Range(k.wait[n]) \ {h}
                              /\ Sorted(InitPriority, RemoveFirst(k.wait[n], h))
      BY <2>1, RemoveFirstOnce, SortedWithout
    <3>. QED
      BY <3>1, <3>2
  <2>3. CASE ~handed
    BY <1>4, <2>1, <2>3
  <2>. QED
    BY <2>2, <2>3
<1>7. /\ \A u \in Thread : (pc'[u] \in InCall <=> pc[u] \in InCall) /\ (pc[u] \in InCall => u # t)
      /\ \A u \in Thread : pc'[u] \in DetachSteps => pc[u] \in DetachSteps /\ u # t
      /\ handed => pc'[t] = "sched"
  BY <1>1, <1>2 DEF MutexInv, Types, InCall, DetachSteps
<1>8. new # Nobody => handed /\ new = h
  OBVIOUS
<1>9. OwnPriorities'
  <2>1. ASSUME NEW u \in Thread, OwnsNone(u)', u # t PROVE OwnsNone(u)
    BY <1>1, <1>2, <1>5, <2>1 DEF OwnsNone
  <2>2. \A u \in Thread : OwnsNone(u)' => k'.prio[u] = InitPriority[u]
    BY <1>1, <1>4, <2>1 DEF LendsInv, OwnPriorities
  <2>3. \A n \in WaitList :
          obj'[n] = "live" /\ owner'[n] # Nobody => original'[n] = InitPriority[owner'[n]]
    <3>1. new # Nobody => back = InitPriority[new]
      BY <1>3, <1>8
    <3>. HIDE DEF new, back
    <3>. QED
      BY <1>2, <1>5, <3>1 DEF LendsInv, OwnPriorities
  <2>. QED
    BY <2>2, <2>3 DEF OwnPriorities
<1>10. OneAtATime'
  <2>1. new # Nobody => \A n \in WaitList : obj[n] = "live" => owner[n] # new
    BY <1>3, <1>8 DEF OwnsNone
  <2>2. \A u \in Thread : pc[u] \in InCall /\ u = new /\ new # Nobody => on[u] = m
    BY <1>3, <1>8
  <2>3. \A u \in Thread : u # Nobody
    BY MutexConstants
  <2>. HIDE DEF new
  <2>4. \A a, b \in WaitList :
          /\ obj[a] = "live" /\ obj[b] = "live" /\ owner'[a] = owner'[b] /\ owner'[a] # Nobody
          => a = b
    BY <1>5, <2>1 DEF LendsInv, OneAtATime
  <2>5. \A u \in Thread : pc'[u] \in InCall =>
          \A n \in WaitList : obj[n] = "live" /\ owner'[n] = u => n = on[u]
    BY <1>5, <1>7, <2>2, <2>3 DEF LendsInv, OneAtATime
  <2>. QED
    BY <1>2, <2>4, <2>5 DEF OneAtATime
<1>11. DetacherOwnPriority'
  <2>1. \A u \in Thread : pc'[u] \in DetachSteps => on[u] \in WaitList /\ on[u] # m /\ u # t
    BY <1>1, <1>7 DEF MutexInv, Types
  <2>. QED
    BY <1>1, <1>2, <1>4, <1>5, <1>7, <2>1 DEF LendsInv, DetacherOwnPriority
<1>12. InheritsPriority'
  <2>1. ASSUME NEW n \in WaitList, NEW u \in Range(k'.wait[n]) PROVE k'.prio[owner'[n]] <= k'.prio[u]
    <3>1. u \in Range(k.wait[n]) /\ u \in Thread /\ u # t /\ k.prio[u] = InitPriority[u]
      BY <1>1, <1>6, <2>1, WaiterOwnsNone
    <3>2. k'.prio[u] = k.prio[u]
      BY <1>1, <1>4, <3>1
    <3>3. k.wait[n] # << >> /\ obj[n] = "live" /\ owner[n] \in Thread
      BY <3>1, MutexFacts, WaitersOwned
    <3>4. CASE n # m
      <4>1. owner'[n] = owner[n] /\ owner[n] # t
        BY <1>1, <1>5, <3>3, <3>4
      <4>2. k'.prio[owner[n]] = k.prio[owner[n]]
        BY <1>1, <1>4, <3>3, <4>1
      <4>. QED
        BY <3>1, <3>2, <4>1, <4>2 DEF LendsInv, InheritsPriority
    <3>5. CASE n = m
      <4>1. handed /\ owner'[n] = h /\ h \in Thread /\ h # t /\ k.prio[h] = InitPriority[h]
        BY <1>3, <1>5, <3>3, <3>5
      <4>2. k'.prio[h] = InitPriority[h]
        BY <1>1, <1>4, <4>1
      <4>3. InitPriority[h] <= InitPriority[u]
        BY <3>1, <3>5, MutexFacts, FirstIsHighest DEF LendsInv, WaitersSorted
      <4>. QED
        BY <3>1, <3>2, <4>1, <4>2, <4>3
    <3>. QED
      BY <3>4, <3>5
  <2>. QED
    BY <2>1 DEF InheritsPriority
<1>. QED
  BY <1>4, <1>6, <1>7, <1>9, <1>10, <1>11, <1>12 DEF LendsInv, WaitersSorted

\* A detach begins without a loan to the one who detaches.
LEMMA DetachBeginsLends ==
    ASSUME Disciplined, MutexInv, LendsInv, NEW t \in Thread, NEW m \in WaitList,
           rt_mutex_detach(t, m)
    PROVE  LendsInv' /\ k' = k /\ t = k.cur /\ pc'[t] \in DetachSteps
<1>. DEFINE at == LoopTest(m)
<1>1. /\ MayUse(t, m) /\ (owner[m] = t => original[m] = k.prio[t])
      /\ on' = [on EXCEPT ![t] = m] /\ pc' = [pc EXCEPT ![t] = at]
      /\ UNCHANGED <<k, owner, original, obj>>
  BY DEF rt_mutex_detach, Goto, mutexVars
<1>2. t = k.cur /\ pc[t] = "run" /\ obj[m] = "live" /\ at \in DetachSteps /\ at \notin InCall
  BY <1>1, CallerFacts DEF LoopTest, DetachSteps, InCall
<1>. HIDE DEF at
<1>3. /\ pc'[t] = at /\ on'[t] = m
      /\ \A u \in Thread \ {t} : pc'[u] = pc[u] /\ on'[u] = on[u]
  BY <1>1 DEF MutexInv, Types
<1>4. owner[m] = t => k.prio[t] = InitPriority[t]
  BY <1>1, <1>2, MutexConstants DEF LendsInv, OwnPriorities
<1>5. \A u \in Thread : pc'[u] \in DetachSteps /\ owner[on'[u]] = u => k.prio[u] = InitPriority[u]
  BY <1>3, <1>4 DEF LendsInv, DetacherOwnPriority
<1>6. \A u \in Thread : pc'[u] \in InCall => pc[u] \in InCall /\ on'[u] = on[u]
  BY <1>2, <1>3
<1>7. LendsInv'
  BY <1>1, <1>5, <1>6, LendsKept DEF LendsInv, WaitersSorted
<1>. QED
  BY <1>1, <1>2, <1>3, <1>7

\* The loop of the detach lends nothing, and its end releases the mutex.
LEMMA DetachLends ==
    ASSUME MutexInv, LendsInv, NEW t \in Thread, DetachTest(t) \/ DetachWake(t) \/ DetachObject(t)
    PROVE  /\ LendsInv' /\ k'.cur = k.cur /\ t = k.cur
           /\ pc'[t] \in DetachSteps \/ (k' = k /\ pc'[t] = "run" /\ k.wait[on[t]] = << >>)
<1>. DEFINE m == on[t]
            h == Head(k.wait[m])
<1>1. /\ t = k.cur /\ pc[t] \in DetachSteps /\ UNCHANGED <<owner, original, on>>
      /\ \E at \in DetachSteps \cup {"run"} : pc' = [pc EXCEPT ![t] = at]
      /\ DetachObject(t) => /\ obj' = [obj EXCEPT ![m] = "detached"] /\ k' = k
                            /\ pc[t] = "object" /\ pc' = [pc EXCEPT ![t] = "run"]
      /\ ~DetachObject(t) => /\ obj' = obj /\ \E at \in DetachSteps : pc' = [pc EXCEPT ![t] = at]
      /\ DetachTest(t) => k' = k
      /\ DetachWake(t) => pc[t] = "wake" /\ k' = ResumeWithError(k, h)
  BY DEF DetachTest, DetachWake, DetachObject, Continues, Executes, Goto, LoopTest, DetachSteps,
         mutexVars
<1>2. /\ m \in WaitList /\ obj[m] = "live" /\ owner[m] \in {Nobody, t}
      /\ pc[t] = "object" => k.wait[m] = << >>
      /\ pc[t] = "wake" => k.wait[m] # << >>
  BY <1>1 DEF MutexInv, Types, DetachExact
<1>. HIDE DEF m
<1>3. /\ \A u \in Thread : pc'[u] \in DetachSteps => pc[u] \in DetachSteps
      /\ \A u \in Thread : pc'[u] \in InCall => pc[u] \in InCall
      /\ ~DetachObject(t) => pc'[t] \in DetachSteps
      /\ DetachObject(t) => pc'[t] = "run"
  BY <1>1 DEF MutexInv, Types, InCall, DetachSteps
<1>4. /\ k'.prio = k.prio /\ k'.cur = k.cur
      /\ \A n \in WaitList : /\ Range(k'.wait[n]) \subseteq Range(k.wait[n])
                             /\ Sorted(InitPriority, k'.wait[n])
  <2>1. CASE k' = k
    BY <2>1 DEF LendsInv, WaitersSorted
  <2>2. CASE DetachWake(t)
    <3>1. h \in Thread /\ k.stat[h] = SUSPEND /\ KernelWaits(k)
      BY <1>1, <1>2, <2>2, WaitersOwned, MutexFacts
    <3>2. Wakes(k, k', h, ERROR) /\ k'.cur = k.cur
      <4>1. k' = rt_thread_resume(WithError(k, h, ERROR), h)
        BY <1>1, <2>2 DEF ResumeWithError, WithError
      <4>. QED
        BY <3>1, <4>1, ResumeWakes
    <3>3. \A n \in WaitList : k'.wait[n] = RemoveFirst(k.wait[n], h) /\ k.wait[n] \in Seq(Thread)
      BY <3>2, MutexFacts DEF Wakes, WithoutWaiter
    <3>. HIDE DEF h
    <3>4. \A n \in WaitList : Sorted(InitPriority, k'.wait[n])
      BY <3>3, SortedWithout DEF LendsInv, WaitersSorted
    <3>5. \A n \in WaitList : Range(k'.wait[n]) \subseteq Range(k.wait[n])
      BY <3>3, RemoveFirstSeq
    <3>6. k'.prio = k.prio
      BY <3>2 DEF Wakes
    <3>. QED
      BY <3>2, <3>4, <3>5, <3>6
  <2>. QED
    BY <1>1, <2>1, <2>2
<1>5. CASE ~DetachObject(t)
  <2>1. LendsInv'
    BY <1>1, <1>3, <1>4, <1>5, LendsKept DEF LendsInv, DetacherOwnPriority
  <2>. QED
    BY <1>1, <1>3, <1>4, <1>5, <2>1
<1>6. CASE DetachObject(t)
  <2>1. \A n \in WaitList : obj'[n] = IF n = m THEN "detached" ELSE obj[n]
    BY <1>1, <1>6 DEF MutexInv, Types
  <2>2. OwnPriorities'
    <3>1. ASSUME NEW u \in Thread, OwnsNone(u)' PROVE k.prio[u] = InitPriority[u]
      <4>1. OwnsNone(u) \/ (u = t /\ owner[m] = t)
        <5>1. SUFFICES ASSUME NEW n \in WaitList, obj[n] = "live", owner[n] = u
                       PROVE  u = t /\ owner[m] = t
          BY DEF OwnsNone
        <5>2. n = m
          <6>1. owner' = owner
            BY <1>1
          <6>2. obj'[n] = "live" => owner'[n] # u
            BY <3>1 DEF OwnsNone
          <6>. QED
            BY <2>1, <5>1, <6>1, <6>2
        <5>. QED
          BY <1>2, <5>1, <5>2, MutexConstants
      <4>. QED
        BY <1>1, <4>1 DEF LendsInv, OwnPriorities, DetacherOwnPriority, m
    <3>2. \A n \in WaitList :
            obj'[n] = "live" /\ owner[n] # Nobody => original[n] = InitPriority[owner[n]]
      BY <2>1 DEF LendsInv, OwnPriorities
    <3>. QED
      BY <1>1, <1>4, <1>6, <3>1, <3>2 DEF OwnPriorities
  <2>3. OneAtATime' /\ DetacherOwnPriority' /\ InheritsPriority'
    BY <1>1, <1>3, <1>6, <2>1 DEF LendsInv, OneAtATime, DetacherOwnPriority, InheritsPriority
  <2>. QED
    BY <1>1, <1>2, <1>3, <1>4, <1>6, <2>2, <2>3 DEF LendsInv, WaitersSorted, m
<1>. QED
  BY <1>5, <1>6

\* A mutex that is initialised again is nobody's.
LEMMA InitLends ==
    ASSUME MutexInv, LendsInv, NEW t \in Thread, NEW m \in WaitList, rt_mutex_init(t, m)
    PROVE  LendsInv' /\ k' = k /\ pc' = pc
<1>1. /\ obj[m] = "detached" /\ pc' = pc /\ on' = on
      /\ k' = [k EXCEPT !.wait = [k.wait EXCEPT ![m] = << >>]]
      /\ owner' = [owner EXCEPT ![m] = Nobody] /\ original' = [original EXCEPT ![m] = NO_PRIORITY]
      /\ obj' = [obj EXCEPT ![m] = "live"]
  BY DEF rt_mutex_init
<1>2. k.wait[m] = << >> /\ k \in KernelState /\ Nobody \notin Thread
  BY <1>1, MutexFacts, MutexConstants DEF MutexInv, DetachedMutexIsEmpty
<1>3. k' = k
  <2>1. [k.wait EXCEPT ![m] = << >>] = k.wait
    BY <1>2 DEF KernelState
  <2>. QED
    BY <1>1, <1>2, <2>1 DEF KernelState
<1>4. /\ \A n \in WaitList : /\ owner'[n] = IF n = m THEN Nobody ELSE owner[n]
                             /\ original'[n] = IF n = m THEN NO_PRIORITY ELSE original[n]
                             /\ obj'[n] = IF n = m THEN "live" ELSE obj[n]
      /\ \A u \in Thread : pc[u] \in DetachSteps => on[u] \in WaitList /\ on[u] # m
  BY <1>1 DEF MutexInv, Types, DetachExact
<1>5. OwnPriorities'
  <2>1. \A u \in Thread : OwnsNone(u)' => OwnsNone(u)
    BY <1>1, <1>4 DEF OwnsNone
  <2>. QED
    BY <1>3, <1>4, <2>1 DEF LendsInv, OwnPriorities
<1>6. OneAtATime' /\ DetacherOwnPriority'
  BY <1>1, <1>2, <1>3, <1>4 DEF LendsInv, OneAtATime, DetacherOwnPriority
<1>7. WaitersSorted' /\ InheritsPriority'
  <2>1. Range(k.wait[m]) = {}
    BY <1>2, MutexFacts
  <2>. QED
    BY <1>3, <1>4, <2>1 DEF LendsInv, WaitersSorted, InheritsPriority
<1>. QED
  BY <1>1, <1>3, <1>5, <1>6, <1>7 DEF LendsInv

\* The steps of Blocking lend nothing, and nobody begins to wait.
LEMMA KernelLends ==
    ASSUME MutexInv, LendsInv, BlockingNext, UNCHANGED <<mutexVars, on, held>>
    PROVE  /\ LendsInv'
           /\ \A m \in WaitList : k.wait[m] = << >> => k'.wait[m] = << >>
<1>1. BlockingInv' /\ Quiet
  BY BlockingStep DEF MutexInv
<1>2. /\ k.wait \in [WaitList -> Seq(Thread)]
      /\ \A m \in WaitList : Sorted(InitPriority, k.wait[m])
  BY MutexFacts DEF LendsInv, WaitersSorted
<1>3. \A m \in WaitList : /\ Range(k'.wait[m]) \subseteq Range(k.wait[m])
                          /\ Sorted(InitPriority, k'.wait[m])
  <2>1. CASE NobodyLeaves
    BY <1>2, <2>1 DEF NobodyLeaves
  <2>2. ASSUME NEW t \in Thread, TimesOut(t)
        PROVE  \A m \in WaitList : /\ Range(k'.wait[m]) \subseteq Range(k.wait[m])
                                   /\ Sorted(InitPriority, k'.wait[m])
    <3>1. k'.wait = WithoutWaiter(k, t)
      BY <2>2 DEF TimesOut, Wakes
    <3>2. \A m \in WaitList : k'.wait[m] = RemoveFirst(k.wait[m], t)
      BY <3>1 DEF WithoutWaiter
    <3>. QED
      BY <1>2, <3>2, RemoveFirstSeq, SortedWithout
  <2>. QED
    BY <1>1, <2>1, <2>2 DEF Quiet
<1>4. k'.prio = k.prio /\ \A t \in Thread :
        /\ pc'[t] \in InCall => pc[t] \in InCall
        /\ pc'[t] \in DetachSteps => pc[t] \in DetachSteps
  BY <1>1 DEF Quiet, InCall, DetachSteps
<1>5. UNCHANGED <<owner, original, obj, on>>
  BY DEF mutexVars
<1>6. LendsInv'
  BY <1>3, <1>4, <1>5, LendsKept DEF LendsInv, DetacherOwnPriority
<1>7. ASSUME NEW m \in WaitList, k.wait[m] = << >> PROVE k'.wait[m] = << >>
  <2>1. Range(k'.wait[m]) = {}
    BY <1>3, <1>7, MutexFacts
  <2>. QED
    BY <1>1, <2>1, WaitersAreThreads DEF BlockingInv
<1>. QED
  BY <1>6, <1>7

\* Nobody owns a mutex at the start.
LEMMA LendsStarts ==
    ASSUME Init
    PROVE  LendsInv /\ \A m \in WaitList : k.wait[m] = << >>
<1>1. /\ k.prio = InitPriority /\ pc = [t \in Thread |-> "run"]
      /\ \A m \in WaitList : k.wait[m] = << >>
  BY InitBlocking DEF Init, BlockingInit
<1>2. /\ owner = [m \in WaitList |-> Nobody]
      /\ original = [m \in WaitList |-> NO_PRIORITY]
      /\ obj = [m \in WaitList |-> "live"]
  BY DEF Init
<1>3. \A m \in WaitList : k.wait[m] = << >> /\ Range(k.wait[m]) = {} /\ Sorted(InitPriority, k.wait[m])
  BY <1>1 DEF Range, Sorted
<1>4. OwnPriorities /\ OneAtATime /\ DetacherOwnPriority
  BY <1>1, <1>2, MutexConstants
     DEF OwnPriorities, OwnsNone, OneAtATime, DetacherOwnPriority, InCall, DetachSteps
<1>5. WaitersSorted /\ InheritsPriority
  BY <1>3 DEF WaitersSorted, InheritsPriority
<1>. QED
  BY <1>3, <1>4, <1>5 DEF LendsInv

\* Every step keeps the loans.
LEMMA LendsStep ==
    ASSUME Disciplined, HOLDS_MAX = 1, Flag = PRIO, MutexInv, LendsInv, [Next]_vars
    PROVE  LendsInv'
<1>1. CASE BlockingNext /\ UNCHANGED <<mutexVars, on, held>>
  BY <1>1, KernelLends
<1>2. ASSUME NEW t \in Thread, NEW m \in WaitList, MutexCall(t, m)
      PROVE  LendsInv'
  BY <1>2, CountsKeepLends, TakeFreeLends, TakeWaitsLends, ReleaseLends, DetachBeginsLends,
     InitLends DEF MutexCall
<1>3. ASSUME NEW t \in Thread, TakeReturn(t) \/ DetachWake(t) \/ DetachTest(t) \/ DetachObject(t)
      PROVE  LendsInv'
  BY <1>3, CountsKeepLends, DetachLends
<1>4. CASE UNCHANGED vars
  BY <1>4 DEF vars, mutexVars, LendsInv, OwnPriorities, OwnsNone, OneAtATime, DetacherOwnPriority,
              WaitersSorted, InheritsPriority
<1>. QED
  BY <1>1, <1>2, <1>3, <1>4 DEF Next

\* The loans are what the run checks, but for who runs.
LEMMA LendsHolds ==
    ASSUME LendsInv
    PROVE  InheritsPriority /\ PriorityRestored
  BY DEF LendsInv, OwnPriorities, OwnsNone, PriorityRestored

\* Where a thread runs on and somebody waits, none that is READY has precedence.
\* Without waiters one may: the release of a lent priority does not schedule.
TopUnlessBusy ==
    \/ pc[k.cur] \in {"sched", "wait", "sleep"} \cup DetachSteps
    \/ TopRuns(k)
    \/ \A m \in WaitList : k.wait[m] = << >>

\* It goes on to hold where neither the thread nor the states and the
\* priorities change.
LEMMA TopKept ==
    ASSUME MutexInv, MutexInv', TopUnlessBusy,
           \A m \in WaitList : k.wait[m] = << >> => k'.wait[m] = << >>,
           k'.stat = k.stat, k'.prio = k.prio, k'.cur = k.cur,
           pc[k.cur] \in {"run", "woken", "slept"} \/ pc'[k.cur] = pc[k.cur]
    PROVE  TopUnlessBusy'
<1>1. CASE pc[k.cur] \in {"sched", "wait", "sleep"} \cup DetachSteps
  BY <1>1 DEF TopUnlessBusy, DetachSteps
<1>2. CASE TopRuns(k)
  <2>1. KernelWaits(k) /\ KernelWaits(k')
    BY DEF MutexInv, BlockingInv
  <2>2. TopRuns(k')
    BY <1>2, <2>1, TopSame
  <2>. QED
    BY <2>2 DEF TopUnlessBusy, TopRuns
<1>3. CASE \A m \in WaitList : k.wait[m] = << >>
  BY <1>3 DEF TopUnlessBusy
<1>. QED
  BY <1>1, <1>2, <1>3 DEF TopUnlessBusy

\* With one mutex every step keeps it.
LEMMA TopStep ==
    ASSUME Disciplined, HOLDS_MAX = 1, Flag = PRIO, \A m, n \in WaitList : m = n,
           MutexInv, MutexInv', LendsInv, TopUnlessBusy, [Next]_vars
    PROVE  TopUnlessBusy'
<1>1. CASE BlockingNext /\ UNCHANGED <<mutexVars, on, held>>
  <2>1. \A m \in WaitList : k.wait[m] = << >> => k'.wait[m] = << >>
    BY <1>1, KernelLends
  <2>2. Settles
    BY <1>1, StepSettles DEF MutexInv
  <2>3. CASE TopRuns(k')
    BY <2>3 DEF TopUnlessBusy, TopRuns
  <2>4. CASE k'.cur = k.cur /\ pc'[k.cur] = "sleep"
    BY <2>4 DEF TopUnlessBusy
  <2>5. CASE /\ k'.stat = k.stat /\ k'.prio = k.prio /\ k'.cur = k.cur
             /\ pc'[k.cur] = pc[k.cur] \/ pc[k.cur] = "slept"
    BY <2>1, <2>5, TopKept
  <2>. QED
    BY <2>2, <2>3, <2>4, <2>5 DEF Settles
<1>2. ASSUME NEW t \in Thread, NEW m \in WaitList, MutexCall(t, m)
      PROVE  TopUnlessBusy'
  <2>1. CASE TakeAgain(t, m) \/ TakeFails(t, m) \/ ReleaseFails(t, m) \/ ReleaseInner(t, m)
    BY <2>1, CountsKeepLends, TopKept
  <2>2. CASE TakeFree(t, m)
    BY <2>2, TakeFreeLends, TopKept
  <2>3. CASE TakeWaits(t, m)
    BY <2>3, TakeWaitsLends DEF TopUnlessBusy
  <2>4. CASE ReleaseLast(t, m)
    <3>1. CASE k.wait[m] = << >>
      BY <2>4, <3>1, ReleaseLends DEF TopUnlessBusy
    <3>2. CASE k.wait[m] # << >>
      BY <2>4, <3>2, ReleaseLends DEF TopUnlessBusy
    <3>. QED
      BY <3>1, <3>2
  <2>5. CASE rt_mutex_detach(t, m)
    BY <2>5, DetachBeginsLends DEF TopUnlessBusy
  <2>6. CASE rt_mutex_init(t, m)
    BY <2>6, InitLends, TopKept
  <2>. QED
    BY <1>2, <2>1, <2>2, <2>3, <2>4, <2>5, <2>6 DEF MutexCall
<1>3. ASSUME NEW t \in Thread, TakeReturn(t)
      PROVE  TopUnlessBusy'
  BY <1>3, CountsKeepLends, TopKept
<1>4. ASSUME NEW t \in Thread, DetachWake(t) \/ DetachTest(t) \/ DetachObject(t)
      PROVE  TopUnlessBusy'
  <2>1. /\ k'.cur = k.cur /\ t = k.cur /\ on[t] \in WaitList
        /\ pc'[t] \in DetachSteps \/ (k' = k /\ k.wait[on[t]] = << >>)
    BY <1>4, DetachLends DEF MutexInv, Types
  <2>2. CASE k' = k /\ k.wait[on[t]] = << >>
    <3>1. \A m \in WaitList : k'.wait[m] = << >>
      BY <2>1, <2>2
    <3>. QED
      BY <3>1 DEF TopUnlessBusy
  <2>3. CASE pc'[t] \in DetachSteps
    BY <2>1, <2>3 DEF TopUnlessBusy
  <2>. QED
    BY <2>1, <2>2, <2>3
<1>5. CASE UNCHANGED vars
  BY <1>5 DEF vars, TopUnlessBusy, TopRuns
<1>. QED
  BY <1>1, <1>2, <1>3, <1>4, <1>5 DEF Next

\* Who runs does not run before a waiter whose owner could run.
LEMMA TopHolds ==
    ASSUME MutexInv, LendsInv, TopUnlessBusy
    PROVE  NoInversion
<1>1. SUFFICES ASSUME pc[k.cur] = "run", NEW m \in WaitList, NEW t \in Range(k.wait[m]),
                      k.stat[owner[m]] = READY
               PROVE  k.prio[k.cur] <= k.prio[t]
  BY DEF NoInversion
<1>2. k.wait[m] # << >> /\ owner[m] \in Thread /\ t \in Thread
  BY MutexFacts, WaitersOwned
<1>3. TopRuns(k)
  BY <1>1, <1>2 DEF TopUnlessBusy, DetachSteps
<1>4. k.prio[k.cur] <= k.prio[owner[m]]
  <2>1. KInv(k, {}) /\ owner[m] \in Thread \ {}
    BY <1>2, MutexFacts DEF KernelWaits
  <2>. QED
    BY <1>1, <1>3, <2>1, TopByState
<1>5. k.prio[owner[m]] <= k.prio[t]
  BY DEF LendsInv, InheritsPriority
<1>6. k.prio[k.cur] \in Int /\ k.prio[owner[m]] \in Int /\ k.prio[t] \in Int
  <2>1. k.prio \in [Thread -> Priority] /\ k.cur \in Thread /\ \A p \in Priority : p \in Int
    BY MutexFacts, KernelConstants DEF KernelState, Priority
  <2>. QED
    BY <1>2, <2>1
<1>. QED
  BY <1>4, <1>5, <1>6

\* Priority inheritance for any number of mutexes, while a thread holds one at a
\* time, waiters are served by priority and no lent priority is detached: the owner has the precedence of all
\* who wait for its mutex, whoever joins, gives up or gets the mutex, and who
\* owns none is back at its own priority.
THEOREM LoansAreMadeAndReturned ==
    ASSUME Disciplined, HOLD_MAX < HOLD_RANGE, HOLDS_MAX = 1, Flag = PRIO
    PROVE  Spec => [](InheritsPriority /\ PriorityRestored)
<1>1. Init => MutexInv /\ LendsInv
  BY MutexStarts, LendsStarts
<1>2. MutexInv /\ LendsInv /\ [Next]_vars => MutexInv' /\ LendsInv'
  BY MutexStep, LendsStep
<1>3. LendsInv => InheritsPriority /\ PriorityRestored
  BY LendsHolds
<1>. QED
  BY <1>1, <1>2, <1>3, PTL DEF Spec

\* With one mutex nobody in between runs either: the release that returns a
\* loan and wakes nobody does not schedule, which harms no waiter then.
THEOREM OwnerRunsForItsWaiters ==
    ASSUME Disciplined, HOLD_MAX < HOLD_RANGE, HOLDS_MAX = 1, Flag = PRIO, \A m, n \in WaitList : m = n
    PROVE  Spec => []PriorityInheritance
<1>1. Init => MutexInv /\ LendsInv /\ TopUnlessBusy
  BY MutexStarts, LendsStarts DEF TopUnlessBusy
<1>2. MutexInv /\ LendsInv /\ TopUnlessBusy /\ [Next]_vars => MutexInv' /\ LendsInv' /\ TopUnlessBusy'
  BY MutexStep, LendsStep, TopStep
<1>3. MutexInv /\ LendsInv /\ TopUnlessBusy => PriorityInheritance
  BY LendsHolds, TopHolds DEF PriorityInheritance
<1>. QED
  BY <1>1, <1>2, <1>3, PTL DEF Spec

=============================================================================
