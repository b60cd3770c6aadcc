-------------------------- MODULE SemaphoreProofs ---------------------------
(***************************************************************************)
(* What a semaphore keeps true, for every number of threads, every width   *)
(* of the value and every bound, and that it implements AbstractSemaphore. *)
(***************************************************************************)
EXTENDS Semaphore, BlockingProofs, FiniteSetTheorems

DetachSteps == {"test", "wake", "object"}

\* One thread detaches, a live semaphore without timed waiters, and acts on a
\* test of the suspend list that still holds.
DetachIsAlone ==
    /\ \A t, u \in Thread : pc[t] \in DetachSteps /\ pc[u] \in DetachSteps => t = u
    /\ Detaching => obj = "live" /\ Range(k.timers) \cap Range(k.wait[Sem]) = {}
    /\ \A t \in Thread : /\ pc[t] = "wake" => k.wait[Sem] # << >>
                         /\ pc[t] = "object" => k.wait[Sem] = << >>

\* A caller of rt_sem_take that has left the suspend list is READY.
LeaversAreReady ==
    \A t \in Thread : pc[t] \in InCall => k.stat[t] = READY \/ t \in Range(k.wait[Sem])

\* The history says who waits.
ArrivalsWait ==
    /\ arrival \in Seq(Thread) /\ IsInjective(arrival)
    /\ Range(arrival) = Range(k.wait[Sem])

\* Thread s stands before thread t in the list.
Precedes(list, s, t) == \E m, n \in DOMAIN list : m < n /\ list[m] = s /\ list[n] = t

\* Thread s is to be served before thread t, when they came in this order.
ServedBefore(order, s, t) ==
    IF Flag = PRIO /\ InitPriority[s] # InitPriority[t]
    THEN InitPriority[s] < InitPriority[t]
    ELSE Precedes(order, s, t)

\* The list is in the order in which its threads are to be served.
InServiceOrder(list, order) ==
    \A i, j \in DOMAIN list : i < j => ServedBefore(order, list[i], list[j])

SemaphoreInv ==
    /\ BlockingInv /\ k.prio = InitPriority
    /\ pc \in [Thread -> Steps]
    /\ value \in 0 .. VALUE_RANGE - 1 /\ obj \in {"live", "detached"} /\ balance \in Int
    /\ ArrivalsWait /\ InServiceOrder(k.wait[Sem], arrival)
    /\ LeaversAreReady
    /\ TokensConserved
    /\ NoIdleToken
    /\ DetachedIsEmpty
    /\ DetachIsAlone

\* What every caller is told.
Status == [t \in Thread |-> Told(t)]

-----------------------------------------------------------------------------
(* Tokens *)

\* A number is a multiple of the range of the value exactly if it is so many
\* times the range.
LEMMA MultipleOfRange ==
    ASSUME NEW d \in Int
    PROVE  d % VALUE_RANGE = 0 <=> \E q \in Int : d = VALUE_RANGE * q
<1>1. VALUE_RANGE \in Nat /\ VALUE_RANGE > 0
  BY SemaphoreConstants
<1>2. ASSUME NEW q \in Int, d = VALUE_RANGE * q PROVE d % VALUE_RANGE = 0
  <2>1. d = VALUE_RANGE * q + 0 /\ 0 \in 0 .. VALUE_RANGE - 1
    BY <1>1, <1>2
  <2>. QED
    BY <1>1, <2>1, RemainderOf
<1>3. PICK p \in Int : p = d \div VALUE_RANGE
  BY <1>1
<1>4. PICK r \in Int : r = d % VALUE_RANGE
  BY <1>1
<1>5. d = VALUE_RANGE * p + r
  BY <1>1, <1>3, <1>4
<1>6. r = 0 => d = VALUE_RANGE * p
  BY <1>1, <1>5
<1>7. d % VALUE_RANGE = 0 => d = VALUE_RANGE * p
  BY <1>4, <1>6
<1>. QED
  BY <1>2, <1>7

\* Counting once around the range changes nothing.
LEMMA TokensStep ==
    ASSUME NEW d \in Int, NEW e \in Int, d % VALUE_RANGE = 0, e = d \/ e = d + VALUE_RANGE
    PROVE  e % VALUE_RANGE = 0
<1>1. VALUE_RANGE \in Nat /\ VALUE_RANGE > 0
  BY SemaphoreConstants
<1>2. PICK q \in Int : d = VALUE_RANGE * q
  BY MultipleOfRange
<1>3. CASE e = d + VALUE_RANGE
  <2>1. e = VALUE_RANGE * (q + 1) /\ q + 1 \in Int
    BY <1>1, <1>2, <1>3
  <2>. QED
    BY <2>1, MultipleOfRange
<1>. QED
  BY <1>3

\* A value that is set is so many ranges short of the number it is set to.
LEMMA TokensReset ==
    ASSUME NEW v \in Nat
    PROVE  \E m \in 0 .. VALUE_RANGE - 1 : v % VALUE_RANGE = m /\ (v - m) % VALUE_RANGE = 0
<1>1. VALUE_RANGE \in Nat /\ VALUE_RANGE > 0
  BY SemaphoreConstants
<1>2. PICK m \in Int : m = v % VALUE_RANGE
  BY <1>1
<1>3. PICK q \in Int : q = v \div VALUE_RANGE
  BY <1>1
<1>4. v = VALUE_RANGE * q + m /\ m \in 0 .. VALUE_RANGE - 1
  BY <1>1, <1>2, <1>3
<1>5. v - m = VALUE_RANGE * q
  BY <1>1, <1>4
<1>6. (v - m) % VALUE_RANGE = 0
  BY <1>4, <1>5, MultipleOfRange
<1>. QED
  BY <1>2, <1>4, <1>6

\* Who has been granted a token is told so.
LEMMA GrantedAreTold ==
    /\ Granted = {t \in Thread : Status[t] = "granted"}
    /\ IsFiniteSet(Granted) /\ Cardinality(Granted) \in Nat
<1>1. Granted = {t \in Thread : Status[t] = "granted"}
  BY DEF Granted, Status, Told
<1>2. IsFiniteSet(Granted)
  BY BlockingConstants, FS_Subset DEF Granted
<1>. QED
  BY <1>1, <1>2, FS_CardinalityType

\* The number of tokens on their way changes with what one caller is told.
LEMMA GrantedChange ==
    ASSUME NEW t \in Thread, NEW told, Status' = [Status EXCEPT ![t] = told]
    PROVE  /\ Cardinality(Granted)' \in Nat
           /\ Cardinality(Granted)' =
                Cardinality(Granted) + (IF told = "granted" THEN 1 ELSE 0)
                                     - (IF Status[t] = "granted" THEN 1 ELSE 0)
<1>1. /\ Granted' = {s \in Thread : Status'[s] = "granted"} /\ IsFiniteSet(Granted')
      /\ Cardinality(Granted') \in Nat
  <2>1. Granted' = {s \in Thread : Status'[s] = "granted"}
    BY DEF Granted, Status, Told
  <2>2. IsFiniteSet(Granted')
    BY BlockingConstants, FS_Subset, <2>1
  <2>. QED
    BY <2>1, <2>2, FS_CardinalityType
<1>2. /\ Granted = {s \in Thread : Status[s] = "granted"} /\ IsFiniteSet(Granted)
      /\ Cardinality(Granted) \in Nat
  BY GrantedAreTold
<1>3. Status'[t] = told /\ \A s \in Thread \ {t} : Status'[s] = Status[s]
  BY DEF Status
<1>4. Granted' = IF told = "granted" THEN Granted \cup {t} ELSE Granted \ {t}
  BY <1>1, <1>2, <1>3
<1>5. t \in Granted <=> Status[t] = "granted"
  BY <1>2
<1>. QED
  BY <1>1, <1>2, <1>4, <1>5, FS_AddElement, FS_RemoveElement, SMTT(60)

\* If nobody is told anything new, the number stays.
LEMMA GrantedSame ==
    ASSUME \A t \in Thread : Status'[t] = "granted" <=> Status[t] = "granted"
    PROVE  Granted' = Granted
<1>1. Granted' = {s \in Thread : Status'[s] = "granted"}
  BY DEF Granted, Status, Told
<1>. QED
  BY <1>1, GrantedAreTold

-----------------------------------------------------------------------------
(* The waiters and what they are told *)

\* Whoever is in rt_sem_take stays in it, and nobody enters it.
CallsKept == \A t \in Thread : pc[t] \in InCall <=> pc'[t] \in InCall

\* What the invariant says of the suspend list of the semaphore.
LEMMA SemaphoreWaiters ==
    ASSUME SemaphoreInv
    PROVE  /\ KernelWaits(k) /\ k \in KernelState /\ Sem \in WaitList
           /\ k.wait[Sem] \in Seq(Thread) /\ IsInjective(k.wait[Sem])
           /\ Range(k.wait[Sem]) \subseteq Thread
           /\ k.wait[Sem] = << >> <=> Range(k.wait[Sem]) = {}
           /\ k.timers \in Seq(Thread) /\ IsInjective(k.timers)
           /\ k.stat \in [Thread -> Stat]
           /\ k.error \in [Thread -> {EOK, ERROR, ETIMEOUT, EINTR}]
           /\ \A t \in Range(k.wait[Sem]) : /\ k.stat[t] = SUSPEND /\ k.error[t] = EOK
                                            /\ pc[t] \in InCall /\ Status[t] = "waiting"
           /\ \A t \in Thread : Status[t] = "waiting" => t \in Range(k.wait[Sem])
<1>1. KernelWaits(k) /\ KInv(k, {}) /\ k \in KernelState /\ Sem \in WaitList
  BY SemaphoreConstants, QueueFacts DEF SemaphoreInv, BlockingInv, KernelWaits
<1>2. /\ k.wait[Sem] \in Seq(Thread) /\ Range(k.wait[Sem]) \subseteq Thread
      /\ k.wait[Sem] = << >> <=> Range(k.wait[Sem]) = {}
  BY <1>1, WaitersAreThreads
<1>3. /\ k.timers \in Seq(Thread) /\ IsInjective(k.timers) /\ k.stat \in [Thread -> Stat]
      /\ k.error \in [Thread -> {EOK, ERROR, ETIMEOUT, EINTR}]
  BY <1>1 DEF KInv, KernelState
<1>4. /\ IsInjective(k.wait[Sem])
      /\ \A t \in Range(k.wait[Sem]) : k.stat[t] = SUSPEND /\ k.error[t] = EOK
  BY <1>1 DEF KernelWaits, WaitsExact
<1>5. \A t \in Range(k.wait[Sem]) : pc[t] \in InCall
  BY <1>1 DEF SemaphoreInv, BlockingInv, InCall
<1>6. \A t \in Thread : Status[t] = "waiting" <=> t \in Range(k.wait[Sem])
  BY DEF Status, Told
<1>. QED
  BY <1>1, <1>2, <1>3, <1>4, <1>5, <1>6

\* A step in which nobody leaves or joins the list.
LEMMA StatusSame ==
    ASSUME CallsKept, Range(k'.wait[Sem]) = Range(k.wait[Sem]),
           \A t \in Thread : pc[t] \in InCall => k'.error[t] = k.error[t]
    PROVE  Status' = Status
<1>1. ASSUME NEW t \in Thread PROVE Told(t)' = Told(t)
  BY DEF CallsKept, Told
<1>. QED
  BY <1>1 DEF Status

\* A step that wakes one waiter.
LEMMA StatusWoken ==
    ASSUME SemaphoreInv, CallsKept, NEW t \in Range(k.wait[Sem]), NEW e,
           Wakes(k, k', t, e)
    PROVE  /\ Status' = [Status EXCEPT ![t] = IF e = EOK THEN "granted" ELSE "failed"]
           /\ Range(k'.wait[Sem]) = Range(k.wait[Sem]) \ {t}
           /\ Range(k'.timers) \subseteq Range(k.timers)
<1>1. /\ k.wait[Sem] \in Seq(Thread) /\ IsInjective(k.wait[Sem]) /\ Sem \in WaitList
      /\ k.timers \in Seq(Thread) /\ t \in Thread /\ pc[t] \in InCall
      /\ k.error \in [Thread -> {EOK, ERROR, ETIMEOUT, EINTR}]
  BY SemaphoreWaiters
<1>2. /\ k'.wait[Sem] = RemoveFirst(k.wait[Sem], t) /\ k'.timers = RemoveFirst(k.timers, t)
      /\ k'.error = [k.error EXCEPT ![t] = e]
  BY <1>1 DEF Wakes, WithoutWaiter
<1>3. Range(k'.wait[Sem]) = Range(k.wait[Sem]) \ {t}
  BY <1>1, <1>2, RemoveFirstOnce
<1>4. Range(k'.timers) \subseteq Range(k.timers)
  BY <1>1, <1>2, RemoveFirstSeq
<1>5. ASSUME NEW s \in Thread
      PROVE  Told(s)' = IF s = t THEN IF e = EOK THEN "granted" ELSE "failed" ELSE Told(s)
  BY <1>1, <1>2, <1>3 DEF CallsKept, Told
<1>. QED
  BY <1>1, <1>3, <1>4, <1>5 DEF Status

\* A step that makes a thread wait.
LEMMA StatusBlocked ==
    ASSUME SemaphoreInv, NEW t \in Thread, NEW time, Blocks(k, k', Sem, t, Flag, time),
           t \notin Range(k.wait[Sem]), pc[t] = "run", pc' = [pc EXCEPT ![t] = "wait"]
    PROVE  /\ Status' = [Status EXCEPT ![t] = "waiting"] /\ Status[t] = "idle"
           /\ Range(k'.wait[Sem]) = Range(k.wait[Sem]) \cup {t}
<1>1. /\ Range(k'.wait[Sem]) = Range(k.wait[Sem]) \cup {t}
      /\ k'.error = [k.error EXCEPT ![t] = EOK]
      /\ k.error \in [Thread -> {EOK, ERROR, ETIMEOUT, EINTR}]
      /\ pc \in [Thread -> Steps]
  BY SemaphoreWaiters DEF Blocks, SemaphoreInv
<1>2. ASSUME NEW s \in Thread PROVE Told(s)' = IF s = t THEN "waiting" ELSE Told(s)
  BY <1>1 DEF Told
<1>3. Told(t) = "idle"
  BY DEF Told, InCall
<1>. QED
  BY <1>1, <1>2, <1>3 DEF Status

\* Who is in rt_sem_take after a step of Blocking was in it before.
LEMMA QuietCalls ==
    ASSUME SemaphoreInv, Quiet
    PROVE  CallsKept /\ \A t \in Thread : pc'[t] \in Steps /\
               (pc[t] \in DetachSteps \/ pc'[t] \in DetachSteps => pc'[t] = pc[t])
  BY DEF SemaphoreInv, Quiet, CallsKept, InCall, Steps, DetachSteps

-----------------------------------------------------------------------------
(* The history *)

\* Who leaves the list leaves the history.
LEMMA OneDeparts ==
    ASSUME ArrivalsWait, Departures, NEW t,
           Range(k'.wait[Sem]) = Range(k.wait[Sem]) \ {t},
           k'.wait[Sem] = << >> <=> Range(k'.wait[Sem]) = {}
    PROVE  arrival' = RemoveFirst(arrival, t) /\ ArrivalsWait'
<1>. DEFINE gone == Range(k.wait[Sem]) \ Range(k'.wait[Sem])
            rest == RemoveFirst(arrival, t)
<1>1. /\ rest \in Seq(Thread) /\ IsInjective(rest) /\ Range(rest) = Range(arrival) \ {t}
      /\ Range(rest) = Range(k'.wait[Sem])
      /\ rest = << >> <=> Range(rest) = {}
  BY RemoveFirstOnce, HeadInRange DEF ArrivalsWait
<1>2. CASE k'.wait[Sem] = << >>
  BY <1>1, <1>2 DEF Departures, ArrivalsWait
<1>3. CASE k'.wait[Sem] # << >> /\ t \notin Range(k.wait[Sem])
  <2>1. gone = {} /\ rest = arrival
    BY <1>3, RemoveFirstSeq DEF ArrivalsWait
  <2>. QED
    BY <1>1, <1>3, <2>1 DEF Departures, ArrivalsWait
<1>4. CASE k'.wait[Sem] # << >> /\ t \in Range(k.wait[Sem])
  <2>1. gone = {t}
    BY <1>4
  <2>2. (CHOOSE s \in gone : TRUE) = t
    BY <2>1
  <2>. QED
    BY <1>1, <1>4, <2>1, <2>2 DEF Departures, ArrivalsWait
<1>. QED
  BY <1>2, <1>3, <1>4

\* If nobody leaves the list, the history stays.
LEMMA NobodyDeparts ==
    ASSUME ArrivalsWait, Departures, Range(k'.wait[Sem]) = Range(k.wait[Sem]),
           k'.wait[Sem] = << >> <=> Range(k'.wait[Sem]) = {}
    PROVE  arrival' = arrival /\ ArrivalsWait'
  BY HeadInRange DEF ArrivalsWait, Departures

-----------------------------------------------------------------------------
(* The order of service *)

\* Two that stay in a list stay in their order.
LEMMA PrecedesRemove ==
    ASSUME NEW a \in Seq(Thread), IsInjective(a), NEW t, NEW x, NEW y, x # t, y # t,
           Precedes(a, x, y)
    PROVE  Precedes(RemoveFirst(a, t), x, y)
<1>. DEFINE r == RemoveFirst(a, t)
<1>1. Range(r) = Range(a) \ {t} /\ Sublist(r, a) /\ r \in Seq(Thread)
  BY RemoveFirstOnce, RemoveFirstSublist
<1>2. DOMAIN a = 1 .. Len(a) /\ Len(a) \in Nat /\ DOMAIN r = 1 .. Len(r) /\ Len(r) \in Nat
  BY <1>1, LenProperties
<1>. HIDE DEF r
<1>3. PICK m, n \in DOMAIN a : m < n /\ a[m] = x /\ a[n] = y
  BY DEF Precedes
<1>4. PICK i, j \in DOMAIN r : r[i] = x /\ r[j] = y
  <2>1. x \in Range(a) /\ y \in Range(a)
    BY <1>3 DEF Range
  <2>2. x \in Range(r) /\ y \in Range(r)
    BY <1>1, <2>1
  <2>. QED
    BY <2>2 DEF Range
<1>5. i # j
  BY <1>2, <1>3, <1>4 DEF IsInjective
<1>6. CASE j < i
  <2>1. PICK u, v \in DOMAIN a : u <= v /\ a[u] = y /\ a[v] = x
    BY <1>1, <1>2, <1>4, <1>6 DEF Sublist
  <2>2. u = n /\ v = m
    BY <1>3, <2>1 DEF IsInjective
  <2>. QED
    BY <1>2, <1>3, <2>1, <2>2
<1>7. CASE i < j
  BY <1>4, <1>7 DEF Precedes, r
<1>. QED
  BY <1>2, <1>5, <1>6, <1>7

\* A list from which a thread leaves stays in the order of service.
LEMMA OrderRemove ==
    ASSUME NEW l \in Seq(Thread), IsInjective(l), NEW a \in Seq(Thread), IsInjective(a),
           InServiceOrder(l, a), NEW t
    PROVE  InServiceOrder(RemoveFirst(l, t), RemoveFirst(a, t))
<1>. DEFINE r == RemoveFirst(l, t)
            b == RemoveFirst(a, t)
<1>1. /\ Range(r) = Range(l) \ {t} /\ Sublist(r, l) /\ r \in Seq(Thread) /\ IsInjective(r)
  BY RemoveFirstOnce, RemoveFirstSublist
<1>2. DOMAIN l = 1 .. Len(l) /\ Len(l) \in Nat /\ DOMAIN r = 1 .. Len(r) /\ Len(r) \in Nat
  BY <1>1, LenProperties
<1>. HIDE DEF r
<1>3. ASSUME NEW i \in DOMAIN r, NEW j \in DOMAIN r, i < j
      PROVE  ServedBefore(b, r[i], r[j])
  <2>1. PICK u, v \in DOMAIN l : u <= v /\ l[u] = r[i] /\ l[v] = r[j]
    BY <1>1, <1>2, <1>3 DEF Sublist
  <2>2. r[i] # r[j] /\ r[i] # t /\ r[j] # t
    <3>1. r[i] \in Range(r) /\ r[j] \in Range(r)
      BY DEF Range
    <3>2. r[i] # r[j]
      BY <1>1, <1>2, <1>3 DEF IsInjective
    <3>. QED
      BY <1>1, <3>1, <3>2
  <2>3. u < v
    BY <1>2, <2>1, <2>2
  <2>4. ServedBefore(a, r[i], r[j])
    BY <2>1, <2>3 DEF InServiceOrder
  <2>. QED
    BY <2>2, <2>4, PrecedesRemove DEF ServedBefore
<1>. QED
  BY <1>3 DEF InServiceOrder, r

\* Appending does not change the order of those before.
LEMMA PrecedesAppend ==
    ASSUME NEW a \in Seq(Thread), NEW t \in Thread, NEW x, NEW y
    PROVE  /\ Precedes(a, x, y) => Precedes(Append(a, t), x, y)
           /\ x \in Range(a) => Precedes(Append(a, t), x, t)
<1>. DEFINE b == Append(a, t)
<1>1. /\ Len(a) \in Nat /\ DOMAIN a = 1 .. Len(a) /\ DOMAIN b = 1 .. Len(a) + 1
      /\ b[Len(a) + 1] = t /\ \A i \in 1 .. Len(a) : b[i] = a[i]
  <2>1. b \in Seq(Thread) /\ Len(b) = Len(a) + 1
    BY AppendProperties
  <2>2. Len(a) \in Nat /\ DOMAIN a = 1 .. Len(a) /\ DOMAIN b = 1 .. Len(b)
    BY <2>1, LenProperties
  <2>3. \A i \in 1 .. Len(a) + 1 : b[i] = IF i <= Len(a) THEN a[i] ELSE t
    BY <2>1, <2>2, AppendProperties
  <2>. QED
    BY <2>1, <2>2, <2>3
<1>. HIDE DEF b
<1>2. Precedes(a, x, y) => Precedes(b, x, y)
  <2>1. SUFFICES ASSUME Precedes(a, x, y) PROVE Precedes(b, x, y)
    OBVIOUS
  <2>2. PICK m, n \in DOMAIN a : m < n /\ a[m] = x /\ a[n] = y
    BY <2>1 DEF Precedes
  <2>3. m \in DOMAIN b /\ n \in DOMAIN b /\ b[m] = x /\ b[n] = y
    BY <1>1, <2>2
  <2>. QED
    BY <2>2, <2>3 DEF Precedes
<1>3. x \in Range(a) => Precedes(b, x, t)
  <2>1. SUFFICES ASSUME x \in Range(a) PROVE Precedes(b, x, t)
    OBVIOUS
  <2>2. PICK m \in DOMAIN a : a[m] = x
    BY <2>1 DEF Range
  <2>3. /\ m \in DOMAIN b /\ Len(a) + 1 \in DOMAIN b /\ m < Len(a) + 1
        /\ b[m] = x /\ b[Len(a) + 1] = t
    BY <1>1, <2>2
  <2>. QED
    BY <2>3 DEF Precedes
<1>. QED
  BY <1>2, <1>3 DEF b

\* Thread t goes behind the first i - 1 of the list, and before the next.
Links(l, i, t) ==
    /\ \A m \in 1 .. i - 1 : ~(Flag = PRIO /\ InitPriority[t] < InitPriority[l[m]])
    /\ i \in 1 .. Len(l) => Flag = PRIO /\ InitPriority[t] < InitPriority[l[i]]

\* A list that a thread joins where rt_ipc_list_suspend links it stays in the
\* order of service.
LEMMA OrderInsert ==
    ASSUME NEW l \in Seq(Thread), NEW a \in Seq(Thread), Range(l) = Range(a),
           InServiceOrder(l, a), NEW t \in Thread, t \notin Range(l),
           NEW i \in 1 .. Len(l) + 1,
           Links(l, i, t)
    PROVE  InServiceOrder(InsertAt(l, i, t), Append(a, t))
<1>0. /\ InsertAt(l, i, t) \in Seq(Thread) /\ Len(InsertAt(l, i, t)) = Len(l) + 1
      /\ \A j \in 1 .. Len(l) + 1 :
           InsertAt(l, i, t)[j] = IF j < i THEN l[j] ELSE IF j = i THEN t ELSE l[j - 1]
  BY InsertAtSeq
<1>. DEFINE r == InsertAt(l, i, t)
            b == Append(a, t)
            n == Len(l)
            P == InitPriority
<1>1. /\ n \in Nat /\ DOMAIN l = 1 .. n /\ DOMAIN r = 1 .. n + 1
      /\ \A j \in 1 .. n + 1 : r[j] = IF j < i THEN l[j] ELSE IF j = i THEN t ELSE l[j - 1]
      /\ \A j \in 1 .. n : l[j] \in Thread /\ l[j] \in Range(l)
  <2>1. n \in Nat /\ DOMAIN l = 1 .. n /\ r \in Seq(Thread) /\ Len(r) = n + 1
    BY LenProperties, InsertAtSeq
  <2>2. DOMAIN r = 1 .. n + 1
    BY <2>1, LenProperties
  <2>3. \A j \in 1 .. n : l[j] \in Thread /\ l[j] \in Range(l)
    BY <2>1, ElementOfSeq DEF Range
  <2>4. /\ r \in Seq(Thread) /\ Len(r) = n + 1
        /\ \A j \in 1 .. n + 1 :
             r[j] = IF j < i THEN l[j] ELSE IF j = i THEN t ELSE l[j - 1]
    BY <1>0
  <2>. HIDE DEF r, n
  <2>. QED
    BY <2>1, <2>2, <2>3, <2>4
<1>2. P \in [Thread -> Nat]
  BY KernelConstants DEF Priority
<1>. HIDE DEF r, b, n, P
<1>3. ASSUME NEW x, NEW y, ServedBefore(a, x, y) PROVE ServedBefore(b, x, y)
  BY <1>3, PrecedesAppend DEF ServedBefore, b
<1>4. ASSUME NEW x \in 1 .. n, NEW y \in 1 .. n, x < y PROVE ServedBefore(b, l[x], l[y])
  BY <1>1, <1>3, <1>4 DEF InServiceOrder
<1>5. ASSUME NEW x \in 1 .. i - 1 PROVE ServedBefore(b, l[x], t)
  <2>1. x \in 1 .. n /\ l[x] \in Thread /\ l[x] \in Range(a) /\ P[l[x]] \in Nat /\ P[t] \in Nat
    BY <1>1, <1>2 DEF n
  <2>2. Precedes(b, l[x], t)
    BY <2>1, PrecedesAppend DEF b
  <2>. QED
    BY <2>1, <2>2 DEF ServedBefore, P, Links
<1>6. ASSUME NEW x \in i .. n PROVE ServedBefore(b, t, l[x])
  <2>1. /\ i \in 1 .. n /\ x \in 1 .. n /\ Flag = PRIO /\ P[t] < P[l[i]]
        /\ P[l[x]] \in Nat /\ P[t] \in Nat /\ P[l[i]] \in Nat
    BY <1>1, <1>2 DEF n, P, Links
  <2>2. P[l[i]] <= P[l[x]]
    <3>1. CASE x = i
      BY <2>1, <3>1
    <3>2. CASE i < x
      <4>1. ServedBefore(a, l[i], l[x])
        BY <1>1, <2>1, <3>2 DEF InServiceOrder
      <4>. QED
        BY <2>1, <4>1 DEF ServedBefore, P
    <3>. QED
      BY <1>1, <2>1, <3>1, <3>2
  <2>3. P[t] < P[l[x]]
    BY <2>1, <2>2
  <2>. QED
    BY <2>1, <2>3 DEF ServedBefore, P
<1>7. ASSUME NEW x \in 1 .. n + 1, NEW y \in 1 .. n + 1, x < y
      PROVE  ServedBefore(b, r[x], r[y])
  <2>1. CASE y < i
    <3>1. x \in 1 .. n /\ y \in 1 .. n /\ r[x] = l[x] /\ r[y] = l[y]
      BY <1>1, <1>7, <2>1 DEF n
    <3>. QED
      BY <1>4, <1>7, <3>1
  <2>2. CASE y = i
    <3>1. x \in 1 .. i - 1 /\ r[x] = l[x] /\ r[y] = t
      BY <1>1, <1>7, <2>2
    <3>. QED
      BY <1>5, <3>1
  <2>3. CASE y > i
    <3>1. y - 1 \in 1 .. n /\ y - 1 \in i .. n /\ r[y] = l[y - 1]
      BY <1>1, <1>7, <2>3
    <3>2. CASE x < i
      <4>1. x \in 1 .. n /\ x < y - 1 /\ r[x] = l[x]
        BY <1>1, <1>7, <2>3, <3>2 DEF n
      <4>. QED
        BY <1>4, <3>1, <4>1
    <3>3. CASE x = i
      <4>1. r[x] = t
        BY <1>1, <3>3
      <4>. QED
        BY <1>6, <3>1, <4>1
    <3>4. CASE x > i
      <4>1. x - 1 \in 1 .. n /\ x - 1 < y - 1 /\ r[x] = l[x - 1]
        BY <1>1, <1>7, <3>4
      <4>. QED
        BY <1>4, <3>1, <4>1
    <3>. QED
      BY <1>7, <3>2, <3>3, <3>4
  <2>. QED
    BY <1>7, <2>1, <2>2, <2>3
<1>. QED
  BY <1>1, <1>7 DEF InServiceOrder, r, b

\* The head of such a list is the one that nobody is to be served before.
LEMMA HeadServedFirst ==
    ASSUME SemaphoreInv, k.wait[Sem] # << >>
    PROVE  Abstract!ServedFirst(Head(k.wait[Sem]))
<1>. DEFINE l == k.wait[Sem]
            c == Head(l)
<1>1. /\ l \in Seq(Thread) /\ Range(l) = Range(arrival) /\ arrival \in Seq(Thread)
      /\ InServiceOrder(l, arrival) /\ IsInjective(arrival)
  BY SemaphoreWaiters DEF SemaphoreInv, ArrivalsWait
<1>2. Len(l) \in Nat /\ Len(l) >= 1 /\ DOMAIN l = 1 .. Len(l) /\ c = l[1]
  BY <1>1, LenProperties, EmptySeq
<1>3. Len(arrival) \in Nat /\ DOMAIN arrival = 1 .. Len(arrival)
  BY <1>1, LenProperties
<1>. HIDE DEF l, c
<1>4. PICK i \in DOMAIN arrival : arrival[i] = c
  <2>1. c \in Range(l)
    BY <1>2 DEF Range
  <2>2. c \in Range(arrival)
    BY <1>1, <2>1
  <2>. QED
    BY <2>2 DEF Range
<1>5. ASSUME NEW j \in DOMAIN arrival \ {i}
      PROVE  IF Flag = PRIO /\ InitPriority[arrival[j]] # InitPriority[c]
             THEN InitPriority[c] < InitPriority[arrival[j]] ELSE i < j
  <2>1. PICK m \in DOMAIN l : l[m] = arrival[j]
    BY <1>1, <1>5 DEF Range
  <2>2. m # 1
    BY <1>2, <1>4, <1>5, <2>1, <1>1 DEF IsInjective
  <2>3. ServedBefore(arrival, c, arrival[j])
    BY <1>1, <1>2, <2>1, <2>2 DEF InServiceOrder
  <2>4. Precedes(arrival, c, arrival[j]) => i < j
    BY <1>1, <1>3, <1>4, <1>5 DEF Precedes, IsInjective
  <2>. QED
    BY <2>3, <2>4 DEF ServedBefore
<1>. QED
  BY <1>4, <1>5 DEF Abstract!ServedFirst, c, l

-----------------------------------------------------------------------------
(* What the steps have in common *)

\* Both modules take the same RemoveFirst from the library.
LEMMA SameRemoveFirst ==
    ASSUME NEW a, NEW t
    PROVE  Abstract!RemoveFirst(a, t) = RemoveFirst(a, t)
  BY DEF Abstract!RemoveFirst, Abstract!SelectInSeq, Abstract!RemoveAt, Abstract!Min,
         RemoveFirst, SelectInSeq, RemoveAt, Min

\* A call, a wait that ends or something that AbstractSemaphore does not see.
AbstractStep == Abstract!Next \/ UNCHANGED Abstract!vars

\* What is kept of the waiters, apart from what they are told.
WaitersKept ==
    ArrivalsWait' /\ InServiceOrder(k.wait[Sem], arrival)' /\ LeaversAreReady'
        /\ k'.prio = InitPriority

\* A step that no waiter notices.
LEMMA NobodyNotices ==
    ASSUME SemaphoreInv, CallsKept, k'.prio = k.prio, k'.wait = k.wait, arrival' = arrival,
           \A t \in Thread : pc[t] \in InCall => k'.error[t] = k.error[t] /\ k'.stat[t] = k.stat[t]
    PROVE  Status' = Status /\ WaitersKept /\ Granted' = Granted
<1>1. Status' = Status
  BY StatusSame
<1>2. ArrivalsWait' /\ InServiceOrder(k.wait[Sem], arrival)' /\ k'.prio = InitPriority
  BY DEF SemaphoreInv, ArrivalsWait, InServiceOrder, ServedBefore, Precedes
<1>3. LeaversAreReady'
  BY DEF SemaphoreInv, LeaversAreReady, CallsKept
<1>. QED
  BY <1>1, <1>2, <1>3, GrantedSame DEF WaitersKept

\* A step that wakes a waiter.
LEMMA WakeNotices ==
    ASSUME SemaphoreInv, CallsKept, BlockingInv', Departures, NEW t \in Range(k.wait[Sem]),
           NEW e, Wakes(k, k', t, e)
    PROVE  WaitersKept /\ arrival' = RemoveFirst(arrival, t)
<1>1. /\ Range(k'.wait[Sem]) = Range(k.wait[Sem]) \ {t} /\ Sem \in WaitList /\ t \in Thread
      /\ k.stat \in [Thread -> Stat] /\ k.wait[Sem] \in Seq(Thread) /\ IsInjective(k.wait[Sem])
  BY StatusWoken, SemaphoreWaiters
<1>2. k'.wait[Sem] = << >> <=> Range(k'.wait[Sem]) = {}
  BY <1>1, WaitersAreThreads DEF BlockingInv
<1>3. arrival' = RemoveFirst(arrival, t) /\ ArrivalsWait'
  BY <1>1, <1>2, OneDeparts DEF SemaphoreInv
<1>4. k'.wait[Sem] = RemoveFirst(k.wait[Sem], t)
  BY <1>1 DEF Wakes, WithoutWaiter
<1>5. InServiceOrder(RemoveFirst(k.wait[Sem], t), RemoveFirst(arrival, t))
  BY <1>1, OrderRemove DEF SemaphoreInv, ArrivalsWait
<1>6. InServiceOrder(k.wait[Sem], arrival)'
  BY <1>3, <1>4, <1>5 DEF InServiceOrder, ServedBefore, Precedes
<1>7. LeaversAreReady'
  <2>1. k'.stat = [k.stat EXCEPT ![t] = READY]
    BY DEF Wakes
  <2>. QED
    BY <1>1, <2>1 DEF SemaphoreInv, LeaversAreReady, CallsKept
<1>. QED
  BY <1>3, <1>6, <1>7 DEF WaitersKept, Wakes, SemaphoreInv

\* While nobody detaches, nobody begins to in the middle.
LEMMA NobodyDetaches ==
    ASSUME ~Detaching, \A t \in Thread : pc'[t] \in DetachSteps => pc[t] \in DetachSteps
    PROVE  DetachIsAlone'
  BY DEF Detaching, DetachIsAlone, DetachSteps

\* A thread in a call of its own is the only one that changes its place.
LEMMA PlaceChange ==
    ASSUME SemaphoreInv, NEW t \in Thread, NEW at \in Steps, pc' = [pc EXCEPT ![t] = at]
    PROVE  /\ pc' \in [Thread -> Steps] /\ pc'[t] = at
           /\ \A s \in Thread \ {t} : pc'[s] = pc[s]
           /\ (pc[t] \in InCall <=> at \in InCall) => CallsKept
  BY DEF SemaphoreInv, CallsKept

\* Tokens stay accounted for if nothing is added, or once the range.
LEMMA TokensBalance ==
    ASSUME SemaphoreInv, value' \in 0 .. VALUE_RANGE - 1, balance' \in Int,
           Cardinality(Granted)' \in Nat,
           LET d == balance - value - Cardinality(Granted)
               e == balance' - value' - Cardinality(Granted)'
           IN  e = d \/ e = d + VALUE_RANGE
    PROVE  TokensConserved'
<1>. DEFINE d == balance - value - Cardinality(Granted)
            e == balance' - value' - Cardinality(Granted)'
<1>1. VALUE_RANGE \in Nat /\ value \in Int /\ balance \in Int /\ Cardinality(Granted) \in Nat
  BY SemaphoreConstants, GrantedAreTold DEF SemaphoreInv
<1>2. d \in Int /\ e \in Int /\ (e = d \/ e = d + VALUE_RANGE)
  BY <1>1, SemaphoreConstants
<1>3. d % VALUE_RANGE = 0
  BY DEF SemaphoreInv, TokensConserved
<1>. HIDE DEF d, e
<1>4. e % VALUE_RANGE = 0
  BY <1>2, <1>3, TokensStep
<1>. QED
  BY <1>4 DEF TokensConserved, e

\* The value and the balance are set to the same number.
LEMMA TokensSet ==
    ASSUME NEW v \in InitValue, value' = v % VALUE_RANGE,
           balance' = v + Cardinality(Granted), Granted' = Granted
    PROVE  TokensConserved' /\ value' \in 0 .. VALUE_RANGE - 1 /\ balance' \in Int
<1>1. v \in Nat /\ Cardinality(Granted) \in Nat
  BY SemaphoreConstants, GrantedAreTold
<1>2. PICK m \in 0 .. VALUE_RANGE - 1 : v % VALUE_RANGE = m /\ (v - m) % VALUE_RANGE = 0
  BY <1>1, TokensReset
<1>3. VALUE_RANGE \in Nat
  BY SemaphoreConstants
<1>4. value' = m /\ m \in Int
  BY <1>2, <1>3
<1>5. balance' - value' - Cardinality(Granted') = v - m
  BY <1>1, <1>4
<1>. QED
  BY <1>1, <1>2, <1>4, <1>5 DEF TokensConserved

-----------------------------------------------------------------------------
(* The calls *)

\* rt_sem_take with a token: nobody waits, and a token less is left.
LEMMA TakeAvailableKeeps ==
    ASSUME SemaphoreInv, NEW t \in Thread, TakeAvailable(t)
    PROVE  SemaphoreInv' /\ AbstractStep
<1>1. /\ t = k.cur /\ t # Idle /\ pc[t] = "run" /\ value > 0
      /\ value' = value - 1 /\ balance' = balance - 1
      /\ UNCHANGED <<k, pc, isr, obj, arrival>>
  BY DEF TakeAvailable, Calls, Executes
<1>2. CallsKept
  BY <1>1 DEF CallsKept
<1>3. Status' = Status /\ WaitersKept /\ Granted' = Granted
  BY <1>1, <1>2, NobodyNotices
<1>4. value \in 0 .. VALUE_RANGE - 1 /\ balance \in Int /\ VALUE_RANGE \in Nat
      /\ Cardinality(Granted) \in Nat
  BY SemaphoreConstants, GrantedAreTold DEF SemaphoreInv
<1>5. value' \in 0 .. VALUE_RANGE - 1 /\ balance' \in Int
  BY <1>1, <1>4
<1>6. TokensConserved'
  BY <1>1, <1>3, <1>4, <1>5, TokensBalance
<1>7. BlockingInv' /\ DetachIsAlone' /\ DetachedIsEmpty'
  BY <1>1 DEF SemaphoreInv, BlockingInv, CurrentMayRun, DetachIsAlone, Detaching, DetachedIsEmpty
<1>8. NoIdleToken'
  BY <1>1, <1>4 DEF SemaphoreInv, NoIdleToken
<1>9. SemaphoreInv'
  BY <1>1, <1>3, <1>5, <1>6, <1>7, <1>8 DEF SemaphoreInv, WaitersKept
<1>10. Status[t] = "idle"
  <2>1. t \notin Range(k.wait[Sem])
    BY <1>1, CallerIsReady, SemaphoreWaiters DEF SemaphoreInv
  <2>. QED
    BY <1>1, <2>1 DEF Status, Told, InCall
<1>11. Abstract!Take(t)
  BY <1>1, <1>3, <1>10 DEF Abstract!Take, Status
<1>. QED
  BY <1>9, <1>11 DEF AbstractStep, Abstract!Next

\* rt_sem_take without a token: the caller waits where its turn is.
LEMMA TakeUnavailableKeeps ==
    ASSUME SemaphoreInv, Disciplined, NEW t \in Thread, TakeUnavailable(t)
    PROVE  SemaphoreInv' /\ AbstractStep
<1>1. /\ t = k.cur /\ t # Idle /\ pc[t] = "run" /\ value = 0 /\ k.lock = 0
      /\ obj = "live" /\ ~Detaching
      /\ Moves(t, "wait") /\ arrival' = Append(arrival, t)
      /\ UNCHANGED <<isr, value, obj, balance>>
  BY DEF TakeUnavailable, Calls, Executes, MayUse, MayWait, Goto, Moves
<1>2. PICK time \in Times[t] : k' = Block(k, Sem, t, Flag, time)
  BY DEF TakeUnavailable
<1>3. /\ KernelWaits(k) /\ Sem \in WaitList /\ k.stat[t] = READY /\ time \in Int
      /\ t \notin Range(k.wait[Sem]) /\ k.stat \in [Thread -> Stat]
      /\ k.wait \in [WaitList -> Seq(Thread)] /\ IsInjective(k.wait[Sem])
      /\ k.prio = InitPriority /\ arrival \in Seq(Thread) /\ IsInjective(arrival)
      /\ Range(arrival) = Range(k.wait[Sem]) /\ InServiceOrder(k.wait[Sem], arrival)
  <2>1. k.stat[t] = READY /\ t \notin Range(k.wait[Sem])
    BY <1>1, CallerIsReady, SemaphoreWaiters DEF SemaphoreInv
  <2>2. time \in Int
    BY SemaphoreConstants DEF WAITING_FOREVER
  <2>3. k.wait \in [WaitList -> Seq(Thread)]
    BY WaitersAreThreads, SemaphoreWaiters
  <2>. QED
    BY <2>1, <2>2, <2>3, SemaphoreWaiters DEF SemaphoreInv, ArrivalsWait
<1>4. Blocks(k, k', Sem, t, Flag, time)
  BY <1>1, <1>2, <1>3, BlockBlocks
<1>5. BlockingInv'
  BY <1>1, <1>3, <1>4, BlockKeeps DEF SemaphoreInv
<1>6. /\ Status' = [Status EXCEPT ![t] = "waiting"] /\ Status[t] = "idle"
      /\ Range(k'.wait[Sem]) = Range(k.wait[Sem]) \cup {t}
  BY <1>1, <1>3, <1>4, StatusBlocked DEF Moves
<1>7. PICK i \in 1 .. Len(k.wait[Sem]) + 1 :
        LinkedAt(k, Sem, t, Flag, i) /\ k'.wait = [k.wait EXCEPT ![Sem] = InsertAt(@, i, t)]
  BY <1>4 DEF Blocks
<1>8. k'.wait[Sem] = InsertAt(k.wait[Sem], i, t) /\ Links(k.wait[Sem], i, t)
  BY <1>3, <1>7 DEF LinkedAt, Links
<1>9. InServiceOrder(InsertAt(k.wait[Sem], i, t), Append(arrival, t))
  BY <1>3, <1>8, OrderInsert
<1>10. InServiceOrder(k.wait[Sem], arrival)'
  BY <1>1, <1>8, <1>9 DEF InServiceOrder, ServedBefore, Precedes
<1>11. ArrivalsWait'
  BY <1>1, <1>3, <1>6, AppendOnce DEF ArrivalsWait
<1>12. LeaversAreReady'
  BY <1>1, <1>3, <1>4, <1>6 DEF SemaphoreInv, LeaversAreReady, Blocks, Moves, InCall
<1>13. Granted' = Granted
  BY <1>6, GrantedSame DEF Status
<1>14. pc' \in [Thread -> Steps] /\ \A s \in Thread : pc'[s] \in DetachSteps => pc[s] \in DetachSteps
  BY <1>1 DEF SemaphoreInv, Moves, Steps, DetachSteps
<1>15. DetachIsAlone'
  BY <1>1, <1>14, NobodyDetaches
<1>16. TokensConserved' /\ NoIdleToken' /\ DetachedIsEmpty'
  BY <1>1, <1>13 DEF SemaphoreInv, TokensConserved, NoIdleToken, DetachedIsEmpty
<1>17. k'.prio = InitPriority
  BY <1>3, <1>4 DEF Blocks
<1>18. SemaphoreInv'
  BY <1>1, <1>5, <1>10, <1>11, <1>12, <1>14, <1>15, <1>16, <1>17 DEF SemaphoreInv
<1>19. Abstract!Wait(t)
  BY <1>1, <1>6 DEF Abstract!Wait, Status
<1>. QED
  BY <1>18, <1>19 DEF AbstractStep, Abstract!Next

\* The end of rt_sem_take: a token that was granted is taken.
LEMMA TakeReturnKeeps ==
    ASSUME SemaphoreInv, NEW t \in Thread, TakeReturn(t)
    PROVE  SemaphoreInv' /\ AbstractStep
<1>1. /\ t = k.cur /\ pc[t] = "woken" /\ pc' = [pc EXCEPT ![t] = "run"]
      /\ balance' = (IF k.error[t] = EOK THEN balance - 1 ELSE balance)
      /\ UNCHANGED <<k, isr, value, obj, arrival>>
  BY DEF TakeReturn, Continues, Executes, Goto
<1>2. k.stat[t] = READY /\ t \notin Range(k.wait[Sem]) /\ t # Idle
  BY <1>1, CallerIsReady, SemaphoreWaiters DEF SemaphoreInv, BlockingInv
<1>3. /\ pc' \in [Thread -> Steps] /\ pc'[t] = "run"
      /\ \A s \in Thread \ {t} : pc'[s] = pc[s]
  BY <1>1, PlaceChange DEF Steps
<1>4. Status[t] = IF k.error[t] = EOK THEN "granted" ELSE "failed"
  BY <1>1, <1>2 DEF Status, Told, InCall
<1>5. Status' = [Status EXCEPT ![t] = "idle"]
  <2>1. ASSUME NEW s \in Thread PROVE Told(s)' = IF s = t THEN "idle" ELSE Told(s)
    BY <1>1, <1>2, <1>3 DEF Told, InCall
  <2>. QED
    BY <2>1 DEF Status
<1>6. /\ Cardinality(Granted)' \in Nat
      /\ Cardinality(Granted)' = Cardinality(Granted) - (IF k.error[t] = EOK THEN 1 ELSE 0)
      /\ Cardinality(Granted) \in Nat
  <2>. DEFINE c == Cardinality(Granted)
              d == Cardinality(Granted)'
  <2>1. d \in Nat /\ d = c + (IF "idle" = "granted" THEN 1 ELSE 0)
                           - (IF Status[t] = "granted" THEN 1 ELSE 0)
    BY <1>5, GrantedChange
  <2>2. c \in Nat
    BY GrantedAreTold
  <2>. HIDE DEF c, d
  <2>3. d = c - (IF k.error[t] = EOK THEN 1 ELSE 0)
    BY <1>4, <2>1, <2>2
  <2>. QED
    BY <2>1, <2>2, <2>3 DEF c, d
<1>7. balance' \in Int /\ TokensConserved'
  <2>1. balance \in Int /\ value' = value /\ value \in 0 .. VALUE_RANGE - 1 /\ VALUE_RANGE \in Nat
    BY <1>1, SemaphoreConstants DEF SemaphoreInv
  <2>. HIDE DEF Granted
  <2>2. balance' \in Int /\ balance' - value' - Cardinality(Granted)' = balance - value - Cardinality(Granted)
    BY <1>1, <1>6, <2>1
  <2>. QED
    BY <1>6, <2>1, <2>2, TokensBalance
<1>8. BlockingInv'
  BY <1>1, <1>2, CallKeeps, SemaphoreWaiters DEF SemaphoreInv, Moves
<1>9. DetachIsAlone' /\ LeaversAreReady' /\ NoIdleToken' /\ DetachedIsEmpty'
  BY <1>1, <1>2, <1>3 DEF SemaphoreInv, DetachIsAlone, Detaching, DetachSteps, LeaversAreReady,
                          NoIdleToken, DetachedIsEmpty, InCall
<1>10. ArrivalsWait' /\ InServiceOrder(k.wait[Sem], arrival)'
  BY <1>1 DEF SemaphoreInv, ArrivalsWait, InServiceOrder, ServedBefore, Precedes
<1>11. SemaphoreInv'
  BY <1>1, <1>3, <1>7, <1>8, <1>9, <1>10 DEF SemaphoreInv
<1>12. Abstract!Return(t)
  BY <1>1, <1>4, <1>5 DEF Abstract!Return, Status
<1>. QED
  BY <1>11, <1>12 DEF AbstractStep, Abstract!Next

\* The head of the list is resumed, by a caller or in an interrupt.
LEMMA HeadWaits ==
    ASSUME SemaphoreInv, k.wait[Sem] # << >>
    PROVE  /\ Head(k.wait[Sem]) \in Range(k.wait[Sem]) /\ Head(k.wait[Sem]) \in Thread
           /\ value = 0 /\ Status[Head(k.wait[Sem])] = "waiting"
<1>1. value \in 0 .. VALUE_RANGE - 1 /\ VALUE_RANGE \in Nat
  BY SemaphoreConstants DEF SemaphoreInv
<1>2. Head(k.wait[Sem]) \in Range(k.wait[Sem]) /\ Head(k.wait[Sem]) \in Thread
  BY HeadInRange, SemaphoreWaiters
<1>3. value = 0
  BY <1>1 DEF SemaphoreInv, NoIdleToken
<1>. QED
  BY <1>2, <1>3, SemaphoreWaiters

\* A release that finds a waiter grants it the token.
LEMMA ReleaseWakes ==
    ASSUME SemaphoreInv, CallsKept, BlockingInv', Departures, k.wait[Sem] # << >>,
           Wakes(k, k', Head(k.wait[Sem]), EOK), Put, obj' = obj, ~Detaching, obj = "live",
           pc' \in [Thread -> Steps],
           \A t \in Thread : pc'[t] \in DetachSteps => pc[t] \in DetachSteps
    PROVE  SemaphoreInv' /\ AbstractStep
<1>. DEFINE h == Head(k.wait[Sem])
            c == Cardinality(Granted)
            d == Cardinality(Granted)'
<1>1. h \in Range(k.wait[Sem]) /\ h \in Thread /\ value = 0 /\ Status[h] = "waiting"
  BY HeadWaits
<1>2. Abstract!ServedFirst(h)
  BY HeadServedFirst
<1>. HIDE DEF h
<1>3. Wakes(k, k', h, EOK) /\ value' = value /\ balance' = balance + 1
  BY DEF Put, h
<1>4. /\ Status' = [Status EXCEPT ![h] = "granted"]
      /\ WaitersKept /\ arrival' = RemoveFirst(arrival, h)
  BY <1>1, <1>3, StatusWoken, WakeNotices
<1>5. d \in Nat /\ c \in Nat /\ d = c + 1
  <2>1. d \in Nat /\ d = c + (IF "granted" = "granted" THEN 1 ELSE 0)
                           - (IF Status[h] = "granted" THEN 1 ELSE 0)
    BY <1>1, <1>4, GrantedChange
  <2>2. c \in Nat
    BY GrantedAreTold
  <2>. HIDE DEF c, d
  <2>. QED
    BY <1>1, <2>1, <2>2
<1>6. value' \in 0 .. VALUE_RANGE - 1 /\ balance \in Int /\ balance' \in Int /\ VALUE_RANGE \in Nat
  BY <1>3, SemaphoreConstants DEF SemaphoreInv
<1>7. TokensConserved'
  <2>1. balance' - value' - d = balance - value - c
    <3>. HIDE DEF c, d
    <3>. QED
      BY <1>3, <1>5, <1>6, <1>1
  <2>. QED
    BY <1>5, <1>6, <2>1, TokensBalance
<1>8. DetachIsAlone' /\ NoIdleToken' /\ DetachedIsEmpty'
  BY <1>1, <1>3, NobodyDetaches DEF NoIdleToken, DetachedIsEmpty
<1>9. SemaphoreInv'
  BY <1>4, <1>6, <1>7, <1>8 DEF SemaphoreInv, WaitersKept
<1>10. Abstract!Release
  <2>1. Abstract!Leave(h, "granted")
    BY <1>4, SameRemoveFirst DEF Abstract!Leave, Status
  <2>. QED
    BY <1>1, <1>2, <1>3, <2>1 DEF Abstract!Release
<1>. QED
  BY <1>9, <1>10 DEF AbstractStep, Abstract!Next

\* A release that finds no waiter counts the token.
LEMMA ReleaseCounts ==
    ASSUME SemaphoreInv, Departures, k.wait[Sem] = << >>, Put,
           UNCHANGED <<k, pc, isr, obj>>, ~Detaching, obj = "live"
    PROVE  SemaphoreInv' /\ AbstractStep
<1>1. value' = (value + 1) % VALUE_RANGE /\ balance' = balance + 1
  BY DEF Put
<1>2. arrival = << >> /\ arrival' = arrival
  <2>1. arrival \in Seq(Thread) /\ Range(arrival) = {}
    BY SemaphoreWaiters DEF SemaphoreInv, ArrivalsWait
  <2>. QED
    BY <2>1, HeadInRange DEF Departures
<1>3. Status' = Status /\ WaitersKept /\ Granted' = Granted
  BY <1>2, NobodyNotices DEF CallsKept
<1>4. /\ value \in 0 .. VALUE_RANGE - 1 /\ balance \in Int /\ VALUE_RANGE \in Nat /\ VALUE_RANGE > 0
      /\ Cardinality(Granted) \in Nat
  BY SemaphoreConstants, GrantedAreTold DEF SemaphoreInv
<1>5. /\ value' = IF value + 1 = VALUE_RANGE THEN 0 ELSE value + 1
      /\ value' \in 0 .. VALUE_RANGE - 1 /\ balance' \in Int
  <2>1. value + 1 \in 0 .. VALUE_RANGE - 1 \/ value + 1 \in VALUE_RANGE .. 2 * VALUE_RANGE - 1
    BY <1>4
  <2>2. /\ value + 1 \in 0 .. VALUE_RANGE - 1 => (value + 1) % VALUE_RANGE = value + 1
        /\ value + 1 \in VALUE_RANGE .. 2 * VALUE_RANGE - 1 =>
             (value + 1) % VALUE_RANGE = value + 1 - VALUE_RANGE
    BY <1>4, RemainderAround
  <2>3. value' = IF value + 1 = VALUE_RANGE THEN 0 ELSE value + 1
    BY <1>1, <1>4, <2>1, <2>2
  <2>. QED
    BY <1>1, <1>4, <2>3
<1>6. TokensConserved'
  <2>. DEFINE c == Cardinality(Granted)
  <2>1. Cardinality(Granted)' = c /\ c \in Nat /\ balance' = balance + 1
    BY <1>1, <1>3, <1>4
  <2>. HIDE DEF c
  <2>2. \/ balance' - value' - c = balance - value - c
        \/ balance' - value' - c = balance - value - c + VALUE_RANGE
    BY <1>4, <1>5, <2>1
  <2>. QED
    BY <1>5, <2>1, <2>2, TokensBalance DEF c
<1>7. BlockingInv' /\ DetachIsAlone' /\ DetachedIsEmpty' /\ NoIdleToken'
  BY DEF SemaphoreInv, BlockingInv, CurrentMayRun, DetachIsAlone, Detaching, DetachedIsEmpty,
         NoIdleToken
<1>8. SemaphoreInv'
  BY <1>3, <1>5, <1>6, <1>7 DEF SemaphoreInv, WaitersKept
<1>9. Abstract!Release
  BY <1>1, <1>2, <1>3 DEF Abstract!Release, Status
<1>. QED
  BY <1>8, <1>9 DEF AbstractStep, Abstract!Next

\* rt_sem_release of a thread.
LEMMA ReleaseKeeps ==
    ASSUME SemaphoreInv, Disciplined, NEW t \in Thread, rt_sem_release(t)
    PROVE  SemaphoreInv' /\ AbstractStep
<1>1. /\ t = k.cur /\ t # Idle /\ pc[t] = "run" /\ obj = "live" /\ ~Detaching
      /\ Put /\ Departures /\ UNCHANGED <<isr, obj>>
  BY DEF rt_sem_release, Calls, Executes, MayUse
<1>2. CASE k.wait[Sem] = << >>
  <2>1. UNCHANGED <<k, pc, isr, obj>>
    BY <1>1, <1>2 DEF rt_sem_release
  <2>. QED
    BY <1>1, <1>2, <2>1, ReleaseCounts
<1>3. CASE k.wait[Sem] # << >>
  <2>. DEFINE h == Head(k.wait[Sem])
  <2>1. k' = rt_ipc_list_resume(k, Sem) /\ pc' = [pc EXCEPT ![t] = "sched"]
    BY <1>3 DEF rt_sem_release, Goto
  <2>2. KernelWaits(k) /\ Sem \in WaitList /\ k.stat[t] = READY /\ t \in Thread
    BY <1>1, CallerIsReady, SemaphoreWaiters DEF SemaphoreInv
  <2>3. h \in Range(k.wait[Sem]) /\ h \in Thread /\ Wakes(k, k', h, EOK) /\ k'.cur = k.cur
    BY <1>3, <2>1, <2>2, HeadWakes
  <2>. HIDE DEF h
  <2>4. BlockingInv'
    <3>1. KernelWaits(k') /\ k'.cur = t /\ k'.stat[t] = READY
      BY <1>1, <2>2, <2>3, SemaphoreWaiters DEF Wakes
    <3>2. \A w \in WaitList : Range(k'.wait[w]) \subseteq Range(k.wait[w])
      BY <2>2, <2>3, WokenShrinks
    <3>. QED
      BY <1>1, <2>1, <3>1, <3>2, CallKeeps DEF SemaphoreInv, Moves
  <2>5. /\ CallsKept /\ pc' \in [Thread -> Steps]
        /\ \A s \in Thread : pc'[s] \in DetachSteps => pc[s] \in DetachSteps
    BY <1>1, <2>1, PlaceChange DEF Steps, InCall, DetachSteps
  <2>. QED
    BY <1>1, <1>3, <2>3, <2>4, <2>5, ReleaseWakes DEF h
<1>. QED
  BY <1>2, <1>3

\* rt_sem_release in an interrupt.
LEMMA DeviceReleaseKeeps ==
    ASSUME SemaphoreInv, Disciplined, DeviceRelease
    PROVE  SemaphoreInv' /\ AbstractStep
<1>1. /\ obj = "live" /\ ~Detaching /\ Put /\ Departures /\ UNCHANGED <<pc, isr, obj>>
      /\ k.wait[Sem] = << >> => k' = k
      /\ k.wait[Sem] # << >> => k' = rt_schedule(rt_ipc_list_resume(k, Sem))
  BY DEF DeviceRelease, MayUse
<1>2. CASE k.wait[Sem] = << >>
  BY <1>1, <1>2, ReleaseCounts
<1>3. CASE k.wait[Sem] # << >>
  <2>1. BlockingInv' /\ Wakes(k, k', Head(k.wait[Sem]), EOK)
    BY <1>1, <1>3, DeviceKeeps, SemaphoreWaiters DEF SemaphoreInv
  <2>2. CallsKept /\ pc' \in [Thread -> Steps]
    BY <1>1 DEF CallsKept, SemaphoreInv
  <2>. QED
    BY <1>1, <1>3, <2>1, <2>2, ReleaseWakes
<1>. QED
  BY <1>2, <1>3

\* RT_IPC_CMD_RESET: every wait is broken off.
LEMMA ControlKeeps ==
    ASSUME SemaphoreInv, Disciplined, NEW t \in Thread, rt_sem_control(t)
    PROVE  SemaphoreInv' /\ AbstractStep
<1>1. /\ t = k.cur /\ t # Idle /\ pc[t] = "run" /\ obj = "live" /\ ~Detaching
      /\ Departures /\ UNCHANGED <<isr, obj>>
      /\ k' = rt_ipc_list_resume_all(k, Sem) /\ pc' = [pc EXCEPT ![t] = "sched"]
  BY DEF rt_sem_control, Calls, Executes, MayUse, Goto
<1>2. PICK v \in InitValue : value' = v % VALUE_RANGE /\ balance' = v + Cardinality(Granted)
  BY DEF rt_sem_control
<1>. DEFINE all == Range(k.wait[Sem])
<1>3. WokenAll(k, k', Sem, all) /\ k'.wait[Sem] = << >>
  BY <1>1, SemaphoreWaiters, ResumeAllWakes
<1>4. /\ k.stat[t] = READY /\ t \notin all /\ Sem \in WaitList
      /\ \A s \in Thread : s \in all <=> Status[s] = "waiting"
      /\ \A s \in all : s \in Thread /\ pc[s] \in InCall
      /\ WaitList = {Sem}
  BY <1>1, CallerIsReady, SemaphoreWaiters, SemaphoreConstants DEF SemaphoreInv
<1>5. /\ KernelWaits(k') /\ k'.cur = t /\ k'.stat[t] = READY /\ k'.prio = k.prio
      /\ \A s \in Thread : /\ k'.stat[s] = IF s \in all THEN READY ELSE k.stat[s]
                           /\ k'.error[s] = IF s \in all THEN ERROR ELSE k.error[s]
      /\ Range(k'.wait[Sem]) = {}
  BY <1>1, <1>3, <1>4 DEF WokenAll
<1>6. /\ CallsKept /\ pc' \in [Thread -> Steps]
      /\ \A s \in Thread : pc'[s] \in DetachSteps => pc[s] \in DetachSteps
  BY <1>1, PlaceChange DEF Steps, InCall, DetachSteps
<1>7. BlockingInv'
  <2>1. \A w \in WaitList : Range(k'.wait[w]) \subseteq Range(k.wait[w])
    BY <1>4, <1>5
  <2>. QED
    BY <1>1, <1>5, <2>1, CallKeeps DEF SemaphoreInv, Moves
<1>8. Status' = [s \in Thread |-> IF Status[s] = "waiting" THEN "failed" ELSE Status[s]]
  <2>1. ASSUME NEW s \in Thread
        PROVE  Told(s)' = IF s \in all THEN "failed" ELSE Told(s)
    BY <1>4, <1>5, <1>6 DEF CallsKept, Told, ERROR, EOK
  <2>. QED
    BY <1>4, <2>1 DEF Status
<1>9. Granted' = Granted
  BY <1>8, GrantedSame DEF Status
<1>10. TokensConserved' /\ value' \in 0 .. VALUE_RANGE - 1 /\ balance' \in Int
  BY <1>2, <1>9, TokensSet
<1>11. arrival' = << >>
  BY <1>1, <1>3 DEF Departures
<1>12. ArrivalsWait' /\ InServiceOrder(k.wait[Sem], arrival)'
  BY <1>3, <1>5, <1>11 DEF ArrivalsWait, InServiceOrder, IsInjective, Range
<1>13. LeaversAreReady'
  BY <1>4, <1>5, <1>6 DEF SemaphoreInv, LeaversAreReady, CallsKept
<1>14. DetachIsAlone' /\ NoIdleToken' /\ DetachedIsEmpty'
  BY <1>1, <1>3, <1>6, NobodyDetaches DEF NoIdleToken, DetachedIsEmpty
<1>15. SemaphoreInv'
  BY <1>1, <1>5, <1>6, <1>7, <1>10, <1>12, <1>13, <1>14 DEF SemaphoreInv
<1>16. Abstract!Reset
  BY <1>8, <1>10, <1>11 DEF Abstract!Reset, Status
<1>. QED
  BY <1>15, <1>16 DEF AbstractStep, Abstract!Next

\* The scheduler lock is nothing a waiter notices.
LEMMA CriticalKeeps ==
    ASSUME SemaphoreInv, NEW t \in Thread, rt_enter_critical(t) \/ rt_exit_critical(t)
    PROVE  SemaphoreInv' /\ AbstractStep
<1>1. /\ t = k.cur /\ t # Idle /\ pc[t] = "run"
      /\ UNCHANGED <<isr, value, obj, balance, arrival>>
      /\ UNCHANGED pc \/ pc' = [pc EXCEPT ![t] = "sched"]
  BY DEF rt_enter_critical, rt_exit_critical, Calls, Executes, Goto
<1>2. k.stat[t] = READY /\ KernelWaits(k) /\ k \in KernelState
  BY <1>1, CallerIsReady, SemaphoreWaiters DEF SemaphoreInv
<1>3. LockOnly(k, k')
  <2>1. PICK n \in Nat : k' = [k EXCEPT !.lock = n]
    <3>1. k.lock \in Nat
      BY <1>2 DEF KernelState
    <3>2. CASE rt_enter_critical(t)
      <4>1. k' = [k EXCEPT !.lock = k.lock + 1] /\ k.lock + 1 \in Nat
        BY <3>1, <3>2 DEF rt_enter_critical
      <4>. QED
        BY <4>1
    <3>3. CASE rt_exit_critical(t)
      <4>. DEFINE n == IF k.lock <= 1 THEN 0 ELSE k.lock - 1
      <4>1. k' = [k EXCEPT !.lock = n] /\ n \in Nat
        BY <3>1, <3>3 DEF rt_exit_critical
      <4>. QED
        BY <4>1
    <3>. QED
      BY <3>2, <3>3
  <2>. QED
    BY <1>2, <2>1, LockSet
<1>4. /\ CallsKept /\ pc' \in [Thread -> Steps]
      /\ \A s \in Thread : pc'[s] \in DetachSteps \/ pc[s] \in DetachSteps => pc'[s] = pc[s]
  <2>1. CASE UNCHANGED pc
    BY <2>1 DEF CallsKept, SemaphoreInv
  <2>2. CASE pc' = [pc EXCEPT ![t] = "sched"]
    BY <1>1, <2>2, PlaceChange DEF Steps, InCall, DetachSteps
  <2>. QED
    BY <1>1, <2>1, <2>2
<1>5. BlockingInv'
  BY <1>1, <1>2, <1>3, CallKeeps DEF SemaphoreInv, LockOnly, Moves
<1>6. Status' = Status /\ WaitersKept /\ Granted' = Granted
  BY <1>1, <1>3, <1>4, NobodyNotices DEF LockOnly
<1>7. TokensConserved' /\ NoIdleToken' /\ DetachedIsEmpty' /\ DetachIsAlone'
  <2>1. k'.wait = k.wait /\ k'.timers = k.timers
    BY <1>3 DEF LockOnly
  <2>2. Detaching' <=> Detaching
    BY <1>4 DEF Detaching, DetachSteps
  <2>3. DetachIsAlone'
    BY <1>1, <1>4, <2>1, <2>2 DEF SemaphoreInv, DetachIsAlone, DetachSteps
  <2>. QED
    BY <1>1, <1>6, <2>1, <2>3 DEF SemaphoreInv, TokensConserved, NoIdleToken, DetachedIsEmpty
<1>8. SemaphoreInv'
  BY <1>1, <1>4, <1>5, <1>6, <1>7 DEF SemaphoreInv, WaitersKept
<1>9. UNCHANGED Abstract!vars
  BY <1>1, <1>6 DEF Abstract!vars, Status
<1>. QED
  BY <1>8, <1>9 DEF AbstractStep

-----------------------------------------------------------------------------
(* rt_sem_detach *)

\* The steps between the wakings: the caller goes on to another place of its
\* loop, or to its end.
LEMMA DetacherMoves ==
    ASSUME SemaphoreInv, NEW t \in Thread, t = k.cur, t # Idle, NEW at \in Steps,
           pc[t] \notin InCall \cup {"sleep"}, at \notin InCall,
           pc' = [pc EXCEPT ![t] = at], UNCHANGED <<k, isr, value, balance, arrival>>,
           obj' = obj \/ (obj' = "detached" /\ k.wait[Sem] = << >>),
           DetachIsAlone'
    PROVE  SemaphoreInv' /\ AbstractStep
<1>1. CallsKept /\ pc' \in [Thread -> Steps]
  BY PlaceChange DEF InCall
<1>2. BlockingInv'
  <2>1. k.stat[t] = READY
    BY CallerIsReady DEF SemaphoreInv, InCall
  <2>. QED
    BY <2>1, CallKeeps, SemaphoreWaiters DEF SemaphoreInv, Moves, InCall
<1>3. Status' = Status /\ WaitersKept /\ Granted' = Granted
  BY <1>1, NobodyNotices
<1>4. TokensConserved' /\ NoIdleToken' /\ DetachedIsEmpty'
  BY <1>3 DEF SemaphoreInv, TokensConserved, NoIdleToken, DetachedIsEmpty
<1>5. SemaphoreInv'
  BY <1>1, <1>2, <1>3, <1>4 DEF SemaphoreInv, WaitersKept
<1>6. UNCHANGED Abstract!vars
  BY <1>3 DEF Abstract!vars, Status
<1>. QED
  BY <1>5, <1>6 DEF AbstractStep

\* The first test of the loop, of a semaphore that nobody else detaches.
LEMMA DetachBegins ==
    ASSUME SemaphoreInv, Disciplined, NEW t \in Thread, rt_sem_detach(t)
    PROVE  SemaphoreInv' /\ AbstractStep
<1>1. /\ t = k.cur /\ t # Idle /\ pc[t] = "run" /\ obj = "live" /\ ~Detaching
      /\ Range(k.timers) \cap Range(k.wait[Sem]) = {}
      /\ pc' = [pc EXCEPT ![t] = LoopTest]
      /\ UNCHANGED <<k, isr, value, obj, balance, arrival>>
  BY DEF rt_sem_detach, Calls, Executes, MayUse, Goto
<1>2. LoopTest \in Steps /\ LoopTest \notin InCall
  BY DEF LoopTest, Steps, InCall
<1>3. pc'[t] = LoopTest /\ \A s \in Thread \ {t} : pc'[s] = pc[s] /\ pc[s] \notin DetachSteps
  BY <1>1, <1>2, PlaceChange DEF Detaching, DetachSteps
<1>4. DetachIsAlone'
  BY <1>1, <1>3 DEF DetachIsAlone, LoopTest, DetachSteps
<1>. QED
  BY <1>1, <1>2, <1>4, DetacherMoves DEF InCall

\* The tests of the loop that follow, and rt_object_detach.
LEMMA DetachGoesOn ==
    ASSUME SemaphoreInv, NEW t \in Thread, DetachTest(t) \/ DetachObject(t)
    PROVE  SemaphoreInv' /\ AbstractStep
<1>. DEFINE at == IF pc[t] = "test" THEN LoopTest ELSE "run"
<1>1. /\ t = k.cur /\ pc[t] \in {"test", "object"} /\ pc' = [pc EXCEPT ![t] = at]
      /\ UNCHANGED <<k, isr, value, balance, arrival>>
      /\ pc[t] = "test" => obj' = obj
      /\ pc[t] = "object" => obj' = "detached"
  BY DEF DetachTest, DetachObject, Continues, Executes, Goto
<1>2. t # Idle
  BY <1>1 DEF SemaphoreInv, BlockingInv
<1>3. at \in Steps /\ at \notin InCall
  BY DEF LoopTest, Steps, InCall
<1>. HIDE DEF at
<1>4. pc'[t] = at /\ \A s \in Thread \ {t} : pc'[s] = pc[s] /\ pc[s] \notin DetachSteps
  BY <1>1, <1>3, PlaceChange DEF SemaphoreInv, DetachIsAlone, DetachSteps
<1>5. /\ Detaching /\ obj = "live" /\ Range(k.timers) \cap Range(k.wait[Sem]) = {}
      /\ pc[t] = "object" => k.wait[Sem] = << >>
  BY <1>1 DEF SemaphoreInv, DetachIsAlone, Detaching
<1>6. DetachIsAlone'
  <2>1. CASE pc[t] = "test"
    BY <1>1, <1>4, <1>5, <2>1 DEF DetachIsAlone, LoopTest, DetachSteps, at
  <2>2. CASE pc[t] = "object"
    BY <1>1, <1>4, <1>5, <2>2 DEF DetachIsAlone, Detaching, DetachSteps, at
  <2>. QED
    BY <1>1, <2>1, <2>2
<1>. QED
  BY <1>1, <1>2, <1>3, <1>5, <1>6, DetacherMoves DEF InCall

\* The loop wakes the head with an error.
LEMMA DetachWakeKeeps ==
    ASSUME SemaphoreInv, NEW t \in Thread, DetachWake(t)
    PROVE  SemaphoreInv' /\ AbstractStep
<1>. DEFINE h == Head(k.wait[Sem])
<1>1. /\ t = k.cur /\ pc[t] = "wake" /\ k.wait[Sem] # << >>
      /\ k' = ResumeWithError(k, h) /\ pc' = [pc EXCEPT ![t] = "test"]
      /\ Departures /\ UNCHANGED <<isr, obj, value, balance>>
  BY DEF DetachWake, Continues, Executes, Goto
<1>2. h \in Range(k.wait[Sem]) /\ h \in Thread /\ value = 0 /\ Status[h] = "waiting"
  BY <1>1, HeadWaits
<1>. HIDE DEF h
<1>3. /\ t # Idle /\ k.stat[t] = READY /\ KernelWaits(k) /\ k.stat[h] = SUSPEND
      /\ k.stat \in [Thread -> Stat]
  BY <1>1, <1>2, CallerIsReady, SemaphoreWaiters DEF SemaphoreInv, BlockingInv
<1>4. Wakes(k, k', h, ERROR) /\ k'.cur = k.cur
  <2>1. k' = rt_thread_resume(WithError(k, h, ERROR), h)
    BY <1>1 DEF ResumeWithError, WithError
  <2>. QED
    BY <1>2, <1>3, <2>1, ResumeWakes
<1>5. /\ CallsKept /\ pc' \in [Thread -> Steps] /\ pc'[t] = "test"
      /\ \A s \in Thread \ {t} : pc'[s] = pc[s]
  BY <1>1, PlaceChange DEF Steps, InCall
<1>6. BlockingInv'
  <2>1. KernelWaits(k') /\ k'.cur = t /\ k'.stat[t] = READY
    BY <1>1, <1>2, <1>3, <1>4 DEF Wakes
  <2>2. \A w \in WaitList : Range(k'.wait[w]) \subseteq Range(k.wait[w])
    BY <1>3, <1>4, WokenShrinks
  <2>. QED
    BY <1>1, <1>3, <2>1, <2>2, CallKeeps DEF SemaphoreInv, Moves
<1>7. /\ Status' = [Status EXCEPT ![h] = "failed"]
      /\ Range(k'.wait[Sem]) = Range(k.wait[Sem]) \ {h}
      /\ Range(k'.timers) \subseteq Range(k.timers)
      /\ WaitersKept /\ arrival' = RemoveFirst(arrival, h)
  BY <1>2, <1>4, <1>5, <1>6, <1>1, StatusWoken, WakeNotices DEF ERROR, EOK
<1>8. Granted' = Granted
  BY <1>2, <1>7, GrantedSame DEF Status
<1>9. TokensConserved' /\ NoIdleToken'
  BY <1>1, <1>2, <1>8 DEF SemaphoreInv, TokensConserved, NoIdleToken
<1>10. obj = "live" /\ Range(k.timers) \cap Range(k.wait[Sem]) = {}
  BY <1>1 DEF SemaphoreInv, DetachIsAlone, Detaching
<1>11. \A s \in Thread \ {t} : pc[s] \notin DetachSteps
  BY <1>1 DEF SemaphoreInv, DetachIsAlone, DetachSteps
<1>12. DetachIsAlone' /\ DetachedIsEmpty'
  BY <1>1, <1>5, <1>7, <1>10, <1>11 DEF DetachIsAlone, DetachedIsEmpty, DetachSteps
<1>13. SemaphoreInv'
  BY <1>1, <1>5, <1>6, <1>7, <1>9, <1>12 DEF SemaphoreInv, WaitersKept
<1>14. Abstract!Fail(h)
  <2>1. Abstract!Leave(h, "failed")
    BY <1>7, SameRemoveFirst DEF Abstract!Leave, Status
  <2>. QED
    BY <1>1, <1>2, <2>1 DEF Abstract!Fail, Status
<1>. QED
  BY <1>2, <1>13, <1>14 DEF AbstractStep, Abstract!Next

\* rt_sem_init of a detached semaphore, on which nobody waits.
LEMMA InitKeeps ==
    ASSUME SemaphoreInv, NEW t \in Thread, rt_sem_init(t)
    PROVE  SemaphoreInv' /\ AbstractStep
<1>1. /\ obj = "detached" /\ obj' = "live" /\ arrival' = << >> /\ UNCHANGED <<pc, isr>>
      /\ k' = [k EXCEPT !.wait[Sem] = << >>]
  BY DEF rt_sem_init
<1>2. PICK v \in InitValue : value' = v % VALUE_RANGE /\ balance' = v + Cardinality(Granted)
  BY DEF rt_sem_init
<1>3. k.wait[Sem] = << >> /\ Range(k.wait[Sem]) = {} /\ k \in KernelState /\ Sem \in WaitList
  BY <1>1, SemaphoreWaiters DEF SemaphoreInv, DetachedIsEmpty
<1>4. UNCHANGED k
  <2>1. [k.wait EXCEPT ![Sem] = << >>] = k.wait
    BY <1>3 DEF KernelState
  <2>2. k' = [k EXCEPT !.wait = [k.wait EXCEPT ![Sem] = << >>]]
    BY <1>1
  <2>. QED
    BY <1>3, <2>1, <2>2 DEF KernelState
<1>5. UNCHANGED arrival
  BY <1>1, <1>3, HeadInRange DEF SemaphoreInv, ArrivalsWait
<1>6. Status' = Status /\ WaitersKept /\ Granted' = Granted
  BY <1>1, <1>4, <1>5, NobodyNotices DEF CallsKept
<1>7. TokensConserved' /\ value' \in 0 .. VALUE_RANGE - 1 /\ balance' \in Int
  BY <1>2, <1>6, TokensSet
<1>8. ~Detaching
  BY <1>1 DEF SemaphoreInv, DetachIsAlone
<1>9. DetachIsAlone'
  BY <1>1, <1>8, NobodyDetaches
<1>10. BlockingInv' /\ NoIdleToken' /\ DetachedIsEmpty'
  BY <1>1, <1>3, <1>4 DEF SemaphoreInv, BlockingInv, CurrentMayRun, NoIdleToken, DetachedIsEmpty
<1>11. SemaphoreInv'
  BY <1>1, <1>6, <1>7, <1>9, <1>10 DEF SemaphoreInv, WaitersKept
<1>12. Abstract!Reset
  <2>1. \A s \in Thread : Told(s) # "waiting"
    BY <1>3 DEF Told
  <2>2. Status' = [s \in Thread |-> IF Status[s] = "waiting" THEN "failed" ELSE Status[s]]
    BY <1>6, <2>1 DEF Status
  <2>. QED
    BY <1>1, <1>7, <2>2 DEF Abstract!Reset, Status
<1>. QED
  BY <1>11, <1>12 DEF AbstractStep, Abstract!Next

-----------------------------------------------------------------------------
(* Sleeps, timeouts and context switches *)

\* A step of Blocking takes nobody from a semaphore that is being detached.
LEMMA KernelDetaches ==
    ASSUME SemaphoreInv, Quiet, BlockingInv', obj' = obj,
           Detaching => Range(k'.wait[Sem]) = Range(k.wait[Sem])
    PROVE  DetachIsAlone'
<1>1. \A t \in Thread : pc[t] \in DetachSteps \/ pc'[t] \in DetachSteps => pc'[t] = pc[t]
  BY QuietCalls
<1>2. CASE ~Detaching
  BY <1>1, <1>2, NobodyDetaches
<1>3. CASE Detaching
  <2>1. /\ obj = "live" /\ Range(k.timers) \cap Range(k.wait[Sem]) = {}
        /\ Range(k'.wait[Sem]) = Range(k.wait[Sem])
    BY <1>3 DEF SemaphoreInv, DetachIsAlone
  <2>2. \A t \in Range(k'.wait[Sem]) : pc'[t] # "sleep"
    BY SemaphoreWaiters DEF BlockingInv
  <2>3. Range(k'.timers) \cap Range(k'.wait[Sem]) = {}
    BY <2>1, <2>2 DEF Quiet
  <2>4. k'.wait[Sem] = << >> <=> k.wait[Sem] = << >>
    <3>1. k'.wait[Sem] = << >> <=> Range(k'.wait[Sem]) = {}
      <4>1. Sem \in WaitList /\ KernelWaits(k')
        BY SemaphoreWaiters DEF BlockingInv
      <4>. QED
        BY <4>1, WaitersAreThreads
    <3>2. k.wait[Sem] = << >> <=> Range(k.wait[Sem]) = {}
      BY SemaphoreWaiters
    <3>. QED
      BY <2>1, <3>1, <3>2
  <2>. QED
    BY <1>1, <2>1, <2>3, <2>4 DEF SemaphoreInv, DetachIsAlone, DetachSteps
<1>. QED
  BY <1>2, <1>3

\* A step of Blocking that takes nobody from the semaphore.
LEMMA KernelUnnoticed ==
    ASSUME SemaphoreInv, Quiet, BlockingInv', Departures, UNCHANGED <<value, obj, balance>>,
           k'.wait = k.wait,
           \A t \in Thread : pc[t] \in InCall => k'.error[t] = k.error[t] /\ k'.stat[t] = k.stat[t]
    PROVE  SemaphoreInv' /\ AbstractStep
<1>1. CallsKept /\ pc' \in [Thread -> Steps]
  <2>1. pc' = [t \in Thread |-> pc'[t]]
    BY DEF BlockingInv
  <2>. QED
    BY <2>1, QuietCalls
<1>2. arrival' = arrival
  BY SemaphoreWaiters, NobodyDeparts DEF SemaphoreInv
<1>3. Status' = Status /\ WaitersKept /\ Granted' = Granted
  BY <1>1, <1>2, NobodyNotices DEF Quiet
<1>4. DetachIsAlone'
  BY KernelDetaches
<1>5. TokensConserved' /\ NoIdleToken' /\ DetachedIsEmpty'
  BY <1>3 DEF SemaphoreInv, TokensConserved, NoIdleToken, DetachedIsEmpty
<1>6. SemaphoreInv'
  BY <1>1, <1>3, <1>4, <1>5 DEF SemaphoreInv, WaitersKept
<1>7. UNCHANGED Abstract!vars
  BY <1>2, <1>3 DEF Abstract!vars, Status
<1>. QED
  BY <1>6, <1>7 DEF AbstractStep

\* A timeout that ends a wait: the caller is told so, and the token count stays.
LEMMA TimeoutKeeps ==
    ASSUME SemaphoreInv, Quiet, BlockingInv', Departures, UNCHANGED <<value, obj, balance>>,
           NEW t \in Range(k.wait[Sem]), TimesOut(t)
    PROVE  SemaphoreInv' /\ AbstractStep
<1>1. /\ Wakes(k, k', t, ETIMEOUT) /\ pc' = pc /\ t \in Range(k.timers) /\ t \in Thread
      /\ Status[t] = "waiting"
  BY SemaphoreWaiters DEF TimesOut
<1>2. CallsKept /\ pc' \in [Thread -> Steps]
  BY <1>1 DEF CallsKept, SemaphoreInv
<1>3. /\ Status' = [Status EXCEPT ![t] = "failed"]
      /\ Range(k'.wait[Sem]) = Range(k.wait[Sem]) \ {t}
      /\ WaitersKept /\ arrival' = RemoveFirst(arrival, t)
  BY <1>1, <1>2, StatusWoken, WakeNotices DEF ETIMEOUT, EOK
<1>4. Granted' = Granted
  BY <1>1, <1>3, GrantedSame DEF Status
<1>5. ~Detaching
  BY <1>1 DEF SemaphoreInv, DetachIsAlone
<1>6. DetachIsAlone'
  BY <1>5, KernelDetaches
<1>7. TokensConserved' /\ NoIdleToken' /\ DetachedIsEmpty'
  <2>1. k.wait[Sem] # << >>
    BY SemaphoreWaiters
  <2>2. value = 0 /\ obj = "live"
    BY <2>1, HeadWaits DEF SemaphoreInv, DetachedIsEmpty
  <2>. QED
    BY <1>4, <2>2 DEF SemaphoreInv, TokensConserved, NoIdleToken, DetachedIsEmpty
<1>8. SemaphoreInv'
  BY <1>2, <1>3, <1>6, <1>7 DEF SemaphoreInv, WaitersKept
<1>9. Abstract!Fail(t)
  <2>1. Abstract!Leave(t, "failed")
    BY <1>3, SameRemoveFirst DEF Abstract!Leave, Status
  <2>. QED
    BY <1>1, <2>1 DEF Abstract!Fail, Status
<1>. QED
  BY <1>1, <1>8, <1>9 DEF AbstractStep, Abstract!Next

\* The steps of Blocking.
LEMMA KernelKeeps ==
    ASSUME SemaphoreInv, KernelStep
    PROVE  SemaphoreInv' /\ AbstractStep
<1>1. /\ BlockingInv' /\ Quiet /\ Departures /\ UNCHANGED <<value, obj, balance>>
  BY BlockingStep DEF KernelStep, SemaphoreInv
<1>2. CASE NobodyLeaves
  <2>1. k'.wait = k.wait
    BY <1>2 DEF NobodyLeaves
  <2>2. \A t \in Thread : pc[t] \in InCall => k'.error[t] = k.error[t] /\ k'.stat[t] = k.stat[t]
    BY <1>2 DEF NobodyLeaves, InCall
  <2>. QED
    BY <1>1, <2>1, <2>2, KernelUnnoticed
<1>3. ASSUME NEW t \in Thread, TimesOut(t) PROVE SemaphoreInv' /\ AbstractStep
  <2>1. CASE t \in Range(k.wait[Sem])
    BY <1>1, <1>3, <2>1, TimeoutKeeps
  <2>2. CASE t \notin Range(k.wait[Sem])
    <3>1. /\ k.stat[t] = SUSPEND /\ WaitList = {Sem}
          /\ k.wait \in [WaitList -> Seq(Thread)] /\ k.stat \in [Thread -> Stat]
          /\ k.error \in [Thread -> {EOK, ERROR, ETIMEOUT, EINTR}]
      BY <1>3, SemaphoreWaiters, SemaphoreConstants, WaitersAreThreads DEF TimesOut
    <3>2. /\ k'.stat = [k.stat EXCEPT ![t] = READY] /\ k'.error = [k.error EXCEPT ![t] = ETIMEOUT]
          /\ k'.wait = WithoutWaiter(k, t)
      BY <1>3 DEF TimesOut, Wakes
    <3>3. RemoveFirst(k.wait[Sem], t) = k.wait[Sem]
      BY <2>2, <3>1, RemoveFirstSeq
    <3>4. k'.wait = k.wait
      BY <3>1, <3>2, <3>3 DEF WithoutWaiter
    <3>5. pc[t] \notin InCall
      BY <2>2, <3>1, StatesDiffer DEF SemaphoreInv, LeaversAreReady
    <3>6. \A s \in Thread : pc[s] \in InCall => k'.error[s] = k.error[s] /\ k'.stat[s] = k.stat[s]
      BY <3>1, <3>2, <3>5
    <3>. QED
      BY <1>1, <3>4, <3>6, KernelUnnoticed
  <2>. QED
    BY <2>1, <2>2
<1>. QED
  BY <1>1, <1>2, <1>3 DEF Quiet

-----------------------------------------------------------------------------
(* The theorems *)

\* A semaphore starts with nobody waiting and all its tokens.
LEMMA SemaphoreStarts ==
    ASSUME Init
    PROVE  SemaphoreInv /\ Abstract!Init
<1>1. /\ BlockingInv /\ k.wait[Sem] = << >> /\ k.prio = InitPriority
      /\ pc = [t \in Thread |-> "run"] /\ obj = "live" /\ arrival = << >>
  BY InitBlocking, SemaphoreConstants DEF Init, BlockingInit
<1>2. PICK v \in InitValue : value = v % VALUE_RANGE /\ balance = v
  BY DEF Init
<1>3. Range(<< >>) = {}
  BY DEF Range
<1>4. /\ \A t \in Thread : Told(t) = "idle"
      /\ pc \in [Thread -> Steps] /\ LeaversAreReady /\ DetachIsAlone
  BY <1>1, <1>3 DEF Told, InCall, Steps, LeaversAreReady, DetachIsAlone, Detaching, DetachSteps
<1>5. Granted = {}
  BY <1>4, GrantedAreTold DEF Status
<1>6. Cardinality(Granted) = 0
  BY <1>5, FS_EmptySet
<1>7. PICK m \in 0 .. VALUE_RANGE - 1 : v % VALUE_RANGE = m /\ (v - m) % VALUE_RANGE = 0
  BY SemaphoreConstants, TokensReset
<1>8. v \in Nat /\ VALUE_RANGE \in Nat
  BY SemaphoreConstants
<1>9. value = m /\ m \in Int
  BY <1>2, <1>7, <1>8
<1>10. balance - value - Cardinality(Granted) = v - m
  BY <1>2, <1>6, <1>8, <1>9
<1>11. TokensConserved /\ value \in 0 .. VALUE_RANGE - 1 /\ balance \in Int
  BY <1>2, <1>7, <1>8, <1>9, <1>10 DEF TokensConserved
<1>12. ArrivalsWait /\ InServiceOrder(k.wait[Sem], arrival)
  BY <1>1, <1>3 DEF ArrivalsWait, InServiceOrder, IsInjective
<1>13. SemaphoreInv
  BY <1>1, <1>4, <1>11, <1>12 DEF SemaphoreInv, NoIdleToken, DetachedIsEmpty
<1>14. Abstract!Init
  BY <1>1, <1>4, <1>11 DEF Abstract!Init
<1>. QED
  BY <1>13, <1>14

\* Every step keeps the invariant, and is one of AbstractSemaphore or none.
LEMMA SemaphoreStep ==
    ASSUME Disciplined, SemaphoreInv, [Next]_vars
    PROVE  SemaphoreInv' /\ AbstractStep
<1>1. CASE KernelStep
  BY <1>1, KernelKeeps
<1>2. CASE DeviceRelease
  BY <1>2, DeviceReleaseKeeps
<1>3. ASSUME NEW t \in Thread, SemaphoreCall(t)
      PROVE  SemaphoreInv' /\ AbstractStep
  BY <1>3, TakeAvailableKeeps, TakeUnavailableKeeps, TakeReturnKeeps, ReleaseKeeps,
     ControlKeeps, CriticalKeeps, DetachBegins, DetachGoesOn, DetachWakeKeeps, InitKeeps
     DEF SemaphoreCall
<1>4. CASE UNCHANGED vars
  <2>1. UNCHANGED <<k, pc, isr, value, obj, balance, arrival>>
    BY <1>4 DEF vars
  <2>2. Status' = Status /\ WaitersKept /\ Granted' = Granted
    BY <2>1, NobodyNotices DEF CallsKept
  <2>3. BlockingInv' /\ DetachIsAlone' /\ TokensConserved' /\ NoIdleToken' /\ DetachedIsEmpty'
    BY <2>1, <2>2 DEF SemaphoreInv, BlockingInv, CurrentMayRun, DetachIsAlone, Detaching,
                      TokensConserved, NoIdleToken, DetachedIsEmpty
  <2>4. SemaphoreInv'
    BY <2>1, <2>2, <2>3 DEF SemaphoreInv, WaitersKept
  <2>. QED
    BY <2>1, <2>2, <2>4 DEF AbstractStep, Abstract!vars, Status
<1>. QED
  BY <1>1, <1>2, <1>3, <1>4 DEF Next

\* The invariant says what the run checks.
LEMMA SemaphoreInvHolds ==
    ASSUME SemaphoreInv
    PROVE  SemaphoreInvariant
<1>1. k \in KernelState /\ WaitersLeave
  BY SemaphoreWaiters, InvWaitersLeave DEF SemaphoreInv
<1>2. TypeOK
  BY <1>1 DEF TypeOK, SemaphoreInv, BlockingInv, ArrivalsWait
<1>3. WakesThread
  BY DEF WakesThread, Continues, SemaphoreInv, DetachIsAlone
<1>. QED
  BY <1>1, <1>2, <1>3 DEF SemaphoreInvariant, SemaphoreInv

\* No token is lost, made up or idle beside a waiter, and a detach wakes
\* threads only and all of them: rt_sem_take, rt_sem_release, rt_sem_control and
\* rt_sem_detach, with timeouts and interrupts in between, of threads that do
\* not use a semaphore that is being detached.
THEOREM SemaphoreIsSafe ==
    ASSUME Disciplined
    PROVE  Spec => []SemaphoreInvariant
<1>1. Init => SemaphoreInv
  BY SemaphoreStarts
<1>2. SemaphoreInv /\ [Next]_vars => SemaphoreInv'
  BY SemaphoreStep
<1>3. SemaphoreInv => SemaphoreInvariant
  BY SemaphoreInvHolds
<1>. QED
  BY <1>1, <1>2, <1>3, PTL DEF Spec

\* The semaphore implements AbstractSemaphore: every caller is served in the
\* order of arrival or of priority, and told what happened to it.
THEOREM SemaphoreRefines ==
    ASSUME Disciplined
    PROVE  Spec => Refinement
<1>1. Init => SemaphoreInv /\ Abstract!Init
  BY SemaphoreStarts
<1>2. SemaphoreInv /\ [Next]_vars => SemaphoreInv' /\ [Abstract!Next]_(Abstract!vars)
  BY SemaphoreStep DEF AbstractStep
<1>. QED
  BY <1>1, <1>2, PTL DEF Spec, Refinement, Abstract!Spec

=============================================================================
