--------------------------- MODULE ServiceProofs ----------------------------
(***************************************************************************)
(* The work queue, the serial driver, the AT client and the heap of mem.c: *)
(* their invariants for every number of users and every size of their      *)
(* buffers.                                                                *)
(***************************************************************************)
EXTENDS AtClient, Heap, Workqueue, Serial, KernelProofs, FiniteSetTheorems

(* The work queue and the serial driver *)

-----------------------------------------------------------------------------
(* The work queue *)

UserType == [at : {"run", "resume", "wait", "woken", "walk", "remove"},
             work : Work \cup {NoWork}, next : Work \cup {NoWork}]

WqTypeOK ==
    /\ wq \in [work_list : Seq(Work), work_current : Work \cup {NoWork}, waiting : Seq(Caller)]
    /\ worker \in [at : {"test", "suspend", "take", "work", "ack"},
                   stat : {"ready", "suspended", "asleep"}]
    /\ user \in [Caller -> UserType]
    /\ missed \in BOOLEAN

\* There is a work in progress just while the worker is in its function.
InProgress == wq.work_current # NoWork <=> worker.at = "work"

\* Who waits is in the list of the semaphore, for the work in progress or for
\* the acknowledgement of it.
WaitersListed ==
    /\ \A t \in Caller : user[t].at = "wait" <=> t \in Range(wq.waiting)
    /\ \A t \in Range(wq.waiting) :
         \/ worker.at = "work" /\ wq.work_current = user[t].work
         \/ worker.at = "ack"

WqInv ==
    /\ WqTypeOK
    /\ InProgress
    /\ WaitersListed

\* Where the worker sleeps, and why it goes to sleep beside a work: whoever
\* queued it has yet to resume the worker, or did so in the window.
WqSeen ==
    /\ worker.stat = "asleep" => worker.at = "work"
    /\ worker.stat = "suspended" => worker.at = "take"
    /\ (worker.at = "suspend" \/ worker.stat = "suspended") /\ wq.work_list # << >> =>
         missed \/ \E t \in Caller : user[t].at = "resume"

\* A caller that waits joins the list.
LEMMA AppendRange ==
    ASSUME NEW T, NEW s \in Seq(T), NEW e \in T
    PROVE  Append(s, e) \in Seq(T) /\ Range(Append(s, e)) = Range(s) \cup {e}
<1>1. /\ Append(s, e) \in Seq(T) /\ Len(Append(s, e)) = Len(s) + 1
      /\ \A i \in 1 .. Len(s) : Append(s, e)[i] = s[i]
      /\ Append(s, e)[Len(s) + 1] = e
  BY AppendProperties
<1>2. Len(s) \in Nat /\ DOMAIN s = 1 .. Len(s) /\ DOMAIN Append(s, e) = 1 .. Len(s) + 1
  BY <1>1
<1>3. \A i \in 1 .. Len(s) + 1 : i \in 1 .. Len(s) \/ i = Len(s) + 1
  BY <1>2
<1>. QED
  BY <1>1, <1>2, <1>3 DEF Range

\* The queue after a work was moved or removed, and what follows a work in it.
LEMMA WqLists ==
    ASSUME WqTypeOK, NEW w
    PROVE  /\ RemoveFirst(wq.work_list, w) \in Seq(Work)
           /\ w \in Work => /\ Append(RemoveFirst(wq.work_list, w), w) \in Seq(Work)
                            /\ Append(RemoveFirst(wq.work_list, w), w) # << >>
           /\ NextOf(w) \in Work \cup {NoWork}
<1>1. wq.work_list \in Seq(Work)
  BY DEF WqTypeOK
<1>2. RemoveFirst(wq.work_list, w) \in Seq(Work)
  BY <1>1, RemoveFirstSeq
<1>3. NextOf(w) \in Work \cup {NoWork}
  <2>. DEFINE i == CHOOSE i \in DOMAIN wq.work_list : wq.work_list[i] = w
  <2>1. CASE w \in Range(wq.work_list) /\ i < Len(wq.work_list)
    <3>1. \E n \in DOMAIN wq.work_list : wq.work_list[n] = w
      BY <2>1 DEF Range
    <3>2. i \in DOMAIN wq.work_list
      BY <3>1
    <3>. HIDE DEF i
    <3>3. wq.work_list[i + 1] \in Work
      BY <1>1, <2>1, <3>2
    <3>. QED
      BY <2>1, <3>3 DEF NextOf, i
  <2>2. CASE ~(w \in Range(wq.work_list) /\ i < Len(wq.work_list))
    BY <2>2 DEF NextOf
  <2>. QED
    BY <2>1, <2>2
<1>. QED
  BY <1>2, <1>3

\* Who neither starts nor ends a wait: what the steps of a caller that does not
\* wait, and of an interrupt, do to it.
OthersWait ==
    /\ user' \in [Caller -> UserType]
    /\ \A t \in Caller : /\ user'[t].at = "wait" <=> user[t].at = "wait"
                         /\ user[t].at = "wait" => user'[t].work = user[t].work

\* A step of one caller that neither begins nor ends a wait leaves who waits alone.
LEMMA WqOneUser ==
    ASSUME WqTypeOK, NEW t \in Caller, NEW r \in UserType,
           user' = [user EXCEPT ![t] = r], user[t].at # "wait", r.at # "wait"
    PROVE  OthersWait
BY DEF WqTypeOK, OthersWait

\* A work in progress is never the worker's to take, and the acknowledgement of
\* it wakes all who wait.
LEMMA WqStep ==
    ASSUME WqInv, [WorkqueueNext]_workqueueVars
    PROVE  WqInv'
<1>. USE DEF WqInv
<1>0. NoWork \notin Work
  BY WorkqueueConstants
<1>1. /\ wq.work_list \in Seq(Work) /\ wq.work_current \in Work \cup {NoWork}
      /\ wq.waiting \in Seq(Caller)
      /\ wq = [work_list |-> wq.work_list, work_current |-> wq.work_current,
               waiting |-> wq.waiting]
      /\ worker = [at |-> worker.at, stat |-> worker.stat]
      /\ worker.at \in {"test", "suspend", "take", "work", "ack"}
      /\ worker.stat \in {"ready", "suspended", "asleep"}
      /\ user = [t \in Caller |-> user[t]]
      /\ \A t \in Caller : /\ user[t] \in UserType
                           /\ user[t] = [at |-> user[t].at, work |-> user[t].work,
                                         next |-> user[t].next]
  BY DEF WqTypeOK, UserType
<1>2. ASSUME NEW l \in Seq(Work), wq' = [wq EXCEPT !.work_list = l],
             worker'.at = worker.at, worker' \in [at : {worker.at}, stat : {"ready", worker.stat}],
             missed' \in BOOLEAN, user' = user \/ OthersWait
      PROVE  WqInv'
  <2>1. /\ wq'.work_current = wq.work_current /\ wq'.waiting = wq.waiting
        /\ wq' \in [work_list : Seq(Work), work_current : Work \cup {NoWork},
                    waiting : Seq(Caller)]
    BY <1>1, <1>2
  <2>2. OthersWait
    BY <1>2 DEF OthersWait, WqTypeOK
  <2>3. Range(wq.waiting) \subseteq Caller
    BY <1>1 DEF Range
  <2>4. WqTypeOK' /\ InProgress'
    BY <1>1, <1>2, <2>1, <2>2 DEF WqTypeOK, InProgress, OthersWait
  <2>5. WaitersListed'
    BY <1>2, <2>1, <2>2, <2>3 DEF WaitersListed, OthersWait
  <2>. QED
    BY <2>4, <2>5
<1>3. ASSUME UNCHANGED <<wq, user>>, missed' \in BOOLEAN,
             worker.at \in {"test", "suspend", "take"},
             worker' \in [at : {"test", "suspend", "take"},
                          stat : {"ready", "suspended", "asleep"}]
      PROVE  WqInv'
  BY <1>3 DEF WqTypeOK, InProgress, WaitersListed
<1>4. ASSUME UNCHANGED <<wq, user>>, missed' \in BOOLEAN, worker'.at = worker.at,
             worker' \in [at : {worker.at}, stat : {"ready", "suspended", "asleep"}]
      PROVE  WqInv'
  BY <1>4 DEF WqTypeOK, InProgress, WaitersListed
<1>5. CASE WorkerTest
  BY <1>1, <1>3, <1>5 DEF WorkerTest, WorkerAt, WqTypeOK
<1>6. CASE WorkerSuspend
  BY <1>1, <1>3, <1>6 DEF WorkerSuspend, WorkerAt, WqTypeOK
<1>7. CASE WorkerTake
  <2>1. /\ wq.work_list # << >> /\ worker.at = "take"
        /\ wq' = [work_list |-> Tail(wq.work_list), work_current |-> Head(wq.work_list),
                  waiting |-> wq.waiting]
        /\ worker' = [at |-> "work", stat |-> worker.stat] /\ UNCHANGED <<user, missed>>
    BY <1>1, <1>7 DEF WorkerTake, WorkerAt
  <2>2. Tail(wq.work_list) \in Seq(Work) /\ Head(wq.work_list) \in Work
    BY <1>1, <2>1
  <2>3. Range(wq.waiting) = {}
    BY <1>0, <2>1 DEF WaitersListed, InProgress, WqTypeOK, Range
  <2>. QED
    BY <1>0, <2>1, <2>2, <2>3 DEF WqTypeOK, InProgress, WaitersListed
<1>8. CASE WorkSleeps
  BY <1>1, <1>4, <1>8 DEF WorkSleeps, WqTypeOK
<1>9. CASE WorkWakes
  BY <1>1, <1>4, <1>9 DEF WorkWakes, WqTypeOK
<1>10. CASE WorkerClear
  BY <1>1, <1>10 DEF WorkerClear, WorkerAt, WqTypeOK, InProgress, WaitersListed
<1>11. CASE WorkerAck
  <2>1. /\ wq' = [work_list |-> wq.work_list, work_current |-> wq.work_current,
                  waiting |-> << >>]
        /\ worker' = [at |-> "test", stat |-> worker.stat] /\ UNCHANGED missed
        /\ worker.at = "ack"
    BY <1>1, <1>11 DEF WorkerAck, WorkerAt
  <2>2. /\ user' \in [Caller -> UserType]
        /\ \A t \in Caller : user'[t].at # "wait"
    BY <1>11 DEF WorkerAck, WqTypeOK, UserType, WaitersListed
  <2>3. Range(<< >>) = {}
    BY DEF Range
  <2>. QED
    BY <2>1, <2>2, <2>3 DEF WqTypeOK, InProgress, WaitersListed
<1>12. ASSUME NEW t \in Caller, CallerStep(t) PROVE WqInv'
  <2>0. ASSUME NEW r \in UserType, user' = [user EXCEPT ![t] = r], user[t].at # "wait", r.at # "wait"
        PROVE  OthersWait
    BY <2>0, WqOneUser
  <2>1. CASE rt_workqueue_dowork(t)
    <3>1. PICK w \in Work : wq' = QueuedLast(w)
      BY <1>12, <2>1 DEF rt_workqueue_dowork
    <3>2. PICK pt \in {"run", "resume"} : user' = [user EXCEPT ![t].at = pt]
      BY <2>1 DEF rt_workqueue_dowork
    <3>3. user[t].at = "run" /\ UNCHANGED <<worker, missed>>
      BY <2>1 DEF rt_workqueue_dowork, MayCall
    <3>4. PICK l \in Seq(Work) : wq' = [wq EXCEPT !.work_list = l]
      BY <3>1, WqLists DEF QueuedLast
    <3>5. OthersWait
      BY <1>1, <3>2, <3>3 DEF OthersWait, UserType
    <3>. QED
      BY <1>1, <1>2, <3>3, <3>4, <3>5 DEF WqTypeOK
  <2>2. CASE DoworkResume(t)
    <3>1. /\ user' = [user EXCEPT ![t].at = "run"] /\ user[t].at = "resume"
          /\ worker' = [at |-> worker.at, stat |-> "ready"] /\ missed' \in BOOLEAN
          /\ wq' = [wq EXCEPT !.work_list = wq.work_list]
      BY <1>1, <2>2 DEF DoworkResume, ResumeWorker, WqTypeOK
    <3>2. OthersWait
      BY <1>1, <3>1 DEF OthersWait, UserType
    <3>. QED
      BY <1>1, <1>2, <3>1, <3>2
  <2>3. CASE rt_workqueue_cancel_work(t)
    <3>1. PICK w \in Work : wq' = [wq EXCEPT !.work_list = RemoveFirst(@, w)]
      BY <2>3 DEF rt_workqueue_cancel_work
    <3>2. PICK l \in Seq(Work) : wq' = [wq EXCEPT !.work_list = l]
      BY <3>1, WqLists
    <3>. QED
      BY <1>1, <1>2, <2>3, <3>2 DEF rt_workqueue_cancel_work, WqTypeOK
  <2>4. CASE rt_workqueue_cancel_work_sync(t)
    <3>1. PICK w \in Work :
            IF wq.work_current = w
            THEN /\ wq' = [wq EXCEPT !.waiting = Append(@, t)]
                 /\ user' = [user EXCEPT ![t] = UserAt("wait", w)]
            ELSE wq' = [wq EXCEPT !.work_list = RemoveFirst(@, w)] /\ UNCHANGED user
      BY <2>4 DEF rt_workqueue_cancel_work_sync
    <3>2. UNCHANGED <<worker, missed>> /\ user[t].at = "run"
      BY <2>4 DEF rt_workqueue_cancel_work_sync, MayCall
    <3>3. CASE wq.work_current # w
      <4>1. PICK l \in Seq(Work) : wq' = [wq EXCEPT !.work_list = l]
        BY <3>1, <3>3, WqLists
      <4>. QED
        BY <1>1, <1>2, <3>1, <3>2, <3>3, <4>1 DEF WqTypeOK
    <3>4. CASE wq.work_current = w
      <4>1. /\ wq' = [work_list |-> wq.work_list, work_current |-> w,
                      waiting |-> Append(wq.waiting, t)]
            /\ user' = [user EXCEPT ![t] = [at |-> "wait", work |-> w, next |-> NoWork]]
        BY <1>1, <3>1, <3>4 DEF UserAt
      <4>2. /\ Append(wq.waiting, t) \in Seq(Caller)
            /\ Range(Append(wq.waiting, t)) = Range(wq.waiting) \cup {t}
        BY <1>1, AppendRange
      <4>3. Range(wq.waiting) \subseteq Caller
        BY <1>1 DEF Range
      <4>4. worker.at = "work"
        BY <1>0, <3>4 DEF InProgress
      <4>5. /\ user' \in [Caller -> UserType]
            /\ user'[t].at = "wait" /\ user'[t].work = w
            /\ \A u \in Caller \ {t} : user'[u] = user[u]
        BY <4>1 DEF WqTypeOK, UserType
      <4>6. WqTypeOK' /\ InProgress'
        BY <3>2, <3>4, <4>1, <4>2, <4>4, <4>5 DEF WqTypeOK, InProgress
      <4>7. WaitersListed'
        BY <3>2, <3>4, <4>1, <4>2, <4>3, <4>4, <4>5 DEF WaitersListed
      <4>. QED
        BY <4>6, <4>7
    <3>. QED
      BY <3>3, <3>4
  <2>5. CASE CancelReturn(t)
    <3>1. /\ UNCHANGED <<worker, missed>> /\ wq' = [wq EXCEPT !.work_list = wq.work_list]
          /\ user' = [user EXCEPT ![t] = UserAt("run", NoWork)] /\ user[t].at = "woken"
      BY <1>1, <2>5 DEF CancelReturn
    <3>2. UserAt("run", NoWork) \in UserType /\ UserAt("run", NoWork).at # "wait"
      BY DEF UserAt, UserType
    <3>3. OthersWait
      BY <2>0, <3>1, <3>2
    <3>. QED
      BY <1>1, <1>2, <3>1, <3>3 DEF WqTypeOK
  <2>6. ASSUME NEW w \in Work \cup {NoWork}
        PROVE  CancelAllFrom(w) \in UserType /\ CancelAllFrom(w).at # "wait"
    BY DEF CancelAllFrom, UserAt, UserType
  <2>7. CASE rt_workqueue_cancel_all_work(t)
    <3>. DEFINE w == IF wq.work_list = << >> THEN NoWork ELSE Head(wq.work_list)
    <3>1. /\ UNCHANGED <<worker, missed>> /\ wq' = [wq EXCEPT !.work_list = wq.work_list]
          /\ user' = [user EXCEPT ![t] = CancelAllFrom(w)] /\ user[t].at = "run"
      BY <1>1, <2>7 DEF rt_workqueue_cancel_all_work, MayCall
    <3>2. w \in Work \cup {NoWork}
      BY <1>1
    <3>. HIDE DEF w
    <3>3. OthersWait
      BY <2>0, <2>6, <3>1, <3>2
    <3>. QED
      BY <1>1, <1>2, <3>1, <3>3 DEF WqTypeOK
  <2>8. CASE CancelAllNext(t)
    <3>1. /\ UNCHANGED <<worker, missed>> /\ wq' = [wq EXCEPT !.work_list = wq.work_list]
          /\ user' = [user EXCEPT ![t].at = "remove", ![t].next = NextOf(user[t].work)]
          /\ user[t].at = "walk"
      BY <1>1, <2>8 DEF CancelAllNext
    <3>2. NextOf(user[t].work) \in Work \cup {NoWork}
      BY WqLists
    <3>3. OthersWait
      BY <1>1, <3>1, <3>2 DEF OthersWait, UserType
    <3>. QED
      BY <1>1, <1>2, <3>1, <3>3 DEF WqTypeOK
  <2>9. CASE CancelAllRemove(t)
    <3>1. /\ UNCHANGED <<worker, missed>> /\ user[t].at = "remove"
          /\ wq' = [wq EXCEPT !.work_list = RemoveFirst(@, user[t].work)]
          /\ user' = [user EXCEPT ![t] = CancelAllFrom(user[t].next)]
      BY <2>9 DEF CancelAllRemove
    <3>2. user[t].next \in Work \cup {NoWork}
      BY <1>1 DEF UserType
    <3>3. PICK l \in Seq(Work) : wq' = [wq EXCEPT !.work_list = l]
      BY <3>1, WqLists
    <3>4. OthersWait
      BY <2>0, <2>6, <3>1, <3>2
    <3>. QED
      BY <1>1, <1>2, <3>1, <3>3, <3>4 DEF WqTypeOK
  <2>. QED
    BY <1>12, <2>1, <2>2, <2>3, <2>4, <2>5, <2>7, <2>8, <2>9 DEF CallerStep
<1>13. CASE DeviceDowork
  <2>1. PICK w \in Work : wq' = QueuedLast(w)
    BY <1>13 DEF DeviceDowork
  <2>2. PICK l \in Seq(Work) : wq' = [wq EXCEPT !.work_list = l]
    BY <2>1, WqLists DEF QueuedLast
  <2>3. /\ worker' \in [at : {worker.at}, stat : {"ready", worker.stat}]
        /\ missed' \in BOOLEAN /\ UNCHANGED user
    BY <1>1, <1>13 DEF DeviceDowork, ResumeWorker, WqTypeOK
  <2>. QED
    BY <1>2, <2>2, <2>3
<1>14. CASE UNCHANGED workqueueVars
  BY <1>14 DEF workqueueVars, WqTypeOK, InProgress, WaitersListed
<1>. QED
  BY <1>5, <1>6, <1>7, <1>8, <1>9, <1>10, <1>11, <1>12, <1>13, <1>14
     DEF WorkqueueNext, WorkerStep

\* What is left of the list after a work is cancelled is no longer than before.
LEMMA WqRemoved ==
    ASSUME WqTypeOK, NEW w, RemoveFirst(wq.work_list, w) # << >>
    PROVE  wq.work_list # << >>
<1>. SUFFICES ASSUME wq.work_list = << >> PROVE RemoveFirst(wq.work_list, w) = << >>
  OBVIOUS
<1>1. w \notin Range(wq.work_list)
  BY DEF Range
<1>. QED
  BY <1>1, RemoveFirstSeq DEF WqTypeOK

\* The worker's own steps leave no work behind, a work that is queued while
\* the worker is not in a work function is followed by a resume, and a resume
\* wakes the worker or is missed.
LEMMA WqSeenStep ==
    ASSUME WqInv, WqSeen, [WorkqueueNext]_workqueueVars
    PROVE  WqSeen'
<1>0. NoWork \notin Work
  BY WorkqueueConstants
<1>1. /\ wq.work_list \in Seq(Work) /\ wq.work_current \in Work \cup {NoWork}
      /\ wq = [work_list |-> wq.work_list, work_current |-> wq.work_current,
               waiting |-> wq.waiting]
      /\ worker = [at |-> worker.at, stat |-> worker.stat]
      /\ worker.stat \in {"ready", "suspended", "asleep"}
      /\ user \in [Caller -> UserType] /\ user = [t \in Caller |-> user[t]]
      /\ \A t \in Caller : user[t] = [at |-> user[t].at, work |-> user[t].work,
                                      next |-> user[t].next]
  BY DEF WqInv, WqTypeOK, UserType
<1>2. ASSUME UNCHANGED <<worker, missed>>,
             wq'.work_list # << >> => wq.work_list # << >>,
             \A t \in Caller : user[t].at = "resume" => user'[t].at = "resume"
      PROVE  WqSeen'
  BY <1>2 DEF WqSeen
<1>3. ASSUME UNCHANGED <<wq, user, missed>>, worker'.at \notin {"suspend", "take"}, worker'.stat = "ready"
      PROVE  WqSeen'
  BY <1>3 DEF WqSeen
<1>4. CASE WorkerTest
  <2>1. UNCHANGED <<wq, user, missed>> /\ worker'.stat = "ready"
        /\ worker'.at = IF wq.work_list = << >> THEN "suspend" ELSE "take"
    BY <1>1, <1>4 DEF WorkerTest, WorkerAt
  <2>. QED
    BY <2>1 DEF WqSeen
<1>5. CASE WorkerSuspend
  BY <1>1, <1>5 DEF WorkerSuspend, WorkerAt, WqSeen
<1>6. CASE WorkerTake
  <2>1. worker'.stat = "ready" /\ worker'.at = "work"
    BY <1>1, <1>6 DEF WorkerTake, WorkerAt
  <2>. QED
    BY <2>1 DEF WqSeen
<1>7. CASE WorkSleeps
  BY <1>1, <1>7 DEF WorkSleeps, WorkerAt, WqSeen
<1>8. CASE WorkWakes
  BY <1>1, <1>8 DEF WorkWakes, WqSeen
<1>9. CASE WorkerClear
  <2>1. worker'.stat = "ready" /\ worker'.at = "ack"
    BY <1>1, <1>9 DEF WorkerClear, WorkerAt
  <2>. QED
    BY <2>1 DEF WqSeen
<1>10. CASE WorkerAck
  <2>1. worker'.stat = "ready" /\ worker'.at = "test"
    BY <1>1, <1>10 DEF WorkerAck, WorkerAt
  <2>. QED
    BY <2>1 DEF WqSeen
<1>11. ASSUME NEW t \in Caller, CallerStep(t) PROVE WqSeen'
  <2>1. CASE rt_workqueue_dowork(t)
    <3>1. UNCHANGED <<worker, missed>> /\ user[t].at = "run"
          /\ user' = [user EXCEPT
                        ![t].at = IF wq.work_current = NoWork THEN "resume" ELSE "run"]
      BY <2>1 DEF rt_workqueue_dowork, MayCall
    <3>2. CASE wq.work_current = NoWork
      <4>1. user'[t].at = "resume"
        BY <1>1, <3>1, <3>2
      <4>. QED
        BY <3>1, <4>1 DEF WqSeen
    <3>3. CASE wq.work_current # NoWork
      <4>1. worker.at = "work"
        BY <3>3 DEF WqInv, InProgress
      <4>. QED
        BY <3>1, <4>1 DEF WqSeen
    <3>. QED
      BY <3>2, <3>3
  <2>2. CASE DoworkResume(t)
    <3>1. /\ UNCHANGED wq /\ worker' = [at |-> worker.at, stat |-> "ready"]
          /\ missed' = (worker.at = "suspend" /\ wq'.work_list # << >>)
      BY <1>1, <2>2 DEF DoworkResume, ResumeWorker
    <3>. QED
      BY <3>1 DEF WqSeen
  <2>3. CASE rt_workqueue_cancel_work(t)
    <3>1. PICK w \in Work : wq' = [wq EXCEPT !.work_list = RemoveFirst(@, w)]
      BY <2>3 DEF rt_workqueue_cancel_work
    <3>2. UNCHANGED <<worker, user, missed>>
      BY <2>3 DEF rt_workqueue_cancel_work
    <3>3. wq'.work_list = RemoveFirst(wq.work_list, w)
      BY <1>1, <3>1
    <3>. QED
      BY <1>2, <3>2, <3>3, WqRemoved DEF WqInv
  <2>4. CASE rt_workqueue_cancel_work_sync(t)
    <3>1. PICK w \in Work :
            IF wq.work_current = w
            THEN /\ wq' = [wq EXCEPT !.waiting = Append(@, t)]
                 /\ user' = [user EXCEPT ![t] = UserAt("wait", w)]
            ELSE wq' = [wq EXCEPT !.work_list = RemoveFirst(@, w)] /\ UNCHANGED user
      BY <2>4 DEF rt_workqueue_cancel_work_sync
    <3>2. UNCHANGED <<worker, missed>> /\ user[t].at = "run"
      BY <2>4 DEF rt_workqueue_cancel_work_sync, MayCall
    <3>3. CASE wq.work_current # w
      <4>1. wq'.work_list = RemoveFirst(wq.work_list, w) /\ UNCHANGED user
        BY <1>1, <3>1, <3>3
      <4>. QED
        BY <1>2, <3>2, <4>1, WqRemoved DEF WqInv
    <3>4. CASE wq.work_current = w
      <4>1. wq'.work_list = wq.work_list
            /\ \A u \in Caller : user[u].at = "resume" => user'[u].at = "resume"
        BY <1>1, <3>1, <3>2, <3>4
      <4>. QED
        BY <1>2, <3>2, <4>1
    <3>. QED
      BY <3>3, <3>4
  <2>5. CASE CancelReturn(t)
    <3>1. /\ UNCHANGED <<wq, worker, missed>> /\ user[t].at = "woken"
          /\ user' = [user EXCEPT ![t] = UserAt("run", NoWork)]
      BY <2>5 DEF CancelReturn
    <3>. QED
      BY <1>1, <1>2, <3>1
  <2>6. CASE rt_workqueue_cancel_all_work(t)
    <3>1. /\ UNCHANGED <<wq, worker, missed>> /\ user[t].at = "run"
          /\ \E r : user' = [user EXCEPT ![t] = r]
      BY <2>6, Zenon DEF rt_workqueue_cancel_all_work, MayCall
    <3>. QED
      BY <1>1, <1>2, <3>1
  <2>7. CASE CancelAllNext(t)
    <3>1. /\ UNCHANGED <<wq, worker, missed>> /\ user[t].at = "walk"
          /\ user' = [user EXCEPT ![t].at = "remove", ![t].next = NextOf(user[t].work)]
      BY <2>7 DEF CancelAllNext
    <3>. QED
      BY <1>1, <1>2, <3>1
  <2>8. CASE CancelAllRemove(t)
    <3>1. /\ UNCHANGED <<worker, missed>> /\ user[t].at = "remove"
          /\ wq' = [wq EXCEPT !.work_list = RemoveFirst(@, user[t].work)]
          /\ user' = [user EXCEPT ![t] = CancelAllFrom(user[t].next)]
      BY <2>8 DEF CancelAllRemove
    <3>2. wq'.work_list = RemoveFirst(wq.work_list, user[t].work)
      BY <1>1, <3>1
    <3>3. \A u \in Caller : user[u].at = "resume" => user'[u].at = "resume"
      BY <1>1, <3>1
    <3>. QED
      BY <1>2, <3>1, <3>2, <3>3, WqRemoved DEF WqInv
  <2>. QED
    BY <1>11, <2>1, <2>2, <2>3, <2>4, <2>5, <2>6, <2>7, <2>8 DEF CallerStep
<1>12. CASE DeviceDowork
  <2>1. UNCHANGED user
        /\ IF wq.work_current = NoWork THEN ResumeWorker ELSE UNCHANGED <<worker, missed>>
    BY <1>12 DEF DeviceDowork
  <2>2. CASE wq.work_current = NoWork
    <3>1. /\ worker' = [at |-> worker.at, stat |-> "ready"]
          /\ missed' = (worker.at = "suspend" /\ wq'.work_list # << >>)
      BY <1>1, <2>1, <2>2 DEF ResumeWorker
    <3>. QED
      BY <3>1 DEF WqSeen
  <2>3. CASE wq.work_current # NoWork
    <3>1. worker.at = "work" /\ UNCHANGED <<worker, missed>>
      BY <2>1, <2>3 DEF WqInv, InProgress
    <3>. QED
      BY <3>1 DEF WqSeen
  <2>. QED
    BY <2>2, <2>3
<1>13. CASE UNCHANGED workqueueVars
  BY <1>2, <1>13 DEF workqueueVars
<1>. QED
  BY <1>4, <1>5, <1>6, <1>7, <1>8, <1>9, <1>10, <1>11, <1>12, <1>13
     DEF WorkqueueNext, WorkerStep

\* The work queue is empty at first, and the worker tests it.
LEMMA WqStart == WorkqueueInit => WqInv /\ WqSeen
<1>. SUFFICES ASSUME WorkqueueInit PROVE WqInv /\ WqSeen
  OBVIOUS
<1>1. Range(<< >>) = {}
  BY DEF Range
<1>2. << >> \in Seq(Work) /\ << >> \in Seq(Caller)
  OBVIOUS
<1>3. wq.work_list = << >> /\ wq.work_current = NoWork /\ wq.waiting = << >>
      /\ worker.at = "test" /\ worker.stat = "ready"
      /\ \A t \in Caller : user[t].at = "run"
  BY DEF WorkqueueInit, UserAt
<1>4. WqTypeOK
  BY <1>2 DEF WorkqueueInit, WqTypeOK, UserAt, UserType
<1>5. InProgress /\ WaitersListed
  BY <1>1, <1>3 DEF InProgress, WaitersListed
<1>6. WqSeen
  BY <1>3 DEF WqSeen
<1>. QED
  BY <1>4, <1>5, <1>6 DEF WqInv

\* For any number of callers and works, however they, the worker and interrupts
\* interleave: the worker sleeps beside a work that nobody is to resume it for
\* only when the resume came between its test and its suspend, and who cancels
\* waits for the work it cancels.
THEOREM WorksAreDone == WorkqueueSpec => []WorkqueueInvariant
<1>1. WqInv /\ WqSeen => WorkqueueInvariant
  <2>. SUFFICES ASSUME WqInv, WqSeen PROVE WorkqueueInvariant
    OBVIOUS
  <2>1. LostOnlyIfMissed
    BY DEF WqSeen, NoLostWork, LostOnlyIfMissed
  <2>2. WaitsForItsWork
    BY DEF WqInv, WaitersListed, WaitsForItsWork
  <2>. QED
    BY <2>1, <2>2 DEF WorkqueueInvariant
<1>2. WqInv /\ [WorkqueueNext]_workqueueVars => WqInv'
  BY WqStep
<1>3. WqInv /\ WqSeen /\ [WorkqueueNext]_workqueueVars => WqSeen'
  BY WqSeenStep
<1>. QED
  BY <1>1, <1>2, <1>3, WqStart, PTL DEF WorkqueueSpec

\* A synchronous cancel comes back only when no work is in progress, whatever
\* its users do: the acknowledgement comes after work_current is cleared.
THEOREM CancelComesBackAfterWork == WorkqueueSpec => BackAfterWork
<1>1. WqInv /\ [WorkqueueNext]_workqueueVars => WqInv'
  BY WqStep
<1>2. ASSUME WqInv, [WorkqueueNext]_workqueueVars, NEW t \in Caller,
             user[t].at = "wait", user'[t].at = "woken"
      PROVE  wq.work_current = NoWork
  <2>1. user \in [Caller -> UserType]
    BY <1>2 DEF WqInv, WqTypeOK
  <2>2. ASSUME NEW u \in Caller, CallerStep(u) PROVE FALSE
    <3>1. \/ user' = user
          \/ \E pt \in {"run", "resume"} : user' = [user EXCEPT ![u].at = pt]
          \/ \E w : user' = [user EXCEPT ![u].at = "remove", ![u].next = w]
          \/ \E r : user' = [user EXCEPT ![u] = r] /\ r.at # "woken"
      <4>1. \A pt, w : pt # "woken" => UserAt(pt, w).at # "woken"
        BY DEF UserAt
      <4>2. \A w : CancelAllFrom(w).at # "woken"
        BY DEF CancelAllFrom, UserAt
      <4>. QED
        BY <2>2, <4>1, <4>2 DEF CallerStep, rt_workqueue_dowork, DoworkResume,
           rt_workqueue_cancel_work, rt_workqueue_cancel_all_work, CancelAllNext,
           CancelAllRemove, rt_workqueue_cancel_work_sync, CancelReturn
    <3>. QED
      BY <1>2, <2>1, <3>1 DEF UserType
  <2>3. WorkerAck
    BY <1>2, <2>2 DEF WorkqueueNext, WorkerStep, WorkerTest, WorkerSuspend, WorkerTake, WorkSleeps,
                      WorkWakes, WorkerClear, DeviceDowork, workqueueVars
  <2>. QED
    BY <1>2, <2>3 DEF WorkerAck, WorkerAt, WqInv, InProgress
<1>3. WqInv /\ [WorkqueueNext]_workqueueVars
      => [\A t \in Caller : user[t].at = "wait" /\ user'[t].at = "woken" =>
            wq.work_current = NoWork]_workqueueVars
  BY <1>2
<1>. QED
  BY <1>1, <1>3, WqStart, PTL DEF WorkqueueSpec, BackAfterWork

-----------------------------------------------------------------------------
(* The receive FIFO of the serial device *)

FifoTypeOK ==
    /\ rxFifo \in [put_index : 0 .. SL_BUFSZ - 1, get_index : 0 .. SL_BUFSZ - 1,
                   is_full : BOOLEAN, buffer : [0 .. SL_BUFSZ - 1 -> Nat]]
    /\ received = [unread |-> received.unread, next |-> received.next]
    /\ received.next \in Nat

\* The unread bytes lie behind the read index; is_full is only ever set with one
\* slot less than all in use, since the interrupt discards the oldest byte.
FifoInv ==
    /\ FifoTypeOK
    /\ \E L \in 0 .. SL_BUFSZ - 1 :
         /\ received.unread = RingSeq(SL_BUFSZ, rxFifo.buffer, rxFifo.get_index, L)
         /\ rxFifo.put_index = Around(SL_BUFSZ, rxFifo.get_index, L)
         /\ rxFifo.is_full => L = SL_BUFSZ - 1

\* The index behind index i.
LEMMA SlFollowing ==
    ASSUME NEW i \in 0 .. SL_BUFSZ - 1
    PROVE  /\ Following(i) = Around(SL_BUFSZ, i, 1)
           /\ Following(i) \in 0 .. SL_BUFSZ - 1
<1>1. SL_BUFSZ \in Nat /\ SL_BUFSZ > 0
  BY SerialConstants
<1>. QED
  BY <1>1 DEF Following, Around

\* A FIFO that is allocated is empty.
LEMMA SlEmpty ==
    ASSUME rxFifo' = EmptyFifo, received'.unread = << >>, received'.next \in Nat,
           received' = [unread |-> received'.unread, next |-> received'.next]
    PROVE  FifoInv'
<1>1. SL_BUFSZ \in Nat /\ SL_BUFSZ > 1
  BY SerialConstants
<1>2. 0 \in 0 .. SL_BUFSZ - 1
  BY <1>1
<1>3. FifoTypeOK'
  BY <1>2 DEF FifoTypeOK, EmptyFifo
<1>4. /\ received'.unread = RingSeq(SL_BUFSZ, rxFifo'.buffer, rxFifo'.get_index, 0)
      /\ rxFifo'.put_index = Around(SL_BUFSZ, rxFifo'.get_index, 0)
      /\ ~rxFifo'.is_full
  BY <1>1 DEF RingSeq, Around, EmptyFifo
<1>. QED
  BY <1>2, <1>3, <1>4 DEF FifoInv

\* A byte that is received goes behind the others, over the oldest one of
\* SL_BUFSZ.
LEMMA SlReceived ==
    ASSUME FifoInv, DeviceRxInd
    PROVE  FifoInv'
<1>. DEFINE S == SL_BUFSZ
            r == rxFifo.get_index
            w == rxFifo.put_index
            old == rxFifo.buffer
            byte == received.next
            new == [old EXCEPT ![w] = byte]
<1>1. /\ S \in Nat /\ S > 1 /\ SL_BYTES \in Nat /\ SL_BYTES > 0
  BY SerialConstants
<1>2. /\ r \in 0 .. S - 1 /\ w \in 0 .. S - 1 /\ old \in [0 .. S - 1 -> Nat] /\ byte \in Nat
  BY DEF FifoInv, FifoTypeOK
<1>3. PICK L \in 0 .. S - 1 :
        /\ received.unread = RingSeq(S, old, r, L)
        /\ w = Around(S, r, L)
        /\ rxFifo.is_full => L = S - 1
  BY DEF FifoInv
<1>4. /\ rxFifo' = [put_index |-> Following(w),
                    get_index |-> IF Following(w) = r THEN Following(r) ELSE r,
                    is_full |-> rxFifo.is_full \/ Following(w) = r,
                    buffer |-> new]
      /\ received'.unread = LET u == Append(received.unread, byte)
                            IN  IF Len(u) >= S THEN Tail(u) ELSE u
      /\ received'.next = (byte + 1) % SL_BYTES
      /\ received' = [unread |-> received'.unread, next |-> received'.next]
  BY DEF DeviceRxInd, Put
<1>5. new \in [0 .. S - 1 -> Nat] /\ rxFifo.is_full \in BOOLEAN
  BY <1>2 DEF FifoInv, FifoTypeOK
<1>6. /\ Following(w) = Around(S, w, 1) /\ Following(w) \in 0 .. S - 1
      /\ Following(r) = Around(S, r, 1) /\ Following(r) \in 0 .. S - 1
  BY <1>2, SlFollowing
<1>7. Following(w) = Around(S, r, L + 1)
  <2>. HIDE DEF S, r, w
  <2>1. S > 0
    BY <1>1
  <2>2. Around(S, Around(S, r, L), 1) = Around(S, r, L + 1)
    BY <1>1, <1>2, <1>3, <2>1, AroundNext
  <2>. QED
    BY <1>3, <1>6, <2>2
<1>8. Appends(S, old, new, r, L, byte)
  <2>. HIDE DEF S, r, w, old, byte
  <2>1. S > 0
    BY <1>1
  <2>. QED
    BY <1>1, <1>2, <1>3, <2>1, RingSeqPut
<1>9. /\ Append(received.unread, byte) = RingSeq(S, new, r, L + 1)
      /\ Len(Append(received.unread, byte)) = L + 1
  <2>1. Append(received.unread, byte) = RingSeq(S, new, r, L + 1)
    BY <1>3, <1>8 DEF Appends
  <2>2. Len(RingSeq(S, new, r, L + 1)) = L + 1
    <3>. HIDE DEF S, r, new
    <3>. QED
      BY DEF RingSeq
  <2>. QED
    BY <2>1, <2>2
<1>. HIDE DEF S, r, w, old, byte, new
<1>10. received'.next \in Nat
  <2>1. PICK x \in Nat : x = byte + 1
    BY <1>2
  <2>2. x % SL_BYTES \in Nat
    BY <1>1
  <2>. QED
    BY <1>4, <2>1, <2>2
<1>11. FifoTypeOK'
  <2>1. rxFifo' \in [put_index : 0 .. S - 1, get_index : 0 .. S - 1, is_full : BOOLEAN,
                     buffer : [0 .. S - 1 -> Nat]]
    BY <1>2, <1>4, <1>5, <1>6
  <2>. QED
    BY <1>4, <1>10, <2>1 DEF FifoTypeOK, S
<1>12. CASE L = S - 1
  <2>1. L + 1 = S /\ Around(S, r, S) = r /\ Following(w) = r
    BY <1>1, <1>2, <1>7, <1>12 DEF Around
  <2>2. /\ rxFifo'.put_index = r /\ rxFifo'.get_index = Around(S, r, 1) /\ rxFifo'.buffer = new
    BY <1>4, <1>6, <2>1
  <2>3. received'.unread = Tail(RingSeq(S, new, r, S))
    BY <1>1, <1>4, <1>9, <2>1
  <2>4. S \in 1 .. S /\ S > 0
    BY <1>1
  <2>5. RingSeq(S, new, Around(S, r, 1), S - 1) = Tail(RingSeq(S, new, r, S))
    BY <1>1, <1>2, <1>5, <2>4, RingSeqTail
  <2>6. r = Around(S, Around(S, r, 1), S - 1)
    BY <1>1, <1>2 DEF Around
  <2>7. S - 1 \in 0 .. S - 1
    BY <1>1
  <2>. QED
    BY <1>11, <2>2, <2>3, <2>5, <2>6, <2>7 DEF FifoInv, S
<1>13. CASE L # S - 1
  <2>1. L + 1 \in 0 .. S - 1 /\ Following(w) # r /\ ~(L + 1 >= S)
    BY <1>1, <1>2, <1>7, <1>13 DEF Around
  <2>2. /\ rxFifo'.put_index = Around(S, r, L + 1) /\ rxFifo'.get_index = r
        /\ rxFifo'.buffer = new /\ ~rxFifo'.is_full
    BY <1>3, <1>4, <1>5, <1>7, <1>13, <2>1
  <2>3. received'.unread = RingSeq(S, new, r, L + 1)
    BY <1>4, <1>9, <2>1
  <2>. QED
    BY <1>11, <2>1, <2>2, <2>3 DEF FifoInv, S
<1>. QED
  BY <1>12, <1>13

\* A byte that is read is the oldest one, and is_full is never true of an empty
\* FIFO.
LEMMA SlRead ==
    ASSUME FifoInv, NEW u, IntRx(u)
    PROVE  FifoInv'
<1>. DEFINE S == SL_BUFSZ
            r == rxFifo.get_index
            bytes == rxFifo.buffer
<1>1. S \in Nat /\ S > 1 /\ S > 0
  BY SerialConstants
<1>2. /\ r \in 0 .. S - 1 /\ bytes \in [0 .. S - 1 -> Nat]
      /\ rxFifo = [put_index |-> rxFifo.put_index, get_index |-> r,
                   is_full |-> rxFifo.is_full, buffer |-> bytes]
  BY DEF FifoInv, FifoTypeOK
<1>3. PICK L \in 0 .. S - 1 :
        /\ received.unread = RingSeq(S, bytes, r, L)
        /\ rxFifo.put_index = Around(S, r, L)
        /\ rxFifo.is_full => L = S - 1
  BY DEF FifoInv
<1>4. /\ rxFifo' = [put_index |-> rxFifo.put_index, get_index |-> Following(r),
                    is_full |-> FALSE, buffer |-> bytes]
      /\ received' = [unread |-> Tail(received.unread), next |-> received.next]
      /\ r # rxFifo.put_index \/ rxFifo.is_full
  BY <1>2 DEF IntRx, FifoInv, FifoTypeOK
<1>5. Following(r) = Around(S, r, 1) /\ Following(r) \in 0 .. S - 1
  BY <1>2, SlFollowing
<1>. HIDE DEF S, r, bytes
<1>6. L \in 1 .. S
  <2>1. L # 0
    BY <1>1, <1>2, <1>3, <1>4 DEF Around
  <2>. QED
    BY <1>1, <2>1
<1>7. RingSeq(S, bytes, Around(S, r, 1), L - 1) = Tail(RingSeq(S, bytes, r, L))
  BY <1>1, <1>2, <1>6, RingSeqTail
<1>8. rxFifo.put_index = Around(S, Around(S, r, 1), L - 1) /\ L - 1 \in 0 .. S - 1
  BY <1>1, <1>2, <1>3, <1>6, AroundTail
<1>9. FifoTypeOK'
  BY <1>2, <1>4, <1>5 DEF FifoInv, FifoTypeOK, S
<1>. QED
  BY <1>3, <1>4, <1>5, <1>7, <1>8, <1>9 DEF FifoInv, S

\* What the functions of the FIFO compute is what is in it.
LEMMA SlHolds == FifoInv => FifoHolds
<1>. SUFFICES ASSUME FifoInv PROVE FifoHolds
  OBVIOUS
<1>. DEFINE S == SL_BUFSZ
            r == rxFifo.get_index
            bytes == rxFifo.buffer
<1>1. S \in Nat /\ S > 1 /\ S > 0
  BY SerialConstants
<1>2. r \in 0 .. S - 1 /\ bytes \in [0 .. S - 1 -> Nat]
  BY DEF FifoInv, FifoTypeOK
<1>3. PICK L \in 0 .. S - 1 :
        /\ received.unread = RingSeq(S, bytes, r, L)
        /\ rxFifo.put_index = Around(S, r, L)
        /\ rxFifo.is_full => L = S - 1
  BY DEF FifoInv
<1>4. [i \in 1 .. L |-> bytes[(r + i - 1) % S]] = RingSeq(S, bytes, r, L)
  <2>. HIDE DEF S, r, bytes
  <2>1. L \in 0 .. S
    BY <1>1
  <2>. QED
    BY <1>1, <1>2, <2>1, RingSeqRemainder
<1>5. Len(received.unread) = L
  BY <1>3 DEF RingSeq
<1>6. FifoLen = L
  <2>1. PICK d \in Int : d = rxFifo.put_index - r
    BY <1>2 DEF FifoInv, FifoTypeOK
  <2>2. d = L \/ (d = L - S /\ d \in -S .. -1)
    <3>. HIDE DEF S, r
    <3>. QED
      BY <1>1, <1>2, <1>3, <2>1 DEF Around
  <2>3. d % S = L
    BY <1>1, <2>2, RemainderAround
  <2>4. ~(rxFifo.put_index = r /\ rxFifo.is_full)
    <3>. HIDE DEF S, r
    <3>. QED
      BY <1>1, <1>2, <1>3 DEF Around
  <2>. QED
    BY <2>1, <2>3, <2>4 DEF FifoLen
<1>7. \A i \in 1 .. L : bytes[(r + i - 1) % S] = received.unread[i]
  <2>. DEFINE f == [i \in 1 .. L |-> bytes[(r + i - 1) % S]]
  <2>1. \A i \in 1 .. L : f[i] = bytes[(r + i - 1) % S]
    OBVIOUS
  <2>2. f = received.unread
    BY <1>3, <1>4
  <2>. QED
    BY <2>1, <2>2
<1>. QED
  BY <1>5, <1>6, <1>7 DEF FifoHolds

-----------------------------------------------------------------------------
(* Opening and closing the serial device *)

CountedUsers == {u \in SlUser : slUser[u].at \in {"open", "uncount"}}

SlSteps ==
    {"closed", "fifo", "setint", "count", "counted", "open",
     "uncount", "last", "free", "forget", "clrint", "flags"}

SlTypeOK ==
    /\ serial \in [ref_count : Int, int_rx : BOOLEAN, serial_rx : BOOLEAN,
                   allocated : BOOLEAN, irq : BOOLEAN]
    /\ slUser \in [SlUser -> [at : SlSteps, mode : {"int", "plain"}, count : Int]]
    /\ opening \in [overlapped : BOOLEAN, latest : {"int", "plain"}]

\* Each open is counted.
SlCounted == IsFiniteSet(CountedUsers) /\ serial.ref_count = Cardinality(CountedUsers)

\* Someone who has the device open for reading by interrupt.
IntOpen == \E u \in SlUser : SlAt(u, "open") /\ slUser[u].mode = "int"

\* What the readers by interrupt find.
IntServed ==
    /\ serial.serial_rx /\ serial.allocated /\ serial.irq
    /\ opening.latest = "int" => serial.int_rx

\* What a thread finds at each step of its open or close.
StepFinds(u) ==
    /\ SlAt(u, "fifo") =>
         /\ serial.serial_rx <=> serial.allocated
         /\ serial.allocated <=> serial.irq
         /\ serial.int_rx <=> slUser[u].mode = "int"
         /\ opening.latest = slUser[u].mode
    /\ SlAt(u, "setint") =>
         /\ serial.int_rx /\ serial.serial_rx /\ serial.allocated /\ ~serial.irq
         /\ slUser[u].mode = "int" /\ ~IntOpen
         /\ opening.latest = "int"
    /\ slUser[u].at \in {"count", "counted"} =>
         /\ Together
         /\ slUser[u].mode = "int" => serial.int_rx
         /\ opening.latest = slUser[u].mode
    /\ SlAt(u, "counted") => slUser[u].count = serial.ref_count + 1
    /\ SlAt(u, "uncount") => slUser[u].count = serial.ref_count - 1
    /\ SlAt(u, "last") => slUser[u].count = serial.ref_count
    /\ SlAt(u, "forget") =>
         serial.serial_rx /\ ~serial.allocated /\ serial.irq
    /\ SlAt(u, "clrint") =>
         ~serial.serial_rx /\ ~serial.allocated /\ ~serial.int_rx
    /\ slUser[u].at \in {"uncount", "last", "free", "flags"} => Together
    /\ slUser[u].at \in {"free", "forget", "clrint", "flags"} => CountedUsers = {}

\* What holds while the opens and closes come one after another.
SlAlone ==
    /\ SlCounted
    /\ \A u, v \in SlUser : Between(u) /\ Between(v) => u = v
    /\ IntOpen => IntServed
    /\ (\A u \in SlUser : ~Between(u)) => Together
    /\ \A u \in SlUser : StepFinds(u)

SlInv == SlTypeOK /\ (opening.overlapped \/ SlAlone)

SlStep(u) ==
    \/ OpenFlags(u) \/ OpenFifo(u) \/ OpenSetInt(u) \/ OpenCount(u) \/ OpenCounted(u)
    \/ CloseCount(u) \/ CloseCounted(u) \/ CloseLast(u)
    \/ CloseFree(u) \/ CloseForget(u) \/ CloseClrInt(u) \/ CloseFlags(u)

\* The types of what a step leaves behind.
LEMMA SlTypes ==
    ASSUME SlTypeOK, NEW u \in SlUser, SlStep(u)
    PROVE  SlTypeOK'
<1>1. serial' \in [ref_count : Int, int_rx : BOOLEAN, serial_rx : BOOLEAN,
                   allocated : BOOLEAN, irq : BOOLEAN]
  BY DEF SlTypeOK, SlStep, OpenFlags, OpenFifo, OpenSetInt, OpenCount, OpenCounted, CloseCount,
         CloseCounted, CloseLast, CloseFree, CloseForget, CloseClrInt, CloseFlags
<1>2. ASSUME NEW pt \in SlSteps, SlGoto(u, pt)
      PROVE  slUser' \in [SlUser -> [at : SlSteps, mode : {"int", "plain"}, count : Int]]
  BY <1>2 DEF SlTypeOK, SlGoto
<1>3. slUser' \in [SlUser -> [at : SlSteps, mode : {"int", "plain"}, count : Int]]
  <2>1. CASE OpenFlags(u)
    BY <2>1 DEF OpenFlags, SlTypeOK, SlSteps
  <2>2. CASE OpenCount(u) \/ CloseCount(u)
    BY <2>2 DEF OpenCount, CloseCount, SlTypeOK, SlSteps
  <2>3. CASE OpenFifo(u) \/ OpenSetInt(u) \/ OpenCounted(u) \/ CloseCounted(u) \/ CloseLast(u)
    BY <1>2, <2>3 DEF OpenFifo, OpenSetInt, OpenCounted, CloseCounted, CloseLast, SlSteps
  <2>4. CASE CloseFree(u) \/ CloseForget(u) \/ CloseClrInt(u) \/ CloseFlags(u)
    BY <1>2, <2>4 DEF CloseFree, CloseForget, CloseClrInt, CloseFlags, SlSteps
  <2>. QED
    BY <2>1, <2>2, <2>3, <2>4 DEF SlStep
<1>4. \E latest \in {"int", "plain"} : Opening(latest)
  BY DEF SlTypeOK, SlStep, OpenFlags, OpenFifo, OpenSetInt, OpenCount, OpenCounted, CloseCount,
         CloseCounted, CloseLast, CloseFree, CloseForget, CloseClrInt, CloseFlags, OpenStep
<1>5. opening' \in [overlapped : BOOLEAN, latest : {"int", "plain"}]
  BY <1>4 DEF Opening
<1>. QED
  BY <1>1, <1>3, <1>5 DEF SlTypeOK

\* A device at rest is one that opens and closes one after another leave.
LEMMA SlRest ==
    ASSUME SlTypeOK', AtRest'
    PROVE  SlAlone'
<1>1. (\A u \in SlUser : SlAt(u, "closed")') /\ serial'.ref_count = 0 /\ Together'
  BY DEF AtRest
<1>2. CountedUsers' = {} /\ ~IntOpen' /\ (\A u \in SlUser : ~Between(u)' /\ StepFinds(u)')
  BY <1>1 DEF CountedUsers, IntOpen, Between, StepFinds, SlAt
<1>3. SlCounted'
  BY <1>1, <1>2, FS_EmptySet DEF SlCounted
<1>. QED
  BY <1>1, <1>2, <1>3 DEF SlAlone

\* The user that takes a step of an open or a close, when all others have the
\* device open or closed.
SlGoes(u, pt, mode, count) ==
    /\ slUser' = [slUser EXCEPT ![u] = [at |-> pt, mode |-> mode, count |-> count]]
    /\ \A v \in SlUser \ {u} : ~Between(v)

\* The others see their device as before.
LEMMA SlOthers ==
    ASSUME SlTypeOK, NEW u \in SlUser, NEW pt \in SlSteps, NEW mode \in {"int", "plain"},
           NEW count \in Int, SlGoes(u, pt, mode, count)
    PROVE  /\ slUser'[u].at = pt /\ slUser'[u].mode = mode /\ slUser'[u].count = count
           /\ \A v \in SlUser \ {u} : slUser'[v] = slUser[v] /\ ~Between(v) /\ ~Between(v)'
           /\ IntOpen' => IntOpen \/ (pt = "open" /\ mode = "int")
           /\ pt \in {"open", "uncount"} => CountedUsers' = CountedUsers \cup {u}
           /\ pt \notin {"open", "uncount"} => CountedUsers' = CountedUsers \ {u}
<1>1. slUser \in [SlUser -> [at : SlSteps, mode : {"int", "plain"}, count : Int]]
  BY DEF SlTypeOK
<1>2. /\ slUser'[u].at = pt /\ slUser'[u].mode = mode /\ slUser'[u].count = count
      /\ \A v \in SlUser \ {u} : slUser'[v] = slUser[v] /\ ~Between(v)
  BY <1>1 DEF SlGoes
<1>3. \A v \in SlUser \ {u} : ~Between(v)'
  BY <1>2 DEF Between
<1>4. IntOpen' => IntOpen \/ (pt = "open" /\ mode = "int")
  BY <1>2 DEF IntOpen, SlAt
<1>5. \A v \in SlUser \ {u} : v \in CountedUsers' <=> v \in CountedUsers
  BY <1>2 DEF CountedUsers
<1>6. u \in CountedUsers' <=> pt \in {"open", "uncount"}
  BY <1>2 DEF CountedUsers
<1>7. CountedUsers \subseteq SlUser /\ CountedUsers' \subseteq SlUser
  BY DEF CountedUsers
<1>8. /\ pt \in {"open", "uncount"} => CountedUsers' = CountedUsers \cup {u}
      /\ pt \notin {"open", "uncount"} => CountedUsers' = CountedUsers \ {u}
  BY <1>5, <1>6, <1>7
<1>. QED
  BY <1>2, <1>3, <1>4, <1>8

\* It is enough to look at the user that takes the step.
LEMMA SlKeeps ==
    ASSUME SlTypeOK, NEW u \in SlUser, NEW pt \in SlSteps,
           NEW mode \in {"int", "plain"}, NEW count \in Int, SlGoes(u, pt, mode, count),
           SlCounted', StepFinds(u)',
           pt \in {"open", "closed"} => Together', IntOpen' => IntServed'
    PROVE  SlAlone'
<1>1. /\ slUser'[u].at = pt
      /\ \A v \in SlUser \ {u} : ~Between(v)'
  BY SlOthers
<1>2. \A v \in SlUser \ {u} : StepFinds(v)'
  BY <1>1 DEF Between, StepFinds, SlAt
<1>3. \A v, w \in SlUser : Between(v)' /\ Between(w)' => v = w
  BY <1>1
<1>4. (\A v \in SlUser : ~Between(v)') => Together'
  BY <1>1 DEF Between
<1>. QED
  BY <1>2, <1>3, <1>4 DEF SlAlone

\* The steps of open and close, with no other open or close half through.
LEMMA SlOneAfterAnother ==
    ASSUME SlTypeOK, SlTypeOK', SlAlone, NEW u \in SlUser, SlStep(u),
           \A v \in SlUser \ {u} : ~Between(v)
    PROVE  SlAlone'
<1>. DEFINE m == slUser[u].mode
            a == slUser[u].at
            c == slUser[u].count
<1>1. /\ m \in {"int", "plain"} /\ a \in SlSteps /\ c \in Int
      /\ slUser[u] = [at |-> a, mode |-> m, count |-> c]
      /\ slUser \in [SlUser -> [at : SlSteps, mode : {"int", "plain"}, count : Int]]
      /\ serial \in [ref_count : Int, int_rx : BOOLEAN, serial_rx : BOOLEAN,
                     allocated : BOOLEAN, irq : BOOLEAN]
  BY DEF SlTypeOK
<1>2. u \in CountedUsers <=> a \in {"open", "uncount"}
  BY DEF CountedUsers
<1>3. StepFinds(u) /\ SlCounted /\ (IntOpen => IntServed)
  BY DEF SlAlone
<1>4. ASSUME NEW pt \in SlSteps, SlGoto(u, pt) PROVE SlGoes(u, pt, m, c)
  <2>1. [slUser[u] EXCEPT !.at = pt] = [at |-> pt, mode |-> m, count |-> c]
    BY <1>1
  <2>2. slUser' = [slUser EXCEPT ![u] = [slUser[u] EXCEPT !.at = pt]]
    BY <1>4 DEF SlGoto
  <2>. QED
    BY <2>1, <2>2 DEF SlGoes
<1>5. ASSUME NEW pt \in SlSteps, NEW count,
             slUser' = [slUser EXCEPT ![u].at = pt, ![u].count = count]
      PROVE  SlGoes(u, pt, m, count)
  <2>1. slUser' \in [SlUser -> [at : SlSteps, mode : {"int", "plain"}, count : Int]]
    BY DEF SlTypeOK
  <2>2. /\ slUser'[u].at = pt /\ slUser'[u].mode = m /\ slUser'[u].count = count
        /\ \A v \in SlUser \ {u} : slUser'[v] = slUser[v]
    BY <1>1, <1>5
  <2>3. slUser'[u] = [at |-> pt, mode |-> m, count |-> count]
    BY <2>1, <2>2
  <2>4. slUser' = [slUser EXCEPT ![u] = [at |-> pt, mode |-> m, count |-> count]]
    BY <1>1, <2>1, <2>2, <2>3
  <2>. QED
    BY <2>4 DEF SlGoes
<1>6. {"fifo", "setint", "count", "counted", "open", "uncount", "last", "free", "forget",
       "clrint", "flags", "closed"} = SlSteps
  BY DEF SlSteps
<1>7. ASSUME NEW pt \in SlSteps \ {"open", "uncount"}, NEW mode \in {"int", "plain"},
             NEW count \in Int, SlGoes(u, pt, mode, count),
             a \notin {"open", "uncount"}, serial'.ref_count = serial.ref_count
      PROVE  SlCounted' /\ CountedUsers' = CountedUsers /\ (IntOpen' => IntOpen)
  <2>1. CountedUsers' = CountedUsers \ {u} /\ (IntOpen' => IntOpen)
    BY <1>7, SlOthers
  <2>2. CountedUsers' = CountedUsers
    BY <1>2, <1>7, <2>1
  <2>. QED
    BY <1>3, <1>7, <2>1, <2>2 DEF SlCounted
<1>8. ASSUME OpenFlags(u) PROVE SlAlone'
  <2>1. PICK mode \in {"int", "plain"} :
          /\ serial' = [serial EXCEPT !.int_rx = (mode = "int")]
          /\ slUser' = [slUser EXCEPT ![u] = [at |-> "fifo", mode |-> mode, count |-> 0]]
          /\ Opening(mode)
    BY <1>8 DEF OpenFlags
  <2>2. a = "closed" /\ \A v \in SlUser : ~Between(v)
    BY <1>8 DEF OpenFlags, SlAt, Between
  <2>3. SlGoes(u, "fifo", mode, 0) /\ Together
    BY <2>1, <2>2 DEF SlGoes, SlAlone
  <2>4. /\ serial'.int_rx <=> mode = "int"
        /\ serial'.serial_rx = serial.serial_rx /\ serial'.allocated = serial.allocated
        /\ serial'.irq = serial.irq /\ serial'.ref_count = serial.ref_count
        /\ opening'.latest = mode
    BY <1>1, <2>1 DEF Opening
  <2>5. SlCounted' /\ (IntOpen' => IntOpen)
    BY <1>6, <1>7, <2>2, <2>3, <2>4
  <2>6. slUser'[u].at = "fifo" /\ slUser'[u].mode = mode
    BY <1>1, <2>1
  <2>7. StepFinds(u)'
    BY <2>3, <2>4, <2>6 DEF StepFinds, SlAt, Together
  <2>8. IntOpen' => IntServed'
    BY <1>3, <2>4, <2>5 DEF IntServed
  <2>. QED
    BY <1>6, <2>3, <2>5, <2>7, <2>8, SlKeeps
<1>9. ASSUME OpenFifo(u) PROVE SlAlone'
  <2>1. /\ a = "fifo" /\ (serial.serial_rx <=> serial.allocated) /\ (serial.allocated <=> serial.irq)
        /\ serial.int_rx <=> m = "int"
        /\ opening.latest = m
    BY <1>3, <1>9 DEF OpenFifo, SlAt, StepFinds
  <2>2. opening'.latest = m
    BY <1>9, <2>1 DEF OpenFifo, OpenStep, Opening
  <2>3. CASE m = "int" /\ ~serial.serial_rx
    <3>1. /\ SlGoto(u, "setint")
          /\ serial'.int_rx /\ serial'.serial_rx /\ serial'.allocated /\ serial'.irq = serial.irq
          /\ serial'.ref_count = serial.ref_count
      BY <1>1, <1>9, <2>3 DEF OpenFifo
    <3>2. SlGoes(u, "setint", m, c)
      BY <1>4, <1>6, <3>1
    <3>3. SlCounted' /\ (IntOpen' => IntOpen)
      BY <1>1, <1>6, <1>7, <2>1, <3>1, <3>2
    <3>4. slUser'[u].at = "setint" /\ slUser'[u].mode = m /\ ~IntOpen'
      BY <1>1, <1>3, <1>6, <2>3, <3>2, <3>3, SlOthers DEF IntServed
    <3>5. StepFinds(u)'
      BY <2>1, <2>2, <2>3, <3>1, <3>4 DEF StepFinds, SlAt
    <3>. QED
      BY <1>1, <1>6, <3>2, <3>3, <3>4, <3>5, SlKeeps
  <2>4. CASE ~(m = "int" /\ ~serial.serial_rx)
    <3>1. /\ SlGoto(u, "count")
          /\ serial'.int_rx = serial.int_rx /\ serial'.serial_rx = serial.serial_rx
          /\ serial'.allocated = serial.allocated /\ serial'.irq = serial.irq
          /\ serial'.ref_count = serial.ref_count
      BY <1>1, <1>9, <2>1, <2>4 DEF OpenFifo
    <3>2. SlGoes(u, "count", m, c)
      BY <1>4, <1>6, <3>1
    <3>3. SlCounted' /\ (IntOpen' => IntOpen)
      BY <1>1, <1>6, <1>7, <2>1, <3>1, <3>2
    <3>4. slUser'[u].at = "count" /\ slUser'[u].mode = m
      BY <1>1, <3>2 DEF SlGoes
    <3>5. StepFinds(u)'
      BY <2>1, <2>2, <2>4, <3>1, <3>4 DEF StepFinds, SlAt, Together
    <3>6. IntOpen' => IntServed'
      BY <1>3, <2>1, <2>2, <3>1, <3>3 DEF IntServed
    <3>. QED
      BY <1>1, <1>6, <3>2, <3>3, <3>5, <3>6, SlKeeps
  <2>. QED
    BY <2>3, <2>4
<1>10. ASSUME OpenSetInt(u) PROVE SlAlone'
  <2>1. /\ a = "setint" /\ SlGoto(u, "count")
        /\ serial.int_rx /\ serial.serial_rx /\ serial.allocated /\ m = "int" /\ ~IntOpen
        /\ opening.latest = "int"
    BY <1>3, <1>10 DEF OpenSetInt, SlAt, StepFinds
  <2>2. /\ serial'.int_rx /\ serial'.serial_rx /\ serial'.allocated /\ serial'.irq
        /\ serial'.ref_count = serial.ref_count /\ opening'.latest = "int"
    BY <1>1, <1>10, <2>1 DEF OpenSetInt, OpenStep, Opening
  <2>3. SlGoes(u, "count", m, c)
    BY <1>4, <1>6, <2>1
  <2>4. SlCounted' /\ ~IntOpen'
    BY <1>1, <1>6, <1>7, <2>1, <2>2, <2>3
  <2>5. slUser'[u].at = "count" /\ slUser'[u].mode = m
    BY <1>1, <2>3 DEF SlGoes
  <2>6. StepFinds(u)'
    BY <2>1, <2>2, <2>5 DEF StepFinds, SlAt, Together
  <2>. QED
    BY <1>1, <1>6, <2>3, <2>4, <2>6, SlKeeps
<1>11. ASSUME OpenCount(u) PROVE SlAlone'
  <2>1. /\ a = "count" /\ Together /\ (m = "int" => serial.int_rx) /\ opening.latest = m
    BY <1>3, <1>11 DEF OpenCount, SlAt, StepFinds
  <2>2. /\ slUser' = [slUser EXCEPT ![u].at = "counted", ![u].count = serial.ref_count + 1]
        /\ serial' = serial /\ opening'.latest = m /\ serial.ref_count + 1 \in Int
    BY <1>1, <1>11, <2>1 DEF OpenCount, OpenStep, Opening
  <2>3. SlGoes(u, "counted", m, serial.ref_count + 1)
    BY <1>5, <1>6, <2>2
  <2>4. SlCounted' /\ (IntOpen' => IntOpen)
    BY <1>1, <1>6, <1>7, <2>1, <2>2, <2>3
  <2>5. slUser'[u].at = "counted" /\ slUser'[u].mode = m /\ slUser'[u].count = serial.ref_count + 1
    BY <1>1, <1>6, <2>2, <2>3, SlOthers
  <2>6. StepFinds(u)'
    BY <2>1, <2>2, <2>5 DEF StepFinds, SlAt, Together
  <2>7. IntOpen' => IntServed'
    BY <1>3, <2>1, <2>2, <2>4 DEF IntServed
  <2>. QED
    BY <1>1, <1>6, <2>2, <2>3, <2>4, <2>6, <2>7, SlKeeps
<1>12. ASSUME OpenCounted(u) PROVE SlAlone'
  <2>1. /\ a = "counted" /\ Together /\ (m = "int" => serial.int_rx) /\ opening.latest = m
        /\ c = serial.ref_count + 1 /\ SlGoto(u, "open")
    BY <1>3, <1>12 DEF OpenCounted, SlAt, StepFinds
  <2>2. /\ serial'.int_rx = serial.int_rx /\ serial'.serial_rx = serial.serial_rx
        /\ serial'.allocated = serial.allocated /\ serial'.irq = serial.irq
        /\ serial'.ref_count = serial.ref_count + 1 /\ opening'.latest = m
    BY <1>1, <1>12, <2>1 DEF OpenCounted, OpenStep, Opening
  <2>3. SlGoes(u, "open", m, c)
    BY <1>4, <1>6, <2>1
  <2>4. /\ slUser'[u].at = "open" /\ CountedUsers' = CountedUsers \cup {u}
        /\ IntOpen' => IntOpen \/ m = "int"
    BY <1>1, <1>6, <2>3, SlOthers
  <2>5. SlCounted'
    <3>1. IsFiniteSet(CountedUsers) /\ serial.ref_count = Cardinality(CountedUsers)
          /\ u \notin CountedUsers
      BY <1>2, <1>3, <2>1 DEF SlCounted
    <3>2. IsFiniteSet(CountedUsers') /\ Cardinality(CountedUsers') = Cardinality(CountedUsers) + 1
      BY <2>4, <3>1, FS_AddElement
    <3>. QED
      BY <2>2, <3>1, <3>2 DEF SlCounted
  <2>6. StepFinds(u)' /\ Together'
    BY <2>1, <2>2, <2>4 DEF StepFinds, SlAt, Together
  <2>7. IntOpen' => IntServed'
    BY <1>3, <2>1, <2>2, <2>4 DEF IntServed, Together
  <2>. QED
    BY <1>1, <1>6, <2>3, <2>5, <2>6, <2>7, SlKeeps
<1>13. ASSUME CloseCount(u) PROVE SlAlone'
  <2>1. /\ a = "open" /\ (\A v \in SlUser : ~Between(v)) /\ serial' = serial
        /\ opening'.latest = opening.latest
    BY <1>13 DEF CloseCount, SlAt, Between, OpenStep, Opening
  <2>2. Together
    BY <2>1 DEF SlAlone
  <2>3. IsFiniteSet(CountedUsers) /\ serial.ref_count = Cardinality(CountedUsers) /\ u \in CountedUsers
    BY <1>2, <1>3, <2>1 DEF SlCounted
  <2>4. serial.ref_count # 0 /\ serial.ref_count - 1 \in Int
    BY <1>1, <2>3, FS_EmptySet
  <2>5. slUser' = [slUser EXCEPT ![u].at = "uncount", ![u].count = serial.ref_count - 1]
    BY <1>13, <2>4 DEF CloseCount
  <2>6. SlGoes(u, "uncount", m, serial.ref_count - 1)
    BY <1>5, <1>6, <2>5
  <2>7. /\ slUser'[u].at = "uncount" /\ slUser'[u].count = serial.ref_count - 1
        /\ CountedUsers' = CountedUsers \cup {u}
        /\ IntOpen' => IntOpen
    <3>. DEFINE pt == "uncount"
    <3>1. pt \in SlSteps /\ SlGoes(u, pt, m, serial.ref_count - 1)
      BY <1>6, <2>6
    <3>2. pt = "uncount"
      OBVIOUS
    <3>. HIDE DEF pt
    <3>. QED
      BY <1>1, <2>4, <3>1, <3>2, SlOthers
  <2>8. SlCounted'
    <3>1. CountedUsers' = CountedUsers
      BY <2>3, <2>7
    <3>. QED
      BY <2>1, <2>3, <3>1 DEF SlCounted
  <2>9. StepFinds(u)'
    BY <2>1, <2>2, <2>7 DEF StepFinds, SlAt, Together
  <2>10. IntOpen' => IntServed'
    BY <1>3, <2>1, <2>7 DEF IntServed
  <2>. QED
    BY <1>1, <1>6, <2>4, <2>6, <2>8, <2>9, <2>10, SlKeeps
<1>14. ASSUME CloseCounted(u) PROVE SlAlone'
  <2>1. a = "uncount" /\ Together /\ c = serial.ref_count - 1 /\ SlGoto(u, "last")
    BY <1>3, <1>14 DEF CloseCounted, SlAt, StepFinds
  <2>2. /\ serial'.int_rx = serial.int_rx /\ serial'.serial_rx = serial.serial_rx
        /\ serial'.allocated = serial.allocated /\ serial'.irq = serial.irq
        /\ serial'.ref_count = c /\ opening'.latest = opening.latest
    BY <1>1, <1>14 DEF CloseCounted, OpenStep, Opening
  <2>3. SlGoes(u, "last", m, c)
    BY <1>4, <1>6, <2>1
  <2>4. /\ slUser'[u].at = "last" /\ slUser'[u].count = c /\ CountedUsers' = CountedUsers \ {u}
        /\ IntOpen' => IntOpen
    <3>. DEFINE pt == "last"
    <3>1. pt \in SlSteps /\ SlGoes(u, pt, m, c)
      BY <1>6, <2>3
    <3>2. pt = "last"
      OBVIOUS
    <3>. HIDE DEF pt
    <3>. QED
      BY <1>1, <3>1, <3>2, SlOthers
  <2>5. SlCounted'
    <3>1. IsFiniteSet(CountedUsers) /\ serial.ref_count = Cardinality(CountedUsers)
          /\ u \in CountedUsers
      BY <1>2, <1>3, <2>1 DEF SlCounted
    <3>2. IsFiniteSet(CountedUsers') /\ Cardinality(CountedUsers') = Cardinality(CountedUsers) - 1
      BY <2>4, <3>1, FS_RemoveElement
    <3>. QED
      BY <2>1, <2>2, <3>1, <3>2 DEF SlCounted
  <2>6. StepFinds(u)'
    BY <2>1, <2>2, <2>4 DEF StepFinds, SlAt, Together
  <2>7. IntOpen' => IntServed'
    BY <1>3, <2>2, <2>4 DEF IntServed
  <2>. QED
    BY <1>1, <1>6, <2>3, <2>5, <2>6, <2>7, SlKeeps
<1>15. ASSUME CloseLast(u) PROVE SlAlone'
  <2>. DEFINE pt == IF serial.ref_count = 0 THEN "free" ELSE "closed"
  <2>1. /\ a = "last" /\ Together /\ c = serial.ref_count /\ serial' = serial
        /\ opening'.latest = opening.latest
    BY <1>3, <1>15 DEF CloseLast, SlAt, StepFinds, OpenStep, Opening
  <2>2. SlGoto(u, pt) /\ pt \in SlSteps \ {"open", "uncount"}
    BY <1>6, <1>15, <2>1 DEF CloseLast
  <2>3. SlGoes(u, pt, m, c)
    BY <1>4, <2>2
  <2>4. SlCounted' /\ CountedUsers' = CountedUsers /\ (IntOpen' => IntOpen)
    <3>. HIDE DEF pt
    <3>. QED
      BY <1>1, <1>7, <2>1, <2>2, <2>3
  <2>5. slUser'[u].at = pt /\ Together'
    <3>. HIDE DEF pt
    <3>. QED
      BY <1>1, <2>1, <2>2, <2>3, SlOthers DEF Together
  <2>6. pt = "free" => CountedUsers' = {}
    BY <1>3, <2>4, FS_EmptySet DEF SlCounted
  <2>7. StepFinds(u)'
    BY <2>2, <2>5, <2>6 DEF StepFinds, SlAt
  <2>8. IntOpen' => IntServed'
    BY <1>3, <2>1, <2>4 DEF IntServed
  <2>. HIDE DEF pt
  <2>. QED
    BY <1>1, <2>2, <2>3, <2>4, <2>5, <2>7, <2>8, SlKeeps
<1>16. ASSUME NEW pt \in {"forget", "clrint", "flags", "closed"}, SlGoto(u, pt),
              a \in {"free", "forget", "clrint", "flags"}, serial'.ref_count = serial.ref_count,
              pt = "forget" => serial'.serial_rx /\ ~serial'.allocated /\ serial'.irq,
              pt = "clrint" => ~serial'.serial_rx /\ ~serial'.allocated /\ ~serial'.int_rx,
              pt \in {"flags", "closed"} => Together'
       PROVE  SlAlone'
  <2>1. SlGoes(u, pt, m, c) /\ pt \in SlSteps \ {"open", "uncount"}
    BY <1>4, <1>6, <1>16
  <2>2. SlCounted' /\ CountedUsers' = CountedUsers
    BY <1>1, <1>7, <1>16, <2>1
  <2>3. slUser'[u].at = pt
    BY <1>1, <2>1, SlOthers
  <2>4. CountedUsers' = {} /\ ~IntOpen'
    BY <1>3, <1>16, <2>2 DEF StepFinds, IntOpen, CountedUsers, SlAt
  <2>5. StepFinds(u)'
    BY <1>16, <2>3, <2>4 DEF StepFinds, SlAt
  <2>. QED
    BY <1>1, <1>16, <2>1, <2>2, <2>4, <2>5, SlKeeps
<1>17. ASSUME CloseFree(u) PROVE SlAlone'
  <2>1. a = "free" /\ Together
    BY <1>3, <1>17 DEF CloseFree, SlAt, StepFinds
  <2>2. CASE serial.ref_count <= 1 /\ serial.int_rx
    <3>1. /\ SlGoto(u, "forget") /\ serial'.ref_count = serial.ref_count
          /\ serial'.serial_rx = serial.serial_rx /\ ~serial'.allocated /\ serial'.irq = serial.irq
      BY <1>1, <1>17, <2>2 DEF CloseFree
    <3>. QED
      BY <1>16, <2>1, <2>2, <3>1 DEF Together
  <2>3. CASE ~(serial.ref_count <= 1 /\ serial.int_rx)
    <3>1. SlGoto(u, "flags") /\ serial' = serial
      BY <1>17, <2>3 DEF CloseFree
    <3>. QED
      BY <1>16, <2>1, <3>1 DEF Together
  <2>. QED
    BY <2>2, <2>3
<1>18. ASSUME CloseForget(u) PROVE SlAlone'
  <2>1. /\ a = "forget" /\ SlGoto(u, "clrint") /\ serial'.ref_count = serial.ref_count
        /\ ~serial'.serial_rx /\ ~serial'.allocated /\ ~serial'.int_rx
    BY <1>1, <1>3, <1>18 DEF CloseForget, SlAt, StepFinds
  <2>. QED
    BY <1>16, <2>1
<1>19. ASSUME CloseClrInt(u) PROVE SlAlone'
  <2>1. /\ a = "clrint" /\ SlGoto(u, "flags") /\ serial'.ref_count = serial.ref_count
        /\ ~serial'.serial_rx /\ ~serial'.allocated /\ ~serial'.int_rx /\ ~serial'.irq
    BY <1>1, <1>3, <1>19 DEF CloseClrInt, SlAt, StepFinds
  <2>. QED
    BY <1>16, <2>1 DEF Together
<1>20. ASSUME CloseFlags(u) PROVE SlAlone'
  <2>1. a = "flags" /\ SlGoto(u, "closed") /\ Together
    BY <1>3, <1>20 DEF CloseFlags, SlAt, StepFinds
  <2>2. /\ serial'.ref_count = serial.ref_count /\ ~serial'.int_rx
        /\ serial'.serial_rx = serial.serial_rx /\ serial'.allocated = serial.allocated
        /\ serial'.irq = serial.irq
    BY <1>1, <1>20 DEF CloseFlags
  <2>. QED
    BY <1>16, <2>1, <2>2 DEF Together
<1>. QED
  BY <1>8, <1>9, <1>10, <1>11, <1>12, <1>13, <1>14, <1>15, <1>17, <1>18, <1>19, <1>20 DEF SlStep

\* The steps of open and close, which may meet.
LEMMA SlOpensAndCloses ==
    ASSUME SlInv, NEW u \in SlUser, SlStep(u)
    PROVE  SlInv'
<1>1. SlTypeOK /\ SlTypeOK'
  BY SlTypes DEF SlInv
<1>2. PICK latest \in {"int", "plain"} : Opening(latest)
  BY <1>1 DEF SlTypeOK, SlStep, OpenFlags, OpenFifo, OpenSetInt, OpenCount, OpenCounted,
         CloseCount, CloseCounted, CloseLast, CloseFree, CloseForget, CloseClrInt, CloseFlags,
         OpenStep
<1>. SUFFICES ASSUME ~opening'.overlapped PROVE SlAlone'
  BY <1>1 DEF SlInv
<1>3. CASE AtRest'
  BY <1>1, <1>3, SlRest
<1>4. CASE ~AtRest'
  <2>1. /\ ~opening.overlapped
        /\ \A v, w \in SlUser : Between(v)' /\ Between(w)' => v = w
    BY <1>2, <1>4 DEF Opening
  <2>2. SlAlone
    BY <2>1 DEF SlInv
  <2>3. \A v \in SlUser \ {u} : slUser'[v] = slUser[v]
    BY <1>1 DEF SlTypeOK, SlStep, OpenFlags, OpenFifo, OpenSetInt, OpenCount, OpenCounted,
         CloseCount, CloseCounted, CloseLast, CloseFree, CloseForget, CloseClrInt, CloseFlags,
         SlGoto
  <2>4. \A v \in SlUser \ {u} : ~Between(v)
    <3>1. SUFFICES ASSUME NEW v \in SlUser \ {u}, Between(v) PROVE FALSE
      OBVIOUS
    <3>2. ~Between(u)
      BY <2>2, <3>1 DEF SlAlone
    <3>3. Between(v)' /\ ~Between(u)'
      BY <2>1, <2>3, <3>1 DEF Between
    <3>4. SlAt(u, "open") /\ serial.ref_count = 0
      <4>1. CASE OpenFlags(u)
        BY <1>1, <3>3, <4>1 DEF OpenFlags, Between, SlTypeOK
      <4>2. CASE CloseCount(u)
        BY <1>1, <3>3, <4>2 DEF CloseCount, Between, SlTypeOK
      <4>. QED
        BY <3>2, <4>1, <4>2 DEF SlStep, OpenFifo, OpenSetInt, OpenCount, OpenCounted,
           CloseCounted, CloseLast, CloseFree, CloseForget, CloseClrInt, CloseFlags, SlAt, Between
    <3>5. u \in CountedUsers /\ IsFiniteSet(CountedUsers) /\ Cardinality(CountedUsers) = 0
      BY <2>2, <3>4 DEF SlAlone, SlCounted, CountedUsers, SlAt
    <3>. QED
      BY <3>5, FS_EmptySet
  <2>. QED
    BY <1>1, <2>2, <2>4, SlOneAfterAnother
<1>. QED
  BY <1>3, <1>4

-----------------------------------------------------------------------------
(* Transmission by DMA *)

TxTypeOK ==
    /\ txDma = [data_queue |-> txDma.data_queue, activated |-> txDma.activated,
                sends |-> txDma.sends, next |-> txDma.next]
    /\ txDma.data_queue \in Seq(0 .. SL_BUFFERS - 1) /\ txDma.activated \in BOOLEAN
    /\ txDma.next \in 0 .. SL_BUFFERS - 1
    /\ writer \in [SlUser -> [at : {"run", "pushed", "transmit"},
                              buffer : 0 .. SL_BUFFERS - 1 \cup {NoBuffer}]]
    /\ \A u \in SlUser : ~WriterAt(u, "run") => writer[u].buffer \in 0 .. SL_BUFFERS - 1

\* A device that is activated sends the head of its queue, or one thread is about
\* to; for one that is not, the thread that pushed the head has yet to look.
TxOrder ==
    /\ txDma.sends # NoBuffer => txDma.activated /\ IsHead(txDma.sends)
    /\ txDma.activated /\ txDma.sends = NoBuffer => \E u \in SlUser : WriterAt(u, "transmit")
    /\ ~txDma.activated /\ txDma.data_queue # << >> =>
         \E u \in SlUser : WriterAt(u, "pushed") /\ IsHead(writer[u].buffer)
    /\ \A u \in SlUser : WriterAt(u, "transmit") =>
         /\ txDma.activated /\ txDma.sends = NoBuffer /\ IsHead(writer[u].buffer)
         /\ \A v \in SlUser : WriterAt(v, "transmit") => v = u

TxInv == TxTypeOK /\ (astray \/ TxOrder)

\* What DMA finds at the head of its queue when a buffer is pushed or popped.
LEMMA QueueEnds ==
    ASSUME NEW T, NEW q \in Seq(T)
    PROVE  /\ \A b \in T :
                /\ Append(q, b) \in Seq(T) /\ Append(q, b) # << >>
                /\ q # << >> => Head(Append(q, b)) = Head(q)
                /\ q = << >> => Head(Append(q, b)) = b
           /\ q # << >> =>
                /\ Tail(q) \in Seq(T)
                /\ Tail(q) # << >> => Head(Tail(q)) \in T
<1>1. ASSUME NEW b \in T
      PROVE  /\ Append(q, b) \in Seq(T) /\ Append(q, b) # << >>
             /\ q # << >> => Head(Append(q, b)) = Head(q)
             /\ q = << >> => Head(Append(q, b)) = b
  <2>1. Append(q, b) \in Seq(T) /\ Len(Append(q, b)) = Len(q) + 1 /\ Append(q, b)[Len(q) + 1] = b
    OBVIOUS
  <2>2. \A i \in 1 .. Len(q) : Append(q, b)[i] = q[i]
    OBVIOUS
  <2>3. q # << >> => Len(q) >= 1
    OBVIOUS
  <2>4. q # << >> => Head(Append(q, b)) = Head(q)
    BY <2>1, <2>2, <2>3
  <2>5. q = << >> => Head(Append(q, b)) = b
    BY <2>1
  <2>. QED
    BY <2>1, <2>4, <2>5
<1>2. ASSUME q # << >>
      PROVE  Tail(q) \in Seq(T) /\ (Tail(q) # << >> => Head(Tail(q)) \in T)
  BY <1>2
<1>. QED
  BY <1>1, <1>2

\* The types of what a step of the transmission leaves behind.
LEMMA TxTypes ==
    ASSUME TxTypeOK, TransmissionNext
    PROVE  TxTypeOK'
<1>. DEFINE q == txDma.data_queue
            B == 0 .. SL_BUFFERS - 1
            W == [at : {"run", "pushed", "transmit"}, buffer : B \cup {NoBuffer}]
<1>1. SL_BUFFERS \in Nat /\ SL_BUFFERS > 0 /\ NoBuffer \notin B
  BY SerialConstants
<1>2. /\ txDma = [data_queue |-> q, activated |-> txDma.activated,
                  sends |-> txDma.sends, next |-> txDma.next]
      /\ q \in Seq(B) /\ txDma.activated \in BOOLEAN /\ txDma.next \in B
      /\ writer \in [SlUser -> W]
      /\ \A u \in SlUser : ~WriterAt(u, "run") => writer[u].buffer \in B
  BY DEF TxTypeOK
<1>3. ASSUME NEW u \in SlUser, DmaTxPush(u) PROVE TxTypeOK'
  <2>. DEFINE b == txDma.next
  <2>1. /\ txDma' = [data_queue |-> Append(q, b), activated |-> txDma.activated,
                     sends |-> txDma.sends, next |-> (b + 1) % SL_BUFFERS]
        /\ writer' = [writer EXCEPT ![u] = [at |-> "pushed", buffer |-> b]]
    BY <1>2, <1>3 DEF DmaTxPush
  <2>2. (b + 1) % SL_BUFFERS \in B
    <3>1. PICK x \in Int : x = b + 1
      BY <1>2
    <3>2. x % SL_BUFFERS \in B
      BY <1>1, <3>1, RemainderAround
    <3>. QED
      BY <3>1, <3>2
  <2>3. Append(q, b) \in Seq(B)
    <3>. HIDE DEF q, B
    <3>. QED
      BY <1>2, QueueEnds
  <2>4. writer' \in [SlUser -> W] /\ \A v \in SlUser : ~WriterAt(v, "run")' => writer'[v].buffer \in B
    BY <1>2, <2>1 DEF WriterAt
  <2>. QED
    BY <1>2, <2>1, <2>2, <2>3, <2>4 DEF TxTypeOK
<1>4. ASSUME NEW u \in SlUser, DmaTxActivate(u) \/ DmaTxTransmit(u) PROVE TxTypeOK'
  <2>1. /\ txDma'.data_queue = q /\ txDma'.activated \in BOOLEAN /\ txDma'.next = txDma.next
        /\ txDma' = [data_queue |-> txDma'.data_queue, activated |-> txDma'.activated,
                     sends |-> txDma'.sends, next |-> txDma'.next]
    BY <1>2, <1>4 DEF DmaTxActivate, DmaTxTransmit
  <2>2. ~WriterAt(u, "run") /\ \E pt \in {"run", "transmit"} : writer' = [writer EXCEPT ![u].at = pt]
    BY <1>4 DEF DmaTxActivate, DmaTxTransmit, WriterAt
  <2>3. writer' \in [SlUser -> W] /\ \A v \in SlUser : writer'[v].buffer = writer[v].buffer
                                 /\ (~WriterAt(v, "run")' => ~WriterAt(v, "run"))
    BY <1>2, <2>2 DEF WriterAt
  <2>. QED
    BY <1>2, <2>1, <2>3 DEF TxTypeOK
<1>5. ASSUME DeviceDmaDone PROVE TxTypeOK'
  <2>. DEFINE rest == IF q = << >> THEN << >> ELSE Tail(q)
  <2>1. /\ txDma' = [data_queue |-> rest, activated |-> rest # << >>,
                     sends |-> IF rest # << >> THEN Head(rest) ELSE NoBuffer,
                     next |-> txDma.next]
        /\ writer' = writer
    BY <1>2, <1>5 DEF DeviceDmaDone
  <2>2. rest \in Seq(B)
    <3>. HIDE DEF B, q
    <3>. QED
      BY <1>2, QueueEnds
  <2>. HIDE DEF rest
  <2>. QED
    BY <1>2, <2>1, <2>2 DEF TxTypeOK, WriterAt
<1>. QED
  BY <1>3, <1>4, <1>5 DEF TransmissionNext

\* The steps of _serial_dma_tx and of the interrupt, until a thread transmits
\* what is not the head; a device that is idle starts anew.
LEMMA TxStep ==
    ASSUME TxInv, TransmissionNext
    PROVE  TxInv'
<1>. DEFINE q == txDma.data_queue
            B == 0 .. SL_BUFFERS - 1
<1>1. NoBuffer \notin B
  BY SerialConstants
<1>2. /\ TxTypeOK /\ TxTypeOK'
      /\ txDma = [data_queue |-> q, activated |-> txDma.activated,
                  sends |-> txDma.sends, next |-> txDma.next]
      /\ q \in Seq(B) /\ txDma.activated \in BOOLEAN /\ txDma.next \in B
      /\ writer \in [SlUser -> [at : {"run", "pushed", "transmit"}, buffer : B \cup {NoBuffer}]]
      /\ \A u \in SlUser : ~WriterAt(u, "run") => writer[u].buffer \in B
  BY TxTypes DEF TxInv, TxTypeOK
<1>. SUFFICES ASSUME ~astray' PROVE TxOrder'
  BY <1>2 DEF TxInv
<1>3. ASSUME NEW u \in SlUser, DmaTxPush(u) PROVE TxOrder'
  <2>. DEFINE b == txDma.next
  <2>1. /\ WriterAt(u, "run") /\ TxOrder
        /\ txDma'.data_queue = Append(q, b) /\ txDma'.activated = txDma.activated
        /\ txDma'.sends = txDma.sends
        /\ writer' = [writer EXCEPT ![u] = [at |-> "pushed", buffer |-> b]]
    BY <1>2, <1>3 DEF DmaTxPush, TxInv
  <2>2. /\ Append(q, b) # << >>
        /\ q # << >> => Head(Append(q, b)) = Head(q)
        /\ q = << >> => Head(Append(q, b)) = b
    <3>. HIDE DEF q, B
    <3>. QED
      BY <1>2, QueueEnds
  <2>3. /\ writer'[u] = [at |-> "pushed", buffer |-> b]
        /\ \A v \in SlUser \ {u} : writer'[v] = writer[v]
    BY <1>2, <2>1
  <2>4. /\ txDma'.data_queue # << >>
        /\ q # << >> => Head(txDma'.data_queue) = Head(q)
        /\ q = << >> => Head(txDma'.data_queue) = b
    BY <2>1, <2>2
  <2>5. \A v \in SlUser : /\ WriterAt(v, "transmit")' <=> WriterAt(v, "transmit")
                          /\ WriterAt(v, "transmit") => writer'[v] = writer[v]
                          /\ WriterAt(v, "pushed") => WriterAt(v, "pushed")' /\ writer'[v] = writer[v]
    BY <2>1, <2>3 DEF WriterAt
  <2>6. WriterAt(u, "pushed")' /\ writer'[u].buffer = b
    BY <2>3 DEF WriterAt
  <2>. HIDE DEF b, q
  <2>7. txDma'.sends # NoBuffer => txDma'.activated /\ txDma'.sends = Head(txDma'.data_queue)
    BY <2>1, <2>4 DEF TxOrder, IsHead, q
  <2>8. txDma'.activated /\ txDma'.sends = NoBuffer => \E v \in SlUser : WriterAt(v, "transmit")'
    BY <2>1, <2>5 DEF TxOrder
  <2>9. ~txDma'.activated =>
          \E v \in SlUser : WriterAt(v, "pushed")' /\ writer'[v].buffer = Head(txDma'.data_queue)
    <3>1. CASE q = << >>
      BY <2>4, <2>6, <3>1
    <3>2. ASSUME q # << >>, ~txDma'.activated
          PROVE  \E v \in SlUser : WriterAt(v, "pushed")' /\ writer'[v].buffer = Head(txDma'.data_queue)
      <4>1. PICK v \in SlUser : WriterAt(v, "pushed") /\ IsHead(writer[v].buffer)
        BY <2>1, <3>2 DEF TxOrder, q
      <4>. QED
        BY <2>4, <2>5, <3>2, <4>1 DEF IsHead, q
    <3>. QED
      BY <3>1, <3>2
  <2>10. ASSUME NEW v \in SlUser, WriterAt(v, "transmit")'
         PROVE  /\ txDma'.activated /\ txDma'.sends = NoBuffer
                /\ writer'[v].buffer = Head(txDma'.data_queue)
                /\ \A w \in SlUser : WriterAt(w, "transmit")' => w = v
    <3>1. WriterAt(v, "transmit") /\ writer'[v] = writer[v]
      BY <2>5, <2>10
    <3>2. /\ txDma.activated /\ txDma.sends = NoBuffer /\ IsHead(writer[v].buffer)
          /\ \A w \in SlUser : WriterAt(w, "transmit") => w = v
      BY <2>1, <3>1 DEF TxOrder
    <3>. QED
      BY <2>1, <2>4, <2>5, <3>1, <3>2 DEF IsHead, q
  <2>. QED
    BY <2>4, <2>7, <2>8, <2>9, <2>10 DEF TxOrder, IsHead
<1>4. ASSUME NEW u \in SlUser, DmaTxActivate(u) PROVE TxOrder'
  <2>1. /\ WriterAt(u, "pushed") /\ TxOrder
        /\ txDma'.data_queue = q /\ txDma'.activated /\ txDma'.sends = txDma.sends
        /\ txDma.activated \/ IsHead(writer[u].buffer)
        /\ writer' = [writer EXCEPT ![u].at = IF txDma.activated THEN "run" ELSE "transmit"]
    BY <1>2, <1>4 DEF DmaTxActivate, TxInv
  <2>2. /\ WriterAt(u, "transmit")' <=> ~txDma.activated
        /\ \A v \in SlUser : writer'[v].buffer = writer[v].buffer
        /\ \A v \in SlUser \ {u} : writer'[v] = writer[v]
    BY <1>2, <2>1 DEF WriterAt
  <2>3. \A x : IsHead(x)' <=> IsHead(x)
    BY <2>1 DEF IsHead
  <2>4. ~WriterAt(u, "transmit")
    BY <2>1 DEF WriterAt
  <2>. QED
    BY <2>1, <2>2, <2>3, <2>4 DEF TxOrder, WriterAt, IsHead
<1>5. ASSUME NEW u \in SlUser, DmaTxTransmit(u) PROVE TxOrder'
  <2>1. /\ WriterAt(u, "transmit") /\ TxOrder
        /\ txDma'.data_queue = q /\ txDma'.activated = txDma.activated
        /\ txDma'.sends = writer[u].buffer
        /\ writer' = [writer EXCEPT ![u].at = "run"]
    BY <1>2, <1>5 DEF DmaTxTransmit, TxInv
  <2>2. /\ WriterAt(u, "run")' /\ \A v \in SlUser \ {u} : writer'[v] = writer[v]
    BY <1>2, <2>1 DEF WriterAt
  <2>3. /\ txDma.activated /\ IsHead(writer[u].buffer) /\ writer[u].buffer # NoBuffer
        /\ \A v \in SlUser : ~WriterAt(v, "transmit")'
    BY <1>1, <1>2, <2>1, <2>2 DEF TxOrder, WriterAt
  <2>. QED
    BY <2>1, <2>3 DEF TxOrder, IsHead
<1>6. ASSUME DeviceDmaDone PROVE TxOrder'
  <2>. DEFINE rest == IF q = << >> THEN << >> ELSE Tail(q)
  <2>1. /\ txDma.sends # NoBuffer /\ writer' = writer
        /\ txDma'.data_queue = rest /\ txDma'.activated = (rest # << >>)
        /\ txDma'.sends = IF rest # << >> THEN Head(rest) ELSE NoBuffer
    BY <1>2, <1>6 DEF DeviceDmaDone
  <2>2. rest # << >> => Head(rest) \in B
    <3>. HIDE DEF q, B
    <3>. QED
      BY <1>2, QueueEnds
  <2>3. \A v \in SlUser : ~WriterAt(v, "transmit")'
    <3>1. CASE astray
      BY <1>6, <3>1 DEF DeviceDmaDone, TxIdle, WriterAt
    <3>2. CASE ~astray
      BY <2>1, <3>2 DEF TxInv, TxOrder, WriterAt
    <3>. QED
      BY <3>1, <3>2
  <2>. HIDE DEF rest
  <2>. QED
    BY <1>1, <2>1, <2>2, <2>3 DEF TxOrder, IsHead
<1>. QED
  BY <1>3, <1>4, <1>5, <1>6 DEF TransmissionNext

-----------------------------------------------------------------------------
(* The serial device *)

SerialInv == FifoInv /\ SlInv /\ TxInv

\* A device that nobody has opened, with nothing received and nothing written.
LEMMA InitSerial == SerialInit => SerialInv
<1>. SUFFICES ASSUME SerialInit PROVE SerialInv
  OBVIOUS
<1>1. SL_BUFSZ \in Nat /\ SL_BUFSZ > 1 /\ SL_BUFFERS \in Nat /\ SL_BUFFERS > 0
  BY SerialConstants
<1>2. FifoInv
  <2>1. 0 \in 0 .. SL_BUFSZ - 1 /\ 0 = Around(SL_BUFSZ, 0, 0)
    BY <1>1 DEF Around
  <2>2. rxFifo = EmptyFifo /\ received = [unread |-> << >>, next |-> 0]
    BY DEF SerialInit
  <2>3. FifoTypeOK
    BY <2>1, <2>2 DEF FifoTypeOK, EmptyFifo
  <2>4. received.unread = RingSeq(SL_BUFSZ, rxFifo.buffer, 0, 0)
    BY <2>2 DEF RingSeq
  <2>. QED
    BY <2>1, <2>2, <2>3, <2>4 DEF FifoInv, EmptyFifo
<1>3. SlInv
  <2>1. (\A u \in SlUser : ~Between(u) /\ StepFinds(u)) /\ CountedUsers = {} /\ ~IntOpen /\ Together
    BY DEF SerialInit, SlAt, Between, StepFinds, CountedUsers, IntOpen, Together
  <2>2. SlCounted
    BY <2>1, FS_EmptySet DEF SlCounted, SerialInit
  <2>3. SlTypeOK
    BY DEF SlTypeOK, SerialInit, SlSteps
  <2>. QED
    BY <2>1, <2>2, <2>3 DEF SlInv, SlAlone
<1>4. TxInv
  <2>1. 0 \in 0 .. SL_BUFFERS - 1 /\ << >> \in Seq(0 .. SL_BUFFERS - 1)
    BY <1>1
  <2>2. TxTypeOK
    BY <2>1 DEF TxTypeOK, SerialInit, WriterAt
  <2>3. TxOrder
    BY DEF TxOrder, SerialInit, WriterAt
  <2>. QED
    BY <2>2, <2>3 DEF TxInv
<1>. QED
  BY <1>2, <1>3, <1>4 DEF SerialInv

\* Every step of the interrupt, of a thread that opens, closes or reads, and of
\* the transmission.
LEMMA NextSerial == SerialInv /\ [SerialNext]_serialVars => SerialInv'
<1>. SUFFICES ASSUME SerialInv, [SerialNext]_serialVars PROVE SerialInv'
  OBVIOUS
<1>1. FifoInv /\ SlInv /\ TxInv
  BY DEF SerialInv
<1>2. UNCHANGED rxVars => FifoInv'
  BY <1>1 DEF rxVars, FifoInv, FifoTypeOK
<1>3. UNCHANGED <<serial, slUser, opening>> => SlInv'
  <2>1. UNCHANGED <<serial, slUser, opening>> => SlTypeOK'
    BY <1>1 DEF SlInv, SlTypeOK
  <2>2. SlAlone /\ UNCHANGED <<serial, slUser, opening>> => SlAlone'
    BY DEF SlAlone, SlCounted, CountedUsers, SlAt, Between, IntOpen, IntServed, Together, StepFinds
  <2>. QED
    BY <1>1, <2>1, <2>2 DEF SlInv
<1>4. UNCHANGED dmaVars => TxInv'
  BY <1>1 DEF dmaVars, TxInv, TxTypeOK, TxOrder, IsHead, WriterAt
<1>5. ASSUME NEW u \in SlUser, SlStep(u) PROVE SerialInv'
  <2>1. SlInv'
    BY <1>1, <1>5, SlOpensAndCloses
  <2>2. UNCHANGED dmaVars
    BY <1>5 DEF SlStep, OpenFlags, OpenFifo, OpenSetInt, OpenCount, OpenCounted, CloseCount,
       CloseCounted, CloseLast, CloseFree, CloseForget, CloseClrInt, CloseFlags, OpenStep
  <2>3. \/ UNCHANGED rxVars
        \/ rxFifo' = EmptyFifo /\ received' = [received EXCEPT !.unread = << >>]
    BY <1>5 DEF SlStep, OpenFlags, OpenFifo, OpenSetInt, OpenCount, OpenCounted, CloseCount,
       CloseCounted, CloseLast, CloseFree, CloseForget, CloseClrInt, CloseFlags
  <2>4. ASSUME rxFifo' = EmptyFifo, received' = [received EXCEPT !.unread = << >>]
        PROVE  FifoInv'
    <3>1. received' = [unread |-> << >>, next |-> received.next] /\ received.next \in Nat
      BY <1>1, <2>4 DEF FifoInv, FifoTypeOK
    <3>. QED
      BY <2>4, <3>1, SlEmpty
  <2>. QED
    BY <1>2, <1>4, <2>1, <2>2, <2>3, <2>4 DEF SerialInv
<1>6. ASSUME NEW u \in SlUser, IntRx(u) PROVE SerialInv'
  <2>1. FifoInv'
    BY <1>1, <1>6, SlRead
  <2>2. UNCHANGED <<serial, slUser, opening>> /\ UNCHANGED dmaVars
    BY <1>6 DEF IntRx
  <2>. QED
    BY <1>3, <1>4, <2>1, <2>2 DEF SerialInv
<1>7. ASSUME DeviceRxInd PROVE SerialInv'
  <2>1. FifoInv'
    BY <1>1, <1>7, SlReceived
  <2>2. UNCHANGED <<serial, slUser, opening>> /\ UNCHANGED dmaVars
    BY <1>7 DEF DeviceRxInd
  <2>. QED
    BY <1>3, <1>4, <2>1, <2>2 DEF SerialInv
<1>8. ASSUME TransmissionNext PROVE SerialInv'
  <2>1. TxInv'
    BY <1>1, <1>8, TxStep
  <2>2. UNCHANGED deviceVars
    BY <1>8 DEF TransmissionNext, DmaTxPush, DmaTxActivate, DmaTxTransmit, DeviceDmaDone
  <2>3. UNCHANGED rxVars /\ UNCHANGED <<serial, slUser, opening>>
    BY <2>2 DEF deviceVars, rxVars
  <2>. QED
    BY <1>2, <1>3, <2>1, <2>3 DEF SerialInv
<1>9. CASE UNCHANGED serialVars
  <2>1. UNCHANGED rxVars /\ UNCHANGED <<serial, slUser, opening>> /\ UNCHANGED dmaVars
    BY <1>9 DEF serialVars, rxVars, dmaVars
  <2>. QED
    BY <1>2, <1>3, <1>4, <2>1 DEF SerialInv
<1>. QED
  BY <1>5, <1>6, <1>7, <1>8, <1>9 DEF SerialNext, ReceptionNext, SlStep

\* What the interrupt, the readers and the writers rely on.
LEMMA SerialShows == SerialInv => SerialInvariant
<1>. SUFFICES ASSUME SerialInv PROVE SerialInvariant
  OBVIOUS
<1>1. FifoInv /\ SlTypeOK /\ (opening.overlapped \/ SlAlone) /\ TxInv
  BY DEF SerialInv, SlInv
<1>2. FifoHolds
  BY <1>1, SlHolds
<1>3. OpenReceives
  BY <1>1 DEF OpenReceives, SlAlone, IntOpen, IntServed
<1>4. FifoGoesInClose
  <2>. SUFFICES ASSUME ~opening.overlapped, serial.irq,
                       \A u \in SlUser : slUser[u].at \notin {"forget", "clrint"}
                PROVE  serial.serial_rx /\ serial.allocated
    BY DEF FifoGoesInClose, InterruptHasFifo
  <2>1. CASE \A u \in SlUser : ~Between(u)
    BY <1>1, <2>1 DEF SlAlone, Together
  <2>2. ASSUME NEW u \in SlUser, Between(u) PROVE serial.serial_rx /\ serial.allocated
    <3>1. slUser[u].at \in SlSteps \ {"closed", "open", "forget", "clrint"}
      BY <1>1, <2>2 DEF SlTypeOK, Between
    <3>. QED
      BY <1>1, <3>1 DEF SlSteps, SlAlone, StepFinds, SlAt, Together
  <2>. QED
    BY <2>1, <2>2
<1>5. RefsCounted
  BY <1>1 DEF SlAlone, SlCounted, RefsCounted, CountedUsers
<1>6. TransmitsInOrder
  <2>1. ~astray => TxOrder
    BY <1>1 DEF TxInv
  <2>2. \A u \in SlUser : WriterAt(u, "run") => ~WriterAt(u, "transmit") /\ ~WriterAt(u, "pushed")
    BY DEF WriterAt
  <2>. QED
    BY <1>1, <2>1, <2>2 DEF TransmitsInOrder, SendsHead, TxOrder, TxInv, TxTypeOK
<1>. QED
  BY <1>2, <1>3, <1>4, <1>5, <1>6 DEF SerialInvariant

\* Over all interleavings of opens, closes, reads and writes with the interrupts:
\* no byte that the interrupt stores is lost, doubled or reordered; unless two
\* opens or closes met, none takes the FIFO or the interrupt from those who read;
\* and until a thread transmits what is not the head, no buffer is either.
THEOREM SerialDeliversInOrder == SerialSpec => []SerialInvariant
<1>1. SerialInv /\ [SerialNext]_serialVars => SerialInv'
  BY NextSerial
<1>2. SerialInv => SerialInvariant
  BY SerialShows
<1>. QED
  BY <1>1, <1>2, InitSerial, PTL DEF SerialSpec

-----------------------------------------------------------------------------
(* The AT client and the heap *)

-----------------------------------------------------------------------------
(* The AT client *)

AtTypeOK ==
    /\ at = [resp |-> at.resp, resp_status |-> at.resp_status,
             resp_notice |-> at.resp_notice, rx_notice |-> at.rx_notice]
    /\ at.resp \in BOOLEAN /\ at.resp_notice \in Nat /\ at.rx_notice \in Nat
    /\ parser = [at |-> parser.at, line |-> parser.line, len |-> parser.len,
                 line_counts |-> parser.line_counts]
    /\ parser.at \in {"read", "reset", "take", "wait", "line"}
    /\ caller = [at |-> caller.at, op |-> caller.op, cmd |-> caller.cmd,
                 result |-> caller.result]
    /\ caller.at \in {"idle", "zero", "take", "wait", "got", "timeout", "deleted", "done"}
    /\ caller.cmd \in Int
    /\ past = [gap |-> past.gap, late |-> past.late, partial |-> past.partial,
               clean |-> past.clean]
    /\ past.gap \in BOOLEAN /\ past.late \in BOOLEAN /\ past.partial \in BOOLEAN
    /\ past.clean \in BOOLEAN

\* A line that came since the parser's last read has released rx_notice since
\* its reset, or came before it.
InputNoticed ==
    /\ parser.at = "take" => fifo = << >> \/ at.rx_notice > 0 \/ past.gap
    /\ parser.at = "wait" => fifo = << >> \/ past.gap

\* Unless an answer came late, resp_notice is released once for a command, by
\* the line that ends the response, and only for a caller that has not begun to
\* wait.
NoticeOwed ==
    /\ caller.at \in {"idle", "done"} => ~at.resp
    /\ ~past.late =>
         /\ at.resp_notice \in {0, 1}
         /\ at.resp_notice = 1 => ~at.resp /\ caller.at \in {"zero", "take"}
         /\ caller.at = "got" => ~at.resp

\* A caller whose time was over finds nothing of a response on its way, or it
\* will come late.
TimedOut == caller.at \in {"timeout", "deleted"} /\ at.resp => OnlyUnsolicited \/ past.late

AtInv ==
    /\ AtTypeOK
    /\ InputNoticed
    /\ NoticeOwed
    /\ TimedOut

\* A line arrives and at_client_rx_ind wakes the parser or releases rx_notice.
LEMMA AtReceives ==
    ASSUME AtInv, RxInd, NEW line, fifo' = Append(fifo, line),
           caller' = caller, past' = past, module = << >> => line = Unsolicited /\ module' = << >>
    PROVE  AtInv'
<1>1. \/ /\ parser.at = "wait" /\ at' = at
         /\ parser' = [at |-> "read", line |-> parser.line, len |-> parser.len,
                       line_counts |-> parser.line_counts]
      \/ /\ parser.at # "wait" /\ parser' = parser
         /\ at' = [resp |-> at.resp, resp_status |-> at.resp_status,
                   resp_notice |-> at.resp_notice, rx_notice |-> at.rx_notice + 1]
  BY DEF AtInv, AtTypeOK, RxInd
<1>2. AtTypeOK'
  BY <1>1 DEF AtInv, AtTypeOK
<1>3. InputNoticed'
  BY <1>1 DEF AtInv, AtTypeOK, InputNoticed
<1>4. NoticeOwed'
  BY <1>1 DEF AtInv, NoticeOwed
<1>5. OnlyUnsolicited => OnlyUnsolicited'
  BY <1>1 DEF OnlyUnsolicited
<1>6. TimedOut'
  BY <1>1, <1>5 DEF AtInv, TimedOut
<1>. QED
  BY <1>2, <1>3, <1>4, <1>6 DEF AtInv

\* A line from the module, or an unsolicited one.
LEMMA AtDevice == ASSUME AtInv, DeviceReceive \/ DeviceReceiveUrc PROVE AtInv'
<1>1. ASSUME DeviceReceive PROVE AtInv'
  BY <1>1, AtReceives DEF DeviceReceive
<1>2. ASSUME DeviceReceiveUrc PROVE AtInv'
  BY <1>2, AtReceives DEF DeviceReceiveUrc
<1>. QED
  BY <1>1, <1>2

\* The steps of client_parser.
LEMMA AtParser == ASSUME AtInv, AtParserStep PROVE AtInv'
<1>1. AtTypeOK /\ InputNoticed /\ NoticeOwed /\ TimedOut
  BY DEF AtInv
<1>2. ASSUME ParserRead PROVE AtInv'
  <2>1. CASE fifo = << >>
    <3>1. /\ parser' = [at |-> "reset", line |-> parser.line, len |-> parser.len,
                        line_counts |-> parser.line_counts]
          /\ UNCHANGED <<at, caller, module, fifo, past>>
      BY <1>1, <1>2, <2>1 DEF ParserRead, AtTypeOK
    <3>. QED
      BY <1>1, <2>1, <3>1 DEF AtInv, AtTypeOK, InputNoticed, NoticeOwed, TimedOut, OnlyUnsolicited
  <2>2. CASE fifo # << >>
    <3>1. /\ parser' = [at |-> "line", line |-> Head(fifo), len |-> parser.len,
                        line_counts |-> parser.line_counts]
          /\ fifo' = Tail(fifo) /\ UNCHANGED <<at, caller, module, past>>
      BY <1>1, <1>2, <2>2 DEF ParserRead, AtTypeOK
    <3>2. OnlyUnsolicited => OnlyUnsolicited'
      BY <2>2, <3>1 DEF OnlyUnsolicited
    <3>. QED
      BY <1>1, <3>1, <3>2 DEF AtInv, AtTypeOK, InputNoticed, NoticeOwed, TimedOut
  <2>. QED
    BY <2>1, <2>2
<1>3. ASSUME ParserReset PROVE AtInv'
  <2>1. /\ parser.at = "reset"
        /\ parser' = [at |-> "take", line |-> parser.line, len |-> parser.len,
                      line_counts |-> parser.line_counts]
        /\ at' = [resp |-> at.resp, resp_status |-> at.resp_status,
                  resp_notice |-> at.resp_notice, rx_notice |-> 0]
        /\ past' = [gap |-> fifo # << >>, late |-> past.late, partial |-> past.partial,
                    clean |-> past.clean]
        /\ UNCHANGED <<caller, module, fifo>>
    BY <1>1, <1>3 DEF ParserReset, AtTypeOK
  <2>. QED
    BY <1>1, <2>1 DEF AtInv, AtTypeOK, InputNoticed, NoticeOwed, TimedOut, OnlyUnsolicited
<1>4. ASSUME ParserTake PROVE AtInv'
  <2>1. CASE at.rx_notice > 0
    <3>1. /\ parser.at = "take"
          /\ parser' = [at |-> "read", line |-> parser.line, len |-> parser.len,
                        line_counts |-> parser.line_counts]
          /\ at' = [resp |-> at.resp, resp_status |-> at.resp_status,
                    resp_notice |-> at.resp_notice, rx_notice |-> at.rx_notice - 1]
          /\ UNCHANGED <<caller, module, fifo, past>>
      BY <1>1, <1>4, <2>1 DEF ParserTake, AtTypeOK
    <3>2. AtTypeOK'
      BY <1>1, <2>1, <3>1 DEF AtTypeOK
    <3>. QED
      BY <1>1, <3>1, <3>2 DEF AtInv, InputNoticed, NoticeOwed, TimedOut, OnlyUnsolicited
  <2>2. CASE ~(at.rx_notice > 0)
    <3>1. /\ parser.at = "take"
          /\ parser' = [at |-> "wait", line |-> parser.line, len |-> parser.len,
                        line_counts |-> parser.line_counts]
          /\ UNCHANGED <<at, caller, module, fifo, past>>
      BY <1>1, <1>4, <2>2 DEF ParserTake, AtTypeOK
    <3>. QED
      BY <1>1, <2>2, <3>1 DEF AtInv, AtTypeOK, InputNoticed, NoticeOwed, TimedOut, OnlyUnsolicited
  <2>. QED
    BY <2>1, <2>2
<1>5. ASSUME ParserOther PROVE AtInv'
  <2>1. /\ parser' = [at |-> "read", line |-> NoLine, len |-> parser.len,
                      line_counts |-> parser.line_counts]
        /\ UNCHANGED <<at, caller, module, fifo, past>>
    BY <1>1, <1>5 DEF ParserOther, AtTypeOK
  <2>. QED
    BY <1>1, <2>1 DEF AtInv, AtTypeOK, InputNoticed, NoticeOwed, TimedOut, OnlyUnsolicited
<1>6. ASSUME ParserCopy PROVE AtInv'
  <2>1. PICK status, counts, len :
          /\ parser' = [at |-> "read", line |-> NoLine, len |-> len, line_counts |-> counts]
          /\ at' = [resp |-> at.resp, resp_status |-> status,
                    resp_notice |-> at.resp_notice, rx_notice |-> at.rx_notice]
          /\ past' = [gap |-> past.gap, late |-> past.late, partial |-> TRUE,
                      clean |-> past.clean]
          /\ UNCHANGED <<caller, module, fifo>>
    BY <1>1, <1>6 DEF ParserCopy, AtTypeOK
  <2>. QED
    BY <1>1, <2>1 DEF AtInv, AtTypeOK, InputNoticed, NoticeOwed, TimedOut, OnlyUnsolicited
<1>7. ASSUME ParserEnd PROVE AtInv'
  <2>1. /\ parser.at = "line" /\ at.resp /\ parser.line.kind # "URC"
        /\ parser' = [at |-> "read", line |-> NoLine, line_counts |-> 0, len |-> 0]
        /\ UNCHANGED <<module, fifo>>
    BY <1>7 DEF ParserEnd, ParserLineAt, IsResponse
  <2>2. caller.at \in {"zero", "take", "wait"} \/ past.late
    BY <1>1, <2>1 DEF AtTypeOK, NoticeOwed, TimedOut, OnlyUnsolicited, Unsolicited
  <2>3. PICK status :
          at' = [resp |-> FALSE, resp_status |-> status,
                 resp_notice |-> IF caller.at = "wait" THEN at.resp_notice
                                 ELSE at.resp_notice + 1,
                 rx_notice |-> at.rx_notice]
    <3>. HIDE DEF LineStatus
    <3>. QED
      BY <1>1, <1>7 DEF ParserEnd, AtTypeOK
  <2>4. caller' = [at |-> IF caller.at = "wait" THEN "got" ELSE caller.at, op |-> caller.op,
                   cmd |-> caller.cmd, result |-> caller.result]
    BY <1>1, <1>7 DEF ParserEnd, AtTypeOK
  <2>5. past' = [gap |-> past.gap, late |-> past.late, partial |-> FALSE,
                 clean |-> past.clean /\ caller.at # "zero"]
    BY <1>1, <1>7 DEF ParserEnd, AtTypeOK
  <2>6. AtTypeOK'
    BY <1>1, <2>1, <2>3, <2>4, <2>5 DEF AtTypeOK
  <2>7. NoticeOwed'
    BY <1>1, <2>1, <2>2, <2>3, <2>4, <2>5 DEF AtTypeOK, NoticeOwed
  <2>. QED
    BY <1>1, <2>1, <2>3, <2>4, <2>5, <2>6, <2>7 DEF AtInv, InputNoticed, TimedOut
<1>. QED
  BY <1>2, <1>3, <1>4, <1>5, <1>6, <1>7 DEF AtParserStep

\* Commands are numbered.
LEMMA NextCommandInt == ASSUME caller.cmd \in Int PROVE NextCommand \in Int
<1>1. PICK x \in Int : x = caller.cmd + 1
  OBVIOUS
<1>2. COMMANDS \in Nat /\ COMMANDS > 0
  BY AtClientConstants
<1>3. x % COMMANDS \in Int
  BY <1>1, <1>2
<1>. QED
  BY <1>1, <1>3 DEF NextCommand

\* A command that begins finds no release of resp_notice, or an answer came late.
LEMMA AtBegins == ASSUME AtInv, ExecCmd \/ WaitConnect PROVE AtInv'
<1>1. AtTypeOK /\ InputNoticed /\ NoticeOwed /\ TimedOut
  BY DEF AtInv
<1>2. PICK op : /\ caller.at = "idle" /\ UNCHANGED <<parser, fifo>>
                /\ caller' = [at |-> "zero", op |-> op, cmd |-> NextCommand, result |-> "none"]
  BY DEF ExecCmd, WaitConnect, CallerAt, Write
<1>3. PICK status : at' = [resp |-> TRUE, resp_status |-> status,
                          resp_notice |-> at.resp_notice, rx_notice |-> at.rx_notice]
  BY <1>1 DEF ExecCmd, WaitConnect, AtTypeOK
<1>4. PICK clean \in BOOLEAN : past' = [gap |-> past.gap, late |-> at.resp_notice > 0,
                                        partial |-> past.partial, clean |-> clean]
  BY <1>1 DEF ExecCmd, WaitConnect, Starts, AtTypeOK, Quiet
<1>5. NextCommand \in Int
  BY <1>1, NextCommandInt DEF AtTypeOK
<1>6. AtTypeOK'
  BY <1>1, <1>2, <1>3, <1>4, <1>5 DEF AtTypeOK
<1>7. NoticeOwed'
  BY <1>1, <1>2, <1>3, <1>4 DEF AtTypeOK, NoticeOwed
<1>. QED
  BY <1>1, <1>2, <1>3, <1>4, <1>6, <1>7 DEF AtInv, InputNoticed, TimedOut

\* The steps of at_obj_exec_cmd and at_client_obj_wait_connect.
LEMMA AtCaller == ASSUME AtInv, AtCallerStep PROVE AtInv'
<1>1. AtTypeOK /\ InputNoticed /\ NoticeOwed /\ TimedOut
  BY DEF AtInv
<1>2. ASSUME ExecNoResp PROVE AtInv'
  <2>1. /\ caller.at = "idle" /\ UNCHANGED <<parser, fifo>>
        /\ caller' = [at |-> "done", op |-> "no_resp", cmd |-> NextCommand, result |-> "RT_EOK"]
        /\ at' = [resp |-> FALSE, resp_status |-> "AT_RESP_OK",
                  resp_notice |-> at.resp_notice, rx_notice |-> at.rx_notice]
        /\ past' = [gap |-> past.gap, late |-> past.late, partial |-> past.partial,
                    clean |-> FALSE]
    BY <1>1, <1>2 DEF ExecNoResp, CallerAt, AtTypeOK
  <2>2. NextCommand \in Int
    BY <1>1, NextCommandInt DEF AtTypeOK
  <2>3. AtTypeOK'
    BY <1>1, <2>1, <2>2 DEF AtTypeOK
  <2>4. NoticeOwed'
    BY <1>1, <2>1 DEF AtTypeOK, NoticeOwed
  <2>. QED
    BY <1>1, <2>1, <2>3, <2>4 DEF AtInv, InputNoticed, TimedOut
<1>3. ASSUME CallerZero PROVE AtInv'
  <2>1. /\ caller.at = "zero" /\ at' = at /\ UNCHANGED <<parser, fifo, past>>
        /\ caller' = [at |-> "take", op |-> caller.op, cmd |-> caller.cmd,
                      result |-> caller.result]
    BY <1>1, <1>3 DEF CallerZero, CallerAt, AtTypeOK
  <2>. QED
    BY <1>1, <2>1 DEF AtInv, AtTypeOK, InputNoticed, NoticeOwed, TimedOut
<1>4. ASSUME CallerTake PROVE AtInv'
  <2>1. CASE at.resp_notice > 0
    <3>1. at.resp_notice - 1 \in Nat /\ (~past.late => at.resp_notice - 1 = 0 /\ ~at.resp)
      BY <1>1, <2>1 DEF AtTypeOK, NoticeOwed
    <3>2. /\ caller' = [at |-> "got", op |-> caller.op, cmd |-> caller.cmd,
                        result |-> caller.result]
          /\ UNCHANGED <<parser, fifo, past>>
      BY <1>1, <1>4, <2>1 DEF CallerTake, CallerAt, AtTypeOK
    <3>3. at' = [resp |-> at.resp, resp_status |-> at.resp_status,
                 resp_notice |-> at.resp_notice - 1, rx_notice |-> at.rx_notice]
      BY <1>1, <1>4, <2>1, <3>1 DEF CallerTake, AtTypeOK
    <3>. QED
      BY <1>1, <3>1, <3>2, <3>3 DEF AtInv, AtTypeOK, InputNoticed, NoticeOwed, TimedOut
  <2>2. CASE ~(at.resp_notice > 0)
    <3>1. at.resp_notice = 0
      BY <1>1, <2>2 DEF AtTypeOK
    <3>2. /\ caller' = [at |-> "wait", op |-> caller.op, cmd |-> caller.cmd,
                        result |-> caller.result]
          /\ at' = at /\ UNCHANGED <<parser, fifo, past>>
      BY <1>1, <1>4, <2>2 DEF CallerTake, CallerAt, AtTypeOK
    <3>. QED
      BY <1>1, <3>1, <3>2 DEF AtInv, AtTypeOK, InputNoticed, NoticeOwed, TimedOut
  <2>. QED
    BY <2>1, <2>2
<1>5. ASSUME CallerTimeout PROVE AtInv'
  <2>1. /\ caller.at = "wait"
        /\ caller' = [at |-> "timeout", op |-> caller.op, cmd |-> caller.cmd,
                      result |-> caller.result]
        /\ UNCHANGED <<at, parser, module, fifo>>
    BY <1>1, <1>5 DEF CallerTimeout, AtTypeOK
  <2>2. past' = [gap |-> past.gap, late |-> past.late \/ ~OnlyUnsolicited,
                 partial |-> past.partial, clean |-> FALSE]
    <3>. HIDE DEF OnlyUnsolicited
    <3>. QED
      BY <1>1, <1>5 DEF CallerTimeout, AtTypeOK
  <2>3. OnlyUnsolicited' <=> OnlyUnsolicited
    BY <2>1 DEF OnlyUnsolicited
  <2>4. AtTypeOK' /\ InputNoticed' /\ NoticeOwed'
    BY <1>1, <2>1, <2>2 DEF AtTypeOK, InputNoticed, NoticeOwed
  <2>. QED
    BY <1>1, <2>1, <2>2, <2>3, <2>4 DEF AtInv, TimedOut
<1>6. ASSUME ExecTimeout \/ ExecGot \/ ConnectReturn PROVE AtInv'
  <2>1. /\ caller.at \in {"timeout", "got", "deleted"} /\ UNCHANGED <<parser, fifo, past>>
        /\ \E result : caller' = [at |-> "done", op |-> caller.op, cmd |-> caller.cmd,
                                  result |-> result]
    BY <1>1, <1>6 DEF ExecTimeout, ExecGot, ConnectReturn, CallerAt, AtTypeOK
  <2>2. PICK status : at' = [resp |-> FALSE, resp_status |-> status,
                            resp_notice |-> at.resp_notice, rx_notice |-> at.rx_notice]
    BY <1>1, <1>6 DEF ExecTimeout, ExecGot, ConnectReturn, AtTypeOK
  <2>. QED
    BY <1>1, <2>1, <2>2 DEF AtInv, AtTypeOK, InputNoticed, NoticeOwed, TimedOut
<1>7. ASSUME ConnectRetry PROVE AtInv'
  <2>1. /\ caller.at = "timeout" /\ at' = at /\ UNCHANGED <<parser, fifo, past>>
        /\ caller' = [at |-> "take", op |-> caller.op, cmd |-> caller.cmd,
                      result |-> caller.result]
    BY <1>1, <1>7 DEF ConnectRetry, CallerAt, AtTypeOK
  <2>. QED
    BY <1>1, <2>1 DEF AtInv, AtTypeOK, InputNoticed, NoticeOwed, TimedOut
<1>8. ASSUME ConnectDelete PROVE AtInv'
  <2>1. /\ caller.at \in {"timeout", "got"} /\ UNCHANGED <<at, parser, module, fifo, past>>
        /\ \E result : caller' = [at |-> "deleted", op |-> caller.op, cmd |-> caller.cmd,
                                  result |-> result]
    BY <1>1, <1>8 DEF ConnectDelete, CallerAt, AtTypeOK
  <2>. QED
    BY <1>1, <2>1 DEF AtInv, AtTypeOK, InputNoticed, NoticeOwed, TimedOut, OnlyUnsolicited
<1>9. ASSUME CallerReturn PROVE AtInv'
  <2>1. /\ caller.at = "done" /\ at' = at /\ UNCHANGED <<parser, fifo, past>>
        /\ caller' = [at |-> "idle", op |-> "none", cmd |-> caller.cmd, result |-> "none"]
    BY <1>1, <1>9 DEF CallerReturn, CallerAt, AtTypeOK
  <2>. QED
    BY <1>1, <2>1 DEF AtInv, AtTypeOK, InputNoticed, NoticeOwed, TimedOut
<1>. QED
  BY <1>2, <1>3, <1>4, <1>5, <1>6, <1>7, <1>8, <1>9, AtBegins DEF AtCallerStep

\* at_client_init, and all that the device, the parser and the callers do.
LEMMA AtKeeps ==
    /\ AtClientInit => AtInv
    /\ AtInv /\ [AtClientNext]_atClientVars => AtInv'
<1>1. AtClientInit => AtInv
  BY DEF AtClientInit, AtInv, AtTypeOK, InputNoticed, NoticeOwed, TimedOut
<1>2. ASSUME AtInv, [AtClientNext]_atClientVars PROVE AtInv'
  <2>1. CASE UNCHANGED atClientVars
    BY <1>2, <2>1 DEF atClientVars, AtInv, AtTypeOK, InputNoticed, NoticeOwed, TimedOut,
                      OnlyUnsolicited
  <2>. QED
    BY <1>2, <2>1, AtParser, AtCaller, AtDevice DEF AtClientNext
<1>. QED
  BY <1>1, <1>2

\* Whatever the module answers, drops or keeps to itself, and whenever its lines
\* come and the callers' times are over: the parser sleeps only beside lines
\* that came between its last read and its reset of rx_notice, and only an
\* answer that came after its caller's time was over leaves the next caller a
\* release that is not its own, or is written to a response object that was
\* freed.
THEOREM ResponsesStayTheirs == AtClientSpec => []AtClientInvariant
<1>1. AtInv => AtClientInvariant
  <2>1. ASSUME AtInv, caller.at = "deleted", parser.at = "line"
        PROVE  ~IsResponse \/ past.late
    BY <2>1 DEF AtInv, TimedOut, OnlyUnsolicited, Unsolicited, IsResponse
  <2>2. AtInv => NoLostInput /\ NoStaleNotice
    BY DEF AtInv, AtTypeOK, InputNoticed, NoticeOwed, NoLostInput, NoStaleNotice
  <2>. QED
    BY <2>1, <2>2 DEF AtClientInvariant, ResponseAlive
<1>. QED
  BY <1>1, AtKeeps, PTL DEF AtClientSpec

-----------------------------------------------------------------------------
(* The answer of the module *)

Line == [cmd : Int, no : Nat, kind : {"data", "OK", "ERROR", "URC"}]

\* s is the answer a without its first p lines, and what came unsolicited.
Rest(a, s, p) ==
    /\ s \in Seq(Line) /\ Len(s) >= Len(a) - p
    /\ \A i \in 1 .. Len(s) : s[i] = IF p + i <= Len(a) THEN a[p + i] ELSE Unsolicited

\* The lines the parser has and those on their way to it, in their order.
Coming == ((IF parser.at = "line" THEN <<parser.line>> ELSE << >>) \o fifo) \o module

\* Lines b, s and t in a row.
InARow(T, b, s, t) ==
    /\ (b \o s) \o t \in Seq(T) /\ (<< >> \o << >>) \o t = t
    /\ s # << >> => (<<Head(s)>> \o Tail(s)) \o t = (<< >> \o s) \o t
    /\ t # << >> => (b \o Append(s, Head(t))) \o Tail(t) = (b \o s) \o t
    /\ \A e \in T : (b \o Append(s, e)) \o << >> = Append((b \o s) \o << >>, e)
    /\ \A e \in T : /\ (<<e>> \o s) \o t # << >> /\ Head((<<e>> \o s) \o t) = e
                    /\ Tail((<<e>> \o s) \o t) = (<< >> \o s) \o t

\* A line that is taken from the front or handed on leaves what is to come in
\* its order.
LEMMA HandedOn ==
    ASSUME NEW T, NEW b \in Seq(T), NEW s \in Seq(T), NEW t \in Seq(T)
    PROVE  InARow(T, b, s, t)
<1>1. (b \o s) \o t \in Seq(T) /\ b \o s \in Seq(T) /\ s \o t \in Seq(T)
  BY ConcatProperties
<1>2. \A q \in Seq(T) : << >> \o q = q /\ q \o << >> = q
  BY ConcatEmptySeq
<1>3. \A q \in Seq(T) : q # << >> => q = <<Head(q)>> \o Tail(q) /\ Tail(q) \in Seq(T) /\ Head(q) \in T
  <2>. SUFFICES ASSUME NEW q \in Seq(T), q # << >>
                PROVE  q = <<Head(q)>> \o Tail(q) /\ Tail(q) \in Seq(T) /\ Head(q) \in T
    OBVIOUS
  <2>. DEFINE h == <<Head(q)>> 
              l == Tail(q)
  <2>1. h \in Seq(T) /\ Len(h) = 1 /\ h[1] = Head(q) /\ l \in Seq(T) /\ Head(q) \in T
    BY HeadTailProperties
  <2>2. Len(l) = Len(q) - 1 /\ \A i \in 1 .. Len(l) : l[i] = q[i + 1]
    BY HeadTailProperties
  <2>3. Head(q) = q[1] /\ Len(q) \in Nat
    OBVIOUS
  <2>. HIDE DEF h, l
  <2>4. /\ h \o l \in Seq(T) /\ Len(h \o l) = Len(h) + Len(l)
        /\ \A i \in 1 .. Len(h) + Len(l) : (h \o l)[i] = IF i <= Len(h) THEN h[i] ELSE l[i - Len(h)]
    BY <2>1, ConcatProperties
  <2>5. Len(h \o l) = Len(q)
    BY <2>1, <2>2, <2>3, <2>4
  <2>6. ASSUME NEW i \in 1 .. Len(q)
        PROVE  q[i] = (h \o l)[i]
    <3>1. i \in Nat /\ i >= 1 /\ i <= Len(h) + Len(l) /\ i \in 1 .. Len(h) + Len(l)
      BY <2>1, <2>2, <2>3
    <3>2. (h \o l)[i] = IF i <= Len(h) THEN h[i] ELSE l[i - Len(h)]
      BY <2>4, <3>1
    <3>3. CASE i = 1
      BY <2>1, <2>3, <3>2, <3>3
    <3>4. CASE i # 1
      <4>1. (h \o l)[i] = l[i - 1] /\ i - 1 \in 1 .. Len(l) /\ (i - 1) + 1 = i
        BY <2>1, <2>2, <2>3, <3>1, <3>2, <3>4
      <4>. QED
        BY <2>2, <4>1
    <3>. QED
      BY <3>3, <3>4
  <2>7. q = h \o l
    BY <2>4, <2>5, <2>6, SeqEqual
  <2>. QED
    BY <2>1, <2>7 DEF h, l
<1>4. \A q \in Seq(T), e \in T : Append(q, e) = q \o <<e>> /\ <<e>> \in Seq(T)
  OBVIOUS
<1>5. ASSUME s # << >> PROVE (<<Head(s)>> \o Tail(s)) \o t = (<< >> \o s) \o t
  BY <1>2, <1>3, <1>5
<1>6. ASSUME t # << >> PROVE (b \o Append(s, Head(t))) \o Tail(t) = (b \o s) \o t
  <2>1. t = <<Head(t)>> \o Tail(t) /\ Tail(t) \in Seq(T) /\ Head(t) \in T /\ <<Head(t)>> \in Seq(T)
    BY <1>3, <1>4, <1>6
  <2>2. PICK h \in Seq(T), l \in Seq(T) : h = <<Head(t)>> /\ l = Tail(t)
    BY <2>1
  <2>3. Append(s, Head(t)) = s \o h /\ t = h \o l
    BY <1>4, <2>1, <2>2, Zenon
  <2>4. (b \o s) \o h = b \o (s \o h)
    BY ConcatAssociative, SMTT(60)
  <2>5. ((b \o s) \o h) \o l = (b \o s) \o (h \o l)
    <3>1. PICK p \in Seq(T) : p = b \o s
      BY <1>1
    <3>2. (p \o h) \o l = p \o (h \o l)
      BY ConcatAssociative, SMTT(60)
    <3>. QED
      BY <3>1, <3>2
  <2>. QED
    BY <2>2, <2>3, <2>4, <2>5
<1>7. ASSUME NEW e \in T PROVE (b \o Append(s, e)) \o << >> = Append((b \o s) \o << >>, e)
  <2>1. PICK h \in Seq(T) : h = <<e>>
    BY <1>4
  <2>2. Append(s, e) = s \o h /\ Append(b \o s, e) = (b \o s) \o h
    BY <1>1, <1>4, <2>1, Zenon
  <2>3. (b \o s) \o h = b \o (s \o h) /\ (b \o s) \o h \in Seq(T)
    BY <1>1, ConcatAssociative, ConcatProperties
  <2>. QED
    BY <1>1, <1>2, <2>2, <2>3
<1>8. ASSUME NEW e \in T
      PROVE  /\ (<<e>> \o s) \o t # << >> /\ Head((<<e>> \o s) \o t) = e
             /\ Tail((<<e>> \o s) \o t) = (<< >> \o s) \o t
  <2>1. PICK h \in Seq(T) : h = <<e>> /\ Len(h) = 1 /\ h[1] = e
    BY <1>4
  <2>2. PICK q \in Seq(T) : q = s \o t
    BY <1>1
  <2>3. (h \o s) \o t = h \o q /\ (<< >> \o s) \o t = q
    BY <1>2, <2>2, ConcatAssociative, SMTT(60)
  <2>4. /\ h \o q \in Seq(T) /\ Len(h \o q) = 1 + Len(q)
        /\ \A i \in 1 .. 1 + Len(q) : (h \o q)[i] = IF i <= 1 THEN h[i] ELSE q[i - 1]
    BY <2>1, ConcatProperties
  <2>5. PICK w \in Seq(T) : w = h \o q
    BY <2>4
  <2>6. /\ Len(w) = 1 + Len(q) /\ w[1] = e /\ Len(q) \in Nat
        /\ \A i \in 1 .. Len(q) : w[i + 1] = q[i]
    BY <2>1, <2>4, <2>5
  <2>7. w # << >> /\ Head(w) = e
    BY <2>6
  <2>8. Tail(w) \in Seq(T) /\ Len(Tail(w)) = Len(q) /\ \A i \in 1 .. Len(q) : Tail(w)[i] = q[i]
    BY <2>6, <2>7, HeadTailProperties
  <2>9. Tail(w) = q
    BY <2>8, SeqEqual
  <2>. QED
    BY <2>1, <2>3, <2>5, <2>7, <2>9, Zenon
<1>9. (<< >> \o << >>) \o t = t /\ << >> \in Seq(T)
  <2>1. << >> \in Seq(T)
    OBVIOUS
  <2>. QED
    BY <1>2, <2>1
<1>. QED
  BY <1>1, <1>9, <1>5, <1>6, <1>7, <1>8 DEF InARow

\* What module, device and parser do with the lines of an answer.
LEMMA RestOf ==
    ASSUME NEW a \in Seq(Line)
    PROVE  /\ Rest(a, a, 0) /\ Rest(a, << >>, Len(a))
           /\ \A p \in 0 .. Len(a), s \in Seq(Line) : Rest(a, s, p) =>
                /\ Rest(a, Append(s, Unsolicited), p)
                /\ s = << >> => p = Len(a)
                /\ s # << >> =>
                     /\ Head(s) = IF p < Len(a) THEN a[p + 1] ELSE Unsolicited
                     /\ Rest(a, Tail(s), IF p < Len(a) THEN p + 1 ELSE p)
<1>1. Len(a) \in Nat /\ Unsolicited \in Line
  BY DEF Line, Unsolicited
<1>2. Rest(a, a, 0) /\ Rest(a, << >>, Len(a))
  BY <1>1 DEF Rest
<1>3. ASSUME NEW p \in 0 .. Len(a), NEW s \in Seq(Line), Rest(a, s, p)
      PROVE  /\ Rest(a, Append(s, Unsolicited), p)
             /\ s = << >> => p = Len(a)
             /\ s # << >> =>
                  /\ Head(s) = IF p < Len(a) THEN a[p + 1] ELSE Unsolicited
                  /\ Rest(a, Tail(s), IF p < Len(a) THEN p + 1 ELSE p)
  <2>1. /\ Len(s) \in Nat /\ Len(s) >= Len(a) - p /\ p \in Nat
        /\ \A i \in 1 .. Len(s) : s[i] = IF p + i <= Len(a) THEN a[p + i] ELSE Unsolicited
    BY <1>1, <1>3 DEF Rest
  <2>2. Rest(a, Append(s, Unsolicited), p)
    <3>1. PICK u \in Line : u = Unsolicited
      BY <1>1
    <3>2. PICK w \in Seq(Line) : w = Append(s, u)
      <4>1. Append(s, u) \in Seq(Line)
        OBVIOUS
      <4>. QED
        BY <4>1, Zenon
    <3>3. Len(w) = Len(s) + 1 /\ w[Len(s) + 1] = u /\ \A i \in 1 .. Len(s) : w[i] = s[i]
      BY <3>2
    <3>4. \A i \in 1 .. Len(w) : w[i] = IF p + i <= Len(a) THEN a[p + i] ELSE u
      BY <1>1, <2>1, <3>1, <3>3
    <3>5. Len(w) >= Len(a) - p
      BY <1>1, <2>1, <3>3
    <3>6. Rest(a, w, p)
      BY <3>1, <3>4, <3>5 DEF Rest
    <3>. QED
      BY <3>1, <3>2, <3>6
  <2>3. s = << >> => p = Len(a)
    BY <1>1, <2>1
  <2>4. ASSUME s # << >>
        PROVE  /\ Head(s) = IF p < Len(a) THEN a[p + 1] ELSE Unsolicited
               /\ Rest(a, Tail(s), IF p < Len(a) THEN p + 1 ELSE p)
    <3>1. PICK w \in Seq(Line) : w = Tail(s)
      <4>1. Tail(s) \in Seq(Line)
        BY <2>4, HeadTailProperties
      <4>. QED
        BY <4>1, Zenon
    <3>2. /\ Len(w) = Len(s) - 1 /\ Len(w) \in Nat /\ \A i \in 1 .. Len(w) : w[i] = s[i + 1]
      BY <2>4, <3>1, HeadTailProperties
    <3>3. Head(s) = s[1] /\ 1 \in 1 .. Len(s)
      BY <2>1, <3>2
    <3>4. Head(s) = IF p < Len(a) THEN a[p + 1] ELSE Unsolicited
      BY <1>1, <2>1, <3>3
    <3>5. CASE p < Len(a)
      <4>1. \A i \in 1 .. Len(w) : w[i] = IF p + 1 + i <= Len(a) THEN a[p + 1 + i] ELSE Unsolicited
        <5>. SUFFICES ASSUME NEW i \in 1 .. Len(w)
                      PROVE  w[i] = IF p + 1 + i <= Len(a) THEN a[p + 1 + i] ELSE Unsolicited
          OBVIOUS
        <5>1. w[i] = s[i + 1] /\ i + 1 \in 1 .. Len(s) /\ p + (i + 1) = p + 1 + i
          BY <2>1, <3>2
        <5>. QED
          BY <2>1, <5>1
      <4>2. Len(w) >= Len(a) - (p + 1)
        BY <1>1, <2>1, <3>2
      <4>3. Rest(a, w, p + 1)
        BY <4>1, <4>2 DEF Rest
      <4>. QED
        BY <3>1, <3>4, <3>5, <4>3
    <3>6. CASE ~(p < Len(a))
      <4>1. p = Len(a)
        BY <1>1, <2>1, <3>6
      <4>2. \A i \in 1 .. Len(w) : w[i] = IF p + i <= Len(a) THEN a[p + i] ELSE Unsolicited
        <5>. SUFFICES ASSUME NEW i \in 1 .. Len(w)
                      PROVE  w[i] = IF p + i <= Len(a) THEN a[p + i] ELSE Unsolicited
          OBVIOUS
        <5>1. w[i] = s[i + 1] /\ i + 1 \in 1 .. Len(s) /\ ~(p + (i + 1) <= Len(a)) /\ ~(p + i <= Len(a))
          BY <1>1, <2>1, <3>2, <4>1
        <5>. QED
          BY <2>1, <5>1
      <4>3. Len(w) >= Len(a) - p
        BY <1>1, <3>2, <4>1
      <4>4. Rest(a, w, p)
        BY <4>2, <4>3 DEF Rest
      <4>. QED
        BY <3>1, <3>4, <3>6, <4>4
    <3>. QED
      BY <3>5, <3>6
  <2>. QED
    BY <2>2, <2>3, <2>4
<1>. QED
  BY <1>2, <1>3

AnswerTypeOK ==
    /\ answer \in Seq(Line) /\ Len(answer) <= AT_BUF
    /\ \A i \in 1 .. Len(answer) :
         answer[i].kind \in IF i < Len(answer) THEN {"data"} ELSE {"OK", "ERROR"}
    /\ fifo \in Seq(Line) /\ module \in Seq(Line)
    /\ \A i \in 1 .. Len(module) : module[i].kind # "URC"
    /\ parser.at = "line" => parser.line \in Line
    /\ obj = [line_num |-> obj.line_num, line_counts |-> obj.line_counts, buf |-> obj.buf]

\* The parser has p lines of the answer: the others come in their order, or the
\* module is silent.
Received(p) ==
    /\ p < Len(answer) /\ parser.len = p /\ parser.line_counts = p /\ obj.buf = Filled(p)
    /\ obj.line_num = 0 \/ (obj.line_num = Len(answer) /\ Last(answer).kind = "OK")
    /\ Rest(answer, Coming, p) \/ (p = 0 /\ Rest(answer, Coming, Len(answer)))

\* While a response is expected the parser has the first lines of it; nothing
\* of it comes when it is over.
Progress ==
    /\ at.resp => \E p \in Nat : Received(p)
    /\ ~at.resp => /\ Rest(answer, Coming, Len(answer))
                   /\ parser.len = 0 /\ parser.line_counts = 0

Whole ==
    /\ Len(answer) <= AT_BUF /\ obj.buf = Filled(Len(answer))
    /\ obj.line_counts = Len(answer)
    /\ Last(answer).kind = "OK"

\* What the caller of a command finds at each of its steps: a response that
\* ends before it waits releases resp_notice, and a response that is complete
\* stays as it is.
CallerFinds ==
    /\ caller.at \in {"idle", "zero", "take", "wait", "got", "done"}
    /\ caller.at # "idle" => caller.op = "exec"
    /\ caller.at \in {"zero", "wait"} => at.resp
    /\ at.resp => at.resp_notice = 0 /\ caller.at \in {"zero", "take", "wait"}
    /\ caller.at = "take" /\ ~at.resp => at.resp_notice = 1
    /\ caller.at \in {"take", "got"} /\ ~at.resp /\ at.resp_status = "AT_RESP_OK" => Whole
    /\ caller.at = "done" /\ caller.result = "RT_EOK" => Whole

Orderly ==
    /\ AnswerTypeOK
    /\ Progress
    /\ CallerFinds

\* No lines of a response are counted when a command begins with nothing left of
\* the ones before it, and from there all is in order.
AnswerInv ==
    /\ AtInv
    /\ ~past.partial => parser.len = 0 /\ parser.line_counts = 0
    /\ past.clean => Orderly

\* The lines still to come, in the parser's hands, in the fifo or in the module,
\* are a sequence of lines.
LEMMA AnswerLines ==
    ASSUME AnswerTypeOK
    PROVE  /\ (IF parser.at = "line" THEN <<parser.line>> ELSE << >>) \in Seq(Line)
           /\ Coming \in Seq(Line) /\ Unsolicited \in Line
           /\ parser.at # "line" /\ fifo = << >> => Coming = module
<1>. DEFINE b == IF parser.at = "line" THEN <<parser.line>> ELSE << >>
<1>1. b \in Seq(Line) /\ fifo \in Seq(Line) /\ module \in Seq(Line)
  BY DEF AnswerTypeOK
<1>2. (b \o fifo) \o module \in Seq(Line)
  <2>. HIDE DEF b
  <2>. QED
    BY <1>1, HandedOn DEF InARow
<1>3. parser.at # "line" /\ fifo = << >> => (b \o fifo) \o module = module
  BY <1>1, HandedOn DEF InARow
<1>4. Unsolicited \in Line
  BY DEF Line, Unsolicited
<1>. QED
  BY <1>1, <1>2, <1>3, <1>4 DEF Coming

\* Nothing of the answer is read.
LEMMA ProgressKept ==
    ASSUME Progress, AnswerTypeOK, UNCHANGED <<answer, obj>>, at'.resp = at.resp,
           parser'.len = parser.len, parser'.line_counts = parser.line_counts,
           Coming' = Coming \/ Coming' = Append(Coming, Unsolicited)
    PROVE  Progress'
<1>1. answer \in Seq(Line) /\ Coming \in Seq(Line) /\ Len(answer) \in Nat
  BY AnswerLines DEF AnswerTypeOK
<1>2. ASSUME NEW p \in 0 .. Len(answer), Rest(answer, Coming, p) PROVE Rest(answer', Coming', p)
  BY <1>1, <1>2, RestOf
<1>3. ASSUME NEW p \in Nat, Received(p) PROVE Received(p)'
  <2>1. p \in 0 .. Len(answer) /\ Len(answer) \in 0 .. Len(answer)
    BY <1>1, <1>3 DEF Received
  <2>2. Filled(p)' = Filled(p)
    BY DEF Filled
  <2>. QED
    BY <1>2, <1>3, <2>1, <2>2 DEF Received
<1>4. Len(answer) \in 0 .. Len(answer)
  BY <1>1
<1>. QED
  BY <1>2, <1>3, <1>4 DEF Progress

\* A line arrives.
LEMMA AnswerDevice ==
    ASSUME AtTypeOK, Orderly, DeviceReceive \/ DeviceReceiveUrc
    PROVE  Orderly'
<1>. DEFINE b == IF parser.at = "line" THEN <<parser.line>> ELSE << >>
<1>1. /\ AtTypeOK /\ AnswerTypeOK /\ Progress /\ CallerFinds
      /\ b \in Seq(Line) /\ fifo \in Seq(Line) /\ module \in Seq(Line) /\ Unsolicited \in Line
  BY AnswerLines DEF Orderly, AnswerTypeOK
<1>2. /\ at'.resp = at.resp /\ at'.resp_status = at.resp_status
      /\ at'.resp_notice = at.resp_notice
      /\ parser'.len = parser.len /\ parser'.line_counts = parser.line_counts
      /\ parser'.at = "line" <=> parser.at = "line"
      /\ parser'.line = parser.line
      /\ UNCHANGED <<obj, caller, answer>>
  BY <1>1 DEF DeviceReceive, DeviceReceiveUrc, RxInd, AtTypeOK
<1>3. ASSUME DeviceReceive PROVE Orderly'
  <2>1. /\ module # << >> /\ fifo' = Append(fifo, Head(module)) /\ module' = Tail(module)
    BY <1>3 DEF DeviceReceive
  <2>2. Coming' = Coming
    <3>1. (b \o Append(fifo, Head(module))) \o Tail(module) = (b \o fifo) \o module
      <4>. HIDE DEF b
      <4>1. b \in Seq(Line) /\ fifo \in Seq(Line) /\ module \in Seq(Line)
        BY <1>1
      <4>2. InARow(Line, b, fifo, module)
        BY <4>1, HandedOn
      <4>. QED
        BY <2>1, <4>2, Zenon DEF InARow
    <3>. QED
      BY <1>2, <2>1, <3>1 DEF Coming
  <2>3. AnswerTypeOK'
    <3>1. Head(module) \in Line /\ Tail(module) \in Seq(Line)
      BY <1>1, <2>1, HeadTailProperties
    <3>2. Append(fifo, Head(module)) \in Seq(Line)
      BY <1>1, <3>1
    <3>3. PICK w \in Seq(Line) : w = Tail(module)
      BY <3>1
    <3>4. Len(w) = Len(module) - 1 /\ \A i \in 1 .. Len(w) : w[i] = module[i + 1]
      BY <1>1, <2>1, <3>3, HeadTailProperties
    <3>5. \A i \in 1 .. Len(w) : w[i].kind # "URC"
      <4>1. \A i \in 1 .. Len(module) : module[i].kind # "URC"
        BY <1>1 DEF AnswerTypeOK
      <4>2. \A i \in 1 .. Len(w) : i + 1 \in 1 .. Len(module)
        BY <3>4
      <4>. QED
        BY <3>4, <4>1, <4>2
    <3>. QED
      BY <1>1, <1>2, <2>1, <3>1, <3>2, <3>3, <3>5 DEF AnswerTypeOK
  <2>4. Progress'
    BY <1>1, <1>2, <2>2, ProgressKept
  <2>6. Whole' <=> Whole
    BY <1>2 DEF Whole, Filled
  <2>7. CallerFinds'
    BY <1>1, <1>2, <2>6 DEF CallerFinds
  <2>. QED
    BY <2>3, <2>4, <2>7 DEF Orderly
<1>4. ASSUME DeviceReceiveUrc PROVE Orderly'
  <2>1. module = << >> /\ fifo' = Append(fifo, Unsolicited) /\ module' = module
    BY <1>4 DEF DeviceReceiveUrc
  <2>2. Coming' = Append(Coming, Unsolicited)
    <3>1. (b \o Append(fifo, Unsolicited)) \o << >> = Append((b \o fifo) \o << >>, Unsolicited)
      <4>. HIDE DEF b
      <4>. QED
        BY <1>1, HandedOn DEF InARow
    <3>. QED
      BY <1>2, <2>1, <3>1 DEF Coming
  <2>3. AnswerTypeOK'
    <3>1. Append(fifo, Unsolicited) \in Seq(Line)
      BY <1>1
    <3>. QED
      BY <1>1, <1>2, <2>1, <3>1 DEF AnswerTypeOK
  <2>4. Progress'
    BY <1>1, <1>2, <2>2, ProgressKept
  <2>5. Whole' <=> Whole
    BY <1>2 DEF Whole, Filled
  <2>7. CallerFinds'
    BY <1>1, <1>2, <2>5 DEF CallerFinds
  <2>. QED
    BY <2>3, <2>4, <2>7 DEF Orderly
<1>. QED
  BY <1>3, <1>4

\* The steps of the parser in which no line is handled.
LEMMA AnswerInput ==
    ASSUME AtTypeOK, Orderly, ParserRead \/ ParserReset \/ ParserTake
    PROVE  Orderly'
<1>1. AtTypeOK /\ AnswerTypeOK /\ Progress /\ CallerFinds
  BY DEF Orderly
<1>2. /\ at'.resp = at.resp /\ at'.resp_status = at.resp_status
      /\ at'.resp_notice = at.resp_notice
      /\ parser'.len = parser.len /\ parser'.line_counts = parser.line_counts
      /\ UNCHANGED <<obj, caller, answer, module>>
  BY <1>1 DEF ParserRead, ParserReset, ParserTake, AtTypeOK
<1>3. Whole' <=> Whole
  BY <1>2 DEF Whole, Filled
<1>4. CASE parser'.at # "line" /\ parser.at # "line" /\ fifo' = fifo
  <2>1. Coming' = Coming
    BY <1>2, <1>4 DEF Coming
  <2>2. Progress'
    BY <1>1, <1>2, <2>1, ProgressKept
  <2>3. AnswerTypeOK' /\ CallerFinds'
    BY <1>1, <1>2, <1>3, <1>4 DEF AnswerTypeOK, CallerFinds
  <2>. QED
    BY <2>2, <2>3 DEF Orderly
<1>5. CASE /\ ParserRead /\ fifo # << >>
  <2>1. /\ parser.at = "read" /\ parser'.at = "line" /\ parser'.line = Head(fifo)
        /\ fifo' = Tail(fifo) /\ fifo \in Seq(Line)
    BY <1>1, <1>5 DEF ParserRead, AtTypeOK, AnswerTypeOK
  <2>2. Coming' = Coming
    <3>1. (<<Head(fifo)>> \o Tail(fifo)) \o module = (<< >> \o fifo) \o module
      BY <1>1, <1>5, <2>1, HandedOn DEF AnswerTypeOK, InARow
    <3>2. Coming' = (<<Head(fifo)>> \o Tail(fifo)) \o module
      BY <1>2, <2>1 DEF Coming
    <3>3. Coming = (<< >> \o fifo) \o module
      BY <2>1 DEF Coming
    <3>. QED
      BY <3>1, <3>2, <3>3
  <2>3. Progress'
    BY <1>1, <1>2, <2>2, ProgressKept
  <2>4. Head(fifo) \in Line /\ Tail(fifo) \in Seq(Line)
    BY <1>5, <2>1, HeadTailProperties
  <2>6. AnswerTypeOK'
    BY <1>1, <1>2, <2>1, <2>4 DEF AnswerTypeOK
  <2>7. CallerFinds'
    BY <1>1, <1>2, <1>3 DEF CallerFinds
  <2>. QED
    BY <2>3, <2>6, <2>7 DEF Orderly
<1>. QED
  BY <1>1, <1>4, <1>5 DEF ParserRead, ParserReset, ParserTake, AtTypeOK


\* The parser is done with the line it has.
LEMMA AnswerTaken ==
    ASSUME AnswerTypeOK, parser.at = "line", parser'.at = "read", UNCHANGED <<fifo, module>>
    PROVE  Coming # << >> /\ Head(Coming) = parser.line /\ Coming' = Tail(Coming)
<1>1. parser.line \in Line /\ fifo \in Seq(Line) /\ module \in Seq(Line) /\ << >> \in Seq(Line)
  BY DEF AnswerTypeOK
<1>2. InARow(Line, << >>, fifo, module)
  BY <1>1, HandedOn
<1>3. /\ (<<parser.line>> \o fifo) \o module # << >>
      /\ Head((<<parser.line>> \o fifo) \o module) = parser.line
      /\ Tail((<<parser.line>> \o fifo) \o module) = (<< >> \o fifo) \o module
  BY <1>1, <1>2, Zenon DEF InARow
<1>4. Coming = (<<parser.line>> \o fifo) \o module
  BY DEF Coming
<1>5. Coming' = (<< >> \o fifo) \o module
  BY DEF Coming
<1>. QED
  BY <1>3, <1>4, <1>5, Zenon

\* A line is for the URC table or for nobody.
LEMMA AnswerOther == ASSUME AtTypeOK, Orderly, ParserOther PROVE Orderly'
<1>1. AtTypeOK /\ AnswerTypeOK /\ Progress /\ CallerFinds
  BY DEF Orderly
<1>2. /\ parser.at = "line" /\ ~(at.resp /\ parser.line.kind # "URC")
      /\ parser'.at = "read" /\ parser'.len = parser.len
      /\ parser'.line_counts = parser.line_counts
      /\ UNCHANGED <<at, obj, caller, module, answer, fifo>>
  BY <1>1 DEF ParserOther, ParserLineAt, IsResponse, AtTypeOK
<1>3. Coming # << >> /\ Head(Coming) = parser.line /\ Coming' = Tail(Coming)
  BY <1>1, <1>2, AnswerTaken
<1>4. answer \in Seq(Line) /\ Len(answer) \in Nat /\ Coming \in Seq(Line)
  BY <1>1, AnswerLines DEF AnswerTypeOK
<1>5. Rest(answer, Coming, Len(answer)) => Rest(answer, Coming', Len(answer))
  BY <1>3, <1>4, RestOf
<1>6. ASSUME NEW p \in Nat, Received(p), at.resp PROVE Received(p)'
  <2>1. p \in 0 .. Len(answer) /\ p < Len(answer) /\ p + 1 \in 1 .. Len(answer)
    BY <1>4, <1>6 DEF Received
  <2>2. ~Rest(answer, Coming, p)
    <3>1. Rest(answer, Coming, p) => parser.line = answer[p + 1]
      BY <1>3, <1>4, <2>1, RestOf
    <3>2. answer[p + 1].kind \in {"data", "OK", "ERROR"}
      BY <1>1, <2>1 DEF AnswerTypeOK
    <3>. QED
      BY <1>2, <1>6, <3>1, <3>2
  <2>3. Filled(p)' = Filled(p)
    BY <1>2 DEF Filled
  <2>. QED
    BY <1>2, <1>5, <1>6, <2>2, <2>3 DEF Received
<1>7. Progress'
  BY <1>1, <1>2, <1>5, <1>6 DEF Progress
<1>8. Whole' <=> Whole
  BY <1>2 DEF Whole, Filled
<1>9. AnswerTypeOK' /\ CallerFinds'
  BY <1>1, <1>2, <1>8 DEF AnswerTypeOK, CallerFinds
<1>. QED
  BY <1>7, <1>9 DEF Orderly

\* A line of a response is the next one of the answer, there is room for it,
\* and its caller waits or is about to.
LEMMA AnswerNext ==
    ASSUME AtTypeOK, Orderly, ParserLineAt, IsResponse
    PROVE  \E p \in 0 .. Len(answer) - 1 :
              /\ Received(p) /\ Rest(answer, Coming, p) /\ p + 1 \in 1 .. Len(answer)
              /\ parser.line = answer[p + 1] /\ Fits /\ Counted = p + 1
              /\ Copied = [line_num |-> obj.line_num, line_counts |-> obj.line_counts,
                           buf |-> Filled(p + 1)]
<1>1. AtTypeOK /\ AnswerTypeOK /\ Progress /\ CallerFinds
  BY DEF Orderly
<1>2. parser.at = "line" /\ at.resp /\ parser.line.kind # "URC"
  BY DEF ParserLineAt, IsResponse
<1>3. Coming # << >> /\ Head(Coming) = parser.line
  <2>1. parser.line \in Line /\ fifo \in Seq(Line) /\ module \in Seq(Line) /\ << >> \in Seq(Line)
    BY <1>1, <1>2 DEF AnswerTypeOK
  <2>2. InARow(Line, << >>, fifo, module)
    BY <2>1, HandedOn
  <2>3. Coming = (<<parser.line>> \o fifo) \o module
    BY <1>2 DEF Coming
  <2>. QED
    BY <2>1, <2>2, <2>3, Zenon DEF InARow
<1>4. answer \in Seq(Line) /\ Len(answer) \in Nat /\ Coming \in Seq(Line) /\ AT_BUF \in Nat
  BY <1>1, AnswerLines, AtClientConstants DEF AnswerTypeOK
<1>5. PICK p \in Nat : Received(p)
  BY <1>1, <1>2 DEF Progress
<1>6. p \in 0 .. Len(answer) - 1 /\ p \in 0 .. Len(answer) /\ p + 1 \in 1 .. Len(answer)
  BY <1>4, <1>5 DEF Received
<1>7. ~Rest(answer, Coming, Len(answer))
  <2>1. Rest(answer, Coming, Len(answer)) => Head(Coming) = Unsolicited
    BY <1>3, <1>4, RestOf
  <2>. QED
    BY <1>2, <1>3, <2>1 DEF Unsolicited
<1>8. Rest(answer, Coming, p)
  BY <1>5, <1>7 DEF Received
<1>9. parser.line = answer[p + 1]
  BY <1>3, <1>4, <1>6, <1>8, RestOf
<1>10. Fits /\ Counted = p + 1
  BY <1>1, <1>4, <1>5, <1>6 DEF Received, Fits, Counted, AnswerTypeOK
<1>11. Copied = [line_num |-> obj.line_num, line_counts |-> obj.line_counts,
                 buf |-> Filled(p + 1)]
  <2>1. p + 1 \in 1 .. AT_BUF
    BY <1>1, <1>4, <1>6 DEF AnswerTypeOK
  <2>2. [Filled(p) EXCEPT ![p + 1] = answer[p + 1]] = Filled(p + 1)
    <3>1. \A i \in 1 .. AT_BUF : i <= p + 1 <=> i <= p \/ i = p + 1
      BY <1>4, <1>6
    <3>. QED
      BY <2>1, <3>1, Zenon DEF Filled
  <2>3. [obj EXCEPT !.buf = [Filled(p) EXCEPT ![p + 1] = answer[p + 1]]]
          = [line_num |-> obj.line_num, line_counts |-> obj.line_counts, buf |-> Filled(p + 1)]
    <3>1. \A buf : [obj EXCEPT !.buf = buf]
            = [line_num |-> obj.line_num, line_counts |-> obj.line_counts, buf |-> buf]
      BY <1>1 DEF AnswerTypeOK
    <3>. QED
      BY <2>2, <3>1, Zenon
  <2>4. obj.buf = Filled(p) /\ parser.len = p
    BY <1>5 DEF Received
  <2>5. Copied = [obj EXCEPT !.buf = [obj.buf EXCEPT ![p + 1] = parser.line]]
    BY <1>10, <2>4 DEF Copied
  <2>. QED
    BY <1>9, <2>3, <2>4, <2>5
<1>. QED
  BY <1>5, <1>6, <1>8, <1>9, <1>10, <1>11


\* The answer has more lines.
LEMMA AnswerCopy == ASSUME AtTypeOK, Orderly, ParserCopy PROVE Orderly'
<1>1. AtTypeOK /\ AnswerTypeOK /\ Progress /\ CallerFinds
  BY DEF Orderly
<1>2. ParserLineAt /\ IsResponse /\ LineStatus = "more"
  BY DEF ParserCopy
<1>3. PICK p \in 0 .. Len(answer) - 1 :
         /\ Received(p) /\ Rest(answer, Coming, p) /\ p + 1 \in 1 .. Len(answer)
         /\ parser.line = answer[p + 1] /\ Fits /\ Counted = p + 1
         /\ Copied = [line_num |-> obj.line_num, line_counts |-> obj.line_counts,
                      buf |-> Filled(p + 1)]
  BY <1>2, AnswerNext
<1>4. parser.at = "line" /\ at.resp /\ parser.len = p
  BY <1>2, <1>3 DEF ParserLineAt, IsResponse, Received
<1>5. /\ parser' = [at |-> "read", line |-> NoLine, line_counts |-> p + 1, len |-> p + 1]
      /\ obj' = [line_num |-> obj.line_num, line_counts |-> obj.line_counts,
                 buf |-> Filled(p + 1)]
      /\ at'.resp = at.resp /\ at'.resp_notice = at.resp_notice
      /\ UNCHANGED <<caller, module, answer, fifo>>
  BY <1>1, <1>3, <1>4 DEF ParserCopy, AtTypeOK
<1>6. answer \in Seq(Line) /\ Len(answer) \in Nat /\ Coming \in Seq(Line)
  BY <1>1, AnswerLines DEF AnswerTypeOK
<1>7. p + 1 # Len(answer)
  <2>1. SUFFICES ASSUME p + 1 = Len(answer) PROVE FALSE
    OBVIOUS
  <2>2. parser.line.kind \in {"OK", "ERROR"} /\ parser.line = Last(answer)
    BY <1>1, <1>3, <1>6, <2>1 DEF AnswerTypeOK, Last
  <2>3. obj.line_num = 0 \/ (obj.line_num = Len(answer) /\ parser.line.kind = "OK")
    BY <1>3, <2>2 DEF Received
  <2>4. Len(answer) # 0
    BY <1>3, <1>6
  <2>. QED
    BY <1>2, <1>3, <2>1, <2>2, <2>3, <2>4 DEF LineStatus
<1>8. p + 1 \in Nat /\ p + 1 < Len(answer) /\ p \in 0 .. Len(answer) /\ p < Len(answer)
  BY <1>3, <1>6, <1>7
<1>9. Coming # << >> /\ Coming' = Tail(Coming)
  BY <1>1, <1>4, <1>5, AnswerTaken
<1>10. Rest(answer, Coming', p + 1)
  BY <1>3, <1>6, <1>8, <1>9, RestOf
<1>11. Received(p + 1)'
  <2>1. Filled(p + 1)' = Filled(p + 1)
    BY <1>5 DEF Filled
  <2>. QED
    <3>1. obj.line_num = 0 \/ (obj.line_num = Len(answer) /\ Last(answer).kind = "OK")
      BY <1>3 DEF Received
    <3>2. PICK n \in Nat : n = p + 1
      BY <1>8
    <3>3. /\ n < Len(answer') /\ parser'.len = n /\ parser'.line_counts = n
          /\ obj'.buf = Filled(n)' /\ obj'.line_num = obj.line_num /\ answer' = answer
      BY <1>5, <1>8, <2>1, <3>2
    <3>4. Rest(answer', Coming', n)
      BY <1>5, <1>10, <3>2
    <3>5. obj'.line_num = 0 \/ (obj'.line_num = Len(answer') /\ Last(answer').kind = "OK")
      BY <3>1, <3>3
    <3>6. Received(n)'
      BY <3>3, <3>4, <3>5 DEF Received
    <3>. QED
      BY <3>2, <3>6
<1>12. Progress'
  BY <1>4, <1>5, <1>8, <1>11 DEF Progress
<1>13. AnswerTypeOK' /\ CallerFinds'
  BY <1>1, <1>3, <1>4, <1>5 DEF AnswerTypeOK, CallerFinds
<1>. QED
  BY <1>12, <1>13 DEF Orderly

\* The last line of the answer ends the response.
LEMMA AnswerEnd == ASSUME AtTypeOK, Orderly, ParserEnd, caller.at # "zero" PROVE Orderly'
<1>1. AtTypeOK /\ AnswerTypeOK /\ Progress /\ CallerFinds
  BY DEF Orderly
<1>2. ParserLineAt /\ IsResponse /\ LineStatus # "more"
  BY DEF ParserEnd
<1>3. PICK p \in 0 .. Len(answer) - 1 :
         /\ Received(p) /\ Rest(answer, Coming, p) /\ p + 1 \in 1 .. Len(answer)
         /\ parser.line = answer[p + 1] /\ Fits /\ Counted = p + 1
         /\ Copied = [line_num |-> obj.line_num, line_counts |-> obj.line_counts,
                      buf |-> Filled(p + 1)]
  BY <1>2, AnswerNext
<1>4. parser.at = "line" /\ at.resp
  BY <1>2 DEF ParserLineAt, IsResponse
<1>5. /\ parser' = [at |-> "read", line |-> NoLine, line_counts |-> 0, len |-> 0]
      /\ obj' = [line_num |-> obj.line_num, line_counts |-> p + 1, buf |-> Filled(p + 1)]
      /\ ~at'.resp /\ at'.resp_status = LineStatus
      /\ at'.resp_notice = IF caller.at = "wait" THEN 0 ELSE 1
      /\ caller' = [at |-> IF caller.at = "wait" THEN "got" ELSE caller.at, op |-> caller.op,
                    cmd |-> caller.cmd, result |-> caller.result]
      /\ UNCHANGED <<module, answer, fifo>>
  <2>1. obj' = [Copied EXCEPT !.line_counts = p + 1]
    BY <1>3 DEF ParserEnd
  <2>2. obj' = [line_num |-> obj.line_num, line_counts |-> p + 1, buf |-> Filled(p + 1)]
    BY <1>3, <2>1
  <2>3. at.resp_notice = 0 /\ at.resp_notice + 1 = 1
    BY <1>1, <1>4 DEF CallerFinds
  <2>. HIDE DEF LineStatus
  <2>. QED
    BY <1>1, <1>3, <2>2, <2>3 DEF ParserEnd, AtTypeOK
<1>6. answer \in Seq(Line) /\ Len(answer) \in Nat /\ Coming \in Seq(Line)
  BY <1>1, AnswerLines DEF AnswerTypeOK
<1>7. /\ p + 1 = Len(answer)
      /\ LineStatus = "AT_RESP_OK" => Last(answer).kind = "OK"
  <2>1. parser.line.kind \in {"OK", "ERROR"} => p + 1 = Len(answer)
    BY <1>1, <1>3, <1>6 DEF AnswerTypeOK
  <2>2. /\ obj.line_num # 0 /\ p + 1 = obj.line_num =>
             p + 1 = Len(answer) /\ Last(answer).kind = "OK"
    BY <1>3 DEF Received
  <2>3. p + 1 = Len(answer) => parser.line = Last(answer)
    BY <1>3, <1>6 DEF Last
  <2>. QED
    BY <1>2, <1>3, <2>1, <2>2, <2>3 DEF LineStatus
<1>8. Coming # << >> /\ Coming' = Tail(Coming)
  BY <1>1, <1>4, <1>5, AnswerTaken
<1>9. Rest(answer, Coming', Len(answer))
  <2>1. p \in 0 .. Len(answer) /\ p < Len(answer)
    BY <1>6, <1>7
  <2>. QED
    BY <1>3, <1>6, <1>7, <1>8, <2>1, RestOf
<1>10. LineStatus = "AT_RESP_OK" => Whole'
  <2>1. Filled(Len(answer))' = Filled(Len(answer))
    BY <1>5 DEF Filled
  <2>2. Len(answer) <= AT_BUF
    BY <1>1 DEF AnswerTypeOK
  <2>. QED
    BY <1>5, <1>7, <2>1, <2>2 DEF Whole
<1>11. Progress'
  BY <1>5, <1>9 DEF Progress
<1>12. AnswerTypeOK' /\ CallerFinds'
  <2>1. caller.at \in {"take", "wait"} /\ caller.op = "exec"
    BY <1>1, <1>4 DEF CallerFinds
  <2>. QED
    BY <1>1, <1>5, <1>10, <2>1 DEF AnswerTypeOK, CallerFinds
<1>. QED
  BY <1>11, <1>12 DEF Orderly


\* The answers of a module.
LEMMA AnswerOf ==
    ASSUME NEW cmd \in Int, NEW lines \in Answers(cmd)
    PROVE  /\ lines \in Seq(Line) /\ Len(lines) >= 1
           /\ \A i \in 1 .. Len(lines) :
                lines[i].kind \in IF i < Len(lines) THEN {"data"} ELSE {"OK", "ERROR"}
<1>1. DATA_MAX \in Nat
  BY AtClientConstants
<1>2. PICK n \in Nat, end \in {"OK", "ERROR"} : lines = Lines(cmd, n, end)
  BY <1>1 DEF Answers
<1>3. PICK s1 \in Seq(Line) :
         /\ s1 = [i \in 1 .. n |-> [cmd |-> cmd, no |-> i, kind |-> "data"]]
         /\ Len(s1) = n /\ \A i \in 1 .. n : s1[i].kind = "data"
  <2>. DEFINE s == [i \in 1 .. n |-> [cmd |-> cmd, no |-> i, kind |-> "data"]]
  <2>1. \A i \in 1 .. n : [cmd |-> cmd, no |-> i, kind |-> "data"] \in Line
    BY DEF Line
  <2>2. s \in Seq(Line)
    BY <2>1
  <2>3. Len(s) = n /\ \A i \in 1 .. n : s[i].kind = "data"
    OBVIOUS
  <2>. QED
    BY <2>2, <2>3, Zenon
<1>4. PICK s2 \in Seq(Line) :
         /\ s2 = <<[cmd |-> cmd, no |-> n + 1, kind |-> end]>>
         /\ Len(s2) = 1 /\ s2[1].kind = end
  <2>. DEFINE s == <<[cmd |-> cmd, no |-> n + 1, kind |-> end]>>
  <2>1. [cmd |-> cmd, no |-> n + 1, kind |-> end] \in Line
    BY DEF Line
  <2>2. s \in Seq(Line) /\ Len(s) = 1 /\ s[1].kind = end
    BY <2>1
  <2>. QED
    BY <2>2, Zenon
<1>5. /\ s1 \o s2 \in Seq(Line) /\ Len(s1 \o s2) = n + 1
      /\ \A i \in 1 .. n + 1 : (s1 \o s2)[i] = IF i <= n THEN s1[i] ELSE s2[i - n]
  BY <1>3, <1>4, ConcatProperties
<1>6. lines = s1 \o s2
  BY <1>2, <1>3, <1>4 DEF Lines
<1>7. \A i \in 1 .. n + 1 : lines[i].kind \in IF i < n + 1 THEN {"data"} ELSE {"OK", "ERROR"}
  <2>. SUFFICES ASSUME NEW i \in 1 .. n + 1
                PROVE  lines[i].kind \in IF i < n + 1 THEN {"data"} ELSE {"OK", "ERROR"}
    OBVIOUS
  <2>1. CASE i <= n
    BY <1>3, <1>5, <1>6, <2>1
  <2>2. CASE i = n + 1
    BY <1>4, <1>5, <1>6, <2>2
  <2>. QED
    BY <2>1, <2>2
<1>8. lines \in Seq(Line) /\ Len(lines) = n + 1
  BY <1>5, <1>6
<1>. QED
  BY <1>7, <1>8

\* A command is written and nothing is left of the ones before it.
LEMMA AnswerWritten ==
    ASSUME AnswerInv, ExecCmd, past'.clean
    PROVE  Orderly'
<1>1. AtTypeOK /\ NoticeOwed
  BY DEF AnswerInv, AtInv
<1>2. NextCommand \in Int
  BY <1>1, NextCommandInt DEF AtTypeOK
<1>3. PICK lines \in Answers(NextCommand) :
        \E sent \in SentLines(lines) :
        \E lineNum \in {0} \cup IF Last(lines).kind = "OK" THEN {Len(lines)} ELSE {} :
          /\ Sends(sent) /\ Write("exec", NextCommand, lines, lineNum)
          /\ Starts(Quiet /\ sent \in {lines, << >>} /\ Len(lines) <= AT_BUF)
  BY DEF ExecCmd
<1>4. PICK sent \in SentLines(lines),
            lineNum \in {0} \cup IF Last(lines).kind = "OK" THEN {Len(lines)} ELSE {} :
          /\ Sends(sent) /\ Write("exec", NextCommand, lines, lineNum)
          /\ Starts(Quiet /\ sent \in {lines, << >>} /\ Len(lines) <= AT_BUF)
  BY <1>3
<1>5. Quiet /\ sent \in {lines, << >>} /\ Len(lines) <= AT_BUF
  <2>. HIDE DEF Quiet
  <2>. QED
    BY <1>1, <1>4 DEF Starts, AtTypeOK
<1>6. /\ parser.at = "wait" /\ fifo = << >> /\ module = << >> /\ at.resp_notice = 0
      /\ parser.len = 0 /\ parser.line_counts = 0
      /\ UNCHANGED <<parser, fifo>>
  BY <1>5, <1>4 DEF ExecCmd, CallerAt, Write, Quiet, AnswerInv
<1>7. /\ lines \in Seq(Line) /\ Len(lines) >= 1 /\ Len(lines) \in Nat
      /\ \A i \in 1 .. Len(lines) :
           lines[i].kind \in IF i < Len(lines) THEN {"data"} ELSE {"OK", "ERROR"}
  BY <1>2, AnswerOf
<1>8. /\ answer' = lines
      /\ obj' = [line_num |-> lineNum, line_counts |-> 0, buf |-> EmptyBuf]
      /\ caller' = [at |-> "zero", op |-> "exec", cmd |-> NextCommand, result |-> "none"]
      /\ at'.resp /\ at'.resp_notice = 0
  BY <1>1, <1>6, <1>4 DEF Write, ExecCmd, AtTypeOK
<1>9. module' = answer' \/ module' = << >>
  BY <1>5, <1>6, <1>7, <1>8, <1>4, ConcatEmptySeq DEF Sends
<1>10. AnswerTypeOK'
  <2>1. \A i \in 1 .. Len(lines) : lines[i].kind # "URC"
    BY <1>7
  <2>2. module' \in Seq(Line) /\ \A i \in 1 .. Len(module') : module'[i].kind # "URC"
    <3>1. CASE module' = lines
      BY <1>7, <2>1, <3>1
    <3>2. CASE module' = << >>
      BY <3>2
    <3>. QED
      BY <1>8, <1>9, <3>1, <3>2
  <2>3. fifo' \in Seq(Line) /\ parser'.at # "line"
    BY <1>6
  <2>. QED
    BY <1>5, <1>7, <1>8, <2>2, <2>3 DEF AnswerTypeOK
<1>11. Coming' = module'
  <2>1. parser'.at # "line" /\ fifo' = << >> /\ module' \in Seq(Line) /\ << >> \in Seq(Line)
    BY <1>6, <1>10 DEF AnswerTypeOK
  <2>2. InARow(Line, << >>, << >>, module')
    BY <2>1, HandedOn
  <2>3. Coming' = (<< >> \o << >>) \o module'
    BY <2>1 DEF Coming
  <2>. QED
    BY <2>2, <2>3 DEF InARow
<1>12. Received(0)'
  <2>1. EmptyBuf = Filled(0)'
    BY <1>7, <1>8 DEF EmptyBuf, Filled
  <2>2. lineNum = 0 \/ (lineNum = Len(lines) /\ Last(lines).kind = "OK")
    BY <1>4
  <2>3. Rest(answer', Coming', 0) \/ Rest(answer', Coming', Len(answer'))
    BY <1>7, <1>8, <1>9, <1>11, RestOf
  <2>. QED
    BY <1>6, <1>7, <1>8, <2>1, <2>2, <2>3 DEF Received
<1>13. Progress' /\ CallerFinds'
  BY <1>8, <1>12 DEF Progress, CallerFinds
<1>. QED
  BY <1>10, <1>13 DEF Orderly

\* Steps of a caller that writes nothing: line_counts of the object, resp_notice
\* and the caller change.
LEMMA AnswerUnwritten ==
    ASSUME Progress, AnswerTypeOK, UNCHANGED <<parser, fifo, module, answer>>,
           obj' = obj \/ obj' = [line_num |-> obj.line_num, line_counts |-> 0, buf |-> obj.buf],
           at'.resp <=> at.resp
    PROVE  Progress' /\ AnswerTypeOK'
<1>1. Coming' = Coming
  BY DEF Coming
<1>2. ASSUME NEW p \in Nat, Received(p) PROVE Received(p)'
  <2>1. Filled(p)' = Filled(p) /\ obj'.buf = obj.buf /\ obj'.line_num = obj.line_num
    BY DEF Filled
  <2>. QED
    BY <1>1, <1>2, <2>1 DEF Received
<1>3. Progress'
  BY <1>1, <1>2 DEF Progress
<1>. QED
  BY <1>3 DEF AnswerTypeOK

\* The steps of a caller after it wrote the command.
LEMMA AnswerCaller ==
    ASSUME AtTypeOK, Orderly, AtCallerStep, past'.clean
    PROVE  ExecCmd \/ Orderly'
<1>1. AnswerTypeOK /\ Progress /\ CallerFinds
  BY DEF Orderly
<1>2. ASSUME CallerZero PROVE Orderly'
  <2>1. /\ caller.at = "zero"
        /\ obj' = [line_num |-> obj.line_num, line_counts |-> 0, buf |-> obj.buf]
        /\ caller' = [at |-> "take", op |-> caller.op, cmd |-> caller.cmd,
                      result |-> caller.result]
        /\ UNCHANGED <<at, parser, module, answer, fifo>>
    BY <1>1, <1>2 DEF CallerZero, CallerAt, AtTypeOK, AnswerTypeOK
  <2>2. CallerFinds'
    BY <1>1, <2>1 DEF CallerFinds
  <2>. QED
    BY <1>1, <2>1, <2>2, AnswerUnwritten DEF Orderly
<1>3. ASSUME CallerTake PROVE Orderly'
  <2>1. /\ caller.at = "take" /\ UNCHANGED <<obj, parser, module, answer, fifo>>
        /\ caller' = [at |-> IF at.resp_notice > 0 THEN "got" ELSE "wait", op |-> caller.op,
                      cmd |-> caller.cmd, result |-> caller.result]
        /\ at'.resp = at.resp /\ at'.resp_status = at.resp_status
        /\ at.resp_notice = 0 => at'.resp_notice = 0
    BY <1>3 DEF CallerTake, CallerAt, AtTypeOK
  <2>2. Whole' <=> Whole
    BY <2>1 DEF Whole, Filled
  <2>3. CallerFinds'
    BY <1>1, <2>1, <2>2 DEF CallerFinds
  <2>. QED
    BY <1>1, <2>1, <2>3, AnswerUnwritten DEF Orderly
<1>4. ASSUME ExecGot PROVE Orderly'
  <2>1. /\ caller.at = "got" /\ ~at.resp /\ UNCHANGED <<obj, parser, module, answer, fifo>>
        /\ caller' = [at |-> "done", op |-> caller.op, cmd |-> caller.cmd,
                      result |-> IF at.resp_status = "AT_RESP_OK" THEN "RT_EOK" ELSE "RT_ERROR"]
        /\ ~at'.resp
    BY <1>1, <1>4 DEF ExecGot, CallerAt, CallerFinds, AtTypeOK
  <2>2. Whole' <=> Whole
    BY <2>1 DEF Whole, Filled
  <2>3. CallerFinds'
    BY <1>1, <2>1, <2>2 DEF CallerFinds
  <2>. QED
    BY <1>1, <2>1, <2>3, AnswerUnwritten DEF Orderly
<1>5. ASSUME CallerReturn PROVE Orderly'
  <2>1. /\ caller.at = "done" /\ UNCHANGED <<at, obj, parser, module, answer, fifo>>
        /\ caller' = [at |-> "idle", op |-> "none", cmd |-> caller.cmd, result |-> "none"]
    BY <1>5 DEF CallerReturn, CallerAt, AtTypeOK
  <2>2. CallerFinds'
    BY <1>1, <2>1 DEF CallerFinds
  <2>. QED
    BY <1>1, <2>1, <2>2, AnswerUnwritten DEF Orderly
<1>6. ~CallerTimeout /\ ~ExecNoResp /\ ~WaitConnect
  BY DEF CallerTimeout, ExecNoResp, WaitConnect, Starts, AtTypeOK
<1>7. ~ExecTimeout /\ ~ConnectRetry /\ ~ConnectDelete /\ ~ConnectReturn
  BY <1>1 DEF ExecTimeout, ConnectRetry, ConnectDelete, ConnectReturn, CallerAt, CallerFinds
<1>. QED
  BY <1>2, <1>3, <1>4, <1>5, <1>6, <1>7 DEF AtCallerStep

\* at_client_init, and all that the device, the parser and the callers do.
LEMMA AnswerKeeps ==
    /\ AtClientInit => AnswerInv
    /\ AnswerInv /\ [AtClientNext]_atClientVars => AnswerInv'
<1>1. AtClientInit => AnswerInv
  BY AtKeeps DEF AtClientInit, AnswerInv
<1>2. ASSUME AnswerInv, [AtClientNext]_atClientVars
      PROVE  AnswerInv'
  <2>1. AtTypeOK /\ AtInv'
    BY <1>2, AtKeeps DEF AnswerInv, AtInv
  <2>2. ~past'.partial => parser'.len = 0 /\ parser'.line_counts = 0
    <3>1. CASE DeviceReceive \/ DeviceReceiveUrc \/ UNCHANGED atClientVars
      <4>1. /\ parser'.len = parser.len /\ parser'.line_counts = parser.line_counts
            /\ past'.partial = past.partial
        BY <2>1, <3>1 DEF DeviceReceive, DeviceReceiveUrc, RxInd, AtTypeOK, atClientVars
      <4>2. ~past.partial => parser.len = 0 /\ parser.line_counts = 0
        BY <1>2 DEF AnswerInv
      <4>. QED
        BY <4>1, <4>2
    <3>2. CASE AtParserStep
      <4>1. ~past.partial => parser.len = 0 /\ parser.line_counts = 0
        BY <1>2 DEF AnswerInv
      <4>2. CASE ParserRead \/ ParserReset \/ ParserTake \/ ParserOther
        <5>1. /\ parser'.len = parser.len /\ parser'.line_counts = parser.line_counts
              /\ past'.partial = past.partial
          BY <2>1, <4>2 DEF ParserRead, ParserReset, ParserTake, ParserOther, AtTypeOK
        <5>. QED
          BY <4>1, <5>1
      <4>3. ParserCopy => past'.partial
        BY <2>1 DEF ParserCopy, AtTypeOK
      <4>4. ParserEnd => parser'.len = 0 /\ parser'.line_counts = 0
        BY DEF ParserEnd
      <4>. QED
        BY <3>2, <4>2, <4>3, <4>4 DEF AtParserStep
    <3>3. CASE AtCallerStep
      <4>1. parser' = parser /\ past'.partial = past.partial
        BY <2>1, <3>3 DEF AtCallerStep, ExecCmd, ExecNoResp, WaitConnect, CallerZero, CallerTake,
                          CallerTimeout, ExecTimeout, ExecGot, ConnectRetry, ConnectDelete,
                          ConnectReturn, CallerReturn, Write, Starts, AtTypeOK
      <4>. QED
        BY <1>2, <4>1 DEF AnswerInv
    <3>. QED
      BY <1>2, <3>1, <3>2, <3>3 DEF AtClientNext
  <2>3. ASSUME past'.clean PROVE Orderly'
    <3>1. CASE ExecCmd
      BY <1>2, <2>3, <3>1, AnswerWritten
    <3>2. past.clean \/ ExecCmd
      BY <1>2, <2>1, <2>3 DEF AtClientNext, AtParserStep, AtCallerStep, DeviceReceive,
             DeviceReceiveUrc, ParserRead, ParserReset, ParserTake, ParserOther, ParserCopy,
             ParserEnd, ExecNoResp, WaitConnect, CallerZero, CallerTake, CallerTimeout,
             ExecTimeout, ExecGot, ConnectRetry, ConnectDelete, ConnectReturn, CallerReturn,
             Starts, AtTypeOK, atClientVars
    <3>3. CASE past.clean
      <4>1. Orderly
        BY <1>2, <3>3 DEF AnswerInv
      <4>2. CASE UNCHANGED atClientVars
        <5>1. /\ Coming' = Coming /\ (Whole' <=> Whole)
              /\ UNCHANGED <<at, obj, parser, caller, module, answer, fifo>>
          BY <4>2 DEF atClientVars, Coming, Whole, Filled
        <5>2. Progress'
          BY <4>1, <5>1, ProgressKept DEF Orderly
        <5>. QED
          BY <4>1, <5>1, <5>2 DEF Orderly, AnswerTypeOK, CallerFinds
      <4>3. CASE ParserEnd
        <5>1. caller.at # "zero"
          BY <2>1, <2>3, <4>3 DEF ParserEnd, AtTypeOK
        <5>. QED
          BY <2>1, <4>1, <4>3, <5>1, AnswerEnd
      <4>. QED
        BY <1>2, <2>1, <2>3, <3>1, <4>1, <4>2, <4>3, AnswerDevice, AnswerInput, AnswerOther,
           AnswerCopy, AnswerCaller DEF AtClientNext, AtParserStep
    <3>. QED
      BY <3>1, <3>2, <3>3
  <2>. QED
    BY <2>1, <2>2, <2>3 DEF AnswerInv
<1>. QED
  BY <1>1, <1>2

\* However long the answers and whenever their lines come, whatever happened to
\* the commands before: a command that began with nothing left of them, and that
\* at_obj_exec_cmd reports as successful, has its own answer, the whole of it and
\* nothing else, in the response buffer, if it fits and did not end before the
\* caller cleared line_counts.
THEOREM CommandsGetTheirAnswers == AtClientSpec => []AnswersItsCommand
<1>1. AnswerInv => AnswersItsCommand
  BY DEF AnswerInv, Orderly, CallerFinds, Whole, AnswersItsCommand
<1>. QED
  BY <1>1, AnswerKeeps, PTL DEF AtClientSpec

-----------------------------------------------------------------------------
(* The heap: the smallest of a set of numbers *)

\* What Min yields: the first block that fits, the lowest free block.
LEMMA LeastOfNat ==
    ASSUME NEW S, S \subseteq Nat, S # {}
    PROVE  /\ Min(S) \in S /\ \A y \in S : Min(S) <= y
           /\ \A x \in S : (\A y \in S : x <= y) => Min(S) = x
<1>1. \E x \in S : \A y \in S : ~(<<y, x>> \in OpToRel(<, Nat))
  BY NatLessThanWellFounded, WFMin
<1>2. \A x, y \in Nat : <<y, x>> \in OpToRel(<, Nat) <=> y < x
  BY DEF OpToRel
<1>3. PICK R : /\ \E x \in S : \A y \in S : ~(<<y, x>> \in R)
               /\ \A x, y \in Nat : <<y, x>> \in R <=> y < x
  BY <1>1, <1>2, Zenon
<1>4. PICK x \in S : \A y \in S : ~(<<y, x>> \in R)
  BY <1>3
<1>5. \A y \in S : x <= y
  <2>1. \A y \in S : y \in Nat /\ x \in Nat
    OBVIOUS
  <2>2. \A y \in S : ~(y < x)
    BY <1>3, <1>4, <2>1, Zenon
  <2>. QED
    BY <2>1, <2>2
<1>6. Min(S) \in S /\ \A y \in S : Min(S) <= y
  BY <1>5, Zenon DEF Min
<1>7. \A z \in S : (\A y \in S : z <= y) => Min(S) = z
  <2>. DEFINE m == Min(S)
  <2>1. m \in S /\ \A y \in S : m <= y
    BY <1>6
  <2>. HIDE DEF m
  <2>2. \A z \in S : (\A y \in S : z <= y) => m = z
    BY <2>1
  <2>. QED
    BY <2>2 DEF m
<1>. QED
  BY <1>6, <1>7

-----------------------------------------------------------------------------
(* The heap: the row of blocks *)

HeadersOK(h) ==
    /\ DOMAIN h \subseteq 0 .. heap_end /\ {0, heap_end} \subseteq DOMAIN h
    /\ h \in [DOMAIN h -> [used : BOOLEAN, next : 0 .. heap_end, prev : 0 .. heap_end]]

\* BlocksFollow, with what the blocks say of those before them: each but the
\* first is the next one of its prev.
Row(h) ==
    /\ HeadersOK(h)
    /\ h[heap_end].used /\ h[0].prev = 0
    /\ \A mem \in DOMAIN h \ {heap_end} :
         /\ h[mem].next \in DOMAIN h /\ mem + SIZEOF_STRUCT_MEM < h[mem].next
         /\ \A o \in DOMAIN h : ~(mem < o /\ o < h[mem].next)
         /\ h[mem].next # heap_end => h[h[mem].next].prev = mem
    /\ \A mem \in DOMAIN h \ {0, heap_end} :
         h[mem].prev \in DOMAIN h \ {heap_end} /\ h[h[mem].prev].next = mem

\* The sizes and the end of the heap as numbers.
LEMMA HeapNumbers ==
    /\ SIZEOF_STRUCT_MEM \in Nat /\ SIZEOF_STRUCT_MEM > 0 /\ MIN_SIZE \in Nat /\ MIN_SIZE > 0
    /\ mem_size_aligned \in Nat /\ mem_size_aligned > 0
    /\ heap_end \in Nat /\ heap_end > 0 /\ heap_end = mem_size_aligned + SIZEOF_STRUCT_MEM
BY HeapConstants DEF heap_end

\* g is h with mem used or free.
Marked(h, mem, b, g) ==
    /\ Row(g) /\ DOMAIN g = DOMAIN h /\ g[mem].used = b
    /\ \A o \in DOMAIN h : g[o].next = h[o].next /\ g[o].prev = h[o].prev
    /\ \A o \in DOMAIN h \ {mem} : g[o].used = h[o].used

\* A block is used or free: the row stays.
LEMMA RowUsed ==
    ASSUME NEW h, Row(h), NEW mem \in DOMAIN h \ {heap_end}, NEW b \in BOOLEAN,
           NEW g, g = [h EXCEPT ![mem].used = b]
    PROVE  Marked(h, mem, b, g)
<1>1. HeadersOK(h)
  BY DEF Row
<1>2. /\ DOMAIN g = DOMAIN h /\ g[mem].used = b
      /\ \A o \in DOMAIN h : g[o].next = h[o].next /\ g[o].prev = h[o].prev
      /\ \A o \in DOMAIN h \ {mem} : g[o].used = h[o].used
      /\ g \in [DOMAIN h -> [used : BOOLEAN, next : 0 .. heap_end, prev : 0 .. heap_end]]
  BY <1>1 DEF HeadersOK
<1>3. HeadersOK(g)
  BY <1>1, <1>2 DEF HeadersOK
<1>4. heap_end \in DOMAIN h \ {mem} /\ 0 \in DOMAIN h
  BY <1>1 DEF HeadersOK
<1>5. Row(g)
  BY <1>2, <1>3, <1>4 DEF Row
<1>. QED
  BY <1>2, <1>5 DEF Marked

\* What Absorb leaves: g is h with mem and the block behind it as one.
Absorbed(h, mem, g) ==
    /\ Row(g) /\ DOMAIN g = DOMAIN h \ {h[mem].next} /\ mem \in DOMAIN g
    /\ g[mem].next = h[h[mem].next].next /\ g[mem].prev = h[mem].prev
    /\ \A o \in DOMAIN g : g[o].used = h[o].used
    /\ \A o \in DOMAIN g \ {mem} : g[o].next = h[o].next

\* The block behind mem becomes part of it.
LEMMA RowAbsorb ==
    ASSUME NEW h, Row(h), NEW mem \in DOMAIN h \ {heap_end}, h[mem].next # heap_end,
           NEW g, g = Absorb(h, mem)
    PROVE  Absorbed(h, mem, g)
<1>. DEFINE n == h[mem].next
            nn == h[n].next
            D == DOMAIN h
            Header == [used : BOOLEAN, next : 0 .. heap_end, prev : 0 .. heap_end]
<1>1. /\ D \subseteq 0 .. heap_end /\ {0, heap_end} \subseteq D /\ h \in [D -> Header]
      /\ heap_end \in Nat /\ SIZEOF_STRUCT_MEM \in Nat /\ SIZEOF_STRUCT_MEM > 0
  BY HeapNumbers DEF Row, HeadersOK
<1>2. n \in D \ {heap_end} /\ mem < n /\ \A o \in D : ~(mem < o /\ o < n)
  BY <1>1 DEF Row
<1>3. nn \in D /\ n + SIZEOF_STRUCT_MEM < nn /\ \A o \in D : ~(n < o /\ o < nn)
  BY <1>2 DEF Row
<1>4. /\ n # 0 /\ n # mem /\ nn # mem /\ nn # n /\ nn # 0
      /\ mem + SIZEOF_STRUCT_MEM < nn
      /\ \A o \in D \ {n} : ~(mem < o /\ o < nn)
  BY <1>1, <1>2, <1>3
<1>5. g = [o \in D \ {n} |-> IF o = mem THEN [h[o] EXCEPT !.next = nn]
                             ELSE IF o = nn THEN [h[o] EXCEPT !.prev = mem]
                             ELSE h[o]]
  BY DEF Absorb
<1>6. /\ DOMAIN g = D \ {n} /\ mem \in DOMAIN g
      /\ g[mem].next = nn /\ g[mem].prev = h[mem].prev
      /\ \A o \in DOMAIN g : g[o].used = h[o].used
      /\ \A o \in DOMAIN g \ {mem} : g[o].next = h[o].next
      /\ g[nn].prev = mem
      /\ \A o \in DOMAIN g \ {nn} : g[o].prev = h[o].prev
      /\ g \in [D \ {n} -> Header]
  BY <1>1, <1>2, <1>3, <1>4, <1>5, SMTT(60)
<1>7. HeadersOK(g)
  BY <1>1, <1>2, <1>4, <1>6 DEF HeadersOK
<1>8. g[heap_end].used /\ g[0].prev = 0
  BY <1>1, <1>2, <1>4, <1>6 DEF Row
<1>9. ASSUME NEW o \in DOMAIN g \ {heap_end}
      PROVE  /\ g[o].next \in DOMAIN g /\ o + SIZEOF_STRUCT_MEM < g[o].next
             /\ \A x \in DOMAIN g : ~(o < x /\ x < g[o].next)
             /\ g[o].next # heap_end => g[g[o].next].prev = o
  <2>1. CASE o = mem
    BY <1>3, <1>4, <1>6, <2>1
  <2>2. CASE o # mem
    <3>1. /\ g[o].next = h[o].next /\ o \in D /\ o # heap_end /\ h[o].next \in D
          /\ o + SIZEOF_STRUCT_MEM < h[o].next
          /\ \A x \in D : ~(o < x /\ x < h[o].next)
          /\ h[o].next # heap_end => h[h[o].next].prev = o
      BY <1>6, <2>2 DEF Row
    <3>2. h[n].prev = mem /\ (nn # heap_end => h[nn].prev = n)
      BY <1>2 DEF Row
    <3>3. h[o].next # n
      BY <1>2, <2>2, <3>1, <3>2
    <3>4. h[o].next = nn => nn = heap_end
      BY <1>6, <3>1, <3>2
    <3>. QED
      BY <1>6, <3>1, <3>3, <3>4
  <2>. QED
    BY <2>1, <2>2
<1>10. ASSUME NEW o \in DOMAIN g \ {0, heap_end}
       PROVE  g[o].prev \in DOMAIN g \ {heap_end} /\ g[g[o].prev].next = o
  <2>1. CASE o = nn
    BY <1>6, <2>1
  <2>2. CASE o # nn
    <3>1. g[o].prev = h[o].prev /\ h[o].prev \in D \ {heap_end} /\ h[h[o].prev].next = o
      BY <1>6, <2>2 DEF Row
    <3>2. h[o].prev # n /\ h[o].prev # mem
      BY <1>6, <2>2, <3>1
    <3>. QED
      BY <1>6, <3>1, <3>2
  <2>. QED
    BY <2>1, <2>2
<1>11. Row(g)
  BY <1>7, <1>8, <1>9, <1>10 DEF Row
<1>. QED
  BY <1>6, <1>11 DEF Absorbed

\* What Split leaves: g is h with a free block mem2 at the end of mem.
SplitOff(h, mem, mem2, g) ==
    /\ Row(g) /\ DOMAIN g = DOMAIN h \cup {mem2} /\ mem2 \notin DOMAIN h
    /\ mem < mem2 /\ mem2 # heap_end
    /\ g[mem].used /\ g[mem].next = mem2
    /\ ~g[mem2].used /\ g[mem2].next = h[mem].next /\ g[mem2].prev = mem
    /\ \A o \in DOMAIN h \ {mem} : g[o].used = h[o].used /\ g[o].next = h[o].next

\* A block mem2 is cut off the end of mem.
LEMMA RowSplit ==
    ASSUME NEW h, Row(h), NEW mem \in DOMAIN h \ {heap_end}, NEW size \in Nat, NEW mem2,
           mem2 = mem + SIZEOF_STRUCT_MEM + size, size > 0,
           mem2 + SIZEOF_STRUCT_MEM < h[mem].next,
           NEW g, g = Split(h, mem, size)
    PROVE  SplitOff(h, mem, mem2, g)
<1>. DEFINE n == h[mem].next
            D == DOMAIN h
            Header == [used : BOOLEAN, next : 0 .. heap_end, prev : 0 .. heap_end]
<1>1. /\ D \subseteq 0 .. heap_end /\ {0, heap_end} \subseteq D /\ h \in [D -> Header]
      /\ heap_end \in Nat /\ SIZEOF_STRUCT_MEM \in Nat /\ SIZEOF_STRUCT_MEM > 0
  BY HeapNumbers DEF Row, HeadersOK
<1>2. n \in D /\ \A o \in D : ~(mem < o /\ o < n)
  BY <1>1 DEF Row
<1>3. /\ mem2 \in 0 .. heap_end /\ mem < mem2 /\ mem2 < n /\ mem2 # heap_end
      /\ mem + SIZEOF_STRUCT_MEM < mem2
      /\ mem2 \notin D /\ mem2 # 0 /\ mem2 # mem /\ mem # n
  BY <1>1, <1>2
<1>4. g = [o \in D \cup {mem2} |->
             IF o = mem2 THEN [used |-> FALSE, next |-> n, prev |-> mem]
             ELSE IF o = mem THEN [h[o] EXCEPT !.used = TRUE, !.next = mem2]
             ELSE IF o = n /\ n # heap_end THEN [h[o] EXCEPT !.prev = mem2]
             ELSE h[o]]
  BY DEF Split
<1>5. /\ DOMAIN g = D \cup {mem2}
      /\ g[mem].used /\ g[mem].next = mem2 /\ g[mem].prev = h[mem].prev
      /\ ~g[mem2].used /\ g[mem2].next = n /\ g[mem2].prev = mem
      /\ \A o \in D \ {mem} : g[o].used = h[o].used /\ g[o].next = h[o].next
      /\ n # heap_end => g[n].prev = mem2
      /\ \A o \in D \ {n} : g[o].prev = h[o].prev
      /\ n = heap_end => g[n].prev = h[n].prev
      /\ g \in [D \cup {mem2} -> Header]
  <2>1. /\ mem \in D \cup {mem2} /\ mem2 \in D \cup {mem2} /\ n \in D \cup {mem2}
        /\ n # mem2 /\ mem \in 0 .. heap_end /\ n \in 0 .. heap_end
    BY <1>1, <1>2, <1>3
  <2>2. DOMAIN g = D \cup {mem2} /\ g[mem2] = [used |-> FALSE, next |-> n, prev |-> mem]
    BY <1>4, <2>1
  <2>3. g[mem] = [h[mem] EXCEPT !.used = TRUE, !.next = mem2]
    BY <1>3, <1>4, <2>1
  <2>4. n # heap_end => g[n] = [h[n] EXCEPT !.prev = mem2]
    BY <1>3, <1>4, <2>1
  <2>5. n = heap_end => g[n] = h[n]
    BY <1>3, <1>4, <2>1
  <2>6. \A o \in D \ {mem, n} : g[o] = h[o]
    BY <1>3, <1>4
  <2>7. h[mem] \in Header /\ h[n] \in Header /\ \A o \in D : h[o] \in Header
    BY <1>1, <1>2
  <2>8. g[mem2] \in Header
    BY <1>3, <2>1, <2>2
  <2>9. g[mem] \in Header /\ g[mem].used /\ g[mem].next = mem2 /\ g[mem].prev = h[mem].prev
    BY <1>3, <2>3, <2>7
  <2>10. g[n] \in Header /\ g[n].used = h[n].used /\ g[n].next = h[n].next
    <3>1. CASE n # heap_end
      BY <1>3, <2>4, <2>7, <3>1
    <3>2. CASE n = heap_end
      BY <2>5, <2>7, <3>2
    <3>. QED
      BY <3>1, <3>2
  <2>11. n # heap_end => g[n].prev = mem2
    BY <2>4, <2>7
  <2>12. \A o \in D \cup {mem2} : g[o] \in Header
    BY <2>6, <2>7, <2>8, <2>9, <2>10, Zenon
  <2>13. g \in [D \cup {mem2} -> Header]
    <3>. HIDE DEF Header, D, n
    <3>. QED
      BY <1>4, <2>12
  <2>14. \A o \in D \ {mem} : g[o].used = h[o].used /\ g[o].next = h[o].next
    BY <2>6, <2>10, Zenon
  <2>15. \A o \in D \ {n} : g[o].prev = h[o].prev
    BY <2>6, <2>9, Zenon
  <2>16. ~g[mem2].used /\ g[mem2].next = n /\ g[mem2].prev = mem
    BY <2>2
  <2>. QED
    BY <2>2, <2>5, <2>9, <2>11, <2>13, <2>14, <2>15, <2>16, Zenon
<1>6. HeadersOK(g)
  BY <1>1, <1>3, <1>5 DEF HeadersOK
<1>7. g[heap_end].used /\ g[0].prev = 0
  <2>1. n # 0
    BY <1>1, <1>3
  <2>. QED
    BY <1>1, <1>5, <2>1 DEF Row
<1>8. ASSUME NEW o \in DOMAIN g \ {heap_end}
      PROVE  /\ g[o].next \in DOMAIN g /\ o + SIZEOF_STRUCT_MEM < g[o].next
             /\ \A x \in DOMAIN g : ~(o < x /\ x < g[o].next)
             /\ g[o].next # heap_end => g[g[o].next].prev = o
  <2>1. CASE o = mem
    BY <1>1, <1>2, <1>3, <1>5, <2>1
  <2>2. CASE o = mem2
    BY <1>1, <1>2, <1>3, <1>5, <2>2
  <2>3. CASE o \in D \ {mem}
    <3>1. /\ g[o].next = h[o].next /\ o # heap_end /\ h[o].next \in D
          /\ o + SIZEOF_STRUCT_MEM < h[o].next
          /\ \A x \in D : ~(o < x /\ x < h[o].next)
          /\ h[o].next # heap_end => h[h[o].next].prev = o
      BY <1>5, <2>3 DEF Row
    <3>2. n # heap_end => h[n].prev = mem
      BY DEF Row
    <3>3. h[o].next = n => n = heap_end
      BY <2>3, <3>1, <3>2
    <3>4. ~(o < mem2 /\ mem2 < h[o].next)
      <4>1. ~(o < mem /\ mem < h[o].next) /\ ~(o < n /\ n < h[o].next)
        BY <1>2, <3>1
      <4>2. ~(mem < o /\ o < n) /\ ~(mem < h[o].next /\ h[o].next < n)
        BY <1>2, <2>3, <3>1
      <4>3. o \in Nat /\ mem \in Nat /\ n \in Nat /\ mem2 \in Nat /\ h[o].next \in Nat /\ o # mem
        BY <1>1, <1>2, <1>3, <2>3, <3>1
      <4>. QED
        BY <1>3, <4>1, <4>2, <4>3
    <3>. QED
      BY <1>3, <1>5, <2>3, <3>1, <3>3, <3>4
  <2>. QED
    BY <1>5, <2>1, <2>2, <2>3
<1>9. ASSUME NEW o \in DOMAIN g \ {0, heap_end}
      PROVE  g[o].prev \in DOMAIN g \ {heap_end} /\ g[g[o].prev].next = o
  <2>1. CASE o = mem2
    BY <1>5, <2>1
  <2>2. CASE o = n
    BY <1>3, <1>5, <2>2
  <2>3. CASE o \in D \ {n}
    <3>1. g[o].prev = h[o].prev /\ h[o].prev \in D \ {heap_end} /\ h[h[o].prev].next = o
      BY <1>5, <2>3 DEF Row
    <3>2. h[o].prev # mem
      BY <2>3, <3>1
    <3>. QED
      BY <1>5, <3>1, <3>2
  <2>. QED
    BY <1>5, <2>1, <2>2, <2>3
<1>10. Row(g)
  BY <1>6, <1>7, <1>8, <1>9 DEF Row
<1>. QED
  BY <1>3, <1>5, <1>10 DEF SplitOff

-----------------------------------------------------------------------------
(* The heap: holes and the lowest free block *)

\* HolesPlugged of a heap h; HolesBut: but for the block before mem and, when
\* own is FALSE, mem itself.
Holes(h) ==
    \A b \in DOMAIN h \ {heap_end} : ~h[b].used => h[h[b].next].used

HolesBut(h, mem, own) ==
    \A b \in DOMAIN h \ {heap_end} :
        (b = mem => own) /\ h[b].next # mem /\ ~h[b].used => h[h[b].next].used

\* l is the lowest free block from the offset mem on.
LowestFrom(h, mem, l) ==
    /\ l \in DOMAIN h /\ mem <= l /\ (l # heap_end => ~h[l].used)
    /\ \A o \in DOMAIN h : mem <= o /\ ~h[o].used => l <= o

\* OnlySplitsHide, for a heap h with lfree at l and the hidden blocks hid.
Finds(h, hid, l) ==
    /\ l \in DOMAIN h /\ (l # heap_end => ~h[l].used)
    /\ \A o \in DOMAIN h : ~h[o].used => o \in hid \/ l <= o

\* The blocks in use are the same in h and k.
SameInUse(h, k) ==
    /\ \A o \in DOMAIN h : h[o].used => o \in DOMAIN k /\ k[o].used /\ k[o].next = h[o].next
    /\ \A o \in DOMAIN k : k[o].used => o \in DOMAIN h /\ h[o].used

\* The search for the lowest free block from mem on, as rt_malloc moves lfree.
LEMMA NextFreeIsLowest ==
    ASSUME NEW h, Row(h), NEW mem \in DOMAIN h
    PROVE  /\ LowestFrom(h, mem, NextFree(h, mem))
           /\ \A l : LowestFrom(h, mem, l) => l = NextFree(h, mem)
<1>. DEFINE S == {o \in DOMAIN h : mem <= o /\ ~h[o].used} \cup {heap_end}
<1>1. /\ DOMAIN h \subseteq 0 .. heap_end /\ {0, heap_end} \subseteq DOMAIN h
      /\ heap_end \in Nat /\ h[heap_end].used
  BY HeapNumbers DEF Row, HeadersOK
<1>2. S \subseteq Nat /\ S # {}
  BY <1>1
<1>3. /\ Min(S) \in S /\ \A y \in S : Min(S) <= y
      /\ \A x \in S : (\A y \in S : x <= y) => Min(S) = x
  BY <1>2, LeastOfNat
<1>4. NextFree(h, mem) = Min(S)
  BY DEF NextFree
<1>. DEFINE m == Min(S)
<1>5. m \in S /\ (\A y \in S : m <= y) /\ \A x \in S : (\A y \in S : x <= y) => m = x
  BY <1>3
<1>. HIDE DEF m
<1>6. LowestFrom(h, mem, m)
  BY <1>1, <1>5 DEF LowestFrom
<1>7. ASSUME NEW l, LowestFrom(h, mem, l)
      PROVE  l = m
  <2>1. l \in S /\ \A y \in S : l <= y
    BY <1>1, <1>7 DEF LowestFrom
  <2>. QED
    BY <1>5, <2>1
<1>. QED
  BY <1>4, <1>6, <1>7 DEF m

HalfPlugged(h, mem, g, hid, l) ==
    /\ Row(g) /\ mem \in DOMAIN g \ {heap_end} /\ ~g[mem].used
    /\ HolesBut(g, mem, TRUE) /\ Finds(g, hid, l) /\ SameInUse(h, g)

\* A row without a hole beside a hole, with the same blocks in use as h.
Plugged(h, g, hid, l) ==
    Row(g) /\ Holes(g) /\ Finds(g, hid, l) /\ SameInUse(h, g)

\* The first half of plug_holes: the block behind mem, when it is free, is
\* joined with mem.
LEMMA PlugsForward ==
    ASSUME NEW h, Row(h), NEW mem \in DOMAIN h \ {heap_end}, ~h[mem].used,
           HolesBut(h, mem, FALSE), NEW hid, NEW l, Finds(h, hid, l),
           NEW nmem, nmem = h[mem].next,
           NEW g, g = (IF h[nmem].used THEN h ELSE Absorb(h, mem)),
           NEW k, k = (IF h[nmem].used THEN l ELSE IF l = nmem THEN mem ELSE l)
    PROVE  HalfPlugged(h, mem, g, hid, k)
<1>1. /\ DOMAIN h \subseteq 0 .. heap_end /\ {0, heap_end} \subseteq DOMAIN h
      /\ heap_end \in Nat /\ h[heap_end].used
      /\ SIZEOF_STRUCT_MEM \in Nat /\ SIZEOF_STRUCT_MEM > 0
  BY HeapNumbers DEF Row, HeadersOK
<1>2. nmem \in DOMAIN h /\ mem < nmem
  BY <1>1 DEF Row
<1>3. CASE h[nmem].used
  <2>1. g = h /\ k = l
    BY <1>3
  <2>2. HolesBut(h, mem, TRUE)
    BY <1>3 DEF HolesBut
  <2>. QED
    BY <2>1, <2>2 DEF SameInUse, HalfPlugged
<1>4. CASE ~h[nmem].used
  <2>1. g = Absorb(h, mem) /\ nmem # heap_end
    BY <1>1, <1>4
  <2>2. /\ Row(g) /\ DOMAIN g = DOMAIN h \ {nmem} /\ mem \in DOMAIN g
        /\ g[mem].next = h[nmem].next /\ g[mem].prev = h[mem].prev
        /\ \A o \in DOMAIN g : g[o].used = h[o].used
        /\ \A o \in DOMAIN g \ {mem} : g[o].next = h[o].next
    <3>1. Absorbed(h, mem, g)
      BY <2>1, RowAbsorb
    <3>. QED
      BY <3>1 DEF Absorbed
  <2>3. /\ h[nmem].next \in DOMAIN h /\ nmem < h[nmem].next
        /\ \A o \in DOMAIN h : o # heap_end => h[o].next \in DOMAIN h
        /\ \A o \in DOMAIN h \ {mem, heap_end} : h[o].next # nmem
    <3>1. h[nmem].prev = mem
      BY <2>1 DEF Row
    <3>. QED
      BY <1>1, <1>2, <2>1, <3>1 DEF Row
  <2>4. HolesBut(g, mem, TRUE)
    <3>1. SUFFICES ASSUME NEW b \in DOMAIN g \ {heap_end}, g[b].next # mem, ~g[b].used
                   PROVE  g[g[b].next].used
      BY DEF HolesBut
    <3>2. CASE b = mem
      <4>1. h[h[nmem].next].used
        BY <1>1, <1>2, <1>4, <2>1, <2>3 DEF HolesBut
      <4>. QED
        BY <1>1, <1>2, <2>2, <2>3, <3>2, <4>1
    <3>3. CASE b # mem
      <4>1. g[b].next = h[b].next /\ ~h[b].used /\ b \in DOMAIN h \ {heap_end}
        BY <2>2, <3>1, <3>3
      <4>2. h[h[b].next].used
        BY <3>1, <3>3, <4>1 DEF HolesBut
      <4>. QED
        BY <2>2, <2>3, <3>3, <4>1, <4>2
    <3>. QED
      BY <3>2, <3>3
  <2>5. Finds(g, hid, k)
    <3>1. CASE l = nmem
      <4>1. k = mem /\ DOMAIN h \subseteq Int
        BY <1>1, <1>4, <3>1
      <4>. QED
        BY <1>2, <2>2, <3>1, <4>1 DEF Finds
    <3>2. CASE l # nmem
      <4>1. k = l
        BY <1>4, <3>2
      <4>. QED
        BY <2>2, <3>2, <4>1 DEF Finds
    <3>. QED
      BY <3>1, <3>2
  <2>6. SameInUse(h, g)
    BY <1>4, <2>2 DEF SameInUse
  <2>. QED
    BY <2>1, <2>2, <2>4, <2>5, <2>6, <1>1 DEF HalfPlugged
<1>. QED
  BY <1>3, <1>4

\* The second half: with the block before mem, when that is free.
LEMMA PlugsBackward ==
    ASSUME NEW g, Row(g), NEW mem \in DOMAIN g \ {heap_end}, ~g[mem].used,
           HolesBut(g, mem, TRUE), NEW hid, NEW l, Finds(g, hid, l),
           NEW pmem, pmem = g[mem].prev,
           NEW k, k = (IF pmem = mem \/ g[pmem].used THEN g ELSE Absorb(g, pmem)),
           NEW kl, kl = (IF pmem = mem \/ g[pmem].used THEN l
                         ELSE IF l = mem THEN pmem ELSE l)
    PROVE  Plugged(g, k, hid, kl)
<1>1. /\ DOMAIN g \subseteq 0 .. heap_end /\ {0, heap_end} \subseteq DOMAIN g
      /\ heap_end \in Nat /\ g[heap_end].used
      /\ SIZEOF_STRUCT_MEM \in Nat /\ SIZEOF_STRUCT_MEM > 0
  BY HeapNumbers DEF Row, HeadersOK
<1>2. /\ \A o \in DOMAIN g \ {heap_end} : g[o].next \in DOMAIN g /\ o < g[o].next
      /\ \A o \in DOMAIN g \ {heap_end} : g[o].next = mem => o = pmem
      /\ mem # 0 => pmem \in DOMAIN g \ {heap_end} /\ g[pmem].next = mem /\ pmem < mem
      /\ mem = 0 => pmem = mem
  BY <1>1 DEF Row
<1>3. CASE pmem = mem \/ g[pmem].used
  <2>1. Holes(g)
    <3>1. SUFFICES ASSUME NEW b \in DOMAIN g \ {heap_end}, ~g[b].used
                   PROVE  g[g[b].next].used
      BY DEF Holes
    <3>2. g[b].next # mem
      BY <1>1, <1>2, <1>3, <3>1
    <3>. QED
      BY <3>1, <3>2 DEF HolesBut
  <2>. QED
    BY <1>3, <2>1 DEF SameInUse, Plugged
<1>4. CASE ~(pmem = mem \/ g[pmem].used)
  <2>1. k = Absorb(g, pmem) /\ mem # 0 /\ pmem \in DOMAIN g \ {heap_end} /\ g[pmem].next = mem
    BY <1>2, <1>4
  <2>2. /\ Row(k) /\ DOMAIN k = DOMAIN g \ {mem} /\ pmem \in DOMAIN k
        /\ k[pmem].next = g[mem].next
        /\ \A o \in DOMAIN k : k[o].used = g[o].used
        /\ \A o \in DOMAIN k \ {pmem} : k[o].next = g[o].next
    <3>1. Absorbed(g, pmem, k)
      BY <2>1, RowAbsorb
    <3>. QED
      BY <2>1, <3>1 DEF Absorbed
  <2>3. Holes(k)
    <3>1. SUFFICES ASSUME NEW b \in DOMAIN k \ {heap_end}, ~k[b].used
                   PROVE  k[k[b].next].used
      BY DEF Holes
    <3>2. CASE b = pmem
      <4>1. g[mem].next # mem /\ g[mem].next \in DOMAIN g
        BY <1>1, <1>2
      <4>2. g[g[mem].next].used
        BY <4>1 DEF HolesBut
      <4>. QED
        BY <2>2, <3>2, <4>1, <4>2
    <3>3. CASE b # pmem
      <4>1. /\ b \in DOMAIN g \ {heap_end} /\ k[b].next = g[b].next /\ ~g[b].used
            /\ g[b].next # mem /\ g[b].next \in DOMAIN g
        BY <1>2, <2>2, <3>1, <3>3
      <4>2. g[g[b].next].used
        BY <4>1 DEF HolesBut
      <4>. QED
        BY <2>2, <4>1, <4>2
    <3>. QED
      BY <3>2, <3>3
  <2>5. Finds(k, hid, kl)
    <3>1. CASE l = mem
      <4>1. kl = pmem /\ pmem < mem /\ DOMAIN g \subseteq Int
        BY <1>1, <1>2, <1>4, <2>1, <3>1
      <4>2. pmem \in DOMAIN k /\ ~k[pmem].used
        BY <1>4, <2>2
      <4>. QED
        BY <2>1, <2>2, <3>1, <4>1, <4>2 DEF Finds
    <3>2. CASE l # mem
      <4>1. kl = l
        BY <1>4, <3>2
      <4>. QED
        BY <2>2, <3>2, <4>1 DEF Finds
    <3>. QED
      BY <3>1, <3>2
  <2>6. SameInUse(g, k)
    BY <2>2 DEF SameInUse
  <2>. QED
    BY <2>2, <2>3, <2>5, <2>6 DEF Plugged
<1>. QED
  BY <1>3, <1>4

\* plug_holes: the row stays, no two free blocks follow each other any more,
\* lfree finds as many as before and the blocks in use are not touched.
LEMMA PlugHoles ==
    ASSUME NEW h, Row(h), NEW mem \in DOMAIN h \ {heap_end}, ~h[mem].used,
           HolesBut(h, mem, FALSE), NEW hid, NEW l, Finds(h, hid, l),
           NEW p, p = plug_holes([heap |-> h, lfree |-> l], mem)
    PROVE  /\ p = [heap |-> p.heap, lfree |-> p.lfree]
           /\ Plugged(h, p.heap, hid, p.lfree)
<1>. DEFINE nmem == h[mem].next
            g == IF h[nmem].used THEN h ELSE Absorb(h, mem)
            fl == IF h[nmem].used THEN l ELSE IF l = nmem THEN mem ELSE l
            pmem == g[mem].prev
            k == IF pmem = mem \/ g[pmem].used THEN g ELSE Absorb(g, pmem)
            kl == IF pmem = mem \/ g[pmem].used THEN fl
                  ELSE IF fl = mem THEN pmem ELSE fl
            forward == IF h[nmem].used THEN [heap |-> h, lfree |-> l]
                       ELSE [heap |-> Absorb(h, mem),
                             lfree |-> IF l = nmem THEN mem ELSE l]
<1>1. HalfPlugged(h, mem, g, hid, fl)
  BY PlugsForward
<1>2. Plugged(g, k, hid, kl)
  <2>. HIDE DEF g, fl
  <2>1. /\ Row(g) /\ mem \in DOMAIN g \ {heap_end} /\ ~g[mem].used
        /\ HolesBut(g, mem, TRUE) /\ Finds(g, hid, fl)
    BY <1>1 DEF HalfPlugged
  <2>2. /\ pmem = g[mem].prev
        /\ k = (IF pmem = mem \/ g[pmem].used THEN g ELSE Absorb(g, pmem))
        /\ kl = (IF pmem = mem \/ g[pmem].used THEN fl ELSE IF fl = mem THEN pmem ELSE fl)
    OBVIOUS
  <2>. HIDE DEF pmem, k, kl
  <2>. QED
    BY <2>1, <2>2, PlugsBackward, ZenonT(60)
<1>3. forward = [heap |-> g, lfree |-> fl]
  OBVIOUS
<1>4. p = (IF forward.heap[mem].prev = mem \/ forward.heap[forward.heap[mem].prev].used
           THEN forward
           ELSE [heap |-> Absorb(forward.heap, forward.heap[mem].prev),
                 lfree |-> IF forward.lfree = mem THEN forward.heap[mem].prev
                           ELSE forward.lfree])
  BY DEF plug_holes
<1>5. p = [heap |-> k, lfree |-> kl]
  <2>. HIDE DEF g, fl, forward
  <2>. QED
    BY <1>3, <1>4
<1>6. Plugged(h, k, hid, kl)
  <2>. HIDE DEF g, k, kl, fl
  <2>. QED
    BY <1>1, <1>2 DEF SameInUse, HalfPlugged, Plugged
<1>. QED
  <2>. HIDE DEF g, k, kl
  <2>. QED
    BY <1>5, <1>6

-----------------------------------------------------------------------------
(* The heap: rt_malloc, rt_free and rt_realloc on a heap h whose used blocks are g's *)

\* GivenInUse, for a heap h and the blocks g the threads have.
HeldBy(h, g) ==
    /\ DOMAIN g = {mem \in DOMAIN h \ {heap_end} : h[mem].used}
    /\ \A mem \in DOMAIN g : g[mem] \in Nat /\ g[mem] <= Size(h, mem)

HeapHolds(p, g, hid) ==
    /\ p = [heap |-> p.heap, lfree |-> p.lfree]
    /\ Row(p.heap) /\ Holes(p.heap) /\ Finds(p.heap, hid, p.lfree)
    /\ HeldBy(p.heap, g)

\* The hidden blocks that are no more, or not before lfree, need not be kept.
LEMMA HoldsHidden ==
    ASSUME NEW p, NEW g, NEW hid, HeapHolds(p, g, hid),
           NEW k, k = {mem \in hid : mem \in DOMAIN p.heap /\ mem < p.lfree}
    PROVE  HeapHolds(p, g, k)
<1>1. Row(p.heap) /\ Finds(p.heap, hid, p.lfree)
  BY DEF HeapHolds
<1>2. DOMAIN p.heap \subseteq Int
  BY <1>1, HeapNumbers DEF Row, HeadersOK
<1>3. Finds(p.heap, k, p.lfree)
  BY <1>1, <1>2 DEF Finds
<1>. QED
  BY <1>3 DEF HeapHolds

\* A heap with the blocks of h in use is held by whom h is held.
LEMMA SameHeld ==
    ASSUME NEW h, NEW k, Row(h), Row(k), SameInUse(h, k), NEW g, HeldBy(h, g)
    PROVE  HeldBy(k, g)
<1>1. heap_end \in DOMAIN h /\ heap_end \in DOMAIN k
  BY DEF Row, HeadersOK
<1>2. DOMAIN g = {mem \in DOMAIN k \ {heap_end} : k[mem].used}
  BY <1>1 DEF SameInUse, HeldBy
<1>3. \A mem \in DOMAIN g : Size(k, mem) = Size(h, mem)
  BY <1>1 DEF SameInUse, HeldBy, Size
<1>. QED
  BY <1>2, <1>3, Zenon DEF HeldBy

\* rt_free.
LEMMA FreeHolds ==
    ASSUME NEW p, NEW g, NEW hid, HeapHolds(p, g, hid), NEW mem \in DOMAIN g,
           NEW r, r = plug_holes([heap |-> [p.heap EXCEPT ![mem].used = FALSE],
                                  lfree |-> IF mem < p.lfree THEN mem ELSE p.lfree], mem),
           NEW k, k = [o \in DOMAIN g \ {mem} |-> g[o]]
    PROVE  HeapHolds(r, k, hid)
<1>. DEFINE h == p.heap
            f == [h EXCEPT ![mem].used = FALSE]
            l == IF mem < p.lfree THEN mem ELSE p.lfree
<1>1. Row(h) /\ Holes(h) /\ Finds(h, hid, p.lfree) /\ HeldBy(h, g)
  BY DEF HeapHolds
<1>2. mem \in DOMAIN h \ {heap_end} /\ h[mem].used
  BY <1>1 DEF HeldBy
<1>3. /\ DOMAIN h \subseteq 0 .. heap_end /\ {0, heap_end} \subseteq DOMAIN h
      /\ heap_end \in Nat /\ SIZEOF_STRUCT_MEM \in Nat
  BY <1>1, HeapNumbers DEF Row, HeadersOK
<1>4. /\ Row(f) /\ DOMAIN f = DOMAIN h /\ f[mem].used = FALSE
      /\ \A o \in DOMAIN h : f[o].next = h[o].next /\ f[o].prev = h[o].prev
      /\ \A o \in DOMAIN h \ {mem} : f[o].used = h[o].used
  <2>1. Marked(h, mem, FALSE, f)
    <3>. HIDE DEF h
    <3>. QED
      BY <1>1, <1>2, RowUsed
  <2>. QED
    BY <2>1, Zenon DEF Marked
<1>. HIDE DEF h, f
<1>5. HolesBut(f, mem, FALSE)
  <2>1. SUFFICES ASSUME NEW b \in DOMAIN f \ {heap_end}, b # mem, f[b].next # mem, ~f[b].used
                 PROVE  f[f[b].next].used
    BY DEF HolesBut
  <2>2. b \in DOMAIN h \ {heap_end} /\ ~h[b].used /\ f[b].next = h[b].next
    BY <1>4, <2>1
  <2>3. h[h[b].next].used /\ h[b].next \in DOMAIN h
    BY <1>1, <2>2 DEF Holes, Row
  <2>. QED
    BY <1>4, <2>1, <2>2, <2>3
<1>6. Finds(f, hid, l)
  <2>1. p.lfree \in DOMAIN h /\ (p.lfree # heap_end => ~h[p.lfree].used)
        /\ \A o \in DOMAIN h : ~h[o].used => o \in hid \/ p.lfree <= o
    BY <1>1 DEF Finds
  <2>2. PICK q \in Int : q = p.lfree
    BY <1>3, <2>1
  <2>. DEFINE m == IF mem < q THEN mem ELSE q
  <2>3. m \in DOMAIN f /\ (m # heap_end => ~f[m].used)
    BY <1>2, <1>3, <1>4, <2>1, <2>2
  <2>4. \A o \in DOMAIN f : ~f[o].used => o \in hid \/ m <= o
    BY <1>2, <1>3, <1>4, <2>1, <2>2
  <2>5. m = l
    BY <2>2
  <2>. HIDE DEF m, l
  <2>. QED
    BY <2>3, <2>4, <2>5 DEF Finds
<1>7. r = [heap |-> r.heap, lfree |-> r.lfree] /\ Plugged(f, r.heap, hid, r.lfree)
  <2>1. r = plug_holes([heap |-> f, lfree |-> l], mem)
    BY DEF f, h
  <2>2. mem \in DOMAIN f \ {heap_end} /\ ~f[mem].used
    BY <1>2, <1>4
  <2>. HIDE DEF l
  <2>. QED
    BY <1>4, <1>5, <1>6, <2>1, <2>2, PlugHoles
<1>8. HeldBy(f, k)
  <2>1. DOMAIN k = DOMAIN g \ {mem} /\ \A o \in DOMAIN k : k[o] = g[o]
    OBVIOUS
  <2>2. DOMAIN k = {o \in DOMAIN f \ {heap_end} : f[o].used}
    BY <1>1, <1>2, <1>4, <2>1 DEF HeldBy
  <2>3. \A o \in DOMAIN k : Size(f, o) = Size(h, o)
    BY <1>1, <1>4, <2>1 DEF HeldBy, Size
  <2>. QED
    BY <1>1, <2>1, <2>2, <2>3, Zenon DEF HeldBy
<1>. QED
  BY <1>4, <1>7, <1>8, SameHeld DEF Plugged, HeapHolds

\* rt_realloc to less: what is split off is joined with the free block behind it.
LEMMA ShrinkHolds ==
    ASSUME NEW p, NEW g, NEW old, HeapHolds(p, g, old), NEW mem \in DOMAIN g, NEW size \in Nat, size > 0,
           size + SIZEOF_STRUCT_MEM + MIN_SIZE < Size(p.heap, mem),
           NEW mem2, mem2 = mem + SIZEOF_STRUCT_MEM + size,
           NEW r, r = plug_holes([heap |-> Split(p.heap, mem, size), lfree |-> p.lfree], mem2),
           NEW k, k = [g EXCEPT ![mem] = size]
    PROVE  HeapHolds(r, k, old \cup {mem2})
<1>. DEFINE h == p.heap
            f == Split(h, mem, size)
            l == p.lfree
            hid == old \cup {mem2}
<1>1. Row(h) /\ Holes(h) /\ Finds(h, old, l) /\ HeldBy(h, g)
  BY DEF HeapHolds
<1>2. mem \in DOMAIN h \ {heap_end} /\ h[mem].used
  BY <1>1 DEF HeldBy
<1>3. /\ DOMAIN h \subseteq 0 .. heap_end /\ {0, heap_end} \subseteq DOMAIN h
      /\ heap_end \in Nat /\ SIZEOF_STRUCT_MEM \in Nat /\ SIZEOF_STRUCT_MEM > 0
      /\ MIN_SIZE \in Nat /\ MIN_SIZE > 0
      /\ h[mem].next \in 0 .. heap_end /\ mem \in 0 .. heap_end /\ h[mem].next \in DOMAIN h
  BY <1>1, <1>2, HeapNumbers DEF Row, HeadersOK
<1>4. mem2 + SIZEOF_STRUCT_MEM < h[mem].next
  <2>1. size + SIZEOF_STRUCT_MEM + MIN_SIZE < h[mem].next - (mem + SIZEOF_STRUCT_MEM)
    BY DEF Size
  <2>. HIDE DEF h
  <2>2. PICK n \in Int : n = h[mem].next
    BY <1>3
  <2>. QED
    BY <1>3, <2>1, <2>2
<1>5. SplitOff(h, mem, mem2, f)
  <2>. HIDE DEF h
  <2>. QED
    BY <1>1, <1>2, <1>4, RowSplit
<1>6. /\ Row(f) /\ DOMAIN f = DOMAIN h \cup {mem2} /\ mem2 \notin DOMAIN h
      /\ mem < mem2 /\ mem2 # heap_end
      /\ f[mem].used /\ f[mem].next = mem2
      /\ ~f[mem2].used /\ f[mem2].next = h[mem].next /\ f[mem2].prev = mem
      /\ \A o \in DOMAIN h \ {mem} : f[o].used = h[o].used /\ f[o].next = h[o].next
  BY <1>5, Zenon DEF SplitOff
<1>7. mem2 \in Int
  BY <1>3
<1>9. r = plug_holes([heap |-> f, lfree |-> l], mem2)
  OBVIOUS
<1>. HIDE DEF h, f, l
<1>10. HolesBut(f, mem2, FALSE)
  <2>1. SUFFICES ASSUME NEW b \in DOMAIN f \ {heap_end}, b # mem2, f[b].next # mem2, ~f[b].used
                 PROVE  f[f[b].next].used
    BY DEF HolesBut
  <2>2. b \in DOMAIN h \ {heap_end} /\ b # mem /\ ~h[b].used /\ f[b].next = h[b].next
    BY <1>6, <2>1
  <2>3. h[h[b].next].used /\ h[b].next \in DOMAIN h
    BY <1>1, <2>2 DEF Holes, Row
  <2>. QED
    BY <1>6, <2>1, <2>2, <2>3
<1>11. Finds(f, hid, l)
  <2>1. l \in DOMAIN f /\ l # mem2 /\ l # mem /\ (l # heap_end => ~f[l].used)
    BY <1>1, <1>2, <1>6 DEF Finds
  <2>2. \A o \in DOMAIN f \ {mem2} : ~f[o].used => o \in old \/ l <= o
    BY <1>1, <1>6 DEF Finds
  <2>. QED
    BY <2>1, <2>2 DEF Finds
<1>12. r = [heap |-> r.heap, lfree |-> r.lfree] /\ Plugged(f, r.heap, hid, r.lfree)
  <2>1. mem2 \in DOMAIN f \ {heap_end} /\ ~f[mem2].used
    BY <1>6
  <2>. HIDE DEF hid
  <2>. QED
    BY <1>6, <1>9, <1>10, <1>11, <2>1, PlugHoles, ZenonT(60)
<1>13. HeldBy(f, k)
  <2>1. DOMAIN k = DOMAIN g /\ k[mem] = size /\ \A o \in DOMAIN k \ {mem} : k[o] = g[o]
    OBVIOUS
  <2>2. DOMAIN k = {o \in DOMAIN f \ {heap_end} : f[o].used}
    BY <1>1, <1>2, <1>6, <2>1 DEF HeldBy
  <2>3. \A o \in DOMAIN k \ {mem} : Size(f, o) = Size(h, o)
    BY <1>1, <1>6, <2>1 DEF HeldBy, Size
  <2>4. Size(f, mem) = size
    BY <1>3, <1>6 DEF Size
  <2>5. size <= size
    OBVIOUS
  <2>. QED
    BY <1>1, <2>1, <2>2, <2>3, <2>4, <2>5, Zenon DEF HeldBy
<1>. QED
  BY <1>6, <1>12, <1>13, SameHeld DEF Plugged, HeapHolds

\* Allocated and Give, for a heap p and the blocks g the threads have.
AllocatedFrom(p, mem, n) ==
    LET k == IF Size(p.heap, mem) >= n + SIZEOF_STRUCT_MEM + MIN_SIZE
             THEN Split(p.heap, mem, n) ELSE [p.heap EXCEPT ![mem].used = TRUE]
    IN  [heap |-> k, lfree |-> IF mem = p.lfree THEN NextFree(k, mem) ELSE p.lfree]

AndGiven(g, mem, size) == [o \in DOMAIN g \cup {mem} |-> IF o = mem THEN size ELSE g[o]]

\* rt_malloc takes mem for size words, n words at least.
LEMMA MallocHolds ==
    ASSUME NEW p, NEW g, NEW hid, HeapHolds(p, g, hid), NEW mem \in DOMAIN p.heap,
           ~p.heap[mem].used, p.lfree <= mem,
           NEW n \in Nat, n > 0, NEW size \in Nat, size <= n, Size(p.heap, mem) >= n
    PROVE  HeapHolds(AllocatedFrom(p, mem, n), AndGiven(g, mem, size), hid) /\ mem \notin DOMAIN g
<1>. DEFINE k == IF Size(p.heap, mem) >= n + SIZEOF_STRUCT_MEM + MIN_SIZE
                 THEN Split(p.heap, mem, n) ELSE [p.heap EXCEPT ![mem].used = TRUE]
            r == [heap |-> k, lfree |-> IF mem = p.lfree THEN NextFree(k, mem) ELSE p.lfree]
            q == [o \in DOMAIN g \cup {mem} |-> IF o = mem THEN size ELSE g[o]]
            h == p.heap
            l == p.lfree
            mem2 == mem + SIZEOF_STRUCT_MEM + n
            large == Size(h, mem) >= n + SIZEOF_STRUCT_MEM + MIN_SIZE
<1>1. /\ Row(h) /\ Holes(h) /\ Finds(h, hid, l) /\ HeldBy(h, g)
      /\ mem \in DOMAIN h /\ ~h[mem].used /\ l <= mem
      /\ k = (IF large THEN Split(h, mem, n) ELSE [h EXCEPT ![mem].used = TRUE])
      /\ r = [heap |-> k, lfree |-> IF mem = l THEN NextFree(k, mem) ELSE l]
      /\ Size(h, mem) >= n
  BY DEF HeapHolds
<1>0. /\ q = [o \in DOMAIN g \cup {mem} |-> IF o = mem THEN size ELSE g[o]]
      /\ AllocatedFrom(p, mem, n) = r /\ AndGiven(g, mem, size) = q
  BY DEF AllocatedFrom, AndGiven
<1>. HIDE DEF h, l, k, r, q
<1>2. /\ DOMAIN h \subseteq 0 .. heap_end /\ {0, heap_end} \subseteq DOMAIN h
      /\ heap_end \in Nat /\ SIZEOF_STRUCT_MEM \in Nat /\ SIZEOF_STRUCT_MEM > 0
      /\ MIN_SIZE \in Nat /\ MIN_SIZE > 0 /\ mem # heap_end
      /\ h[mem].next \in 0 .. heap_end /\ mem \in 0 .. heap_end /\ h[mem].next \in DOMAIN h
  BY <1>1, HeapNumbers DEF Row, HeadersOK
<1>3. mem2 \in Int /\ mem < mem2
  BY <1>2
\* In both cases: mem is used and keeps n words, nothing else is taken, and
\* what is free and not mem2 was free.
<1>4. /\ Row(k) /\ DOMAIN h \subseteq DOMAIN k /\ DOMAIN k \subseteq DOMAIN h \cup {mem2}
      /\ k[mem].used /\ Size(k, mem) >= n
      /\ \A o \in DOMAIN h \ {mem} : (k[o].used <=> h[o].used) /\ k[o].next = h[o].next
      /\ mem2 \in DOMAIN k \ DOMAIN h => ~k[mem2].used /\ k[mem2].next = h[mem].next
  <2>1. CASE large
    <3>1. mem2 + SIZEOF_STRUCT_MEM < h[mem].next
      <4>1. h[mem].next - (mem + SIZEOF_STRUCT_MEM) >= n + SIZEOF_STRUCT_MEM + MIN_SIZE
        BY <2>1 DEF Size
      <4>2. PICK x \in Int : x = h[mem].next
        BY <1>2
      <4>. QED
        BY <1>2, <4>1, <4>2
    <3>2. SplitOff(h, mem, mem2, k)
      <4>1. mem2 = mem + SIZEOF_STRUCT_MEM + n /\ k = Split(h, mem, n) /\ mem \in DOMAIN h \ {heap_end}
        BY <1>1, <1>2, <2>1
      <4>. HIDE DEF mem2, large
      <4>. QED
        BY <1>1, <3>1, <4>1, RowSplit
    <3>3. /\ Row(k) /\ DOMAIN k = DOMAIN h \cup {mem2} /\ k[mem].used /\ k[mem].next = mem2
          /\ ~k[mem2].used /\ k[mem2].next = h[mem].next
          /\ \A o \in DOMAIN h \ {mem} : k[o].used = h[o].used /\ k[o].next = h[o].next
      BY <3>2, Zenon DEF SplitOff
    <3>4. Size(k, mem) >= n
      BY <1>2, <3>3 DEF Size
    <3>. QED
      BY <3>3, <3>4
  <2>2. CASE ~large
    <3>1. Marked(h, mem, TRUE, k)
      <4>1. k = [h EXCEPT ![mem].used = TRUE] /\ mem \in DOMAIN h \ {heap_end}
        BY <1>1, <1>2, <2>2
      <4>. QED
        BY <1>1, <4>1, RowUsed
    <3>2. /\ Row(k) /\ DOMAIN k = DOMAIN h /\ k[mem].used = TRUE
          /\ \A o \in DOMAIN h : k[o].next = h[o].next
          /\ \A o \in DOMAIN h \ {mem} : k[o].used = h[o].used
      BY <3>1, Zenon DEF Marked
    <3>3. Size(k, mem) >= n
      BY <1>1, <3>2 DEF Size
    <3>. QED
      BY <1>1, <3>2, <3>3
  <2>. QED
    BY <2>1, <2>2
<1>5. Holes(k)
  <2>1. SUFFICES ASSUME NEW b \in DOMAIN k \ {heap_end}, ~k[b].used
                 PROVE  k[k[b].next].used
    BY DEF Holes
  <2>2. \A o \in DOMAIN h : h[o].used => k[o].used
    BY <1>1, <1>4
  <2>3. CASE b \in DOMAIN h
    <3>1. ~h[b].used /\ k[b].next = h[b].next
      BY <1>4, <2>1, <2>3
    <3>2. h[h[b].next].used /\ h[b].next \in DOMAIN h
      BY <1>1, <2>1, <2>3, <3>1 DEF Holes, Row
    <3>. QED
      BY <2>2, <3>1, <3>2
  <2>4. CASE b \notin DOMAIN h
    <3>1. k[b].next = h[mem].next
      BY <1>4, <2>1, <2>4
    <3>2. h[h[mem].next].used
      BY <1>1, <1>2 DEF Holes
    <3>. QED
      BY <1>2, <2>2, <3>1, <3>2
  <2>. QED
    BY <2>3, <2>4
<1>6. Finds(k, hid, r.lfree)
  <2>1. /\ l \in DOMAIN h /\ (l # heap_end => ~h[l].used)
        /\ \A o \in DOMAIN h : ~h[o].used => o \in hid \/ l <= o
    BY <1>1 DEF Finds
  <2>2. l <= mem /\ l \in Int /\ mem \in Int
    BY <1>1, <1>2, <2>1
  <2>3. CASE mem = l
    <3>. DEFINE m == NextFree(k, mem)
    <3>2. mem \in DOMAIN k
      BY <1>1, <1>4
    <3>3. LowestFrom(k, mem, m)
      BY <1>4, <3>2, NextFreeIsLowest
    <3>4. r.lfree = m
      BY <1>1, <2>3
    <3>. HIDE DEF m
    <3>5. /\ m \in DOMAIN k /\ mem <= m /\ (m # heap_end => ~k[m].used)
          /\ \A o \in DOMAIN k : mem <= o /\ ~k[o].used => m <= o
      BY <3>3, Zenon DEF LowestFrom
    <3>6. m \in Int
      BY <1>2, <1>3, <1>4, <3>5
    <3>7. ASSUME NEW o \in DOMAIN k, ~k[o].used, o \notin hid
          PROVE  m <= o
      <4>1. CASE o \in DOMAIN h
        <5>1. o # mem
          BY <1>4, <3>7
        <5>2. ~h[o].used
          BY <1>4, <3>7, <4>1, <5>1
        <5>3. mem <= o
          BY <2>1, <2>3, <3>7, <4>1, <5>2
        <5>. QED
          BY <3>5, <3>7, <5>3
      <4>2. CASE o \notin DOMAIN h
        <5>1. o = mem2
          BY <1>4, <4>2
        <5>2. mem <= o
          BY <1>3, <2>2, <5>1
        <5>. QED
          BY <3>5, <3>7, <5>2
      <4>. QED
        BY <4>1, <4>2
    <3>. QED
      BY <3>4, <3>5, <3>7, Zenon DEF Finds
  <2>4. CASE mem # l
    <3>1. r.lfree = l
      BY <1>1, <2>4
    <3>2. l \in DOMAIN k /\ (l # heap_end => ~k[l].used)
      BY <1>4, <2>1, <2>4
    <3>3. ASSUME NEW o \in DOMAIN k, ~k[o].used, o \notin hid
          PROVE  l <= o
      <4>1. CASE o \in DOMAIN h
        <5>1. o # mem
          BY <1>4, <3>3
        <5>2. ~h[o].used
          BY <1>4, <3>3, <4>1, <5>1
        <5>. QED
          BY <2>1, <3>3, <4>1, <5>2
      <4>2. CASE o \notin DOMAIN h
        <5>1. o = mem2
          BY <1>4, <4>2
        <5>. QED
          BY <1>3, <2>2, <5>1
      <4>. QED
        BY <4>1, <4>2
    <3>. QED
      BY <3>1, <3>2, <3>3, Zenon DEF Finds
  <2>. QED
    BY <2>3, <2>4
<1>7. mem \notin DOMAIN g
  BY <1>1 DEF HeldBy
<1>8. HeldBy(k, q)
  <2>1. DOMAIN q = DOMAIN g \cup {mem} /\ q[mem] = size /\ \A o \in DOMAIN g : q[o] = g[o]
    BY <1>0, <1>7
  <2>2. DOMAIN q = {o \in DOMAIN k \ {heap_end} : k[o].used}
    BY <1>1, <1>2, <1>4, <2>1 DEF HeldBy
  <2>3. ASSUME NEW o \in DOMAIN g
        PROVE  q[o] \in Nat /\ q[o] <= Size(k, o)
    <3>1. o # mem /\ o \in DOMAIN h /\ g[o] \in Nat /\ g[o] <= Size(h, o)
      BY <1>1, <1>7, <2>3 DEF HeldBy
    <3>2. Size(k, o) = Size(h, o)
      BY <1>4, <3>1 DEF Size
    <3>. QED
      BY <2>1, <3>1, <3>2, Zenon
  <2>4. size <= Size(k, mem)
    <3>1. k[mem].next \in Int
      BY <1>1, <1>2, <1>4 DEF Row, HeadersOK
    <3>2. PICK x \in Int : x = Size(k, mem)
      BY <1>2, <3>1 DEF Size
    <3>. QED
      BY <1>4, <3>2
  <2>. QED
    BY <2>1, <2>2, <2>3, <2>4 DEF HeldBy
<1>9. r = [heap |-> r.heap, lfree |-> r.lfree] /\ r.heap = k
  BY <1>1
<1>. QED
  BY <1>0, <1>4, <1>5, <1>6, <1>7, <1>8, <1>9, Zenon DEF HeapHolds

-----------------------------------------------------------------------------
(* The heap: the invariant *)

\* HeapInvariant needs that a block some thread reallocates is still in use,
\* and no other thread's: rt_realloc gives the semaphore back before it frees
\* the block.
HpInv ==
    /\ HeapHolds(hp, given, hidden)
    /\ hpUser \in [HpUser -> [at : {"run", "malloc", "free"}, mem : Int, size : Nat]]
    /\ \A u \in HpUser : ~HpAt(u, "run") => /\ hpUser[u].mem \in DOMAIN given
                                            /\ hpUser[u].size \in HpSizes
    /\ \A u, v \in HpUser : /\ u # v /\ ~HpAt(u, "run") /\ ~HpAt(v, "run")
                            => hpUser[u].mem # hpUser[v].mem

\* rt_system_heap_init: one free block before the end of the heap.
LEMMA InitHeap == HeapInit => HpInv
<1>. SUFFICES ASSUME HeapInit
              PROVE  HpInv
  OBVIOUS
<1>. DEFINE h == [o \in {0, heap_end} |-> [used |-> o = heap_end, next |-> heap_end, prev |-> o]]
<1>1. /\ SIZEOF_STRUCT_MEM \in Nat /\ SIZEOF_STRUCT_MEM > 0
      /\ heap_end \in Nat /\ SIZEOF_STRUCT_MEM < heap_end
  <2>1. mem_size_aligned \in Nat /\ mem_size_aligned > 0
    BY HeapConstants
  <2>. QED
    BY <2>1, HeapNumbers DEF heap_end
<1>2. hp = [heap |-> h, lfree |-> 0] /\ given = [mem \in {} |-> 0]
      /\ hpUser = [u \in HpUser |-> HpRunning]
  BY DEF HeapInit
<1>8. /\ DOMAIN h = {0, heap_end}
      /\ ~h[0].used /\ h[0].next = heap_end /\ h[0].prev = 0
      /\ h[heap_end].used /\ h[heap_end].next = heap_end
  <2>1. 0 # heap_end
    BY <1>1
  <2>2. \A o \in {0, heap_end} : h[o] = [used |-> o = heap_end, next |-> heap_end, prev |-> o]
    BY Zenon
  <2>3. \A o \in {0, heap_end} : (h[o].used <=> o = heap_end) /\ h[o].next = heap_end /\ h[o].prev = o
    BY <2>2, Zenon
  <2>. QED
    BY <2>1, <2>3, Zenon
<1>3. Row(h)
  <2>1. HeadersOK(h)
    BY <1>1 DEF HeadersOK
  <2>. HIDE DEF h
  <2>. QED
    BY <1>1, <1>8, <2>1 DEF Row
<1>4. Holes(h) /\ Finds(h, hidden, 0)
  <2>. HIDE DEF h
  <2>. QED
    BY <1>1, <1>8 DEF Holes, Finds
<1>5. HeldBy(h, given)
  BY <1>1, <1>2 DEF HeldBy
<1>6. HeapHolds(hp, given, hidden)
  BY <1>2, <1>3, <1>4, <1>5 DEF HeapHolds
<1>7. hpUser \in [HpUser -> [at : {"run", "malloc", "free"}, mem : Int, size : Nat]]
      /\ \A u \in HpUser : HpAt(u, "run")
  BY <1>2 DEF HpRunning, HpAt
<1>. QED
  BY <1>6, <1>7 DEF HpInv

\* What a thread asks for, and what rt_malloc looks for.
LEMMA AskedFor ==
    ASSUME NEW size \in HpSizes
    PROVE  /\ size \in Nat /\ size > 0
           /\ AtLeast(size) \in Nat /\ AtLeast(size) > 0 /\ size <= AtLeast(size)
<1>1. HpSizes \subseteq 1 .. mem_size_aligned /\ mem_size_aligned \in Nat /\ MIN_SIZE \in Nat
  BY HeapConstants
<1>. QED
  BY <1>1 DEF AtLeast

\* rt_malloc: a block nobody had is the caller's.
LEMMA MallocGives ==
    ASSUME HpInv, NEW size \in HpSizes, Malloc(size), Give(size), Hidden(hidden)
    PROVE  /\ HeapHolds(hp', given', hidden') /\ DOMAIN given \subseteq DOMAIN given'
<1>. DEFINE n == AtLeast(size)
            S == Fitting(n)
            mem == Min(S)
<1>1. size \in Nat /\ size > 0 /\ n \in Nat /\ n > 0 /\ size <= n
  BY AskedFor
<1>2. S # {} /\ hp' = Allocated(mem, n)
      /\ given' = AndGiven(given, mem, size)
  BY DEF Malloc, Give, AndGiven
<1>3. HeapHolds(hp, given, hidden)
  BY DEF HpInv
<1>4. S \subseteq Nat
  <2>1. DOMAIN hp.heap \subseteq Nat
    BY <1>3, HeapNumbers DEF HeapHolds, Row, HeadersOK
  <2>. QED
    BY <2>1 DEF Fitting
<1>5. mem \in S
  BY <1>2, <1>4, LeastOfNat
<1>6. mem \in DOMAIN hp.heap /\ ~hp.heap[mem].used /\ Size(hp.heap, mem) >= n
      /\ hp.lfree <= mem
  <2>. HIDE DEF mem, n
  <2>. QED
    BY <1>5, Zenon DEF Fitting
<1>7. hp' = AllocatedFrom(hp, mem, n)
  BY <1>2, Zenon DEF Allocated, AllocatedFrom
<1>. HIDE DEF mem, n
<1>8. HeapHolds(hp', given', hidden)
  BY <1>1, <1>2, <1>3, <1>6, <1>7, MallocHolds
<1>9. HeapHolds(hp', given', hidden')
  BY <1>8, HoldsHidden DEF Hidden
<1>. QED
  BY <1>2, <1>9 DEF AndGiven

\* A block of which nobody is in rt_realloc is freed.
LEMMA FreeTakes ==
    ASSUME HpInv, NEW mem \in DOMAIN given, hp' = HeapFreed(mem), given' = Without(mem),
           Hidden(hidden)
    PROVE  HeapHolds(hp', given', hidden') /\ DOMAIN given' = DOMAIN given \ {mem}
<1>1. HeapHolds(hp, given, hidden)
  BY DEF HpInv
<1>2. /\ hp' = plug_holes([heap |-> [hp.heap EXCEPT ![mem].used = FALSE],
                           lfree |-> IF mem < hp.lfree THEN mem ELSE hp.lfree], mem)
      /\ given' = [o \in DOMAIN given \ {mem} |-> given[o]]
  BY DEF HeapFreed, Without
<1>3. HeapHolds(hp', given', hidden)
  BY <1>1, <1>2, FreeHolds
<1>. QED
  BY <1>2, <1>3, HoldsHidden DEF Hidden

\* rt_realloc to less: the block keeps its place, nobody else's is touched.
LEMMA ShrinkKeeps ==
    ASSUME HpInv, NEW u \in HpUser, ReallocShrink(u)
    PROVE  HeapHolds(hp', given', hidden') /\ DOMAIN given' = DOMAIN given /\ hpUser' = hpUser
<1>1. PICK mem \in Spare, newsize \in HpSizes :
        /\ newsize + SIZEOF_STRUCT_MEM + MIN_SIZE < Size(hp.heap, mem)
        /\ hp' = plug_holes([hp EXCEPT !.heap = Split(@, mem, newsize)],
                            mem + SIZEOF_STRUCT_MEM + newsize)
        /\ given' = [given EXCEPT ![mem] = newsize]
        /\ Hidden(hidden \cup {mem + SIZEOF_STRUCT_MEM + newsize})
  BY DEF ReallocShrink
<1>2. HeapHolds(hp, given, hidden) /\ mem \in DOMAIN given /\ newsize \in Nat /\ newsize > 0
  BY AskedFor DEF HpInv, Spare
<1>3. hp = [heap |-> hp.heap, lfree |-> hp.lfree]
  BY <1>2 DEF HeapHolds
<1>4. \A h : [hp EXCEPT !.heap = h] = [heap |-> h, lfree |-> hp.lfree]
  BY <1>3
<1>5. hp' = plug_holes([heap |-> Split(hp.heap, mem, newsize), lfree |-> hp.lfree],
                       mem + SIZEOF_STRUCT_MEM + newsize)
  BY <1>1, <1>4, Zenon
<1>6. HeapHolds(hp', given', hidden \cup {mem + SIZEOF_STRUCT_MEM + newsize})
  BY <1>1, <1>2, <1>5, ShrinkHolds
<1>7. HeapHolds(hp', given', hidden')
  BY <1>1, <1>6, HoldsHidden DEF Hidden
<1>. QED
  BY <1>1, <1>7 DEF ReallocShrink

\* Every part of rt_malloc, rt_free and rt_realloc that holds heap_sem keeps the
\* heap whole, whatever the other threads have between two parts of rt_realloc.
LEMMA NextHeap == HpInv /\ [HeapNext]_heapVars => HpInv'
<1>. SUFFICES ASSUME HpInv, [HeapNext]_heapVars
              PROVE  HpInv'
  OBVIOUS
<1>1. CASE UNCHANGED heapVars
  BY <1>1 DEF HpInv, HeapHolds, heapVars, HpAt, Row, HeadersOK, Holes, Finds, HeldBy
<1>2. ASSUME HeapNext
      PROVE  HpInv'
  <2>0. PICK u \in HpUser :
          \/ rt_malloc(u) \/ rt_free(u)
          \/ ReallocShrink(u) \/ ReallocMove(u) \/ ReallocMalloc(u) \/ ReallocFails(u)
          \/ ReallocFree(u)
    BY <1>2 DEF HeapNext
  <2>1. CASE rt_malloc(u)
    <3>1. PICK size \in HpSizes : Malloc(size) /\ Give(size) /\ Hidden(hidden)
      BY <2>1 DEF rt_malloc
    <3>2. HeapHolds(hp', given', hidden') /\ DOMAIN given \subseteq DOMAIN given'
      BY <3>1, MallocGives
    <3>. QED
      BY <2>1, <3>2 DEF rt_malloc, HpInv, HpAt
  <2>2. CASE rt_free(u)
    <3>1. PICK mem \in Spare : hp' = HeapFreed(mem) /\ given' = Without(mem) /\ Hidden(hidden)
      BY <2>2 DEF rt_free
    <3>2. mem \in DOMAIN given /\ \A v \in HpUser : ~HpAt(v, "run") => hpUser[v].mem # mem
      BY DEF Spare
    <3>3. HeapHolds(hp', given', hidden') /\ DOMAIN given' = DOMAIN given \ {mem}
      BY <3>1, <3>2, FreeTakes
    <3>. QED
      BY <2>2, <3>2, <3>3 DEF rt_free, HpInv, HpAt
  <2>3. CASE ReallocShrink(u)
    <3>1. HeapHolds(hp', given', hidden') /\ DOMAIN given' = DOMAIN given /\ hpUser' = hpUser
      BY <2>3, ShrinkKeeps
    <3>. QED
      BY <3>1 DEF HpInv, HpAt
  <2>4. CASE ReallocMove(u)
    <3>1. PICK mem \in Spare, newsize \in HpSizes :
            hpUser' = [hpUser EXCEPT ![u] = [at |-> "malloc", mem |-> mem, size |-> newsize]]
      BY <2>4 DEF ReallocMove, HpGoto
    <3>2. mem \in DOMAIN given /\ \A v \in HpUser : ~HpAt(v, "run") => hpUser[v].mem # mem
      BY DEF Spare
    <3>3. mem \in Int /\ newsize \in Nat
      BY <3>2, AskedFor, HeapNumbers DEF HpInv, HeapHolds, HeldBy, Row, HeadersOK
    <3>4. hp' = hp /\ given' = given /\ hidden' = hidden
      BY <2>4 DEF ReallocMove
    <3>. QED
      BY <3>1, <3>2, <3>3, <3>4 DEF HpInv, HpAt
  <2>5. CASE ReallocMalloc(u)
    <3>1. hpUser[u].size \in HpSizes /\ hpUser[u].mem \in DOMAIN given
      BY <2>5 DEF ReallocMalloc, HpInv, HpAt
    <3>2. HeapHolds(hp', given', hidden') /\ DOMAIN given \subseteq DOMAIN given'
      BY <2>5, <3>1, MallocGives DEF ReallocMalloc
    <3>3. /\ hpUser' \in [HpUser -> [at : {"run", "malloc", "free"}, mem : Int, size : Nat]]
          /\ hpUser'[u].mem = hpUser[u].mem /\ hpUser'[u].size = hpUser[u].size
          /\ \A v \in HpUser \ {u} : hpUser'[v] = hpUser[v]
      BY <2>5 DEF ReallocMalloc, HpGoto, HpInv
    <3>4. ~HpAt(u, "run")
      BY <2>5 DEF ReallocMalloc, HpAt
    <3>5. \A v \in HpUser : /\ ~HpAt(v, "run")' => ~HpAt(v, "run")
                            /\ hpUser'[v].mem = hpUser[v].mem /\ hpUser'[v].size = hpUser[v].size
      BY <3>3, <3>4 DEF HpAt
    <3>. QED
      BY <3>2, <3>3, <3>5, Zenon DEF HpInv
  <2>6. CASE ReallocFails(u)
    <3>1. /\ hpUser' = [hpUser EXCEPT ![u] = HpRunning] /\ hp' = hp /\ given' = given /\ hidden' = hidden
      BY <2>6 DEF ReallocFails, HpGoto
    <3>. QED
      BY <3>1 DEF HpInv, HpRunning, HpAt
  <2>7. CASE ReallocFree(u)
    <3>1. ~HpAt(u, "run") /\ hpUser[u].mem \in DOMAIN given
      BY <2>7 DEF ReallocFree, HpInv, HpAt
    <3>2. HeapHolds(hp', given', hidden') /\ DOMAIN given' = DOMAIN given \ {hpUser[u].mem}
      BY <2>7, <3>1, FreeTakes DEF ReallocFree
    <3>3. /\ hpUser' \in [HpUser -> [at : {"run", "malloc", "free"}, mem : Int, size : Nat]]
          /\ hpUser'[u] = HpRunning
          /\ \A v \in HpUser \ {u} : hpUser'[v] = hpUser[v]
      BY <2>7 DEF ReallocFree, HpGoto, HpInv, HpRunning
    <3>4. \A v \in HpUser : ~HpAt(v, "run")' => v # u /\ ~HpAt(v, "run") /\ hpUser'[v] = hpUser[v]
      BY <3>3 DEF HpAt, HpRunning
    <3>5. \A v \in HpUser : ~HpAt(v, "run")' => hpUser[v].mem # hpUser[u].mem
      BY <3>1, <3>4 DEF HpInv
    <3>. QED
      BY <3>2, <3>3, <3>4, <3>5, Zenon DEF HpInv
  <2>. QED
    BY <2>0, <2>1, <2>2, <2>3, <2>4, <2>5, <2>6, <2>7
<1>. QED
  BY <1>1, <1>2

\* The heap is a row of blocks in use and joined holes between any calls of
\* rt_malloc, rt_free and rt_realloc, lfree is a hole or the end, and the only
\* holes before it are blocks that rt_realloc split off there.
THEOREM HeapStaysWhole == HeapSpec => []HeapInvariant
<1>1. HpInv => HeapInvariant
  <2>. SUFFICES ASSUME HpInv
                PROVE  HeapInvariant
    OBVIOUS
  <2>1. /\ Row(hp.heap) /\ Holes(hp.heap) /\ Finds(hp.heap, hidden, hp.lfree)
        /\ HeldBy(hp.heap, given)
    BY DEF HpInv, HeapHolds
  <2>2. {0, heap_end} \subseteq DOMAIN hp.heap /\ DOMAIN hp.heap \subseteq 0 .. heap_end
        /\ heap_end \in Nat
    BY <2>1, HeapNumbers DEF Row, HeadersOK
  <2>3. BlocksFollow
    BY <2>1, <2>2 DEF Row, BlocksFollow, Blocks
  <2>4. HolesPlugged
    BY <2>1 DEF Holes, HolesPlugged, Blocks
  <2>5. OnlySplitsHide
    BY <2>1, <2>2 DEF Finds, OnlySplitsHide, Blocks
  <2>6. GivenInUse
    <3>1. \A mem \in DOMAIN given : Size(hp.heap, mem) \in Int
      BY <2>1, <2>2, HeapNumbers DEF Size, HeldBy, Row, HeadersOK
    <3>2. \A mem \in DOMAIN given : given[mem] \in Nat /\ given[mem] <= Size(hp.heap, mem)
      BY <2>1 DEF HeldBy
    <3>3. ASSUME NEW mem \in DOMAIN given
          PROVE  Size(hp.heap, mem) >= given[mem]
      <4>1. PICK x \in Int : x = Size(hp.heap, mem)
        BY <3>1
      <4>2. given[mem] \in Nat /\ given[mem] <= x
        BY <3>2, <4>1
      <4>. QED
        BY <4>1, <4>2
    <3>. QED
      BY <2>1, <3>3 DEF HeldBy, GivenInUse, Blocks
  <2>. QED
    BY <2>3, <2>4, <2>5, <2>6 DEF HeapInvariant
<1>2. HpInv /\ [HeapNext]_heapVars => HpInv'
  BY NextHeap
<1>. QED
  BY <1>1, InitHeap, <1>2, PTL DEF HeapSpec

=============================================================================
