-------------------------- MODULE WebhookQueue_proofs --------------------------
(***************************************************************************)
(* Proofs about WebhookQueue, for any number of jobs, sends and events and *)
(* any number of crashes: its types, that a send of the worker has its     *)
(* job, and that a queued row has an owner.                                *)
(*                                                                         *)
(* What the queue adds to WebhookDelivery leaves IInv of                   *)
(* WebhookDelivery_proofs inductive; SendHasJob ties the send of the       *)
(* worker to the active job, and OwnersInv is QueuedRowHasOwner without    *)
(* that job, which the worker's send stands for while it runs.             *)
(***************************************************************************)
EXTENDS WebhookQueue, WebhookDelivery_proofs

\* Who is still to settle the row of e.
Waits(j, e) == job[j] \in {"saving", "adding", "waiting", "stalled"} /\ jobEvent[j] = e

Sending(s, e) == Busy(s) /\ event[s] = e

Owned(e) ==
  \/ e \in orphaned
  \/ \E s \in Sends : Sending(s, e)
  \/ \E j \in Jobs : Waits(j, e)

OwnersInv == \A e \in Events : row[e] \in {"queued", "delivering"} => Owned(e)

JobTypes ==
  /\ job \in [Jobs -> JobState] /\ waiting \in Seq(Jobs)
  /\ jobEvent \in [Jobs -> Events] /\ jobUrl \in [Jobs -> Urls]
  /\ stalls \in [Jobs -> Nat] /\ orphaned \subseteq Events

QInv == IInv /\ JobTypes /\ SendHasJob

--------------------------------------------------------------------------------
(* Types and the job of the worker *)

\* What the queue's steps do to the variables of WebhookDelivery.
DeliveryStep ==
  \/ Step
  \/ UNCHANGED vars
  \/ \E j \in Jobs : EnqueueSaved(j)

LEMMA QueueSteps ==
  ASSUME QueueNext, JobTypes
  PROVE  DeliveryStep
<1>1. ASSUME NEW j \in Jobs, Take(j)
      PROVE  Step
  <2>1. jobEvent[j] \in Events /\ jobUrl[j] \in Urls /\ Worker \in Sends /\ FALSE \in BOOLEAN
    BY QueueAssumption DEF JobTypes
  <2>2. QED
    BY <1>1, <2>1 DEF Take, Step
<1>2. ASSUME NEW s \in Sends, NEW e \in Events, NEW u \in Urls, DirectCall(s, e, u)
      PROVE  Step
  BY <1>2 DEF DirectCall, Step
<1>3. ASSUME NEW s \in Sends, SendStep(s) \/ WriteLost(s)
      PROVE  Step
  BY <1>3 DEF WriteLost, Step
<1>4. QueueCrash \/ Tick => Step
  BY DEF QueueCrash, Step
<1>5. ASSUME NEW j \in Jobs,
             \/ EnqueueAdded(j) \/ EnqueueRejected(j) \/ CompleteJob(j) \/ RecoverStalled(j)
             \/ \E e \in Events, u \in Urls : Enqueue(j, e, u)
      PROVE  UNCHANGED vars
  BY <1>5 DEF EnqueueAdded, EnqueueRejected, CompleteJob, RecoverStalled, Enqueue
<1>6. QED
  BY <1>1, <1>2, <1>3, <1>4, <1>5, Zenon DEF QueueNext, QueueStep, DeliveryStep

LEMMA DeliveryInv ==
  ASSUME IInv, JobTypes, DeliveryStep
  PROVE  IInv'
<1>1. CASE Step
  BY <1>1, StepIInv
<1>2. CASE UNCHANGED vars
  BY <1>2, NextIInv
<1>3. ASSUME NEW j \in Jobs, EnqueueSaved(j)
      PROVE  IInv'
  <2>1. UNCHANGED <<pc, event, url, dated, attempt, timer, saving, failures, tripped, cooling,
                    posts, accepted, acked, failRun, forsaken>>
    BY <1>3 DEF EnqueueSaved, callVars, breakerVars, historyVars
  <2>2. row' = row \/ row' = [row EXCEPT ![jobEvent[j]] = "queued"]
    BY <1>3 DEF EnqueueSaved
  <2>3. TypeOK' /\ DeliveredRowIsTrue'
    BY <2>1, <2>2 DEF IInv, TypeOK, Status, LogInv, DeliveredRowIsTrue, JobTypes
  <2>4. LoopInv' /\ BreakerInv'
    BY <2>1 DEF IInv, LoopInv, LoopAt, Place, PostsDue, BreakerInv, BreakerAt
  <2>5. QED
    BY <2>1, <2>3, <2>4 DEF IInv, LogInv
<1>4. QED
  BY <1>1, <1>2, <1>3 DEF DeliveryStep

LEMMA TypesNext ==
  ASSUME JobTypes, TypeOK, QueueNext
  PROVE  JobTypes'
<1>1. waiting \in Seq(Jobs)
  BY DEF JobTypes
<1>2. ASSUME NEW j \in Jobs
      PROVE  Append(waiting, j) \in Seq(Jobs) /\ <<j>> \o waiting \in Seq(Jobs)
  <2>1. PICK h : h = <<j>>
    OBVIOUS
  <2>2. h \in Seq(Jobs)
    BY <2>1
  <2>3. h \o waiting \in Seq(Jobs)
    BY <1>1, <2>2
  <2>4. Append(waiting, j) \in Seq(Jobs)
    BY <1>1
  <2>5. QED
    BY <2>1, <2>3, <2>4, Zenon
<1>3. waiting # <<>> => Tail(waiting) \in Seq(Jobs)
  BY <1>1
<1> USE DEF JobTypes, JobState, Enqueuing, Held, Finished
<1>4. ASSUME NEW j \in Jobs,
             EnqueueSaved(j) \/ EnqueueRejected(j) \/ CompleteJob(j)
      PROVE  JobTypes'
  BY <1>4 DEF EnqueueSaved, EnqueueRejected, CompleteJob
<1>5. ASSUME NEW j \in Jobs, NEW e \in Events, NEW u \in Urls, Enqueue(j, e, u)
       PROVE  JobTypes'
  BY <1>5 DEF Enqueue
<1>6. ASSUME NEW j \in Jobs, EnqueueAdded(j) \/ Take(j)
      PROVE  JobTypes'
  <2>1. waiting' = Append(waiting, j) \/ (waiting # <<>> /\ waiting' = Tail(waiting))
    BY <1>6 DEF EnqueueAdded, Take
  <2>2. waiting' \in Seq(Jobs)
    BY <1>2, <1>3, <2>1, Zenon
  <2>3. /\ job' \in [Jobs -> JobState]
        /\ UNCHANGED <<jobEvent, jobUrl, stalls, orphaned>>
    BY <1>6 DEF EnqueueAdded, Take
  <2>4. QED
    BY <2>2, <2>3
<1>7. ASSUME NEW j \in Jobs, RecoverStalled(j)
      PROVE  JobTypes'
  <2>1. waiting' = <<j>> \o waiting \/ waiting' = waiting
    BY <1>7 DEF RecoverStalled
  <2>2. waiting' \in Seq(Jobs)
    BY <1>1, <1>2, <2>1, Zenon
  <2>3. job' \in [Jobs -> JobState] /\ stalls' \in [Jobs -> Nat]
    <3>1. \/ job' = [job EXCEPT ![j] = "waiting"]
          \/ job' = [job EXCEPT ![j] = "dead"]
      BY <1>7 DEF RecoverStalled
    <3>2. job' \in [Jobs -> JobState]
      BY <3>1
    <3>3. stalls' = [stalls EXCEPT ![j] = stalls[j] + 1]
      BY <1>7 DEF RecoverStalled
    <3>4. stalls' \in [Jobs -> Nat]
      BY <3>3
    <3>5. QED
      BY <3>2, <3>4
  <2>4. orphaned' \subseteq Events /\ UNCHANGED <<jobEvent, jobUrl>>
    BY <1>7 DEF RecoverStalled
  <2>5. QED
    BY <2>2, <2>3, <2>4
<1>8. CASE QueueCrash
  <2>1. orphaned' \subseteq Events
    BY <1>8 DEF QueueCrash, TypeOK
  <2>2. job' \in [Jobs -> JobState]
    BY <1>8 DEF QueueCrash
  <2>3. QED
    BY <1>8, <2>1, <2>2 DEF QueueCrash
<1>9. ASSUME NEW s \in Sends, WriteLost(s) \/ \E e \in Events, u \in Urls : DirectCall(s, e, u)
      PROVE  JobTypes'
  <2>1. event[s] \in Events
    BY DEF TypeOK
  <2>2. QED
    BY <1>9, <2>1 DEF WriteLost, DirectCall
<1>10. CASE UNCHANGED jobVars
  BY <1>10 DEF jobVars
<1>11. QED
  BY <1>4, <1>5, <1>6, <1>7, <1>8, <1>9, <1>10, Zenon DEF QueueNext, QueueStep

--------------------------------------------------------------------------------
(* Sends and jobs *)

\* A step of a send is one of a send in progress, and of no other.
LEMMA SendFrame ==
  ASSUME TypeOK, NEW s \in Sends, SendStep(s) \/ PersistFails(s)
  PROVE  /\ Busy(s) /\ event' = event /\ url' = url
         /\ \A t \in Sends : t # s => (Busy(t)' <=> Busy(t))
<1>1. CASE Persist(s) \/ PersistFails(s)
  BY <1>1 DEF Persist, PersistFails, Busy, TypeOK
<1>2. CASE CheckCircuit(s)
  BY <1>2 DEF CheckCircuit, BeginAttempt, GiveUp, Save, Busy, Running, TypeOK
<1>3. ASSUME AttemptFailed(s), pc[s] \in Running, event' = event, url' = url
      PROVE  /\ Busy(s) /\ event' = event /\ url' = url
             /\ \A t \in Sends : t # s => (Busy(t)' <=> Busy(t))
  BY <1>3 DEF AttemptFailed, GiveUp, Save, Busy, TypeOK
<1>4. CASE Post(s)
  <2>1. pc[s] \in Running /\ event' = event /\ url' = url
    BY <1>4 DEF Post, Running
  <2>2. CASE dated[s]
    BY <1>4, <2>1, <2>2 DEF Post, Busy, TypeOK
  <2>3. CASE ~dated[s]
    BY <1>3, <1>4, <2>1, <2>3 DEF Post
  <2>4. QED
    BY <2>2, <2>3
<1>5. CASE Refused(s) \/ Abort(s)
  BY <1>3, <1>5 DEF Refused, Abort, Running
<1>6. CASE Accepted(s)
  BY <1>6 DEF Accepted, Save, Busy, Running, TypeOK
<1>7. CASE Wake(s)
  BY <1>7 DEF Wake, BeginAttempt, Save, Busy, Running, TypeOK
<1>8. QED
  BY <1>1, <1>2, <1>4, <1>5, <1>6, <1>7 DEF SendStep, Proceed

LEMMA CallFrame ==
  ASSUME TypeOK, NEW s \in Sends, NEW e \in Events, NEW u \in Urls, NEW d \in BOOLEAN,
         Call(s, e, u, d)
  PROVE  /\ ~Busy(s) /\ Busy(s)' /\ event'[s] = e /\ url'[s] = u /\ row' = row
         /\ \A t \in Sends :
              t # s => (Busy(t)' <=> Busy(t)) /\ event'[t] = event[t] /\ url'[t] = url[t]
BY DEF Call, Save, Busy, Running, TypeOK

LEMMA WorkerNext ==
  ASSUME JobTypes, TypeOK, SendHasJob, QueueNext
  PROVE  SendHasJob'
<1> DEFINE HasJob == \E j \in Jobs : job[j] = "active" /\ jobEvent[j] = event[Worker]
                                      /\ jobUrl[j] = url[Worker]
<1> SUFFICES ASSUME Busy(Worker)'
             PROVE  HasJob'
  BY DEF SendHasJob
<1> USE QueueAssumption
<1>1. ASSUME Busy(Worker), event'[Worker] = event[Worker], url'[Worker] = url[Worker],
             \A k \in Jobs : job[k] = "active" =>
               job'[k] = "active" /\ jobEvent'[k] = jobEvent[k] /\ jobUrl'[k] = jobUrl[k]
      PROVE  HasJob'
  BY <1>1 DEF SendHasJob
<1>2. ASSUME NEW s \in Sends, (SendStep(s) /\ UNCHANGED jobVars) \/ WriteLost(s)
      PROVE  HasJob'
  <2>1. UNCHANGED <<job, jobEvent, jobUrl>> /\ (SendStep(s) \/ PersistFails(s))
    BY <1>2 DEF WriteLost, jobVars
  <2>2. Busy(Worker) /\ event' = event /\ url' = url
    BY <2>1, SendFrame
  <2>3. QED
    BY <1>1, <2>1, <2>2
<1>3. ASSUME NEW s \in Sends, NEW e \in Events, NEW u \in Urls, DirectCall(s, e, u)
      PROVE  HasJob'
  <2>1. Worker # s /\ Call(s, e, u, TRUE) /\ UNCHANGED <<job, jobEvent, jobUrl>>
    BY <1>3 DEF DirectCall
  <2>2. Busy(Worker) /\ event'[Worker] = event[Worker] /\ url'[Worker] = url[Worker]
    BY <2>1, CallFrame
  <2>3. QED
    BY <1>1, <2>1, <2>2
<1>4. ASSUME NEW j \in Jobs,
             \/ EnqueueSaved(j) \/ EnqueueAdded(j) \/ EnqueueRejected(j) \/ RecoverStalled(j)
             \/ \E e \in Events, u \in Urls : Enqueue(j, e, u)
      PROVE  HasJob'
  <2>1. UNCHANGED <<pc, saving, event, url>>
    BY <1>4 DEF EnqueueSaved, EnqueueAdded, EnqueueRejected, RecoverStalled, Enqueue, vars,
                callVars
  <2>2. Busy(Worker)
    BY <2>1 DEF Busy
  <2>3. \A k \in Jobs : job[k] = "active" =>
          job'[k] = "active" /\ jobEvent'[k] = jobEvent[k] /\ jobUrl'[k] = jobUrl[k]
    BY <1>4 DEF EnqueueSaved, EnqueueAdded, EnqueueRejected, RecoverStalled, Enqueue,
                JobTypes, Finished
  <2>4. QED
    BY <1>1, <2>1, <2>2, <2>3
<1>5. ASSUME NEW j \in Jobs, Take(j)
      PROVE  HasJob'
  <2>1. jobEvent[j] \in Events /\ jobUrl[j] \in Urls /\ FALSE \in BOOLEAN
    BY DEF JobTypes
  <2>2. event'[Worker] = jobEvent[j] /\ url'[Worker] = jobUrl[j]
    BY <1>5, <2>1, CallFrame DEF Take
  <2>3. QED
    BY <1>5, <2>2 DEF Take, JobTypes
<1>6. ASSUME NEW j \in Jobs, CompleteJob(j)
      PROVE  FALSE
  BY <1>6 DEF CompleteJob, vars, callVars, Busy
<1>7. ~QueueCrash
  BY DEF QueueCrash, Crash, Busy, Running
<1>8. CASE UNCHANGED jobVars /\ Tick
  BY <1>1, <1>8 DEF Tick, jobVars, Busy
<1>9. QED
  BY <1>2, <1>3, <1>4, <1>5, <1>6, <1>7, <1>8 DEF QueueNext, QueueStep

--------------------------------------------------------------------------------
(* Queued rows have owners *)

\* A step that unsettles only rows it leaves with an owner, and takes no row's
\* owner away.
LEMMA OwnersKeptBy ==
  ASSUME OwnersInv,
         \A e \in Events :
           /\ row'[e] \in {"queued", "delivering"} =>
                row[e] \in {"queued", "delivering"} \/ Owned(e)'
           /\ Owned(e) => Owned(e)' \/ row'[e] \notin {"queued", "delivering"}
  PROVE  OwnersInv'
BY DEF OwnersInv

\* A step of a send that is not the end of an awaited save settles no row.
LEMMA SendKeeps ==
  ASSUME TypeOK, NEW s \in Sends, SendStep(s), ~Persist(s)
  PROVE  Busy(s)' /\ event' = event /\ row' = row
<1>1. CASE CheckCircuit(s)
  BY <1>1 DEF CheckCircuit, BeginAttempt, GiveUp, Save, Busy, Running, TypeOK
<1>2. ASSUME AttemptFailed(s), event' = event, row' = row
      PROVE  Busy(s)' /\ event' = event /\ row' = row
  BY <1>2 DEF AttemptFailed, GiveUp, Save, Busy, Running, TypeOK
<1>3. CASE Post(s)
  <2>1. CASE dated[s]
    BY <1>3, <2>1 DEF Post, Busy, Running, TypeOK
  <2>2. CASE ~dated[s]
    BY <1>2, <1>3, <2>2 DEF Post
  <2>3. QED
    BY <2>1, <2>2
<1>4. CASE Refused(s) \/ Abort(s)
  BY <1>2, <1>4 DEF Refused, Abort
<1>5. CASE Accepted(s)
  BY <1>5 DEF Accepted, Save, Busy, Running, TypeOK
<1>6. CASE Wake(s)
  BY <1>6 DEF Wake, BeginAttempt, Save, Busy, Running, TypeOK
<1>7. QED
  BY <1>1, <1>3, <1>4, <1>5, <1>6 DEF SendStep, Proceed

LEMMA OwnersNext ==
  ASSUME PartialUpserts, TypeOK, LoopInv, JobTypes, SendHasJob, OwnersInv, QueueNext
  PROVE  OwnersInv'
<1>1. ASSUME NEW s \in Sends, SendStep(s), UNCHANGED jobVars, ~Persist(s)
      PROVE  OwnersInv'
  <2>1. Busy(s)' /\ event' = event /\ row' = row
    BY <1>1, SendKeeps
  <2>2. \A t \in Sends : Busy(t) => Busy(t)'
    BY <1>1, <2>1, SendFrame
  <2>3. \A e \in Events : Owned(e) => Owned(e)'
    BY <1>1, <2>1, <2>2 DEF Owned, Sending, Waits, jobVars
  <2>4. QED
    BY <2>1, <2>3, OwnersKeptBy
<1>2. ASSUME NEW s \in Sends, Persist(s), UNCHANGED jobVars
      PROVE  OwnersInv'
  <2>1. event' = event /\ row' = [row EXCEPT ![event[s]] = saving[s]]
    BY <1>2 DEF Persist
  <2>2. \A t \in Sends : t # s => (Busy(t)' <=> Busy(t))
    BY <1>2, SendFrame DEF SendStep, Proceed
  <2>3. saving[s] \in {"queued", "delivering"} => Busy(s)'
    <3>1. saving[s] \in {"queued", "delivering"} => pc[s] \in Running
      BY DEF LoopInv, LoopAt, Place, TypeOK, Running, Returned
    <3>2. QED
      BY <1>2, <3>1 DEF Persist, Busy
  <2>4. ASSUME NEW e \in Events, e = event[s], row'[e] \in {"queued", "delivering"}
        PROVE  Owned(e)'
    BY <2>1, <2>3, <2>4 DEF TypeOK, Owned, Sending
  <2>5. ASSUME NEW e \in Events, e # event[s]
        PROVE  row'[e] = row[e] /\ (Owned(e) => Owned(e)')
    <3>1. row'[e] = row[e]
      BY <2>1, <2>5 DEF TypeOK
    <3>2. \A t \in Sends : Sending(t, e) => Sending(t, e)'
      BY <2>1, <2>2, <2>5 DEF Sending
    <3>3. QED
      BY <1>2, <3>1, <3>2 DEF Owned, Waits, jobVars
  <2>6. QED
    BY <2>4, <2>5, OwnersKeptBy
<1>3. ASSUME NEW s \in Sends, WriteLost(s)
      PROVE  OwnersInv'
  <2>1. /\ PersistFails(s) /\ row' = row /\ event' = event /\ UNCHANGED <<job, jobEvent>>
        /\ orphaned' = IF pc[s] \in Returned THEN orphaned \cup {event[s]} ELSE orphaned
    BY <1>3 DEF WriteLost, PersistFails
  <2>2. \A t \in Sends : t # s => (Busy(t)' <=> Busy(t))
    BY <2>1, SendFrame
  <2>3. Busy(s)' \/ event[s] \in orphaned'
    <3>1. pc[s] \in Running \/ pc[s] \in Returned
      BY <2>1 DEF PersistFails, LoopInv, LoopAt, Place, TypeOK, Running, Returned
    <3>2. QED
      BY <2>1, <3>1 DEF PersistFails, Busy
  <2>4. ASSUME NEW e \in Events, Owned(e)
        PROVE  Owned(e)'
    <3>1. CASE e \in orphaned
      BY <2>1, <3>1 DEF Owned
    <3>2. ASSUME NEW t \in Sends, Sending(t, e)
          PROVE  Owned(e)'
      BY <2>1, <2>2, <2>3, <3>2 DEF Owned, Sending
    <3>3. ASSUME NEW j \in Jobs, Waits(j, e)
          PROVE  Owned(e)'
      BY <2>1, <3>3 DEF Owned, Waits
    <3>4. QED
      BY <2>4, <3>1, <3>2, <3>3 DEF Owned
  <2>5. QED
    BY <2>1, <2>4, OwnersKeptBy
\* A send that starts stands for its event.
<1>4. ASSUME NEW s \in Sends, NEW f \in Events, NEW u \in Urls, NEW d \in BOOLEAN,
             Call(s, f, u, d), orphaned \subseteq orphaned' \cup {f},
             \A j \in Jobs, e \in Events : Waits(j, e) => Waits(j, e)' \/ e = f
      PROVE  OwnersInv'
  <2>1. /\ ~Busy(s) /\ Busy(s)' /\ event'[s] = f /\ row' = row
        /\ \A t \in Sends : t # s => (Busy(t)' <=> Busy(t)) /\ event'[t] = event[t]
    BY <1>4, CallFrame
  <2>2. Owned(f)'
    BY <2>1 DEF Owned, Sending
  <2>3. \A t \in Sends, e \in Events : Sending(t, e) => Sending(t, e)'
    BY <2>1 DEF Sending
  <2>4. \A e \in Events : Owned(e) => Owned(e)'
    BY <1>4, <2>2, <2>3 DEF Owned
  <2>5. QED
    BY <2>1, <2>4, OwnersKeptBy
<1>5. ASSUME NEW s \in Sends, NEW e \in Events, NEW u \in Urls, DirectCall(s, e, u)
      PROVE  OwnersInv'
  <2>1. \A j \in Jobs, f \in Events : Waits(j, f) => Waits(j, f)'
    BY <1>5 DEF DirectCall, Waits
  <2>2. Call(s, e, u, TRUE) /\ orphaned' = orphaned \ {e} /\ TRUE \in BOOLEAN
    BY <1>5 DEF DirectCall
  <2>3. orphaned \subseteq orphaned' \cup {e}
    BY <2>2
  <2>4. QED
    BY <1>4, <2>1, <2>2, <2>3
<1>6. ASSUME NEW j \in Jobs, Take(j)
      PROVE  OwnersInv'
  <2>1. /\ jobEvent[j] \in Events /\ jobUrl[j] \in Urls /\ FALSE \in BOOLEAN
        /\ Worker \in Sends /\ Call(Worker, jobEvent[j], jobUrl[j], FALSE)
        /\ orphaned' = orphaned
    BY <1>6, QueueAssumption DEF JobTypes, Take
  <2>2. \A k \in Jobs, e \in Events : Waits(k, e) => Waits(k, e)' \/ e = jobEvent[j]
    BY <1>6 DEF Take, Waits, JobTypes
  <2>3. QED
    BY <1>4, <2>1, <2>2
\* The other steps of the queue leave the sends alone.
<1>7. ASSUME UNCHANGED <<pc, saving, event>>,
             \A e \in Events :
               row'[e] \in {"queued", "delivering"} =>
                 row[e] \in {"queued", "delivering"} \/ \E j \in Jobs : Waits(j, e)',
             \A e \in Events, j \in Jobs :
               Waits(j, e) => e \in orphaned' \/ \E k \in Jobs : Waits(k, e)',
             \A e \in Events :
               e \in orphaned => e \in orphaned' \/ \E k \in Jobs : Waits(k, e)'
      PROVE  OwnersInv'
  <2>1. \A t \in Sends, e \in Events : Sending(t, e) <=> Sending(t, e)'
    BY <1>7 DEF Sending, Busy
  <2>2. \A e \in Events : Owned(e) => Owned(e)'
    BY <1>7, <2>1 DEF Owned
  <2>3. QED
    BY <1>7, <2>2, OwnersKeptBy DEF Owned
<1>8. ASSUME NEW j \in Jobs, NEW f \in Events, NEW u \in Urls, Enqueue(j, f, u)
      PROVE  OwnersInv'
  <2>1. UNCHANGED <<pc, saving, event, row>> /\ orphaned' = orphaned \ {f}
    BY <1>8 DEF Enqueue, vars, callVars
  <2>2. Waits(j, f)' /\ \A k \in Jobs, e \in Events : Waits(k, e) => Waits(k, e)'
    BY <1>8 DEF Enqueue, Waits, JobTypes, Finished
  <2>3. QED
    BY <1>7, <2>1, <2>2
<1>9. ASSUME NEW j \in Jobs, EnqueueSaved(j)
      PROVE  OwnersInv'
  <2>1. /\ UNCHANGED <<pc, saving, event, orphaned>>
        /\ row' \in {row, [row EXCEPT ![jobEvent[j]] = "queued"]}
    BY <1>9 DEF EnqueueSaved, callVars
  <2>2. Waits(j, jobEvent[j])' /\ \A k \in Jobs, e \in Events : Waits(k, e) => Waits(k, e)'
    BY <1>9 DEF EnqueueSaved, Waits, JobTypes
  <2>3. \A e \in Events : e # jobEvent[j] => row'[e] = row[e]
    BY <2>1 DEF TypeOK
  <2>4. ASSUME NEW e \in Events, row'[e] \in {"queued", "delivering"},
               row[e] \notin {"queued", "delivering"}
        PROVE  \E k \in Jobs : Waits(k, e)'
    <3>1. e = jobEvent[j]
      BY <2>3, <2>4
    <3>2. QED
      BY <1>9, <3>1 DEF EnqueueSaved, Waits, JobTypes
  <2>5. QED
    BY <1>7, <2>1, <2>2, <2>4
<1>10. ASSUME NEW j \in Jobs, EnqueueAdded(j) \/ EnqueueRejected(j) \/ CompleteJob(j) \/ RecoverStalled(j)
       PROVE  OwnersInv'
  <2>1. UNCHANGED <<pc, saving, event, row>> /\ orphaned \subseteq orphaned'
    BY <1>10 DEF EnqueueAdded, EnqueueRejected, CompleteJob, RecoverStalled, vars, callVars
  <2>2. \A k \in Jobs, e \in Events : Waits(k, e) => Waits(k, e)' \/ e \in orphaned'
    BY <1>10 DEF EnqueueAdded, EnqueueRejected, CompleteJob, RecoverStalled, Waits, JobTypes
  <2>3. QED
    BY <1>7, <2>1, <2>2
<1>11. CASE QueueCrash
  <2>1. /\ row' = row /\ orphaned \subseteq orphaned' /\ jobEvent' = jobEvent
        /\ \A s \in Sends : Busy(s) /\ s # Worker => event[s] \in orphaned'
        /\ \A j \in Jobs : job[j] \in Enqueuing => jobEvent[j] \in orphaned'
    BY <1>11 DEF QueueCrash, Crash
  <2>2. \A j \in Jobs : /\ job[j] = "active" => job'[j] = "stalled"
                        /\ job[j] \in {"waiting", "stalled"} => job'[j] = job[j]
    BY <1>11 DEF QueueCrash, Enqueuing
  <2>3. ASSUME NEW e \in Events, Owned(e)
        PROVE  Owned(e)'
    <3>1. CASE e \in orphaned
      BY <2>1, <3>1 DEF Owned
    <3>2. ASSUME NEW t \in Sends, Sending(t, e), t # Worker
          PROVE  Owned(e)'
      BY <2>1, <3>2 DEF Owned, Sending
    <3>3. ASSUME Sending(Worker, e)
          PROVE  Owned(e)'
      <4>1. PICK j \in Jobs : job[j] = "active" /\ jobEvent[j] = e
        BY <3>3 DEF SendHasJob, Sending
      <4>2. Waits(j, e)'
        BY <2>1, <2>2, <4>1 DEF Waits
      <4>3. QED
        BY <4>2 DEF Owned
    <3>4. ASSUME NEW j \in Jobs, Waits(j, e)
          PROVE  Owned(e)'
      <4>1. CASE job[j] \in Enqueuing
        BY <2>1, <3>4, <4>1 DEF Owned, Waits
      <4>2. CASE job[j] \notin Enqueuing
        <5>1. Waits(j, e)'
          BY <2>1, <2>2, <3>4, <4>2 DEF Waits, Enqueuing
        <5>2. QED
          BY <5>1 DEF Owned
      <4>3. QED
        BY <4>1, <4>2
    <3>5. QED
      BY <2>3, <3>1, <3>2, <3>3, <3>4 DEF Owned
  <2>4. QED
    BY <2>1, <2>3, OwnersKeptBy
<1>12. CASE Tick /\ UNCHANGED jobVars
  BY <1>7, <1>12 DEF Tick, jobVars, Waits
<1>13. QED
  <2>1. ASSUME NEW s \in Sends, SendStep(s), UNCHANGED jobVars
        PROVE  OwnersInv'
    BY <1>1, <1>2, <2>1
  <2>2. QED
    BY <1>3, <1>5, <1>6, <1>8, <1>9, <1>10, <1>11, <1>12, <2>1, Zenon
       DEF QueueNext, QueueStep

--------------------------------------------------------------------------------
(* The theorems *)

LEMMA QInit == QueueInit => QInv /\ OwnersInv
<1> SUFFICES ASSUME QueueInit PROVE QInv /\ OwnersInv
  OBVIOUS
<1>1. IInv
  BY InitIInv DEF QueueInit
<1>2. JobTypes
  BY DEF QueueInit, JobTypes, JobState
<1>3. SendHasJob
  BY QueueAssumption DEF QueueInit, Init, SendHasJob, Busy, Running
<1>4. OwnersInv
  BY DEF QueueInit, Init, OwnersInv
<1>5. QED
  BY <1>1, <1>2, <1>3, <1>4 DEF QInv

LEMMA QStep == QInv /\ [QueueNext]_queueVars => QInv'
<1> SUFFICES ASSUME QInv, [QueueNext]_queueVars PROVE QInv'
  OBVIOUS
<1> USE DEF QInv
<1>1. CASE QueueNext
  <2>1. IInv'
    BY <1>1, QueueSteps, DeliveryInv
  <2>2. JobTypes'
    BY <1>1, TypesNext DEF IInv
  <2>3. SendHasJob'
    BY <1>1, WorkerNext DEF IInv
  <2>4. QED
    BY <2>1, <2>2, <2>3
<1>2. CASE UNCHANGED queueVars
  <2>1. UNCHANGED vars /\ UNCHANGED jobVars
    BY <1>2 DEF queueVars
  <2>2. IInv'
    BY <2>1, NextIInv
  <2>3. JobTypes'
    BY <2>1 DEF jobVars, JobTypes
  <2>4. SendHasJob'
    BY <2>1 DEF jobVars, vars, callVars, SendHasJob, Busy
  <2>5. QED
    BY <2>2, <2>3, <2>4
<1>3. QED
  BY <1>1, <1>2

\* The invariant of the queue, for any number of jobs, sends, events and URLs.
THEOREM QueueInvariant == QueueSpec => []QInv
BY QInit, QStep, PTL DEF QueueSpec

\* Every variable of the queue has its type.
THEOREM QueueTypeCorrect == QueueSpec => []QueueTypeOK
<1>1. QInv => QueueTypeOK
  BY DEF QInv, IInv, JobTypes, QueueTypeOK
<1>2. QED
  BY <1>1, QueueInvariant, PTL

\* process() keeps its job active for as long as its send() runs, whatever other jobs,
\* direct calls and crashes do: a send the process takes down leaves a job behind.
THEOREM SendsHaveJobs == QueueSpec => []SendHasJob
<1>1. QInv => SendHasJob
  BY DEF QInv
<1>2. QED
  BY <1>1, QueueInvariant, PTL

\* With a store that accepts partial records, the row of a queued event stays
\* unsettled only while a send or a job can settle it, but for the losses listed:
\* a direct send or an enqueue() cut short by a crash, a refused queue.add(), a
\* job failed as stalled, a result the store did not take.
THEOREM QueuedRowsHaveOwners ==
  ASSUME PartialUpserts
  PROVE  QueueSpec => []QueuedRowHasOwner
<1>1. QInv /\ OwnersInv /\ [QueueNext]_queueVars => OwnersInv'
  <2> SUFFICES ASSUME QInv, OwnersInv, [QueueNext]_queueVars PROVE OwnersInv'
    OBVIOUS
  <2>1. CASE QueueNext
    BY <2>1, OwnersNext DEF QInv, IInv
  <2>2. CASE UNCHANGED queueVars
    BY <2>2 DEF queueVars, vars, callVars, jobVars, OwnersInv, Owned, Sending, Waits, Busy
  <2>3. QED
    BY <2>1, <2>2
<1>2. OwnersInv => QueuedRowHasOwner
  BY DEF OwnersInv, Owned, Sending, Waits, QueuedRowHasOwner, Enqueuing, Held
<1>3. QED
  BY <1>1, <1>2, QInit, QueueInvariant, PTL DEF QueueSpec

--------------------------------------------------------------------------------
(* What send() promises it promises to the queue's worker, too *)

\* Beside a worker whose jobs crashes repeat: a send that failed made its attempts and one
\* that succeeded was accepted, no row reads 'delivered' without an acceptance, and a
\* circuit trips only after Threshold failed sends in a row.
THEOREM QueueKeepsResults ==
  QueueSpec => [](ResultIsEarned /\ DeliveredRowIsTrue /\ TripNeedsFailedSends)
<1>1. IInv => ResultIsEarned
  BY DEF IInv, TypeOK, LoopInv, LoopAt, Place, PostsDue, ResultIsEarned
<1>2. IInv => DeliveredRowIsTrue /\ TripNeedsFailedSends
  BY DEF IInv, LogInv, BreakerInv, BreakerAt, TripNeedsFailedSends
<1>3. QInv => IInv
  BY DEF QInv
<1>4. QED
  BY <1>1, <1>2, <1>3, QueueInvariant, PTL

\* The worker's sends, like those of application code, do not join the ones that may still
\* post to a URL whose circuit stays open.
THEOREM QueueTrafficDiesOut == QueueSpec => NoNewTrafficWhileOpen
<1>1. QInv /\ [QueueNext]_queueVars =>
        [\A u \in Urls : Open(u) /\ Open(u)' => Attempting(u)' \subseteq Attempting(u)]_vars
  <2> SUFFICES ASSUME QInv, QueueNext, NEW u \in Urls, Open(u)
               PROVE  Attempting(u)' \subseteq Attempting(u)
    BY DEF queueVars
  <2>1. TypeOK /\ DeliveryStep
    BY QueueSteps DEF QInv, IInv
  <2>2. CASE Step
    <3>1. \A t \in Attempting(u)' : t \in Sends
      BY DEF Attempting
    <3>2. QED
      BY <2>1, <2>2, <3>1, TrafficStep
  <2>3. CASE ~Step
    BY <2>1, <2>3 DEF DeliveryStep, EnqueueSaved, vars, callVars, Attempting
  <2>4. QED
    BY <2>2, <2>3
<1>2. QED
  BY <1>1, QueueInvariant, PTL DEF QueueSpec, NoNewTrafficWhileOpen

\* Application code and the worker see of send() what DeliveryPromise allows, whatever the
\* queue does with the jobs.
THEOREM QueueKeepsPromise == QueueSpec => Promise!PSafety
<1>1. QueueInit => Promise!PInit
  BY DEF QueueInit, Init, Promise!PInit, Phase, Busy, Running
<1>2. QInv /\ [QueueNext]_queueVars => [Promise!PNext]_(Promise!pvars)
  <2> SUFFICES ASSUME QInv, [QueueNext]_queueVars
               PROVE  [Promise!PNext]_(Promise!pvars)
    OBVIOUS
  <2>1. CASE QueueNext
    <3>1. TypeOK /\ LoopInv /\ DeliveryStep
      BY <2>1, QueueSteps DEF QInv, IInv
    <3>2. CASE Step
      BY <3>1, <3>2, PromiseStep
    <3>3. CASE ~Step
      BY <3>1, <3>3 DEF DeliveryStep, EnqueueSaved, vars, callVars, historyVars, Promise!pvars,
        Phase, Busy
    <3>4. QED
      BY <3>2, <3>3
  <2>2. CASE UNCHANGED queueVars
    BY <2>2 DEF queueVars, vars, callVars, historyVars, Promise!pvars, Phase, Busy
  <2>3. QED
    BY <2>1, <2>2
<1>3. QED
  BY <1>1, <1>2, QueueInvariant, PTL DEF QueueSpec, Promise!PSafety

============================================================================
