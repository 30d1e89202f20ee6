----------------------------- MODULE WebhookQueue -----------------------------
(***************************************************************************)
(* Webhooks sent through the BullMQ queue: WebhookQueueService.enqueue()   *)
(* writes the row and adds a job; the one worker of the process            *)
(* (WebhookProcessor) takes jobs in order and runs send() for each, beside *)
(* the send() calls application code makes.  Redis survives a crash: a job *)
(* that was active is found stalled and put back, at most MaxStalled times.*)
(***************************************************************************)
EXTENDS WebhookDelivery, Sequences

CONSTANTS
  Jobs,         \* job records; a finished one is reused, which bounds the queue
  Worker,       \* the send() call the worker makes
  MaxStalled    \* BullMQ's maxStalledCount

ASSUME QueueAssumption == Worker \in Sends /\ MaxStalled \in Nat

VARIABLES
  job,          \* job[j]: where job j is
  waiting,      \* the queue's waiting list
  jobEvent,     \* jobEvent[j], jobUrl[j]: job.data
  jobUrl,
  stalls,       \* stalls[j]: how often job j was found stalled
  orphaned      \* history: events whose row nothing has to settle any more

jobVars   == <<job, waiting, jobEvent, jobUrl, stalls, orphaned>>
queueVars == <<vars, jobVars>>

\* enqueue() in progress, in Redis, and finished.
Enqueuing == {"saving", "adding"}
Held      == {"waiting", "active", "stalled"}
Finished  == {"completed", "dead"}

JobState == {"none"} \cup Enqueuing \cup Held \cup Finished

--------------------------------------------------------------------------------
(* WebhookQueueService.enqueue() *)

Enqueue(j, e, u) ==
  /\ job[j] \in {"none"} \cup Finished
  /\ job' = [job EXCEPT ![j] = "saving"]
  /\ jobEvent' = [jobEvent EXCEPT ![j] = e]
  /\ jobUrl' = [jobUrl EXCEPT ![j] = u]
  /\ stalls' = [stalls EXCEPT ![j] = 0]
  /\ orphaned' = orphaned \ {e}
  /\ UNCHANGED <<vars, waiting>>

\* Mutant: the row gets BullMQ's name of the state and not the log's.
EnqueueSavedAsWaiting(j) ==
  /\ job[j] = "saving"
  /\ job' = [job EXCEPT ![j] = "adding"]
  /\ row' \in {row, [row EXCEPT ![jobEvent[j]] = "waiting"]}
  /\ UNCHANGED <<callVars, breakerVars, historyVars, waiting, jobEvent, jobUrl,
                 stalls, orphaned>>

\* The upsert of the full record resolves; or rejects, which is logged only.
EnqueueSaved(j) ==
  /\ job[j] = "saving"
  /\ job' = [job EXCEPT ![j] = "adding"]
  /\ row' \in {row, [row EXCEPT ![jobEvent[j]] = "queued"]}
  /\ UNCHANGED <<callVars, breakerVars, historyVars, waiting, jobEvent, jobUrl,
                 stalls, orphaned>>

\* queue.add() ...
EnqueueAdded(j) ==
  /\ job[j] = "adding"
  /\ job' = [job EXCEPT ![j] = "waiting"]
  /\ waiting' = Append(waiting, j)
  /\ UNCHANGED <<vars, jobEvent, jobUrl, stalls, orphaned>>

\* ... or its rejection, which enqueue() passes on, leaving the row behind.
EnqueueRejected(j) ==
  /\ job[j] = "adding"
  /\ job' = [job EXCEPT ![j] = "none"]
  /\ orphaned' = orphaned \cup {jobEvent[j]}
  /\ UNCHANGED <<vars, waiting, jobEvent, jobUrl, stalls>>

--------------------------------------------------------------------------------
(* The worker. *)

\* process(): job.data is what JSON made of the event, so its timestamp is a
\* string and no longer a Date.
Take(j) ==
  /\ ~Busy(Worker) /\ \A k \in Jobs : job[k] # "active"
  /\ waiting # <<>> /\ Head(waiting) = j
  /\ waiting' = Tail(waiting)
  /\ job' = [job EXCEPT ![j] = "active"]
  /\ Call(Worker, jobEvent[j], jobUrl[j], FALSE)
  /\ UNCHANGED <<jobEvent, jobUrl, stalls, orphaned>>

\* Mutant: process() does not await send().
CompleteJobAtOnce(j) ==
  /\ job[j] = "active"
  /\ job' = [job EXCEPT ![j] = "completed"]
  /\ UNCHANGED <<vars, waiting, jobEvent, jobUrl, stalls, orphaned>>

\* Mutant: a failed send() is not the end of the job.
CompleteJobIfDelivered(j) ==
  /\ job[j] = "active" /\ ~Busy(Worker) /\ pc[Worker] = "delivered"
  /\ job' = [job EXCEPT ![j] = "completed"]
  /\ UNCHANGED <<vars, waiting, jobEvent, jobUrl, stalls, orphaned>>

\* send() never throws, so whatever it returned the job has completed.
CompleteJob(j) ==
  /\ job[j] = "active" /\ ~Busy(Worker)
  /\ job' = [job EXCEPT ![j] = "completed"]
  /\ UNCHANGED <<vars, waiting, jobEvent, jobUrl, stalls, orphaned>>

--------------------------------------------------------------------------------
(* Crash and recovery. *)

\* The process dies; Redis keeps the jobs it holds.
QueueCrash ==
  /\ Crash
  /\ job' = [j \in Jobs |-> CASE job[j] \in Enqueuing -> "none"
                              [] job[j] = "active"    -> "stalled"
                              [] OTHER                -> job[j]]
  /\ orphaned' = orphaned
       \cup {event[s] : s \in {t \in Sends \ {Worker} : Busy(t)}}
       \cup {jobEvent[j] : j \in {k \in Jobs : job[k] \in Enqueuing}}
  /\ UNCHANGED <<waiting, jobEvent, jobUrl, stalls>>

\* The stalled-job check puts the job back at the front, or fails it for good.
RecoverStalled(j) ==
  /\ job[j] = "stalled"
  /\ stalls' = [stalls EXCEPT ![j] = @ + 1]
  /\ IF stalls[j] < MaxStalled
     THEN /\ job' = [job EXCEPT ![j] = "waiting"]
          /\ waiting' = <<j>> \o waiting
          /\ UNCHANGED orphaned
     ELSE /\ job' = [job EXCEPT ![j] = "dead"]
          /\ orphaned' = orphaned \cup {jobEvent[j]}
          /\ UNCHANGED waiting
  /\ UNCHANGED <<vars, jobEvent, jobUrl>>

--------------------------------------------------------------------------------
QueueInit ==
  /\ Init
  /\ job = [j \in Jobs |-> "none"]
  /\ waiting = <<>>
  /\ jobEvent \in [Jobs -> Events] /\ jobUrl \in [Jobs -> Urls]
  /\ stalls = [j \in Jobs |-> 0]
  /\ orphaned = {}

\* send() called by application code.
DirectCall(s, e, u) ==
  /\ s # Worker
  /\ Call(s, e, u, TRUE)
  /\ orphaned' = orphaned \ {e}
  /\ UNCHANGED <<job, waiting, jobEvent, jobUrl, stalls>>

QueueStep(j) == Take(j) \/ CompleteJob(j) \/ RecoverStalled(j)

\* The store loses a write of a send; only that of a result matters.
WriteLost(s) ==
  /\ PersistFails(s)
  /\ orphaned' = IF pc[s] \in Returned THEN orphaned \cup {event[s]} ELSE orphaned
  /\ UNCHANGED <<job, waiting, jobEvent, jobUrl, stalls>>

QueueNext ==
  \/ (\E s \in Sends : SendStep(s)) /\ UNCHANGED jobVars
  \/ \E s \in Sends : WriteLost(s)
  \/ \E s \in Sends, e \in Events, u \in Urls : DirectCall(s, e, u)
  \/ \E j \in Jobs, e \in Events, u \in Urls : Enqueue(j, e, u)
  \/ \E j \in Jobs : EnqueueSaved(j) \/ EnqueueAdded(j) \/ EnqueueRejected(j)
  \/ \E j \in Jobs : QueueStep(j)
  \/ Tick /\ UNCHANGED jobVars
  \/ QueueCrash

QueueSpec == QueueInit /\ [][QueueNext]_queueVars

\* As for WebhookDelivery, and BullMQ keeps serving its queue.
QueueFairness ==
  /\ WF_queueVars(Tick /\ UNCHANGED jobVars)
  /\ WF_queueVars(Proceed(Worker) /\ UNCHANGED jobVars)
  /\ \A j \in Jobs : WF_queueVars(QueueStep(j))

FairQueueSpec == QueueSpec /\ QueueFairness

--------------------------------------------------------------------------------
(* Properties *)

QueueTypeOK ==
  /\ TypeOK
  /\ job \in [Jobs -> JobState]
  /\ waiting \in Seq(Jobs)
  /\ jobEvent \in [Jobs -> Events] /\ jobUrl \in [Jobs -> Urls]
  /\ stalls \in [Jobs -> Nat]
  /\ orphaned \subseteq Events

\* While the worker sends, Redis holds the job of that very event and URL as active:
\* process() does not return before send() has, so at whatever await the process dies
\* there is a job left to be found stalled and sent again.
SendHasJob ==
  Busy(Worker) =>
    \E j \in Jobs :
      job[j] = "active" /\ jobEvent[j] = event[Worker] /\ jobUrl[j] = url[Worker]

\* The row of a queued event survives restarts unsettled only while a send or a
\* job in Redis can still settle it; what is lost is exactly: a direct send or an
\* enqueue() cut short by a crash, a refused queue.add(), a job failed as stalled,
\* a result the store did not take.
QueuedRowHasOwner ==
  \A e \in Events :
    row[e] \in {"queued", "delivering"} =>
      \/ e \in orphaned
      \/ \E s \in Sends : Busy(s) /\ event[s] = e
      \/ \E j \in Jobs : job[j] \in Enqueuing \cup Held /\ jobEvent[j] = e

\* A job that reached Redis finishes, although the process may crash again and
\* again while it runs: redelivery is bounded.
JobFinishes == \A j \in Jobs : job[j] = "waiting" ~> job[j] \in Finished

\* README: the queue is for "delivery that survives restarts".  A job whose send
\* ran out of retries has at least asked the receiver.
WorkerAsksReceiver ==
  pc[Worker] = "failed" /\ MaxRetries > 0 => posts[Worker] > 0
=============================================================================
