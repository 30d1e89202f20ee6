--------------------------- MODULE NotificationQueue ---------------------------
(***************************************************************************)
(* Notifications of one channel: calls of send() and enqueue(), and the    *)
(* queue's workers, which try the channel's providers in turn and keep the *)
(* notification's row in the log.  Every call draws an id of its own, so   *)
(* the call is named by the notification.  A worker whose job has stalled  *)
(* may be dead or only slow: then it goes on beside the one that was given *)
(* the job next.                                                           *)
(***************************************************************************)
EXTENDS Integers

CONSTANTS
  Notes,        \* notifications, and the calls that send or queue them
  Workers,      \* one per process, with BullMQ's default concurrency of 1
  Nobody,       \* no worker
  Providers,    \* how many providers the channel has
  Attempts,     \* attempts of the queue's defaultJobOptions
  MaxStalled    \* BullMQ's maxStalledCount

\* Without a provider send() and enqueue() return before they touch anything.
ASSUME NotificationAssumption ==
  /\ Providers \in Nat \ {0} /\ Attempts \in Nat \ {0} /\ MaxStalled \in Nat
  /\ Notes \cap Workers = {} /\ Nobody \notin Notes \cup Workers

VARIABLES
  row,       \* row[n]: status in the log, "none" before the insert
  job,       \* job[n]: state of n's job in BullMQ
  owner,     \* owner[n]: the worker that holds the lock of an active job
  thrown,    \* thrown[n]: attempts of the job that threw
  stalls,    \* stalls[n]: how often the job was found stalled
  expired,   \* expired[n]: expiresAt has passed
  run,       \* run[r]: where call or worker r is, with its locals
  accepted,  \* history: how often a provider took n over (2: or more)
  tried,     \* history: providers asked to send n
  again,     \* history: n's job was given to a worker more than once
  unheard,   \* history: a provider took n over and its answer was lost
  forsaken   \* history: someone in charge of n died or failed, with no retry left

jobVars  == <<job, owner, thrown, stalls>>
history  == <<accepted, tried, again, unheard, forsaken>>
vars     == <<row, jobVars, expired, run, history>>

Runners == Notes \cup Workers
Settled == {"sent", "failed", "expired"}
Status  == Settled \cup {"pending", "sending"}
Idle    == [at |-> "idle"]

RunState ==
  {Idle}
  \cup [at : {"inserting"}, note : Notes, status : {"pending", "sending"}]
  \cup [at : {"adding", "rendering", "marking", "completing"}, note : Notes]
  \cup [at : {"asking"}, note : Notes, provider : 1..Providers]
  \cup [at : {"recording"}, note : Notes, status : Settled]

At(r, step) == run[r].at = step
Note(r) == run[r].note
Become(r, state) == run' = [run EXCEPT ![r] = state]

Asking(n, provider) == [at |-> "asking", note |-> n, provider |-> provider]
Recording(n, status) == [at |-> "recording", note |-> n, status |-> status]

\* Mutants of the two that follow: the loop has no end; ends in a success; ends early.
AfterFailureEndless(r) == Asking(Note(r), run[r].provider + 1)
AfterFailureSent(r) ==
  IF run[r].provider < Providers THEN Asking(Note(r), run[r].provider + 1)
  ELSE Recording(Note(r), "sent")
AfterFailureEarly(r) == Recording(Note(r), "failed")

\* The loop over the providers goes on, or ends ...
AfterFailure(r) ==
  IF run[r].provider < Providers THEN Asking(Note(r), run[r].provider + 1)
  ELSE Recording(Note(r), "failed")

\* Mutant: no return from the loop.
AfterSuccessOn(r) == AfterFailure(r)

\* ... and a success ends it at once.
AfterSuccess(r) == Recording(Note(r), "sent")

--------------------------------------------------------------------------------
(* Calls. *)

\* send(), and enqueue() where no queue is configured.
Send(n) ==
  /\ At(n, "idle") /\ row[n] = "none"
  /\ Become(n, [at |-> "inserting", note |-> n, status |-> "sending"])
  /\ UNCHANGED <<row, jobVars, expired, history>>

Enqueue(n) ==
  /\ At(n, "idle") /\ row[n] = "none"
  /\ Become(n, [at |-> "inserting", note |-> n, status |-> "pending"])
  /\ UNCHANGED <<row, jobVars, expired, history>>

Insert(n) ==
  /\ At(n, "inserting")
  /\ row' = [row EXCEPT ![n] = run[n].status]
  /\ Become(n, IF run[n].status = "sending"
               THEN Asking(n, 1)
               ELSE [at |-> "adding", note |-> n])
  /\ UNCHANGED <<jobVars, expired, history>>

\* The queue takes the job, named by the notification's id.
Add(n) ==
  /\ At(n, "adding")
  /\ job' = [job EXCEPT ![n] = "waiting"]
  /\ Become(n, Idle)
  /\ UNCHANGED <<row, owner, thrown, stalls, expired, history>>

--------------------------------------------------------------------------------
(* The providers are asked, by a call or a worker; they catch what they throw. *)

Asked(r) == tried' = [tried EXCEPT ![Note(r)] = @ \cup {run[r].provider}]
TakenOver(r) == accepted' = [accepted EXCEPT ![Note(r)] = IF @ < 2 THEN @ + 1 ELSE @]

Accepted(r) ==
  /\ At(r, "asking")
  /\ Asked(r) /\ TakenOver(r)
  /\ Become(r, AfterSuccess(r))
  /\ UNCHANGED <<row, jobVars, expired, again, unheard, forsaken>>

Refused(r) ==
  /\ At(r, "asking")
  /\ Asked(r)
  /\ Become(r, AfterFailure(r))
  /\ UNCHANGED <<row, jobVars, expired, accepted, again, unheard, forsaken>>

\* The message went out, but the connection broke before the answer.
AnswerLost(r) ==
  /\ At(r, "asking")
  /\ Asked(r) /\ TakenOver(r)
  /\ unheard' = [unheard EXCEPT ![Note(r)] = TRUE]
  /\ Become(r, AfterFailure(r))
  /\ UNCHANGED <<row, jobVars, expired, again, forsaken>>

\* Mutant: failures are not recorded.
RecordSuccess(r) ==
  /\ At(r, "recording")
  /\ row' = [row EXCEPT ![Note(r)] = IF run[r].status = "failed" THEN @ ELSE run[r].status]
  /\ Become(r, IF r \in Notes THEN Idle ELSE [at |-> "completing", note |-> Note(r)])
  /\ UNCHANGED <<jobVars, expired, history>>

\* The outcome goes into the log.  A call returns then, a worker is done with the job.
Record(r) ==
  /\ At(r, "recording")
  /\ row' = [row EXCEPT ![Note(r)] = run[r].status]
  /\ Become(r, IF r \in Notes THEN Idle ELSE [at |-> "completing", note |-> Note(r)])
  /\ UNCHANGED <<jobVars, expired, history>>

--------------------------------------------------------------------------------
(* Workers: processJob(). *)

\* Mutant: a job that has expired leaves no trace.
TakeSilently(w, n) ==
  /\ At(w, "idle") /\ job[n] = "waiting"
  /\ job' = [job EXCEPT ![n] = "active"]
  /\ owner' = [owner EXCEPT ![n] = w]
  /\ again' = [again EXCEPT ![n] = @ \/ thrown[n] + stalls[n] > 0]
  /\ Become(w, [at |-> IF expired[n] THEN "completing" ELSE "rendering", note |-> n])
  /\ UNCHANGED <<row, thrown, stalls, expired, accepted, tried, unheard, forsaken>>

\* BullMQ gives the worker a job.  If it has expired, it is only recorded.
Take(w, n) ==
  /\ At(w, "idle") /\ job[n] = "waiting"
  /\ job' = [job EXCEPT ![n] = "active"]
  /\ owner' = [owner EXCEPT ![n] = w]
  /\ again' = [again EXCEPT ![n] = @ \/ thrown[n] + stalls[n] > 0]
  /\ Become(w, IF expired[n] THEN Recording(n, "expired")
               ELSE [at |-> "rendering", note |-> n])
  /\ UNCHANGED <<row, thrown, stalls, expired, accepted, tried, unheard, forsaken>>

\* The template is rendered, for the second time.
Render(w) ==
  /\ At(w, "rendering")
  /\ Become(w, [at |-> "marking", note |-> Note(w)])
  /\ UNCHANGED <<row, jobVars, expired, history>>

Mark(w) ==
  /\ At(w, "marking")
  /\ row' = [row EXCEPT ![Note(w)] = "sending"]
  /\ Become(w, Asking(Note(w), 1))
  /\ UNCHANGED <<jobVars, expired, history>>

\* processJob() has returned: BullMQ completes the job, if the worker still holds it.
Complete(w) ==
  /\ At(w, "completing")
  /\ IF owner[Note(w)] = w
     THEN /\ job' = [job EXCEPT ![Note(w)] = "completed"]
          /\ owner' = [owner EXCEPT ![Note(w)] = Nobody]
     ELSE UNCHANGED <<job, owner>>
  /\ Become(w, Idle)
  /\ UNCHANGED <<row, thrown, stalls, expired, history>>

--------------------------------------------------------------------------------
(* Failures. *)

\* A write of the log, the queue or the template rejects, and the call or job throws.
\* BullMQ tries a job again as often as its attempts allow.
Throws(r) ==
  /\ run[r].at \in {"inserting", "adding", "rendering", "marking", "recording"}
  /\ LET n == Note(r)
         held == r \in Workers /\ owner[n] = r
         retry == held /\ thrown[n] + 1 < Attempts
     IN  /\ job' = IF held THEN [job EXCEPT ![n] = IF retry THEN "waiting" ELSE "failed"] ELSE job
         /\ owner' = IF held THEN [owner EXCEPT ![n] = Nobody] ELSE owner
         /\ thrown' = IF held THEN [thrown EXCEPT ![n] = @ + 1] ELSE thrown
         /\ forsaken' = [forsaken EXCEPT ![n] = @ \/ ~(retry \/ At(r, "inserting"))]
  /\ Become(r, Idle)
  /\ UNCHANGED <<row, stalls, expired, accepted, tried, again, unheard>>

\* The process of r dies.  A job it holds stays active until it is found stalled.
Crash(r) ==
  /\ ~At(r, "idle")
  /\ LET n == Note(r)
     IN  forsaken' = [forsaken EXCEPT ![n] = @ \/ ~(At(r, "inserting") \/ owner[n] = r)]
  /\ Become(r, Idle)
  /\ UNCHANGED <<row, jobVars, expired, accepted, tried, again, unheard>>

\* The lock of an active job has run out: it is queued once more, or fails.
Stall(n) ==
  /\ job[n] = "active"
  /\ job' = [job EXCEPT ![n] = IF stalls[n] < MaxStalled THEN "waiting" ELSE "failed"]
  /\ stalls' = [stalls EXCEPT ![n] = IF @ < MaxStalled THEN @ + 1 ELSE @]
  /\ owner' = [owner EXCEPT ![n] = Nobody]
  /\ forsaken' = [forsaken EXCEPT ![n] = @ \/ stalls[n] = MaxStalled]
  /\ UNCHANGED <<row, thrown, expired, run, accepted, tried, again, unheard>>

Working(w, n) == ~At(w, "idle") /\ Note(w) = n

\* The process that held the lock is gone, so nobody renews it.
RecoverStalled(n) ==
  /\ job[n] = "active" /\ ~Working(owner[n], n)
  /\ Stall(n)

\* The process that holds the lock is too slow to renew it, and goes on all the same.
LoseLock(n) ==
  /\ job[n] = "active" /\ Working(owner[n], n)
  /\ Stall(n)

Expire(n) ==
  /\ ~expired[n]
  /\ expired' = [expired EXCEPT ![n] = TRUE]
  /\ UNCHANGED <<row, jobVars, run, history>>

--------------------------------------------------------------------------------
Init ==
  /\ row = [n \in Notes |-> "none"]
  /\ job = [n \in Notes |-> "none"] /\ owner = [n \in Notes |-> Nobody]
  /\ thrown = [n \in Notes |-> 0] /\ stalls = [n \in Notes |-> 0]
  /\ expired = [n \in Notes |-> FALSE]
  /\ run = [r \in Runners |-> Idle]
  /\ accepted = [n \in Notes |-> 0] /\ tried = [n \in Notes |-> {}]
  /\ again = [n \in Notes |-> FALSE] /\ unheard = [n \in Notes |-> FALSE]
  /\ forsaken = [n \in Notes |-> FALSE]

Answer(r) == Accepted(r) \/ Refused(r) \/ AnswerLost(r)

\* A call or job goes on when what it awaits has resolved.
Proceed(r) ==
  \/ Answer(r) \/ Record(r)
  \/ r \in Notes /\ (Insert(r) \/ Add(r))
  \/ r \in Workers /\ (Render(r) \/ Mark(r) \/ Complete(r))

Next ==
  \/ \E n \in Notes : Send(n) \/ Enqueue(n) \/ RecoverStalled(n) \/ LoseLock(n) \/ Expire(n)
  \/ \E w \in Workers, n \in Notes : Take(w, n)
  \/ \E r \in Runners : Proceed(r) \/ Throws(r) \/ Crash(r)

\* What a call awaits resolves or rejects in the end, BullMQ hands waiting jobs to idle
\* workers, and finds the jobs of dead ones.
Fairness ==
  /\ \A r \in Runners : WF_vars(Proceed(r))
  /\ \A n \in Notes : WF_vars(RecoverStalled(n)) /\ WF_vars(\E w \in Workers : Take(w, n))

Spec == Init /\ [][Next]_vars /\ Fairness

--------------------------------------------------------------------------------
(* Properties *)

TypeOK ==
  /\ row \in [Notes -> Status \cup {"none"}]
  /\ job \in [Notes -> {"none", "waiting", "active", "completed", "failed"}]
  /\ owner \in [Notes -> Workers \cup {Nobody}]
  /\ thrown \in [Notes -> 0..Attempts] /\ stalls \in [Notes -> 0..MaxStalled]
  /\ expired \in [Notes -> BOOLEAN]
  /\ run \in [Runners -> RunState]
  /\ accepted \in [Notes -> 0..2] /\ tried \in [Notes -> SUBSET (1..Providers)]
  /\ again \in [Notes -> BOOLEAN] /\ unheard \in [Notes -> BOOLEAN]
  /\ forsaken \in [Notes -> BOOLEAN]

\* A row reads 'sent' only if a provider took the notification over, whichever of
\* several workers on one job wrote it last.
SentIsTrue == \A n \in Notes : row[n] = "sent" => accepted[n] > 0

\* A recipient gets a notification once: a provider that took it over is the last one
\* asked, unless its answer was lost or the queue ran the job again.
SentOnce == \A n \in Notes : ~again[n] /\ ~unheard[n] => accepted[n] <= 1

\* A row reads 'failed' only if every provider of the channel was asked.
FailedWasTried == \A n \in Notes : row[n] = "failed" => tried[n] = 1..Providers

\* Someone is in charge of every row that is not settled: a call or worker at
\* work on it, or a job that is yet to run, unless the last in charge died or failed.
UnsettledHasOwner ==
  \A n \in Notes :
    row[n] \in {"pending", "sending"} /\ ~forsaken[n] =>
      job[n] \in {"waiting", "active"} \/ \E r \in Runners : Working(r, n)

\* A row gets settled and stays so, however often workers crash, unless
\* someone in charge died or failed with no retry left.
RowsSettle ==
  \A n \in Notes : row[n] # "none" ~> [](row[n] \in Settled \/ forsaken[n])
=============================================================================
