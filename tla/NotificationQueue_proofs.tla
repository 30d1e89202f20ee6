------------------------ MODULE NotificationQueue_proofs ------------------------
(***************************************************************************)
(* Proofs about NotificationQueue for every set of notifications and       *)
(* workers and any number of providers, attempts and stalls.  Three facts  *)
(* carry them: a run at its k-th provider has asked the k-1 before it; a   *)
(* notification nobody has given up is waiting, held by a dead worker or   *)
(* in the hands of a run that has not yet recorded its outcome; and while  *)
(* no answer is lost and no job run again, at most one request may still   *)
(* ask for a notification, and none once a provider has taken it over.     *)
(***************************************************************************)
EXTENDS NotificationQueue, TLAPS

\* Calls and workers are at steps of their own; a call works on its own notification.
StepInv ==
  /\ \A n \in Notes : ~At(n, "idle") =>
       /\ Note(n) = n
       /\ run[n].at \in {"inserting", "adding", "asking", "recording"}
  /\ \A w \in Workers : ~At(w, "inserting") /\ ~At(w, "adding")

\* A run at a provider has asked those before it, one that failed has asked all,
\* one that succeeded was taken over.
LoopInv ==
  \A r \in Runners :
    /\ At(r, "asking") => \A i \in 1..Providers : i < run[r].provider => i \in tried[Note(r)]
    /\ At(r, "recording") /\ run[r].status = "failed" => tried[Note(r)] = 1..Providers
    /\ At(r, "recording") /\ run[r].status = "sent" => accepted[Note(r)] > 0

\* Before the insert there is nothing but the call.
FirstInv ==
  /\ \A n \in Notes : row[n] = "none" =>
       /\ job[n] = "none" /\ run[n].at \in {"idle", "inserting"}
       /\ \A w \in Workers : ~Working(w, n)
  /\ \A n \in Notes : At(n, "inserting") => row[n] = "none"
  /\ \A n \in Notes : At(n, "adding") => job[n] = "none"

\* A lock is held on active jobs only, and on every one.
LockInv == \A n \in Notes : job[n] = "active" <=> owner[n] # Nobody

\* A job that may still be run has attempts left.
RetryInv ==
  \A n \in Notes : job[n] \in {"none", "waiting", "active"} => thrown[n] < Attempts

\* A run that has not recorded its outcome is at work on n.
Engaged(n) == \E r \in Runners : Working(r, n) /\ ~At(r, "completing")

Charged(n) ==
  row[n] \in {"pending", "sending"} /\ ~forsaken[n] =>
    \/ job[n] = "waiting"
    \/ job[n] = "active" /\ ~Working(owner[n], n)
    \/ Engaged(n)

ChargeInv == \A n \in Notes : Charged(n)

IInv ==
  /\ TypeOK /\ StepInv /\ LoopInv /\ FirstInv /\ LockInv /\ RetryInv
  /\ SentIsTrue /\ FailedWasTried /\ ChargeInv

--------------------------------------------------------------------------------
(* What a run's state says of its locals. *)

LEMMA BusyType ==
  ASSUME TypeOK, NEW r \in Runners, ~At(r, "idle")
  PROVE  /\ Note(r) \in Notes
         /\ run[r].at \in {"inserting", "adding", "rendering", "marking", "completing",
                           "asking", "recording"}
  BY DEF TypeOK, RunState, Idle, At, Note

LEMMA AskingType ==
  ASSUME TypeOK, NEW r \in Runners, At(r, "asking")
  PROVE  /\ run[r].provider \in 1..Providers
         /\ run[r] \in [at : {"asking"}, note : Notes, provider : 1..Providers]
  BY DEF TypeOK, RunState, Idle, At

LEMMA RecordingType ==
  ASSUME TypeOK, NEW r \in Runners, At(r, "recording")
  PROVE  run[r].status \in Settled
  BY DEF TypeOK, RunState, Idle, At

LEMMA InsertingType ==
  ASSUME TypeOK, NEW r \in Runners, At(r, "inserting")
  PROVE  run[r].status \in {"pending", "sending"}
  BY DEF TypeOK, RunState, Idle, At

\* After a failure the next provider is asked, or the run has failed.
LEMMA FailureType ==
  ASSUME TypeOK, NEW r \in Runners, At(r, "asking")
  PROVE  /\ AfterFailure(r) \in RunState /\ AfterFailure(r).note = Note(r)
         /\ \/ /\ run[r].provider < Providers
               /\ AfterFailure(r).at = "asking"
               /\ AfterFailure(r).provider = run[r].provider + 1
            \/ /\ run[r].provider = Providers
               /\ AfterFailure(r).at = "recording"
               /\ AfterFailure(r).status = "failed"
<1>1. /\ run[r].provider \in 1..Providers /\ Note(r) \in Notes
      /\ run[r] \in [at : {"asking"}, note : Notes, provider : 1..Providers]
  BY AskingType, BusyType DEF At
<1>2. CASE run[r].provider < Providers
  <2>1. AfterFailure(r) = Asking(Note(r), run[r].provider + 1)
    BY <1>2 DEF AfterFailure
  <2>2. run[r].provider + 1 \in 1..Providers
    BY <1>1, <1>2, NotificationAssumption
  <2>3. QED
    BY <1>1, <1>2, <2>1, <2>2 DEF RunState, Asking
<1>3. CASE ~(run[r].provider < Providers)
  <2>1. AfterFailure(r) = Recording(Note(r), "failed")
    BY <1>3 DEF AfterFailure
  <2>2. run[r].provider = Providers
    BY <1>1, <1>3, NotificationAssumption
  <2>3. QED
    BY <1>1, <2>1, <2>2 DEF RunState, Settled, Recording
<1>4. QED
  BY <1>2, <1>3

LEMMA SuccessType ==
  ASSUME TypeOK, NEW r \in Runners, At(r, "asking")
  PROVE  AfterSuccess(r) \in RunState
  BY BusyType DEF At, AfterSuccess, Recording, RunState, Settled

--------------------------------------------------------------------------------
(* Types *)

\* A step that gives r another state leaves runs in their types.
LEMMA BecomeType ==
  ASSUME TypeOK, NEW r \in Runners, NEW s \in RunState, Become(r, s)
  PROVE  run' \in [Runners -> RunState]
  BY DEF TypeOK, Become

\* An answer of a provider leaves the types alone.
LEMMA TypeAnswer ==
  ASSUME TypeOK, NEW r \in Runners, Answer(r)
  PROVE  TypeOK'
<1>1. /\ At(r, "asking") /\ Asked(r)
      /\ Become(r, AfterSuccess(r)) \/ Become(r, AfterFailure(r))
      /\ UNCHANGED <<row, jobVars, expired, again, forsaken>>
      /\ TakenOver(r) \/ UNCHANGED accepted
      /\ UNCHANGED unheard \/ unheard' = [unheard EXCEPT ![Note(r)] = TRUE]
  BY DEF Answer, Accepted, Refused, AnswerLost
<1>2. run' \in [Runners -> RunState]
  BY <1>1, BecomeType, SuccessType, FailureType
<1>3. Note(r) \in Notes /\ run[r].provider \in 1..Providers
  BY <1>1, BusyType, AskingType DEF At
<1>4. tried' \in [Notes -> SUBSET (1..Providers)]
  BY <1>1, <1>3 DEF Asked, TypeOK
<1>5. accepted' \in [Notes -> 0..2]
  BY <1>1, <1>3 DEF TakenOver, TypeOK
<1>6. unheard' \in [Notes -> BOOLEAN]
  BY <1>1, <1>3 DEF TypeOK
<1>7. QED
  BY <1>1, <1>2, <1>4, <1>5, <1>6 DEF TypeOK, jobVars

LEMMA TypeStep == TypeOK /\ LockInv /\ RetryInv /\ [Next]_vars => TypeOK'
<1> SUFFICES ASSUME TypeOK, LockInv, RetryInv, [Next]_vars PROVE TypeOK'
  OBVIOUS
<1>1. ASSUME NEW n \in Notes, Send(n) \/ Enqueue(n) PROVE TypeOK'
  <2>1. run' \in [Runners -> RunState]
    BY <1>1, BecomeType DEF Send, Enqueue, RunState, Runners
  <2>2. QED
    BY <1>1, <2>1 DEF Send, Enqueue, TypeOK, jobVars, history
<1>2. ASSUME NEW n \in Notes, Insert(n) PROVE TypeOK'
  <2>1. run' \in [Runners -> RunState]
    <3>1. Asking(n, 1) \in RunState /\ [at |-> "adding", note |-> n] \in RunState
      BY NotificationAssumption DEF Asking, RunState
    <3>2. QED
      BY <1>2, <3>1, BecomeType DEF Insert, Runners
  <2>2. run[n].status \in {"pending", "sending"}
    BY <1>2, InsertingType DEF Insert, Runners
  <2>3. QED
    BY <1>2, <2>1, <2>2 DEF Insert, TypeOK, Status, jobVars, history
<1>3. ASSUME NEW n \in Notes, Add(n) PROVE TypeOK'
  <2>1. run' \in [Runners -> RunState]
    BY <1>3, BecomeType DEF Add, RunState, Runners
  <2>2. QED
    BY <1>3, <2>1 DEF Add, TypeOK, history
<1>4. ASSUME NEW r \in Runners, Answer(r) PROVE TypeOK'
  BY <1>4, TypeAnswer
<1>5. ASSUME NEW r \in Runners, Record(r) PROVE TypeOK'
  <2>1. Note(r) \in Notes /\ run[r].status \in Settled
    BY <1>5, BusyType, RecordingType DEF Record, At
  <2>2. run' \in [Runners -> RunState]
    BY <1>5, <2>1, BecomeType DEF Record, RunState
  <2>3. QED
    BY <1>5, <2>1, <2>2 DEF Record, TypeOK, Status, jobVars, history
<1>6. ASSUME NEW w \in Workers, NEW n \in Notes, Take(w, n) PROVE TypeOK'
  <2>1. run' \in [Runners -> RunState]
    BY <1>6, BecomeType DEF Take, Recording, RunState, Runners, Settled
  <2>2. again' \in [Notes -> BOOLEAN]
    BY <1>6, Zenon DEF Take, TypeOK
  <2>3. QED
    BY <1>6, <2>1, <2>2 DEF Take, TypeOK
<1>7. ASSUME NEW w \in Workers, Render(w) \/ Mark(w) PROVE TypeOK'
  <2>1. w \in Runners /\ Note(w) \in Notes
    BY <1>7, BusyType DEF Render, Mark, At, Runners
  <2>2. run' \in [Runners -> RunState]
    BY <1>7, <2>1, BecomeType, NotificationAssumption DEF Render, Mark, Asking, RunState
  <2>3. QED
    BY <1>7, <2>1, <2>2 DEF Render, Mark, TypeOK, Status, jobVars, history
<1>8. ASSUME NEW w \in Workers, Complete(w) PROVE TypeOK'
  <2>1. w \in Runners /\ Note(w) \in Notes
    BY <1>8, BusyType DEF Complete, At, Runners
  <2>2. run' \in [Runners -> RunState]
    BY <1>8, <2>1, BecomeType DEF Complete, RunState
  <2>3. QED
    BY <1>8, <2>1, <2>2 DEF Complete, TypeOK, history
<1>9. ASSUME NEW r \in Runners, Throws(r) PROVE TypeOK'
  <2> DEFINE n == Note(r)
             held == r \in Workers /\ owner[n] = r
             retry == held /\ thrown[n] + 1 < Attempts
  <2>1. n \in Notes
    BY <1>9, BusyType DEF Throws, At
  <2>2. run' \in [Runners -> RunState]
    BY <1>9, BecomeType DEF Throws, RunState
  <2>3. job' \in [Notes -> {"none", "waiting", "active", "completed", "failed"}]
    BY <1>9, <2>1 DEF Throws, TypeOK
  <2>4. owner' \in [Notes -> Workers \cup {Nobody}]
    BY <1>9, <2>1 DEF Throws, TypeOK
  <2>5. forsaken' \in [Notes -> BOOLEAN]
    BY <1>9, Zenon DEF Throws, TypeOK
  <2>6. thrown' \in [Notes -> 0..Attempts]
    <3>1. held => thrown[n] \in 0..Attempts /\ thrown[n] < Attempts
      BY <2>1, NotificationAssumption DEF TypeOK, LockInv, RetryInv
    <3>2. held => thrown[n] + 1 \in 0..Attempts
      BY <3>1, NotificationAssumption
    <3>3. QED
      BY <1>9, <2>1, <3>2 DEF Throws, TypeOK
  <2>7. QED
    BY <1>9, <2>2, <2>3, <2>4, <2>5, <2>6 DEF Throws, TypeOK
<1>10. ASSUME NEW r \in Runners, Crash(r) PROVE TypeOK'
  <2>1. run' \in [Runners -> RunState]
    BY <1>10, BecomeType DEF Crash, RunState
  <2>2. forsaken' \in [Notes -> BOOLEAN]
    BY <1>10, Zenon DEF Crash, TypeOK
  <2>3. QED
    BY <1>10, <2>1, <2>2 DEF Crash, TypeOK, jobVars
<1>11. ASSUME NEW n \in Notes, Stall(n) PROVE TypeOK'
  <2>1. forsaken' \in [Notes -> BOOLEAN]
    BY <1>11, Zenon DEF Stall, TypeOK
  <2>2. QED
    BY <1>11, <2>1, NotificationAssumption DEF Stall, TypeOK
<1>12. ASSUME NEW n \in Notes, Expire(n) PROVE TypeOK'
  BY <1>12 DEF Expire, TypeOK, jobVars, history
<1>13. CASE UNCHANGED vars
  BY <1>13 DEF vars, jobVars, history, TypeOK
<1>14. QED
  BY <1>1, <1>2, <1>3, <1>4, <1>5, <1>6, <1>7, <1>8, <1>9, <1>10, <1>11, <1>12, <1>13
  DEF Next, Proceed, RecoverStalled, LoseLock
--------------------------------------------------------------------------------
(* A step of run r leaves the others alone; what it makes of r. *)

LEMMA BecomeOnly ==
  ASSUME TypeOK, NEW r \in Runners, NEW s, Become(r, s)
  PROVE  /\ run'[r] = s
         /\ \A q \in Runners \ {r} : run'[q] = run[q]
  BY DEF TypeOK, Become

\* What an answer of a provider changes.
LEMMA AnswerEffect ==
  ASSUME TypeOK, NEW r \in Runners, Answer(r)
  PROVE  /\ At(r, "asking") /\ Note(r) \in Notes
         /\ \A n \in Notes : tried[n] \subseteq tried'[n] /\ accepted'[n] >= accepted[n]
         /\ tried'[Note(r)] = tried[Note(r)] \cup {run[r].provider}
         /\ \/ run'[r] = AfterSuccess(r) /\ accepted'[Note(r)] > 0
            \/ run'[r] = AfterFailure(r)
         /\ \A q \in Runners \ {r} : run'[q] = run[q]
         /\ UNCHANGED <<row, jobVars, forsaken>>
<1>1. /\ At(r, "asking") /\ Asked(r)
      /\ \/ Become(r, AfterSuccess(r)) /\ TakenOver(r)
         \/ Become(r, AfterFailure(r)) /\ (TakenOver(r) \/ UNCHANGED accepted)
      /\ UNCHANGED <<row, jobVars, forsaken>>
  BY DEF Answer, Accepted, Refused, AnswerLost
<1>2. Note(r) \in Notes
  BY <1>1, BusyType DEF At
<1>3. /\ \A n \in Notes : tried[n] \subseteq tried'[n]
      /\ tried'[Note(r)] = tried[Note(r)] \cup {run[r].provider}
  BY <1>1, <1>2 DEF Asked, TypeOK
<1>4. TakenOver(r) => accepted'[Note(r)] > 0 /\ \A n \in Notes : accepted'[n] >= accepted[n]
  BY <1>2 DEF TakenOver, TypeOK
<1>5. \A n \in Notes : accepted[n] \in 0..2
  BY DEF TypeOK
<1>6. QED
  BY <1>1, <1>2, <1>3, <1>4, <1>5, BecomeOnly

--------------------------------------------------------------------------------
(* What is sent was taken over, what has failed was tried. *)

LogInv == LoopInv /\ SentIsTrue /\ FailedWasTried

LEMMA LogStep == TypeOK /\ LogInv /\ [Next]_vars => LogInv'
<1> SUFFICES ASSUME TypeOK, LogInv, [Next]_vars PROVE LogInv'
  OBVIOUS
<1> USE DEF LogInv, LoopInv, SentIsTrue, FailedWasTried
<1>1. ASSUME NEW r \in Runners, NEW s, Become(r, s),
             s.at = "asking" => s.provider = 1,
             s.at = "recording" => s.status = "expired",
             UNCHANGED <<tried, accepted>>
      PROVE  LoopInv'
  <2>1. run'[r] = s /\ \A q \in Runners \ {r} : run'[q] = run[q]
    BY <1>1, BecomeOnly
  <2>2. SUFFICES ASSUME NEW q \in Runners
        PROVE  /\ At(q, "asking")' =>
                    (\A i \in 1..Providers : i < run[q].provider => i \in tried[Note(q)])'
               /\ (At(q, "recording") /\ run[q].status = "failed" => tried[Note(q)] = 1..Providers)'
               /\ (At(q, "recording") /\ run[q].status = "sent" => accepted[Note(q)] > 0)'
    OBVIOUS
  <2>3. CASE q = r
    BY <1>1, <2>1, <2>3 DEF At
  <2>4. CASE q # r
    BY <1>1, <2>1, <2>4 DEF At, Note
  <2>5. QED
    BY <2>3, <2>4
<1>2. ASSUME NEW n \in Notes, Send(n) \/ Enqueue(n) \/ Add(n) PROVE LogInv'
  <2>1. LoopInv'
    BY <1>1, <1>2 DEF Send, Enqueue, Add, Runners, history, Idle
  <2>2. QED
    BY <1>2, <2>1 DEF Send, Enqueue, Add, history
<1>3. ASSUME NEW n \in Notes, Insert(n) PROVE LogInv'
  <2>1. LoopInv'
    BY <1>1, <1>3 DEF Insert, Runners, history, Asking
  <2>2. run[n].status \in {"pending", "sending"}
    BY <1>3, InsertingType DEF Insert, Runners
  <2>3. QED
    BY <1>3, <2>1, <2>2 DEF Insert, history, TypeOK
<1>4. ASSUME NEW r \in Runners, Answer(r) PROVE LogInv'
  <2>1. /\ At(r, "asking") /\ Note(r) \in Notes
        /\ \A n \in Notes : tried[n] \subseteq tried'[n] /\ accepted'[n] >= accepted[n]
        /\ tried'[Note(r)] = tried[Note(r)] \cup {run[r].provider}
        /\ \/ run'[r] = AfterSuccess(r) /\ accepted'[Note(r)] > 0
           \/ run'[r] = AfterFailure(r)
        /\ \A q \in Runners \ {r} : run'[q] = run[q]
        /\ UNCHANGED <<row, jobVars, forsaken>>
    BY <1>4, AnswerEffect
  <2>2. TypeOK'
    BY <1>4, TypeAnswer
  <2>3. \A n \in Notes : /\ tried'[n] \subseteq 1..Providers
                         /\ accepted'[n] \in 0..2 /\ accepted[n] \in 0..2
    BY <2>2 DEF TypeOK
  <2>4. SentIsTrue' /\ FailedWasTried'
    <3>1. SentIsTrue'
      BY <2>1, <2>3
    <3>2. FailedWasTried'
      BY <2>1, <2>3
    <3>3. QED
      BY <3>1, <3>2
  <2>5. ASSUME NEW q \in Runners, q # r
        PROVE  /\ At(q, "asking")' =>
                    (\A i \in 1..Providers : i < run[q].provider => i \in tried[Note(q)])'
               /\ (At(q, "recording") /\ run[q].status = "failed" => tried[Note(q)] = 1..Providers)'
               /\ (At(q, "recording") /\ run[q].status = "sent" => accepted[Note(q)] > 0)'
    <3>1. run'[q] = run[q]
      BY <2>1, <2>5
    <3>2. At(q, "asking") \/ At(q, "recording") => Note(q) \in Notes
      BY BusyType DEF At
    <3>3. Note(q)' = Note(q) /\ (At(q, "asking")' <=> At(q, "asking"))
          /\ (At(q, "recording")' <=> At(q, "recording"))
      BY <3>1 DEF At, Note
    <3>4. At(q, "asking")' =>
            (\A i \in 1..Providers : i < run[q].provider => i \in tried[Note(q)])'
      BY <2>1, <3>1, <3>2, <3>3
    <3>5. (At(q, "recording") /\ run[q].status = "failed" => tried[Note(q)] = 1..Providers)'
      BY <2>1, <2>3, <3>1, <3>2, <3>3
    <3>6. (At(q, "recording") /\ run[q].status = "sent" => accepted[Note(q)] > 0)'
      BY <2>1, <2>3, <3>1, <3>2, <3>3
    <3>7. QED
      BY <3>4, <3>5, <3>6
  <2>6. /\ At(r, "asking")' =>
             (\A i \in 1..Providers : i < run[r].provider => i \in tried[Note(r)])'
        /\ (At(r, "recording") /\ run[r].status = "failed" => tried[Note(r)] = 1..Providers)'
        /\ (At(r, "recording") /\ run[r].status = "sent" => accepted[Note(r)] > 0)'
    <3>1. CASE run'[r] = AfterSuccess(r) /\ accepted'[Note(r)] > 0
      BY <3>1 DEF AfterSuccess, Recording, At, Note
    <3>2. CASE run'[r] = AfterFailure(r)
      <4>1. run[r].provider \in 1..Providers
        BY <2>1, AskingType
      <4>2. \A i \in 1..Providers : i <= run[r].provider => i \in tried'[Note(r)]
        BY <2>1, <4>1, NotificationAssumption
      <4>3. AfterFailure(r).note = Note(r)
        BY <2>1, FailureType
      <4>4. CASE /\ run[r].provider < Providers /\ AfterFailure(r).at = "asking"
                 /\ AfterFailure(r).provider = run[r].provider + 1
        BY <3>2, <4>1, <4>2, <4>3, <4>4, NotificationAssumption DEF At, Note
      <4>5. CASE /\ run[r].provider = Providers /\ AfterFailure(r).at = "recording"
                 /\ AfterFailure(r).status = "failed"
        <5>1. tried'[Note(r)] = 1..Providers
          BY <2>1, <2>3, <4>2, <4>5, NotificationAssumption
        <5>2. QED
          BY <3>2, <4>3, <4>5, <5>1 DEF At, Note
      <4>6. QED
        BY <2>1, <4>4, <4>5, FailureType
    <3>3. QED
      BY <2>1, <3>1, <3>2
  <2>7. LoopInv'
    BY <2>5, <2>6
  <2>8. QED
    BY <2>4, <2>7
<1>5. ASSUME NEW r \in Runners, Record(r) PROVE LogInv'
  <2>1. LoopInv'
    BY <1>1, <1>5 DEF Record, history, Idle
  <2>2. Note(r) \in Notes /\ At(r, "recording")
    BY <1>5, BusyType DEF Record, At
  <2>3. QED
    BY <1>5, <2>1, <2>2 DEF Record, history, TypeOK
<1>6. ASSUME NEW w \in Workers, NEW n \in Notes, Take(w, n) PROVE LogInv'
  <2>1. LoopInv'
    BY <1>1, <1>6 DEF Take, Recording, Runners
  <2>2. QED
    BY <1>6, <2>1 DEF Take
<1>7. ASSUME NEW w \in Workers, Render(w) \/ Mark(w) \/ Complete(w) PROVE LogInv'
  <2>1. w \in Runners /\ Note(w) \in Notes
    BY <1>7, BusyType DEF Render, Mark, Complete, At, Runners
  <2>2. LoopInv'
    BY <1>1, <1>7, <2>1 DEF Render, Mark, Complete, Asking, Idle, history
  <2>3. QED
    BY <1>7, <2>1, <2>2 DEF Render, Mark, Complete, history, TypeOK
<1>8. ASSUME NEW r \in Runners, Throws(r) \/ Crash(r) PROVE LogInv'
  <2>1. LoopInv'
    BY <1>1, <1>8 DEF Throws, Crash, Idle
  <2>2. QED
    BY <1>8, <2>1 DEF Throws, Crash
<1>9. ASSUME NEW n \in Notes, Stall(n) \/ Expire(n) PROVE LogInv'
  BY <1>9 DEF Stall, Expire, At, Note, history
<1>10. CASE UNCHANGED vars
  BY <1>10 DEF vars, history, At, Note
<1>11. QED
  BY <1>2, <1>3, <1>4, <1>5, <1>6, <1>7, <1>8, <1>9, <1>10
  DEF Next, Proceed, RecoverStalled, LoseLock

--------------------------------------------------------------------------------
(* Steps, locks and attempts *)

\* A step of run r to a state of its kind, on its own notification, keeps to StepInv.
LEMMA StepFrame ==
  ASSUME TypeOK, StepInv, NEW r \in Runners, NEW s, Become(r, s),
         r \in Notes => \/ s.at = "idle"
                        \/ /\ s.note = r
                           /\ s.at \in {"inserting", "adding", "asking", "recording"},
         r \in Workers => s.at \notin {"inserting", "adding"}
  PROVE  StepInv'
<1>1. run'[r] = s /\ \A q \in Runners \ {r} : run'[q] = run[q]
  BY BecomeOnly
<1>2. QED
  BY <1>1 DEF StepInv, At, Note, Runners

\* A run may always end.
LEMMA StepIdle ==
  ASSUME TypeOK, StepInv, NEW r \in Runners, Become(r, Idle)
  PROVE  StepInv'
<1>1. run'[r] = Idle /\ \A q \in Runners \ {r} : run'[q] = run[q]
  BY BecomeOnly
<1>2. run'[r].at = "idle"
  BY <1>1 DEF Idle
<1>3. QED
  BY <1>1, <1>2 DEF StepInv, At, Note, Runners

LEMMA StepInvStep == TypeOK /\ StepInv /\ [Next]_vars => StepInv'
<1> SUFFICES ASSUME TypeOK, StepInv, [Next]_vars PROVE StepInv'
  OBVIOUS
<1>1. ASSUME NEW n \in Notes, Send(n) \/ Enqueue(n) \/ Insert(n) \/ Add(n) PROVE StepInv'
  <2>1. n \notin Workers /\ n \in Runners
    BY NotificationAssumption DEF Runners
  <2>2. CASE Send(n) \/ Enqueue(n) \/ Add(n)
    <3>1. CASE Add(n)
      BY <2>1, <3>1, StepIdle DEF Add
    <3>2. CASE Send(n) \/ Enqueue(n)
      BY <2>1, <3>2, StepFrame DEF Send, Enqueue
    <3>3. QED
      BY <2>2, <3>1, <3>2
  <2>3. CASE Insert(n)
    <3> DEFINE s == IF run[n].status = "sending" THEN Asking(n, 1)
                    ELSE [at |-> "adding", note |-> n]
    <3>1. Become(n, s) /\ s.note = n /\ s.at \in {"adding", "asking"}
      BY <2>3 DEF Insert, Asking
    <3> HIDE DEF s
    <3>2. QED
      BY <2>1, <3>1, StepFrame
  <2>4. QED
    BY <1>1, <2>2, <2>3
<1>2. ASSUME NEW r \in Runners, Answer(r) PROVE StepInv'
  <2>1. /\ At(r, "asking") /\ ~At(r, "idle")
        /\ Become(r, AfterSuccess(r)) \/ Become(r, AfterFailure(r))
    BY <1>2 DEF Answer, Accepted, Refused, AnswerLost, At
  <2>2. /\ AfterSuccess(r).at = "recording" /\ AfterSuccess(r).note = Note(r)
        /\ AfterFailure(r).at \in {"asking", "recording"} /\ AfterFailure(r).note = Note(r)
    BY <2>1, FailureType DEF AfterSuccess, Recording
  <2>3. r \in Notes => Note(r) = r
    BY <2>1 DEF StepInv
  <2>4. PICK s \in {AfterSuccess(r), AfterFailure(r)} :
           Become(r, s) /\ s.at \in {"asking", "recording"} /\ s.note = Note(r)
    BY <2>1, <2>2
  <2>5. QED
    BY <2>3, <2>4, StepFrame
<1>3. ASSUME NEW r \in Runners, Record(r) PROVE StepInv'
  <2>1. Become(r, IF r \in Notes THEN Idle ELSE [at |-> "completing", note |-> Note(r)])
    BY <1>3 DEF Record
  <2>2. CASE r \in Notes
    <3>1. Become(r, Idle)
      BY <2>1, <2>2
    <3>2. QED
      BY <3>1, StepIdle
  <2>3. CASE r \notin Notes
    <3>1. Become(r, [at |-> "completing", note |-> Note(r)])
      BY <2>1, <2>3
    <3>2. QED
      BY <2>3, <3>1, StepFrame
  <2>4. QED
    BY <2>2, <2>3
<1>4. ASSUME NEW w \in Workers PROVE w \in Runners /\ w \notin Notes
  BY NotificationAssumption DEF Runners
<1>5. ASSUME NEW w \in Workers, NEW n \in Notes, Take(w, n) PROVE StepInv'
  <2> DEFINE s == IF expired[n] THEN Recording(n, "expired")
                  ELSE [at |-> "rendering", note |-> n]
  <2>1. Become(w, s) /\ s.at \in {"recording", "rendering"}
    BY <1>5 DEF Take, Recording
  <2> HIDE DEF s
  <2>2. QED
    BY <1>4, <2>1, StepFrame
<1>6. ASSUME NEW w \in Workers, Render(w) \/ Mark(w) \/ Complete(w) PROVE StepInv'
  <2>1. CASE Complete(w)
    BY <1>4, <2>1, StepIdle DEF Complete
  <2>2. CASE Render(w) \/ Mark(w)
    BY <1>4, <2>2, StepFrame DEF Render, Mark, Asking
  <2>3. QED
    BY <1>6, <2>1, <2>2
<1>7. ASSUME NEW r \in Runners, Throws(r) \/ Crash(r) PROVE StepInv'
  BY <1>7, StepIdle DEF Throws, Crash
<1>8. ASSUME NEW n \in Notes, Stall(n) \/ Expire(n) PROVE StepInv'
  BY <1>8 DEF Stall, Expire, StepInv, At, Note
<1>9. CASE UNCHANGED vars
  BY <1>9 DEF vars, StepInv, At, Note
<1>10. QED
  BY <1>1, <1>2, <1>3, <1>5, <1>6, <1>7, <1>8, <1>9 DEF Next, Proceed, RecoverStalled, LoseLock

JobInv == LockInv /\ RetryInv

LEMMA JobStep == TypeOK /\ FirstInv /\ JobInv /\ [Next]_vars => JobInv'
<1> SUFFICES ASSUME TypeOK, FirstInv, JobInv, [Next]_vars PROVE JobInv'
  OBVIOUS
<1> USE DEF JobInv, LockInv, RetryInv
<1>1. ASSUME UNCHANGED jobVars PROVE JobInv'
  BY <1>1 DEF jobVars
<1>2. ASSUME NEW n \in Notes, Add(n) PROVE JobInv'
  <2>1. job[n] = "none"
    BY <1>2 DEF Add, FirstInv
  <2>2. QED
    BY <1>2, <2>1 DEF Add, TypeOK
<1>3. ASSUME NEW w \in Workers, NEW n \in Notes, Take(w, n) PROVE JobInv'
  BY <1>3, NotificationAssumption DEF Take, TypeOK
<1>4. ASSUME NEW w \in Workers, Complete(w) PROVE JobInv'
  <2>1. Note(w) \in Notes
    BY <1>4, BusyType DEF Complete, At, Runners
  <2>2. QED
    BY <1>4, <2>1 DEF Complete, TypeOK
<1>5. ASSUME NEW r \in Runners, Throws(r) PROVE JobInv'
  <2> DEFINE n == Note(r)
             held == r \in Workers /\ owner[n] = r
             retry == held /\ thrown[n] + 1 < Attempts
  <2>1. n \in Notes
    BY <1>5, BusyType DEF Throws, At
  <2>2. CASE ~held
    BY <1>5, <2>2 DEF Throws
  <2>3. CASE held
    <3>1. /\ job' = [job EXCEPT ![n] = IF retry THEN "waiting" ELSE "failed"]
          /\ owner' = [owner EXCEPT ![n] = Nobody]
          /\ thrown' = [thrown EXCEPT ![n] = @ + 1]
      BY <1>5, <2>3 DEF Throws
    <3>2. LockInv'
      BY <2>1, <3>1 DEF TypeOK
    <3>3. RetryInv'
      BY <2>1, <2>3, <3>1 DEF TypeOK
    <3>4. QED
      BY <3>2, <3>3
  <2>4. QED
    BY <2>2, <2>3
<1>6. ASSUME NEW n \in Notes, Stall(n) PROVE JobInv'
  BY <1>6 DEF Stall, TypeOK
<1>7. QED
  BY <1>1, <1>2, <1>3, <1>4, <1>5, <1>6
  DEF Next, Proceed, RecoverStalled, LoseLock, Send, Enqueue, Insert, Answer, Accepted, Refused,
      AnswerLost, Record, Render, Mark, Crash, Expire, vars

--------------------------------------------------------------------------------
(* Before the insert *)

\* A step of a worker, idle or on a row that is there, leaves FirstInv alone.
LEMMA FirstWorker ==
  ASSUME TypeOK, FirstInv, NEW w \in Workers, NEW s, Become(w, s),
         s.at # "idle" => row[s.note] # "none",
         \A n \in Notes : row'[n] = "none" <=> row[n] = "none",
         \A n \in Notes : job[n] = "none" => job'[n] = "none"
  PROVE  FirstInv'
<1>1. w \in Runners /\ w \notin Notes
  BY NotificationAssumption DEF Runners
<1>2. run'[w] = s /\ \A q \in Runners \ {w} : run'[q] = run[q]
  BY <1>1, BecomeOnly
<1>3. QED
  BY <1>1, <1>2 DEF FirstInv, At, Note, Working, Runners

\* The row of a notification a worker or its call is past inserting is there.
LEMMA RowThere ==
  ASSUME TypeOK, StepInv, FirstInv, NEW r \in Runners, ~At(r, "idle"), ~At(r, "inserting")
  PROVE  Note(r) \in Notes /\ row[Note(r)] # "none"
<1>1. Note(r) \in Notes
  BY BusyType
<1>2. CASE r \in Notes
  BY <1>2 DEF StepInv, FirstInv, At
<1>3. CASE r \in Workers
  BY <1>1, <1>3 DEF FirstInv, Working
<1>4. QED
  BY <1>1, <1>2, <1>3 DEF Runners

LEMMA FirstStep == TypeOK /\ StepInv /\ LockInv /\ FirstInv /\ [Next]_vars => FirstInv'
<1> SUFFICES ASSUME TypeOK, StepInv, LockInv, FirstInv, [Next]_vars PROVE FirstInv'
  OBVIOUS
<1>1. ASSUME NEW n \in Notes PROVE n \in Runners /\ n \notin Workers
  BY NotificationAssumption DEF Runners
<1>2. ASSUME NEW n \in Notes, NEW s, Become(n, s)
      PROVE  /\ run'[n] = s /\ \A q \in Runners \ {n} : run'[q] = run[q]
             /\ \A m \in Notes \ {n} : run'[m] = run[m]
             /\ \A w \in Workers : run'[w] = run[w]
  BY <1>1, <1>2, BecomeOnly, NotificationAssumption DEF Runners
<1>3. ASSUME NEW n \in Notes, Send(n) \/ Enqueue(n) PROVE FirstInv'
  <2>1. PICK s : Become(n, s) /\ s.at = "inserting"
    BY <1>3 DEF Send, Enqueue
  <2>2. run'[n].at = "inserting"
    BY <1>2, <2>1
  <2>3. UNCHANGED <<row, job>> /\ row[n] = "none"
    BY <1>3 DEF Send, Enqueue, jobVars
  <2>4. QED
    BY <1>2, <2>1, <2>2, <2>3 DEF FirstInv, At, Note, Working
<1>4. ASSUME NEW n \in Notes, Insert(n) PROVE FirstInv'
  <2>1. row' = [row EXCEPT ![n] = run[n].status] /\ At(n, "inserting") /\ UNCHANGED job
    BY <1>4 DEF Insert, jobVars
  <2>2. row'[n] # "none" /\ \A m \in Notes \ {n} : row'[m] = row[m]
    BY <1>1, <2>1, InsertingType DEF TypeOK
  <2>3. PICK s : Become(n, s) /\ s.at \in {"asking", "adding"}
    BY <1>4 DEF Insert, Asking
  <2>4. job[n] = "none"
    BY <2>1 DEF FirstInv
  <2>5. QED
    BY <1>2, <2>1, <2>2, <2>3, <2>4 DEF FirstInv, At, Note, Working
<1>5. ASSUME NEW n \in Notes, Add(n) PROVE FirstInv'
  <2>1. row[n] # "none"
    BY <1>5 DEF Add, FirstInv, At
  <2>2. run'[n] = Idle
    BY <1>2, <1>5 DEF Add
  <2>3. /\ \A m \in Notes \ {n} : job'[m] = job[m] /\ run'[m] = run[m]
        /\ \A w \in Workers : run'[w] = run[w]
        /\ UNCHANGED row
    BY <1>2, <1>5 DEF Add, TypeOK
  <2>4. QED
    BY <2>1, <2>2, <2>3 DEF FirstInv, At, Note, Working, Idle
<1>6. ASSUME NEW r \in Runners, Answer(r) PROVE FirstInv'
  <2>1. /\ At(r, "asking") /\ Note(r) \in Notes
        /\ run'[r] = AfterSuccess(r) \/ run'[r] = AfterFailure(r)
        /\ \A q \in Runners \ {r} : run'[q] = run[q]
        /\ UNCHANGED <<row, job>>
    BY <1>6, AnswerEffect DEF jobVars
  <2>2. run'[r].at \in {"asking", "recording"} /\ run'[r].note = Note(r)
    BY <2>1, FailureType DEF AfterSuccess, Recording
  <2>3. row[Note(r)] # "none"
    BY <2>1, RowThere DEF At
  <2>4. QED
    BY <1>1, <2>1, <2>2, <2>3 DEF FirstInv, At, Note, Working, Runners, StepInv
<1>7. ASSUME NEW r \in Runners, Record(r) PROVE FirstInv'
  <2>1. row[Note(r)] # "none" /\ run[r].status # "none" /\ Note(r) \in Notes
    BY <1>7, RowThere, RecordingType DEF Record, At, Settled
  <2>2. \A n \in Notes : row'[n] = "none" <=> row[n] = "none"
    BY <1>7, <2>1 DEF Record, TypeOK
  <2>3. UNCHANGED job
    BY <1>7 DEF Record, jobVars
  <2>4. CASE r \in Notes
    <3>1. Become(r, Idle)
      BY <1>7, <2>4 DEF Record
    <3>2. run'[r].at = "idle"
      BY <1>2, <2>4, <3>1 DEF Idle
    <3>3. QED
      BY <1>2, <2>2, <2>3, <2>4, <3>1, <3>2 DEF FirstInv, At, Note, Working
  <2>5. CASE r \notin Notes
    <3>1. Become(r, [at |-> "completing", note |-> Note(r)]) /\ r \in Workers
      BY <1>7, <2>5 DEF Record, Runners
    <3>2. QED
      BY <2>1, <2>2, <2>3, <3>1, FirstWorker
  <2>6. QED
    BY <2>4, <2>5
<1>8. ASSUME NEW w \in Workers, NEW n \in Notes, Take(w, n) PROVE FirstInv'
  <2>1. row[n] # "none" /\ job[n] = "waiting" /\ UNCHANGED row
    BY <1>8 DEF Take, FirstInv
  <2>2. \A m \in Notes : job[m] = "none" => job'[m] = "none"
    BY <1>8, <2>1 DEF Take, TypeOK
  <2>3. PICK s : Become(w, s) /\ s.note = n
    BY <1>8 DEF Take, Recording
  <2>4. QED
    BY <2>1, <2>2, <2>3, FirstWorker
<1>9. ASSUME NEW r \in Runners, NEW n \in Notes, owner[n] = r, r \in Workers PROVE job[n] # "none"
  BY <1>9, NotificationAssumption DEF LockInv
<1>10. ASSUME NEW w \in Workers, Render(w) \/ Mark(w) \/ Complete(w) PROVE FirstInv'
  <2>1. w \in Runners /\ Note(w) \in Notes /\ row[Note(w)] # "none"
    BY <1>10, RowThere DEF Render, Mark, Complete, At, Runners
  <2>2. \A n \in Notes : row'[n] = "none" <=> row[n] = "none"
    BY <1>10, <2>1 DEF Render, Mark, Complete, TypeOK
  <2>3. \A n \in Notes : job[n] = "none" => job'[n] = "none"
    BY <1>9, <1>10, <2>1 DEF Render, Mark, Complete, TypeOK, jobVars
  <2>4. CASE Complete(w)
    <3>1. Become(w, Idle)
      BY <2>4 DEF Complete
    <3>2. QED
      BY <2>2, <2>3, <3>1, FirstWorker DEF Idle
  <2>5. CASE Render(w) \/ Mark(w)
    <3>1. PICK s : Become(w, s) /\ s.note = Note(w)
      BY <2>5 DEF Render, Mark, Asking
    <3>2. QED
      BY <2>1, <2>2, <2>3, <3>1, FirstWorker
  <2>6. QED
    BY <1>10, <2>4, <2>5
<1>11. ASSUME NEW r \in Runners, Throws(r) \/ Crash(r) PROVE FirstInv'
  <2>1. Note(r) \in Notes
    BY <1>11, BusyType DEF Throws, Crash, At
  <2>2. UNCHANGED row /\ Become(r, Idle)
    BY <1>11 DEF Throws, Crash
  <2>3. \A n \in Notes : job[n] = "none" => job'[n] = "none"
    BY <1>9, <1>11, <2>1 DEF Throws, Crash, TypeOK, jobVars
  <2>4. run'[r].at = "idle" /\ \A q \in Runners \ {r} : run'[q] = run[q]
    BY <2>2, BecomeOnly DEF Idle
  <2>5. QED
    BY <2>2, <2>3, <2>4 DEF FirstInv, At, Note, Working, Runners
<1>12. ASSUME NEW n \in Notes, Stall(n) \/ Expire(n) PROVE FirstInv'
  <2>1. /\ UNCHANGED <<row, run>>
        /\ \A m \in Notes : job[m] = "none" => job'[m] = "none"
    BY <1>12 DEF Stall, Expire, jobVars, TypeOK
  <2>2. QED
    BY <2>1 DEF FirstInv, At, Note, Working
<1>13. CASE UNCHANGED vars
  BY <1>13 DEF vars, jobVars, FirstInv, At, Note, Working
<1>14. QED
  BY <1>3, <1>4, <1>5, <1>6, <1>7, <1>8, <1>10, <1>11, <1>12, <1>13
  DEF Next, Proceed, RecoverStalled, LoseLock

--------------------------------------------------------------------------------
(* Someone is in charge *)

\* A step of run r, not at work on m before or after, leaves the charge of m alone.
LEMMA ChargeFrame ==
  ASSUME NEW r \in Runners, NEW m \in Notes, Charged(m),
         job[m] = "active" => owner[m] \in Runners,
         \A q \in Runners \ {r} : run'[q] = run[q],
         ~Working(r, m), ~Working(r, m)',
         row'[m] = row[m], job'[m] = job[m], owner'[m] = owner[m],
         forsaken[m] => forsaken'[m]
  PROVE  Charged(m)'
<1>1. \A q \in Runners : Working(q, m)' <=> Working(q, m)
  BY DEF Working, At, Note
<1>2. \A q \in Runners : Working(q, m) => (At(q, "completing")' <=> At(q, "completing"))
  BY DEF At
<1>3. Engaged(m) => Engaged(m)'
  BY <1>1, <1>2 DEF Engaged
<1>4. job[m] = "active" => (Working(owner[m], m)' <=> Working(owner[m], m))
  BY <1>1
<1>5. QED
  BY <1>3, <1>4 DEF Charged, Working, At, Note

\* A run at work on m is in charge of it, until it has recorded the outcome.
LEMMA ChargeEngaged ==
  ASSUME NEW r \in Runners, NEW m \in Notes,
         run'[r].at \notin {"idle", "completing"}, run'[r].note = m
  PROVE  Charged(m)'
  BY DEF Charged, Engaged, Working, At, Note

LEMMA ChargeStep ==
  TypeOK /\ StepInv /\ LockInv /\ FirstInv /\ ChargeInv /\ [Next]_vars => ChargeInv'
<1> SUFFICES ASSUME TypeOK, StepInv, LockInv, FirstInv, ChargeInv, [Next]_vars,
                    NEW m \in Notes
             PROVE  Charged(m)'
  BY DEF ChargeInv
<1>1. /\ Charged(m)
      /\ job[m] = "active" => owner[m] \in Workers /\ owner[m] \in Runners
      /\ job[m] # "active" => owner[m] = Nobody
  BY DEF ChargeInv, LockInv, TypeOK, Runners
<1>2. ASSUME NEW n \in Notes, Send(n) \/ Enqueue(n) PROVE Charged(m)'
  <2>1. PICK s : Become(n, s) /\ s.note = n /\ s.at = "inserting"
    BY <1>2 DEF Send, Enqueue
  <2>2. n \in Runners /\ run'[n] = s /\ \A q \in Runners \ {n} : run'[q] = run[q]
    BY <2>1, BecomeOnly DEF Runners
  <2>3. /\ UNCHANGED <<row, job, owner, forsaken>> /\ row[n] = "none" /\ At(n, "idle")
    BY <1>2 DEF Send, Enqueue, jobVars, history
  <2>4. CASE m = n
    BY <2>3, <2>4 DEF Charged
  <2>5. CASE m # n
    <3>1. ~Working(n, m) /\ ~Working(n, m)'
      BY <2>1, <2>2, <2>3, <2>5 DEF Working, At, Note
    <3>2. QED
      BY <1>1, <2>2, <2>3, <3>1, ChargeFrame
  <2>6. QED
    BY <2>4, <2>5
<1>3. ASSUME NEW n \in Notes, Insert(n) PROVE Charged(m)'
  <2>1. PICK s : Become(n, s) /\ s.note = n /\ s.at \in {"asking", "adding"}
    BY <1>3 DEF Insert, Asking
  <2>2. n \in Runners /\ run'[n] = s /\ \A q \in Runners \ {n} : run'[q] = run[q]
    BY <2>1, BecomeOnly DEF Runners
  <2>3. CASE m = n
    BY <2>1, <2>2, <2>3, ChargeEngaged
  <2>4. CASE m # n
    <3>1. Note(n) = n
      BY <1>3 DEF Insert, At, StepInv
    <3>2. ~Working(n, m) /\ ~Working(n, m)'
      BY <2>1, <2>2, <2>4, <3>1 DEF Working, Note
    <3>3. row'[m] = row[m] /\ UNCHANGED <<job, owner, forsaken>>
      BY <1>3, <2>4 DEF Insert, jobVars, history, TypeOK
    <3>4. QED
      BY <1>1, <2>2, <3>2, <3>3, ChargeFrame
  <2>5. QED
    BY <2>3, <2>4
<1>4. ASSUME NEW n \in Notes, Add(n) PROVE Charged(m)'
  <2>1. n \in Runners /\ run'[n] = Idle /\ \A q \in Runners \ {n} : run'[q] = run[q]
    BY <1>4, BecomeOnly DEF Runners, Add
  <2>2. CASE m = n
    BY <1>4, <2>2 DEF Add, Charged, TypeOK
  <2>3. CASE m # n
    <3>1. Note(n) = n
      BY <1>4 DEF Add, At, StepInv
    <3>2. ~Working(n, m) /\ ~Working(n, m)'
      BY <2>1, <2>3, <3>1 DEF Working, Note, At, Idle
    <3>3. job'[m] = job[m] /\ UNCHANGED <<row, owner, forsaken>>
      BY <1>4, <2>3 DEF Add, history, TypeOK
    <3>4. QED
      BY <1>1, <2>1, <3>2, <3>3, ChargeFrame
  <2>4. QED
    BY <2>2, <2>3
<1>5. ASSUME NEW r \in Runners, Answer(r) PROVE Charged(m)'
  <2>1. /\ At(r, "asking") /\ Note(r) \in Notes
        /\ run'[r] = AfterSuccess(r) \/ run'[r] = AfterFailure(r)
        /\ \A q \in Runners \ {r} : run'[q] = run[q]
        /\ UNCHANGED <<row, job, owner, forsaken>>
    BY <1>5, AnswerEffect DEF jobVars
  <2>2. run'[r].at \in {"asking", "recording"} /\ run'[r].note = Note(r)
    BY <2>1, FailureType DEF AfterSuccess, Recording
  <2>3. CASE m = Note(r)
    BY <2>2, <2>3, ChargeEngaged
  <2>4. CASE m # Note(r)
    <3>1. ~Working(r, m) /\ ~Working(r, m)'
      BY <2>2, <2>4 DEF Working, Note
    <3>2. QED
      BY <1>1, <2>1, <3>1, ChargeFrame
  <2>5. QED
    BY <2>3, <2>4
<1>6. ASSUME NEW r \in Runners, Record(r) PROVE Charged(m)'
  <2>1. Note(r) \in Notes /\ run[r].status \in Settled
    BY <1>6, BusyType, RecordingType DEF Record, At
  <2>2. CASE m = Note(r)
    <3>1. row'[m] \in Settled
      BY <1>6, <2>1, <2>2 DEF Record, TypeOK
    <3>2. QED
      BY <3>1 DEF Charged, Settled
  <2>3. CASE m # Note(r)
    <3>1. PICK s : Become(r, s) /\ (s.at = "idle" \/ s.note = Note(r))
      BY <1>6 DEF Record, Idle
    <3>2. run'[r] = s /\ \A q \in Runners \ {r} : run'[q] = run[q]
      BY <3>1, BecomeOnly
    <3>3. ~Working(r, m) /\ ~Working(r, m)'
      BY <2>3, <3>1, <3>2 DEF Working, Note, At
    <3>4. row'[m] = row[m] /\ UNCHANGED <<job, owner, forsaken>>
      BY <1>6, <2>1, <2>3 DEF Record, jobVars, history, TypeOK
    <3>5. QED
      BY <1>1, <3>2, <3>3, <3>4, ChargeFrame
  <2>4. QED
    BY <2>2, <2>3
<1>7. ASSUME NEW w \in Workers, NEW n \in Notes, Take(w, n) PROVE Charged(m)'
  <2>1. PICK s : Become(w, s) /\ s.note = n /\ s.at \in {"recording", "rendering"}
    BY <1>7 DEF Take, Recording
  <2>2. w \in Runners /\ run'[w] = s /\ \A q \in Runners \ {w} : run'[q] = run[q]
    BY <2>1, BecomeOnly DEF Runners
  <2>3. CASE m = n
    BY <2>1, <2>2, <2>3, ChargeEngaged
  <2>4. CASE m # n
    <3>1. ~Working(w, m) /\ ~Working(w, m)'
      BY <1>7, <2>1, <2>2, <2>4 DEF Take, Working, Note
    <3>2. job'[m] = job[m] /\ owner'[m] = owner[m] /\ UNCHANGED <<row, forsaken>>
      BY <1>7, <2>4 DEF Take, TypeOK
    <3>3. QED
      BY <1>1, <2>2, <3>1, <3>2, ChargeFrame
  <2>5. QED
    BY <2>3, <2>4
<1>8. ASSUME NEW w \in Workers, Render(w) \/ Mark(w) PROVE Charged(m)'
  <2>1. PICK s : Become(w, s) /\ s.note = Note(w) /\ s.at \in {"marking", "asking"}
    BY <1>8 DEF Render, Mark, Asking
  <2>2. w \in Runners /\ run'[w] = s /\ \A q \in Runners \ {w} : run'[q] = run[q]
    BY <2>1, BecomeOnly DEF Runners
  <2>3. CASE m = Note(w)
    BY <2>1, <2>2, <2>3, ChargeEngaged
  <2>4. CASE m # Note(w)
    <3>1. ~Working(w, m) /\ ~Working(w, m)'
      BY <2>1, <2>2, <2>4 DEF Working, Note
    <3>2. row'[m] = row[m] /\ UNCHANGED <<job, owner, forsaken>>
      BY <1>8, <2>4 DEF Render, Mark, jobVars, history, TypeOK
    <3>3. QED
      BY <1>1, <2>2, <3>1, <3>2, ChargeFrame
  <2>5. QED
    BY <2>3, <2>4
<1>9. ASSUME NEW w \in Workers, Complete(w) PROVE Charged(m)'
  <2>1. /\ w \in Runners /\ At(w, "completing") /\ Note(w) \in Notes
        /\ run'[w] = Idle /\ \A q \in Runners \ {w} : run'[q] = run[q]
        /\ UNCHANGED <<row, forsaken>>
    BY <1>9, BecomeOnly, BusyType DEF Complete, Runners, history, At
  <2>2. CASE m = Note(w)
    <3>1. Engaged(m) => Engaged(m)'
      BY <2>1 DEF Engaged, Working, At, Note
    <3>2. CASE owner[m] = w
      <4>1. Working(owner[m], m) /\ job[m] = "active"
        BY <1>1, <2>1, <2>2, <3>2, NotificationAssumption DEF Working, At
      <4>2. QED
        BY <1>1, <2>1, <3>1, <4>1 DEF Charged
    <3>3. CASE owner[m] # w
      <4>1. UNCHANGED <<job, owner>>
        BY <1>9, <2>2, <3>3 DEF Complete
      <4>2. job[m] = "active" => run'[owner[m]] = run[owner[m]]
        BY <1>1, <2>1, <3>3
      <4>3. job[m] = "active" => (Working(owner[m], m)' <=> Working(owner[m], m))
        BY <4>1, <4>2 DEF Working, At, Note
      <4>4. QED
        BY <1>1, <2>1, <3>1, <4>1, <4>3 DEF Charged
    <3>4. QED
      BY <3>2, <3>3
  <2>3. CASE m # Note(w)
    <3>1. ~Working(w, m) /\ ~Working(w, m)'
      BY <2>1, <2>3 DEF Working, Note, At, Idle
    <3>2. job'[m] = job[m] /\ owner'[m] = owner[m]
      BY <1>9, <2>1, <2>3 DEF Complete, TypeOK
    <3>3. QED
      BY <1>1, <2>1, <3>1, <3>2, ChargeFrame
  <2>4. QED
    BY <2>2, <2>3
<1>10. ASSUME NEW r \in Runners, Throws(r) PROVE Charged(m)'
  <2> DEFINE n == Note(r)
             held == r \in Workers /\ owner[n] = r
             retry == held /\ thrown[n] + 1 < Attempts
  <2>1. /\ n \in Notes /\ UNCHANGED row
        /\ run'[r] = Idle /\ \A q \in Runners \ {r} : run'[q] = run[q]
    BY <1>10, BecomeOnly, BusyType DEF Throws, At
  <2>2. /\ job' = IF held THEN [job EXCEPT ![n] = IF retry THEN "waiting" ELSE "failed"] ELSE job
        /\ owner' = IF held THEN [owner EXCEPT ![n] = Nobody] ELSE owner
    BY <1>10 DEF Throws
  <2>3. forsaken' = [forsaken EXCEPT ![n] = @ \/ ~(retry \/ At(r, "inserting"))]
    BY <1>10 DEF Throws
  <2>4. CASE m = n
    <3>1. CASE At(r, "inserting")
      <4>1. row[m] = "none"
        BY <2>4, <3>1 DEF StepInv, FirstInv, Runners, At
      <4>2. QED
        BY <2>1, <4>1 DEF Charged
    <3>2. CASE retry
      <4>1. job'[m] = "waiting"
        BY <2>1, <2>2, <2>4, <3>2 DEF TypeOK
      <4>2. QED
        BY <4>1 DEF Charged
    <3>3. CASE ~retry /\ ~At(r, "inserting")
      <4>1. forsaken'[m]
        BY <2>1, <2>3, <2>4, <3>3 DEF TypeOK
      <4>2. QED
        BY <4>1 DEF Charged
    <3>4. QED
      BY <3>1, <3>2, <3>3
  <2>5. CASE m # n
    <3>1. ~Working(r, m) /\ ~Working(r, m)'
      BY <2>1, <2>5 DEF Working, Note, At, Idle
    <3>2. job'[m] = job[m] /\ owner'[m] = owner[m]
      BY <2>1, <2>2, <2>5 DEF TypeOK
    <3>3. forsaken[m] => forsaken'[m]
      BY <2>1, <2>3, <2>5 DEF TypeOK
    <3> HIDE DEF n
    <3>4. QED
      BY <1>1, <2>1, <3>1, <3>2, <3>3, ChargeFrame
  <2>6. QED
    BY <2>4, <2>5
<1>11. ASSUME NEW r \in Runners, Crash(r) PROVE Charged(m)'
  <2>1. /\ Note(r) \in Notes /\ UNCHANGED <<row, job, owner>>
        /\ run'[r] = Idle /\ \A q \in Runners \ {r} : run'[q] = run[q]
    BY <1>11, BecomeOnly, BusyType DEF Crash, jobVars
  <2>2. forsaken' = [forsaken EXCEPT ![Note(r)] = @ \/ ~(At(r, "inserting") \/ owner[Note(r)] = r)]
    BY <1>11 DEF Crash
  <2>3. CASE m = Note(r)
    <3>1. CASE At(r, "inserting")
      <4>1. row[m] = "none"
        BY <2>3, <3>1 DEF StepInv, FirstInv, Runners, At
      <4>2. QED
        BY <2>1, <4>1 DEF Charged
    <3>2. CASE owner[m] = r
      <4>1. job[m] = "active"
        BY <1>1, <3>2, NotificationAssumption DEF Runners
      <4>2. ~Working(owner[m], m)'
        BY <2>1, <3>2 DEF Working, At, Idle
      <4>3. QED
        BY <2>1, <4>1, <4>2 DEF Charged
    <3>3. CASE ~At(r, "inserting") /\ owner[m] # r
      <4>1. forsaken'[m]
        BY <2>1, <2>2, <2>3, <3>3 DEF TypeOK
      <4>2. QED
        BY <4>1 DEF Charged
    <3>4. QED
      BY <3>1, <3>2, <3>3
  <2>4. CASE m # Note(r)
    <3>1. ~Working(r, m) /\ ~Working(r, m)'
      BY <2>1, <2>4 DEF Working, Note, At, Idle
    <3>2. forsaken[m] => forsaken'[m]
      BY <2>1, <2>2, <2>4 DEF TypeOK
    <3>3. QED
      BY <1>1, <2>1, <3>1, <3>2, ChargeFrame
  <2>5. QED
    BY <2>3, <2>4
<1>12. ASSUME UNCHANGED <<row, run>>,
              \/ UNCHANGED <<job, owner, forsaken>>
              \/ job'[m] = "waiting" \/ forsaken'[m]
              \/ job'[m] = job[m] /\ owner'[m] = owner[m] /\ forsaken'[m] = forsaken[m]
       PROVE  Charged(m)'
  BY <1>1, <1>12 DEF Charged, Engaged, Working, At, Note
<1>13. ASSUME NEW n \in Notes, Stall(n) PROVE Charged(m)'
  <2>1. UNCHANGED <<row, run>>
    BY <1>13 DEF Stall
  <2>2. CASE m # n
    BY <1>12, <1>13, <2>1, <2>2 DEF Stall, TypeOK
  <2>3. CASE m = n
    <3>1. CASE stalls[n] < MaxStalled
      BY <1>12, <1>13, <2>1, <2>3, <3>1 DEF Stall, TypeOK
    <3>2. CASE ~(stalls[n] < MaxStalled)
      <4>1. stalls[n] = MaxStalled
        BY <3>2, NotificationAssumption DEF TypeOK
      <4>2. forsaken'[m]
        BY <1>13, <2>3, <4>1 DEF Stall, TypeOK
      <4>3. QED
        BY <1>12, <2>1, <4>2
    <3>3. QED
      BY <3>1, <3>2
  <2>4. QED
    BY <2>2, <2>3
<1>14. CASE (\E n \in Notes : Expire(n)) \/ UNCHANGED vars
  BY <1>12, <1>14 DEF Expire, vars, jobVars, history
<1>15. QED
  BY <1>2, <1>3, <1>4, <1>5, <1>6, <1>7, <1>8, <1>9, <1>10, <1>11, <1>13, <1>14
  DEF Next, Proceed, RecoverStalled, LoseLock

--------------------------------------------------------------------------------
(* A recipient gets a notification once *)

\* The job of m has thrown or stalled: it was run before.
Given(m) == thrown[m] + stalls[m] > 0

\* Run r may yet ask a provider to send m.
Trying(r, m) == Working(r, m) /\ run[r].at \notin {"recording", "completing"}

\* While its call runs there is no job, before the job is run there is no worker,
\* and only the first to be in charge of m may ask until a provider took m over.
OnceAt(m) ==
  /\ ~At(m, "idle") => job[m] = "none"
  /\ job[m] = "none" \/ (job[m] = "waiting" /\ ~Given(m)) =>
       ~Given(m) /\ \A w \in Workers : ~Working(w, m)
  /\ row[m] = "none" \/ At(m, "adding") \/ (job[m] = "waiting" /\ ~Given(m)) =>
       accepted[m] = 0
  /\ ~again[m] /\ ~unheard[m] =>
       /\ accepted[m] <= 1
       /\ \A r \in Runners : Trying(r, m) => accepted[m] = 0
       /\ \A r, q \in Runners : Trying(r, m) /\ Trying(q, m) => r = q

OnceInv == \A m \in Notes : OnceAt(m)

\* A run goes on with m, leaves it, or works on another.
LEMMA OnceMoves ==
  ASSUME NEW r \in Runners, NEW m \in Notes, OnceAt(m),
         \A q \in Runners \ {r} : run'[q] = run[q],
         Working(r, m)' => Working(r, m), Trying(r, m)' => Trying(r, m),
         r = m => (At(r, "idle") => At(r, "idle")'),
         r = m => (At(r, "adding")' => At(r, "adding") \/ row[m] = "none"),
         row'[m] = "none" => row[m] = "none",
         job'[m] = job[m], thrown'[m] = thrown[m], stalls'[m] = stalls[m],
         accepted'[m] = accepted[m], again'[m] = again[m], unheard[m] => unheard'[m]
  PROVE  OnceAt(m)'
<1>1. \A q \in Runners : (Working(q, m)' => Working(q, m)) /\ (Trying(q, m)' => Trying(q, m))
  BY DEF Working, Trying, At, Note
<1>2. /\ At(m, "idle") => At(m, "idle")'
      /\ At(m, "adding")' => At(m, "adding") \/ row[m] = "none"
  BY DEF At, Runners
<1>3. Given(m)' <=> Given(m)
  BY DEF Given
<1>4. \A w \in Workers : w \in Runners
  BY DEF Runners
<1>5. QED
  BY <1>1, <1>2, <1>3, <1>4 DEF OnceAt

\* A job of m that has been run leaves its worker, and does not count as new again.
LEMMA OnceGiven ==
  ASSUME NEW r \in Runners, NEW m \in Notes, OnceAt(m),
         \A q \in Runners \ {r} : run'[q] = run[q],
         Working(r, m)' => Working(r, m), Trying(r, m)' => Trying(r, m),
         r = m => run'[r] = run[r],
         row[m] # "none", row'[m] = row[m],
         job[m] # "none", job'[m] # "none", job'[m] = "waiting" => Given(m)',
         accepted'[m] = accepted[m], again'[m] = again[m], unheard'[m] = unheard[m]
  PROVE  OnceAt(m)'
<1>1. \A q \in Runners : Trying(q, m)' => Trying(q, m)
  BY DEF Working, Trying, At, Note
<1>2. m \in Runners /\ At(m, "idle") /\ At(m, "idle")'
  BY DEF OnceAt, At, Runners
<1>3. QED
  BY <1>1, <1>2 DEF OnceAt, At

LEMMA OnceStep ==
  TypeOK /\ StepInv /\ LockInv /\ FirstInv /\ OnceInv /\ [Next]_vars => OnceInv'
<1> SUFFICES ASSUME TypeOK, StepInv, LockInv, FirstInv, OnceInv, [Next]_vars,
                    NEW m \in Notes
             PROVE  OnceAt(m)'
  BY DEF OnceInv
<1>1. OnceAt(m) /\ m \in Runners /\ m \notin Workers
  BY NotificationAssumption DEF OnceInv, Runners
<1>2. ASSUME NEW n \in Notes, Send(n) \/ Enqueue(n) PROVE OnceAt(m)'
  <2>1. PICK s : Become(n, s) /\ s.note = n /\ s.at = "inserting"
    BY <1>2 DEF Send, Enqueue
  <2>2. n \in Runners /\ run'[n] = s /\ \A q \in Runners \ {n} : run'[q] = run[q]
    BY <2>1, BecomeOnly DEF Runners
  <2>3. /\ UNCHANGED <<row, job, thrown, stalls, accepted, again, unheard>>
        /\ row[n] = "none" /\ At(n, "idle")
    BY <1>2 DEF Send, Enqueue, jobVars, history
  <2>4. CASE m = n
    <3>1. job[m] = "none" /\ accepted[m] = 0 /\ ~Given(m)
      BY <1>1, <2>3, <2>4 DEF FirstInv, OnceAt
    <3>2. \A w \in Workers : w \in Runners /\ w # m /\ ~Working(w, m)
      BY <1>1, <2>3, <2>4 DEF FirstInv, Runners
    <3>3. \A w \in Workers : ~Working(w, m)'
      BY <2>2, <2>4, <3>2 DEF Working, At, Note
    <3>4. \A q \in Runners : Working(q, m)' => q = m
      <4>1. \A k \in Notes : k # m => ~Working(k, m)'
        BY <2>2, <2>4 DEF StepInv, Working, At, Note, Runners
      <4>2. QED
        BY <3>3, <4>1 DEF Runners
    <3>5. Given(m)' <=> Given(m)
      BY <2>3 DEF Given
    <3>6. ~At(m, "adding")'
      BY <2>1, <2>2, <2>4 DEF At
    <3>7. QED
      BY <2>3, <3>1, <3>3, <3>4, <3>5, <3>6 DEF OnceAt, Trying
  <2>5. CASE m # n
    <3>1. ~Working(n, m)'
      BY <2>1, <2>2, <2>5 DEF Working, Note
    <3>2. QED
      BY <1>1, <2>2, <2>3, <2>5, <3>1, OnceMoves DEF Trying
  <2>6. QED
    BY <2>4, <2>5
<1>3. ASSUME NEW n \in Notes, Insert(n) PROVE OnceAt(m)'
  <2>1. PICK s : Become(n, s) /\ s.note = n /\ s.at \in {"asking", "adding"}
    BY <1>3 DEF Insert, Asking
  <2>2. n \in Runners /\ run'[n] = s /\ \A q \in Runners \ {n} : run'[q] = run[q]
    BY <2>1, BecomeOnly DEF Runners
  <2>3. At(n, "inserting") /\ Note(n) = n /\ row[n] = "none"
    BY <1>3 DEF Insert, StepInv, FirstInv, At
  <2>4. Working(n, m)' => Trying(n, m)
    BY <2>1, <2>2, <2>3 DEF Working, Trying, At, Note
  <2>5. /\ row'[m] = "none" => row[m] = "none"
        /\ UNCHANGED <<job, thrown, stalls, accepted, again, unheard>>
    BY <1>3, <2>3 DEF Insert, jobVars, history, TypeOK
  <2>6. ~At(n, "idle")
    BY <2>3 DEF At
  <2>7. QED
    BY <1>1, <2>2, <2>3, <2>4, <2>5, <2>6, OnceMoves DEF Trying
<1>4. ASSUME NEW n \in Notes, Add(n) PROVE OnceAt(m)'
  <2>1. n \in Runners /\ run'[n] = Idle /\ \A q \in Runners \ {n} : run'[q] = run[q]
    BY <1>4, BecomeOnly DEF Runners, Add
  <2>2. UNCHANGED <<row, thrown, stalls, accepted, again, unheard>> /\ At(n, "adding")
    BY <1>4 DEF Add, history
  <2>3. ~Working(n, m)' /\ At(n, "idle")' /\ ~At(n, "adding")'
    BY <2>1 DEF Working, At, Idle
  <2>4. CASE m = n
    <3>1. /\ job[m] = "none" /\ ~Given(m) /\ accepted[m] = 0
          /\ \A w \in Workers : ~Working(w, m)
      BY <1>1, <2>2, <2>4 DEF OnceAt, At
    <3>2. \A q \in Runners : ~Working(q, m)'
      <4>1. \A k \in Notes : ~Working(k, m)'
        BY <2>1, <2>3, <2>4 DEF StepInv, Working, At, Note, Runners
      <4>2. \A w \in Workers : ~Working(w, m)'
        BY <1>1, <2>1, <2>4, <3>1 DEF Working, At, Note, Runners
      <4>3. QED
        BY <4>1, <4>2 DEF Runners
    <3>3. ~Given(m)' /\ accepted'[m] = 0
      BY <2>2, <3>1 DEF Given
    <3>4. QED
      BY <2>3, <2>4, <3>2, <3>3 DEF OnceAt, Trying, Runners
  <2>5. CASE m # n
    <3>1. job'[m] = job[m]
      BY <1>4, <2>5 DEF Add, TypeOK
    <3>2. QED
      BY <1>1, <2>1, <2>2, <2>3, <2>5, <3>1, OnceMoves DEF Trying
  <2>6. QED
    BY <2>4, <2>5
<1>5. ASSUME NEW r \in Runners, Answer(r) PROVE OnceAt(m)'
  <2>1. /\ At(r, "asking") /\ Note(r) \in Notes
        /\ run'[r] = AfterSuccess(r) \/ run'[r] = AfterFailure(r)
        /\ \A q \in Runners \ {r} : run'[q] = run[q]
        /\ UNCHANGED <<row, job, thrown, stalls>>
    BY <1>5, AnswerEffect DEF jobVars
  <2>2. run'[r].at \in {"asking", "recording"} /\ run'[r].note = Note(r)
    BY <2>1, FailureType DEF AfterSuccess, Recording
  <2>3. /\ Working(r, m)' => Trying(r, m)
        /\ ~At(r, "idle") /\ ~At(r, "adding")'
    BY <2>1, <2>2 DEF Working, Trying, At, Note
  <2>4. CASE m # Note(r) \/ UNCHANGED accepted
    <3>1. again' = again /\ accepted'[m] = accepted[m] /\ (unheard[m] => unheard'[m])
      BY <1>5, <2>1, <2>4 DEF Answer, Accepted, Refused, AnswerLost, TakenOver, TypeOK
    <3>2. QED
      BY <1>1, <2>1, <2>3, <3>1, OnceMoves DEF Trying
  <2>5. CASE m = Note(r) /\ ~UNCHANGED accepted
    <3>1. /\ Accepted(r) \/ unheard'[m]
          /\ TakenOver(r) /\ again' = again /\ (unheard[m] => unheard'[m])
      BY <1>5, <2>1, <2>5 DEF Answer, Accepted, Refused, AnswerLost, TypeOK
    <3>2. Trying(r, m) /\ Working(r, m)
      BY <2>1, <2>5 DEF Trying, Working, At
    <3>3. row[m] # "none"
      BY <2>1, <2>5, RowThere DEF At
    \* The call of m has no job yet, and a worker's is not new.
    <3>4. r = m \/ r \in Workers
      BY <2>1, <2>5 DEF StepInv, Runners, At
    <3>5. (job[m] = "waiting" => Given(m)) /\ ~At(m, "adding")
      BY <1>1, <2>1, <3>2, <3>4 DEF OnceAt, At
    <3>6. (job'[m] = "waiting" => Given(m)') /\ ~At(m, "adding")'
      BY <1>1, <2>1, <2>3, <3>5 DEF Given, At
    <3>7. \A q \in Runners : (Working(q, m)' => Working(q, m)) /\ (Trying(q, m)' => Trying(q, m))
      BY <2>1, <2>3 DEF Working, Trying, At, Note
    <3>8. /\ ~At(m, "idle")' => job'[m] = "none"
          /\ job'[m] = "none" => ~Given(m)' /\ \A w \in Workers : ~Working(w, m)'
      <4>1. At(m, "idle") => At(m, "idle")'
        BY <1>1, <2>1, <2>3 DEF At
      <4>2. QED
        BY <1>1, <2>1, <3>7, <4>1 DEF OnceAt, Given, Runners
    <3>9. ASSUME ~again'[m], ~unheard'[m]
          PROVE  accepted'[m] <= 1 /\ \A q \in Runners : ~Trying(q, m)'
      <4>1. Accepted(r) /\ accepted[m] = 0
        BY <1>1, <3>1, <3>2, <3>9 DEF OnceAt
      <4>2. accepted'[m] = 1
        BY <2>5, <3>1, <4>1 DEF TakenOver, TypeOK
      <4>3. ~Trying(r, m)'
        BY <4>1, BecomeOnly DEF Accepted, AfterSuccess, Recording, Trying
      <4>4. \A q \in Runners : Trying(q, m)' => q = r
        BY <1>1, <3>1, <3>2, <3>7, <3>9 DEF OnceAt
      <4>5. QED
        BY <4>2, <4>3, <4>4
    <3>10. QED
      BY <2>1, <3>3, <3>6, <3>8, <3>9 DEF OnceAt
  <2>6. QED
    BY <2>4, <2>5
<1>6. ASSUME NEW r \in Runners, Record(r) PROVE OnceAt(m)'
  <2>1. Note(r) \in Notes /\ run[r].status \in Settled /\ At(r, "recording")
    BY <1>6, BusyType, RecordingType DEF Record, At
  <2>2. PICK s : /\ Become(r, s)
                 /\ s.at \in {"idle", "completing"}
                 /\ s.at = "completing" => s.note = Note(r)
    <3>1. CASE r \in Notes
      BY <1>6, <3>1 DEF Record, Idle
    <3>2. CASE r \notin Notes
      BY <1>6, <3>2 DEF Record
    <3>3. QED
      BY <3>1, <3>2
  <2>3. run'[r] = s /\ \A q \in Runners \ {r} : run'[q] = run[q]
    BY <2>2, BecomeOnly
  <2>4. /\ Working(r, m)' => Working(r, m)
        /\ ~Trying(r, m)' /\ ~At(r, "idle") /\ ~At(r, "adding")'
    BY <2>1, <2>2, <2>3 DEF Working, Trying, At, Note
  <2>5. row'[m] = "none" => row[m] = "none"
    BY <1>6, <2>1 DEF Record, TypeOK, Settled
  <2>6. QED
    BY <1>1, <1>6, <2>3, <2>4, <2>5, OnceMoves DEF Record, jobVars, history
<1>7. ASSUME NEW w \in Workers, NEW n \in Notes, Take(w, n) PROVE OnceAt(m)'
  <2>1. PICK s : Become(w, s) /\ s.note = n /\ s.at \in {"recording", "rendering"}
    BY <1>7 DEF Take, Recording
  <2>2. /\ w \in Runners /\ w # m /\ run'[w] = s
        /\ \A q \in Runners \ {w} : run'[q] = run[q]
    BY <1>1, <2>1, BecomeOnly DEF Runners
  <2>3. /\ UNCHANGED <<row, thrown, stalls, accepted, unheard>>
        /\ job[n] = "waiting" /\ job' = [job EXCEPT ![n] = "active"]
        /\ again' = [again EXCEPT ![n] = @ \/ thrown[n] + stalls[n] > 0]
        /\ At(w, "idle")
    BY <1>7 DEF Take
  <2>4. CASE m = n
    <3>1. /\ job[m] = "waiting" /\ job'[m] = "active" /\ row[m] # "none"
          /\ At(m, "idle")
      BY <1>1, <2>3, <2>4 DEF FirstInv, OnceAt, TypeOK, At
    <3>2. At(m, "idle")' /\ ~At(m, "adding")'
      BY <1>1, <2>2, <3>1 DEF At
    <3>3. ASSUME ~again'[m], ~unheard'[m]
          PROVE  accepted'[m] = 0 /\ \A q \in Runners : Trying(q, m)' => q = w
      <4>1. ~Given(m)
        BY <2>3, <2>4, <3>3 DEF Given, TypeOK
      <4>2. accepted[m] = 0 /\ \A v \in Workers : ~Working(v, m)
        BY <1>1, <3>1, <4>1 DEF OnceAt
      <4>3. \A v \in Workers : v # w => ~Working(v, m)'
        BY <2>2, <4>2 DEF Working, At, Note, Runners
      <4>4. \A k \in Notes : ~Working(k, m)'
        BY <2>2, <3>2, NotificationAssumption DEF StepInv, Working, At, Note, Runners
      <4>5. QED
        BY <2>3, <4>2, <4>3, <4>4 DEF Trying, Runners
    <3>4. QED
      BY <2>3, <3>1, <3>2, <3>3 DEF OnceAt
  <2>5. CASE m # n
    <3>1. job'[m] = job[m] /\ again'[m] = again[m]
      BY <2>3, <2>5 DEF TypeOK
    <3>2. ~Working(w, m)'
      BY <2>1, <2>2, <2>5 DEF Working, Note
    <3>3. QED
      BY <1>1, <2>2, <2>3, <3>1, <3>2, OnceMoves DEF Trying
  <2>6. QED
    BY <2>4, <2>5
<1>8. ASSUME NEW w \in Workers, Render(w) \/ Mark(w) PROVE OnceAt(m)'
  <2>1. PICK s : Become(w, s) /\ s.note = Note(w) /\ s.at \in {"marking", "asking"}
    BY <1>8 DEF Render, Mark, Asking
  <2>2. w \in Runners /\ w # m /\ run'[w] = s /\ \A q \in Runners \ {w} : run'[q] = run[q]
    BY <1>1, <2>1, BecomeOnly DEF Runners
  <2>3. (At(w, "rendering") \/ At(w, "marking")) /\ Note(w) \in Notes
    BY <1>8, <2>2, BusyType DEF Render, Mark, At
  <2>4. Working(w, m)' => Trying(w, m)
    BY <2>1, <2>2, <2>3 DEF Working, Trying, At, Note
  <2>5. row'[m] = "none" => row[m] = "none"
    BY <1>8, <2>3 DEF Render, Mark, TypeOK
  <2>6. UNCHANGED <<job, thrown, stalls, accepted, again, unheard>>
    BY <1>8 DEF Render, Mark, jobVars, history
  <2>7. QED
    BY <1>1, <2>2, <2>4, <2>5, <2>6, OnceMoves DEF Trying
\* A run that ends, or dies.
<1>9. ASSUME NEW r \in Runners, Become(r, Idle), ~At(r, "idle"), UNCHANGED row,
             job'[m] = job[m], UNCHANGED <<accepted, again, unheard>>,
             thrown'[m] = thrown[m], stalls'[m] = stalls[m]
      PROVE  OnceAt(m)'
  <2>1. run'[r] = Idle /\ \A q \in Runners \ {r} : run'[q] = run[q]
    BY <1>9, BecomeOnly
  <2>2. ~Working(r, m)' /\ At(r, "idle")' /\ ~At(r, "adding")'
    BY <2>1 DEF Working, At, Idle
  <2>3. QED
    BY <1>1, <1>9, <2>1, <2>2, OnceMoves DEF Trying
\* A worker that ends, and gives the job of m up.
<1>10. ASSUME NEW w \in Workers, Become(w, Idle), UNCHANGED row,
              job[m] = "active", job'[m] # "none", job'[m] = "waiting" => Given(m)',
              UNCHANGED <<accepted, again, unheard>>
       PROVE  OnceAt(m)'
  <2>1. w \in Runners /\ w # m
    BY <1>1 DEF Runners
  <2>2. run'[w] = Idle /\ \A q \in Runners \ {w} : run'[q] = run[q]
    BY <1>10, <2>1, BecomeOnly
  <2>3. ~Working(w, m)'
    BY <2>2 DEF Working, At, Idle
  <2>4. row[m] # "none"
    BY <1>10 DEF FirstInv
  <2>5. QED
    BY <1>1, <1>10, <2>1, <2>2, <2>3, <2>4, OnceGiven DEF Trying
<1>11. ASSUME NEW w \in Workers, Complete(w) PROVE OnceAt(m)'
  <2>1. /\ Become(w, Idle) /\ ~At(w, "idle") /\ w \in Runners
        /\ UNCHANGED <<row, thrown, stalls, accepted, again, unheard>>
    BY <1>11 DEF Complete, At, Runners, history
  <2>2. Note(w) \in Notes
    BY <2>1, BusyType
  <2>3. CASE owner[Note(w)] = w /\ m = Note(w)
    <3>1. job[m] = "active"
      BY <2>3, NotificationAssumption DEF LockInv
    <3>2. job'[m] = "completed"
      BY <1>11, <2>2, <2>3 DEF Complete, TypeOK
    <3>3. QED
      BY <1>10, <2>1, <3>1, <3>2
  <2>4. CASE ~(owner[Note(w)] = w /\ m = Note(w))
    <3>1. job'[m] = job[m]
      BY <1>11, <2>2, <2>4 DEF Complete, TypeOK
    <3>2. QED
      BY <1>9, <2>1, <3>1
  <2>5. QED
    BY <2>3, <2>4
<1>12. ASSUME NEW r \in Runners, Throws(r) PROVE OnceAt(m)'
  <2>1. /\ Become(r, Idle) /\ ~At(r, "idle")
        /\ UNCHANGED <<row, stalls, accepted, again, unheard>>
    BY <1>12 DEF Throws, At
  <2>2. Note(r) \in Notes
    BY <2>1, BusyType
  <2>3. CASE r \in Workers /\ owner[Note(r)] = r /\ m = Note(r)
    <3>1. job[m] = "active"
      BY <2>3, NotificationAssumption DEF LockInv
    <3>2. job'[m] \in {"waiting", "failed"} /\ thrown'[m] = thrown[m] + 1
      BY <1>12, <2>2, <2>3 DEF Throws, TypeOK
    <3>3. Given(m)'
      BY <2>1, <3>2, NotificationAssumption DEF Given, TypeOK
    <3>4. QED
      BY <1>10, <2>1, <2>3, <3>1, <3>2, <3>3
  <2>4. CASE ~(r \in Workers /\ owner[Note(r)] = r /\ m = Note(r))
    <3>1. job'[m] = job[m] /\ thrown'[m] = thrown[m]
      BY <1>12, <2>2, <2>4 DEF Throws, TypeOK
    <3>2. QED
      BY <1>9, <2>1, <3>1
  <2>5. QED
    BY <2>3, <2>4
<1>13. ASSUME NEW r \in Runners, Crash(r) PROVE OnceAt(m)'
  BY <1>9, <1>13 DEF Crash, jobVars
<1>14. ASSUME NEW n \in Notes, Stall(n) PROVE OnceAt(m)'
  <2>1. UNCHANGED <<row, thrown, run, accepted, again, unheard>> /\ job[n] = "active"
    BY <1>14 DEF Stall
  <2>2. CASE m = n
    <3>1. /\ job'[m] \in {"waiting", "failed"}
          /\ job'[m] = "waiting" => stalls'[m] = stalls[m] + 1
      BY <1>14, <2>2 DEF Stall, TypeOK
    <3>2. job'[m] = "waiting" => Given(m)'
      BY <2>1, <3>1, NotificationAssumption DEF Given, TypeOK
    <3>3. row[m] # "none"
      BY <2>1, <2>2 DEF FirstInv
    <3>4. QED
      BY <1>1, <2>1, <2>2, <3>1, <3>2, <3>3, OnceGiven DEF Trying, Working, At, Note
  <2>3. CASE m # n
    <3>1. job'[m] = job[m] /\ stalls'[m] = stalls[m]
      BY <1>14, <2>3 DEF Stall, TypeOK
    <3>2. QED
      BY <1>1, <2>1, <3>1, OnceMoves DEF Trying, Working, At, Note
  <2>4. QED
    BY <2>2, <2>3
<1>15. ASSUME UNCHANGED <<row, jobVars, run, accepted, again, unheard>> PROVE OnceAt(m)'
  BY <1>1, <1>15, OnceMoves DEF Trying, Working, At, Note, jobVars
<1>16. ASSUME NEW n \in Notes, Expire(n) PROVE OnceAt(m)'
  BY <1>15, <1>16 DEF Expire, history
<1>17. CASE UNCHANGED vars
  BY <1>15, <1>17 DEF vars, history
<1>18. QED
  BY <1>2, <1>3, <1>4, <1>5, <1>6, <1>7, <1>8, <1>11, <1>12, <1>13, <1>14, <1>16, <1>17
  DEF Next, Proceed, RecoverStalled, LoseLock

--------------------------------------------------------------------------------
(* The invariant *)

\* Every part of IInv holds in every reachable state: the types need the attempts left, the
\* charge needs the locks and the calls that have not inserted yet.
THEOREM Invariance == Spec => []IInv
<1>1. Init => IInv
  <2> SUFFICES ASSUME Init PROVE IInv
    OBVIOUS
  <2>1. \A r \in Runners : run[r] = Idle /\ run[r].at = "idle"
    BY DEF Init, Idle
  <2>2. TypeOK
    BY NotificationAssumption DEF Init, TypeOK, RunState
  <2>3. StepInv /\ LoopInv /\ FirstInv /\ ChargeInv
    BY <2>1 DEF Init, StepInv, LoopInv, FirstInv, ChargeInv, Charged, At, Working, Runners
  <2>4. LockInv /\ RetryInv /\ SentIsTrue /\ FailedWasTried
    BY NotificationAssumption DEF Init, LockInv, RetryInv, SentIsTrue, FailedWasTried
  <2>5. QED
    BY <2>2, <2>3, <2>4 DEF IInv
<1>2. IInv /\ [Next]_vars => IInv'
  BY TypeStep, StepInvStep, LogStep, FirstStep, JobStep, ChargeStep DEF IInv, LogInv, JobInv
<1>3. QED
  BY <1>1, <1>2, PTL DEF Spec

\* Calls, workers, jobs and rows stay in their types.
THEOREM TypeCorrect == Spec => []TypeOK
  BY Invariance, PTL DEF IInv

\* The log never claims a message that no provider took over, in whatever order slow and
\* new workers of one job write it.
THEOREM SentTrue == Spec => []SentIsTrue
  BY Invariance, PTL DEF IInv

\* The log never gives a notification up before every provider was asked.
THEOREM FailedTried == Spec => []FailedWasTried
  BY Invariance, PTL DEF IInv

\* A row that is not settled has someone in charge: a job, a call or a worker, unless
\* the last one died or failed with no retry left.
THEOREM UnsettledOwned == Spec => []UnsettledHasOwner
<1>1. IInv => UnsettledHasOwner
  BY DEF IInv, ChargeInv, Charged, Engaged, UnsettledHasOwner
<1>2. QED
  BY <1>1, Invariance, PTL

\* A provider that took a notification over is the last one asked to send it, whatever
\* calls and workers do, unless its answer was lost or the queue ran the job again.
THEOREM SentAtMostOnce == Spec => []SentOnce
<1>1. Init => OnceInv
  <2> SUFFICES ASSUME Init, NEW m \in Notes PROVE OnceAt(m)
    BY DEF OnceInv
  <2>1. /\ \A r \in Runners : ~Working(r, m) /\ ~Trying(r, m)
        /\ At(m, "idle") /\ ~Given(m) /\ accepted[m] = 0
    BY DEF Init, Idle, At, Working, Trying, Given, Runners
  <2>2. QED
    BY <2>1 DEF OnceAt, At, Runners
<1>2. IInv /\ OnceInv /\ [Next]_vars => OnceInv'
  BY OnceStep DEF IInv
<1>3. OnceInv => SentOnce
  BY DEF OnceInv, OnceAt, SentOnce
<1>4. QED
  BY <1>1, <1>2, <1>3, Invariance, PTL DEF Spec

=============================================================================
