------------------------ MODULE WebhookDelivery_proofs ------------------------
(***************************************************************************)
(* Proofs about WebhookDelivery, for any number of sends, events and URLs, *)
(* any number of retries and any threshold.                                *)
(*                                                                         *)
(* IInv is inductive: LoopInv ties the loop counter, the awaited save and  *)
(* the requests made to the place a send has reached, BreakerInv ties a    *)
(* circuit's count to the sends that failed, LogInv the delivery log to    *)
(* what receivers confirmed.                                               *)
(***************************************************************************)
EXTENDS WebhookDelivery, TLAPS

\* Where send() is says which save is awaited and which attempt this is.
Place(s) ==
  /\ pc[s] = "idle"      => saving[s] = "none"
  /\ pc[s] = "queued"    => saving[s] \in {"none", "queued"} /\ attempt[s] = 0
  /\ pc[s] = "marking"   => saving[s] \in {"none", "delivering"}
                            /\ attempt[s] \in 1..MaxRetries
  /\ pc[s] = "posting"   => saving[s] = "none" /\ attempt[s] \in 1..MaxRetries
                            /\ dated[s]
  /\ pc[s] = "backoff"   => saving[s] = "none" /\ attempt[s] \in 1..MaxRetries - 1
  /\ pc[s] = "delivered" => saving[s] \in {"none", "delivered"} /\ dated[s]
  /\ pc[s] = "failed"    => saving[s] \in {"none", "failed"}
                            /\ attempt[s] = MaxRetries
  /\ pc[s] = "rejected"  => saving[s] \in {"none", "failed"}

\* The requests of a call: one for each attempt begun, if its body can be built.
PostsDue(s) ==
  IF ~dated[s] \/ pc[s] \in {"idle", "queued", "rejected"} THEN 0
  ELSE IF pc[s] = "marking" THEN attempt[s] - 1
  ELSE attempt[s]

LoopAt(s) ==
  /\ Place(s)
  /\ posts[s] = PostsDue(s)
  /\ accepted[s] = (pc[s] = "delivered")

LoopInv == \A s \in Sends : LoopAt(s)

BreakerAt(u) ==
  /\ tripped[u] <=> failures[u] >= Threshold
  /\ tripped[u] => failRun[u] = Threshold
  /\ ~tripped[u] => failures[u] <= failRun[u]

BreakerInv == \A u \in Urls : BreakerAt(u)

LogInv ==
  /\ \A s \in Sends : saving[s] = "delivered" => event[s] \in acked
  /\ DeliveredRowIsTrue

IInv == TypeOK /\ LoopInv /\ BreakerInv /\ LogInv

\* Every action of a send, with a Date or without, and of its environment: what
\* WebhookDelivery and WebhookQueue build their next-state relations from.
Step ==
  \/ \E s \in Sends : SendStep(s) \/ PersistFails(s)
  \/ \E s \in Sends, e \in Events, u \in Urls, d \in BOOLEAN : Call(s, e, u, d)
  \/ Tick
  \/ Crash

--------------------------------------------------------------------------------
(* Types and the loop *)

LEMMA BackoffIsNat == ASSUME NEW k \in 1..MaxRetries PROVE BackoffDelay[k] \in Nat
BY BackoffAssumption

\* A send that an action leaves alone stays where it is.
LEMMA OthersLoop ==
  ASSUME LoopInv, NEW t \in Sends,
         pc'[t] = pc[t], saving'[t] = saving[t], attempt'[t] = attempt[t],
         dated'[t] = dated[t], posts'[t] = posts[t], accepted'[t] = accepted[t]
  PROVE  LoopAt(t)'
BY DEF LoopInv, LoopAt, Place, PostsDue

LEMMA BreakerType ==
  ASSUME TypeOK, NEW u \in Urls, NEW n \in Nat,
         ForgetCircuit(u) \/ RecordFailure(u, n) \/ UNCHANGED breakerVars
  PROVE  /\ failures' \in [Urls -> Nat]
         /\ tripped' \in [Urls -> BOOLEAN]
         /\ cooling' \in [Urls -> 0..Cooldown + 1]
<1> USE DeliveryAssumption
<1>1. CASE ForgetCircuit(u)
  BY <1>1 DEF TypeOK, ForgetCircuit
<1>2. CASE RecordFailure(u, n)
  <2>1. tripped' \in [Urls -> BOOLEAN]
    <3>1. (n + 1 >= Threshold) \in BOOLEAN
      OBVIOUS
    <3>2. QED
      BY <1>2, <3>1, Zenon DEF TypeOK, RecordFailure, breakerVars
  <2>2. /\ failures' \in [Urls -> Nat]
        /\ cooling' \in [Urls -> 0..Cooldown + 1]
    BY <1>2 DEF TypeOK, RecordFailure, breakerVars
  <2>3. QED
    BY <2>1, <2>2
<1>3. CASE UNCHANGED breakerVars
  BY <1>3 DEF TypeOK, breakerVars
<1>4. QED
  BY <1>1, <1>2, <1>3

LEMMA PersistLoop ==
  ASSUME TypeOK, LoopInv, NEW s \in Sends, Persist(s)
  PROVE  TypeOK' /\ LoopInv'
<1>1. TypeOK'
  BY DEF TypeOK, Status, Persist, breakerVars, historyVars
<1>2. ASSUME NEW t \in Sends PROVE LoopAt(t)'
  <2>1. CASE t = s
    BY <2>1 DEF TypeOK, LoopInv, LoopAt, Place, PostsDue, Persist, historyVars
  <2>2. CASE t # s
    BY <2>2, OthersLoop DEF TypeOK, Persist, historyVars
  <2>3. QED
    BY <2>1, <2>2
<1>3. QED
  BY <1>1, <1>2 DEF LoopInv

LEMMA PersistFailsLoop ==
  ASSUME TypeOK, LoopInv, NEW s \in Sends, PersistFails(s)
  PROVE  TypeOK' /\ LoopInv'
<1>1. TypeOK'
  BY DEF TypeOK, PersistFails, breakerVars
<1>2. ASSUME NEW t \in Sends PROVE LoopAt(t)'
  <2>1. CASE t = s
    BY <2>1 DEF TypeOK, LoopInv, LoopAt, Place, PostsDue, PersistFails
  <2>2. CASE t # s
    BY <2>2, OthersLoop DEF TypeOK, PersistFails
  <2>3. QED
    BY <2>1, <2>2
<1>3. QED
  BY <1>1, <1>2 DEF LoopInv

LEMMA CallLoop ==
  ASSUME TypeOK, LoopInv, NEW s \in Sends, NEW e \in Events, NEW u \in Urls,
         NEW d \in BOOLEAN, Call(s, e, u, d)
  PROVE  TypeOK' /\ LoopInv'
<1>1. TypeOK'
  BY DEF TypeOK, Status, Running, Returned, Call, Save, breakerVars
<1>2. ASSUME NEW t \in Sends PROVE LoopAt(t)'
  <2>1. CASE t = s
    BY <2>1 DEF TypeOK, LoopAt, Place, PostsDue, Call, Save
  <2>2. CASE t # s
    BY <2>2, OthersLoop DEF TypeOK, Call, Save
  <2>3. QED
    BY <2>1, <2>2
<1>3. QED
  BY <1>1, <1>2 DEF LoopInv

LEMMA CheckCircuitLoop ==
  ASSUME TypeOK, LoopInv, NEW s \in Sends, CheckCircuit(s)
  PROVE  TypeOK' /\ LoopInv'
<1> DEFINE known == IF Expired(url[s]) THEN 0 ELSE failures[url[s]]
<1>0. url[s] \in Urls /\ known \in Nat
  BY DEF TypeOK
<1>1. TypeOK'
  <2>1. /\ failures' \in [Urls -> Nat]
        /\ tripped' \in [Urls -> BOOLEAN]
        /\ cooling' \in [Urls -> 0..Cooldown + 1]
    BY <1>0, BreakerType DEF CheckCircuit, GiveUp
  <2>2. failRun' \in [Urls -> 0..Threshold]
    BY <1>0, DeliveryAssumption DEF TypeOK, CheckCircuit, GiveUp, NoteFailure
  <2>3. /\ pc' \in [Sends -> {"idle"} \cup Running \cup Returned]
        /\ attempt' \in [Sends -> Nat]
        /\ saving' \in [Sends -> {"none"} \cup Status]
    BY DEF TypeOK, Status, Running, Returned, CheckCircuit, BeginAttempt, GiveUp, Save
  <2>4. QED
    BY <2>1, <2>2, <2>3 DEF TypeOK, CheckCircuit
<1>2. ASSUME NEW t \in Sends PROVE LoopAt(t)'
  <2>1. CASE t = s
    BY <2>1, DeliveryAssumption
       DEF TypeOK, LoopInv, LoopAt, Place, PostsDue, CheckCircuit, BeginAttempt, GiveUp,
           Save
  <2>2. CASE t # s
    BY <2>2, OthersLoop DEF TypeOK, CheckCircuit, BeginAttempt, GiveUp, Save
  <2>3. QED
    BY <2>1, <2>2
<1>3. QED
  BY <1>1, <1>2 DEF LoopInv

\* The part of an attempt's failure that Post and Refused share.
LEMMA AttemptFailedLoop ==
  ASSUME TypeOK, LoopInv, NEW s \in Sends, pc[s] \in {"marking", "posting"},
         saving[s] = "none", AttemptFailed(s), pc[s] = "marking" => ~dated[s],
         UNCHANGED <<attempt, dated, posts, accepted, event, url, row, acked, forsaken>>
  PROVE  TypeOK' /\ LoopInv'
<1>0. url[s] \in Urls /\ failures[url[s]] \in Nat
  BY DEF TypeOK
<1>1. attempt[s] \in 1..MaxRetries
  BY DEF LoopInv, LoopAt, Place
<1>2. TypeOK'
  <2>1. /\ failures' \in [Urls -> Nat]
        /\ tripped' \in [Urls -> BOOLEAN]
        /\ cooling' \in [Urls -> 0..Cooldown + 1]
    BY <1>0, BreakerType DEF AttemptFailed, GiveUp
  <2>2. failRun' \in [Urls -> 0..Threshold]
    BY <1>0, DeliveryAssumption DEF TypeOK, AttemptFailed, GiveUp, NoteFailure
  <2>3. timer' \in [Sends -> Nat]
    BY <1>1, BackoffIsNat DEF TypeOK, AttemptFailed
  <2>4. /\ pc' \in [Sends -> {"idle"} \cup Running \cup Returned]
        /\ saving' \in [Sends -> {"none"} \cup Status]
    BY DEF TypeOK, Status, Running, Returned, AttemptFailed, GiveUp, Save
  <2>5. QED
    BY <2>1, <2>2, <2>3, <2>4 DEF TypeOK
<1>3. ASSUME NEW t \in Sends PROVE LoopAt(t)'
  <2>1. CASE t = s
    BY <1>1, <2>1, DeliveryAssumption
       DEF TypeOK, LoopInv, LoopAt, Place, PostsDue, AttemptFailed, GiveUp, Save
  <2>2. CASE t # s
    BY <2>2, OthersLoop DEF TypeOK, AttemptFailed, GiveUp, Save
  <2>3. QED
    BY <2>1, <2>2
<1>4. QED
  BY <1>2, <1>3 DEF LoopInv

LEMMA PostLoop ==
  ASSUME TypeOK, LoopInv, NEW s \in Sends, Post(s)
  PROVE  TypeOK' /\ LoopInv'
<1>1. CASE dated[s]
  <2>1. TypeOK'
    BY <1>1, DeliveryAssumption DEF TypeOK, Running, Post, breakerVars
  <2>2. ASSUME NEW t \in Sends PROVE LoopAt(t)'
    <3>1. CASE t = s
      BY <1>1, <3>1, DeliveryAssumption DEF TypeOK, LoopInv, LoopAt, Place, PostsDue, Post
    <3>2. CASE t # s
      BY <1>1, <3>2, OthersLoop DEF TypeOK, Post
    <3>3. QED
      BY <3>1, <3>2
  <2>3. QED
    BY <2>1, <2>2 DEF LoopInv
<1>2. CASE ~dated[s]
  BY <1>2, AttemptFailedLoop DEF Post
<1>3. QED
  BY <1>1, <1>2

LEMMA RefusedLoop ==
  ASSUME TypeOK, LoopInv, NEW s \in Sends, Refused(s)
  PROVE  TypeOK' /\ LoopInv'
<1>1. saving[s] = "none"
  BY DEF LoopInv, LoopAt, Place, Refused
<1>2. QED
  BY <1>1, AttemptFailedLoop DEF Refused

LEMMA AcceptedLoop ==
  ASSUME TypeOK, LoopInv, NEW s \in Sends, Accepted(s)
  PROVE  TypeOK' /\ LoopInv'
<1>1. TypeOK'
  BY DeliveryAssumption DEF TypeOK, Status, Returned, Accepted, Save, ForgetCircuit
<1>2. ASSUME NEW t \in Sends PROVE LoopAt(t)'
  <2>1. CASE t = s
    BY <2>1 DEF TypeOK, LoopInv, LoopAt, Place, PostsDue, Accepted, Save
  <2>2. CASE t # s
    BY <2>2, OthersLoop DEF TypeOK, Accepted, Save
  <2>3. QED
    BY <2>1, <2>2
<1>3. QED
  BY <1>1, <1>2 DEF LoopInv

LEMMA WakeLoop ==
  ASSUME TypeOK, LoopInv, NEW s \in Sends, Wake(s)
  PROVE  TypeOK' /\ LoopInv'
<1>1. TypeOK'
  BY DEF TypeOK, Status, Running, Wake, BeginAttempt, Save, breakerVars, historyVars
<1>2. ASSUME NEW t \in Sends PROVE LoopAt(t)'
  <2>1. CASE t = s
    BY <2>1, DeliveryAssumption
       DEF TypeOK, LoopInv, LoopAt, Place, PostsDue, Wake, BeginAttempt, Save, historyVars
  <2>2. CASE t # s
    BY <2>2, OthersLoop DEF TypeOK, Wake, BeginAttempt, Save, historyVars
  <2>3. QED
    BY <2>1, <2>2
<1>3. QED
  BY <1>1, <1>2 DEF LoopInv

LEMMA TickLoop ==
  ASSUME TypeOK, LoopInv, Tick
  PROVE  TypeOK' /\ LoopInv'
<1>1. TypeOK'
  BY DeliveryAssumption DEF TypeOK, Tick, Lower, historyVars
<1>2. LoopInv'
  BY OthersLoop DEF LoopInv, Tick, historyVars
<1>3. QED
  BY <1>1, <1>2

LEMMA CrashLoop ==
  ASSUME TypeOK, LoopInv, Crash
  PROVE  TypeOK' /\ LoopInv'
<1>1. TypeOK'
  BY DeliveryAssumption DEF TypeOK, Crash
<1>2. LoopInv'
  BY DEF TypeOK, LoopInv, LoopAt, Place, PostsDue, Crash
<1>3. QED
  BY <1>1, <1>2

LEMMA LoopStep == TypeOK /\ LoopInv /\ Step => TypeOK' /\ LoopInv'
BY PersistLoop, PersistFailsLoop, CallLoop, CheckCircuitLoop, PostLoop, RefusedLoop, AcceptedLoop, WakeLoop,
   TickLoop, CrashLoop
   DEF Step, SendStep, Proceed, Abort
--------------------------------------------------------------------------------
(* The circuit breaker *)

\* A failure recorded on an entry that counts at most the failures of the run.
LEMMA RecordFailureBreaker ==
  ASSUME TypeOK, BreakerInv, NEW u \in Urls, NEW n \in Nat,
         n \in {0, failures[u]}, RecordFailure(u, n), NoteFailure(u)
  PROVE  BreakerInv'
<1> USE DeliveryAssumption
<1> SUFFICES ASSUME NEW v \in Urls
             PROVE  BreakerAt(v)'
  BY DEF BreakerInv
<1>1. CASE v # u
  BY <1>1 DEF TypeOK, BreakerInv, BreakerAt, RecordFailure, NoteFailure, breakerVars
<1>2. CASE v = u
  <2>1. failRun'[u] = IF failRun[u] < Threshold THEN failRun[u] + 1 ELSE failRun[u]
    BY DEF TypeOK, NoteFailure
  <2>2. CASE ~BreakerEnabled
    BY <1>2, <2>1, <2>2 DEF TypeOK, BreakerInv, BreakerAt, RecordFailure, breakerVars
  <2>3. CASE BreakerEnabled /\ n + 1 >= Threshold
    <3>1. tripped'[u] /\ failures'[u] = n + 1
      BY <2>3 DEF TypeOK, RecordFailure
    <3>2. n <= failRun[u]  \/ failRun[u] = Threshold
      BY DEF TypeOK, BreakerInv, BreakerAt
    <3>3. QED
      BY <1>2, <2>1, <2>3, <3>1, <3>2 DEF TypeOK, BreakerAt
  <2>4. CASE BreakerEnabled /\ n + 1 < Threshold
    <3>1. ~tripped'[u] /\ failures'[u] = n + 1
      <4>1. ~(n + 1 >= Threshold)
        BY <2>4
      <4>2. ~tripped'[u]
        BY <2>4, <4>1, Zenon DEF TypeOK, RecordFailure
      <4>3. QED
        BY <2>4, <4>2 DEF TypeOK, RecordFailure
    <3>2. n <= failRun[u]  \/ failRun[u] = Threshold
      BY DEF TypeOK, BreakerInv, BreakerAt
    <3>3. QED
      BY <1>2, <2>1, <2>4, <3>1, <3>2 DEF TypeOK, BreakerAt
  <2>5. QED
    BY <2>2, <2>3, <2>4
<1>3. QED
  BY <1>1, <1>2

LEMMA ForgetBreaker ==
  ASSUME TypeOK, BreakerInv, NEW u \in Urls, ForgetCircuit(u),
         \A v \in Urls : v # u => failRun'[v] = failRun[v],
         failRun'[u] \in Nat
  PROVE  BreakerInv'
<1> USE DeliveryAssumption
<1> SUFFICES ASSUME NEW v \in Urls
             PROVE  BreakerAt(v)'
  BY DEF BreakerInv
<1>1. CASE v # u
  BY <1>1 DEF TypeOK, BreakerInv, BreakerAt, ForgetCircuit
<1>2. CASE v = u
  BY <1>2 DEF TypeOK, BreakerAt, ForgetCircuit
<1>3. QED
  BY <1>1, <1>2

LEMMA BreakerStep == TypeOK /\ BreakerInv /\ Step => BreakerInv'
<1> SUFFICES ASSUME TypeOK, BreakerInv, Step
             PROVE  BreakerInv'
  OBVIOUS
<1>0. ASSUME UNCHANGED <<failures, tripped, failRun>> PROVE BreakerInv'
  BY <1>0 DEF BreakerInv, BreakerAt
<1>1. ASSUME NEW s \in Sends, Persist(s) \/ PersistFails(s) \/ Wake(s) PROVE BreakerInv'
  BY <1>0, <1>1 DEF Persist, PersistFails, Wake, breakerVars, historyVars
<1>2. ASSUME NEW s \in Sends, CheckCircuit(s) PROVE BreakerInv'
  <2> DEFINE known == IF Expired(url[s]) THEN 0 ELSE failures[url[s]]
  <2>1. url[s] \in Urls /\ known \in Nat /\ failRun[url[s]] \in Nat
    BY DEF TypeOK
  <2>2. CASE GiveUp(s, known)
    BY <2>1, <2>2, RecordFailureBreaker DEF GiveUp
  <2>3. CASE ForgetCircuit(url[s]) /\ UNCHANGED failRun
    BY <2>1, <2>3, ForgetBreaker
  <2>4. CASE UNCHANGED breakerVars /\ UNCHANGED failRun
    BY <1>0, <2>4 DEF breakerVars
  <2>5. QED
    BY <1>2, <2>2, <2>3, <2>4 DEF CheckCircuit
<1>3. ASSUME NEW s \in Sends, AttemptFailed(s) PROVE BreakerInv'
  <2>1. url[s] \in Urls /\ failures[url[s]] \in Nat
    BY DEF TypeOK
  <2>2. CASE GiveUp(s, failures[url[s]])
    BY <2>1, <2>2, RecordFailureBreaker DEF GiveUp
  <2>3. CASE UNCHANGED <<breakerVars, failRun>>
    BY <1>0, <2>3 DEF breakerVars
  <2>4. QED
    BY <1>3, <2>2, <2>3 DEF AttemptFailed
<1>4. ASSUME NEW s \in Sends, Post(s) PROVE BreakerInv'
  <2>1. CASE UNCHANGED <<breakerVars, failRun>>
    BY <1>0, <2>1 DEF breakerVars
  <2>2. QED
    BY <1>3, <1>4, <2>1 DEF Post
<1>5. ASSUME NEW s \in Sends, Refused(s) PROVE BreakerInv'
  BY <1>3, <1>5 DEF Refused
<1>6. ASSUME NEW s \in Sends, Accepted(s) PROVE BreakerInv'
  BY <1>6, ForgetBreaker DEF Accepted, TypeOK
<1>7. ASSUME NEW s \in Sends, NEW e \in Events, NEW u \in Urls, NEW d \in BOOLEAN,
             Call(s, e, u, d)
      PROVE  BreakerInv'
  BY <1>0, <1>7 DEF Call, breakerVars
<1>8. CASE Tick
  BY <1>0, <1>8 DEF Tick, historyVars
<1>9. CASE Crash
  <2>1. ASSUME NEW u \in Urls PROVE BreakerAt(u)'
    BY <1>9, DeliveryAssumption DEF TypeOK, Crash, BreakerAt
  <2>2. QED
    BY <2>1 DEF BreakerInv
<1>10. QED
  BY <1>1, <1>2, <1>4, <1>5, <1>6, <1>7, <1>8, <1>9 DEF Step, SendStep, Proceed, Abort

--------------------------------------------------------------------------------
(* The delivery log *)

\* A send's save carries "delivered" only once it was accepted.
LEMMA LogStep == TypeOK /\ LoopInv /\ LogInv /\ Step => LogInv'
<1> SUFFICES ASSUME TypeOK, LoopInv, LogInv, Step
             PROVE  LogInv'
  OBVIOUS
<1> USE DEF LogInv, DeliveredRowIsTrue
<1>1. ASSUME NEW s \in Sends, Persist(s) \/ PersistFails(s) PROVE LogInv'
  BY <1>1 DEF TypeOK, Persist, PersistFails, historyVars
<1>2. ASSUME NEW s \in Sends, CheckCircuit(s) PROVE LogInv'
  BY <1>2 DEF TypeOK, CheckCircuit, BeginAttempt, GiveUp, Save
<1>3. ASSUME NEW s \in Sends, AttemptFailed(s), UNCHANGED <<event, row, acked>>
      PROVE  LogInv'
  BY <1>3 DEF TypeOK, AttemptFailed, GiveUp, Save
<1>4. ASSUME NEW s \in Sends, Post(s) PROVE LogInv'
  <2>1. CASE UNCHANGED saving
    BY <1>4, <2>1 DEF Post
  <2>2. QED
    BY <1>3, <1>4, <2>1 DEF Post
<1>5. ASSUME NEW s \in Sends, Refused(s) PROVE LogInv'
  BY <1>3, <1>5 DEF Refused
<1>6. ASSUME NEW s \in Sends, Accepted(s) PROVE LogInv'
  BY <1>6 DEF TypeOK, Accepted, Save
<1>7. ASSUME NEW s \in Sends, Wake(s) PROVE LogInv'
  BY <1>7 DEF TypeOK, Wake, BeginAttempt, Save, historyVars
<1>8. ASSUME NEW s \in Sends, NEW e \in Events, NEW u \in Urls, NEW d \in BOOLEAN,
             Call(s, e, u, d)
      PROVE  LogInv'
  BY <1>8 DEF TypeOK, Call, Save
<1>9. CASE Tick
  BY <1>9 DEF Tick, historyVars
<1>10. CASE Crash
  BY <1>10 DEF TypeOK, Crash
<1>11. QED
  BY <1>1, <1>2, <1>4, <1>5, <1>6, <1>7, <1>8, <1>9, <1>10
     DEF Step, SendStep, Proceed, Abort
--------------------------------------------------------------------------------
(* The theorems *)

LEMMA InitIInv == Init => IInv
<1> SUFFICES ASSUME Init
             PROVE  IInv
  OBVIOUS
<1> USE DeliveryAssumption DEF Init
<1>1. TypeOK
  BY DEF TypeOK
<1>2. LoopInv
  BY DEF LoopInv, LoopAt, Place, PostsDue
<1>3. BreakerInv
  BY DEF BreakerInv, BreakerAt
<1>4. LogInv
  BY DEF LogInv, DeliveredRowIsTrue
<1>5. QED
  BY <1>1, <1>2, <1>3, <1>4 DEF IInv

\* IInv is inductive under every action of a send and of its environment, so
\* also where an event has been through the queue.
LEMMA StepIInv == IInv /\ Step => IInv'
BY LoopStep, BreakerStep, LogStep DEF IInv

LEMMA NextIInv == IInv /\ [Next]_vars => IInv'
<1> SUFFICES ASSUME IInv, [Next]_vars
             PROVE  IInv'
  OBVIOUS
<1>1. CASE Next
  BY <1>1, StepIInv DEF Next, Step
<1>2. CASE UNCHANGED vars
  BY <1>2 DEF vars, callVars, breakerVars, historyVars, IInv, TypeOK, LoopInv, LoopAt, Place,
              PostsDue, BreakerInv, BreakerAt, LogInv, DeliveredRowIsTrue
<1>3. QED
  BY <1>1, <1>2

\* The inductive invariant holds of every behaviour.
THEOREM Invariance == Spec => []IInv
BY InitIInv, NextIInv, PTL DEF Spec

\* Types are preserved whatever order the awaits of concurrent sends resolve in.
THEOREM TypeCorrect == Spec => []TypeOK
BY Invariance, PTL DEF IInv

\* send() reports success only if the receiver accepted the event in this call,
\* and failure only after every attempt it was given.
THEOREM ResultEarned == Spec => []ResultIsEarned
<1>1. IInv => ResultIsEarned
  BY DEF IInv, TypeOK, LoopInv, LoopAt, Place, PostsDue, ResultIsEarned
<1>2. QED
  BY <1>1, Invariance, PTL

\* The delivery log never claims a delivery no receiver confirmed.
THEOREM DeliveredRowTrue == Spec => []DeliveredRowIsTrue
<1>1. IInv => DeliveredRowIsTrue
  BY DEF IInv, LogInv
<1>2. QED
  BY <1>1, Invariance, PTL

\* A circuit trips only after Threshold failed sends in a row.
THEOREM TripEarned == Spec => []TripNeedsFailedSends
<1>1. IInv => TripNeedsFailedSends
  BY DEF IInv, BreakerInv, BreakerAt, TripNeedsFailedSends
<1>2. QED
  BY <1>1, Invariance, PTL
--------------------------------------------------------------------------------
(* Rows settle *)

\* An action under which no send stops being in progress and no row changes.
LEMMA OwnersKept ==
  ASSUME UnsettledRowHasSend, UNCHANGED <<row, event, forsaken>>,
         \A s \in Sends : Busy(s) => Busy(s)'
  PROVE  UnsettledRowHasSend'
BY DEF UnsettledRowHasSend

LEMMA RowStep ==
  ASSUME PartialUpserts, TypeOK, LoopInv, UnsettledRowHasSend, Step
  PROVE  UnsettledRowHasSend'
<1>1. ASSUME NEW s \in Sends, Persist(s) PROVE UnsettledRowHasSend'
  <2> SUFFICES ASSUME NEW e \in Events, row'[e] \in {"queued", "delivering"},
                      e \notin forsaken'
               PROVE  \E t \in Sends : Busy(t)' /\ event'[t] = e
    BY DEF UnsettledRowHasSend
  <2>1. CASE e = event[s]
    <3>1. row'[e] = saving[s]
      BY <1>1, <2>1 DEF Persist, TypeOK
    <3>2. pc[s] \in Running
      BY <3>1 DEF LoopInv, LoopAt, Place, TypeOK, Running, Returned
    <3>3. QED
      BY <1>1, <2>1, <3>2 DEF Persist, Busy
  <2>2. CASE e # event[s]
    <3>1. row'[e] = row[e] /\ forsaken' = forsaken /\ event' = event
      BY <1>1, <2>2 DEF Persist, TypeOK, historyVars
    <3>2. PICK t \in Sends : Busy(t) /\ event[t] = e
      BY <3>1 DEF UnsettledRowHasSend
    <3>3. t # s
      BY <2>2, <3>2
    <3>4. Busy(t)'
      BY <1>1, <3>2, <3>3 DEF Persist, Busy, TypeOK
    <3>5. QED
      BY <3>1, <3>2, <3>4
  <2>3. QED
    BY <2>1, <2>2
<1>1a. ASSUME NEW s \in Sends, PersistFails(s) PROVE UnsettledRowHasSend'
  <2> SUFFICES ASSUME NEW e \in Events, row[e] \in {"queued", "delivering"},
                      e \notin forsaken'
               PROVE  \E t \in Sends : Busy(t)' /\ event'[t] = e
    BY <1>1a DEF PersistFails, UnsettledRowHasSend
  <2>1. PICK t \in Sends : Busy(t) /\ event[t] = e
    BY <1>1a DEF PersistFails, UnsettledRowHasSend
  <2>2. CASE t = s
    <3>1. pc[s] \in Running
      BY <1>1a, <2>1, <2>2 DEF PersistFails, TypeOK, LoopInv, LoopAt, Place, Running, Returned
    <3>2. QED
      BY <1>1a, <2>1, <2>2, <3>1 DEF PersistFails, Busy
  <2>3. CASE t # s
    BY <1>1a, <2>1, <2>3 DEF PersistFails, Busy, TypeOK
  <2>4. QED
    BY <2>2, <2>3
<1>2. ASSUME NEW s \in Sends, CheckCircuit(s) PROVE UnsettledRowHasSend'
  <2>1. \A t \in Sends : Busy(t) => Busy(t)'
    BY <1>2 DEF CheckCircuit, BeginAttempt, GiveUp, Save, Busy, Running, TypeOK
  <2>2. QED
    BY <1>2, <2>1, OwnersKept DEF CheckCircuit
<1>3. ASSUME NEW s \in Sends, AttemptFailed(s), UNCHANGED <<row, event, forsaken>>
      PROVE  UnsettledRowHasSend'
  <2>1. \A t \in Sends : Busy(t) => Busy(t)'
    BY <1>3 DEF AttemptFailed, GiveUp, Save, Busy, Running, TypeOK
  <2>2. QED
    BY <1>3, <2>1, OwnersKept
<1>4. ASSUME NEW s \in Sends, Post(s) PROVE UnsettledRowHasSend'
  <2>1. CASE dated[s]
    <3>1. \A t \in Sends : Busy(t) => Busy(t)'
      BY <1>4, <2>1 DEF Post, Busy, Running, TypeOK
    <3>2. QED
      BY <1>4, <3>1, OwnersKept DEF Post
  <2>2. CASE ~dated[s]
    BY <1>3, <1>4, <2>2 DEF Post
  <2>3. QED
    BY <2>1, <2>2
<1>5. ASSUME NEW s \in Sends, Refused(s) PROVE UnsettledRowHasSend'
  BY <1>3, <1>5 DEF Refused
<1>6. ASSUME NEW s \in Sends, Accepted(s) PROVE UnsettledRowHasSend'
  <2>1. \A t \in Sends : Busy(t) => Busy(t)'
    BY <1>6 DEF Accepted, Save, Busy, TypeOK
  <2>2. QED
    BY <1>6, <2>1, OwnersKept DEF Accepted
<1>7. ASSUME NEW s \in Sends, Wake(s) PROVE UnsettledRowHasSend'
  <2>1. \A t \in Sends : Busy(t) => Busy(t)'
    BY <1>7 DEF Wake, BeginAttempt, Save, Busy, Running, TypeOK
  <2>2. QED
    BY <1>7, <2>1, OwnersKept DEF Wake, historyVars
<1>8. ASSUME NEW s \in Sends, NEW e \in Events, NEW u \in Urls, NEW d \in BOOLEAN,
             Call(s, e, u, d)
      PROVE  UnsettledRowHasSend'
  <2>1. Busy(s)' /\ event'[s] = e /\ row' = row
    BY <1>8 DEF Call, Busy, Running, TypeOK
  <2>2. ASSUME NEW t \in Sends, Busy(t) PROVE Busy(t)' /\ event'[t] = event[t]
    BY <1>8, <2>2 DEF Call, Save, Busy, TypeOK
  <2>3. forsaken' = forsaken \ {e}
    BY <1>8 DEF Call
  <2>4. QED
    BY <2>1, <2>2, <2>3 DEF UnsettledRowHasSend
<1>9. CASE Tick
  BY <1>9, OwnersKept DEF Tick, Busy, historyVars
<1>10. CASE Crash
  <2>1. row' = row
        /\ forsaken' = forsaken \cup {event[s] : s \in {t \in Sends : Busy(t)}}
    BY <1>10 DEF Crash
  <2>2. QED
    BY <2>1 DEF UnsettledRowHasSend
<1>11. QED
  BY <1>1, <1>1a, <1>2, <1>4, <1>5, <1>6, <1>7, <1>8, <1>9, <1>10
     DEF Step, SendStep, Proceed, Abort

\* With a store that accepts partial records, a row reads 'queued' or
\* 'delivering' only while a send of its event is in progress, was killed, or had
\* the record of its result lost.
THEOREM RowsSettle ==
  ASSUME PartialUpserts
  PROVE  Spec => []UnsettledRowHasSend
<1>1. Init => UnsettledRowHasSend
  BY DEF Init, UnsettledRowHasSend
<1>2. IInv /\ UnsettledRowHasSend /\ [Next]_vars => UnsettledRowHasSend'
  <2> SUFFICES ASSUME IInv, UnsettledRowHasSend, [Next]_vars
               PROVE  UnsettledRowHasSend'
    OBVIOUS
  <2>1. CASE Next
    BY <2>1, RowStep DEF Next, Step, IInv
  <2>2. CASE UNCHANGED vars
    BY <2>2 DEF vars, callVars, historyVars, UnsettledRowHasSend, Busy
  <2>3. QED
    BY <2>1, <2>2
<1>3. QED
  BY <1>1, <1>2, Invariance, PTL DEF Spec

--------------------------------------------------------------------------------
(* Traffic to an open circuit dies out *)

\* A send that makes attempts at u after a step made them before it, unless the
\* step was its own check of a circuit that is not open.
LEMMA TrafficStep ==
  ASSUME TypeOK, Step, NEW u \in Urls, Open(u), NEW t \in Sends, t \in Attempting(u)'
  PROVE  t \in Attempting(u)
<1> USE DEF TypeOK, Attempting
<1>0. ASSUME pc'[t] = pc[t], url'[t] = url[t] PROVE t \in Attempting(u)
  BY <1>0
<1>1. ASSUME NEW s \in Sends, Persist(s) \/ PersistFails(s) PROVE t \in Attempting(u)
  BY <1>0, <1>1 DEF Persist, PersistFails
<1>2. ASSUME NEW s \in Sends, CheckCircuit(s) PROVE t \in Attempting(u)
  BY <1>2 DEF CheckCircuit, TurnsAway, BeginAttempt, GiveUp
<1>3. ASSUME NEW s \in Sends, Post(s) PROVE t \in Attempting(u)
  BY <1>3 DEF Post, AttemptFailed, GiveUp
<1>4. ASSUME NEW s \in Sends, Refused(s) PROVE t \in Attempting(u)
  BY <1>4 DEF Refused, AttemptFailed, GiveUp
<1>5. ASSUME NEW s \in Sends, Accepted(s) PROVE t \in Attempting(u)
  BY <1>5 DEF Accepted
<1>6. ASSUME NEW s \in Sends, Wake(s) PROVE t \in Attempting(u)
  BY <1>6 DEF Wake, BeginAttempt
<1>7. ASSUME NEW s \in Sends, NEW e \in Events, NEW v \in Urls, NEW d \in BOOLEAN,
             Call(s, e, v, d)
      PROVE  t \in Attempting(u)
  BY <1>7 DEF Call
<1>8. CASE Tick
  BY <1>0, <1>8 DEF Tick
<1>9. CASE Crash
  BY <1>9 DEF Crash
<1>10. QED
  BY <1>1, <1>2, <1>3, <1>4, <1>5, <1>6, <1>7, <1>8, <1>9 DEF Step, SendStep, Proceed, Abort

\* While a circuit stays open no send joins those that may still hit its URL.
THEOREM TrafficDiesOut == Spec => NoNewTrafficWhileOpen
<1>1. IInv /\ [Next]_vars =>
        [\A u \in Urls : Open(u) /\ Open(u)' => Attempting(u)' \subseteq Attempting(u)]_vars
  <2> SUFFICES ASSUME IInv, Next, NEW u \in Urls, Open(u)
               PROVE  Attempting(u)' \subseteq Attempting(u)
    OBVIOUS
  <2>1. Step /\ TypeOK
    BY DEF Next, Step, IInv
  <2>2. \A t \in Attempting(u)' : t \in Sends
    BY DEF Attempting
  <2>3. QED
    BY <2>1, <2>2, TrafficStep
<1>2. QED
  BY <1>1, Invariance, PTL DEF Spec, NoNewTrafficWhileOpen

--------------------------------------------------------------------------------
(* send() implements DeliveryPromise *)

\* A step that moves no phase and no acceptance.
LEMMA PhaseKept ==
  ASSUME NEW t \in Sends, pc'[t] = pc[t], saving'[t] = saving[t]
  PROVE  Phase(t)' = Phase(t)
BY DEF Phase, Busy

LEMMA PromiseStep ==
  ASSUME TypeOK, LoopInv, Step
  PROVE  [Promise!PNext]_(Promise!pvars)
<1> DEFINE phase == [s \in Sends |-> Phase(s)]
<1> USE DEF Promise!PNext, Promise!pvars
<1>0. ASSUME accepted' = accepted, \A t \in Sends : Phase(t)' = Phase(t)
      PROVE  UNCHANGED Promise!pvars
  BY <1>0
<1>1. ASSUME NEW s \in Sends, Persist(s) \/ PersistFails(s)
      PROVE  [Promise!PNext]_(Promise!pvars)
  <2>1. \A t \in Sends \ {s} : Phase(t)' = Phase(t)
    BY <1>1, PhaseKept DEF Persist, PersistFails, TypeOK
  <2>2. accepted' = accepted /\ Phase(s) = "running"
    BY <1>1 DEF Persist, PersistFails, Phase, Busy, historyVars
  <2>3. CASE pc[s] \in Running
    <3>1. Phase(s)' = "running"
      BY <1>1, <2>3 DEF Persist, PersistFails, Phase, Busy
    <3>2. QED
      BY <1>0, <2>1, <2>2, <3>1
  <2>4. CASE pc[s] \in Returned
    <3>1. Phase(s)' = IF accepted[s] THEN "delivered" ELSE "failed"
      BY <1>1, <2>4 DEF Persist, PersistFails, Phase, Busy, Running, Returned, TypeOK, LoopInv, LoopAt
    <3>2. phase' = [phase EXCEPT ![s] = IF accepted[s] THEN "delivered" ELSE "failed"]
      BY <2>1, <3>1
    <3>3. Promise!Return(s)
      BY <2>2, <3>2 DEF Promise!Return
    <3>4. QED
      BY <3>3
  <2>5. pc[s] # "idle"
    BY <1>1 DEF Persist, PersistFails, LoopInv, LoopAt, Place
  <2>6. QED
    BY <2>3, <2>4, <2>5 DEF TypeOK
<1>2. ASSUME NEW s \in Sends, Busy(s), Busy(s)', accepted' = accepted,
             \A t \in Sends \ {s} : pc'[t] = pc[t] /\ saving'[t] = saving[t]
      PROVE  UNCHANGED Promise!pvars
  <2>1. Phase(s)' = Phase(s)
    BY <1>2 DEF Phase
  <2>2. \A t \in Sends \ {s} : Phase(t)' = Phase(t)
    BY <1>2, PhaseKept
  <2>3. QED
    BY <1>0, <1>2, <2>1, <2>2
<1>3. ASSUME NEW s \in Sends, CheckCircuit(s) PROVE UNCHANGED Promise!pvars
  <2>1. Busy(s) /\ Busy(s)' /\ accepted' = accepted
    BY <1>3 DEF CheckCircuit, BeginAttempt, GiveUp, Save, Busy, Running, TypeOK
  <2>2. \A t \in Sends \ {s} : pc'[t] = pc[t] /\ saving'[t] = saving[t]
    BY <1>3 DEF CheckCircuit, BeginAttempt, GiveUp, Save, TypeOK
  <2>3. QED
    BY <1>2, <2>1, <2>2
<1>4. ASSUME NEW s \in Sends, pc[s] \in Running, AttemptFailed(s), accepted' = accepted
      PROVE  UNCHANGED Promise!pvars
  <2>1. Busy(s) /\ Busy(s)'
    BY <1>4 DEF AttemptFailed, GiveUp, Save, Busy, Running, TypeOK
  <2>2. \A t \in Sends \ {s} : pc'[t] = pc[t] /\ saving'[t] = saving[t]
    BY <1>4 DEF AttemptFailed, GiveUp, Save, TypeOK
  <2>3. QED
    BY <1>2, <1>4, <2>1, <2>2
<1>5. ASSUME NEW s \in Sends, Post(s) PROVE UNCHANGED Promise!pvars
  <2>1. CASE dated[s]
    <3>1. Busy(s) /\ Busy(s)' /\ accepted' = accepted
      BY <1>5, <2>1 DEF Post, Busy, Running, TypeOK
    <3>2. \A t \in Sends \ {s} : pc'[t] = pc[t] /\ saving'[t] = saving[t]
      BY <1>5, <2>1 DEF Post, TypeOK
    <3>3. QED
      BY <1>2, <3>1, <3>2
  <2>2. CASE ~dated[s]
    BY <1>4, <1>5, <2>2 DEF Post, Running
  <2>3. QED
    BY <2>1, <2>2
<1>6. ASSUME NEW s \in Sends, Refused(s) PROVE UNCHANGED Promise!pvars
  BY <1>4, <1>6 DEF Refused, Running
<1>7. ASSUME NEW s \in Sends, Wake(s) PROVE UNCHANGED Promise!pvars
  <2>1. Busy(s) /\ Busy(s)' /\ accepted' = accepted
    BY <1>7 DEF Wake, BeginAttempt, Save, Busy, Running, TypeOK, historyVars
  <2>2. \A t \in Sends \ {s} : pc'[t] = pc[t] /\ saving'[t] = saving[t]
    BY <1>7 DEF Wake, BeginAttempt, Save, TypeOK
  <2>3. QED
    BY <1>2, <2>1, <2>2
<1>8. ASSUME NEW s \in Sends, Accepted(s) PROVE Promise!PNext
  <2>1. Phase(s) = "running" /\ Phase(s)' = "running"
    BY <1>8 DEF Accepted, Save, Phase, Busy, Running, TypeOK
  <2>2. \A t \in Sends \ {s} : Phase(t)' = Phase(t)
    BY <1>8, PhaseKept DEF Accepted, Save, TypeOK
  <2>3. phase' = phase
    BY <2>1, <2>2
  <2>4. Promise!Accept(s)
    BY <1>8, <2>1, <2>3 DEF Accepted, Promise!Accept
  <2>5. QED
    BY <2>4
<1>9. ASSUME NEW s \in Sends, NEW e \in Events, NEW u \in Urls, NEW d \in BOOLEAN,
             Call(s, e, u, d)
      PROVE  Promise!PNext
  <2>1. Phase(s) # "running" /\ Phase(s)' = "running"
    BY <1>9 DEF Call, Save, Phase, Busy, Running, Returned, TypeOK
  <2>2. \A t \in Sends \ {s} : Phase(t)' = Phase(t)
    BY <1>9, PhaseKept DEF Call, Save, TypeOK
  <2>3. phase' = [phase EXCEPT ![s] = "running"]
    BY <2>1, <2>2
  <2>4. Promise!Start(s)
    BY <1>9, <2>1, <2>3 DEF Call, Promise!Start
  <2>5. QED
    BY <2>4
<1>10. CASE Tick
  BY <1>0, <1>10, PhaseKept DEF Tick, historyVars
<1>11. CASE Crash
  <2>1. \A t \in Sends : Phase(t)' = "idle"
    BY <1>11 DEF Crash, Phase, Busy, Running
  <2>2. Promise!Forget
    BY <1>11, <2>1 DEF Crash, Promise!Forget
  <2>3. QED
    BY <2>2
<1>12. QED
  BY <1>1, <1>3, <1>5, <1>6, <1>7, <1>8, <1>9, <1>10, <1>11
     DEF Step, SendStep, Proceed, Abort

\* Whatever retries, backoff, breaker and log do, a caller sees what
\* DeliveryPromise allows.
THEOREM KeepsPromise == Spec => Promise!PSafety
<1>1. Init => Promise!PInit
  BY DEF Init, Promise!PInit, Phase, Busy, Running
<1>2. IInv /\ [Next]_vars => [Promise!PNext]_(Promise!pvars)
  <2> SUFFICES ASSUME IInv, [Next]_vars
               PROVE  [Promise!PNext]_(Promise!pvars)
    OBVIOUS
  <2>1. CASE Next
    BY <2>1, PromiseStep DEF Next, Step, IInv
  <2>2. CASE UNCHANGED vars
    BY <2>2 DEF vars, callVars, historyVars, Promise!pvars, Phase, Busy
  <2>3. QED
    BY <2>1, <2>2
<1>3. QED
  BY <1>1, <1>2, Invariance, PTL DEF Spec, Promise!PSafety
=============================================================================
