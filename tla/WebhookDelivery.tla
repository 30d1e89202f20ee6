---------------------------- MODULE WebhookDelivery ----------------------------
(***************************************************************************)
(* Outgoing webhooks: concurrent WebhookService.send() calls in one Node   *)
(* process, the circuit breaker they share (WebhookCircuitBreaker) and the *)
(* delivery log they write (WebhookDeliveryStore).                         *)
(*                                                                         *)
(* An action is the code between two awaits.  saveDelivery() awaits the    *)
(* store, so it is issued in one action and takes effect in another        *)
(* (Persist).  Time is kept as countdowns that Tick lowers: the backoff    *)
(* sleep and the abort timer of each send, and the cooldown of each        *)
(* circuit.  No clock variable is needed and behaviours need not end.      *)
(***************************************************************************)
EXTENDS Integers

CONSTANTS
  Sends,           \* send() calls that can be in progress at once
  Events,          \* event ids: the key of a delivery row
  Urls,            \* target URLs: the key of a circuit
  MaxRetries,      \* config.retries ?? defaultRetries ?? 3
  BaseDelay,       \* config.retryDelay, in ticks
  Timeout,         \* config.timeout, in ticks
  BreakerEnabled,  \* whether the module provides a WebhookCircuitBreaker
  Threshold,       \* its threshold
  Cooldown,        \* its cooldownMs, in ticks
  PartialUpserts   \* whether the store accepts a row without event type and url

ASSUME DeliveryAssumption ==
  /\ MaxRetries \in Nat /\ BaseDelay \in Nat /\ Timeout \in Nat
  /\ BreakerEnabled \in BOOLEAN /\ PartialUpserts \in BOOLEAN
  /\ Threshold \in Nat \ {0} /\ Cooldown \in Nat

VARIABLES
  pc,        \* pc[s]: where call s is, or what it last returned
  event,     \* event[s], url[s]: its arguments
  url,
  dated,     \* dated[s]: event.timestamp is a Date (a Date that went through JSON is not)
  attempt,   \* attempt[s]: the loop counter
  timer,     \* timer[s]: ticks left of its backoff sleep or abort timer
  saving,    \* saving[s]: the status whose saveDelivery() is awaited, or "none"
  row,       \* row[e]: status column of the delivery row, or "absent"
  failures,  \* failures[u]: CircuitEntry.failures, 0 without an entry
  tripped,   \* tripped[u]: CircuitEntry.openUntil is not 0
  cooling,   \* cooling[u]: ticks until now > openUntil
  posts,     \* history: requests call s has made
  accepted,  \* history: the receiver answered call s with 2xx
  acked,     \* history: the events some receiver answered with 2xx
  failRun,   \* history: sends to u that ran out of retries since one succeeded
  forsaken   \* history: events whose last send died with the process, or whose
             \*   last write the store lost

callVars    == <<pc, event, url, dated, attempt, timer, saving>>
breakerVars == <<failures, tripped, cooling>>
historyVars == <<posts, accepted, acked, failRun, forsaken>>
vars        == <<callVars, row, breakerVars, historyVars>>

\* What send() returned.
Returned == {"delivered", "failed", "rejected"}
Running  == {"queued", "marking", "posting", "backoff"}

Status == {"queued", "delivering", "delivered", "failed"}

\* Call s is in progress: started, and its last save has not resolved.
Busy(s) == pc[s] \in Running \/ saving[s] # "none"

\* backoff after attempt k, webhook.service.ts:145.
BackoffDelay == [k \in 1..MaxRetries |-> BaseDelay * 2^(k - 1)]

\* A fact of arithmetic the provers cannot see (they do not interpret ^).
ASSUME BackoffAssumption == BackoffDelay \in [1..MaxRetries -> Nat]

--------------------------------------------------------------------------------
(* The circuit breaker.  An entry whose openUntil is 0 and failures 0 is as *)
(* good as no entry, so deleting one restores those values.                 *)

\* isOpen() answers true.
OpenForGood(u) == BreakerEnabled /\ tripped[u]   \* mutant: the cooldown is not looked at
Open(u) == BreakerEnabled /\ tripped[u] /\ cooling[u] > 0

\* isOpen() finds a cooldown that has passed and deletes the entry.
Expired(u) == BreakerEnabled /\ tripped[u] /\ cooling[u] = 0

\* Mutant: the count survives.
ForgetTripOnly(u) ==
  /\ tripped' = [tripped EXCEPT ![u] = FALSE]
  /\ cooling' = [cooling EXCEPT ![u] = 0]
  /\ UNCHANGED failures

ForgetCircuit(u) ==
  /\ failures' = [failures EXCEPT ![u] = 0]
  /\ tripped'  = [tripped  EXCEPT ![u] = FALSE]
  /\ cooling'  = [cooling  EXCEPT ![u] = 0]

\* Mutant: a failure extends openUntil from what it was and not from now.
RecordFailureExtends(u, known) ==
  IF ~BreakerEnabled
  THEN UNCHANGED breakerVars
  ELSE LET trips == known + 1 >= Threshold
       IN  /\ failures' = [failures EXCEPT ![u] = known + 1]
           /\ tripped'  = [tripped  EXCEPT ![u] = trips]
           /\ cooling'  = [cooling  EXCEPT ![u] = IF trips THEN @ + Cooldown + 1 ELSE 0]

\* recordFailure() on an entry that counts `known` failures.  Below the threshold
\* openUntil is still 0; at or above it every failure restarts the cooldown.
RecordFailure(u, known) ==
  IF ~BreakerEnabled
  THEN UNCHANGED breakerVars
  ELSE LET trips == known + 1 >= Threshold
       IN  /\ failures' = [failures EXCEPT ![u] = known + 1]
           /\ tripped'  = [tripped  EXCEPT ![u] = trips]
           /\ cooling'  = [cooling  EXCEPT ![u] = IF trips THEN Cooldown + 1 ELSE 0]

\* The history of what sends to u came to, saturating at Threshold.
NoteFailure(u) ==
  failRun' = [failRun EXCEPT ![u] = IF @ < Threshold THEN @ + 1 ELSE @]

--------------------------------------------------------------------------------
(* The delivery log. *)

\* Mutants: a failure is logged as a delivery; a failure is not logged.
SaveSwapped(s, status) ==
  saving' = [saving EXCEPT ![s] = IF status = "failed" THEN "delivered" ELSE status]
SaveUnlessFailed(s, status) ==
  saving' = [saving EXCEPT ![s] = IF status = "failed" THEN "none" ELSE status]

\* saveDelivery(): the write is on its way, and send() awaits it.
Save(s, status) == saving' = [saving EXCEPT ![s] = status]

\* Only the 'queued' record carries eventType and url.
Complete(status) == status = "queued"

\* The awaited upsert resolves.  A store that rejects it changes nothing: the
\* error is logged and swallowed.
Persist(s) ==
  /\ saving[s] # "none"
  /\ saving' = [saving EXCEPT ![s] = "none"]
  /\ row' = IF Complete(saving[s]) \/ PartialUpserts
            THEN [row EXCEPT ![event[s]] = saving[s]]
            ELSE row
  /\ UNCHANGED <<pc, event, url, dated, attempt, timer, breakerVars, historyVars>>

\* It rejects for another reason (the database is away): send() goes on as if it
\* had been written, and nothing writes a result that was lost again.
PersistFails(s) ==
  /\ saving[s] # "none"
  /\ saving' = [saving EXCEPT ![s] = "none"]
  /\ forsaken' = IF pc[s] \in Returned THEN forsaken \cup {event[s]} ELSE forsaken
  /\ UNCHANGED <<pc, event, url, dated, attempt, timer, row, breakerVars, posts,
                 accepted, acked, failRun>>

--------------------------------------------------------------------------------
(* send() *)

\* The call, up to the await of its first save.
Call(s, e, u, d) ==
  /\ ~Busy(s)
  /\ pc'       = [pc EXCEPT ![s] = "queued"]
  /\ event'    = [event EXCEPT ![s] = e]
  /\ url'      = [url EXCEPT ![s] = u]
  /\ dated'    = [dated EXCEPT ![s] = d]
  /\ attempt'  = [attempt EXCEPT ![s] = 0]
  /\ timer'    = [timer EXCEPT ![s] = 0]
  /\ Save(s, "queued")
  /\ posts'    = [posts EXCEPT ![s] = 0]
  /\ accepted' = [accepted EXCEPT ![s] = FALSE]
  /\ forsaken' = forsaken \ {e}
  /\ UNCHANGED <<row, breakerVars, acked, failRun>>

\* Mutant: a round is skipped.
BeginNextButOne(s, k) ==
  /\ pc' = [pc EXCEPT ![s] = "marking"]
  /\ attempt' = [attempt EXCEPT ![s] = k + 1]
  /\ Save(s, "delivering")

\* The next round of the loop: mark the row, then try.
BeginAttempt(s, k) ==
  /\ pc' = [pc EXCEPT ![s] = "marking"]
  /\ attempt' = [attempt EXCEPT ![s] = k]
  /\ Save(s, "delivering")

\* After the loop.
GiveUp(s, known) ==
  /\ pc' = [pc EXCEPT ![s] = "failed"]
  /\ Save(s, "failed")
  /\ RecordFailure(url[s], known)
  /\ NoteFailure(url[s])

\* send() does not try.
TurnsAwayLate(u) == Open(u) /\ failures[u] > Threshold   \* mutant: off by one
TurnsAway(u) == Open(u)

\* The breaker is consulted once, before the loop.
CheckCircuit(s) ==
  /\ pc[s] = "queued" /\ saving[s] = "none"
  /\ \/ /\ TurnsAway(url[s])
        /\ pc' = [pc EXCEPT ![s] = "rejected"]
        /\ Save(s, "failed")
        /\ UNCHANGED <<attempt, breakerVars, failRun>>
     \/ /\ ~TurnsAway(url[s]) /\ MaxRetries > 0
        /\ BeginAttempt(s, 1)
        /\ IF Expired(url[s]) THEN ForgetCircuit(url[s]) ELSE UNCHANGED breakerVars
        /\ UNCHANGED failRun
     \/ /\ ~TurnsAway(url[s]) /\ MaxRetries = 0
        /\ GiveUp(s, IF Expired(url[s]) THEN 0 ELSE failures[url[s]])
        /\ UNCHANGED attempt
  /\ UNCHANGED <<event, url, dated, timer, row, posts, accepted, acked, forsaken>>

\* An attempt that threw or was answered with an error status.
AttemptFailed(s) ==
  IF attempt[s] < MaxRetries
  THEN /\ pc' = [pc EXCEPT ![s] = "backoff"]
       /\ timer' = [timer EXCEPT ![s] = BackoffDelay[attempt[s]]]
       /\ UNCHANGED <<saving, breakerVars, failRun>>
  ELSE /\ GiveUp(s, failures[url[s]])
       /\ timer' = [timer EXCEPT ![s] = 0]

\* The body is built and fetch() called.  event.timestamp.toISOString() throws,
\* before any request, if the timestamp is no longer a Date.
Post(s) ==
  /\ pc[s] = "marking" /\ saving[s] = "none"
  /\ IF dated[s]
     THEN /\ pc' = [pc EXCEPT ![s] = "posting"]
          /\ timer' = [timer EXCEPT ![s] = Timeout]
          /\ posts' = [posts EXCEPT ![s] = @ + 1]
          /\ UNCHANGED <<saving, breakerVars, failRun>>
     ELSE /\ AttemptFailed(s)
          /\ UNCHANGED posts
  /\ UNCHANGED <<event, url, dated, attempt, row, accepted, acked, forsaken>>

\* response.ok: the entry of the circuit is deleted, whatever it says.
Accepted(s) ==
  /\ pc[s] = "posting"
  /\ pc' = [pc EXCEPT ![s] = "delivered"]
  /\ timer' = [timer EXCEPT ![s] = 0]
  /\ Save(s, "delivered")
  /\ ForgetCircuit(url[s])
  /\ accepted' = [accepted EXCEPT ![s] = TRUE]
  /\ acked' = acked \cup {event[s]}
  /\ failRun' = [failRun EXCEPT ![url[s]] = 0]
  /\ UNCHANGED <<event, url, dated, attempt, row, posts, forsaken>>

\* The receiver answers with an error status, or the connection fails.
Refused(s) ==
  /\ pc[s] = "posting"
  /\ AttemptFailed(s)
  /\ UNCHANGED <<event, url, dated, attempt, row, posts, accepted, acked, forsaken>>

\* The abort timer fires first.
AbortNever(s) == FALSE   \* mutant: a fetch without the timer
Abort(s) == timer[s] = 0 /\ Refused(s)

\* The backoff sleep ends.
Wake(s) ==
  /\ pc[s] = "backoff" /\ timer[s] = 0
  /\ BeginAttempt(s, attempt[s] + 1)
  /\ UNCHANGED <<event, url, dated, timer, row, breakerVars, historyVars>>

--------------------------------------------------------------------------------
(* The environment. *)

Lower(n) == IF n > 0 THEN n - 1 ELSE 0

Tick ==
  /\ (\E s \in Sends : timer[s] > 0) \/ (\E u \in Urls : cooling[u] > 0)
  /\ timer' = [s \in Sends |-> Lower(timer[s])]
  /\ cooling' = [u \in Urls |-> Lower(cooling[u])]
  /\ UNCHANGED <<pc, event, url, dated, attempt, saving, row, failures, tripped,
                 historyVars>>

\* The process dies and restarts: memory is lost, the delivery log is not.  A
\* write already sent to the store may or may not have been applied: the behaviour
\* in which Persist comes first is the one where it was.
Crash ==
  /\ forsaken' = forsaken \cup {event[s] : s \in {t \in Sends : Busy(t)}}
  /\ pc' = [s \in Sends |-> "idle"]
  /\ attempt' = [s \in Sends |-> 0]
  /\ timer' = [s \in Sends |-> 0]
  /\ saving' = [s \in Sends |-> "none"]
  /\ failures' = [u \in Urls |-> 0]
  /\ tripped' = [u \in Urls |-> FALSE]
  /\ cooling' = [u \in Urls |-> 0]
  /\ posts' = [s \in Sends |-> 0]
  /\ accepted' = [s \in Sends |-> FALSE]
  /\ UNCHANGED <<event, url, dated, row, acked, failRun>>

--------------------------------------------------------------------------------
Init ==
  /\ pc = [s \in Sends |-> "idle"]
  /\ event \in [Sends -> Events] /\ url \in [Sends -> Urls]
  /\ dated = [s \in Sends |-> TRUE]
  /\ attempt = [s \in Sends |-> 0]
  /\ timer = [s \in Sends |-> 0]
  /\ saving = [s \in Sends |-> "none"]
  /\ row = [e \in Events |-> "absent"]
  /\ failures = [u \in Urls |-> 0]
  /\ tripped = [u \in Urls |-> FALSE]
  /\ cooling = [u \in Urls |-> 0]
  /\ posts = [s \in Sends |-> 0]
  /\ accepted = [s \in Sends |-> FALSE]
  /\ acked = {}
  /\ failRun = [u \in Urls |-> 0]
  /\ forsaken = {}

\* The process's own steps of a call; the receiver's are Accepted and Refused.
Proceed(s) == Persist(s) \/ CheckCircuit(s) \/ Post(s) \/ Abort(s) \/ Wake(s)

SendStep(s) == Proceed(s) \/ Accepted(s) \/ Refused(s)

\* Application code calls send() with an event whose timestamp is a Date.
Next ==
  \/ \E s \in Sends : SendStep(s) \/ PersistFails(s)
  \/ \E s \in Sends, e \in Events, u \in Urls : Call(s, e, u, TRUE)
  \/ Tick
  \/ Crash

Spec == Init /\ [][Next]_vars

\* Timers fire and the store's promises settle; nothing is assumed of receivers.
Fairness == WF_vars(Tick) /\ \A s \in Sends : WF_vars(Proceed(s))

FairSpec == Spec /\ Fairness

--------------------------------------------------------------------------------
(* Properties *)

TypeOK ==
  /\ pc \in [Sends -> {"idle"} \cup Running \cup Returned]
  /\ event \in [Sends -> Events] /\ url \in [Sends -> Urls]
  /\ dated \in [Sends -> BOOLEAN]
  /\ attempt \in [Sends -> Nat]
  /\ timer \in [Sends -> Nat]
  /\ saving \in [Sends -> {"none"} \cup Status]
  /\ row \in [Events -> {"absent"} \cup Status]
  /\ failures \in [Urls -> Nat]
  /\ tripped \in [Urls -> BOOLEAN]
  /\ cooling \in [Urls -> 0..Cooldown + 1]
  /\ posts \in [Sends -> Nat]
  /\ accepted \in [Sends -> BOOLEAN]
  /\ acked \subseteq Events
  /\ failRun \in [Urls -> 0..Threshold]
  /\ forsaken \subseteq Events

\* The retry loop of send() is right however it interleaves with other calls and
\* with the breaker: a send that gives up has made every attempt it was given and
\* none was accepted, one that reports success was accepted, and one the breaker
\* turned away made no request at all.
ResultIsEarned ==
  \A s \in Sends :
    /\ pc[s] = "failed" /\ dated[s] => posts[s] = MaxRetries /\ ~accepted[s]
    /\ pc[s] = "delivered" => posts[s] = attempt[s] /\ accepted[s]
    /\ pc[s] = "rejected" => posts[s] = 0

\* The delivery log never claims a delivery that no receiver confirmed, also
\* after crashes and when several sends share an event id (one row).
DeliveredRowIsTrue == \A e \in Events : row[e] = "delivered" => e \in acked

\* The delivery log settles: a row reads 'queued' or 'delivering' only while a
\* send of that event is in progress, or after the process died under one or the
\* store lost the record of its result.  Any other write may be lost.
UnsettledRowHasSend ==
  \A e \in Events :
    row[e] \in {"queued", "delivering"} =>
      e \in forsaken \/ \E s \in Sends : Busy(s) /\ event[s] = e

\* A circuit trips only on Threshold sends to that URL that exhausted their
\* retries with no success in between, whatever order concurrent sends end in.
TripNeedsFailedSends ==
  \A u \in Urls : tripped[u] => failRun[u] = Threshold

\* Sends past the breaker's check that have attempts left at u.
Attempting(u) ==
  {s \in Sends : pc[s] \in {"marking", "posting", "backoff"} /\ url[s] = u}

\* While a circuit stays open the sends that may still hit the URL are those
\* already past the check: no send joins them, so the traffic dies out.
NoNewTrafficWhileOpen ==
  [][\A u \in Urls : Open(u) /\ Open(u)' => Attempting(u)' \subseteq Attempting(u)]_vars

\* An open circuit does not stay open for ever, although sends already in
\* progress can restart its cooldown and new sends keep arriving.
CircuitRecovers == \A u \in Urls : Open(u) ~> ~Open(u)

\* send() keeps the promise of DeliveryPromise: the phase a caller sees is
\* "running" until the last save has resolved.
Phase(s) ==
  CASE Busy(s) -> "running"
    [] ~Busy(s) /\ pc[s] = "rejected" -> "failed"
    [] OTHER -> pc[s]

Promise == INSTANCE DeliveryPromise WITH phase <- [s \in Sends |-> Phase(s)]

PromiseKept == Promise!PSpec
=============================================================================
