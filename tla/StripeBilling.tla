----------------------------- MODULE StripeBilling -----------------------------
(***************************************************************************)
(* The rest of StripeService: refunds and their rows, subscriptions,       *)
(* payment methods and customers, by concurrent calls; and the events that *)
(* Stripe sends to the webhook endpoint, handled under the lock of the     *)
(* PaymentStore as stripe/README.md has a handler do it, by the instances  *)
(* of a server.                                                            *)
(*                                                                         *)
(* Stripe is the sandbox client that the repository contains: it forgets   *)
(* everything, the ids it has given out included, when its process ends,   *)
(* while the rows stay.  Ids of any kind come from one counter, but their  *)
(* prefixes keep the kinds apart, so the next id of a kind is any that     *)
(* this process has not given out.                                         *)
(***************************************************************************)
EXTENDS Integers, FiniteSets

CONSTANTS
  Clients,        \* service calls that can be in progress at once
  Refunds,        \* refund ids
  Subscriptions,  \* subscription ids
  Methods,        \* payment method ids
  Customers,      \* customer ids
  Events,         \* Stripe events, each with the id that is its lock's key
  Workers,        \* instances of the server
  Uses,           \* sets of parts that an application may use
  Nobody          \* no customer

Parts == {"refunds", "subscriptions", "events"}

\* An application uses some of the parts; the prefixes of ids keep their kinds apart.
ASSUME BillingAssumption ==
  /\ Uses \subseteq SUBSET Parts
  /\ Nobody \notin Customers
  /\ Refunds \cap Subscriptions = {}
  /\ Customers \cap (Refunds \cup Subscriptions) = {}

VARIABLES
  uses,        \* what this application uses
  req,         \* req[c]: where call c is
  refunds,     \* refunds[r]: status of the sandbox's refund
  minted,      \* the ids of refunds, subscriptions and customers given out by this process
  rows,        \* rows[r]: status in the refund's row
  subs,        \* subs[s]: status of the sandbox's subscription
  holder,      \* holder[m]: the customer payment method m is attached to, or "absent"
  customers,   \* the customers of the sandbox
  lock,        \* lock[e]: row of the lock of e: "none", "live" or "expired"
  worker,      \* worker[w]: where instance w is with a delivery
  sent,        \* events Stripe has sent
  due,         \* those whose receipt nobody has confirmed
  disturbed,   \* history: refunds that two calls worked on at once, or whose record the
               \* store did not take
  raced,       \* history: events that two instances looked for the lock of before either
               \* had it, or whose lock expired under its holder
  processed,   \* history: events whose processing was completed
  dropped      \* history: events confirmed as duplicates though no other processing of
               \* theirs was completed

sandbox == <<refunds, minted, subs, holder, customers>>
eventVars == <<lock, worker, sent, due, raced, processed, dropped>>
vars == <<uses, req, sandbox, rows, eventVars, disturbed>>

RefundStatus == {"absent", "succeeded", "canceled"}
SubscriptionState == {"absent", "active", "canceled"}

\* What the sandbox keeps of refunds, subscriptions and payment methods,
SandboxRefund == [Refunds -> RefundStatus]
SandboxSubscription == [Subscriptions -> SubscriptionState]
SandboxPaymentMethod == [Methods -> Customers \cup {Nobody, "absent"}]

\* and the tables of the store.
RefundRecord == [Refunds -> RefundStatus]
StripeLock == [Events -> {"none", "live", "expired"}]

Call == [at : {"idle", "creating"}]
        \cup [at : {"canceling", "saving", "updating"}, refund : Refunds]

Idle == [at |-> "idle"]
At(c, step) == req[c].at = step
Become(c, r) == req' = [req EXCEPT ![c] = r]

\* Call c is working on refund r.
WorksOn(c, r) == req[c].at \in {"canceling", "saving", "updating"} /\ req[c].refund = r

NoteOverlap(c, r) ==
  disturbed' = IF \E d \in Clients \ {c} : WorksOn(d, r) THEN disturbed \cup {r} ELSE disturbed

\* nextId(): the counter starts again with the process.
NextId(id) == id \notin minted /\ minted' = minted \cup {id}

--------------------------------------------------------------------------------
(* Refunds: the provider is called, then the store. *)

CreateRefund(c) ==
  /\ At(c, "idle") /\ "refunds" \in uses
  /\ Become(c, [at |-> "creating"])
  /\ UNCHANGED <<uses, sandbox, rows, eventVars, disturbed>>

\* refunds.create(): always succeeds, whatever has been refunded already.
ProviderCreate(c) ==
  /\ At(c, "creating")
  /\ \E r \in Refunds :
       /\ NextId(r)
       /\ refunds' = [refunds EXCEPT ![r] = "succeeded"]
       /\ Become(c, [at |-> "saving", refund |-> r])
       /\ NoteOverlap(c, r)
  /\ UNCHANGED <<uses, subs, holder, customers, rows, eventVars>>

\* saveRefund(): inserts the row, or overwrites the one an earlier process left.
SaveRefund(c) ==
  /\ At(c, "saving")
  /\ rows' = [rows EXCEPT ![req[c].refund] = "succeeded"]
  /\ Become(c, Idle)
  /\ UNCHANGED <<uses, sandbox, eventVars, disturbed>>

\* The id is whatever the caller passes: neither the provider nor a row need know it.
CancelRefund(c, r) ==
  /\ At(c, "idle") /\ "refunds" \in uses
  /\ Become(c, [at |-> "canceling", refund |-> r])
  /\ NoteOverlap(c, r)
  /\ UNCHANGED <<uses, sandbox, rows, eventVars>>

\* refunds.cancel(): an unknown refund becomes a canceled one.
ProviderCancel(c) ==
  /\ At(c, "canceling")
  /\ refunds' = [refunds EXCEPT ![req[c].refund] = "canceled"]
  /\ Become(c, [req[c] EXCEPT !.at = "updating"])
  /\ UNCHANGED <<uses, minted, subs, holder, customers, rows, eventVars, disturbed>>

\* updateRefund(): no row, no change.
KeepRow(c) ==   \* mutant: the answer is not recorded
  /\ At(c, "updating")
  /\ Become(c, Idle)
  /\ UNCHANGED <<uses, sandbox, rows, eventVars, disturbed>>
UpdateRefund(c) ==
  /\ At(c, "updating")
  /\ LET r == req[c].refund
     IN rows' = IF rows[r] = "absent" THEN rows ELSE [rows EXCEPT ![r] = "canceled"]
  /\ Become(c, Idle)
  /\ UNCHANGED <<uses, sandbox, eventVars, disturbed>>

\* The call rejects.  Once the provider has answered, its answer is not recorded.
Rejects(c) ==
  /\ ~At(c, "idle")
  /\ disturbed' = IF req[c].at \in {"saving", "updating"}
                    THEN disturbed \cup {req[c].refund} ELSE disturbed
  /\ Become(c, Idle)
  /\ UNCHANGED <<uses, sandbox, rows, eventVars>>

--------------------------------------------------------------------------------
(* Subscriptions, payment methods and customers: one call of the provider each, *)
(* which keeps them and nobody else does.                                       *)

\* What is to change of the sandbox's records, by an application that uses them.
Record(others) ==
  /\ "subscriptions" \in uses
  /\ UNCHANGED <<uses, req, refunds, rows, eventVars, disturbed, others>>

CreateSubscription(s) ==
  /\ Record(<<holder, customers>>)
  /\ NextId(s)
  /\ subs' = [subs EXCEPT ![s] = "active"]

\* An unknown one becomes a canceled one.
CancelSubscription(s) ==
  /\ Record(<<minted, holder, customers>>)
  /\ subs' = [subs EXCEPT ![s] = "canceled"]

\* An update changes price, trial and metadata, of an unknown one nothing.
KeepUpdated(s) ==   \* mutant: what is answered for an unknown one is kept
  /\ Record(<<minted, holder, customers>>)
  /\ subs' = [subs EXCEPT ![s] = IF @ = "absent" THEN "active" ELSE @]
UpdateSubscription(s) ==
  /\ Record(<<minted, holder, customers>>)
  /\ UNCHANGED subs

\* getSubscription(): an unknown one is reported as active.
GetSubscription(s) == IF subs[s] = "absent" THEN "active" ELSE subs[s]

\* A method that another customer holds moves without a question.
AttachPaymentMethod(m, customer) ==
  /\ Record(<<minted, subs, customers>>)
  /\ holder' = [holder EXCEPT ![m] = customer]

DetachPaymentMethod(m) ==
  /\ Record(<<minted, subs, customers>>)
  /\ holder' = [holder EXCEPT ![m] = Nobody]

CreateCustomer(id) ==
  /\ Record(<<subs, holder>>)
  /\ NextId(id)
  /\ customers' = customers \cup {id}

--------------------------------------------------------------------------------
(* Events.  A delivery is answered 200 when the handler returns, with an error   *)
(* when it throws.  Stripe delivers until a delivery was answered 200, and       *)
(* perhaps again.                                                                *)

Free == [at |-> "free"]
WorkerAt(w, step, e) == worker[w].at = step /\ worker[w].event = e
WorkerBecomes(w, step, e) == worker' = [worker EXCEPT ![w] = [at |-> step, event |-> e]]

\* The other instances that are at a step with e.
Others(w, steps, e) == {v \in Workers \ {w} : \E step \in steps : WorkerAt(v, step, e)}

notOfEvents == <<uses, req, sandbox, rows, disturbed>>

\* Something happens at Stripe.
Send(e) ==
  /\ "events" \in uses /\ e \notin sent
  /\ sent' = sent \cup {e}
  /\ due' = due \cup {e}
  /\ UNCHANGED <<notOfEvents, lock, worker, raced, processed, dropped>>

\* handleWebhook() constructs the event and calls the handler.
Deliver(w, e) ==
  /\ worker[w] = Free /\ e \in sent
  /\ WorkerBecomes(w, "arrived", e)
  /\ UNCHANGED <<notOfEvents, lock, sent, due, raced, processed, dropped>>

\* acquireLock(): there is no row, or one that has expired,
FindLock(w, e) ==
  /\ WorkerAt(w, "arrived", e) /\ lock[e] # "live"
  /\ WorkerBecomes(w, "acquiring", e)
  /\ raced' = IF Others(w, {"acquiring"}, e) # {} THEN raced \cup {e} ELSE raced
  /\ UNCHANGED <<notOfEvents, lock, sent, due, processed, dropped>>

\* ... and a row is saved, whatever the table has by now.
SaveLock(w, e) ==
  /\ WorkerAt(w, "acquiring", e)
  /\ lock' = [lock EXCEPT ![e] = "live"]
  /\ WorkerBecomes(w, "processing", e)
  /\ UNCHANGED <<notOfEvents, sent, due, raced, processed, dropped>>

\* The lock is not acquired: the handler returns, and the delivery is confirmed.
SkipAndRelease(w, e) ==   \* mutant: the return is inside the try
  /\ WorkerAt(w, "arrived", e) /\ lock[e] = "live"
  /\ lock' = [lock EXCEPT ![e] = "none"]
  /\ worker' = [worker EXCEPT ![w] = Free]
  /\ due' = due \ {e}
  /\ dropped' = IF Others(w, {"acquiring", "processing"}, e) = {} /\ e \notin processed
                  THEN dropped \cup {e} ELSE dropped
  /\ UNCHANGED <<notOfEvents, sent, raced, processed>>
Skip(w, e) ==
  /\ WorkerAt(w, "arrived", e) /\ lock[e] = "live"
  /\ worker' = [worker EXCEPT ![w] = Free]
  /\ due' = due \ {e}
  /\ dropped' = IF Others(w, {"processing"}, e) = {} /\ e \notin processed
                  THEN dropped \cup {e} ELSE dropped
  /\ UNCHANGED <<notOfEvents, lock, sent, raced, processed>>

Process(w, e) ==
  /\ WorkerAt(w, "processing", e)
  /\ processed' = processed \cup {e}
  /\ WorkerBecomes(w, "releasing", e)
  /\ UNCHANGED <<notOfEvents, lock, sent, due, raced, dropped>>

\* releaseLock(), by key: whoever's lock it is.
ReleaseLock(w, e) ==
  /\ WorkerAt(w, "releasing", e)
  /\ lock' = [lock EXCEPT ![e] = "none"]
  /\ worker' = [worker EXCEPT ![w] = Free]
  /\ due' = due \ {e}
  /\ UNCHANGED <<notOfEvents, sent, raced, processed, dropped>>

\* The processing throws, the lock is released, the delivery is answered with an error.
ConfirmFailure(w, e) ==   \* mutant: the error is caught, and 200 answered
  /\ WorkerAt(w, "processing", e)
  /\ lock' = [lock EXCEPT ![e] = "none"]
  /\ worker' = [worker EXCEPT ![w] = Free]
  /\ due' = due \ {e}
  /\ UNCHANGED <<notOfEvents, sent, raced, processed, dropped>>
ProcessFails(w, e) ==
  /\ WorkerAt(w, "processing", e)
  /\ lock' = [lock EXCEPT ![e] = "none"]
  /\ worker' = [worker EXCEPT ![w] = Free]
  /\ dropped' = IF Others(w, {"processing"}, e) = {} /\ e \notin processed \cup due
                  THEN dropped \cup {e} ELSE dropped
  /\ UNCHANGED <<notOfEvents, sent, due, raced, processed>>

\* The store rejects or the instance dies: the lock stays as it is.
Die(w, e) ==
  /\ worker[w] # Free /\ worker[w].event = e
  /\ worker' = [worker EXCEPT ![w] = Free]
  /\ dropped' = IF /\ worker[w].at = "processing" /\ Others(w, {"processing"}, e) = {}
                   /\ e \notin processed \cup due
                  THEN dropped \cup {e} ELSE dropped
  /\ UNCHANGED <<notOfEvents, lock, sent, due, raced, processed>>

\* The time to live is over, perhaps before the holder has released the lock.
Lapse(e) ==
  /\ lock[e] = "live"
  /\ lock' = [lock EXCEPT ![e] = "expired"]
  /\ raced' = IF \E w \in Workers : WorkerAt(w, "processing", e) \/ WorkerAt(w, "releasing", e)
                THEN raced \cup {e} ELSE raced
  /\ UNCHANGED <<notOfEvents, worker, sent, due, processed, dropped>>

--------------------------------------------------------------------------------

\* The process of the service calls ends, and its sandbox with it.
Crash ==
  /\ req' = [c \in Clients |-> Idle]
  /\ refunds' = [r \in Refunds |-> "absent"]
  /\ subs' = [s \in Subscriptions |-> "absent"]
  /\ holder' = [m \in Methods |-> "absent"]
  /\ minted' = {}
  /\ customers' = {}
  /\ UNCHANGED <<uses, rows, eventVars, disturbed>>

Init ==
  /\ uses \in Uses
  /\ req = [c \in Clients |-> Idle]
  /\ refunds = [r \in Refunds |-> "absent"]
  /\ minted = {}
  /\ rows = [r \in Refunds |-> "absent"]
  /\ subs = [s \in Subscriptions |-> "absent"]
  /\ holder = [m \in Methods |-> "absent"]
  /\ customers = {}
  /\ lock = [e \in Events |-> "none"]
  /\ worker = [w \in Workers |-> Free]
  /\ sent = {}
  /\ due = {}
  /\ disturbed = {}
  /\ raced = {}
  /\ processed = {}
  /\ dropped = {}

\* StripeController, but for the payment intents and what only reads.
StripeController ==
  \/ \E c \in Clients : CreateRefund(c) \/ \E r \in Refunds : CancelRefund(c, r)
  \/ \E s \in Subscriptions : CreateSubscription(s) \/ CancelSubscription(s) \/ UpdateSubscription(s)
  \/ \E m \in Methods : DetachPaymentMethod(m) \/ \E id \in Customers : AttachPaymentMethod(m, id)
  \/ \E id \in Customers : CreateCustomer(id)

CallStep(c) == ProviderCreate(c) \/ SaveRefund(c) \/ ProviderCancel(c) \/ UpdateRefund(c)

HandlerStep(w, e) ==
  FindLock(w, e) \/ SaveLock(w, e) \/ Skip(w, e) \/ Process(w, e) \/ ReleaseLock(w, e)

Next ==
  \/ StripeController
  \/ \E c \in Clients : CallStep(c) \/ Rejects(c)
  \/ \E e \in Events : \/ Send(e) \/ Lapse(e)
                       \/ \E w \in Workers : \/ Deliver(w, e) \/ HandlerStep(w, e)
                                             \/ ProcessFails(w, e) \/ Die(w, e)
  \/ Crash

\* Stripe delivers an event again and again until one delivery is confirmed, and of
\* endless deliveries not every one fails at the same step.
Fairness ==
  \A e \in Events :
    /\ SF_vars(e \in due /\ \E w \in Workers : Deliver(w, e))
    /\ SF_vars(\E w \in Workers : FindLock(w, e) \/ Skip(w, e))
    /\ SF_vars(\E w \in Workers : SaveLock(w, e))
    /\ SF_vars(\E w \in Workers : Process(w, e))
    /\ \A w \in Workers : WF_vars(HandlerStep(w, e))

Spec == Init /\ [][Next]_vars /\ Fairness

--------------------------------------------------------------------------------
(* Properties. *)

\* The shape of the sandbox's records, the rows, the calls and the deliveries; what is
\* in force at the sandbox was created by its process.
BillingTypeOK ==
  /\ uses \subseteq Parts
  /\ req \in [Clients -> Call]
  /\ refunds \in SandboxRefund
  /\ rows \in RefundRecord
  /\ minted \subseteq Refunds \cup Subscriptions \cup Customers
  /\ subs \in SandboxSubscription
  /\ {r \in Refunds : refunds[r] = "succeeded"} \subseteq minted
  /\ {s \in Subscriptions : subs[s] = "active"} \subseteq minted
  /\ customers = Customers \cap minted
  /\ holder \in SandboxPaymentMethod
  /\ lock \in StripeLock
  /\ worker \in [Workers -> {Free} \cup [at : {"arrived", "acquiring", "processing", "releasing"},
                                         event : Events]]
  /\ due \subseteq sent /\ sent \subseteq Events
  /\ disturbed \subseteq Refunds
  /\ raced \cup processed \cup dropped \subseteq Events

\* A refund's row says what the provider says, once no call is under way with it, also
\* after restarts that give out an old id again.  A refund this process created has such
\* a row; one it did not create may have none, and then updateRefund() records of its
\* cancellation nothing.  What this process created and canceled stays canceled until
\* the process ends.
Foreign(r) == r \notin minted /\ rows[r] = "absent"

RowAgrees(r) == \/ rows[r] = refunds[r]
                \/ refunds[r] = "absent" \/ Foreign(r)
                \/ r \in disturbed
                \/ \E c \in Clients : WorksOn(c, r)

RecordsHold ==
  [][/\ \A r \in Refunds : RowAgrees(r)'
     /\ \A r \in Refunds \cap minted :
          refunds[r] = "canceled" => refunds'[r] = "canceled" \/ minted' = {}
     /\ \A s \in Subscriptions \cap minted :
          GetSubscription(s) = "canceled" => GetSubscription(s)' = "canceled" \/ minted' = {}]_vars

\* "acquireLock / releaseLock prevents concurrent processing of the same Stripe event"
\* (README): two instances process it at once only if both looked for the lock before
\* either had it, or if the lock expired under its holder.
LockExcludes ==
  \A e \in Events \ raced :
    Cardinality({w \in Workers : WorkerAt(w, "processing", e)}) <= 1

\* An event that was sent is processed in the end, through crashes, failures and
\* duplicates, unless a duplicate of it was confirmed because of a lock whose holder
\* did not complete.
EventProcessed == \A e \in Events : e \in sent ~> e \in processed \cup dropped

================================================================================
