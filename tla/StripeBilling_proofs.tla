-------------------------- MODULE StripeBilling_proofs --------------------------
(***************************************************************************)
(* Proofs about StripeBilling for every set of calls, ids, events and      *)
(* instances: its types, what the lock of an event excludes, and that the  *)
(* rows of refunds stay true.                                              *)
(***************************************************************************)
EXTENDS StripeBilling, FiniteSetTheorems, TLAPS

\* An instance has found the lock of e free and is not done with e.
Locking(w, e) == worker[w].at \in {"acquiring", "processing", "releasing"} /\ worker[w].event = e

\* Unless there was a race, one instance at most is; and from the moment it has written
\* the lock until it releases it, the lock is in force.
LockInv ==
  \A e \in Events \ raced :
    /\ \A v, w \in Workers : Locking(v, e) /\ Locking(w, e) => v = w
    /\ \A w \in Workers : WorkerAt(w, "processing", e) \/ WorkerAt(w, "releasing", e)
                            => lock[e] = "live"

\* The row says what the provider says, or the provider has lost the refund, or there is
\* no row and the refund is not one of this process.
Agrees(r) == refunds[r] = "absent" \/ rows[r] = refunds[r] \/ Foreign(r)

\* What the one call that works on an undisturbed refund relies on.
CallInv(c, r) ==
  /\ At(c, "canceling") => Agrees(r)
  /\ At(c, "saving") => refunds[r] = "succeeded"
  /\ At(c, "updating") => refunds[r] = "canceled" /\ (rows[r] # "absent" \/ Foreign(r))

RefundInv ==
  \A r \in Refunds \ disturbed :
    /\ r \in minted => refunds[r] # "absent"
    /\ \A c, d \in Clients : WorksOn(c, r) /\ WorksOn(d, r) => c = d
    /\ \A c \in Clients : WorksOn(c, r) => CallInv(c, r)
    /\ (\A c \in Clients : ~WorksOn(c, r)) => Agrees(r)

--------------------------------------------------------------------------------
(* The steps, by the part of the state they are about. *)

RefundStep(c) ==
  CreateRefund(c) \/ (\E r \in Refunds : CancelRefund(c, r)) \/ CallStep(c) \/ Rejects(c)

RecordStep ==
  \/ \E s \in Subscriptions : CreateSubscription(s) \/ CancelSubscription(s) \/ UpdateSubscription(s)
  \/ \E m \in Methods : DetachPaymentMethod(m) \/ \E id \in Customers : AttachPaymentMethod(m, id)
  \/ \E id \in Customers : CreateCustomer(id)

EventStep(e) ==
  \/ Send(e) \/ Lapse(e)
  \/ \E w \in Workers : Deliver(w, e) \/ HandlerStep(w, e) \/ ProcessFails(w, e) \/ Die(w, e)

LEMMA Steps ==
  Next => \/ \E c \in Clients : RefundStep(c)
          \/ RecordStep
          \/ \E e \in Events : EventStep(e)
          \/ Crash
  BY Zenon DEF Next, StripeController, RefundStep, RecordStep, EventStep

LEMMA RefundFrame ==
  ASSUME NEW c \in Clients, RefundStep(c)
  PROVE  UNCHANGED <<uses, subs, holder, customers, eventVars>>
  BY DEF RefundStep, CreateRefund, CancelRefund, CallStep, ProviderCreate, SaveRefund,
         ProviderCancel, UpdateRefund, Rejects, sandbox, eventVars

LEMMA RecordFrame ==
  ASSUME RecordStep
  PROVE  UNCHANGED <<uses, req, refunds, rows, disturbed, eventVars>>
  BY DEF RecordStep, CreateSubscription, CancelSubscription, UpdateSubscription,
         DetachPaymentMethod, AttachPaymentMethod, CreateCustomer, Record, eventVars

LEMMA EventFrame ==
  ASSUME NEW e \in Events, EventStep(e)
  PROVE  UNCHANGED <<uses, req, sandbox, rows, disturbed>>
  BY DEF EventStep, Send, Lapse, Deliver, HandlerStep, FindLock, SaveLock, Skip, Process,
         ReleaseLock, ProcessFails, Die, notOfEvents, sandbox

--------------------------------------------------------------------------------
(* Types *)

LEMMA RefundType ==
  ASSUME BillingTypeOK, NEW c \in Clients, RefundStep(c)
  PROVE  BillingTypeOK'
<1> USE DEF BillingTypeOK, SandboxRefund, SandboxSubscription, SandboxPaymentMethod,
            RefundRecord, RefundStatus, Call, sandbox, eventVars, Become, At, Idle
<1>1. CASE CreateRefund(c)
  BY <1>1 DEF CreateRefund
<1>2. CASE \E r \in Refunds : CancelRefund(c, r)
  BY <1>2 DEF CancelRefund, NoteOverlap
<1>3. CASE ProviderCreate(c)
  BY <1>3, BillingAssumption DEF ProviderCreate, NextId, NoteOverlap
<1>4. CASE SaveRefund(c)
  BY <1>4 DEF SaveRefund
<1>5. CASE ProviderCancel(c)
  BY <1>5 DEF ProviderCancel
<1>6. CASE UpdateRefund(c)
  BY <1>6 DEF UpdateRefund
<1>7. CASE Rejects(c)
  BY <1>7 DEF Rejects
<1>8. QED
  BY <1>1, <1>2, <1>3, <1>4, <1>5, <1>6, <1>7 DEF RefundStep, CallStep

LEMMA RecordType ==
  ASSUME BillingTypeOK, RecordStep
  PROVE  BillingTypeOK'
<1> USE DEF BillingTypeOK, SandboxSubscription, SubscriptionState, SandboxPaymentMethod, Record,
            eventVars, NextId
<1>1. ASSUME NEW s \in Subscriptions, CreateSubscription(s)
      PROVE  BillingTypeOK'
  BY <1>1, BillingAssumption DEF CreateSubscription
<1>2. ASSUME NEW s \in Subscriptions, CancelSubscription(s)
      PROVE  BillingTypeOK'
  BY <1>2 DEF CancelSubscription
<1>3. ASSUME NEW s \in Subscriptions, UpdateSubscription(s)
      PROVE  BillingTypeOK'
  BY <1>3 DEF UpdateSubscription
<1>4. ASSUME NEW m \in Methods, DetachPaymentMethod(m)
      PROVE  BillingTypeOK'
  BY <1>4 DEF DetachPaymentMethod
<1>5. ASSUME NEW m \in Methods, NEW id \in Customers, AttachPaymentMethod(m, id)
      PROVE  BillingTypeOK'
  BY <1>5 DEF AttachPaymentMethod
<1>6. ASSUME NEW id \in Customers, CreateCustomer(id)
      PROVE  BillingTypeOK'
  BY <1>6, BillingAssumption DEF CreateCustomer
<1>7. QED
  BY <1>1, <1>2, <1>3, <1>4, <1>5, <1>6 DEF RecordStep

LEMMA EventType ==
  ASSUME BillingTypeOK, NEW e \in Events, EventStep(e)
  PROVE  BillingTypeOK'
<1>1. UNCHANGED <<uses, req, refunds, minted, rows, subs, holder, customers, disturbed>>
  BY EventFrame DEF sandbox
<1>2. /\ lock' \in StripeLock
      /\ worker' \in [Workers -> {Free} \cup [at : {"arrived", "acquiring", "processing", "releasing"},
                                              event : Events]]
      /\ due' \subseteq sent' /\ sent' \subseteq Events
      /\ raced' \cup processed' \cup dropped' \subseteq Events
  <2> USE DEF BillingTypeOK, StripeLock, WorkerBecomes
  <2>1. CASE Send(e) \/ Lapse(e)
    BY <2>1 DEF Send, Lapse
  <2>2. ASSUME NEW w \in Workers, Deliver(w, e) \/ FindLock(w, e) \/ SaveLock(w, e)
        PROVE  <1>2!:
    BY <2>2 DEF Deliver, FindLock, SaveLock
  <2>3. ASSUME NEW w \in Workers, Skip(w, e) \/ Process(w, e) \/ ReleaseLock(w, e)
        PROVE  <1>2!:
    BY <2>3 DEF Skip, Process, ReleaseLock
  <2>4. ASSUME NEW w \in Workers, ProcessFails(w, e) \/ Die(w, e)
        PROVE  <1>2!:
    BY <2>4 DEF ProcessFails, Die
  <2>5. QED
    BY EventStep(e), <2>1, <2>2, <2>3, <2>4, Zenon DEF EventStep, HandlerStep
<1>3. QED
  BY <1>1, <1>2 DEF BillingTypeOK

LEMMA CrashType ==
  ASSUME BillingTypeOK, Crash
  PROVE  BillingTypeOK'
  BY DEF BillingTypeOK, Crash, Call, Idle, SandboxRefund, SandboxSubscription,
         SandboxPaymentMethod, RefundStatus, SubscriptionState, eventVars

LEMMA StepType == BillingTypeOK /\ [Next]_vars => BillingTypeOK'
<1> SUFFICES ASSUME BillingTypeOK, [Next]_vars PROVE BillingTypeOK'
  OBVIOUS
<1>1. CASE UNCHANGED vars
  BY <1>1 DEF BillingTypeOK, vars, sandbox, eventVars
<1>2. CASE Next
  BY <1>2, Steps, RefundType, RecordType, EventType, CrashType, Zenon
<1>3. QED
  BY <1>1, <1>2

--------------------------------------------------------------------------------
(* The lock *)

LEMMA EventLock ==
  ASSUME BillingTypeOK, LockInv, NEW e \in Events, EventStep(e)
  PROVE  LockInv'
<1> SUFFICES ASSUME NEW f \in Events, f \notin raced'
             PROVE  /\ \A v, w \in Workers : Locking(v, f)' /\ Locking(w, f)' => v = w
                    /\ \A w \in Workers : WorkerAt(w, "processing", f)' \/ WorkerAt(w, "releasing", f)'
                                            => lock'[f] = "live"
  BY DEF LockInv
<1> USE DEF Locking, WorkerAt, Free
<1> DEFINE Goal == /\ \A v, w \in Workers : Locking(v, f)' /\ Locking(w, f)' => v = w
                   /\ \A w \in Workers : WorkerAt(w, "processing", f)' \/ WorkerAt(w, "releasing", f)'
                                           => lock'[f] = "live"
<1>1. /\ f \notin raced
      /\ worker \in [Workers -> {Free} \cup [at : {"arrived", "acquiring", "processing", "releasing"},
                                             event : Events]]
      /\ lock \in [Events -> {"none", "live", "expired"}]
  BY DEF EventStep, HandlerStep, Send, Lapse, Deliver, FindLock, SaveLock, Skip, Process, ReleaseLock,
         ProcessFails, Die, BillingTypeOK, StripeLock
<1>2. /\ \A v, w \in Workers : Locking(v, f) /\ Locking(w, f) => v = w
      /\ \A w \in Workers : WorkerAt(w, "processing", f) \/ WorkerAt(w, "releasing", f)
                              => lock[f] = "live"
  BY <1>1 DEF LockInv
<1>3. CASE Send(e)
  BY <1>1, <1>2, <1>3 DEF Send
<1>4. CASE Lapse(e)
  BY <1>1, <1>2, <1>4 DEF Lapse
<1>5. ASSUME NEW w \in Workers, Deliver(w, e)
      PROVE  Goal
  BY <1>1, <1>2, <1>5 DEF Deliver, WorkerBecomes
<1>6. ASSUME NEW w \in Workers, FindLock(w, e)
      PROVE  Goal
  <2>1. f = e => \A v \in Workers \ {w} : ~Locking(v, e)
    BY <1>1, <1>2, <1>6 DEF FindLock, Others
  <2>2. QED
    BY <1>1, <1>2, <1>6, <2>1 DEF FindLock, WorkerBecomes
<1>7. ASSUME NEW w \in Workers, SaveLock(w, e)
      PROVE  Goal
  BY <1>1, <1>2, <1>7 DEF SaveLock, WorkerBecomes
<1>8. ASSUME NEW w \in Workers, Skip(w, e)
      PROVE  Goal
  BY <1>1, <1>2, <1>8 DEF Skip
<1>9. ASSUME NEW w \in Workers, Process(w, e)
      PROVE  Goal
  BY <1>1, <1>2, <1>9 DEF Process, WorkerBecomes
<1>10. ASSUME NEW w \in Workers, ReleaseLock(w, e) \/ ProcessFails(w, e)
       PROVE  Goal
  <2>1. lock' = [lock EXCEPT ![e] = "none"] /\ worker' = [worker EXCEPT ![w] = Free] /\ Locking(w, e)
    BY <1>10 DEF ReleaseLock, ProcessFails
  <2>2. QED
    BY <1>1, <1>2, <2>1
<1>11. ASSUME NEW w \in Workers, Die(w, e)
       PROVE  Goal
  BY <1>1, <1>2, <1>11 DEF Die
<1>12. QED
  BY EventStep(e), <1>3, <1>4, <1>5, <1>6, <1>7, <1>8, <1>9, <1>10, <1>11, Zenon
     DEF EventStep, HandlerStep

LEMMA StepLock == BillingTypeOK /\ LockInv /\ [Next]_vars => LockInv'
<1> SUFFICES ASSUME BillingTypeOK, LockInv, [Next]_vars PROVE LockInv'
  OBVIOUS
<1>1. ASSUME UNCHANGED eventVars
      PROVE  LockInv'
  BY <1>1 DEF LockInv, Locking, WorkerAt, eventVars
<1>2. CASE \E e \in Events : EventStep(e)
  BY <1>2, EventLock
<1>3. CASE (\E c \in Clients : RefundStep(c)) \/ RecordStep \/ Crash \/ UNCHANGED vars
  BY <1>1, <1>3, RefundFrame, RecordFrame, Zenon DEF Crash, vars
<1>4. QED
  BY <1>2, <1>3, Steps, Zenon

\* At most one instance is at work under a lock that was not raced for.
LEMMA OneHolder ==
  ASSUME LockInv
  PROVE  LockExcludes
<1> SUFFICES ASSUME NEW e \in Events \ raced
             PROVE  Cardinality({w \in Workers : WorkerAt(w, "processing", e)}) <= 1
  BY DEF LockExcludes
<1> DEFINE H == {w \in Workers : WorkerAt(w, "processing", e)}
<1>1. \A v, w \in H : v = w
  BY DEF LockInv, Locking, WorkerAt
<1>2. H = {} \/ \E w \in H : H = {w}
  BY <1>1
<1>3. CASE H = {}
  BY <1>3, FS_EmptySet
<1>4. CASE \E w \in H : H = {w}
  <2>1. PICK w \in H : H = {w}
    BY <1>4
  <2>2. Cardinality({w}) = 1
    BY FS_Singleton
  <2>3. Cardinality(H) = 1
    BY <2>1, <2>2, Zenon
  <2>4. QED
    BY <2>3
<1>5. QED
  BY <1>2, <1>3, <1>4

LEMMA InitInv == Init => BillingTypeOK /\ LockInv /\ RefundInv
<1> SUFFICES ASSUME Init PROVE BillingTypeOK /\ LockInv /\ RefundInv
  OBVIOUS
<1> USE DEF Init, Idle, Free
<1>1. BillingTypeOK
  <2>1. uses \subseteq Parts
    BY BillingAssumption
  <2>2. QED
    BY <2>1 DEF BillingTypeOK, Call, SandboxRefund, SandboxSubscription, SandboxPaymentMethod,
                RefundRecord, StripeLock, RefundStatus, SubscriptionState
<1>2. LockInv
  BY DEF LockInv, Locking, WorkerAt
<1>3. RefundInv
  BY DEF RefundInv, WorksOn, Agrees
<1>4. QED
  BY <1>1, <1>2, <1>3

\* Refunds, rows, subscriptions, locks and deliveries keep their shape, and nothing is in
\* force at the sandbox that its process did not create: with every number of calls,
\* instances, ids and events.
THEOREM TypeCorrect == Spec => []BillingTypeOK
<1>1. Init => BillingTypeOK
  BY InitInv
<1>2. BillingTypeOK /\ [Next]_vars => BillingTypeOK'
  BY StepType
<1>3. QED
  BY <1>1, <1>2, PTL DEF Spec

\* The lock of acquireLock() and releaseLock() excludes all instances but one from
\* processing an event, but for the two races that raced names.
THEOREM LockHolds == Spec => []LockExcludes
<1>1. Init => BillingTypeOK /\ LockInv
  BY InitInv
<1>2. BillingTypeOK /\ LockInv /\ [Next]_vars => BillingTypeOK' /\ LockInv'
  BY StepType, StepLock
<1>3. LockInv => LockExcludes
  BY OneHolder
<1>4. QED
  BY <1>1, <1>2, <1>3, PTL DEF Spec

--------------------------------------------------------------------------------
(* The rows of refunds *)

LEMMA StepRefund ==
  ASSUME BillingTypeOK, RefundInv, NEW c \in Clients, RefundStep(c)
  PROVE  RefundInv'
<1> USE DEF WorksOn, Agrees, Foreign, CallInv, At, Become, Idle, NoteOverlap
<1>0. /\ req \in [Clients -> Call]
      /\ refunds \in [Refunds -> RefundStatus]
      /\ rows \in [Refunds -> RefundStatus]
  BY DEF BillingTypeOK, SandboxRefund, RefundRecord
<1> SUFFICES ASSUME NEW r \in Refunds, r \notin disturbed'
             PROVE  /\ r \in minted' => refunds'[r] # "absent"
                    /\ \A b, d \in Clients : WorksOn(b, r)' /\ WorksOn(d, r)' => b = d
                    /\ \A d \in Clients : WorksOn(d, r)' => CallInv(d, r)'
                    /\ (\A d \in Clients : ~WorksOn(d, r)') => Agrees(r)'
  BY DEF RefundInv
<1> DEFINE Goal == /\ r \in minted' => refunds'[r] # "absent"
                   /\ \A b, d \in Clients : WorksOn(b, r)' /\ WorksOn(d, r)' => b = d
                   /\ \A d \in Clients : WorksOn(d, r)' => CallInv(d, r)'
                   /\ (\A d \in Clients : ~WorksOn(d, r)') => Agrees(r)'
<1>1. r \notin disturbed
  BY DEF RefundStep, CreateRefund, CancelRefund, CallStep, ProviderCreate, SaveRefund,
         ProviderCancel, UpdateRefund, Rejects
<1>2. /\ r \in minted => refunds[r] # "absent"
      /\ \A b, d \in Clients : WorksOn(b, r) /\ WorksOn(d, r) => b = d
      /\ \A d \in Clients : WorksOn(d, r) => CallInv(d, r)
      /\ (\A d \in Clients : ~WorksOn(d, r)) => Agrees(r)
  BY <1>1 DEF RefundInv
<1>3. CASE CreateRefund(c)
  BY <1>0, <1>2, <1>3 DEF CreateRefund, sandbox, Call
<1>4. ASSUME NEW q \in Refunds, CancelRefund(c, q)
      PROVE  Goal
  BY <1>0, <1>2, <1>4 DEF CancelRefund, sandbox, Call
<1>5. CASE ProviderCreate(c)
  BY <1>0, <1>2, <1>5 DEF ProviderCreate, NextId, Call, RefundStatus
<1>6. CASE SaveRefund(c)
  BY <1>0, <1>2, <1>6 DEF SaveRefund, sandbox, Call
<1>7. CASE ProviderCancel(c)
  BY <1>0, <1>2, <1>7 DEF ProviderCancel, Call
<1>8. CASE UpdateRefund(c)
  BY <1>0, <1>2, <1>8 DEF UpdateRefund, sandbox, Call
<1>9. CASE Rejects(c)
  BY <1>0, <1>2, <1>9 DEF Rejects, sandbox, Call
<1>10. QED
  BY <1>3, <1>4, <1>5, <1>6, <1>7, <1>8, <1>9, Zenon DEF RefundStep, CallStep

LEMMA StepInv == BillingTypeOK /\ RefundInv /\ [Next]_vars => RefundInv'
<1> SUFFICES ASSUME BillingTypeOK, RefundInv, [Next]_vars PROVE RefundInv'
  OBVIOUS
<1>1. ASSUME UNCHANGED <<req, refunds, rows, disturbed>>,
             \A r \in Refunds : r \in minted' <=> r \in minted
      PROVE  RefundInv'
  BY <1>1 DEF RefundInv, WorksOn, CallInv, At, Agrees, Foreign
<1>2. CASE \E c \in Clients : RefundStep(c)
  BY <1>2, StepRefund
<1>3. CASE RecordStep
  <2>1. \A r \in Refunds : r \in minted' <=> r \in minted
    BY <1>3, BillingAssumption DEF RecordStep, CreateSubscription, CancelSubscription,
       UpdateSubscription, DetachPaymentMethod, AttachPaymentMethod, CreateCustomer, Record, NextId
  <2>2. QED
    BY <1>1, <1>3, <2>1, RecordFrame
<1>4. CASE \E e \in Events : EventStep(e)
  BY <1>1, <1>4, EventFrame DEF sandbox
<1>5. CASE Crash
  BY <1>5 DEF Crash, RefundInv, WorksOn, Agrees, Idle
<1>6. CASE UNCHANGED vars
  BY <1>1, <1>6 DEF vars, sandbox
<1>7. QED
  BY <1>2, <1>3, <1>4, <1>5, <1>6, Steps, Zenon

\* What this process canceled stays canceled in every step but the end of the process.
LEMMA CanceledStays ==
  ASSUME BillingTypeOK, [Next]_vars
  PROVE  /\ \A r \in Refunds \cap minted :
              refunds[r] = "canceled" => refunds'[r] = "canceled" \/ minted' = {}
         /\ \A s \in Subscriptions \cap minted :
              subs[s] = "canceled" => subs'[s] = "canceled" \/ minted' = {}
<1>1. refunds \in [Refunds -> RefundStatus] /\ subs \in [Subscriptions -> SubscriptionState]
  BY DEF BillingTypeOK, SandboxRefund, SandboxSubscription
<1>2. ASSUME NEW c \in Clients, RefundStep(c)
      PROVE  \A r \in Refunds \cap minted : refunds[r] = "canceled" => refunds'[r] = "canceled"
  BY <1>1, <1>2 DEF RefundStep, CreateRefund, CancelRefund, CallStep, ProviderCreate, NextId, SaveRefund,
                    ProviderCancel, UpdateRefund, Rejects, sandbox
<1>3. ASSUME RecordStep
      PROVE  \A s \in Subscriptions \cap minted : subs[s] = "canceled" => subs'[s] = "canceled"
  BY <1>1, <1>3 DEF RecordStep, CreateSubscription, NextId, CancelSubscription, UpdateSubscription,
                    DetachPaymentMethod, AttachPaymentMethod, CreateCustomer, Record
<1>4. CASE \E c \in Clients : RefundStep(c)
  BY <1>2, <1>4, RefundFrame
<1>5. CASE RecordStep
  BY <1>3, <1>5, RecordFrame
<1>6. CASE \E e \in Events : EventStep(e)
  BY <1>6, EventFrame DEF sandbox
<1>7. CASE Crash
  BY <1>7 DEF Crash
<1>8. CASE UNCHANGED vars
  BY <1>8 DEF vars, sandbox
<1>9. QED
  BY <1>4, <1>5, <1>6, <1>7, <1>8, Steps, Zenon

\* createRefund() leaves a row that says what the provider says, and cancelRefund() keeps a
\* row that is there so, through any number of calls and of restarts that give out old ids again, unless two calls worked
\* on the refund at once or the store did not take the answer; and a cancellation of a
\* refund or a subscription lasts as long as the process that made it.
THEOREM RowsTrue == Spec => RecordsHold
<1>1. Init => BillingTypeOK /\ RefundInv
  BY InitInv
<1>2. BillingTypeOK /\ RefundInv /\ [Next]_vars => BillingTypeOK' /\ RefundInv'
  BY StepType, StepInv
<1> DEFINE Keeps == /\ \A r \in Refunds : RowAgrees(r)'
                    /\ \A r \in Refunds \cap minted :
                         refunds[r] = "canceled" => refunds'[r] = "canceled" \/ minted' = {}
                    /\ \A s \in Subscriptions \cap minted :
                         GetSubscription(s) = "canceled" => GetSubscription(s)' = "canceled" \/ minted' = {}
<1>3. BillingTypeOK /\ RefundInv /\ BillingTypeOK' /\ RefundInv' /\ [Next]_vars => [Keeps]_vars
  <2> SUFFICES ASSUME BillingTypeOK, RefundInv', [Next]_vars PROVE Keeps
    OBVIOUS
  <2>1. \A r \in Refunds : RowAgrees(r)'
    BY DEF RefundInv, RowAgrees, Agrees
  <2>2. QED
    BY <2>1, CanceledStays DEF GetSubscription
<1>4. QED
  BY <1>1, <1>2, <1>3, PTL DEF Spec, RecordsHold

================================================================================
