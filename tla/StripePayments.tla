---------------------------- MODULE StripePayments ----------------------------
(***************************************************************************)
(* Payment intents: concurrent calls of StripeService, the provider they   *)
(* call (StripeSandboxClient, the Stripe the repository contains) and the  *)
(* transaction rows they keep (PaymentStore, by default TypeORM).          *)
(*                                                                         *)
(* A call is four awaits in a row: read the row and check the transition,  *)
(* ask the provider, read the row again, write the answer to it.  Each is  *)
(* an action, so calls interleave between any two of them.                 *)
(***************************************************************************)
EXTENDS Integers

CONSTANTS
  Clients,   \* service calls that can be in progress at once
  Intents    \* payment intent ids

VARIABLES
  pc,          \* pc[c]: where call c is; "idle" after one that was recorded
  op,          \* op[c]: the method called
  intent,      \* intent[c]: the id it is about; of a create, the id it was given
  card,        \* card[c]: the payment method it passes
  manual,      \* manual[c]: captureMethod of a create is 'manual'
  answer,      \* answer[c]: the status the provider returned
  found,       \* found[c]: recordTransaction() found a row
  provider,    \* provider[i]: status of the sandbox's intent, or "absent"
  method,      \* method[i]: the payment method it holds
  capturable,  \* capturable[i]: amount_capturable is not 0
  received,    \* received[i]: amount_received is not 0
  minted,      \* the ids idCounter has given out
  stored,      \* stored[i]: status of the transaction row, or "absent"
  priced,      \* priced[i]: the row holds the amount of the intent (and not 0)
  charges,     \* history: how often the provider moved intent i to 'succeeded' (2: or more)
  paid,        \* history: the ids it ever did this to, under earlier processes too
  disturbed    \* history: ids that two calls worked on at the same time, or whose
               \*   record the store refused

callVars     == <<pc, op, intent, card, manual, answer, found>>
providerVars == <<provider, method, capturable, received, minted>>
storeVars    == <<stored, priced>>
historyVars  == <<charges, paid, disturbed>>
vars         == <<callVars, providerVars, storeVars, historyVars>>

PaymentIntentStatus ==
  {"requires_payment_method", "requires_confirmation", "requires_action",
   "processing", "succeeded", "failed", "canceled"}

Final == {"succeeded", "failed", "canceled"}

VALID_TRANSITIONS ==
  [requires_payment_method |-> {"requires_confirmation", "requires_action",
                                "processing", "canceled"},
   requires_confirmation   |-> {"requires_action", "processing", "succeeded",
                                "failed", "canceled"},
   requires_action         |-> {"processing", "succeeded", "failed", "canceled"},
   processing              |-> {"succeeded", "failed"},
   succeeded               |-> {},
   failed                  |-> {},
   canceled                |-> {}]

\* The status validateTransition() is asked about.
NextStatus == [confirm |-> "requires_confirmation", capture |-> "processing",
               cancel |-> "canceled"]

Changes == {"confirm", "capture", "cancel"}

Cards == {"none", "good", "action", "bad"}

\* Mutant: a status Stripe has and PaymentIntentStatus has not.
OutcomeHeld == [none   |-> "requires_payment_method", good |-> "requires_capture",
                action |-> "requires_action",         bad  |-> "failed"]

\* determineStatusFromCard(): a test card decides.
Outcome == [none   |-> "requires_payment_method", good |-> "succeeded",
            action |-> "requires_action",         bad  |-> "failed"]

\* Call c is in progress; it is working on intent i.
Working    == {"validating", "calling", "finding", "writing"}
Busy(c)    == pc[c] \in Working \cup {"creating"}
WorksOn(c, i) == pc[c] \in Working /\ intent[c] = i

\* Call c starts working on i.
NoteOverlap(c, i) ==
  disturbed' = IF \E d \in Clients \ {c} : WorksOn(d, i)
                THEN disturbed \cup {i} ELSE disturbed

\* Counts up to 2, which is once too often.
NoteCharge(n) == IF n < 2 THEN n + 1 ELSE n

\* Call c is over, or has nothing but its result in hand: its locals are gone.
DropLocals(C) ==
  /\ card'   = [c \in Clients |-> IF c \in C THEN "none" ELSE card[c]]
  /\ manual' = [c \in Clients |-> IF c \in C THEN FALSE ELSE manual[c]]
  /\ answer' = [c \in Clients |-> IF c \in C THEN "requires_payment_method" ELSE answer[c]]
  /\ found'  = [c \in Clients |-> IF c \in C THEN FALSE ELSE found[c]]

--------------------------------------------------------------------------------
(* createPaymentIntent() *)

Create(c, k, m) ==
  /\ ~Busy(c)
  /\ pc' = [pc EXCEPT ![c] = "creating"]
  /\ op' = [op EXCEPT ![c] = "create"]
  /\ card' = [card EXCEPT ![c] = k]
  /\ manual' = [manual EXCEPT ![c] = m]
  /\ UNCHANGED <<intent, answer, found, providerVars, storeVars, historyVars>>

\* Mutant: a confirmation is taken for a payment.
AnswerAssumed(c, status) ==
  /\ pc' = [pc EXCEPT ![c] = "finding"]
  /\ answer' = [answer EXCEPT ![c] = IF op[c] = "confirm" THEN "succeeded" ELSE status]

\* The provider answers with a status that is still to be recorded.
Answer(c, status) ==
  /\ pc' = [pc EXCEPT ![c] = "finding"]
  /\ answer' = [answer EXCEPT ![c] = status]

\* paymentIntents.create(): the next id.  idCounter starts again with the process,
\* so the id may be one the rows already know, or even one the map holds.
ProviderCreate(c, i) ==
  /\ pc[c] = "creating" /\ i \notin minted
  /\ LET status == Outcome[card[c]]
     IN  /\ Answer(c, status)
         /\ provider' = [provider EXCEPT ![i] = status]
         /\ received' = [received EXCEPT ![i] = status = "succeeded"]
         /\ charges' = [charges EXCEPT ![i] = IF status = "succeeded" THEN 1 ELSE 0]
         /\ paid' = IF status = "succeeded" THEN paid \cup {i} ELSE paid
  /\ intent' = [intent EXCEPT ![c] = i]
  /\ method' = [method EXCEPT ![i] = card[c]]
  /\ capturable' = [capturable EXCEPT ![i] = manual[c]]
  /\ minted' = minted \cup {i}
  /\ NoteOverlap(c, i)
  /\ UNCHANGED <<op, card, manual, found, storeVars>>

--------------------------------------------------------------------------------
(* confirmPaymentIntent(), capturePaymentIntent(), cancelPaymentIntent() *)

\* The id is whatever the caller passes: neither the provider nor a row need know it.
Change(c, o, i, k) ==
  /\ ~Busy(c)
  /\ pc' = [pc EXCEPT ![c] = "validating"]
  /\ op' = [op EXCEPT ![c] = o]
  /\ intent' = [intent EXCEPT ![c] = i]
  /\ card' = [card EXCEPT ![c] = k]
  /\ NoteOverlap(c, i)
  /\ UNCHANGED <<manual, answer, found, providerVars, storeVars, charges, paid>>

\* Mutants: no check at all; a failed payment may be tried again.
AllowedAlways(i, o) == TRUE
AllowedAfterFailure(i, o) ==
  \/ stored[i] \in {"absent", "failed"}
  \/ NextStatus[o] \in VALID_TRANSITIONS[stored[i]]

\* validateTransition(): an id without a row passes.
Allowed(i, o) ==
  stored[i] = "absent" \/ NextStatus[o] \in VALID_TRANSITIONS[stored[i]]

Validate(c) ==
  /\ pc[c] = "validating"
  /\ IF Allowed(intent[c], op[c])
     THEN /\ pc' = [pc EXCEPT ![c] = "calling"]
          /\ UNCHANGED <<card, manual, answer, found>>
     ELSE /\ pc' = [pc EXCEPT ![c] = "refused"]
          /\ DropLocals({c})
  /\ UNCHANGED <<op, intent, providerVars, storeVars, historyVars>>

\* existing ?? defaultPi(id), of which only these two fields can differ.
HeldMethod(i) == IF provider[i] = "absent" THEN "none" ELSE method[i]

\* The sandbox confirms whatever the intent's status is.
ProviderConfirm(c) ==
  /\ pc[c] = "calling" /\ op[c] = "confirm"
  /\ LET i == intent[c]
         k == IF card[c] # "none" THEN card[c] ELSE HeldMethod(i)
     IN  /\ Answer(c, Outcome[k])
         /\ provider' = [provider EXCEPT ![i] = Outcome[k]]
         /\ method' = [method EXCEPT ![i] = k]
         /\ charges' = [charges EXCEPT ![i] = IF k = "good" THEN NoteCharge(@) ELSE @]
         /\ paid' = IF k = "good" THEN paid \cup {i} ELSE paid
  /\ UNCHANGED <<op, intent, card, manual, found, capturable, received, minted,
                 storeVars, disturbed>>

\* So it does a capture ...
ProviderCapture(c) ==
  /\ pc[c] = "calling" /\ op[c] = "capture"
  /\ Answer(c, "succeeded")
  /\ LET i == intent[c]
     IN  /\ provider' = [provider EXCEPT ![i] = "succeeded"]
         /\ method' = [method EXCEPT ![i] = HeldMethod(i)]
         /\ capturable' = [capturable EXCEPT ![i] = FALSE]
         /\ received' = [received EXCEPT ![i] = TRUE]
         /\ charges' = [charges EXCEPT ![i] = NoteCharge(@)]
         /\ paid' = paid \cup {i}
  /\ UNCHANGED <<op, intent, card, manual, found, minted, storeVars, disturbed>>

\* ... and a cancellation, which leaves the amounts as they are.
ProviderCancel(c) ==
  /\ pc[c] = "calling" /\ op[c] = "cancel"
  /\ Answer(c, "canceled")
  /\ LET i == intent[c]
     IN  /\ provider' = [provider EXCEPT ![i] = "canceled"]
         /\ method' = [method EXCEPT ![i] = HeldMethod(i)]
  /\ UNCHANGED <<op, intent, card, manual, found, capturable, received, minted,
                 storeVars, historyVars>>

--------------------------------------------------------------------------------
(* recordTransaction() *)

Find(c) ==
  /\ pc[c] = "finding"
  /\ found' = [found EXCEPT ![c] = stored[intent[c]] # "absent"]
  /\ pc' = [pc EXCEPT ![c] = "writing"]
  /\ UNCHANGED <<op, intent, card, manual, answer, providerVars, storeVars, historyVars>>

\* Only a create has the amount: updateTransaction() without it keeps the row's,
\* saveTransaction() without it writes 0, so that the change of a payment which has no
\* row makes one that says nothing was to be paid.
HasAmountSaved(c) == op[c] = "create"   \* mutant: the row is always saved anew
HasAmount(c) == op[c] = "create" \/ (found[c] /\ priced[intent[c]])

\* updateTransaction() or saveTransaction().
Record(c) ==
  /\ pc[c] = "writing"
  /\ stored' = [stored EXCEPT ![intent[c]] = answer[c]]
  /\ priced' = [priced EXCEPT ![intent[c]] = HasAmount(c)]
  /\ pc' = [pc EXCEPT ![c] = "idle"]
  /\ DropLocals({c})
  /\ UNCHANGED <<op, intent, providerVars, historyVars>>

\* The store rejects: the call throws, and what the provider did stays unrecorded.
StoreRejects(c) ==
  /\ pc[c] \in {"validating", "finding", "writing"}
  /\ pc' = [pc EXCEPT ![c] = "idle"]
  /\ disturbed' = IF pc[c] = "validating" THEN disturbed
                  ELSE disturbed \cup {intent[c]}
  /\ DropLocals({c})
  /\ UNCHANGED <<op, intent, providerVars, storeVars, charges, paid>>

--------------------------------------------------------------------------------
\* The process dies and restarts with an empty sandbox; the rows are kept.
Crash ==
  /\ pc' = [c \in Clients |-> "idle"]
  /\ provider' = [i \in Intents |-> "absent"]
  /\ method' = [i \in Intents |-> "none"]
  /\ capturable' = [i \in Intents |-> FALSE]
  /\ received' = [i \in Intents |-> FALSE]
  /\ minted' = {}
  /\ charges' = [i \in Intents |-> 0]
  /\ DropLocals(Clients)
  /\ UNCHANGED <<op, intent, storeVars, paid, disturbed>>

Init ==
  /\ pc = [c \in Clients |-> "idle"]
  /\ op = [c \in Clients |-> "create"]
  /\ intent \in [Clients -> Intents]
  /\ card = [c \in Clients |-> "none"]
  /\ manual = [c \in Clients |-> FALSE]
  /\ answer = [c \in Clients |-> "requires_payment_method"]
  /\ found = [c \in Clients |-> FALSE]
  /\ provider = [i \in Intents |-> "absent"]
  /\ method = [i \in Intents |-> "none"]
  /\ capturable = [i \in Intents |-> FALSE]
  /\ received = [i \in Intents |-> FALSE]
  /\ minted = {}
  /\ stored = [i \in Intents |-> "absent"]
  /\ priced = [i \in Intents |-> FALSE]
  /\ charges = [i \in Intents |-> 0]
  /\ paid = {}
  /\ disturbed = {}

Proceed(c) ==
  \/ \E i \in Intents : ProviderCreate(c, i)
  \/ Validate(c)
  \/ ProviderConfirm(c) \/ ProviderCapture(c) \/ ProviderCancel(c)
  \/ Find(c) \/ Record(c)

Next ==
  \/ \E c \in Clients : Proceed(c) \/ StoreRejects(c)
  \/ \E c \in Clients, k \in Cards, m \in BOOLEAN : Create(c, k, m)
  \/ \E c \in Clients, i \in Intents, k \in Cards : Change(c, "confirm", i, k)
  \/ \E c \in Clients, i \in Intents, o \in {"capture", "cancel"} : Change(c, o, i, "none")
  \/ Crash

Spec == Init /\ [][Next]_vars

--------------------------------------------------------------------------------
(* Properties *)

TypeOK ==
  /\ pc \in [Clients -> Working \cup {"idle", "creating", "refused"}]
  /\ op \in [Clients -> Changes \cup {"create"}]
  /\ intent \in [Clients -> Intents]
  /\ card \in [Clients -> Cards]
  /\ manual \in [Clients -> BOOLEAN]
  /\ answer \in [Clients -> PaymentIntentStatus]
  /\ found \in [Clients -> BOOLEAN]
  /\ provider \in [Intents -> PaymentIntentStatus \cup {"absent"}]
  /\ method \in [Intents -> Cards]
  /\ capturable \in [Intents -> BOOLEAN]
  /\ received \in [Intents -> BOOLEAN]
  /\ minted \subseteq Intents
  /\ stored \in [Intents -> PaymentIntentStatus \cup {"absent"}]
  /\ priced \in [Intents -> BOOLEAN]
  /\ charges \in [Intents -> 0..2]
  /\ paid \subseteq Intents
  /\ disturbed \subseteq Intents

\* The row is "current status from Stripe" (README): between calls it agrees with
\* the provider, after crashes too, unless two calls on the intent overlapped or the
\* store refused a record.
StoreAgrees ==
  \A i \in Intents \ disturbed :
    provider[i] # "absent" /\ (\A c \in Clients : ~WorksOn(c, i))
      => stored[i] = provider[i]

\* Calls that do not overlap and are recorded charge a payment at most once, although
\* the sandbox would accept any number of confirmations and captures: the row is what
\* stops them.
ChargedOnce == \A i \in Intents \ disturbed : charges[i] <= 1

\* A row tells of a payment that was made: whatever overlapped, crashed or went
\* unrecorded, and whichever change found no row, 'succeeded' is never written of an id
\* under which the provider charged nothing.
SucceededIsPaid == \A i \in Intents : stored[i] = "succeeded" => i \in paid

\* An amount once recorded is not lost: the records of later calls, which do not have
\* it, keep the row's, unless calls overlapped or the store refused one.  (A row may be
\* without an amount from the start: a crash or a refused record leaves a payment
\* without a row, and the next change of it saves one with amount 0.)
AmountKept ==
  [][\A i \in Intents : priced[i] /\ ~priced'[i] => i \in disturbed']_vars

\* A final status is final: of undisturbed payments, only the record of a
\* create to which the restarted sandbox gave an old id replaces it.
FinalIsForEver ==
  [][\A i \in Intents :
       stored[i] \in Final /\ stored'[i] # stored[i] =>
         \/ i \in disturbed'
         \/ \E c \in Clients : WorksOn(c, i) /\ op[c] = "create"]_vars

\* README, manual capture: create, confirm, and "later, after fulfillment", capture.
\* A capture is not refused while the payment is confirmed and its funds are held.
HeldFundsCaptured ==
  \A c \in Clients :
    LET i == intent[c]
    IN  pc[c] = "refused" /\ op[c] = "capture"
          => ~(provider[i] = "succeeded" /\ capturable[i] /\ ~received[i])
=============================================================================
