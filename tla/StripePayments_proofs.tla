------------------------- MODULE StripePayments_proofs -------------------------
(***************************************************************************)
(* Proofs about StripePayments for every set of calls and of intents.  The *)
(* argument is about an undisturbed intent: one call at most is at work on *)
(* it, so what that call read of the row is still so when it asks the      *)
(* provider and when it writes the answer.                                 *)
(***************************************************************************)
EXTENDS StripePayments, TLAPS

\* A call is a create from its first step to its last.
OpInv == \A c \in Clients : pc[c] = "creating" => op[c] = "create"

\* Two calls work on one intent only if it is noted as disturbed.
OverlapInv ==
  \A c, d \in Clients, i \in Intents :
    WorksOn(c, i) /\ WorksOn(d, i) /\ c # d => i \in disturbed

\* The row says what the provider says, or the provider has lost the intent.
Agrees(i) == provider[i] = "absent" \/ stored[i] = provider[i]

\* Before the provider is asked the row agrees with it; afterwards the answer does,
\* and a change was let through only by a row that is not final, if there was one.
CallInv(c, i) ==
  /\ pc[c] \in {"validating", "calling"} => op[c] \in Changes /\ Agrees(i)
  /\ pc[c] = "calling" => stored[i] \notin Final
  /\ pc[c] \in {"finding", "writing"} => provider[i] = answer[c]
  /\ pc[c] \in {"finding", "writing"} /\ op[c] # "create" => stored[i] \notin Final
  /\ pc[c] = "writing" => found[c] \/ stored[i] = "absent"

IntentInv(i) ==
  /\ (\A c \in Clients : ~WorksOn(c, i)) => Agrees(i)
  /\ \A c \in Clients : WorksOn(c, i) => CallInv(c, i)
  /\ charges[i] # 0 => charges[i] = 1 /\ provider[i] = "succeeded"
  /\ priced[i] => stored[i] # "absent"

\* What was, or is about to be, recorded as 'succeeded' has been charged.
PaidInv ==
  /\ SucceededIsPaid
  /\ \A c \in Clients :
       pc[c] \in {"finding", "writing"} /\ answer[c] = "succeeded" => intent[c] \in paid

IInv ==
  /\ TypeOK
  /\ OpInv
  /\ OverlapInv
  /\ PaidInv
  /\ \A i \in Intents \ disturbed : IntentInv(i)

--------------------------------------------------------------------------------
(* Types *)

\* What the table of outcomes and the transition check range over.
LEMMA OutcomeType == \A k \in Cards : Outcome[k] \in PaymentIntentStatus
  BY DEF Cards, Outcome, PaymentIntentStatus

LEMMA FinalHasNoSuccessor == \A s \in Final : VALID_TRANSITIONS[s] = {}
  BY DEF Final, VALID_TRANSITIONS

LEMMA NoteChargeType == \A n \in 0..2 : NoteCharge(n) \in 0..2
  BY DEF NoteCharge

\* Locals stay in their types when calls drop them.
LEMMA DropType ==
  ASSUME TypeOK, NEW C \in SUBSET Clients, DropLocals(C)
  PROVE  /\ card' \in [Clients -> Cards]
         /\ manual' \in [Clients -> BOOLEAN]
         /\ answer' \in [Clients -> PaymentIntentStatus]
         /\ found' \in [Clients -> BOOLEAN]
  BY DEF TypeOK, DropLocals, Cards, PaymentIntentStatus

\* They leave the other calls' locals alone.
LEMMA DropOthers ==
  ASSUME TypeOK, NEW c \in Clients, DropLocals({c}), NEW d \in Clients \ {c}
  PROVE  answer'[d] = answer[d] /\ found'[d] = found[d]
<1>1. answer'[d] = answer[d]
  BY DEF DropLocals
<1>2. found'[d] = IF d \in {c} THEN FALSE ELSE found[d]
  BY Zenon DEF DropLocals
<1>3. found'[d] = found[d]
  BY <1>2, Zenon
<1>4. QED
  BY <1>1, <1>3

LEMMA ProceedType == TypeOK /\ (\E c \in Clients : Proceed(c)) => TypeOK'
<1> SUFFICES ASSUME TypeOK, NEW c \in Clients, Proceed(c) PROVE TypeOK'
  OBVIOUS
<1> USE OutcomeType, NoteChargeType
<1>1. CASE \E i \in Intents : ProviderCreate(c, i)
  <2> PICK i \in Intents : ProviderCreate(c, i)
    BY <1>1
  <2>1. /\ charges' \in [Intents -> 0..2] /\ received' \in [Intents -> BOOLEAN]
        /\ paid' \subseteq Intents
    BY DEF TypeOK, ProviderCreate
  <2>2. QED
    BY <2>1 DEF TypeOK, ProviderCreate, Answer, NoteOverlap, Working, storeVars
<1>2. CASE Validate(c)
  BY <1>2, DropType DEF TypeOK, Validate, Working, providerVars, storeVars, historyVars
<1>3. CASE ProviderConfirm(c)
  <2> DEFINE k == IF card[c] # "none" THEN card[c] ELSE HeldMethod(intent[c])
  <2>1. k \in Cards
    BY DEF TypeOK, HeldMethod, Cards
  <2>2. QED
    BY <1>3, <2>1 DEF TypeOK, ProviderConfirm, Answer, Working, storeVars
<1>4. CASE ProviderCapture(c)
  BY <1>4 DEF TypeOK, ProviderCapture, Answer, HeldMethod, Working, Cards, storeVars,
              PaymentIntentStatus
<1>5. CASE ProviderCancel(c)
  BY <1>5 DEF TypeOK, ProviderCancel, Answer, HeldMethod, Working, Cards, storeVars,
              historyVars, PaymentIntentStatus
<1>6. CASE Find(c)
  BY <1>6 DEF TypeOK, Find, Working, providerVars, storeVars, historyVars
<1>7. CASE Record(c)
  <2>1. HasAmount(c) \in BOOLEAN
    BY Zenon DEF HasAmount
  <2>2. priced' \in [Intents -> BOOLEAN]
    BY <1>7, <2>1, Zenon DEF TypeOK, Record
  <2>3. QED
    BY <1>7, <2>2, DropType DEF TypeOK, Record, Working, providerVars, historyVars
<1>8. QED
  BY <1>1, <1>2, <1>3, <1>4, <1>5, <1>6, <1>7 DEF Proceed

LEMMA StepType == TypeOK /\ [Next]_vars => TypeOK'
<1> SUFFICES ASSUME TypeOK, [Next]_vars PROVE TypeOK'
  OBVIOUS
<1>1. ASSUME NEW c \in Clients, NEW k \in Cards, NEW m \in BOOLEAN, Create(c, k, m)
      PROVE  TypeOK'
  BY <1>1 DEF TypeOK, Create, providerVars, storeVars, historyVars, Working
<1>2. ASSUME NEW c \in Clients, NEW o \in Changes, NEW i \in Intents, NEW k \in Cards,
             Change(c, o, i, k)
      PROVE  TypeOK'
  BY <1>2 DEF TypeOK, Change, NoteOverlap, providerVars, storeVars, Working
<1>3. CASE Crash
  BY <1>3, DropType DEF TypeOK, Crash, storeVars, Cards
<1>4. CASE UNCHANGED vars
  BY <1>4 DEF TypeOK, vars, callVars, providerVars, storeVars, historyVars
<1>5. "none" \in Cards /\ "confirm" \in Changes /\ {"capture", "cancel"} \subseteq Changes
  BY DEF Cards, Changes
<1>6. ASSUME NEW c \in Clients, StoreRejects(c) PROVE TypeOK'
  BY <1>6, DropType DEF TypeOK, StoreRejects, Working, providerVars, storeVars
<1>7. QED
  BY <1>1, <1>2, <1>3, <1>4, <1>5, <1>6, ProceedType DEF Next

--------------------------------------------------------------------------------
(* Who works on what *)

\* Every call but c is left where it is.
OnlyMoves(c) ==
  \A d \in Clients \ {c} :
    /\ pc'[d] = pc[d] /\ op'[d] = op[d] /\ intent'[d] = intent[d]
    /\ answer'[d] = answer[d] /\ found'[d] = found[d]

\* A step of the service moves one call, and at most its intent.
LEMMA ProceedMoves ==
  ASSUME TypeOK, NEW c \in Clients, Proceed(c)
  PROVE  /\ OnlyMoves(c)
         /\ \A i \in Intents \ {intent'[c]} :
              /\ stored'[i] = stored[i] /\ priced'[i] = priced[i]
              /\ provider'[i] = provider[i] /\ charges'[i] = charges[i]
         /\ pc[c] # "creating" => intent'[c] = intent[c]
         /\ op'[c] = op[c]
         /\ disturbed \subseteq disturbed'
<1>1. CASE \E i \in Intents : ProviderCreate(c, i)
  BY <1>1 DEF TypeOK, OnlyMoves, ProviderCreate, Answer, NoteOverlap, storeVars
<1>2. CASE Validate(c)
  BY <1>2, DropOthers DEF TypeOK, OnlyMoves, Validate, storeVars, providerVars, historyVars
<1>3. CASE ProviderConfirm(c)
  BY <1>3 DEF TypeOK, OnlyMoves, ProviderConfirm, Answer, storeVars
<1>4. CASE ProviderCapture(c)
  BY <1>4 DEF TypeOK, OnlyMoves, ProviderCapture, Answer, storeVars
<1>5. CASE ProviderCancel(c)
  BY <1>5 DEF TypeOK, OnlyMoves, ProviderCancel, Answer, storeVars, historyVars
<1>6. CASE Find(c)
  BY <1>6 DEF TypeOK, OnlyMoves, Find, storeVars, providerVars, historyVars
<1>7. CASE Record(c)
  <2>1. \A i \in Intents \ {intent[c]} : priced'[i] = priced[i]
    BY <1>7, Zenon DEF TypeOK, Record
  <2>2. QED
    BY <1>7, <2>1, DropOthers DEF TypeOK, OnlyMoves, Record, providerVars, historyVars
<1>8. QED
  BY <1>1, <1>2, <1>3, <1>4, <1>5, <1>6, <1>7 DEF Proceed

\* A call that proceeds was already at work, or is a create that got its id and
\* made a note of whom it overlaps.
LEMMA ProceedWorks ==
  ASSUME TypeOK, NEW c \in Clients, Proceed(c), NEW i \in Intents, WorksOn(c, i)'
  PROVE  \/ WorksOn(c, i) /\ disturbed' = disturbed
         \/ pc[c] = "creating" /\ intent'[c] = i /\ NoteOverlap(c, i)
<1>1. CASE \E j \in Intents : ProviderCreate(c, j)
  BY <1>1 DEF TypeOK, WorksOn, ProviderCreate
<1>2. CASE ~\E j \in Intents : ProviderCreate(c, j)
  BY <1>2 DEF TypeOK, WorksOn, Working, Proceed, Validate, ProviderConfirm, ProviderCapture,
              ProviderCancel, Answer, Find, Record, historyVars
<1>3. QED
  BY <1>1, <1>2

LEMMA StepOp == TypeOK /\ OpInv /\ [Next]_vars => OpInv'
<1> SUFFICES ASSUME TypeOK, OpInv, [Next]_vars PROVE OpInv'
  OBVIOUS
<1>1. ASSUME NEW c \in Clients, Proceed(c) PROVE OpInv'
  <2>1. pc'[c] # "creating"
    BY <1>1 DEF TypeOK, Proceed, ProviderCreate, Validate, ProviderConfirm, ProviderCapture,
                ProviderCancel, Answer, Find, Record
  <2>2. QED
    BY <1>1, <2>1, ProceedMoves DEF OpInv, OnlyMoves
<1>2. ASSUME NEW c \in Clients, NEW k \in Cards, NEW m \in BOOLEAN, Create(c, k, m)
      PROVE  OpInv'
  BY <1>2 DEF TypeOK, OpInv, Create
<1>3. ASSUME NEW c \in Clients, NEW o, NEW i \in Intents, NEW k, Change(c, o, i, k)
      PROVE  OpInv'
  BY <1>3 DEF TypeOK, OpInv, Change
<1>4. CASE Crash
  BY <1>4 DEF OpInv, Crash
<1>5. CASE UNCHANGED vars
  BY <1>5 DEF OpInv, vars, callVars
<1>6. ASSUME NEW c \in Clients, StoreRejects(c) PROVE OpInv'
  BY <1>6 DEF TypeOK, OpInv, StoreRejects
<1>7. QED
  BY <1>1, <1>2, <1>3, <1>4, <1>5, <1>6 DEF Next

LEMMA StepOverlap == TypeOK /\ OverlapInv /\ [Next]_vars => OverlapInv'
<1> SUFFICES ASSUME TypeOK, OverlapInv, [Next]_vars PROVE OverlapInv'
  OBVIOUS
<1>1. ASSUME NEW c \in Clients, Proceed(c) PROVE OverlapInv'
  <2> SUFFICES ASSUME NEW d \in Clients, NEW e \in Clients, NEW i \in Intents,
                      WorksOn(d, i)', WorksOn(e, i)', d # e
               PROVE  i \in disturbed'
    BY DEF OverlapInv
  <2>1. \A f \in Clients \ {c} : WorksOn(f, i)' => WorksOn(f, i)
    BY <1>1, ProceedMoves DEF OnlyMoves, WorksOn
  <2>2. CASE WorksOn(d, i) /\ WorksOn(e, i)
    BY <1>1, <2>2, ProceedMoves DEF OverlapInv
  <2>3. CASE ~(WorksOn(d, i) /\ WorksOn(e, i))
    <3>1. \E f \in Clients \ {c} : WorksOn(f, i)
      BY <2>1
    <3>2. NoteOverlap(c, i)
      BY <1>1, <2>1, <2>3, ProceedWorks
    <3>3. QED
      BY <3>1, <3>2 DEF NoteOverlap
  <2>4. QED
    BY <2>2, <2>3
<1>2. ASSUME NEW c \in Clients, NEW k \in Cards, NEW m \in BOOLEAN, Create(c, k, m)
      PROVE  OverlapInv'
  BY <1>2 DEF TypeOK, OverlapInv, WorksOn, Working, Create, historyVars
<1>3. ASSUME NEW c \in Clients, NEW o, NEW i \in Intents, NEW k, Change(c, o, i, k)
      PROVE  OverlapInv'
  BY <1>3 DEF TypeOK, OverlapInv, WorksOn, Change, NoteOverlap
<1>4. CASE Crash
  BY <1>4 DEF OverlapInv, WorksOn, Working, Crash
<1>5. CASE UNCHANGED vars
  BY <1>5 DEF OverlapInv, WorksOn, vars, callVars, historyVars
<1>6. ASSUME NEW c \in Clients, StoreRejects(c) PROVE OverlapInv'
  <2>1. \A d \in Clients, i \in Intents : WorksOn(d, i)' => WorksOn(d, i)
    BY <1>6 DEF TypeOK, StoreRejects, WorksOn, Working
  <2>2. disturbed \subseteq disturbed'
    BY <1>6 DEF StoreRejects
  <2>3. QED
    BY <2>1, <2>2 DEF OverlapInv
<1>7. QED
  BY <1>1, <1>2, <1>3, <1>4, <1>5, <1>6 DEF Next

\* Charges are noted as they are answered, and answers are what is recorded.
LEMMA StepPaid == TypeOK /\ TypeOK' /\ PaidInv /\ [Next]_vars => PaidInv'
<1> SUFFICES ASSUME TypeOK, TypeOK', PaidInv, [Next]_vars PROVE PaidInv'
  OBVIOUS
<1> USE DEF PaidInv, SucceededIsPaid
<1>1. ASSUME NEW c \in Clients, Proceed(c) PROVE PaidInv'
  <2>1. CASE \E i \in Intents : ProviderCreate(c, i)
    BY <2>1 DEF TypeOK, ProviderCreate, Answer, storeVars
  <2>2. CASE Validate(c)
    BY <1>1, <2>2, ProceedMoves DEF TypeOK, Validate, storeVars, historyVars, OnlyMoves
  <2>3. CASE ProviderConfirm(c)
    <3> DEFINE k == IF card[c] # "none" THEN card[c] ELSE HeldMethod(intent[c])
    <3>1. k \in Cards
      BY DEF TypeOK, HeldMethod, Cards
    <3>2. Outcome[k] = "succeeded" => k = "good"
      BY <3>1 DEF Outcome, Cards
    <3>3. paid' = IF k = "good" THEN paid \cup {intent[c]} ELSE paid
      BY <2>3 DEF ProviderConfirm
    <3>4. answer' = [answer EXCEPT ![c] = Outcome[k]]
      BY <2>3 DEF ProviderConfirm, Answer
    <3>5. /\ pc' = [pc EXCEPT ![c] = "finding"]
          /\ stored' = stored /\ intent' = intent
      BY <2>3 DEF ProviderConfirm, Answer, storeVars
    <3> HIDE DEF k
    <3>6. QED
      BY <3>2, <3>3, <3>4, <3>5 DEF TypeOK
  <2>4. CASE ProviderCapture(c)
    BY <2>4 DEF TypeOK, ProviderCapture, Answer, storeVars
  <2>5. CASE ProviderCancel(c)
    BY <2>5 DEF TypeOK, ProviderCancel, Answer, storeVars, historyVars
  <2>6. CASE Find(c)
    BY <2>6 DEF TypeOK, Find, storeVars, historyVars
  <2>7. CASE Record(c)
    BY <1>1, <2>7, ProceedMoves DEF TypeOK, Record, historyVars, OnlyMoves
  <2>8. QED
    BY <1>1, <2>1, <2>2, <2>3, <2>4, <2>5, <2>6, <2>7 DEF Proceed
<1>2. ASSUME NEW c \in Clients, NEW k \in Cards, NEW m \in BOOLEAN, Create(c, k, m)
      PROVE  PaidInv'
  BY <1>2 DEF TypeOK, Create, storeVars, historyVars
<1>3. ASSUME NEW c \in Clients, NEW o, NEW i \in Intents, NEW k, Change(c, o, i, k)
      PROVE  PaidInv'
  BY <1>3 DEF TypeOK, Change, storeVars
<1>4. CASE Crash
  BY <1>4 DEF Crash, storeVars
<1>5. CASE UNCHANGED vars
  BY <1>5 DEF vars, callVars, storeVars, historyVars
<1>6. ASSUME NEW c \in Clients, StoreRejects(c) PROVE PaidInv'
  BY <1>6, DropOthers DEF TypeOK, StoreRejects, storeVars
<1>7. QED
  BY <1>1, <1>2, <1>3, <1>4, <1>5, <1>6 DEF Next

--------------------------------------------------------------------------------
(* One intent *)

\* Nothing that concerns intent i changes, and no call starts or stops on it.
LEMMA IntentFrame ==
  ASSUME NEW i \in Intents, IntentInv(i),
         stored'[i] = stored[i], priced'[i] = priced[i],
         provider'[i] = provider[i], charges'[i] = charges[i],
         \A d \in Clients : WorksOn(d, i)' <=> WorksOn(d, i),
         \A d \in Clients : WorksOn(d, i) =>
           pc'[d] = pc[d] /\ op'[d] = op[d] /\ answer'[d] = answer[d] /\ found'[d] = found[d]
  PROVE  IntentInv(i)'
<1>1. Agrees(i)' <=> Agrees(i)
  BY DEF Agrees
<1>2. ASSUME NEW d \in Clients, WorksOn(d, i)' PROVE CallInv(d, i)'
  <2>1. CallInv(d, i) /\ WorksOn(d, i)
    BY <1>2 DEF IntentInv
  <2>2. pc'[d] = pc[d] /\ op'[d] = op[d] /\ answer'[d] = answer[d] /\ found'[d] = found[d]
    BY <2>1
  <2>3. (pc[d] = "writing" => found[d] \/ stored[i] = "absent")'
    BY <2>1, <2>2, Zenon DEF CallInv
  <2>4. QED
    BY <1>1, <2>1, <2>2, <2>3 DEF CallInv
<1>3. (priced[i] => stored[i] # "absent")'
  BY Zenon DEF IntentInv
<1>4. QED
  BY <1>1, <1>2, <1>3 DEF IntentInv

\* The one call at work on i takes a step: what is left to show about i.
LEMMA IntentMove ==
  ASSUME NEW i \in Intents, NEW c \in Clients,
         \A d \in Clients \ {c} : ~WorksOn(d, i)',
         ~WorksOn(c, i)' => Agrees(i)',
         WorksOn(c, i)' => CallInv(c, i)',
         charges'[i] # 0 => charges'[i] = 1 /\ provider'[i] = "succeeded",
         priced'[i] => stored'[i] # "absent"
  PROVE  IntentInv(i)'
<1>1. (\A d \in Clients : ~WorksOn(d, i)') => Agrees(i)'
  OBVIOUS
<1>2. \A d \in Clients : WorksOn(d, i)' => CallInv(d, i)'
  <2>1. \A d \in Clients : d = c \/ d \in Clients \ {c}
    OBVIOUS
  <2>2. QED
    BY <2>1
<1>3. QED
  BY <1>1, <1>2, Zenon DEF IntentInv

\* A change is let through only by no row or one that is not final, and if that agrees
\* with the provider nothing has been charged.
LEMMA NotYetCharged ==
  ASSUME TypeOK, NEW i \in Intents, IntentInv(i), Agrees(i), stored[i] \notin Final
  PROVE  charges[i] = 0
  BY DEF IntentInv, Agrees, Final, TypeOK

LEMMA LetThroughNotFinal ==
  ASSUME TypeOK, NEW i \in Intents, NEW o \in Changes, Allowed(i, o)
  PROVE  stored[i] \notin Final
  BY FinalHasNoSuccessor DEF Allowed, Final

\* The call that proceeds is alone on its intent unless that is disturbed.
LEMMA ProceedAlone ==
  ASSUME TypeOK, OverlapInv, NEW c \in Clients, Proceed(c),
         NEW i \in Intents \ disturbed', intent'[c] = i, NEW d \in Clients \ {c}
  PROVE  ~WorksOn(d, i) /\ ~WorksOn(d, i)'
<1>1. WorksOn(d, i)' <=> WorksOn(d, i)
  BY ProceedMoves DEF OnlyMoves, WorksOn
<1>2. CASE \E j \in Intents : ProviderCreate(c, j)
  BY <1>1, <1>2 DEF TypeOK, ProviderCreate, NoteOverlap
<1>3. CASE ~\E j \in Intents : ProviderCreate(c, j)
  <2>1. WorksOn(c, i)
    BY <1>3 DEF Proceed, WorksOn, Working, Validate, ProviderConfirm, ProviderCapture,
                ProviderCancel, Find, Record
  <2>2. QED
    BY <1>1, <2>1, ProceedMoves DEF OverlapInv
<1>4. QED
  BY <1>2, <1>3

\* Of the intent the call works on, action by action.
LEMMA ProceedOwnIntent ==
  ASSUME IInv, TypeOK', NEW c \in Clients, Proceed(c),
         NEW i \in Intents \ disturbed', intent'[c] = i
  PROVE  IntentInv(i)'
<1>1. TypeOK /\ OpInv /\ OverlapInv /\ i \in Intents /\ IntentInv(i)
  BY ProceedMoves DEF IInv
<1>2. \A d \in Clients \ {c} : ~WorksOn(d, i) /\ ~WorksOn(d, i)'
  BY <1>1, ProceedAlone
<1>3. WorksOn(c, i) => CallInv(c, i)
  BY <1>1 DEF IntentInv
<1>4. CASE ProviderCreate(c, i)
  <2>1. op[c] = "create" /\ op' = op
    BY <1>1, <1>4 DEF OpInv, ProviderCreate
  <2>2. /\ pc'[c] = "finding" /\ provider'[i] = answer'[c]
        /\ charges'[i] # 0 => charges'[i] = 1 /\ provider'[i] = "succeeded"
    BY <1>1, <1>4 DEF TypeOK, ProviderCreate, Answer
  <2>3. stored' = stored /\ priced' = priced
    BY <1>4 DEF ProviderCreate, storeVars
  <2>4. priced'[i] => stored'[i] # "absent"
    BY <1>1, <2>3, Zenon DEF IntentInv
  <2>5. CallInv(c, i)'
    BY <2>1, <2>2 DEF CallInv
  <2>6. WorksOn(c, i)'
    BY <2>2 DEF WorksOn, Working
  <2>7. QED
    BY <1>2, <2>2, <2>4, <2>5, <2>6, IntentMove
<1>5. CASE Validate(c)
  <2>1. WorksOn(c, i) /\ CallInv(c, i) /\ pc[c] = "validating" /\ intent' = intent
    BY <1>3, <1>5 DEF Validate, WorksOn, Working
  <2>2. op[c] \in Changes /\ Agrees(i)
    BY <2>1 DEF CallInv
  <2>3. /\ stored' = stored /\ priced' = priced /\ provider' = provider
        /\ charges' = charges /\ op' = op
    BY <1>5 DEF Validate, storeVars, providerVars, historyVars
  <2>4. Agrees(i)'
    BY <2>2, <2>3 DEF Agrees
  <2>5. /\ WorksOn(c, i)' => pc'[c] = "calling"
        /\ pc'[c] = "calling" => stored[i] \notin Final
    BY <1>1, <1>5, <2>1, <2>2, LetThroughNotFinal DEF TypeOK, Validate, WorksOn, Working
  <2>6. WorksOn(c, i)' => CallInv(c, i)'
    BY <2>2, <2>3, <2>4, <2>5 DEF CallInv
  <2>7. charges'[i] # 0 => charges'[i] = 1 /\ provider'[i] = "succeeded"
    BY <1>1, <2>3 DEF IntentInv
  <2>8. priced'[i] => stored'[i] # "absent"
    BY <1>1, <2>3, Zenon DEF IntentInv
  <2>9. QED
    BY <1>2, <2>4, <2>6, <2>7, <2>8, IntentMove
<1>6. CASE ProviderConfirm(c) \/ ProviderCapture(c) \/ ProviderCancel(c)
  <2>1. /\ pc[c] = "calling" /\ op[c] \in Changes /\ intent' = intent /\ op' = op
        /\ stored' = stored /\ priced' = priced
    BY <1>6 DEF ProviderConfirm, ProviderCapture, ProviderCancel, storeVars, Changes
  <2>2. CallInv(c, i)
    BY <1>3, <2>1 DEF WorksOn, Working
  <2>3. stored[i] \notin Final /\ Agrees(i)
    BY <2>1, <2>2 DEF CallInv
  <2>4. charges[i] = 0
    BY <1>1, <2>3, NotYetCharged
  <2>5. /\ pc'[c] = "finding" /\ provider'[i] = answer'[c]
        /\ charges'[i] # 0 => charges'[i] = 1 /\ provider'[i] = "succeeded"
    <3>1. CASE ProviderConfirm(c)
      BY <1>1, <2>1, <2>4, <3>1 DEF TypeOK, ProviderConfirm, Answer, NoteCharge, Outcome
    <3>2. CASE ProviderCapture(c)
      BY <1>1, <2>1, <2>4, <3>2 DEF TypeOK, ProviderCapture, Answer, NoteCharge
    <3>3. CASE ProviderCancel(c)
      BY <1>1, <2>1, <2>4, <3>3 DEF TypeOK, ProviderCancel, Answer, historyVars
    <3>4. QED
      BY <1>6, <3>1, <3>2, <3>3
  <2>6. CallInv(c, i)' /\ WorksOn(c, i)'
    BY <2>1, <2>3, <2>5 DEF CallInv, WorksOn, Working
  <2>7. priced'[i] => stored'[i] # "absent"
    BY <1>1, <2>1, Zenon DEF IntentInv
  <2>8. QED
    BY <1>2, <2>5, <2>6, <2>7, IntentMove
<1>7. CASE Find(c)
  <2>1. WorksOn(c, i) /\ CallInv(c, i) /\ pc[c] = "finding"
    BY <1>3, <1>7 DEF Find, WorksOn, Working
  <2>2. /\ stored' = stored /\ priced' = priced /\ provider' = provider
        /\ charges' = charges /\ op' = op /\ answer' = answer /\ intent' = intent
    BY <1>7 DEF Find, storeVars, providerVars, historyVars
  <2>3. pc'[c] = "writing"
    BY <1>1, <1>7 DEF TypeOK, Find
  <2>4. found'[c] = (stored[i] # "absent")
    BY <1>1, <1>7, <2>2, Zenon DEF TypeOK, Find
  <2>5. op[c] # "create" => stored[i] \notin Final
    BY <2>1 DEF CallInv
  <2>6. found'[c] \/ stored'[i] = "absent"
    BY <2>2, <2>4, Zenon
  <2>7. CallInv(c, i)' /\ WorksOn(c, i)'
    BY <2>1, <2>2, <2>3, <2>5, <2>6 DEF CallInv, WorksOn, Working
  <2>8. charges'[i] # 0 => charges'[i] = 1 /\ provider'[i] = "succeeded"
    BY <1>1, <2>2 DEF IntentInv
  <2>9. priced'[i] => stored'[i] # "absent"
    BY <1>1, <2>2, Zenon DEF IntentInv
  <2>10. QED
    BY <1>2, <2>7, <2>8, <2>9, IntentMove
<1>8. CASE Record(c)
  <2>1. WorksOn(c, i) /\ CallInv(c, i) /\ pc[c] = "writing" /\ intent' = intent
    BY <1>3, <1>8 DEF Record, WorksOn, Working
  <2>2. provider' = provider /\ charges' = charges
    BY <1>8 DEF Record, providerVars, historyVars
  <2>3. stored'[i] = answer[c] /\ ~WorksOn(c, i)'
    BY <1>1, <1>8, <2>1 DEF TypeOK, Record, WorksOn, Working
  <2>4. Agrees(i)'
    BY <2>1, <2>2, <2>3 DEF CallInv, Agrees
  <2>5. charges'[i] # 0 => charges'[i] = 1 /\ provider'[i] = "succeeded"
    BY <1>1, <2>2 DEF IntentInv
  <2>6. priced'[i] => stored'[i] # "absent"
    BY <1>1, <2>3 DEF TypeOK, PaymentIntentStatus
  <2>7. QED
    BY <1>2, <2>3, <2>4, <2>5, <2>6, IntentMove
<1>9. \A j \in Intents : ProviderCreate(c, j) => j = i
  BY <1>1 DEF TypeOK, ProviderCreate
<1>10. QED
  BY <1>4, <1>5, <1>6, <1>7, <1>8, <1>9 DEF Proceed

LEMMA ProceedIntent ==
  ASSUME IInv, TypeOK', NEW c \in Clients, Proceed(c), NEW i \in Intents \ disturbed'
  PROVE  IntentInv(i)'
<1>1. CASE intent'[c] = i
  BY <1>1, ProceedOwnIntent
<1>2. CASE intent'[c] # i
  <2>1. TypeOK /\ i \in Intents /\ IntentInv(i)
    BY ProceedMoves DEF IInv
  <2>2. ~WorksOn(c, i) /\ ~WorksOn(c, i)'
    BY <1>2, <2>1, ProceedMoves DEF WorksOn, Working
  <2>3. \A d \in Clients \ {c} : WorksOn(d, i)' <=> WorksOn(d, i)
    BY <2>1, ProceedMoves DEF OnlyMoves, WorksOn
  <2>4. \A d \in Clients : WorksOn(d, i)' <=> WorksOn(d, i)
    BY <2>2, <2>3
  <2>5. /\ stored'[i] = stored[i] /\ priced'[i] = priced[i]
        /\ provider'[i] = provider[i] /\ charges'[i] = charges[i]
    BY <1>2, <2>1, ProceedMoves
  <2>6. \A d \in Clients : WorksOn(d, i) =>
          pc'[d] = pc[d] /\ op'[d] = op[d] /\ answer'[d] = answer[d] /\ found'[d] = found[d]
    BY <2>1, <2>2, ProceedMoves DEF OnlyMoves
  <2>7. QED
    BY <2>1, <2>4, <2>5, <2>6, IntentFrame
<1>3. QED
  BY <1>1, <1>2

LEMMA ChangeIntent ==
  ASSUME IInv, NEW c \in Clients, NEW o \in Changes, NEW j \in Intents, NEW k,
         Change(c, o, j, k), NEW i \in Intents \ disturbed'
  PROVE  IntentInv(i)'
<1>1. TypeOK /\ IntentInv(i) /\ ~WorksOn(c, i)
  BY DEF IInv, Change, NoteOverlap, WorksOn, Busy
<1>2. /\ stored' = stored /\ priced' = priced /\ provider' = provider
      /\ charges' = charges /\ answer' = answer /\ found' = found
  BY DEF Change, storeVars, providerVars
<1>3. /\ pc'[c] = "validating" /\ op'[c] = o /\ intent'[c] = j
      /\ \A d \in Clients \ {c} : pc'[d] = pc[d] /\ op'[d] = op[d] /\ intent'[d] = intent[d]
  BY <1>1 DEF TypeOK, Change
<1>4. \A d \in Clients \ {c} : WorksOn(d, i)' <=> WorksOn(d, i)
  BY <1>3 DEF WorksOn
<1>5. CASE i # j
  <2>1. ~WorksOn(c, i)'
    BY <1>3, <1>5 DEF WorksOn
  <2>2. \A d \in Clients : WorksOn(d, i)' <=> WorksOn(d, i)
    BY <1>1, <1>4, <2>1
  <2>3. \A d \in Clients : WorksOn(d, i) =>
          pc'[d] = pc[d] /\ op'[d] = op[d] /\ answer'[d] = answer[d] /\ found'[d] = found[d]
    BY <1>1, <1>2, <1>3
  <2>4. QED
    BY <1>1, <1>2, <2>2, <2>3, IntentFrame
<1>6. CASE i = j
  <2>1. \A d \in Clients \ {c} : ~WorksOn(d, i)
    BY <1>6 DEF Change, NoteOverlap
  <2>2. Agrees(i)
    BY <1>1, <2>1 DEF IntentInv
  <2>4. CallInv(c, i)' /\ WorksOn(c, i)'
    BY <1>2, <1>3, <1>6, <2>2 DEF CallInv, WorksOn, Working, Agrees
  <2>5. charges'[i] # 0 => charges'[i] = 1 /\ provider'[i] = "succeeded"
    BY <1>1, <1>2 DEF IntentInv
  <2>6. priced'[i] => stored'[i] # "absent"
    BY <1>1, <1>2, Zenon DEF IntentInv
  <2>7. QED
    BY <1>4, <2>1, <2>4, <2>5, <2>6, IntentMove
<1>7. QED
  BY <1>5, <1>6

LEMMA CreateIntent ==
  ASSUME IInv, NEW c \in Clients, NEW k, NEW m, Create(c, k, m),
         NEW i \in Intents \ disturbed'
  PROVE  IntentInv(i)'
<1>1. TypeOK /\ IntentInv(i) /\ ~WorksOn(c, i)
  BY DEF IInv, Create, historyVars, WorksOn, Busy
<1>2. /\ stored' = stored /\ priced' = priced /\ provider' = provider /\ charges' = charges
      /\ answer' = answer /\ found' = found /\ intent' = intent
  BY DEF Create, storeVars, providerVars, historyVars
<1>3. /\ pc'[c] = "creating"
      /\ \A d \in Clients \ {c} : pc'[d] = pc[d] /\ op'[d] = op[d]
  BY <1>1 DEF TypeOK, Create
<1>4. \A d \in Clients : WorksOn(d, i)' <=> WorksOn(d, i)
  BY <1>1, <1>2, <1>3 DEF WorksOn, Working
<1>5. \A d \in Clients : WorksOn(d, i) =>
        pc'[d] = pc[d] /\ op'[d] = op[d] /\ answer'[d] = answer[d] /\ found'[d] = found[d]
  BY <1>1, <1>2, <1>3
<1>6. QED
  BY <1>1, <1>2, <1>4, <1>5, IntentFrame

\* A call that the store failed leaves its intent alone: nothing has been asked of
\* the provider, or the intent is disturbed.
LEMMA RejectIntent ==
  ASSUME IInv, NEW c \in Clients, StoreRejects(c), NEW i \in Intents \ disturbed'
  PROVE  IntentInv(i)'
<1>1. TypeOK /\ IntentInv(i)
  BY DEF IInv, StoreRejects
<1>2. /\ stored' = stored /\ priced' = priced /\ provider' = provider
      /\ charges' = charges /\ intent' = intent /\ op' = op
  BY DEF StoreRejects, storeVars, providerVars
<1>3. /\ ~WorksOn(c, i)'
      /\ \A d \in Clients \ {c} : pc'[d] = pc[d] /\ answer'[d] = answer[d] /\ found'[d] = found[d]
  BY <1>1, DropOthers DEF TypeOK, StoreRejects, WorksOn, Working
<1>4. \A d \in Clients \ {c} : WorksOn(d, i)' <=> WorksOn(d, i)
  BY <1>2, <1>3 DEF WorksOn
<1>5. CASE WorksOn(c, i)
  <2>1. pc[c] = "validating"
    BY <1>5 DEF StoreRejects, WorksOn
  <2>2. Agrees(i)
    BY <1>1, <1>5, <2>1 DEF IntentInv, CallInv
  <2>3. \A d \in Clients \ {c} : ~WorksOn(d, i)
    BY <1>5 DEF IInv, OverlapInv, StoreRejects
  <2>4. Agrees(i)'
    BY <1>2, <2>2 DEF Agrees
  <2>5. charges'[i] # 0 => charges'[i] = 1 /\ provider'[i] = "succeeded"
    BY <1>1, <1>2 DEF IntentInv
  <2>6. priced'[i] => stored'[i] # "absent"
    BY <1>1, <1>2, Zenon DEF IntentInv
  <2>7. QED
    BY <1>3, <1>4, <2>3, <2>4, <2>5, <2>6, IntentMove
<1>6. CASE ~WorksOn(c, i)
  <2>1. \A d \in Clients : WorksOn(d, i)' <=> WorksOn(d, i)
    BY <1>3, <1>4, <1>6
  <2>2. \A d \in Clients : WorksOn(d, i) =>
          pc'[d] = pc[d] /\ op'[d] = op[d] /\ answer'[d] = answer[d] /\ found'[d] = found[d]
    BY <1>2, <1>3, <1>6
  <2>3. QED
    BY <1>1, <1>2, <2>1, <2>2, IntentFrame
<1>7. QED
  BY <1>5, <1>6

\* After a crash the provider knows no intent and no call is at work.
LEMMA CrashIntent ==
  ASSUME IInv, Crash, NEW i \in Intents \ disturbed'
  PROVE  IntentInv(i)'
<1>1. IntentInv(i)
  BY DEF IInv, Crash
<1>2. provider'[i] = "absent" /\ charges'[i] = 0 /\ \A c \in Clients : ~WorksOn(c, i)'
  BY DEF Crash, WorksOn, Working
<1>3. stored' = stored /\ priced' = priced
  BY DEF Crash, storeVars
<1>4. priced'[i] => stored'[i] # "absent"
  BY <1>1, <1>3, Zenon DEF IntentInv
<1>5. Agrees(i)'
  BY <1>2 DEF Agrees
<1>6. QED
  BY <1>2, <1>4, <1>5 DEF IntentInv

LEMMA StepIInv == IInv /\ [Next]_vars => IInv'
<1> SUFFICES ASSUME IInv, [Next]_vars PROVE IInv'
  OBVIOUS
<1>1. TypeOK' /\ OpInv' /\ OverlapInv' /\ PaidInv'
  BY StepType, StepOp, StepOverlap, StepPaid DEF IInv
<1>2. ASSUME NEW i \in Intents \ disturbed' PROVE IntentInv(i)'
  <2>1. CASE UNCHANGED vars
    <3>1. i \in Intents \ disturbed
      BY <2>1 DEF vars, historyVars
    <3>2. IntentInv(i)
      BY <3>1 DEF IInv
    <3>3. QED
      BY <2>1, <3>2, IntentFrame
         DEF vars, callVars, providerVars, storeVars, historyVars, WorksOn
  <2>2. "confirm" \in Changes /\ {"capture", "cancel"} \subseteq Changes
    BY DEF Changes
  <2>3. QED
    BY <1>1, <2>1, <2>2, ProceedIntent, ChangeIntent, CreateIntent, RejectIntent, CrashIntent
       DEF Next
<1>3. QED
  BY <1>1, <1>2 DEF IInv

LEMMA InitIInv == Init => IInv
<1> SUFFICES ASSUME Init PROVE IInv
  OBVIOUS
<1>1. TypeOK
  BY DEF Init, TypeOK, Working, Cards, Changes, PaymentIntentStatus
<1>2. \A c \in Clients, i \in Intents : ~WorksOn(c, i)
  BY DEF Init, WorksOn, Working
<1>3. \A i \in Intents : IntentInv(i)
  BY <1>2 DEF Init, IntentInv, Agrees
<1>4. OpInv /\ OverlapInv /\ PaidInv
  BY <1>2 DEF Init, OpInv, OverlapInv, PaidInv, SucceededIsPaid
<1>5. QED
  BY <1>1, <1>3, <1>4 DEF IInv

--------------------------------------------------------------------------------
(* Theorems *)

\* The invariant holds in every reachable state of StripeService, its provider and
\* its rows, for any number of calls and intents.
THEOREM Invariance == Spec => []IInv
  BY InitIInv, StepIInv, PTL DEF Spec

\* The variables keep their types.
THEOREM TypeCorrect == Spec => []TypeOK
<1>1. IInv => TypeOK
  BY DEF IInv
<1>2. QED
  BY <1>1, Invariance, PTL

\* recordTransaction() leaves the row in agreement with the provider after every
\* sequence of calls that do not disturb one another, crashes included.
THEOREM RowAgrees == Spec => []StoreAgrees
<1>1. IInv => StoreAgrees
  BY DEF IInv, StoreAgrees, IntentInv, Agrees
<1>2. QED
  BY <1>1, Invariance, PTL

\* validateTransition() on the row keeps calls that do not overlap from charging a
\* payment twice.
THEOREM NoDoubleCharge == Spec => []ChargedOnce
<1>1. IInv => ChargedOnce
  BY DEF IInv, ChargedOnce, IntentInv
<1>2. QED
  BY <1>1, Invariance, PTL

\* recordTransaction() writes 'succeeded' only as the provider's answer to a call under
\* the row's id, so no row tells of a payment that was never made.
THEOREM RowsArePaid == Spec => []SucceededIsPaid
<1>1. IInv => SucceededIsPaid
  BY DEF IInv, PaidInv
<1>2. QED
  BY <1>1, Invariance, PTL

\* A row that has its amount keeps it through all changes that do not overlap: a call
\* without the amount saves the row anew only where it found none.
THEOREM AmountsStay == Spec => AmountKept
<1> DEFINE Kept == \A i \in Intents : priced[i] /\ ~priced'[i] => i \in disturbed'
<1>1. IInv /\ [Next]_vars => [Kept]_vars
  <2> SUFFICES ASSUME IInv, Next, NEW i \in Intents, priced[i], ~priced'[i],
                      i \notin disturbed'
               PROVE  FALSE
    OBVIOUS
  <2>1. priced' # priced
    OBVIOUS
  <2>2. PICK c \in Clients : Record(c)
    BY <2>1 DEF Next, Create, Change, Crash, Proceed, ProviderCreate, ProviderConfirm,
           ProviderCapture, ProviderCancel, Validate, Find, StoreRejects, storeVars
  <2>3. priced' = [priced EXCEPT ![intent[c]] = HasAmount(c)]
    BY <2>2 DEF Record
  <2>4. priced \in [Intents -> BOOLEAN]
    BY DEF IInv, TypeOK
  <2>5. intent[c] = i /\ ~HasAmount(c)
    BY <2>3, <2>4, Zenon
  <2>6. pc[c] = "writing" /\ i \notin disturbed
    BY <2>2 DEF Record, historyVars
  <2>7. CallInv(c, i) /\ IntentInv(i)
    BY <2>5, <2>6 DEF WorksOn, Working, IInv, IntentInv
  <2>8. found[c] \/ stored[i] = "absent"
    BY <2>6, <2>7, Zenon DEF CallInv
  <2>9. stored[i] # "absent"
    BY <2>7, Zenon DEF IntentInv
  <2>10. QED
    BY <2>5, <2>8, <2>9, Zenon DEF HasAmount
<1>2. QED
  BY <1>1, Invariance, PTL DEF Spec, AmountKept

\* A final row is replaced only on a disturbed intent, or by the create that was
\* given the id of an earlier life of the sandbox.
THEOREM FinalKept == Spec => FinalIsForEver
<1> DEFINE Kept == \A i \in Intents :
                     stored[i] \in Final /\ stored'[i] # stored[i] =>
                       \/ i \in disturbed'
                       \/ \E c \in Clients : WorksOn(c, i) /\ op[c] = "create"
<1>1. IInv /\ [Next]_vars => [Kept]_vars
  <2> SUFFICES ASSUME IInv, Next, NEW i \in Intents,
                      stored[i] \in Final, stored'[i] # stored[i], i \notin disturbed'
               PROVE  \E c \in Clients : WorksOn(c, i) /\ op[c] = "create"
    OBVIOUS
  <2>1. PICK c \in Clients : Record(c)
    BY DEF Next, Create, Change, Crash, Proceed, ProviderCreate, ProviderConfirm,
           ProviderCapture, ProviderCancel, Validate, Find, StoreRejects, storeVars
  <2>2. intent[c] = i /\ pc[c] = "writing" /\ i \notin disturbed
    BY <2>1 DEF IInv, TypeOK, Record, historyVars
  <2>3. WorksOn(c, i) /\ CallInv(c, i)
    BY <2>2 DEF WorksOn, Working, IInv, IntentInv
  <2>4. QED
    BY <2>2, <2>3 DEF CallInv
<1>2. QED
  BY <1>1, Invariance, PTL DEF Spec, FinalIsForEver
=============================================================================
