# nesthub: a TLA+ model of its stateful parts

nesthub is a library of NestJS modules (`src/src/<module>`). Most of them keep state in a
database row, a cache or the memory of the process, and touch it in several `await`ed steps
while other requests do the same. This project models those steps. An action is the code
between two awaits; everything a handler does in that stretch is one action, and everything
that may happen between two of them (another request, a timer, a lost write, the end of the
process) is an action of its own.

Contents: [the system](#the-system) · [plan](#plan) · [modules](#modules) · [runs](#runs) ·
[bounds](#bounds) · [fairness](#fairness) · [proofs](#proofs) · [findings](#findings) ·
[not modelled](#not-modelled)

## The system

Every component is a NestJS module that an application imports with `forRoot()`/`register()`.
They run in one or more Node processes. Within a process code runs without preemption between
awaits; the database (TypeORM), Redis (BullMQ, cache) and the outside providers are shared.

| Component (`src/src/…`) | State | Operations | Who calls it, what it calls |
|---|---|---|---|
| `webhook` delivery | one row per event id (`WebhookDeliveryStore`) | `send()`, with retries, exponential backoff and an abort timer | application code and the queue's worker; posts to the receiver's URL |
| `webhook` circuit breaker | a map URL → failures, openUntil | `isOpen()`, `recordSuccess()`, `recordFailure()`, `reset()` | `send()` only |
| `webhook` queue | jobs in Redis | `enqueue()`, the worker's `process()` | application code; BullMQ; `send()` |
| `webhook` event bus, incoming controller | map of handlers | `on`, `emit`; signature check | application code |
| `stripe` payment intents | provider objects, one row per intent (`PaymentStore`) | create, confirm, capture, cancel | application code; Stripe or the sandbox client |
| `stripe` refunds, subscriptions, payment methods, customers | provider objects; a row per refund | create, cancel, update, attach, detach | as above |
| `stripe` webhook events | a lock row per event (`PaymentStore`) | `handleWebhook()`, `acquireLock`, `releaseLock` | Stripe delivers, again until a delivery is answered 200 |
| `stripe` checkout, portal, invoices, products, prices | none | — | pass-through to the provider |
| `auth` sessions | user row (`tokenVersion`), session rows, blacklist (memory or cache) | register, login, refresh, logout, logoutAll, revoke, change password, delete account | controllers; `AuthGuard` reads the same state on every request |
| `auth` one-time codes | verification rows, backup codes in the user row | OTP, magic link, TOTP, backup codes | application code, controllers; issue tokens |
| `auth` registration, OAuth, SSO, passkey, One Tap, anonymous | user, account and passkey rows | register, link or create a user, unlink, convert, clean up | controllers, application code; identity providers |
| `notification` | log rows, jobs in Redis | `send()` with provider fallback, `enqueue()`, worker | application code; mail, SMS and push providers |
| `rate-limit` | counters in memory or Redis | `increment`, `reset`, guard | guard on every request |
| `rbac` | role rows and a permission cache | `getUserPermissions()`, `getUserRoles()`, `hasUserPermission()`, `invalidateCache()`; the store's `assignRole()`, `removeRole()`, `setUserRoles()` | guard on every request |
| `org`, `api-keys` | rows | create, update, delete, members and their roles; create, validate, revoke, restore | application code |
| `calendar` | none (Google's API), webhook channels | events, free slots, watch | application code |
| `storage`, `cache`, `queue`, `metrics`, `logger`, `audit-log`, `activity-feed`, `typeorm`, `excel`, `swagger` | none that decides anything | I/O, recording, configuration | application code |

What is hard, and what makes each component correct:

* **Webhook delivery.** Calls interleave between awaits and share a circuit (per URL) and a row
  (per event id); a fetch races its abort timer; saves are awaited but their failures swallowed;
  the process may die anywhere. Correct means: a caller gets the result its attempts earned, the
  log never claims an unconfirmed delivery and settles, the breaker trips only on failures in a
  row and recovers.
* **Webhook queue.** A crash between the row, the job and the result; redelivery by BullMQ. Correct:
  a send of the worker has its job, no queued row is without something that settles it, jobs finish.
* **Payments.** Each call reads the row, asks the provider, reads the row again and writes it, so
  any two calls on one payment interleave; the sandbox loses its state with the process, the rows
  remain. Correct: the row agrees with the provider, nothing is charged twice, a
  row that says so has been paid, an amount is not lost, a final status is final.
* **Auth sessions.** `tokenVersion` is incremented by read–modify–write of a whole entity, refresh
  tokens rotate by a check and a later blacklisting, session rows are counted and trimmed in
  separate awaits. Correct: what was revoked stays revoked, a refresh token works once, the
  session limit holds when calls do not overlap.
* **Refunds.** The provider is asked, then the row written; the sandbox gives out old ids again after
  a restart. Correct: the row says what the provider says.
* **Stripe's events.** The lock is found and then saved, expires under its holder, is deleted by key,
  and a delivery that does not get it is confirmed. Correct: one instance at a time processes an
  event, and every event is processed.
* **Codes and accounts.** Codes are found and then removed, backup codes marked in an entity read
  earlier; e-mails are looked up and then inserted; links are counted and then deleted; the cleanup
  of anonymous users meets conversions. Correct: a code works once, no user is lost or left without
  a way in.
* **Notification.** Calls and workers write a row before, between and after asking providers, BullMQ runs
  jobs again beside a worker that is only slow. Correct: the log is true, nothing is sent twice without
  such a reason, no row is left without someone in charge.
* **RBAC, organizations, API keys.** A cached answer older than the invalidation; an organization and
  its owner saved one after the other; saves of entities that were deleted since. Correct: nobody is
  answered from before an invalidation, an organization keeps its owner, what is taken away stays so.

`PROJECT.json` lists each of these hazards at its line, with the properties that cover it.

## Plan

In order of importance. A run is one question; at most twelve are planned for the whole project.

| # | Module | Composes / refines | Runs | Theorems |
|---|---|---|---|---|
| 1 | `WebhookDelivery` | refines `DeliveryPromise` | `webhook_delivery`, `webhook_typeorm_rows` | inductive invariant, safety, refinement — **done** |
| 2 | `WebhookQueue` | extends `WebhookDelivery` with BullMQ | `webhook_queue`, `webhook_queue_asks` | the job of a send, owners of rows, what `send()` promises beside a queue, refinement — **done** |
| 3 | `StripePayments` | — | `stripe_payments`, `stripe_manual_capture` | inductive invariant, safety — **done** |
| 4 | `AuthSessions` | — | `auth_sessions`, `auth_logout_all` | revocation, rotation, the session list and its limit, deletion — **done** |
| 5 | `NotificationQueue` | — | `notification_queue` | the log is true, every row has someone in charge, nothing is sent twice — **done** |
| 6 | `Accounts` | — | `accounts` | types and the unique identifiers, a code works once, users stay — **done** |
| 7 | `StripeBilling` | — | `stripe_billing` | types, exclusion by the lock, true rows of refunds — **done** |
| 8 | `Access` | — | `access` | cache freshness, owners, deletions and revocations — **done** |

Rate limits and free slots of the calendar were considered and are not planned: the first is one
indivisible step in either store, the second a pure function of one answer. Every safety invariant and
every step property that a passing run checks is now a theorem; liveness is not, and cannot be here.

## Modules

### DeliveryPromise — what a caller of `send()` may rely on
`phase[s]` is `idle`, `running`, `delivered` or `failed`; `accepted[s]` says whether the receiver
answered that call with 2xx. A call starts, may be accepted, and returns success exactly if it was
accepted; a crash forgets all calls; any other call returns (weak fairness of `Return`).

### WebhookDelivery — `webhook.service.ts`, the breaker, the store
| Code | Model |
|---|---|
| `send()` up to its first await | `Call` |
| an awaited `saveDelivery()` resolving | `Persist`; the store rejecting it: `PersistFails` |
| the breaker check and the loop's first round | `CheckCircuit` (with `TurnsAway`, `Expired`, `BeginAttempt`, `GiveUp`) |
| building the body and `fetch()` | `Post` |
| a 2xx answer / an error status or a network error / the abort timer | `Accepted` / `Refused` / `Abort` |
| the end of the backoff sleep | `Wake` |
| `CircuitEntry` | `failures`, `tripped`, `cooling`; deleting an entry is `ForgetCircuit` |
| time | `timer[s]` and `cooling[u]` count down in `Tick`; there is no clock |
| process exit | `Crash`: memory is lost, `row` stays |

`isOpen()` deletes an entry whose cooldown has passed, so the action that calls it does that too.
`posts`, `accepted`, `acked`, `failRun` and `forsaken` are history: no guard reads them.
`PartialUpserts` says whether the store takes a record without event type and URL: TRUE for a
store of the application's own, FALSE for the TypeORM store of the repository (see
[findings](#findings)). `dated` says whether `event.timestamp` is a `Date`; it always is when
application code calls `send()`.

### WebhookQueue — `enqueue()`, the worker, and BullMQ as far as they need it
Extends `WebhookDelivery`: the worker's `send()` is the call `Worker`, everything else is unchanged.
`Enqueue`, `EnqueueSaved`, `EnqueueAdded`/`EnqueueRejected` are the steps of `enqueue()`; its store is
optional (and absent under `forRoot()`, which does not export it), so `EnqueueSaved` may leave
the row alone. `Take` and `CompleteJob` are `process()`; concurrency is BullMQ's default of one.
`QueueCrash` and `RecoverStalled` are the process's end and BullMQ's stalled-job check.
`EnqueueRejected`, a stalled job failed for good, and the like put the event into `orphaned`.

### StripePayments — payment intents
| Code | Model |
|---|---|
| `createPaymentIntent()` / the provider's answer | `Create` / `ProviderCreate` |
| `confirm…`, `capture…`, `cancelPaymentIntent()` called | `Change` |
| `validateTransition()` | `Validate` with `Allowed`, `VALID_TRANSITIONS`, `NextStatus` |
| the sandbox's `confirm`, `capture`, `cancel` | `ProviderConfirm`, `ProviderCapture`, `ProviderCancel` |
| `recordTransaction()`: the read, then the write | `Find`, then `Record` |
| the store rejecting any of the three | `StoreRejects` |
| process exit | `Crash`: the sandbox's intents and its id counter are lost, the rows stay |

A card stands for its outcome in `SANDBOX_TEST_CARDS`; an amount for whether it is there.
`disturbed` collects the payments on which two calls overlapped or a record was refused: the
properties are about the others, and the run shows that overlapping calls really break them
(remove `\ disturbed` and TLC answers in a second). `Change` takes any id, as the service does: one
without a row passes `validateTransition()`, the sandbox makes an intent of it, and the record saves a row
with amount 0 (not `priced`). `paid` is the history of charges over all processes, which `charges` counts
for the present one.

### AuthSessions — one account's tokens, session rows, blacklist and user row
Accounts share nothing, so one is modelled. `req[c]` says at which await request `c` stands and
holds the locals it will still read, and no others.

| Code | Model |
|---|---|
| `loginWithPassword()` up to the tokens | `Login`, then `Mint`, `InsertRow` |
| `refreshAccessToken()`: blacklist check, version check, blacklisting | `Refresh`, `CheckVersion`, `Rotate`, then `Mint`, `InsertRow` |
| `enforceSessionLimit()`: count, find, blacklist one by one, delete | `Count`, `FindOldest`/`FindNone`, `Trim`, `DeleteOldest` |
| `revokeSession()`, `logout(jti)` | `Revoke`, `Logout`, `Look`, `BlacklistSession`, `Unlist` |
| `logoutAll()`, `logout()` | `LogoutAll`, `Compare`, `Update`, `Sweep` |
| `updateProfile()`, `changePassword()` and other saves of the entity | `UpdateProfile`, `Compare`, `Update` |
| `deleteAccount()` | `DeleteAccount`, `SoftRemove`, `Sweep` |
| an await that rejects / process exit | `Fails` / `Crash` |
| expiry of tokens, rows and blacklist entries | `ExpireToken`, `ExpireRow`, `LapseEntry` |

`save()` is TypeORM's: it reads the row again (`Compare`) and writes the columns in which the
entity differs from it (`Update`); that is how a stale entity puts an old `tokenVersion`, or a null
`deletedAt`, back. Session rows live seven days and so do refresh tokens by default
(`SessionsOutlive`); `BlacklistSurvives` says that the blacklist is kept in the cache, as the
module's README recommends for production. `redeemed`, `marks` and `unlimited` are history. `marks[t]`
names the races that took place on a token; the properties name those that excuse it, and
no others. Each of them is needed: without it TLC finds the race.
The rows are a set, and `older[t]` holds those that were there when the row of `t` was inserted:
all that `createdAt` is used for is to find the oldest (`FindOldest`).

### NotificationQueue — `notification.service.ts`, the queue's worker, the channels
| Code | Model |
|---|---|
| `send()`, `enqueue()` up to the insert | `Send`, `Enqueue`, then `Insert`, `Add` |
| the loop over the providers, in `send()` and in `processJob()` | `Accepted`, `Refused`, `AnswerLost`, with `AfterSuccess`, `AfterFailure` |
| the write of the outcome | `Record` |
| `processJob()`: expiry check, template, `'sending'` | `Take`, `Render`, `Mark`; BullMQ's completion is `Complete` |
| a rejected write or a template that is gone | `Throws`: the call throws, the job is retried up to its attempts |
| process exit | `Crash` |
| BullMQ's stalled-job check | `RecoverStalled` if the worker is dead, `LoseLock` if it is only slow and goes on |

All channels catch what they throw, so a provider answers with success or failure; `AnswerLost` is the
failure reported although the message went out (the SMS gateway's answer cannot be read, say).
`accepted`, `tried`, `again`, `unheard` and `forsaken` are history.

### StripeBilling — refunds, subscriptions, payment methods, customers, and events under their lock
| Code | Model |
|---|---|
| `createRefund()`, the provider's answer, `saveRefund()` | `CreateRefund`, `ProviderCreate`, `SaveRefund` |
| `cancelRefund()`, the provider's answer, `updateRefund()` | `CancelRefund`, `ProviderCancel`, `UpdateRefund` |
| either call rejecting | `Rejects` |
| `createSubscription()` etc. | one action each: one call of the provider, nothing before or after it |
| the sandbox's `nextId()` | `NextId`: any id of the kind that this process has not given out |
| process exit | `Crash`: the sandbox is empty again, the rows stay |
| a delivery to `handleWebhook()` | `Deliver`, then `HandlerStep` |
| `acquireLock()`: the read, then the save | `FindLock` or `Skip`, then `SaveLock` |
| the application's processing | `Process`, or `ProcessFails` if it throws |
| `releaseLock()` | `ReleaseLock`, and the end of `ProcessFails` |
| the instance's end, or a rejecting store | `Die`: the lock stays |
| the end of the lock's time to live | `Lapse` |

The endpoint calls a handler of the application; the handler is the one that `stripe/README.md` shows
(acquire, return if not acquired, try, process, finally release). A delivery whose handler returns is
answered 200 and is not `due` any more. `disturbed`, `raced`, `processed` and `dropped` are history:
`raced` names the two races the lock does not exclude, `dropped` the events that nobody will
process because a duplicate was confirmed while the lock of a holder stood that did not complete.
`CancelRefund` takes any id, as the service does. An unknown refund or subscription that is canceled
appears at the sandbox as canceled, and an unknown subscription is reported as active. `updateRefund()`
changes no row where there is none, so the cancellation of such a refund is recorded nowhere (`Foreign`).

### Accounts — the ways into an account
| Code | Model |
|---|---|
| `register()`: the looks for e-mail and phone number, then the insert | `Register`, `Create` |
| `loginWithPassword()` | `LoginWithPassword` with `FindUserByIdentifier` |
| `loginAnonymous()`, `convertAnonymousUser()` | `LoginAnonymous`; `ConvertAnonymousUser`, `Claim`, `Save` |
| `updateProfile()`, `changePassword()` | `UpdateProfile`, `ChangePassword`, then `Save` |
| `deleteAccount()` | `DeleteAccount`, `SoftRemove` |
| `sendOtp()`, `generateToken()` | `SendOtp`, `GenerateToken` |
| `verifyOtp()`, `verifyToken()`: find, remove, find or create the user | `VerifyOtp`, `VerifyToken`, `RemoveCode`, `EnterByOtp`, `EnterByLink`, then `Create` or `Save` |
| `enableTOTP()`, `generateBackupCodes()`, `verifyBackupCode()`, `disable()` | the actions of these names, then `Save` |
| `authenticate()`, `authenticateWithSSO()`, One Tap | `Authenticate`, `AuthenticateWithSSO`, `VerifyGoogleIdToken`, `VerifyAppleIdToken`, then `Match`, `CreateAndLink`, `Link`, `Attach` |
| `linkAccount()` by the user | `LinkAccount`, `Link`, `Attach` |
| `unlinkAccount()`: the user, the count, the deletion | `UnlinkAccount`, `CountAccounts`, `Unlink` |
| passkeys | `CompleteRegistration`, `CompleteAuthentication`, `DeletePasskey`, `Discard` |
| `cleanupExpiredAnonymousUsers()` | `CleanupExpiredAnonymousUsers` |
| an await that rejects, process exit | `Fails` |
| which services `forRoot()` registers, and who calls them | `Registered`, `AuthController`, `TwoFactorController`, `PasskeyController`, `AdminController`, `Application` |

Every input with an e-mail address has the same one, since only equal addresses meet, and so with phone
numbers. A registration may have any of an e-mail, a phone number and a password, a conversion any of an
e-mail and a password. `Opens` says which rows let their user log in; a password does so only beside an e-mail.
`cutOff` notes who was registered or converted with a row that does not open and no link that
`unlinkAccount()` would keep (`Stranded`). `save()` is one
step here (`AuthSessions` takes it apart): what it writes over is told by `stale`, which every later
write of the row sets in the requests that hold an older entity. `spent`, `again`, `accepted`, `reused`,
`overwritten` and `cutOff` are history.

### Access — roles and the permission cache, organizations, API keys
| Code | Model |
|---|---|
| the permission store's `assignRole()`, `removeRole()`, `setUserRoles()` | `AssignRole`, `RemoveRole`, `SetUserRoles`, then `SaveRoles` |
| `getUserPermissions()`, `getUserRoles()`, the guard | `Ask`, `ReadRoles`, `SetCache` |
| `invalidateCache()`; an entry's time to live | `InvalidateCache` with `Evict`; `Expire` |
| `OrgService.create()` | `Create`, `SaveOrg`, `SaveOwner` |
| `update()`, `delete()` | `Update`, `SaveUpdate`; `Delete` |
| `addMember()`, `removeMember()`, `updateMemberRole()` | `AddMember`, `SaveMember`; `RemoveMember`, `DeleteMember`; `UpdateMemberRole`, `SaveRole` |
| `ApiKeyService` | `CreateKey`, `Validate` and `Use`, `Revoke`, `RestoreKey`, `ExpireKey` |
| an await that rejects / process exit | `Fails` / `Restart`: the cache is lost, the rows stay |

Whoever changes roles invalidates the cache afterwards, as `rbac/README.md` asks of the application;
between the two the request is `invalidating`. An entity that was read before another request
deleted its row is `stale`: `save()` and `remove()` go by the primary key of that row, so a stale entity
touches no row that the same user was given later (`Holds` says which entity is of which row). The three modules share no state, so a run takes one at a time.

## Runs

| Run | Question | States |
|---|---|---|
| `webhook_delivery` | Do concurrent `send()` calls return what they earned, log the truth, use the breaker rightly, and keep `DeliveryPromise`? | 43,043 |
| `webhook_queue` | Do queued webhooks survive crashes: does a send keep its job, are rows owned, jobs finished? | 381,519 |
| `stripe_payments` | Do rows and provider agree, is nothing charged twice, was it paid if the row says so, is final final, does an amount stay? | 1,004,627 |
| `auth_sessions` | Does what is revoked stay so, does a refresh token work once, does the limit hold, is the list complete, is a deleted account gone? | 1,310,528 |
| `notification_queue` | Is the log true, is nothing sent twice without a reason, does every row settle? | 55,358 |
| `accounts` | Do codes work once, and does everybody who is not anonymous stay, with a way in? | 1,757,363 |
| `stripe_billing` | Do the rows of refunds stay true, does the lock exclude, is every event processed? | 15,754 |
| `access` | Is no answer older than the last invalidation, does an organization keep its owner, does what was taken away stay so? | 701,762 |
| `webhook_queue_asks` | Does a job that failed at least ask the receiver? (It does not: finding 1.) | — |
| `webhook_typeorm_rows` | Do rows settle with the TypeORM store? (They do not: finding 2.) | — |
| `stripe_manual_capture` | Can held funds be captured as the README shows? (They cannot: finding 3.) | — |
| `auth_logout_all` | Do tokens that `logoutAll()` invalidated stay so? (They do not: finding 4.) | — |

The properties, by run:

* `webhook_delivery`: `ResultIsEarned` (all attempts made before giving up, none after
  acceptance, none when turned away), `DeliveredRowIsTrue`, `UnsettledRowHasSend`,
  `TripNeedsFailedSends` (failures *in a row*, whatever order concurrent sends end in),
  `NoNewTrafficWhileOpen` (a step property), `CircuitRecovers` (liveness), `PromiseKept`
  (refinement, with liveness).
* `webhook_queue`: `SendHasJob` (no job ends under its send), `QueuedRowHasOwner`, `JobFinishes` (liveness under
  repeated crashes).
* `stripe_payments`: `StoreAgrees`, `ChargedOnce`, `SucceededIsPaid` (disturbed payments and unknown ids
  included), `FinalIsForEver` and `AmountKept` (step properties).
* `auth_sessions`: `RevokedStaysRevoked`, `RedeemedOnce`, `LimitHolds`, `SessionsVisible`,
  `AccountStaysDeleted` (a step property).
* `notification_queue`: `SentIsTrue` and `FailedWasTried` (also when two workers are at one job),
  `SentOnce`, `UnsettledHasOwner`, `RowsSettle` (liveness: settled for good).
* `accounts`: `OneUse` (codes, links and backup codes, but for the races it names), `UsersKept` (a step
  property: conversions, cleanups and unlinks at once), and in `TypeOK` that an e-mail address and a phone
  number have one row each, deleted rows counted.
* `stripe_billing`: `LockExcludes`, `RecordsHold` (a step property), `EventProcessed` (liveness).
* `access`: `PermissionsFresh`, `RightsHold` (a step property).

## Bounds

* `webhook_delivery`: two calls, one event, one URL, three attempts, threshold 2, cooldown,
  backoff base and timeout of one tick. Calls interact only through a row (same event) and a
  circuit (same URL), so one of each is the most sharing there can be; each call slot is used
  again and again, so any number of calls follow one another. Three attempts give two different
  backoffs (1 and 2 ticks); threshold 2 lets calls reach it together and in turn. That more calls,
  events and URLs change nothing for the safety properties is what the theorems show.
* `webhook_queue`: one worker call and one direct call, two jobs, one event, one URL, one attempt,
  threshold 1, a stalled job put back once. Two jobs give an order and a job behind a stalled one;
  finished job records are reused.
* `stripe_payments`: two calls, one intent (calls on different intents share nothing but the id
  counter), all four cards, both capture methods. `charges` saturates at 2: once too often. Ids are
  used again after a restart, so one intent also stands for a foreign id and for an id's next intent.
* `auth_sessions`: two requests in progress, of any two kinds, on one account; two refresh tokens;
  a limit of one session, so that every login and refresh trims; one logout of all
  (`MaxVersion` 1, the only bound in a guard). A token is an identity that is used again when
  it has expired, has no row and is known to no request, so any number of tokens follow one another and only
  two are alive at a time. `OneException` is the run's state constraint: states in which more
  than one kind of excuse (`restored`, `lapsed`, `raced`, `swept`) is marked at once are not
  explored further. Every property is about tokens without some excuse, and the theorems
  have no such constraint.
* `notification_queue`: one notification, because notifications share nothing but the time of the
  workers (two notifications with one worker and two providers give 639,625 states and no
  error, either); two workers, so that one can go on without its lock beside the other; three
  providers, so that there is a first, a middle and a last; a job may throw once and stall twice.
* `accounts`: two requests, two users, one e-mail address and one phone number, two OAuth identities and
  one of SSO, two generations of backup codes (`MaxGen`). A row of `Users` is used once, so two users are
  created at most. The six `Configurations` are installations that enable what can meet on one user: codes and
  links with registration; second factors; identities; identities with registration; registration alone;
  passkeys. `FewUsers` takes the second user and phone numbers out where only one's own requests meet
  (they stay where identities are linked and where users only register and convert), `FewAnonymous`
  a second anonymous user where none is converted, `FewLinks` a third link. A code of a kind
  is sent only while no request is busy with the one before, so `reused` is always about one code.
* `stripe_billing`: two calls and two refunds, so that an id is given out again while another refund is
  there; two subscriptions, two customers and a method that moves between them; one event (events share
  nothing) and three instances: a holder, one that races it, one that comes later. The parts share
  no state and are explored one at a time (`Uses`).
* `access`: two requests, users, roles, organizations, slugs and keys. `FewRoles` leaves one of the two
  users without roles: roles of two users meet only in an invalidation of all.
* Counters saturate only in history (`failRun`, `charges`, `redeemed`). `failures` in the breaker grows without
  bound in the code, too, and in the model; with the run's bounds only sends already past the
  check can raise it above the threshold, so it stays finite.

## Fairness

`webhook_delivery` assumes that time passes (`WF(Tick)`) and that the process goes on with a call
whose await has resolved, including the store's promises (`WF(Proceed(s))`: `Persist`,
`CheckCircuit`, `Post`, `Abort`, `Wake`). Node's event loop and its timers justify that; a database
driver settles its promises, and a rejection is `PersistFails`. Nothing is assumed of receivers:
`Accepted` and `Refused` are not fair, a receiver may hang until the abort timer fires.
Crashes are possible at any point and never forced. `webhook_queue` assumes the same of the worker's call
and that BullMQ keeps serving its queue and checking for stalled jobs (`WF(QueueStep(j))`);
since stalls per job are bounded, jobs finish even if the process crashes for ever.
`notification_queue` assumes that what a call or job awaits resolves in the end, the providers' drivers
included, which give up after a time limit (`WF(Proceed(r))`), and that BullMQ hands out waiting jobs and finds the jobs
of dead workers (`WF` of `Take` and `RecoverStalled`). Crashes, rejections and lost locks are not fair.
`stripe_billing` assumes of Stripe that it delivers an unconfirmed event again (`SF` of `Deliver`), of an
instance that it goes on with a delivery it has (`WF(HandlerStep(w, e))`), and that of endless
deliveries of one event not every one fails at the same step (`SF` of the steps): an application whose
processing always throws processes nothing. `Lapse` is not fair: a lock that never expires makes
Stripe's next delivery a confirmed duplicate, and the event is `dropped`.
`stripe_payments`, `auth_sessions`, `accounts` and `access` have no liveness property and no fairness.

## Proofs

Each module but `DeliveryPromise` has its `_proofs` module. Together they prove, for every value of the
constants (any number of calls, requests, workers and instances, of events, URLs, jobs, intents,
notifications, tokens, users and keys, any limits, retries and delays), every safety invariant and step
property that the passing runs check on small instances.

* **WebhookDelivery.** `TypeOK` is inductive only with the ranges of program counters. `ResultIsEarned`
  needs that a call at its k-th attempt has made k or k-1 requests and is unaccepted;
  `TripNeedsFailedSends` that the failures counted for a URL never exceed its history of failures
  in a row, saturated at the threshold; `UnsettledRowHasSend` that a running call has the row's last word
  still to say. `IInv` is the conjunction; `Invariance` proves `Spec => []IInv` with one step per
  action, and the properties follow (`TypeCorrect`, `ResultEarned`, `DeliveredRowTrue`, `TripEarned`,
  `RowsSettle`, `TrafficDiesOut`). `RowsSettle` assumes `PartialUpserts`: without it the property is false
  (finding 2). `KeepsPromise` is the safety part of the refinement of `DeliveryPromise`: initial states
  map to initial states, each step to a step or a stutter.
* **WebhookQueue.** `QInv` is `IInv` of the deliveries, which the queue's own steps leave inductive (`QueueSteps`
  says what they are to a delivery: one of its own steps, nothing, or the write of a `queued` row), the job's types, and `SendHasJob`:
  the worker sends only for an active job of that event and URL (`SendsHaveJobs`). `QueuedRowsHaveOwners` is not inductive
  with active jobs among the owners, since a job is active for an instant before and after its send;
  `OwnersInv` leaves them out and lets the worker's send stand for them. As `RowsSettle`, it
  assumes `PartialUpserts`. `QueueKeepsResults`, `QueueTrafficDiesOut` and `QueueKeepsPromise` carry the promises of
  `send()`, the refinement included, over to a system with a queue and a worker whose jobs crashes repeat.
* **StripePayments.** Between calls the row of an undisturbed payment equals the provider's
  status; during a call the invariant says, for each program counter, what the one call working on the
  intent knows: the check it has passed, the answer it carries, whether it found the row. `IInv` also
  counts charges against the provider's status. `PaidInv` is about every intent, disturbed or not: what is, or
  is about to be, recorded as `succeeded` has been charged. From it all `TypeCorrect`, `RowAgrees`,
  `NoDoubleCharge`, `RowsArePaid` (`SucceededIsPaid`), `AmountsStay` (`AmountKept`: the one call that writes an undisturbed row
  with an amount has found that row) and `FinalKept`.
* **NotificationQueue.** A run at its k-th provider has asked the k-1 before it (`LoopInv`), which makes
  `SentTrue` and `FailedTried` hold whoever writes a row last. `UnsettledOwned` needs more than it says: a
  worker that has recorded the outcome and only completes the job is not in charge any more, since a
  slower worker may have marked the row `sending` again. `ChargeInv` therefore counts waiting jobs, active
  ones whose holder is dead, and runs short of that last step; it rests on locks held exactly on active jobs
  (`LockInv`), on attempts left (`RetryInv`) and on calls that have no row and no job yet (`FirstInv`).
  `SentAtMostOnce` says as long as nothing was run again and no answer was lost (`OnceInv`): one run at
  most is still trying providers with a notification, and while it is none of them has accepted it.
* **AuthSessions.** Requests hold a user row read earlier; unless marked stale it is the row of now, or the next
  version for a `logoutAll()` (`HeldInv`). So only the save of a stale entity takes a version back
  (`OnlyStaleSavesUndoLogoutAll`: finding 4 is the only way) or brings an account back (`DeletedAccountsStay`).
  `RevokedTokensStayRevoked` adds that no token is of a version to come (`VersionInv`).
  `TokensAreRedeemedOnce`: whatever token a request has condemned, by rotating, revoking or trimming, is on
  the blacklist (`BlackInv`), and a token that was redeemed stays there, while one that was not is
  presented by one refresh at most (`OnceInv`). `SessionsStayVisible`: rows are
  deleted only after their tokens were condemned, and while a `logoutAll()` is about to
  delete all rows, each token is revoked, unlisted as yet, or marked (`SweepInv`).
  `SessionLimitHolds` is about counting. Above the limit some request is about to count, has found
  an excess that is enough, or has chosen victims that are enough (`LimitInv`), whatever the others insert and
  delete meanwhile; that the n oldest rows are n (`OldestSuffice`) follows from the rows being in a line
  (`OrderInv`) by the pigeonhole principle.
* **Accounts.** `FullInv` says of every entity a request holds: it was a row that existed, and until it is stale the
  row is still there and loses nothing by being saved, neither e-mail, password nor the mark of a used code,
  unless that is what the request is for (`Keeps`);
  of every row, that who is not anonymous has a way in, and that a password opens the account or its user is `cutOff`
  or `overwritten` (`UserOK`: that is what `unlinkAccount()` takes for granted when it lets the last link go); of unlinks that are alone, that another link remains
  (`Spared`). That an e-mail address or a phone number has one row (`OneEach`) is kept by the indexes alone, which every insert and save meets.
* **Access.** The cache and the answers on their way to it are true of every user without a written and
  unannounced change of roles (`FreshInv`). Entities that are not stale have their row (`RowInv`), and no
  request holds the row of an organization's owner as that of a member (`OwnerInv`). The proof of
  `RightsAlwaysHold` corrected the model: an entity used to act on whatever row its user had, later ones included.
* **StripeBilling.** `TypeCorrect` needs that ids of different kinds are different. `LockHolds` (at most one
  instance processes an event) is inductive once it speaks of every instance that has found the lock free and
  is not done, and says that the lock is in force from its save to its release (`LockInv`): a second
  instance can then not find it free without being noted in `raced`. `RowsTrue` rests on `RefundInv`: of an
  undisturbed refund one call at most is working on it, and for each of its program counters the
  invariant says what the call relies on (a canceling call a row that agrees or a `Foreign` refund,
  a saving one a refund in force, an updating one a canceled refund).

Assumptions on the constants, evaluated by TLC in every run of their modules: `DeliveryAssumption` (numbers and
Booleans, the threshold positive), `BackoffAssumption` (the backoff delays are natural numbers: the
provers do not interpret `^`), `QueueAssumption` (the worker's send is one of the sends),
`NotificationAssumption` (at least one provider and attempt; calls, workers and `Nobody` are distinct),
`BillingAssumption` (ids of different kinds are different; an application uses some of the parts there
are), `SessionAssumption` (numbers and Booleans), `AccountsAssumption` and `ConfigurationsAssumption` (OAuth and SSO
identities are different, `None` is neither user nor identity; options are those there are), `AccessAssumption`.

Hypotheses of single theorems, each of which the result would be false without: `PartialUpserts` of `RowsSettle` and
`QueuedRowsHaveOwners` (a store of the application's own; with the repository's TypeORM store finding 2 applies);
`BlacklistSurvives` of `RevokedTokensStayRevoked`, `TokensAreRedeemedOnce` and `SessionsStayVisible` (the blacklist is in the
cache, as the module's README recommends: a `Map` forgets revocations at a restart); `SessionsOutlive` of
`SessionsStayVisible` (refresh tokens live no longer than rows, as by default). `SessionLimitHolds` and the others need none.

Only model-checked: liveness, which is beyond the prover (`CircuitRecovers`, `JobFinishes`, `RowsSettle` of
`NotificationQueue`, `EventProcessed`, the liveness part of `PromiseKept`), and what the "violation" runs refute.

## Findings

1. **A queued webhook is never sent.** `send()` calls `event.timestamp.toISOString()`
   (`webhook.service.ts:86`), but a job's data went through JSON and its timestamp is a string. Every
   attempt throws before `fetch()`; after all backoffs the job completes with `success: false`, the
   row reads `failed` and the URL's circuit counts a failure. (`webhook_queue_asks`)
2. **With the TypeORM store a row stays `queued`.** Records after the first lack the NOT NULL columns
   `event_type` and `url`, so the `INSERT … ON CONFLICT` is rejected and `saveDelivery()` swallows
   the error. (`webhook_typeorm_rows`)
3. **Manual capture is refused.** After the confirmation the row is in a status from which
   `VALID_TRANSITIONS` allows no `processing`. (`stripe_manual_capture`)
4. **A stale save undoes `logoutAll()`.** `changePassword()` and `updateProfile()` save an entity read
   some awaits earlier. If `logoutAll()` ran in between, `save()` writes the old `tokenVersion` back,
   and refresh tokens of before the logout are accepted again. (`auth_logout_all`) Nothing else undoes a
   `logoutAll()`: `OnlyStaleSavesUndoLogoutAll`.

Smaller things a reader of the code should know, which the models contain or which need no model:

* **The session list is not exact.** `refreshAccessToken()` inserts a row for the new token and keeps the
  row of the old one, which nobody can use: `getUserSessions()` shows it and the session limit counts it.
  `SessionsVisible` says that the list is complete, not that it is exact.
* **Code logins and `logoutAll()`.** Tokens of code and link logins carry `tokenVersion` 0
  (`otp.service.ts:143`), so after one `logoutAll()` every later login of that kind is refused at once.
* **A phone number does not log anybody in.** `findUserByIdentifier()` falls back to the phone number with
  `??`, but its left side is a promise and never null (`auth.service.ts:483-486`), although `auth/README.md:273` and
  `auth.controller.ts:68` offer "email/phone + password". Who registers with a phone number and no e-mail
  gets tokens once and cannot come back, nor can who converts with a password alone or with
  nothing (`cutOff`). `unlinkAccount()` counts such a password and lets the last link go
  (`oauth.service.ts:114`). And `verifyOtp()` looks up and writes whatever identifier it is given, a phone
  number too, in the e-mail column (`otp.service.ts:72-80`).
* **A payment row with amount 0.** If a create was not recorded, or the id is another's, the next change finds
  no row, passes the check and saves one with amount 0 (`stripe.service.ts:83`).
* **A refund without a row is canceled without a record.** `cancelRefund()` does not look for the row and
  `updateRefund()` changes none (`stripe.service.ts:321-341`), although `stripe/README.md:680` says
  that every mutation is recorded. `RecordsHold` excuses these refunds, and only these, as `Foreign`.
* **A deleted account's e-mail stays taken.** `deleteAccount()` clears the entity and then calls
  `softRemove()`, which writes `deletedAt` only; the unique index counts the row (`Unique`).
* **The lock of an event** prevents concurrent processing but for the races in `raced`, and a
  duplicate that is confirmed while the holder goes on to fail takes the event with it (`dropped`).
* **A link may belong to somebody else.** `linkAccount()` returns whatever link the identity has, and
  the login of the other user goes on; that user has no way in (`cutOff`).

## Not modelled

* Signatures, headers and bodies of webhooks; the columns of a delivery row other than its status.
* `WebhookCircuitBreaker.reset()`: it has no caller, and the module does not export the breaker.
* A write that the store applied although it answered with an error. A rejected write is taken
  not to have happened; a write in flight at a crash may or may not have happened.
* A Stripe account that survives the process. The provider in the repository is the sandbox, whose
  objects are lost with it; `Crash` therefore leaves no provider object that a row could disagree with.
* Auth: access tokens' own ids, the blacklist and version checks of `AuthGuard` on a request that changes nothing,
  the role and two-factor guards, the JWT strategy, responses and DTOs, TOTP codes, the checks of
  identity providers' tokens and of WebAuthn challenges: predicates and arithmetic without state.
  Other values than TRUE of `SessionsOutlive` and `BlacklistSurvives` are in the model, but no run uses
  them: with them a revocation ends with the row's seven days or with the process.
* Token versions and code logins in one model: `AuthSessions` has the versions, `Accounts` the logins.
* The in-memory permission store, whose arrays the cache shares, and permissions given to or taken from
  a role at run time, which `hasPermission()` reads directly; plans, logos and invitations of organizations;
  the roles admin and viewer, which fare like member; the in-memory repository of API keys.
* Stripe's checkout, billing portal, invoices, products and prices, which the sandbox answers from
  fixed data; prices, trials, amounts and metadata of what is modelled.
* The rate limit: `increment()` is one synchronous step in memory and one script in Redis. The calendar:
  calls of Google's API, and a pure function of one answer.
* A worker process with other channels than the caller's, notifications without a log repository, and
  what the channels send; a channel's success for some recipients of several counts as success.
* The event bus and the incoming webhook controller of `webhook`: no state any decision depends on.
* `storage`, `cache`, `queue`, `metrics`, `logger`, `audit-log`, `activity-feed`, `typeorm`, `excel`,
  `swagger`: I/O, recording and configuration.
