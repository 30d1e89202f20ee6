---------------------------- MODULE DeliveryPromise ----------------------------
(***************************************************************************)
(* What a caller of WebhookService.send() may rely on, whatever retries,   *)
(* backoff, circuit breaker and delivery log do underneath: a call runs,   *)
(* the receiver may accept it (answer 2xx), and the call returns success   *)
(* exactly when the receiver accepted it.  A crash of the process forgets  *)
(* every call; any other call returns.                                     *)
(***************************************************************************)

CONSTANT Sends          \* the calls that can be in progress at once

VARIABLES
  phase,                \* phase[s]: where call s is
  accepted              \* accepted[s]: the receiver answered this call with 2xx

pvars == <<phase, accepted>>

Phase == {"idle", "running", "delivered", "failed"}

PInit ==
  /\ phase = [s \in Sends |-> "idle"]
  /\ accepted = [s \in Sends |-> FALSE]

Start(s) ==
  /\ phase[s] # "running"
  /\ phase' = [phase EXCEPT ![s] = "running"]
  /\ accepted' = [accepted EXCEPT ![s] = FALSE]

Accept(s) ==
  /\ phase[s] = "running"
  /\ accepted' = [accepted EXCEPT ![s] = TRUE]
  /\ UNCHANGED phase

Return(s) ==
  /\ phase[s] = "running"
  /\ phase' = [phase EXCEPT ![s] = IF accepted[s] THEN "delivered" ELSE "failed"]
  /\ UNCHANGED accepted

Forget ==
  /\ phase' = [s \in Sends |-> "idle"]
  /\ accepted' = [s \in Sends |-> FALSE]

PNext ==
  \/ \E s \in Sends : Start(s) \/ Accept(s) \/ Return(s)
  \/ Forget

\* The safety part, which the proofs establish ...
PSafety == PInit /\ [][PNext]_pvars

\* ... and the whole promise: a call that the process survives does return.
PSpec == PSafety /\ \A s \in Sends : WF_pvars(Return(s))
=============================================================================
