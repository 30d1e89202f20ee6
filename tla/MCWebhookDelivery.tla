-------------------------- MODULE MCWebhookDelivery --------------------------
(***************************************************************************)
(* Two concurrent calls of send() with the same event and URL, again and  *)
(* again: they share the row and the circuit, reach the threshold together *)
(* or in turn, and three attempts a call put growing backoffs between its  *)
(* requests.                                                               *)
(***************************************************************************)
EXTENDS WebhookDelivery
=============================================================================
