---------------------------- MODULE MCWebhookQueue ----------------------------
(***************************************************************************)
(* One worker and one direct call of send(), two jobs, one event that both *)
(* may share, with crashes at any point.                                   *)
(***************************************************************************)
EXTENDS WebhookQueue
=============================================================================
