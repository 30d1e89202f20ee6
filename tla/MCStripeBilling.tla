---------------------------- MODULE MCStripeBilling ----------------------------
(***************************************************************************)
(* Two calls at once on two refunds; two subscriptions and two customers;  *)
(* an event that two instances may be given at once, any number of times.  *)
(* Parts that share no state are explored one at a time.                   *)
(***************************************************************************)
EXTENDS StripeBilling, TLC

================================================================================
