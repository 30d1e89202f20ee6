--------------------------- MODULE MCStripePayments ---------------------------
(***************************************************************************)
(* Two calls at once on a payment intent, with every test card, both       *)
(* capture methods and crashes at any point.                               *)
(***************************************************************************)
EXTENDS StripePayments, TLC

Symmetry == Permutations(Clients)
=============================================================================
