---------------------------- MODULE MCAuthSessions ----------------------------
(***************************************************************************)
(* Two concurrent requests on an account, one session allowed, so that     *)
(* logins and refreshes trim each other, with failures and crashes at any  *)
(* point.                                                                  *)
(***************************************************************************)
EXTENDS AuthSessions, TLC

\* What excuses a token from some property.
Exceptions == {"restored", "lapsed", "raced", "swept"}

\* A bound: one kind of exception at a time.
OneException ==
  Cardinality((UNION {marks[t] : t \in Tokens}) \cap Exceptions) <= 1

Symmetry == Permutations(Clients) \cup Permutations(Tokens)
=============================================================================
