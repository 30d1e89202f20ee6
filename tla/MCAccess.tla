-------------------------------- MODULE MCAccess --------------------------------
(***************************************************************************)
(* Two requests at once on the roles of two users, on two organizations    *)
(* that may want the same slug, or on two API keys, with failures at any   *)
(* await and restarts.                                                     *)
(***************************************************************************)
EXTENDS Access, TLC

\* A bound: one of the two users has no roles.
FewRoles == \E u \in Users : granted[u] = {}

Symmetry == Permutations(Clients) \cup Permutations(Users) \cup Permutations(Roles)
            \cup Permutations(Orgs) \cup Permutations(Slugs)
            \cup Permutations(Keys)
================================================================================
