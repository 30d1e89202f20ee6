------------------------------- MODULE MCAccounts -------------------------------
(***************************************************************************)
(* Two concurrent requests on two users, three identities, one e-mail      *)
(* address and one phone number, with failures at any await, under six     *)
(* installations.                                                          *)
(***************************************************************************)
EXTENDS Accounts, TLC

\* Bounds: a second user and phone numbers only where identities are linked or users are
\* registered and nothing else, no second anonymous user where none is converted, and at
\* most two identities linked at once, which is what an unlink compares with.
Busy ==
  \/ options \cap {"otp", "magicLink", "twoFactor"} # {}
  \/ {"credentials", "oauth"} \subseteq options

FewUsers ==
  Busy => /\ Cardinality({u \in Users : users[u].state # "unused"}) <= 1
          /\ \A u \in Users : ~users[u].phone
          /\ \A c \in Clients : At(c, "creating") => ~req[c].row.phone

FewAnonymous ==
  \/ "credentials" \in options
  \/ {u \in Users : users[u].isAnonymous} = {}
  \/ Cardinality({u \in Users : users[u].state # "unused"}) <= 1

FewLinks == Cardinality({p \in Identities : accounts[p] # None}) <= 2

Bounds == FewUsers /\ FewAnonymous /\ FewLinks

Symmetry == Permutations(Clients) \cup Permutations(Users) \cup Permutations(OAuthIds)
================================================================================
