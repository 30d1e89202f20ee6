------------------------------ MODULE AuthSessions ------------------------------
(***************************************************************************)
(* The sessions of one account: logins, refreshes, logouts, revocations    *)
(* and writes of the account's row by concurrent requests, over the user   *)
(* row (tokenVersion, deletedAt), the session rows and the blacklist.      *)
(* Accounts share nothing, so one is enough.                               *)
(*                                                                         *)
(* A refresh token is named by its jti.  Time is not counted: a token may  *)
(* expire at any moment, and a blacklist entry is "long" if it outlives    *)
(* the token and "short" if it may lapse before.                           *)
(***************************************************************************)
EXTENDS Integers, FiniteSets

CONSTANTS
  Clients,            \* requests that can be in progress at once
  Tokens,             \* refresh tokens; an expired one is used again
  MaxSessions,        \* maxSessions.maxPerUser, 0 if disabled
  MaxVersion,         \* bound on tokenVersion
  SessionsOutlive,    \* refreshTokenExpiresIn is at most the 7 days of a session row
  BlacklistSurvives   \* the blacklist is in the cache, not in the process's memory

ASSUME SessionAssumption ==
  /\ MaxSessions \in Nat /\ MaxVersion \in Nat
  /\ SessionsOutlive \in BOOLEAN /\ BlacklistSurvives \in BOOLEAN

VARIABLES
  tokenVersion,  \* User.tokenVersion
  deleted,       \* User.deletedAt is set
  rows,          \* jti of the unexpired session rows
  older,         \* older[t]: the rows that were there when that of t was inserted
  black,         \* black[t]: the blacklist entry of t: "no", "short" or "long"
  live,          \* tokens that verifyRefreshToken() accepts: signed and not expired
  ver,           \* ver[t]: tokenVersion in t
  req,           \* req[c]: where request c is, with the locals it still needs
  redeemed,      \* history: how often t was exchanged for another (2: or more)
  marks,         \* history: marks[t]: what happened to t
  unlimited      \* history: a request died or failed before it enforced the limit

userVars  == <<tokenVersion, deleted>>
tokenVars == <<black, live, ver, redeemed, marks>>
rowVars   == <<rows, older>>
vars      == <<userVars, rowVars, tokenVars, req, unlimited>>

Marks ==
  {"revoked",    \* rotated, revoked, trimmed by the limit, or logged out with all
   "restored",   \* by a request that wrote an older user row over a newer one
   "lapsed",     \* its blacklist entry ended before it did
   "raced",      \* presented by two refreshes at once
   "swept"}      \* its row was inserted while a logout of all deleted the rows

\* A new session row has been inserted and the limit not yet enforced.
Enforcing == {"counting", "finding", "trimming", "deleting"}

\* A new token exists that no client has been given.
Issuing == {"inserting"} \cup Enforcing

Entry == {"short", "long"}

\* The table of session rows.
TokenSession == SUBSET Tokens

Request ==
  [at : {"idle", "removing", "sweeping"}]
  \cup [at : {"comparing"}, held : Nat, all : BOOLEAN, stale : BOOLEAN]
  \cup [at : {"updating"}, held : Nat, all : BOOLEAN, stale : BOOLEAN,
        dirty : SUBSET {"tokenVersion", "deletedAt"}]
  \cup [at : {"looking", "unlisting", "reading", "inserting", "counting"}, tok : Tokens]
  \cup [at : {"blacklisting"}, tok : Tokens, ttl : Entry]
  \cup [at : {"rotating"}, tok : Tokens, held : Nat]
  \cup [at : {"minting"}, old : SUBSET Tokens, held : Nat]
  \cup [at : {"finding"}, tok : Tokens, excess : Nat \ {0}]
  \cup [at : {"trimming"}, tok : Tokens, victims : TokenSession, left : TokenSession]
  \cup [at : {"deleting"}, tok : Tokens, victims : TokenSession]

Idle == [at |-> "idle"]

\* Rows over the limit.
ExcessLess1 == Cardinality(rows) - MaxSessions - 1   \* mutant: off by one
Excess == Cardinality(rows) - MaxSessions

\* findOne() finds the user: it does not see a deleted one.
FoundDeleted == TRUE   \* mutant: withDeleted
Found == ~deleted

\* The version in t is older than the user's.
OutdatedLate(t) == ver[t] + 1 < tokenVersion   \* mutant: off by one
Outdated(t) == ver[t] < tokenVersion

\* A refresh with t would be answered with new tokens.
Redeemable(t) == t \in live /\ black[t] = "no" /\ Found /\ ~Outdated(t)

Mark(S, M) == marks' = [t \in Tokens |-> IF t \in S \cap live THEN marks[t] \cup M ELSE marks[t]]

\* Tokens S are no longer good, and entries B are gone.
Forget(S, B) ==
  /\ live' = live \ S
  /\ black' = [t \in Tokens |-> IF t \in S \cup B THEN "no" ELSE black[t]]
  /\ ver' = [t \in Tokens |-> IF t \in S THEN 0 ELSE ver[t]]
  /\ redeemed' = [t \in Tokens |-> IF t \in S THEN 0 ELSE redeemed[t]]
  /\ marks' = [t \in Tokens |-> IF t \in S THEN {} ELSE marks[t]]

--------------------------------------------------------------------------------
(* Requests. *)

At(c, step) == req[c].at = step
Become(c, r) == req' = [req EXCEPT ![c] = r]
End(c) == Become(c, Idle)

\* Tokens of requests in C that no client will be given: nobody can present them.
Lost(C) == {req[c].tok : c \in {d \in C : req[d].at \in Issuing}}

\* An await of request c rejects: nothing is written and the request throws.
Fails(c) ==
  /\ ~At(c, "idle")
  /\ unlimited' = (unlimited \/ (req[c].at \in Enforcing /\ Excess > 0))
  /\ Forget(Lost({c}), {})
  /\ End(c)
  /\ UNCHANGED <<userVars, rowVars>>

\* The process dies: its requests are gone, and so is a blacklist kept in memory.
Crash ==
  /\ unlimited' = (unlimited \/ (Excess > 0 /\ \E c \in Clients : req[c].at \in Enforcing))
  /\ Forget(Lost(Clients), IF BlacklistSurvives THEN {} ELSE Tokens)
  /\ req' = [c \in Clients |-> Idle]
  /\ UNCHANGED <<userVars, rowVars>>

--------------------------------------------------------------------------------
(* The user row. *)

\* updateProfile(), changePassword() and the other methods that read the user,
\* change a field and save the entity; logoutAll(), and logout() without a jti.
UpdateProfile(c) ==
  /\ At(c, "idle") /\ Found
  /\ Become(c, [at |-> "comparing", held |-> tokenVersion, all |-> FALSE, stale |-> FALSE])
  /\ UNCHANGED <<userVars, rowVars, tokenVars, unlimited>>

LogoutAll(c) ==
  /\ At(c, "idle") /\ Found /\ tokenVersion < MaxVersion
  /\ Become(c, [at |-> "comparing", held |-> tokenVersion + 1, all |-> TRUE, stale |-> FALSE])
  /\ UNCHANGED <<userVars, rowVars, tokenVars, unlimited>>

\* save() loads the row and compares: only columns that differ will be written.
Compare(c) ==
  /\ At(c, "comparing")
  /\ Become(c, [at |-> "updating", held |-> req[c].held, all |-> req[c].all,
                stale |-> req[c].stale,
                dirty |-> (IF req[c].held # tokenVersion THEN {"tokenVersion"} ELSE {})
                          \cup (IF deleted THEN {"deletedAt"} ELSE {})])
  /\ UNCHANGED <<userVars, rowVars, tokenVars, unlimited>>

\* Request c goes on as r, and the entities others hold are older than the row.
Overtake(c, r) ==
  req' = [d \in Clients |-> CASE d = c -> r
                              [] d # c /\ req[d].at \in {"comparing", "updating"} ->
                                   [req[d] EXCEPT !.stale = TRUE]
                              [] OTHER -> req[d]]

\* The UPDATE of c takes back, or does not add to, what others have written.
Undoes(c) == req[c].stale /\ (req[c].dirty # {} \/ req[c].all)

\* The UPDATE.
Update(c) ==
  /\ At(c, "updating")
  /\ tokenVersion' = IF "tokenVersion" \in req[c].dirty THEN req[c].held ELSE tokenVersion
  /\ deleted' = (deleted /\ "deletedAt" \notin req[c].dirty)
  /\ Overtake(c, IF req[c].all THEN [at |-> "sweeping"] ELSE Idle)
  /\ Mark(live, (IF req[c].all THEN {"revoked"} ELSE {})
                \cup (IF Undoes(c) THEN {"restored"} ELSE {}))
  /\ UNCHANGED <<rowVars, black, live, ver, redeemed, unlimited>>

\* sessionRepo.delete({ userId })
Sweep(c) ==
  /\ At(c, "sweeping")
  /\ rows' = {}
  /\ End(c)
  /\ UNCHANGED <<older, userVars, tokenVars, unlimited>>

\* deleteAccount(): softRemove() sets deletedAt.  Whatever else it writes can be
\* read only after a save() has cleared deletedAt, which restores the rest as well.
DeleteAccount(c) ==
  /\ At(c, "idle") /\ Found
  /\ Become(c, [at |-> "removing"])
  /\ UNCHANGED <<userVars, rowVars, tokenVars, unlimited>>

SoftRemove(c) ==
  /\ At(c, "removing")
  /\ deleted' = TRUE
  /\ Overtake(c, [at |-> "sweeping"])
  /\ Mark(live, {"revoked"})
  /\ UNCHANGED <<tokenVersion, rowVars, black, live, ver, redeemed, unlimited>>

--------------------------------------------------------------------------------
(* The blacklist. *)

\* An entry of t made now replaces the one before.
Blacklist(t, entry) ==
  /\ black' = [black EXCEPT ![t] = IF t \in live THEN entry ELSE "no"]
  /\ Mark({t}, {"revoked"})

\* An entry until the expiresAt of the session row.
SessionTtl == IF SessionsOutlive THEN "long" ELSE "short"

\* revokeSession(): a session the list shows.
Revoke(c, t) ==
  /\ At(c, "idle") /\ t \in rows
  /\ Become(c, [at |-> "blacklisting", tok |-> t, ttl |-> SessionTtl])
  /\ UNCHANGED <<userVars, rowVars, tokenVars, unlimited>>

\* logout() with a jti ...
Logout(c, t) ==
  /\ At(c, "idle") /\ Found /\ t \in rows \cup (live \ Lost(Clients))
  /\ Become(c, [at |-> "looking", tok |-> t])
  /\ UNCHANGED <<userVars, rowVars, tokenVars, unlimited>>

\* ... which without a session row is blacklisted for a minute only.
Look(c) ==
  /\ At(c, "looking")
  /\ Become(c, [at |-> "blacklisting", tok |-> req[c].tok,
                ttl |-> IF req[c].tok \in rows THEN SessionTtl ELSE "short"])
  /\ UNCHANGED <<userVars, rowVars, tokenVars, unlimited>>

BlacklistSession(c) ==
  /\ At(c, "blacklisting")
  /\ Blacklist(req[c].tok, req[c].ttl)
  /\ Become(c, [at |-> "unlisting", tok |-> req[c].tok])
  /\ UNCHANGED <<userVars, rowVars, live, ver, redeemed, unlimited>>

Unlist(c) ==
  /\ At(c, "unlisting")
  /\ rows' = rows \ {req[c].tok}
  /\ End(c)
  /\ UNCHANGED <<older, userVars, tokenVars, unlimited>>

--------------------------------------------------------------------------------
(* Tokens are issued. *)

\* loginWithPassword(): bcrypt.compare() lies between this and the tokens.
Login(c) ==
  /\ At(c, "idle") /\ Found
  /\ Become(c, [at |-> "minting", old |-> {}, held |-> tokenVersion])
  /\ UNCHANGED <<userVars, rowVars, tokenVars, unlimited>>

\* Requests that are refreshing t and have not blacklisted it.
Refreshing(t) == {d \in Clients : req[d].at \in {"reading", "rotating"} /\ req[d].tok = t}

\* refreshAccessToken(): t is good and not blacklisted ...
Refresh(c, t) ==
  /\ At(c, "idle") /\ t \in live \ Lost(Clients) /\ black[t] = "no"
  /\ Become(c, [at |-> "reading", tok |-> t])
  /\ Mark({t}, IF Refreshing(t) # {} THEN {"raced"} ELSE {})
  /\ UNCHANGED <<userVars, rowVars, black, live, ver, redeemed, unlimited>>

\* ... its user is there and has not been logged out since ...
CheckVersion(c) ==
  /\ At(c, "reading")
  /\ IF Found /\ ~Outdated(req[c].tok)
     THEN Become(c, [at |-> "rotating", tok |-> req[c].tok, held |-> tokenVersion])
     ELSE End(c)
  /\ UNCHANGED <<userVars, rowVars, tokenVars, unlimited>>

\* Mutant: the old token stays good.
RotateNot(c) ==
  /\ At(c, "rotating")
  /\ Become(c, [at |-> "minting", old |-> {req[c].tok}, held |-> req[c].held])
  /\ UNCHANGED <<userVars, rowVars, tokenVars, unlimited>>

\* ... so it is blacklisted for the rest of its life.
Rotate(c) ==
  /\ At(c, "rotating")
  /\ Blacklist(req[c].tok, "long")
  /\ Become(c, [at |-> "minting", old |-> {req[c].tok}, held |-> req[c].held])
  /\ UNCHANGED <<userVars, rowVars, live, ver, redeemed, unlimited>>

\* Request c remembers t.
Knows(c, t) ==
  \/ "tok" \in DOMAIN req[c] /\ req[c].tok = t
  \/ "old" \in DOMAIN req[c] /\ t \in req[c].old
  \/ "victims" \in DOMAIN req[c] /\ t \in req[c].victims

\* The tokens are signed, with the version of the entity in hand.
Mint(c, t) ==
  /\ At(c, "minting")
  /\ t \notin live \cup rows /\ \A d \in Clients : ~Knows(d, t)
  /\ live' = live \cup {t}
  /\ ver' = [ver EXCEPT ![t] = req[c].held]
  /\ redeemed' = [r \in Tokens |-> IF r \in req[c].old \cap live /\ redeemed[r] < 2
                                   THEN redeemed[r] + 1 ELSE redeemed[r]]
  /\ marks' = [marks EXCEPT ![t] = IF req[c].held > tokenVersion THEN {"restored"} ELSE {}]
  /\ Become(c, [at |-> "inserting", tok |-> t])
  /\ UNCHANGED <<userVars, rowVars, black, unlimited>>

\* createSession().  A sweep in progress will delete the new row, too.
InsertRow(c) ==
  /\ At(c, "inserting")
  /\ rows' = rows \cup {req[c].tok}
  /\ older' = [t \in Tokens |-> IF t = req[c].tok THEN rows ELSE older[t] \ {req[c].tok}]
  /\ unlimited' = FALSE
  /\ Mark({req[c].tok}, IF \E d \in Clients : At(d, "sweeping") THEN {"swept"} ELSE {})
  /\ Become(c, IF MaxSessions = 0 THEN Idle ELSE [at |-> "counting", tok |-> req[c].tok])
  /\ UNCHANGED <<userVars, black, live, ver, redeemed>>

--------------------------------------------------------------------------------
(* enforceSessionLimit() *)

\* Mutant: no early return.
CountAlways(c) ==
  /\ At(c, "counting")
  /\ Become(c, [at |-> "finding", tok |-> req[c].tok, excess |-> Excess])
  /\ UNCHANGED <<userVars, rowVars, tokenVars, unlimited>>

Count(c) ==
  /\ At(c, "counting")
  /\ Become(c, IF Excess <= 0 THEN Idle
               ELSE [at |-> "finding", tok |-> req[c].tok, excess |-> Excess])
  /\ UNCHANGED <<userVars, rowVars, tokenVars, unlimited>>

\* As many of the oldest rows as were counted too many.
Oldest(n) == {t \in rows : Cardinality(older[t] \cap rows) < n}

FindOldest(c) ==
  /\ At(c, "finding") /\ rows # {}
  /\ Become(c, [at |-> "trimming", tok |-> req[c].tok, victims |-> Oldest(req[c].excess),
                left |-> Oldest(req[c].excess)])
  /\ UNCHANGED <<userVars, rowVars, tokenVars, unlimited>>

\* Nothing to blacklist, and delete() of an empty list throws: the tokens are lost.
FindNone(c) ==
  /\ At(c, "finding") /\ rows = {}
  /\ Forget(Lost({c}), {})
  /\ End(c)
  /\ UNCHANGED <<userVars, rowVars, unlimited>>

\* Mutant: the rows are deleted, the tokens are not blacklisted.
TrimNot(c) ==
  /\ At(c, "trimming")
  /\ Become(c, [at |-> "deleting", tok |-> req[c].tok, victims |-> req[c].victims])
  /\ UNCHANGED <<userVars, rowVars, tokenVars, unlimited>>

\* Their tokens are blacklisted one after the other ...
Trim(c) ==
  /\ At(c, "trimming")
  /\ \E t \in req[c].left :
       /\ older[t] \cap req[c].left = {}
       /\ Blacklist(t, SessionTtl)
       /\ Become(c, IF req[c].left = {t}
                    THEN [at |-> "deleting", tok |-> req[c].tok, victims |-> req[c].victims]
                    ELSE [req[c] EXCEPT !.left = @ \ {t}])
  /\ UNCHANGED <<userVars, rowVars, live, ver, redeemed, unlimited>>

\* ... and the rows deleted at once.
DeleteOldest(c) ==
  /\ At(c, "deleting")
  /\ rows' = rows \ req[c].victims
  /\ End(c)
  /\ UNCHANGED <<older, userVars, tokenVars, unlimited>>

--------------------------------------------------------------------------------
(* Time passes. *)

ExpireToken(t) ==
  /\ t \in live \ Lost(Clients)
  /\ Forget({t}, {})
  /\ UNCHANGED <<userVars, rowVars, req, unlimited>>

\* No query lists or counts the row any more.
ExpireRow(t) ==
  /\ t \in rows /\ (SessionsOutlive => t \notin live)
  /\ rows' = rows \ {t}
  /\ UNCHANGED <<older, userVars, tokenVars, req, unlimited>>

LapseEntry(t) ==
  /\ black[t] = "short"
  /\ black' = [black EXCEPT ![t] = "no"]
  /\ Mark({t}, {"lapsed"})
  /\ UNCHANGED <<userVars, rowVars, live, ver, redeemed, req, unlimited>>

--------------------------------------------------------------------------------
Init ==
  /\ tokenVersion = 0 /\ deleted = FALSE
  /\ rows = {} /\ older = [t \in Tokens |-> {}]
  /\ black = [t \in Tokens |-> "no"] /\ live = {} /\ ver = [t \in Tokens |-> 0]
  /\ req = [c \in Clients |-> Idle]
  /\ redeemed = [t \in Tokens |-> 0] /\ marks = [t \in Tokens |-> {}]
  /\ unlimited = FALSE

Arrive(c) ==
  \/ UpdateProfile(c) \/ LogoutAll(c) \/ DeleteAccount(c) \/ Login(c)
  \/ \E t \in Tokens : Revoke(c, t) \/ Logout(c, t) \/ Refresh(c, t)

Proceed(c) ==
  \/ Compare(c) \/ Update(c) \/ Sweep(c) \/ SoftRemove(c)
  \/ Look(c) \/ BlacklistSession(c) \/ Unlist(c)
  \/ CheckVersion(c) \/ Rotate(c) \/ (\E t \in Tokens : Mint(c, t)) \/ InsertRow(c)
  \/ Count(c) \/ FindOldest(c) \/ FindNone(c) \/ Trim(c) \/ DeleteOldest(c)
  \/ Fails(c)

Next ==
  \/ \E c \in Clients : Arrive(c) \/ Proceed(c)
  \/ \E t \in Tokens : ExpireToken(t) \/ ExpireRow(t) \/ LapseEntry(t)
  \/ Crash

Spec == Init /\ [][Next]_vars

--------------------------------------------------------------------------------
(* Properties *)

TypeOK ==
  /\ tokenVersion \in Nat /\ deleted \in BOOLEAN
  /\ rows \in TokenSession /\ older \in [Tokens -> TokenSession]
  /\ black \in [Tokens -> Entry \cup {"no"}]
  /\ live \subseteq Tokens /\ ver \in [Tokens -> Nat]
  /\ req \in [Clients -> Request]
  /\ redeemed \in [Tokens -> 0..2] /\ marks \in [Tokens -> SUBSET Marks]
  /\ unlimited \in BOOLEAN

\* What was revoked stays revoked: a refresh token that was rotated, revoked, trimmed
\* by the session limit or logged out is never good again, however the requests
\* interleave, unless a request wrote an older user row back over the logout
\* or a logout() without a session row left an entry that lapsed.
RevokedStaysRevoked ==
  \A t \in live :
    "revoked" \in marks[t] /\ marks[t] \cap {"restored", "lapsed"} = {} => ~Redeemable(t)

\* A refresh token is exchanged at most once, unless two refreshes with it were in
\* progress together or its blacklist entry lapsed.
RedeemedOnce ==
  \A t \in live : marks[t] \cap {"raced", "lapsed"} = {} => redeemed[t] <= 1

\* The session limit holds whenever no request is about to enforce it, also when
\* requests that enforce it overlap, unless one of them died or failed on the way.
LimitHolds ==
  (MaxSessions > 0 /\ ~unlimited /\ \A c \in Clients : req[c].at \notin Enforcing)
    => Cardinality(rows) <= MaxSessions

\* The list of sessions is complete: a device that can refresh is on it, so it can be
\* revoked, unless its row was inserted while a logout of all swept the rows.
SessionsVisible ==
  \A t \in live \ Lost(Clients) :
    Redeemable(t) /\ marks[t] \cap {"restored", "lapsed", "swept"} = {} => t \in rows

\* A deleted account comes back only through a request that read the row before it
\* was deleted.
AccountStaysDeleted ==
  [][deleted => deleted' \/ \E c \in Clients : At(c, "updating") /\ req[c].stale]_vars

\* README: logout-all "increments tokenVersion, invalidating all existing tokens".  A
\* token it has invalidated stays so.
LogoutAllHolds == [][\A t \in live \cap live' : Outdated(t) => Outdated(t)']_vars
=============================================================================
