-------------------------- MODULE AuthSessions_proofs --------------------------
(***************************************************************************)
(* Proofs about AuthSessions, for any number of requests and tokens, any   *)
(* session limit and any number of logouts of all.                         *)
(*                                                                         *)
(* Most of the argument is about one token: while it lives, a step that    *)
(* makes it redeemable again marks it (Regained), because a request that   *)
(* writes an older user row knows that it is stale (HeldInv) and a token   *)
(* some request has condemned is on the blacklist (BlackInv).  The session *)
(* limit holds because rows are in a line (OrderInv), so that the oldest n *)
(* of them are n (OldestSuffice), and whoever enforces the limit last will *)
(* delete enough (LimitInv).                                               *)
(***************************************************************************)
EXTENDS AuthSessions, FiniteSetTheorems, TLAPS

--------------------------------------------------------------------------------
(* What the step a request is at says of its locals. *)

\* The steps that hold a token.
WithTok == {"looking", "blacklisting", "unlisting", "reading", "rotating",
            "inserting", "counting", "finding", "trimming", "deleting"}

LEMMA ReqTypes ==
  ASSUME TypeOK, NEW c \in Clients
  PROVE  /\ req[c] \in Request
         /\ req[c].at \in WithTok => req[c].tok \in Tokens
         /\ At(c, "blacklisting") => req[c].ttl \in Entry
         /\ req[c].at \in {"comparing", "updating", "rotating", "minting"} =>
              req[c].held \in Nat
         /\ req[c].at \in {"comparing", "updating"} =>
              req[c].all \in BOOLEAN /\ req[c].stale \in BOOLEAN
         /\ At(c, "updating") => req[c].dirty \in SUBSET {"tokenVersion", "deletedAt"}
         /\ At(c, "minting") => req[c].old \in SUBSET Tokens
         /\ At(c, "finding") => req[c].excess \in Nat \ {0}
         /\ req[c].at \in {"trimming", "deleting"} => req[c].victims \in TokenSession
         /\ At(c, "trimming") => req[c].left \in TokenSession
<1>1. req[c] \in Request
  BY DEF TypeOK
<1>2. QED
  BY <1>1 DEF Request, WithTok, At

\* Marking an entity as stale, or a victim as done, leaves the rest of the locals.
LEMMA StaleType ==
  ASSUME TypeOK, NEW c \in Clients, req[c].at \in {"comparing", "updating"},
         NEW r, r = [req[c] EXCEPT !.stale = TRUE]
  PROVE  /\ r \in Request /\ r.at = req[c].at /\ r.stale
         /\ r.held = req[c].held /\ r.all = req[c].all
         /\ At(c, "updating") => r.dirty = req[c].dirty
<1>1. req[c] \in Request
  BY DEF TypeOK
<1>2. CASE At(c, "comparing")
  <2>1. req[c] \in [at : {"comparing"}, held : Nat, all : BOOLEAN, stale : BOOLEAN]
    BY <1>1, <1>2 DEF Request, At
  <2>2. QED
    BY <1>2, <2>1 DEF Request, At
<1>3. CASE At(c, "updating")
  <2>1. req[c] \in [at : {"updating"}, held : Nat, all : BOOLEAN, stale : BOOLEAN,
                    dirty : SUBSET {"tokenVersion", "deletedAt"}]
    BY <1>1, <1>3 DEF Request, At
  <2>2. QED
    BY <1>3, <2>1 DEF Request, At
<1>4. QED
  BY <1>2, <1>3 DEF At

LeftOut(c, v) == [req[c] EXCEPT !.left = @ \ {v}]

LEMMA LeftType ==
  ASSUME TypeOK, NEW c \in Clients, At(c, "trimming"), NEW v
  PROVE  /\ LeftOut(c, v) \in Request
         /\ LeftOut(c, v).at = "trimming" /\ LeftOut(c, v).tok = req[c].tok
         /\ LeftOut(c, v).victims = req[c].victims /\ LeftOut(c, v).left = req[c].left \ {v}
<1>1. req[c] \in Request
  BY DEF TypeOK
<1>2. req[c] \in [at : {"trimming"}, tok : Tokens, victims : TokenSession, left : TokenSession]
  BY <1>1 DEF Request, At
<1>3. QED
  BY <1>2 DEF Request, TokenSession, LeftOut
--------------------------------------------------------------------------------
(* What the operators the actions are built from change. *)

LEMMA BecomeOnly ==
  ASSUME TypeOK, NEW c \in Clients, NEW r, Become(c, r)
  PROVE  req'[c] = r /\ \A d \in Clients \ {c} : req'[d] = req[d]
BY DEF Become, TypeOK

LEMMA BecomeType ==
  ASSUME TypeOK, NEW c \in Clients, NEW r \in Request, Become(c, r)
  PROVE  req' \in [Clients -> Request]
BY DEF Become, TypeOK

LEMMA IdleType == Idle \in Request /\ Idle.at = "idle"
BY DEF Idle, Request

\* Of the other requests, those that hold an entity of the user row are stale now.
LEMMA OvertakeEffect ==
  ASSUME TypeOK, NEW c \in Clients, NEW r \in Request, Overtake(c, r)
  PROVE  /\ req' \in [Clients -> Request] /\ req'[c] = r
         /\ \A d \in Clients \ {c} :
              \/ /\ req[d].at \in {"comparing", "updating"}
                 /\ req'[d].at = req[d].at /\ req'[d].stale
              \/ req[d].at \notin {"comparing", "updating"} /\ req'[d] = req[d]
<1>1. req' = [d \in Clients |-> CASE d = c -> r
                                  [] d # c /\ req[d].at \in {"comparing", "updating"} ->
                                       [req[d] EXCEPT !.stale = TRUE]
                                  [] OTHER -> req[d]]
  BY DEF Overtake
<1>2. req'[c] = r
  BY <1>1
<1>3. ASSUME NEW d \in Clients, d # c, req[d].at \in {"comparing", "updating"}
      PROVE  req'[d] \in Request /\ req'[d].at = req[d].at /\ req'[d].stale
  <2>1. PICK q : q = [req[d] EXCEPT !.stale = TRUE]
    OBVIOUS
  <2>2. req'[d] = q
    BY <1>1, <1>3, <2>1
  <2>3. QED
    BY <1>3, <2>1, <2>2, StaleType
<1>4. ASSUME NEW d \in Clients, d # c, req[d].at \notin {"comparing", "updating"}
      PROVE  req'[d] = req[d] /\ req'[d] \in Request
  BY <1>1, <1>4 DEF TypeOK
<1>5. \A d \in Clients : req'[d] \in Request
  BY <1>2, <1>3, <1>4
<1>6. req' \in [Clients -> Request]
  BY <1>1, <1>5
<1>7. QED
  BY <1>2, <1>3, <1>4, <1>6

LEMMA MarkType ==
  ASSUME TypeOK, NEW S, NEW M \in SUBSET Marks, Mark(S, M)
  PROVE  /\ marks' \in [Tokens -> SUBSET Marks]
         /\ \A t \in Tokens : marks'[t] = IF t \in S \cap live THEN marks[t] \cup M ELSE marks[t]
BY DEF Mark, TypeOK

LEMMA BlacklistType ==
  ASSUME TypeOK, NEW t \in Tokens, NEW entry \in Entry, Blacklist(t, entry)
  PROVE  /\ black' \in [Tokens -> Entry \cup {"no"}] /\ marks' \in [Tokens -> SUBSET Marks]
         /\ \A u \in Tokens : u # t => black'[u] = black[u] /\ marks'[u] = marks[u]
         /\ t \in live => black'[t] = entry /\ marks'[t] = marks[t] \cup {"revoked"}
         /\ t \notin live => black'[t] = "no" /\ marks'[t] = marks[t]
<1>1. Mark({t}, {"revoked"}) /\ {"revoked"} \in SUBSET Marks
  BY DEF Blacklist, Marks
<1>2. /\ marks' \in [Tokens -> SUBSET Marks]
      /\ \A u \in Tokens : marks'[u] = IF u \in {t} \cap live THEN marks[u] \cup {"revoked"} ELSE marks[u]
  BY <1>1, MarkType
<1>3. QED
  BY <1>2 DEF Blacklist, TypeOK, Entry

LEMMA ForgetType ==
  ASSUME TypeOK, NEW S, NEW B, Forget(S, B)
  PROVE  /\ live' = live \ S
         /\ black' \in [Tokens -> Entry \cup {"no"}] /\ ver' \in [Tokens -> Nat]
         /\ redeemed' \in [Tokens -> 0..2] /\ marks' \in [Tokens -> SUBSET Marks]
         /\ \A t \in Tokens :
              IF t \in S THEN black'[t] = "no" /\ redeemed'[t] = 0 /\ marks'[t] = {}
              ELSE /\ ver'[t] = ver[t] /\ redeemed'[t] = redeemed[t] /\ marks'[t] = marks[t]
                   /\ black'[t] = IF t \in B THEN "no" ELSE black[t]
BY DEF Forget, TypeOK

LEMMA SessionTtlType == SessionTtl \in Entry
BY DEF SessionTtl, Entry

--------------------------------------------------------------------------------
(* Types *)

Types == TypeOK /\ IsFiniteSet(rows)

\* Rows can be counted.
LEMMA Counted ==
  ASSUME Types
  PROVE  Cardinality(rows) \in Nat /\ Excess \in Int
BY FS_CardinalityType, SessionAssumption DEF Types, Excess

\* A step that only gives one request its next state.
QuietStep(c) ==
  \/ UpdateProfile(c) \/ LogoutAll(c) \/ DeleteAccount(c) \/ Login(c)
  \/ \E t \in Tokens : Revoke(c, t) \/ Logout(c, t)
  \/ Compare(c) \/ Look(c) \/ CheckVersion(c) \/ Count(c) \/ FindOldest(c)

LEMMA QuietEffect ==
  ASSUME Types, NEW c \in Clients, QuietStep(c)
  PROVE  /\ \E r \in Request : Become(c, r)
         /\ UNCHANGED <<userVars, rowVars, tokenVars, unlimited>>
<1> USE DEF Types
<1>1. CASE UpdateProfile(c) \/ LogoutAll(c)
  <2>1. /\ [at |-> "comparing", held |-> tokenVersion, all |-> FALSE, stale |-> FALSE] \in Request
        /\ [at |-> "comparing", held |-> tokenVersion + 1, all |-> TRUE, stale |-> FALSE] \in Request
    BY DEF Request, TypeOK
  <2>2. QED
    BY <1>1, <2>1, Zenon DEF UpdateProfile, LogoutAll
<1>2. CASE DeleteAccount(c) \/ Login(c)
  BY <1>2 DEF DeleteAccount, Login, Request, TypeOK
<1>3. ASSUME NEW t \in Tokens, Revoke(c, t) \/ Logout(c, t)
      PROVE  /\ \E r \in Request : Become(c, r)
             /\ UNCHANGED <<userVars, rowVars, tokenVars, unlimited>>
  BY <1>3, SessionTtlType DEF Revoke, Logout, Request
<1>4. CASE Compare(c)
  BY <1>4, ReqTypes DEF Compare, Request, At
<1>5. CASE Look(c)
  BY <1>5, ReqTypes, SessionTtlType DEF Look, Request, At, WithTok, Entry
<1>6. CASE CheckVersion(c)
  <2>1. req[c].tok \in Tokens /\ tokenVersion \in Nat
    BY <1>6, ReqTypes DEF CheckVersion, At, WithTok, TypeOK
  <2>2. QED
    BY <1>6, <2>1, IdleType DEF CheckVersion, End, Request
<1>7. CASE Count(c)
  <2>1. req[c].tok \in Tokens /\ Excess \in Int
    BY <1>7, ReqTypes, Counted DEF Count, At, WithTok
  <2>2. CASE Excess <= 0
    BY <1>7, <2>2, IdleType DEF Count
  <2>3. CASE ~(Excess <= 0)
    BY <1>7, <2>1, <2>3 DEF Count, Request
  <2>4. QED
    BY <2>2, <2>3
<1>8. CASE FindOldest(c)
  <2>1. req[c].tok \in Tokens /\ Oldest(req[c].excess) \in TokenSession
    BY <1>8, ReqTypes DEF FindOldest, At, WithTok, Oldest, TypeOK, TokenSession
  <2>2. QED
    BY <1>8, <2>1 DEF FindOldest, Request
<1>9. QED
  BY <1>1, <1>2, <1>3, <1>4, <1>5, <1>6, <1>7, <1>8 DEF QuietStep

LEMMA TypeStep == Types /\ [Next]_vars => Types'
<1> SUFFICES ASSUME Types, [Next]_vars PROVE Types'
  OBVIOUS
<1> USE DEF Types
\* Steps of one request that leave the user row alone, and steps of time.
<1>1. ASSUME req' \in [Clients -> Request], UNCHANGED <<userVars, tokenVars>>,
             rows' \in TokenSession, older' \in [Tokens -> TokenSession], IsFiniteSet(rows'),
             unlimited' \in BOOLEAN
      PROVE  Types'
  BY <1>1 DEF TypeOK, userVars, tokenVars
<1>2. ASSUME NEW c \in Clients, QuietStep(c) PROVE Types'
  <2>1. req' \in [Clients -> Request] /\ UNCHANGED <<userVars, rowVars, tokenVars, unlimited>>
    BY <1>2, QuietEffect, BecomeType
  <2>2. QED
    BY <1>1, <2>1 DEF rowVars, TypeOK
<1>3. ASSUME NEW c \in Clients, Sweep(c) \/ Unlist(c) \/ DeleteOldest(c) PROVE Types'
  <2>1. req' \in [Clients -> Request]
    BY <1>3, IdleType, BecomeType DEF Sweep, Unlist, DeleteOldest, End
  <2>2. rows' \subseteq rows /\ UNCHANGED <<older, userVars, tokenVars, unlimited>>
    BY <1>3 DEF Sweep, Unlist, DeleteOldest
  <2>3. IsFiniteSet(rows')
    BY <2>2, FS_Subset
  <2>4. QED
    BY <1>1, <2>1, <2>2, <2>3 DEF TypeOK, TokenSession
<1>4. ASSUME NEW c \in Clients, Update(c) PROVE Types'
  <2>1. PICK r \in Request : Overtake(c, r)
    <3>1. Idle \in Request /\ [at |-> "sweeping"] \in Request
      BY DEF Idle, Request
    <3>2. QED
      BY <1>4, <3>1 DEF Update
  <2>2. req' \in [Clients -> Request]
    BY <2>1, OvertakeEffect
  <2>3. PICK M \in SUBSET Marks : Mark(live, M)
    BY <1>4 DEF Update, Marks
  <2>4. marks' \in [Tokens -> SUBSET Marks]
    BY <2>3, MarkType
  <2>5. tokenVersion' \in Nat /\ deleted' \in BOOLEAN
    BY <1>4, ReqTypes, Zenon DEF Update, TypeOK, At
  <2>6. QED
    BY <1>4, <2>2, <2>4, <2>5 DEF Update, TypeOK, rowVars
<1>5. ASSUME NEW c \in Clients, SoftRemove(c) PROVE Types'
  <2>1. [at |-> "sweeping"] \in Request
    BY DEF Request
  <2>2. req' \in [Clients -> Request]
    BY <1>5, <2>1, OvertakeEffect DEF SoftRemove
  <2>3. marks' \in [Tokens -> SUBSET Marks]
    BY <1>5, MarkType DEF SoftRemove, Marks
  <2>4. QED
    BY <1>5, <2>2, <2>3 DEF SoftRemove, TypeOK, rowVars
<1>6. ASSUME req' \in [Clients -> Request], NEW t \in Tokens, NEW entry \in Entry,
             Blacklist(t, entry), UNCHANGED <<userVars, rowVars, live, ver, redeemed, unlimited>>
      PROVE  Types'
  BY <1>6, BlacklistType DEF TypeOK, userVars, rowVars
<1>7. ASSUME NEW c \in Clients, BlacklistSession(c) PROVE Types'
  <2>1. req[c].tok \in Tokens /\ req[c].ttl \in Entry
    BY <1>7, ReqTypes DEF BlacklistSession, At, WithTok
  <2>2. [at |-> "unlisting", tok |-> req[c].tok] \in Request
    BY <2>1 DEF Request
  <2>3. req' \in [Clients -> Request]
    BY <1>7, <2>2, BecomeType DEF BlacklistSession
  <2>4. QED
    BY <1>6, <1>7, <2>1, <2>3 DEF BlacklistSession
<1>8. ASSUME NEW c \in Clients, Rotate(c) PROVE Types'
  <2>1. req[c].tok \in Tokens /\ req[c].held \in Nat /\ "long" \in Entry
    BY <1>8, ReqTypes DEF Rotate, At, WithTok, Entry
  <2>2. [at |-> "minting", old |-> {req[c].tok}, held |-> req[c].held] \in Request
    BY <2>1 DEF Request
  <2>3. req' \in [Clients -> Request]
    BY <1>8, <2>2, BecomeType DEF Rotate
  <2>4. QED
    BY <1>6, <1>8, <2>1, <2>3 DEF Rotate
<1>9. ASSUME NEW c \in Clients, Trim(c) PROVE Types'
  <2>1. At(c, "trimming") /\ UNCHANGED <<userVars, rowVars, live, ver, redeemed, unlimited>>
    BY <1>9 DEF Trim
  <2>2. PICK t \in req[c].left :
          /\ Blacklist(t, SessionTtl)
          /\ Become(c, IF req[c].left = {t}
                       THEN [at |-> "deleting", tok |-> req[c].tok, victims |-> req[c].victims]
                       ELSE LeftOut(c, t))
    BY <1>9 DEF Trim, LeftOut
  <2>3. req[c].tok \in Tokens /\ req[c].victims \in TokenSession /\ t \in Tokens
    BY <2>1, <2>2, ReqTypes DEF At, WithTok, TokenSession
  <2>4. [at |-> "deleting", tok |-> req[c].tok, victims |-> req[c].victims] \in Request
    BY <2>3 DEF Request
  <2>5. PICK r : r = LeftOut(c, t)
    OBVIOUS
  <2>6. r \in Request
    BY <2>1, <2>5, LeftType
  <2>7. req' \in [Clients -> Request]
    BY <2>2, <2>4, <2>5, <2>6, BecomeType
  <2>8. QED
    BY <1>6, <2>1, <2>2, <2>3, <2>7, SessionTtlType
<1>10. ASSUME NEW c \in Clients, NEW t \in Tokens, Refresh(c, t) PROVE Types'
  <2>1. [at |-> "reading", tok |-> t] \in Request
    BY DEF Request
  <2>2. req' \in [Clients -> Request]
    BY <1>10, <2>1, BecomeType DEF Refresh
  <2>3. PICK M \in SUBSET Marks : Mark({t}, M)
    BY <1>10 DEF Refresh, Marks
  <2>4. marks' \in [Tokens -> SUBSET Marks]
    BY <2>3, MarkType
  <2>5. QED
    BY <1>10, <2>2, <2>4 DEF Refresh, TypeOK, userVars, rowVars
<1>11. ASSUME NEW c \in Clients, NEW t \in Tokens, Mint(c, t) PROVE Types'
  <2>1. req[c].held \in Nat /\ [at |-> "inserting", tok |-> t] \in Request
    BY <1>11, ReqTypes DEF Mint, At, Request
  <2>2. req' \in [Clients -> Request]
    BY <1>11, <2>1, BecomeType DEF Mint
  <2>3. redeemed' \in [Tokens -> 0..2]
    BY <1>11 DEF Mint, TypeOK
  <2>4. marks' \in [Tokens -> SUBSET Marks]
    BY <1>11 DEF Mint, TypeOK, Marks
  <2>5. QED
    BY <1>11, <2>1, <2>2, <2>3, <2>4 DEF Mint, TypeOK, userVars, rowVars
<1>12. ASSUME NEW c \in Clients, InsertRow(c) PROVE Types'
  <2>1. req[c].tok \in Tokens
    BY <1>12, ReqTypes DEF InsertRow, At, WithTok
  <2>2. Idle \in Request /\ [at |-> "counting", tok |-> req[c].tok] \in Request
    BY <2>1, IdleType DEF Request
  <2>3. req' \in [Clients -> Request]
    BY <1>12, <2>2, BecomeType DEF InsertRow
  <2>4. PICK M \in SUBSET Marks : Mark({req[c].tok}, M)
    BY <1>12 DEF InsertRow, Marks
  <2>5. marks' \in [Tokens -> SUBSET Marks]
    BY <2>4, MarkType
  <2>6. /\ rows' \in TokenSession /\ older' \in [Tokens -> TokenSession]
        /\ unlimited' \in BOOLEAN
    BY <1>12, <2>1 DEF InsertRow, TypeOK, TokenSession
  <2>7. IsFiniteSet(rows')
    BY <1>12, FS_AddElement DEF InsertRow
  <2>8. QED
    BY <1>12, <2>3, <2>5, <2>6, <2>7 DEF InsertRow, TypeOK, userVars
<1>13. ASSUME req' \in [Clients -> Request], UNCHANGED <<userVars, rowVars>>,
              unlimited' \in BOOLEAN, NEW S, NEW B, Forget(S, B)
       PROVE  Types'
  BY <1>13, ForgetType DEF TypeOK, userVars, rowVars
<1>14. ASSUME NEW c \in Clients, FindNone(c) \/ Fails(c) PROVE Types'
  <2>1. req' \in [Clients -> Request]
    BY <1>14, IdleType, BecomeType DEF FindNone, Fails, End
  <2>2. unlimited' \in BOOLEAN
    BY <1>14, Zenon DEF FindNone, Fails, TypeOK
  <2>3. QED
    BY <1>13, <1>14, <2>1, <2>2 DEF FindNone, Fails
<1>15. CASE Crash
  <2>1. req' \in [Clients -> Request]
    BY <1>15, IdleType DEF Crash
  <2>2. unlimited' \in BOOLEAN
    BY <1>15, Zenon DEF Crash, TypeOK
  <2>3. QED
    BY <1>13, <1>15, <2>1, <2>2 DEF Crash
<1>16. ASSUME NEW t \in Tokens, ExpireToken(t) PROVE Types'
  BY <1>13, <1>16 DEF ExpireToken, TypeOK
<1>17. ASSUME NEW t \in Tokens, ExpireRow(t) PROVE Types'
  <2>1. IsFiniteSet(rows')
    BY <1>17, FS_Subset DEF ExpireRow
  <2>2. QED
    BY <1>1, <1>17, <2>1 DEF ExpireRow, TypeOK, TokenSession
<1>18. ASSUME NEW t \in Tokens, LapseEntry(t) PROVE Types'
  <2>1. marks' \in [Tokens -> SUBSET Marks]
    BY <1>18, MarkType DEF LapseEntry, Marks
  <2>2. QED
    BY <1>18, <2>1 DEF LapseEntry, TypeOK, userVars, rowVars
<1>19. CASE UNCHANGED vars
  BY <1>1, <1>19 DEF vars, rowVars, TypeOK
<1>20. QED
  BY <1>2, <1>3, <1>4, <1>5, <1>7, <1>8, <1>9, <1>10, <1>11, <1>12, <1>14, <1>15, <1>16,
     <1>17, <1>18, <1>19, Zenon
  DEF Next, Arrive, Proceed, QuietStep

--------------------------------------------------------------------------------
(* Who changes what *)

Acts(c) == Arrive(c) \/ Proceed(c)

Overtaken(c) ==
  req[c].at \in {"comparing", "updating"} /\ req'[c].at = req[c].at /\ req'[c].stale

\* A request that does not act stays where it is, is overtaken, or dies.
LEMMA OthersWait ==
  ASSUME Types, [Next]_vars, NEW c \in Clients, ~Acts(c)
  PROVE  req'[c] = req[c] \/ Overtaken(c) \/ (Crash /\ req'[c] = Idle)
<1> USE DEF Types
<1>1. ASSUME NEW d \in Clients, NEW r, Become(d, r), d # c
      PROVE  req'[c] = req[c]
  BY <1>1, BecomeOnly
<1>2. ASSUME NEW d \in Clients, Acts(d) PROVE req'[c] = req[c] \/ Overtaken(c)
  <2>1. d # c
    BY <1>2
  <2>2. CASE QuietStep(d)
    BY <1>1, <2>1, <2>2, QuietEffect
  <2>3. CASE Sweep(d) \/ Unlist(d) \/ DeleteOldest(d) \/ FindNone(d) \/ Fails(d)
    BY <1>1, <2>1, <2>3 DEF Sweep, Unlist, DeleteOldest, FindNone, Fails, End
  <2>4. CASE Update(d) \/ SoftRemove(d)
    <3>1. PICK r \in Request : Overtake(d, r)
      <4>1. Idle \in Request /\ [at |-> "sweeping"] \in Request
        BY DEF Idle, Request
      <4>2. QED
        BY <2>4, <4>1 DEF Update, SoftRemove
    <3>2. QED
      BY <2>1, <3>1, OvertakeEffect DEF Overtaken
  <2>5. CASE BlacklistSession(d) \/ Rotate(d) \/ InsertRow(d)
    BY <1>1, <2>1, <2>5, Zenon DEF BlacklistSession, Rotate, InsertRow
  <2>6. CASE Trim(d)
    BY <1>1, <2>1, <2>6, Zenon DEF Trim
  <2>7. CASE \E t \in Tokens : Refresh(d, t) \/ Mint(d, t)
    BY <1>1, <2>1, <2>7, Zenon DEF Refresh, Mint
  <2>8. QED
    BY <1>2, <2>2, <2>3, <2>4, <2>5, <2>6, <2>7, Zenon DEF Acts, Arrive, Proceed, QuietStep
<1>3. CASE Crash
  BY <1>3 DEF Crash
<1>4. CASE UNCHANGED req
  BY <1>4
<1>5. QED
  BY <1>2, <1>3, <1>4, Zenon DEF Next, Acts, ExpireToken, ExpireRow, LapseEntry, vars

\* Only an UPDATE of the user row writes it.
LEMMA UserKept ==
  ASSUME Types, [Next]_vars, \A c \in Clients : ~Update(c) /\ ~SoftRemove(c)
  PROVE  UNCHANGED userVars
<1>1. ASSUME NEW c \in Clients, Acts(c) PROVE UNCHANGED userVars
  <2>1. CASE QuietStep(c)
    BY <2>1, QuietEffect
  <2>2. QED
    BY <1>1, <2>1 DEF Acts, Arrive, Proceed, QuietStep, Refresh, Sweep, BlacklistSession, Unlist,
      Rotate, Mint, InsertRow, FindNone, Trim, DeleteOldest, Fails
<1>2. QED
  BY <1>1 DEF Next, Acts, ExpireToken, ExpireRow, LapseEntry, Crash, vars

--------------------------------------------------------------------------------
(* The entity of the user row a request holds *)

\* An entity that no other request has overtaken agrees with the row, but for the
\* version a logout of all has raised.
HeldAt(c) ==
  req[c].at \in {"comparing", "updating"} /\ ~req[c].stale =>
    /\ ~deleted
    /\ req[c].held = IF req[c].all THEN tokenVersion + 1 ELSE tokenVersion
    /\ At(c, "updating") => req[c].dirty = IF req[c].all THEN {"tokenVersion"} ELSE {}

HeldInv == \A c \in Clients : HeldAt(c)

LEMMA HeldStep ==
  ASSUME Types, HeldInv, [Next]_vars
  PROVE  HeldInv'
<1> USE DEF Types
<1> SUFFICES ASSUME NEW c \in Clients PROVE HeldAt(c)'
  BY DEF HeldInv
<1>1. HeldAt(c)
  BY DEF HeldInv
<1>2. CASE \E d \in Clients : Update(d) \/ SoftRemove(d)
  <2>1. PICK d \in Clients, r \in Request :
          Overtake(d, r) /\ r.at \notin {"comparing", "updating"}
    <3>1. /\ Idle \in Request /\ [at |-> "sweeping"] \in Request
          /\ Idle.at = "idle" /\ [at |-> "sweeping"].at = "sweeping"
      BY DEF Idle, Request
    <3>2. QED
      BY <1>2, <3>1 DEF Update, SoftRemove
  <2>2. QED
    BY <2>1, OvertakeEffect DEF HeldAt
<1>3. CASE ~Acts(c) /\ \A d \in Clients : ~Update(d) /\ ~SoftRemove(d)
  <2>1. UNCHANGED userVars
    BY <1>3, UserKept
  <2>2. req'[c] = req[c] \/ Overtaken(c) \/ req'[c] = Idle
    BY <1>3, OthersWait
  <2>3. QED
    BY <1>1, <2>1, <2>2, IdleType DEF HeldAt, Overtaken, userVars, At
<1>4. CASE Acts(c) /\ \A d \in Clients : ~Update(d) /\ ~SoftRemove(d)
  <2>1. UNCHANGED userVars
    BY <1>4, UserKept
  <2>2. ASSUME req'[c].at \notin {"comparing", "updating"} PROVE HeldAt(c)'
    BY <2>2 DEF HeldAt
  <2>3. ASSUME NEW r, Become(c, r), r.at \notin {"comparing", "updating"} PROVE HeldAt(c)'
    BY <2>2, <2>3, BecomeOnly
  <2>4. CASE UpdateProfile(c)
    <3>1. PICK r : r = [at |-> "comparing", held |-> tokenVersion, all |-> FALSE, stale |-> FALSE]
      OBVIOUS
    <3>2. req'[c] = r /\ ~deleted
      BY <2>4, <3>1, BecomeOnly DEF UpdateProfile, Found
    <3>3. QED
      BY <2>1, <3>1, <3>2 DEF HeldAt, userVars, At
  <2>5. CASE LogoutAll(c)
    <3>1. PICK r : r = [at |-> "comparing", held |-> tokenVersion + 1, all |-> TRUE, stale |-> FALSE]
      OBVIOUS
    <3>2. req'[c] = r /\ ~deleted
      BY <2>5, <3>1, BecomeOnly DEF LogoutAll, Found
    <3>3. QED
      BY <2>1, <3>1, <3>2 DEF HeldAt, userVars, At
  <2>6. CASE Compare(c)
    <3>1. PICK r : r = [at |-> "updating", held |-> req[c].held, all |-> req[c].all,
                        stale |-> req[c].stale,
                        dirty |-> (IF req[c].held # tokenVersion THEN {"tokenVersion"} ELSE {})
                                  \cup (IF deleted THEN {"deletedAt"} ELSE {})]
      OBVIOUS
    <3>2. req'[c] = r /\ At(c, "comparing")
      BY <2>6, <3>1, BecomeOnly DEF Compare
    <3>3. req[c].all \in BOOLEAN /\ tokenVersion \in Nat
      BY <3>2, ReqTypes DEF At, TypeOK
    <3>4. QED
      BY <1>1, <2>1, <3>1, <3>2, <3>3 DEF HeldAt, userVars, At
  <2>7. CASE DeleteAccount(c) \/ Login(c) \/ Look(c) \/ FindOldest(c)
    BY <2>3, <2>7 DEF DeleteAccount, Login, Look, FindOldest
  <2>8. ASSUME NEW t \in Tokens, Revoke(c, t) \/ Logout(c, t) \/ Refresh(c, t) \/ Mint(c, t)
        PROVE  HeldAt(c)'
    BY <2>3, <2>8 DEF Revoke, Logout, Refresh, Mint
  <2>9. CASE Sweep(c) \/ Unlist(c) \/ DeleteOldest(c) \/ FindNone(c) \/ Fails(c)
    BY <2>3, <2>9, IdleType DEF Sweep, Unlist, DeleteOldest, FindNone, Fails, End
  <2>10. CASE CheckVersion(c) \/ Count(c)
    BY <2>3, <2>10, IdleType DEF CheckVersion, Count, End
  <2>11. CASE BlacklistSession(c) \/ Rotate(c)
    BY <2>3, <2>11 DEF BlacklistSession, Rotate
  <2>12. CASE InsertRow(c)
    BY <2>3, <2>12, IdleType DEF InsertRow
  <2>13. CASE Trim(c)
    <3>1. At(c, "trimming")
      BY <2>13 DEF Trim
    <3>2. PICK t \in req[c].left :
            Become(c, IF req[c].left = {t}
                      THEN [at |-> "deleting", tok |-> req[c].tok, victims |-> req[c].victims]
                      ELSE LeftOut(c, t))
      BY <2>13 DEF Trim, LeftOut
    <3>3. PICK r : r = LeftOut(c, t)
      OBVIOUS
    <3>4. r \in Request /\ r.at = "trimming"
      BY <3>1, <3>3, LeftType
    <3>5. QED
      BY <2>3, <3>2, <3>3, <3>4
  <2>14. QED
    BY <1>4, <2>4, <2>5, <2>6, <2>7, <2>8, <2>9, <2>10, <2>11, <2>12, <2>13, Zenon
    DEF Acts, Arrive, Proceed
<1>5. QED
  BY <1>2, <1>3, <1>4

LEMMA InitTypes == Init => Types /\ HeldInv
<1>1. ASSUME Init PROVE TypeOK
  <2>1. req \in [Clients -> Request]
    BY <1>1, IdleType DEF Init
  <2>2. black \in [Tokens -> Entry \cup {"no"}] /\ marks \in [Tokens -> SUBSET Marks]
    BY <1>1 DEF Init, Entry
  <2>3. older \in [Tokens -> TokenSession] /\ rows \in TokenSession
    BY <1>1 DEF Init, TokenSession
  <2>4. ver \in [Tokens -> Nat] /\ redeemed \in [Tokens -> 0..2]
    BY <1>1 DEF Init
  <2>5. QED
    BY <1>1, <2>1, <2>2, <2>3, <2>4 DEF Init, TypeOK
<1>2. Init => HeldInv
  BY IdleType DEF Init, HeldInv, HeldAt
<1>3. Init => IsFiniteSet(rows)
  BY FS_EmptySet DEF Init
<1>4. QED
  BY <1>1, <1>2, <1>3 DEF Types

\* Requests, tokens and rows keep their types, and the rows can be counted.
THEOREM SessionsTypeCorrect == Spec => []TypeOK
<1>1. Spec => []Types
  BY InitTypes, TypeStep, PTL DEF Spec
<1>2. Types => TypeOK
  BY DEF Types
<1>3. QED
  BY <1>1, <1>2, PTL

LEMMA HeldInvariant == Spec => [](Types /\ HeldInv)
<1>1. Types /\ HeldInv /\ [Next]_vars => (Types /\ HeldInv)'
  BY TypeStep, HeldStep
<1>2. QED
  BY <1>1, InitTypes, PTL DEF Spec

\* A deleted account comes back only through a request that read the row before it
\* was deleted: save() writes deletedAt only if the entity and the row differ in it.
THEOREM DeletedAccountsStay == Spec => AccountStaysDeleted
<1>1. ASSUME Types, HeldInv, [Next]_vars, deleted
      PROVE  deleted' \/ \E c \in Clients : At(c, "updating") /\ req[c].stale
  <2>1. CASE \A c \in Clients : ~Update(c) /\ ~SoftRemove(c)
    BY <1>1, <2>1, UserKept DEF userVars
  <2>2. ASSUME NEW c \in Clients, Update(c)
        PROVE  At(c, "updating") /\ (deleted' \/ req[c].stale)
    <3>1. At(c, "updating") /\ req[c].stale \in BOOLEAN
      BY <1>1, <2>2, ReqTypes DEF Update, Types, At
    <3>2. QED
      BY <1>1, <3>1 DEF HeldInv, HeldAt, At
  <2>3. QED
    BY <2>1, <2>2 DEF SoftRemove
<1>2. Types /\ HeldInv /\ [Next]_vars =>
        [deleted => deleted' \/ \E c \in Clients : At(c, "updating") /\ req[c].stale]_vars
  BY <1>1
<1>3. QED
  BY <1>2, HeldInvariant, PTL DEF Spec, AccountStaysDeleted

--------------------------------------------------------------------------------
(* What a step does to one token *)

\* The steps that touch tokens, by what they do to them.
LEMMA TokenSteps ==
  ASSUME Types, [Next]_vars
  PROVE  \/ UNCHANGED tokenVars
         \/ \E c \in Clients : Update(c) \/ SoftRemove(c)
         \/ \E u \in Tokens, e \in Entry : Blacklist(u, e) /\ UNCHANGED <<live, ver, redeemed>>
         \/ \E u \in Tokens, M \in SUBSET {"raced", "swept"} :
              Mark({u}, M) /\ UNCHANGED <<black, live, ver, redeemed>>
         \/ \E c \in Clients, u \in Tokens : Mint(c, u)
         \/ \E S, B : Forget(S, B) /\ (BlacklistSurvives => B = {})
         \/ \E u \in Tokens : LapseEntry(u)
<1> DEFINE Goal ==
         \/ UNCHANGED tokenVars
         \/ \E c \in Clients : Update(c) \/ SoftRemove(c)
         \/ \E u \in Tokens, e \in Entry : Blacklist(u, e) /\ UNCHANGED <<live, ver, redeemed>>
         \/ \E u \in Tokens, M \in SUBSET {"raced", "swept"} :
              Mark({u}, M) /\ UNCHANGED <<black, live, ver, redeemed>>
         \/ \E c \in Clients, u \in Tokens : Mint(c, u)
         \/ \E S, B : Forget(S, B) /\ (BlacklistSurvives => B = {})
         \/ \E u \in Tokens : LapseEntry(u)
<1> USE DEF Types
<1>1. ASSUME NEW c \in Clients, Acts(c) PROVE Goal
  <2>1. CASE QuietStep(c)
    BY <2>1, QuietEffect
  <2>2. CASE Sweep(c) \/ Unlist(c) \/ DeleteOldest(c)
    BY <2>2 DEF Sweep, Unlist, DeleteOldest
  <2>3. CASE Update(c) \/ SoftRemove(c) \/ \E t \in Tokens : Mint(c, t)
    BY <2>3, Zenon
  <2>4. CASE BlacklistSession(c)
    <3>1. req[c].tok \in Tokens /\ req[c].ttl \in Entry
      BY <2>4, ReqTypes DEF BlacklistSession, At, WithTok
    <3>2. QED
      BY <2>4, <3>1, Zenon DEF BlacklistSession
  <2>5. CASE Rotate(c)
    <3>1. req[c].tok \in Tokens /\ "long" \in Entry
      BY <2>5, ReqTypes DEF Rotate, At, WithTok, Entry
    <3>2. QED
      BY <2>5, <3>1, Zenon DEF Rotate
  <2>6. CASE Trim(c)
    <3>1. PICK t \in req[c].left : Blacklist(t, SessionTtl)
      BY <2>6, Zenon DEF Trim
    <3>2. t \in Tokens
      BY <2>6, <3>1, ReqTypes DEF Trim, At, TokenSession
    <3>3. QED
      BY <2>6, <3>1, <3>2, SessionTtlType, Zenon DEF Trim
  <2>7. ASSUME NEW t \in Tokens, Refresh(c, t) PROVE Goal
    <3>1. PICK M \in SUBSET {"raced", "swept"} : Mark({t}, M)
      BY <2>7 DEF Refresh
    <3>2. UNCHANGED <<black, live, ver, redeemed>>
      BY <2>7 DEF Refresh
    <3>3. QED
      BY <3>1, <3>2, Zenon
  <2>8. CASE InsertRow(c)
    <3>1. req[c].tok \in Tokens
      BY <2>8, ReqTypes DEF InsertRow, At, WithTok
    <3>2. PICK M \in SUBSET {"raced", "swept"} : Mark({req[c].tok}, M)
      BY <2>8 DEF InsertRow
    <3>3. UNCHANGED <<black, live, ver, redeemed>>
      BY <2>8 DEF InsertRow
    <3>4. QED
      BY <3>1, <3>2, <3>3, Zenon
  <2>9. CASE FindNone(c) \/ Fails(c)
    BY <2>9, Zenon DEF FindNone, Fails
  <2>10. QED
    BY <1>1, <2>1, <2>2, <2>3, <2>4, <2>5, <2>6, <2>7, <2>8, <2>9, Zenon
    DEF Acts, Arrive, Proceed, QuietStep
<1>2. CASE Crash
  BY <1>2, Zenon DEF Crash
<1>3. ASSUME NEW t \in Tokens, ExpireToken(t) \/ ExpireRow(t) \/ LapseEntry(t) PROVE Goal
  <2>1. CASE ExpireRow(t)
    BY <2>1 DEF ExpireRow
  <2>2. QED
    BY <1>3, <2>1, Zenon DEF ExpireToken
<1>4. CASE UNCHANGED vars
  BY <1>4 DEF vars
<1>5. QED
  BY <1>1, <1>2, <1>3, <1>4, Zenon DEF Next, Acts

Grows(t) == ver'[t] = ver[t] /\ marks[t] \subseteq marks'[t]

\* An entry of t lapses or stays, or is lost with the process.
StaysListed(t) ==
  BlacklistSurvives /\ black[t] # "no" /\ "lapsed" \notin marks'[t] => black'[t] # "no"

\* An older user row written over a newer one marks t.
MovesOn(t) ==
  "restored" \notin marks'[t] => tokenVersion <= tokenVersion' /\ (deleted => deleted')

\* What revokes t revokes it.
Strikes(t) ==
  "revoked" \in marks'[t] \ marks[t] /\ "restored" \notin marks'[t] =>
    black'[t] # "no" \/ deleted' \/ tokenVersion < tokenVersion'

LEMMA TokenKept ==
  ASSUME Types, HeldInv, [Next]_vars, NEW t \in live, t \in live'
  PROVE  Grows(t) /\ StaysListed(t) /\ MovesOn(t) /\ Strikes(t)
<1> USE DEF Types
<1>1. t \in Tokens /\ tokenVersion \in Nat /\ marks[t] \in SUBSET Marks
  BY DEF TypeOK
<1>2. ASSUME NEW c \in Clients, Update(c)
      PROVE  Grows(t) /\ StaysListed(t) /\ MovesOn(t) /\ Strikes(t)
  <2>1. At(c, "updating") /\ UNCHANGED <<black, ver>>
    BY <1>2 DEF Update
  <2>2. /\ req[c].all \in BOOLEAN /\ req[c].stale \in BOOLEAN /\ req[c].held \in Nat
        /\ req[c].dirty \in SUBSET {"tokenVersion", "deletedAt"}
    BY <2>1, ReqTypes DEF At
  <2>3. PICK M \in SUBSET Marks :
          /\ M = (IF req[c].all THEN {"revoked"} ELSE {})
                 \cup (IF Undoes(c) THEN {"restored"} ELSE {})
          /\ Mark(live, M)
    BY <1>2 DEF Update, Marks
  <2>4. marks'[t] = marks[t] \cup M
    BY <1>1, <2>3, MarkType
  <2>5. CASE req[c].stale
    <3>1. CASE req[c].dirty = {} /\ ~req[c].all
      <4>1. tokenVersion' = tokenVersion /\ deleted' = deleted
        BY <1>2, <3>1 DEF Update, TypeOK
      <4>2. M = {}
        BY <2>3, <3>1 DEF Undoes
      <4>3. QED
        BY <1>1, <2>1, <2>4, <4>1, <4>2 DEF Grows, StaysListed, MovesOn, Strikes
    <3>2. CASE req[c].dirty # {} \/ req[c].all
      BY <2>1, <2>3, <2>4, <2>5, <3>2 DEF Grows, StaysListed, MovesOn, Strikes, Undoes
    <3>3. QED
      BY <3>1, <3>2
  <2>6. CASE ~req[c].stale
    <3>1. /\ ~deleted
          /\ req[c].held = IF req[c].all THEN tokenVersion + 1 ELSE tokenVersion
          /\ req[c].dirty = IF req[c].all THEN {"tokenVersion"} ELSE {}
      BY <2>1, <2>6 DEF HeldInv, HeldAt, At
    <3>2. tokenVersion' = IF req[c].all THEN tokenVersion + 1 ELSE tokenVersion
      BY <1>2, <2>2, <3>1 DEF Update
    <3>3. QED
      BY <1>1, <2>1, <2>3, <2>4, <3>1, <3>2 DEF Grows, StaysListed, MovesOn, Strikes
  <2>7. QED
    BY <2>2, <2>5, <2>6
<1>3. ASSUME NEW c \in Clients, SoftRemove(c)
      PROVE  Grows(t) /\ StaysListed(t) /\ MovesOn(t) /\ Strikes(t)
  <2>1. Mark(live, {"revoked"}) /\ {"revoked"} \in SUBSET Marks
    BY <1>3 DEF SoftRemove, Marks
  <2>2. marks[t] \subseteq marks'[t]
    BY <1>1, <2>1, MarkType
  <2>3. QED
    BY <1>1, <1>3, <2>2 DEF SoftRemove, Grows, StaysListed, MovesOn, Strikes
<1>4. CASE \A c \in Clients : ~Update(c) /\ ~SoftRemove(c)
  <2>1. UNCHANGED userVars
    BY <1>4, UserKept
  <2>2. MovesOn(t)
    BY <1>1, <2>1 DEF MovesOn, userVars
  <2>3. CASE UNCHANGED tokenVars
    BY <2>2, <2>3 DEF tokenVars, Grows, StaysListed, Strikes
  <2>4. ASSUME NEW u \in Tokens, NEW e \in Entry, Blacklist(u, e), UNCHANGED <<live, ver, redeemed>>
        PROVE  Grows(t) /\ StaysListed(t) /\ Strikes(t)
    BY <1>1, <2>4, BlacklistType DEF Grows, StaysListed, Strikes, Entry
  <2>5. ASSUME NEW u \in Tokens, NEW M \in SUBSET {"raced", "swept"}, Mark({u}, M),
               UNCHANGED <<black, live, ver, redeemed>>
        PROVE  Grows(t) /\ StaysListed(t) /\ Strikes(t)
    <3>1. M \in SUBSET Marks
      BY DEF Marks
    <3>2. marks'[t] = IF t \in {u} \cap live THEN marks[t] \cup M ELSE marks[t]
      BY <1>1, <2>5, <3>1, MarkType
    <3>3. "revoked" \notin M
      OBVIOUS
    <3>4. QED
      BY <1>1, <2>5, <3>2, <3>3 DEF Grows, StaysListed, Strikes
  <2>6. ASSUME NEW c \in Clients, NEW u \in Tokens, Mint(c, u)
        PROVE  Grows(t) /\ StaysListed(t) /\ Strikes(t)
    BY <1>1, <2>6 DEF Mint, TypeOK, Grows, StaysListed, Strikes
  <2>7. ASSUME NEW S, NEW B, Forget(S, B), BlacklistSurvives => B = {}
        PROVE  Grows(t) /\ StaysListed(t) /\ Strikes(t)
    BY <1>1, <2>7, ForgetType DEF Grows, StaysListed, Strikes
  <2>8. ASSUME NEW u \in Tokens, LapseEntry(u)
        PROVE  Grows(t) /\ StaysListed(t) /\ Strikes(t)
    <3>1. Mark({u}, {"lapsed"}) /\ {"lapsed"} \in SUBSET Marks
      BY <2>8 DEF LapseEntry, Marks
    <3>2. marks'[t] = IF t = u THEN marks[t] \cup {"lapsed"} ELSE marks[t]
      BY <1>1, <3>1, MarkType
    <3>3. QED
      BY <1>1, <2>8, <3>2 DEF LapseEntry, TypeOK, Grows, StaysListed, Strikes
  <2>9. QED
    BY <1>4, <2>2, <2>3, <2>4, <2>5, <2>6, <2>7, <2>8, TokenSteps, Zenon
<1>5. QED
  BY <1>2, <1>3, <1>4, Zenon

\* A token that becomes redeemable again is marked.
LEMMA Regained ==
  ASSUME BlacklistSurvives, Types, HeldInv, [Next]_vars, NEW t \in live, Redeemable(t)',
         marks'[t] \cap {"restored", "lapsed"} = {}
  PROVE  /\ Redeemable(t) /\ marks[t] \cap {"restored", "lapsed"} = {}
         /\ "revoked" \in marks'[t] => "revoked" \in marks[t] \/ ver[t] > tokenVersion
<1>1. t \in live' /\ black'[t] = "no" /\ ~deleted' /\ ~(ver'[t] < tokenVersion')
  BY DEF Redeemable, Found, Outdated
<1>2. Grows(t) /\ StaysListed(t) /\ MovesOn(t) /\ Strikes(t)
  BY <1>1, TokenKept
<1>3. ver[t] \in Nat /\ tokenVersion \in Nat /\ tokenVersion' \in Nat
  <2>1. Types'
    BY TypeStep
  <2>2. QED
    BY <2>1 DEF Types, TypeOK
<1>4. black[t] = "no" /\ ~deleted /\ ~(ver[t] < tokenVersion)
  BY <1>1, <1>2, <1>3 DEF Grows, StaysListed, MovesOn
<1>5. QED
  BY <1>1, <1>2, <1>3, <1>4 DEF Grows, Strikes, MovesOn, Redeemable, Found, Outdated

\* A token that was not there has just been signed.
LEMMA TokenNew ==
  ASSUME Types, [Next]_vars, NEW t, t \in live', t \notin live
  PROVE  \E c \in Clients : t \in Tokens /\ Mint(c, t)
<1> USE DEF Types
<1>1. CASE \E c \in Clients : Update(c) \/ SoftRemove(c)
  BY <1>1 DEF Update, SoftRemove
<1>2. CASE \E S, B : Forget(S, B)
  BY <1>2 DEF Forget
<1>3. CASE \E c \in Clients, u \in Tokens : Mint(c, u)
  BY <1>3 DEF Mint
<1>4. CASE UNCHANGED live
  BY <1>4
<1>5. QED
  BY <1>1, <1>2, <1>3, <1>4, TokenSteps, Zenon DEF tokenVars, LapseEntry

\* A token that a logout of all has invalidated stays so, unless a request writes the user
\* row it read before over the newer one: nothing else can undo a logout of all.
THEOREM OnlyStaleSavesUndoLogoutAll ==
  Spec => [][\A t \in live \cap live' :
               Outdated(t) /\ "restored" \notin marks'[t] => Outdated(t)']_vars
<1>1. ASSUME Types, HeldInv, [Next]_vars, NEW t \in live \cap live',
             Outdated(t), "restored" \notin marks'[t]
      PROVE  Outdated(t)'
  <2>1. Grows(t) /\ MovesOn(t)
    BY <1>1, TokenKept
  <2>2. ver[t] \in Nat /\ tokenVersion \in Nat /\ tokenVersion' \in Nat
    <3>1. Types' /\ t \in Tokens
      BY <1>1, TypeStep DEF Types, TypeOK
    <3>2. QED
      BY <1>1, <3>1 DEF Types, TypeOK
  <2>3. QED
    BY <1>1, <2>1, <2>2 DEF Grows, MovesOn, Outdated
<1>2. Types /\ HeldInv /\ [Next]_vars =>
        [\A t \in live \cap live' :
           Outdated(t) /\ "restored" \notin marks'[t] => Outdated(t)']_vars
  BY <1>1
<1>3. QED
  BY <1>2, HeldInvariant, PTL DEF Spec

--------------------------------------------------------------------------------
(* Revoked tokens *)

\* Tokens are of no newer version than the user, unless their user row was overwritten.
VersionInv == \A t \in live : "restored" \notin marks[t] => ver[t] <= tokenVersion

RevokedInv == VersionInv /\ RevokedStaysRevoked

LEMMA RevokedStep ==
  ASSUME BlacklistSurvives, Types, HeldInv, RevokedInv, [Next]_vars
  PROVE  RevokedInv'
<1>1. ASSUME NEW t \in live', t \notin live
      PROVE  /\ "restored" \notin marks'[t] => ver'[t] <= tokenVersion'
             /\ "revoked" \notin marks'[t]
  <2>1. PICK c \in Clients : t \in Tokens /\ Mint(c, t)
    BY <1>1, TokenNew
  <2>2. req[c].held \in Nat /\ tokenVersion \in Nat /\ tokenVersion' = tokenVersion
    BY <2>1, ReqTypes DEF Mint, At, Types, TypeOK, userVars
  <2>3. ver'[t] = req[c].held
    BY <2>1 DEF Mint, Types, TypeOK
  <2>4. marks'[t] = IF req[c].held > tokenVersion THEN {"restored"} ELSE {}
    BY <2>1 DEF Mint, Types, TypeOK
  <2>5. QED
    BY <2>2, <2>3, <2>4
<1>2. ASSUME NEW t \in live', t \in live, "restored" \notin marks'[t]
      PROVE  ver'[t] <= tokenVersion'
  <2>1. Grows(t) /\ MovesOn(t)
    BY <1>2, TokenKept
  <2>2. ver[t] \in Nat /\ tokenVersion \in Nat /\ tokenVersion' \in Nat
    <3>1. Types'
      BY TypeStep
    <3>2. QED
      BY <3>1 DEF Types, TypeOK
  <2>3. QED
    BY <1>2, <2>1, <2>2 DEF Grows, MovesOn, RevokedInv, VersionInv
<1>3. ASSUME NEW t \in live', t \in live, "revoked" \in marks'[t],
             marks'[t] \cap {"restored", "lapsed"} = {}, Redeemable(t)'
      PROVE  FALSE
  <2>1. /\ Redeemable(t) /\ marks[t] \cap {"restored", "lapsed"} = {}
        /\ "revoked" \in marks[t] \/ ver[t] > tokenVersion
    BY <1>3, Regained
  <2>2. ver[t] \in Nat /\ tokenVersion \in Nat
    <3>1. t \in Tokens
      BY <1>3 DEF Types, TypeOK
    <3>2. QED
      BY <3>1 DEF Types, TypeOK
  <2>3. QED
    BY <1>3, <2>1, <2>2 DEF RevokedInv, VersionInv, RevokedStaysRevoked
<1>4. VersionInv'
  BY <1>1, <1>2 DEF VersionInv
<1>5. RevokedStaysRevoked'
  BY <1>1, <1>3 DEF RevokedStaysRevoked
<1>6. QED
  BY <1>4, <1>5 DEF RevokedInv

\* What was revoked stays revoked: a refresh token that was rotated, revoked, trimmed by
\* the session limit or logged out with all is never good again, for any interleaving of
\* the requests, if the blacklist survives a restart, unless a request wrote an older user
\* row over the logout or the entry lapsed.
THEOREM RevokedTokensStayRevoked ==
  ASSUME BlacklistSurvives PROVE Spec => []RevokedStaysRevoked
<1> DEFINE All == Types /\ HeldInv /\ RevokedInv
<1>1. Init => All
  BY InitTypes DEF Init, RevokedInv, VersionInv, RevokedStaysRevoked
<1>2. All /\ [Next]_vars => All'
  BY TypeStep, HeldStep, RevokedStep
<1>3. All => RevokedStaysRevoked
  BY DEF RevokedInv
<1>4. QED
  BY <1>1, <1>2, <1>3, PTL DEF Spec

--------------------------------------------------------------------------------
(* Where a request that acts comes from *)

SameTok(c) == req[c].at \in WithTok /\ req'[c].tok = req[c].tok

Origin(c) ==
  /\ At(c, "looking")' => \E t \in Tokens : Logout(c, t) /\ req'[c].tok = t
  /\ At(c, "blacklisting")' =>
       (Look(c) /\ SameTok(c)) \/ \E t \in Tokens : Revoke(c, t) /\ req'[c].tok = t
  /\ At(c, "unlisting")' => BlacklistSession(c) /\ SameTok(c)
  /\ At(c, "reading")' => \E t \in Tokens : Refresh(c, t) /\ req'[c].tok = t
  /\ At(c, "rotating")' => CheckVersion(c) /\ SameTok(c)
  /\ At(c, "minting")' =>
       (Login(c) /\ req'[c].old = {}) \/ (Rotate(c) /\ req'[c].old = {req[c].tok})
  /\ At(c, "inserting")' => \E t \in Tokens : Mint(c, t) /\ req'[c].tok = t
  /\ At(c, "counting")' => InsertRow(c) /\ SameTok(c)
  /\ At(c, "finding")' => Count(c) /\ SameTok(c) /\ req'[c].excess = Excess
  /\ At(c, "trimming")' =>
       /\ SameTok(c)
       /\ \/ /\ FindOldest(c)
             /\ req'[c].victims = Oldest(req[c].excess) /\ req'[c].left = Oldest(req[c].excess)
          \/ /\ At(c, "trimming") /\ req'[c].victims = req[c].victims
             /\ \E u \in req[c].left :
                  Blacklist(u, SessionTtl) /\ req'[c].left = req[c].left \ {u}
  /\ At(c, "deleting")' =>
       /\ SameTok(c) /\ At(c, "trimming") /\ req'[c].victims = req[c].victims
       /\ \E u \in req[c].left : Blacklist(u, SessionTtl) /\ req[c].left = {u}
  /\ At(c, "sweeping")' => Update(c) \/ SoftRemove(c)

LEMMA Origins ==
  ASSUME Types, NEW c \in Clients, Acts(c)
  PROVE  Origin(c)
<1> USE DEF Types
<1>1. ASSUME NEW r, Become(c, r), r.at \in {"idle", "comparing", "updating", "removing"}
      PROVE  Origin(c)
  <2>1. req'[c] = r
    BY <1>1, BecomeOnly
  <2>2. QED
    BY <1>1, <2>1 DEF Origin, At
<1>2. CASE UpdateProfile(c) \/ LogoutAll(c) \/ DeleteAccount(c) \/ Compare(c)
  BY <1>1, <1>2 DEF UpdateProfile, LogoutAll, DeleteAccount, Compare
<1>3. CASE Sweep(c) \/ Unlist(c) \/ DeleteOldest(c) \/ FindNone(c) \/ Fails(c)
  BY <1>1, <1>3, IdleType DEF Sweep, Unlist, DeleteOldest, FindNone, Fails, End
<1>4. CASE Update(c) \/ SoftRemove(c)
  <2>1. PICK r \in Request : Overtake(c, r) /\ r.at \in {"idle", "sweeping"}
    <3>1. /\ Idle \in Request /\ [at |-> "sweeping"] \in Request
          /\ Idle.at = "idle" /\ [at |-> "sweeping"].at = "sweeping"
      BY DEF Idle, Request
    <3>2. QED
      BY <1>4, <3>1 DEF Update, SoftRemove
  <2>2. req'[c] = r
    BY <2>1, OvertakeEffect
  <2>3. QED
    BY <1>4, <2>1, <2>2 DEF Origin, At
<1>5. ASSUME NEW t \in Tokens, Logout(c, t) PROVE Origin(c)
  <2>1. PICK r : r = [at |-> "looking", tok |-> t]
    OBVIOUS
  <2>2. req'[c] = r
    BY <1>5, <2>1, BecomeOnly DEF Logout
  <2>3. QED
    BY <1>5, <2>1, <2>2 DEF Origin, At
<1>6. ASSUME NEW t \in Tokens, Revoke(c, t) PROVE Origin(c)
  <2>1. PICK r : r = [at |-> "blacklisting", tok |-> t, ttl |-> SessionTtl]
    OBVIOUS
  <2>2. req'[c] = r
    BY <1>6, <2>1, BecomeOnly DEF Revoke
  <2>3. QED
    BY <1>6, <2>1, <2>2 DEF Origin, At
<1>7. ASSUME NEW t \in Tokens, Refresh(c, t) PROVE Origin(c)
  <2>1. PICK r : r = [at |-> "reading", tok |-> t]
    OBVIOUS
  <2>2. req'[c] = r
    BY <1>7, <2>1, BecomeOnly DEF Refresh
  <2>3. QED
    BY <1>7, <2>1, <2>2 DEF Origin, At
<1>8. ASSUME NEW t \in Tokens, Mint(c, t) PROVE Origin(c)
  <2>1. PICK r : r = [at |-> "inserting", tok |-> t]
    OBVIOUS
  <2>2. req'[c] = r
    BY <1>8, <2>1, BecomeOnly DEF Mint
  <2>3. QED
    BY <1>8, <2>1, <2>2 DEF Origin, At
<1>9. CASE Look(c)
  <2>1. PICK r : r = [at |-> "blacklisting", tok |-> req[c].tok,
                      ttl |-> IF req[c].tok \in rows THEN SessionTtl ELSE "short"]
    OBVIOUS
  <2>2. req'[c] = r /\ At(c, "looking")
    BY <1>9, <2>1, BecomeOnly DEF Look
  <2>3. QED
    BY <1>9, <2>1, <2>2 DEF Origin, At, SameTok, WithTok
<1>10. CASE BlacklistSession(c)
  <2>1. PICK r : r = [at |-> "unlisting", tok |-> req[c].tok]
    OBVIOUS
  <2>2. req'[c] = r /\ At(c, "blacklisting")
    BY <1>10, <2>1, BecomeOnly DEF BlacklistSession
  <2>3. QED
    BY <1>10, <2>1, <2>2 DEF Origin, At, SameTok, WithTok
<1>11. CASE Login(c)
  <2>1. PICK r : r = [at |-> "minting", old |-> {}, held |-> tokenVersion]
    OBVIOUS
  <2>2. req'[c] = r
    BY <1>11, <2>1, BecomeOnly DEF Login
  <2>3. QED
    BY <1>11, <2>1, <2>2 DEF Origin, At
<1>12. CASE CheckVersion(c)
  <2>1. PICK r : r = [at |-> "rotating", tok |-> req[c].tok, held |-> tokenVersion]
    OBVIOUS
  <2>2. At(c, "reading") /\ (Become(c, r) \/ End(c))
    BY <1>12, <2>1, Zenon DEF CheckVersion
  <2>3. CASE Become(c, r)
    <3>1. req'[c] = r
      BY <2>3, BecomeOnly
    <3>2. QED
      BY <1>12, <2>1, <2>2, <3>1 DEF Origin, At, SameTok, WithTok
  <2>4. QED
    BY <1>1, <2>2, <2>3, IdleType DEF End
<1>13. CASE Rotate(c)
  <2>1. PICK r : r = [at |-> "minting", old |-> {req[c].tok}, held |-> req[c].held]
    OBVIOUS
  <2>2. req'[c] = r
    BY <1>13, <2>1, BecomeOnly DEF Rotate
  <2>3. QED
    BY <1>13, <2>1, <2>2 DEF Origin, At
<1>14. CASE InsertRow(c)
  <2>1. PICK r : r = [at |-> "counting", tok |-> req[c].tok]
    OBVIOUS
  <2>2. At(c, "inserting") /\ (Become(c, Idle) \/ Become(c, r))
    BY <1>14, <2>1, Zenon DEF InsertRow
  <2>3. CASE Become(c, r)
    <3>1. req'[c] = r
      BY <2>3, BecomeOnly
    <3>2. QED
      BY <1>14, <2>1, <2>2, <3>1 DEF Origin, At, SameTok, WithTok
  <2>4. QED
    BY <1>1, <2>2, <2>3, IdleType
<1>15. CASE Count(c)
  <2>1. PICK r : r = [at |-> "finding", tok |-> req[c].tok, excess |-> Excess]
    OBVIOUS
  <2>2. At(c, "counting") /\ (Become(c, Idle) \/ Become(c, r))
    BY <1>15, <2>1, Zenon DEF Count
  <2>3. CASE Become(c, r)
    <3>1. req'[c] = r
      BY <2>3, BecomeOnly
    <3>2. QED
      BY <1>15, <2>1, <2>2, <3>1 DEF Origin, At, SameTok, WithTok
  <2>4. QED
    BY <1>1, <2>2, <2>3, IdleType
<1>16. CASE FindOldest(c)
  <2>1. PICK r : r = [at |-> "trimming", tok |-> req[c].tok,
                      victims |-> Oldest(req[c].excess), left |-> Oldest(req[c].excess)]
    OBVIOUS
  <2>2. req'[c] = r /\ At(c, "finding")
    BY <1>16, <2>1, BecomeOnly DEF FindOldest
  <2>3. QED
    BY <1>16, <2>1, <2>2 DEF Origin, At, SameTok, WithTok
<1>17. CASE Trim(c)
  <2>1. At(c, "trimming")
    BY <1>17 DEF Trim
  <2>2. PICK u \in req[c].left :
          /\ Blacklist(u, SessionTtl)
          /\ Become(c, IF req[c].left = {u}
                       THEN [at |-> "deleting", tok |-> req[c].tok, victims |-> req[c].victims]
                       ELSE LeftOut(c, u))
    BY <1>17 DEF Trim, LeftOut
  <2>3. CASE req[c].left = {u}
    <3>1. PICK r : r = [at |-> "deleting", tok |-> req[c].tok, victims |-> req[c].victims]
      OBVIOUS
    <3>2. req'[c] = r
      BY <2>2, <2>3, <3>1, BecomeOnly
    <3>3. QED
      BY <2>1, <2>2, <2>3, <3>1, <3>2 DEF Origin, At, SameTok, WithTok
  <2>4. CASE req[c].left # {u}
    <3>1. PICK r : r = LeftOut(c, u)
      OBVIOUS
    <3>2. req'[c] = r
      BY <2>2, <2>4, <3>1, BecomeOnly
    <3>3. /\ r \in Request /\ r.at = "trimming" /\ r.tok = req[c].tok
          /\ r.victims = req[c].victims /\ r.left = req[c].left \ {u}
      BY <2>1, <3>1, LeftType
    <3>4. QED
      BY <2>1, <2>2, <3>2, <3>3 DEF Origin, At, SameTok, WithTok
  <2>5. QED
    BY <2>3, <2>4
<1>18. QED
  BY <1>2, <1>3, <1>4, <1>5, <1>6, <1>7, <1>8, <1>9, <1>10, <1>11, <1>12, <1>13, <1>14, <1>15,
     <1>16, <1>17, Zenon DEF Acts, Arrive, Proceed

\* A request that acts for none of these reasons is at none of these steps.
LEMMA Waiting ==
  ASSUME Types, [Next]_vars, NEW c \in Clients, ~Acts(c),
         req'[c].at \in WithTok \cup {"minting", "sweeping"}
  PROVE  req'[c] = req[c]
BY OthersWait, IdleType DEF Overtaken, WithTok


--------------------------------------------------------------------------------
(* Tokens that requests remember *)

Has(c, t) ==
  \/ req[c].at \in WithTok /\ req[c].tok = t
  \/ At(c, "minting") /\ t \in req[c].old
  \/ req[c].at \in {"trimming", "deleting"} /\ t \in req[c].victims

LEMMA HasKnows ==
  ASSUME TypeOK, NEW c \in Clients, NEW t, Has(c, t)
  PROVE  Knows(c, t)
<1>1. req[c] \in Request
  BY DEF TypeOK
<1>2. CASE req[c].at \in WithTok /\ req[c].tok = t
  <2>1. "tok" \in DOMAIN req[c]
    BY <1>1, <1>2 DEF Request, WithTok
  <2>2. QED
    BY <1>2, <2>1 DEF Knows
<1>3. CASE At(c, "minting") /\ t \in req[c].old
  <2>1. "old" \in DOMAIN req[c]
    BY <1>1, <1>3 DEF Request, At
  <2>2. QED
    BY <1>3, <2>1 DEF Knows
<1>4. CASE req[c].at \in {"trimming", "deleting"} /\ t \in req[c].victims
  <2>1. "victims" \in DOMAIN req[c]
    BY <1>1, <1>4 DEF Request
  <2>2. QED
    BY <1>4, <2>1 DEF Knows
<1>5. QED
  BY <1>2, <1>3, <1>4 DEF Has

\* Nobody remembers a token that has just been signed, but the request that signed it.
LEMMA NewUnknown ==
  ASSUME Types, [Next]_vars, NEW t, t \in live', t \notin live, NEW c \in Clients
  PROVE  ~Has(c, t)
<1>1. PICK d \in Clients : Mint(d, t)
  BY TokenNew
<1>2. ~Knows(c, t)
  BY <1>1 DEF Mint
<1>3. QED
  BY <1>2, HasKnows DEF Types

\* Request c has blacklisted t and goes on to act on it.
Condemned(c, t) ==
  \/ At(c, "minting") /\ t \in req[c].old
  \/ At(c, "unlisting") /\ t = req[c].tok
  \/ At(c, "trimming") /\ t \in req[c].victims \ req[c].left
  \/ At(c, "deleting") /\ t \in req[c].victims

\* A token that a request has condemned is on the blacklist until the entry lapses.
BlackInv ==
  \A c \in Clients, t \in live :
    Condemned(c, t) /\ "lapsed" \notin marks[t] => black[t] # "no"

LEMMA CondemnedNow ==
  ASSUME Types, NEW c \in Clients, Acts(c), NEW t \in live, Condemned(c, t)'
  PROVE  Condemned(c, t) \/ black'[t] # "no"
<1> USE DEF Types
<1>1. Origin(c) /\ t \in Tokens
  BY Origins DEF TypeOK
<1>2. ASSUME NEW e \in Entry, Blacklist(t, e) PROVE black'[t] # "no"
  BY <1>1, <1>2, BlacklistType DEF Entry
<1>3. CASE At(c, "minting")'
  <2>1. Rotate(c) /\ t = req[c].tok /\ "long" \in Entry
    BY <1>1, <1>3 DEF Origin, Condemned, At, Entry
  <2>2. QED
    BY <1>2, <2>1 DEF Rotate
<1>4. CASE At(c, "unlisting")'
  <2>1. BlacklistSession(c) /\ t = req[c].tok
    BY <1>1, <1>4 DEF Origin, Condemned, SameTok, At
  <2>2. req[c].ttl \in Entry
    BY <2>1, ReqTypes DEF BlacklistSession
  <2>3. QED
    BY <1>2, <2>1, <2>2 DEF BlacklistSession
<1>5. CASE At(c, "trimming")' \/ At(c, "deleting")'
  <2>1. /\ At(c, "trimming") /\ t \in req[c].victims
        /\ \E u \in req[c].left : Blacklist(u, SessionTtl) /\ (t = u \/ t \notin req[c].left)
    BY <1>1, <1>5 DEF Origin, Condemned, At
  <2>2. QED
    BY <1>2, <2>1, SessionTtlType DEF Condemned
<1>6. QED
  BY <1>3, <1>4, <1>5 DEF Condemned, At

LEMMA BlackStep ==
  ASSUME BlacklistSurvives, Types, HeldInv, BlackInv, [Next]_vars
  PROVE  BlackInv'
<1> SUFFICES ASSUME NEW c \in Clients, NEW t \in live', Condemned(c, t)', "lapsed" \notin marks'[t]
             PROVE  black'[t] # "no"
  BY DEF BlackInv
<1>1. CASE ~Acts(c) /\ ~Condemned(c, t)
  BY <1>1, OthersWait, IdleType DEF Overtaken, Condemned, At
<1>2. CASE t \in live /\ Condemned(c, t)
  <2>1. Grows(t) /\ StaysListed(t)
    BY <1>2, TokenKept
  <2>2. QED
    BY <1>2, <2>1 DEF Grows, StaysListed, BlackInv
<1>3. CASE t \in live /\ Acts(c)
  BY <1>2, <1>3, CondemnedNow
<1>4. CASE t \notin live
  <2>1. PICK d \in Clients : t \in Tokens /\ Mint(d, t)
    BY <1>4, TokenNew
  <2>2. ~Condemned(c, t)
    BY <1>4, NewUnknown DEF Condemned, Has, At, WithTok
  <2>3. /\ req'[d].at = "inserting"
        /\ \A e \in Clients \ {d} : req'[e] = req[e]
    BY <2>1, BecomeOnly DEF Mint, Types
  <2>4. QED
    BY <2>2, <2>3 DEF Condemned, At
<1>5. QED
  BY <1>1, <1>2, <1>3, <1>4

--------------------------------------------------------------------------------
(* A refresh token is exchanged once *)

\* Request c is exchanging t.
Presents(c, t) ==
  \/ req[c].at \in {"reading", "rotating"} /\ req[c].tok = t
  \/ At(c, "minting") /\ t \in req[c].old

\* A token that is not live has not been exchanged: it may be signed again.
GoneInv == \A t \in Tokens \ live : redeemed[t] = 0

\* One request at most is exchanging t, it is the first, and after it t is blacklisted.
OnceAt(t) ==
  /\ \A c, d \in Clients : Presents(c, t) /\ Presents(d, t) => c = d
  /\ \A c \in Clients : Presents(c, t) => redeemed[t] = 0
  /\ redeemed[t] <= 1
  /\ redeemed[t] > 0 => black[t] # "no"

OnceInv == \A t \in live : marks[t] \cap {"raced", "lapsed"} = {} => OnceAt(t)

\* Who is exchanging t was before, or is refreshing with it now.
LEMMA PresentsNow ==
  ASSUME Types, [Next]_vars, NEW c \in Clients, NEW t, Presents(c, t)'
  PROVE  Presents(c, t) \/ (t \in Tokens /\ Refresh(c, t))
<1>1. CASE ~Acts(c)
  <2>1. req'[c] = req[c]
    BY <1>1, Waiting DEF Presents, WithTok, At
  <2>2. QED
    BY <2>1 DEF Presents, At
<1>2. CASE Acts(c)
  <2>1. Origin(c)
    BY <1>2, Origins
  <2>2. CASE req'[c].at = "reading"
    BY <2>1, <2>2 DEF Origin, Presents, At
  <2>3. CASE req'[c].at = "rotating"
    BY <2>1, <2>3 DEF Origin, Presents, SameTok, CheckVersion, At
  <2>4. CASE req'[c].at = "minting"
    BY <2>1, <2>4 DEF Origin, Presents, Rotate, At
  <2>5. QED
    BY <2>2, <2>3, <2>4 DEF Presents, At
<1>3. QED
  BY <1>1, <1>2

\* Only a request that signs new tokens in exchange for t counts as one.
LEMMA RedeemedNow ==
  ASSUME Types, [Next]_vars, NEW t \in live, t \in live',
         ~\E c \in Clients, u \in Tokens : Mint(c, u) /\ t \in req[c].old
  PROVE  redeemed'[t] = redeemed[t]
<1>1. t \in Tokens
  BY DEF Types, TypeOK
<1>2. CASE \E S, B : Forget(S, B)
  BY <1>1, <1>2, ForgetType DEF Types
<1>3. CASE \E c \in Clients, u \in Tokens : Mint(c, u)
  BY <1>1, <1>3 DEF Mint
<1>4. CASE \E c \in Clients : Update(c) \/ SoftRemove(c)
  BY <1>4 DEF Update, SoftRemove
<1>5. CASE UNCHANGED redeemed
  BY <1>5
<1>6. QED
  BY <1>2, <1>3, <1>4, <1>5, TokenSteps, Zenon DEF tokenVars, LapseEntry

LEMMA GoneStep ==
  ASSUME Types, GoneInv, [Next]_vars
  PROVE  GoneInv'
<1> SUFFICES ASSUME NEW t \in Tokens, t \notin live' PROVE redeemed'[t] = 0
  BY DEF GoneInv
<1>1. CASE t \notin live /\ \E S, B : Forget(S, B)
  BY <1>1, ForgetType DEF Types, GoneInv
<1>2. CASE t \in live /\ \E S, B : Forget(S, B)
  BY <1>2, ForgetType DEF Types
<1>3. CASE \E c \in Clients, u \in Tokens : Mint(c, u)
  <2>1. PICK c \in Clients, u \in Tokens : Mint(c, u)
    BY <1>3
  <2>2. t \notin live
    BY <2>1 DEF Mint
  <2>3. QED
    BY <2>1, <2>2 DEF Mint, GoneInv
<1>4. CASE \E c \in Clients : Update(c) \/ SoftRemove(c)
  BY <1>4 DEF Update, SoftRemove, GoneInv
<1>5. CASE UNCHANGED <<live, redeemed>>
  BY <1>5 DEF GoneInv
<1>6. QED
  BY <1>1, <1>2, <1>3, <1>4, <1>5, TokenSteps, Zenon DEF tokenVars, LapseEntry

LEMMA OnceStep ==
  ASSUME BlacklistSurvives, Types, HeldInv, BlackInv, GoneInv, OnceInv, [Next]_vars
  PROVE  OnceInv'
<1> SUFFICES ASSUME NEW t \in live', marks'[t] \cap {"raced", "lapsed"} = {}
             PROVE  OnceAt(t)'
  BY DEF OnceInv
<1>1. t \in Tokens /\ redeemed'[t] \in 0..2
  BY TypeStep DEF Types, TypeOK
<1>2. CASE t \notin live
  <2>1. PICK d \in Clients : Mint(d, t)
    BY <1>2, TokenNew
  <2>2. redeemed'[t] = 0
    BY <1>1, <1>2, <2>1 DEF Mint, GoneInv
  <2>3. \A c \in Clients : ~Presents(c, t)'
    <3>1. ASSUME NEW c \in Clients, Presents(c, t)' PROVE FALSE
      <4>1. Presents(c, t) \/ Refresh(c, t)
        BY <3>1, PresentsNow
      <4>2. ~Presents(c, t)
        BY <1>2, NewUnknown DEF Presents, Has, WithTok
      <4>3. QED
        BY <1>2, <4>1, <4>2 DEF Refresh
    <3>2. QED
      BY <3>1
  <2>4. QED
    BY <2>2, <2>3 DEF OnceAt
<1>3. CASE t \in live
  <2>1. Grows(t) /\ StaysListed(t) /\ marks[t] \cap {"raced", "lapsed"} = {}
    <3>1. Grows(t) /\ StaysListed(t)
      BY <1>3, TokenKept
    <3>2. QED
      BY <3>1 DEF Grows
  <2>2. OnceAt(t) /\ redeemed[t] \in 0..2
    BY <1>1, <1>3, <2>1 DEF OnceInv, Types, TypeOK
  <2>3. black[t] # "no" => black'[t] # "no"
    BY <2>1 DEF StaysListed
  <2>4. CASE \E c \in Clients : Refresh(c, t)
    <3>1. PICK c \in Clients : Refresh(c, t)
      BY <2>4
    <3>2. redeemed[t] = 0 /\ redeemed'[t] = 0
      BY <2>2, <3>1 DEF Refresh, OnceAt
    <3>3. \A d \in Clients : ~(At(d, "minting") /\ t \in req[d].old)
      BY <1>3, <2>1, <3>1 DEF BlackInv, Condemned, Refresh
    <3>4. Refreshing(t) = {}
      <4>1. PICK M \in SUBSET Marks :
              M = (IF Refreshing(t) # {} THEN {"raced"} ELSE {}) /\ Mark({t}, M)
        BY <3>1 DEF Refresh, Marks
      <4>2. marks'[t] = marks[t] \cup M
        BY <1>1, <1>3, <4>1, MarkType DEF Types
      <4>3. QED
        BY <4>1, <4>2
    <3>5. \A d \in Clients : ~Presents(d, t)
      BY <3>3, <3>4 DEF Presents, Refreshing
    <3>6. \A d \in Clients : Presents(d, t)' => d = c
      <4>1. ASSUME NEW d \in Clients, d # c PROVE req'[d] = req[d]
        BY <3>1, <4>1, BecomeOnly DEF Refresh, Types
      <4>2. QED
        BY <3>5, <4>1 DEF Presents, At
    <3>7. QED
      BY <3>2, <3>6 DEF OnceAt
  <2>5. CASE \E c \in Clients, u \in Tokens : Mint(c, u) /\ t \in req[c].old
    <3>1. PICK c \in Clients, u \in Tokens : Mint(c, u) /\ t \in req[c].old
      BY <2>5
    <3>2. Presents(c, t) /\ Condemned(c, t)
      BY <3>1 DEF Mint, Presents, Condemned
    <3>3. redeemed[t] = 0 /\ redeemed'[t] = 1 /\ black[t] # "no"
      BY <1>1, <1>3, <2>1, <2>2, <3>1, <3>2 DEF OnceAt, Mint, BlackInv
    <3>4. \A d \in Clients : ~Presents(d, t)'
      <4>1. req'[c].at = "inserting" /\ \A d \in Clients \ {c} : req'[d] = req[d]
        BY <3>1, BecomeOnly DEF Mint, Types
      <4>2. \A d \in Clients \ {c} : ~Presents(d, t)
        BY <2>2, <3>2 DEF OnceAt
      <4>3. QED
        BY <4>1, <4>2 DEF Presents, At
    <3>5. QED
      BY <2>3, <3>3, <3>4 DEF OnceAt
  <2>6. CASE /\ ~\E c \in Clients : Refresh(c, t)
             /\ ~\E c \in Clients, u \in Tokens : Mint(c, u) /\ t \in req[c].old
    <3>1. redeemed'[t] = redeemed[t]
      BY <1>3, <2>6, RedeemedNow
    <3>2. \A c \in Clients : Presents(c, t)' => Presents(c, t)
      BY <2>6, PresentsNow
    <3>3. QED
      BY <2>2, <2>3, <3>1, <3>2 DEF OnceAt
  <2>7. QED
    BY <2>4, <2>5, <2>6
<1>4. QED
  BY <1>2, <1>3

\* A refresh token is exchanged for new tokens at most once, for any number of requests
\* that hold it, if the blacklist survives a restart, unless two refreshes with it were
\* in progress together or its entry lapsed.
THEOREM TokensAreRedeemedOnce ==
  ASSUME BlacklistSurvives PROVE Spec => []RedeemedOnce
<1> DEFINE All == Types /\ HeldInv /\ BlackInv /\ GoneInv /\ OnceInv
<1>1. Init => All
  <2>1. Init => BlackInv /\ GoneInv /\ OnceInv
    BY DEF Init, BlackInv, GoneInv, OnceInv
  <2>2. QED
    BY <2>1, InitTypes
<1>2. All /\ [Next]_vars => All'
  BY TypeStep, HeldStep, BlackStep, GoneStep, OnceStep
<1>3. All => RedeemedOnce
  BY DEF OnceInv, OnceAt, RedeemedOnce
<1>4. QED
  BY <1>1, <1>2, <1>3, PTL DEF Spec

--------------------------------------------------------------------------------
(* The list of sessions *)

\* The row of t is about to be inserted.
Inserting(t) == \E c \in Clients : At(c, "inserting") /\ req[c].tok = t

\* A request that inserts a row does it or fails.
LEMMA InsertingActs ==
  ASSUME NEW c \in Clients, At(c, "inserting"), Acts(c)
  PROVE  InsertRow(c) \/ Fails(c)
<1>1. ~Arrive(c)
  BY DEF Arrive, UpdateProfile, LogoutAll, DeleteAccount, Login, Revoke, Logout, Refresh, At
<1>2. Proceed(c) => InsertRow(c) \/ Fails(c)
  BY DEF Proceed, Compare, Update, Sweep, SoftRemove, Look, BlacklistSession, Unlist,
    CheckVersion, Rotate, Mint, Count, FindOldest, FindNone, Trim, DeleteOldest, At
<1>3. QED
  BY <1>1, <1>2 DEF Acts

LEMMA InsertingKept ==
  ASSUME Types, [Next]_vars, NEW t \in live', Inserting(t)
  PROVE  Inserting(t)' \/ \E c \in Clients : InsertRow(c) /\ req[c].tok = t
<1>1. PICK c \in Clients : At(c, "inserting") /\ req[c].tok = t
  BY DEF Inserting
<1>2. CASE Acts(c)
  <2>1. CASE Fails(c)
    <3>1. t \in Lost({c})
      BY <1>1 DEF Lost, Issuing, At
    <3>2. QED
      BY <2>1, <3>1 DEF Fails, Forget
  <2>2. QED
    BY <1>1, <1>2, <2>1, InsertingActs
<1>3. CASE ~Acts(c)
  <2>1. CASE Crash
    <3>1. t \in Lost(Clients)
      BY <1>1 DEF Lost, Issuing, At
    <3>2. QED
      BY <2>1, <3>1 DEF Crash, Forget
  <2>2. CASE req'[c] = req[c]
    BY <1>1, <2>2 DEF Inserting, At
  <2>3. QED
    BY <1>1, <1>3, <2>1, <2>2, OthersWait DEF Overtaken, At
<1>4. QED
  BY <1>2, <1>3

\* A signed token without a row is about to get one.
LEMMA NewInserting ==
  ASSUME Types, [Next]_vars, NEW t \in live', t \notin live
  PROVE  Inserting(t)'
<1>1. PICK c \in Clients : Mint(c, t)
  BY TokenNew
<1>2. PICK r : r = [at |-> "inserting", tok |-> t]
  OBVIOUS
<1>3. req'[c] = r
  BY <1>1, <1>2, BecomeOnly DEF Mint, Types
<1>4. QED
  BY <1>2, <1>3 DEF Inserting, At

\* Who takes rows off the list.
LEMMA RowsLost ==
  ASSUME Types, [Next]_vars, NEW t \in rows, t \notin rows'
  PROVE  \/ \E c \in Clients :
              \/ Sweep(c)
              \/ Unlist(c) /\ t = req[c].tok
              \/ DeleteOldest(c) /\ t \in req[c].victims
         \/ ExpireRow(t)
<1>1. ASSUME NEW c \in Clients, Acts(c)
      PROVE  Sweep(c) \/ (Unlist(c) /\ t = req[c].tok) \/ (DeleteOldest(c) /\ t \in req[c].victims)
  <2>1. CASE QuietStep(c)
    BY <2>1, QuietEffect DEF rowVars
  <2>2. CASE \/ Update(c) \/ SoftRemove(c) \/ BlacklistSession(c) \/ Rotate(c) \/ Trim(c)
             \/ FindNone(c) \/ Fails(c) \/ \E u \in Tokens : Refresh(c, u) \/ Mint(c, u)
    BY <2>2 DEF Update, SoftRemove, BlacklistSession, Rotate, Trim, FindNone, Fails, Refresh,
      Mint, rowVars
  <2>3. CASE InsertRow(c) \/ Unlist(c) \/ DeleteOldest(c)
    BY <2>3 DEF InsertRow, Unlist, DeleteOldest
  <2>4. QED
    BY <1>1, <2>1, <2>2, <2>3, Zenon DEF Acts, Arrive, Proceed, QuietStep
<1>2. CASE Crash \/ UNCHANGED vars
  BY <1>2 DEF Crash, vars, rowVars
<1>3. ASSUME NEW u \in Tokens, ExpireToken(u) \/ ExpireRow(u) \/ LapseEntry(u)
      PROVE  ExpireRow(t)
  BY <1>3 DEF ExpireToken, ExpireRow, LapseEntry, rowVars
<1>4. QED
  BY <1>1, <1>2, <1>3 DEF Next, Acts

\* While a logout of all is about to delete the rows, every token it did not revoke was
\* signed after it.
SweepInv ==
  (\E d \in Clients : At(d, "sweeping")) =>
    \A t \in live : marks[t] \cap {"revoked", "swept"} # {} \/ Inserting(t)

VisibleInv ==
  \A t \in live :
    Redeemable(t) /\ marks[t] \cap {"restored", "lapsed", "swept"} = {} =>
      t \in rows \/ Inserting(t)

LEMMA SweepStep ==
  ASSUME Types, HeldInv, SweepInv, [Next]_vars
  PROVE  SweepInv'
<1> USE DEF Types
<1> SUFFICES ASSUME NEW d \in Clients, At(d, "sweeping")', NEW t \in live'
             PROVE  marks'[t] \cap {"revoked", "swept"} # {} \/ Inserting(t)'
  BY DEF SweepInv
<1>1. CASE t \notin live
  BY <1>1, NewInserting
<1>2. CASE t \in live /\ Acts(d)
  <2>1. t \in Tokens
    BY <1>2 DEF TypeOK
  <2>2. Update(d) \/ SoftRemove(d)
    BY <1>2, Origins DEF Origin
  <2>3. CASE SoftRemove(d)
    <3>1. Mark(live, {"revoked"}) /\ {"revoked"} \in SUBSET Marks
      BY <2>3 DEF SoftRemove, Marks
    <3>2. marks'[t] = marks[t] \cup {"revoked"}
      BY <1>2, <2>1, <3>1, MarkType
    <3>3. QED
      BY <3>2
  <2>4. CASE Update(d)
    <3>1. At(d, "updating") /\ req[d].all \in BOOLEAN
      BY <2>4, ReqTypes DEF Update, At
    <3>2. PICK r \in Request :
            /\ Overtake(d, r) /\ (~req[d].all => r.at = "idle")
      <4>1. Idle \in Request /\ [at |-> "sweeping"] \in Request /\ Idle.at = "idle"
        BY DEF Idle, Request
      <4>2. QED
        BY <2>4, <4>1 DEF Update
    <3>3. req[d].all
      BY <3>1, <3>2, OvertakeEffect DEF At
    <3>4. PICK M \in SUBSET Marks : "revoked" \in M /\ Mark(live, M)
      BY <2>4, <3>3 DEF Update, Marks
    <3>5. marks'[t] = marks[t] \cup M
      BY <1>2, <2>1, <3>4, MarkType
    <3>6. QED
      BY <3>4, <3>5
  <2>5. QED
    BY <2>2, <2>3, <2>4
<1>3. CASE t \in live /\ ~Acts(d)
  <2>1. At(d, "sweeping")
    BY <1>3, Waiting DEF At
  <2>2. CASE marks[t] \cap {"revoked", "swept"} # {}
    BY <1>3, <2>2, TokenKept DEF Grows
  <2>3. ASSUME NEW c \in Clients, InsertRow(c), req[c].tok = t
        PROVE  marks'[t] \cap {"revoked", "swept"} # {}
    <3>1. Mark({t}, {"swept"}) /\ {"swept"} \in SUBSET Marks
      BY <2>1, <2>3 DEF InsertRow, Marks
    <3>2. t \in Tokens
      BY <1>3 DEF TypeOK
    <3>3. marks'[t] = marks[t] \cup {"swept"}
      BY <1>3, <3>1, <3>2, MarkType
    <3>4. QED
      BY <3>3
  <2>4. QED
    BY <1>3, <2>1, <2>2, <2>3, InsertingKept DEF SweepInv
<1>4. QED
  BY <1>1, <1>2, <1>3

LEMMA VisibleStep ==
  ASSUME BlacklistSurvives, SessionsOutlive, Types, HeldInv, RevokedInv, BlackInv, SweepInv,
         VisibleInv, [Next]_vars
  PROVE  VisibleInv'
<1> SUFFICES ASSUME NEW t \in live', Redeemable(t)',
                    marks'[t] \cap {"restored", "lapsed", "swept"} = {}, ~Inserting(t)'
             PROVE  t \in rows'
  BY DEF VisibleInv
<1>1. t \in live
  BY NewInserting
<1>2. Redeemable(t) /\ marks[t] \cap {"restored", "lapsed", "swept"} = {}
  <2>1. Redeemable(t) /\ Grows(t)
    BY <1>1, Regained, TokenKept
  <2>2. QED
    BY <2>1 DEF Grows
<1>3. CASE Inserting(t)
  BY <1>3, InsertingKept DEF InsertRow
<1>4. CASE t \in rows /\ t \notin rows' /\ ~Inserting(t)
  <2>1. ASSUME NEW c \in Clients, Sweep(c) PROVE FALSE
    BY <1>1, <1>2, <1>4, <2>1 DEF Sweep, SweepInv, RevokedInv, RevokedStaysRevoked
  <2>2. ASSUME NEW c \in Clients,
               (Unlist(c) /\ t = req[c].tok) \/ (DeleteOldest(c) /\ t \in req[c].victims)
        PROVE  FALSE
    <3>1. Condemned(c, t)
      BY <2>2 DEF Unlist, DeleteOldest, Condemned
    <3>2. QED
      BY <1>1, <1>2, <3>1 DEF BlackInv, Redeemable
  <2>3. ~ExpireRow(t)
    BY <1>1 DEF ExpireRow
  <2>4. QED
    BY <1>4, <2>1, <2>2, <2>3, RowsLost
<1>5. QED
  BY <1>1, <1>2, <1>3, <1>4 DEF VisibleInv

\* The list of sessions is complete: a token that can be refreshed has a row, for any
\* interleaving of logins, refreshes, logouts and revocations, if the blacklist survives a
\* restart and tokens live no longer than rows, unless the row was inserted while a logout
\* of all was deleting the rows, an older user row was written back, or an entry lapsed.
THEOREM SessionsStayVisible ==
  ASSUME BlacklistSurvives, SessionsOutlive PROVE Spec => []SessionsVisible
<1> DEFINE All == /\ Types /\ HeldInv /\ RevokedInv /\ BlackInv /\ SweepInv /\ VisibleInv
<1>1. Init => All
  <2>1. Init => RevokedInv /\ BlackInv /\ SweepInv /\ VisibleInv
    BY DEF Init, RevokedInv, VersionInv, RevokedStaysRevoked, BlackInv, SweepInv, VisibleInv
  <2>2. QED
    BY <2>1, InitTypes
<1>2. All /\ [Next]_vars => All'
  BY TypeStep, HeldStep, RevokedStep, BlackStep, SweepStep, VisibleStep
<1>3. All => SessionsVisible
  <2>1. ASSUME NEW t, Inserting(t) PROVE t \in Lost(Clients)
    BY <2>1 DEF Inserting, Lost, Issuing, At
  <2>2. QED
    BY <2>1 DEF VisibleInv, SessionsVisible
<1>4. QED
  BY <1>1, <1>2, <1>3, PTL DEF Spec

--------------------------------------------------------------------------------
(* The order of the rows *)

\* A request that inserts a row is the only one that knows of it, and it is not there yet.
FreshInv ==
  \A c \in Clients : At(c, "inserting") =>
    req[c].tok \notin rows /\ \A d \in Clients \ {c} : ~Has(d, req[c].tok)

\* The rows are in a line by the time they were inserted.
OrderInv ==
  /\ \A t \in rows : t \notin older[t]
  /\ \A t, u \in rows : t = u \/ t \in older[u] \/ u \in older[t]
  /\ \A t, u, v \in rows : t \in older[u] /\ u \in older[v] => t \in older[v]

\* How rows come to the list.
LEMMA RowsGained ==
  ASSUME Types, [Next]_vars, ~\E c \in Clients : InsertRow(c)
  PROVE  rows' \subseteq rows /\ UNCHANGED older
<1>1. ASSUME NEW c \in Clients, Acts(c) PROVE rows' \subseteq rows /\ UNCHANGED older
  <2>1. CASE QuietStep(c)
    BY <2>1, QuietEffect DEF rowVars
  <2>2. CASE \/ Update(c) \/ SoftRemove(c) \/ BlacklistSession(c) \/ Rotate(c) \/ Trim(c)
             \/ FindNone(c) \/ Fails(c) \/ \E u \in Tokens : Refresh(c, u) \/ Mint(c, u)
    BY <2>2 DEF Update, SoftRemove, BlacklistSession, Rotate, Trim, FindNone, Fails, Refresh,
      Mint, rowVars
  <2>3. CASE Sweep(c) \/ Unlist(c) \/ DeleteOldest(c)
    BY <2>3 DEF Sweep, Unlist, DeleteOldest
  <2>4. QED
    BY <1>1, <2>1, <2>2, <2>3, Zenon DEF Acts, Arrive, Proceed, QuietStep
<1>2. CASE Crash \/ UNCHANGED vars
  BY <1>2 DEF Crash, vars, rowVars
<1>3. ASSUME NEW u \in Tokens, ExpireToken(u) \/ ExpireRow(u) \/ LapseEntry(u)
      PROVE  rows' \subseteq rows /\ UNCHANGED older
  BY <1>3 DEF ExpireToken, ExpireRow, LapseEntry, rowVars
<1>4. QED
  BY <1>1, <1>2, <1>3 DEF Next, Acts

\* How a request comes to remember a token.
LEMMA HasNow ==
  ASSUME Types, [Next]_vars, NEW c \in Clients, NEW t, Has(c, t)'
  PROVE  \/ Has(c, t)
         \/ t \in rows \cup (live \ Lost(Clients))
         \/ t \in Tokens /\ Mint(c, t)
<1>1. CASE ~Acts(c)
  <2>1. req'[c] = req[c]
    BY <1>1, Waiting DEF Has, WithTok, At
  <2>2. QED
    BY <2>1 DEF Has, At
<1>2. CASE Acts(c) /\ req'[c].at \in WithTok /\ req'[c].tok = t
  <2>1. Origin(c)
    BY <1>2, Origins
  <2>2. \/ SameTok(c)
        \/ \E u \in Tokens :
             (Logout(c, u) \/ Revoke(c, u) \/ Refresh(c, u) \/ Mint(c, u)) /\ req'[c].tok = u
    BY <1>2, <2>1, Zenon DEF Origin, At, WithTok
  <2>3. QED
    BY <1>2, <2>2 DEF SameTok, Has, Logout, Revoke, Refresh
<1>3. CASE Acts(c) /\ At(c, "minting")' /\ t \in req'[c].old
  <2>1. Origin(c)
    BY <1>3, Origins
  <2>2. Rotate(c) /\ t = req[c].tok
    BY <1>3, <2>1 DEF Origin
  <2>3. QED
    BY <2>2 DEF Rotate, Has, At, WithTok
<1>4. CASE Acts(c) /\ req'[c].at \in {"trimming", "deleting"} /\ t \in req'[c].victims
  <2>1. Origin(c)
    BY <1>4, Origins
  <2>2. \/ t \in Oldest(req[c].excess)
        \/ At(c, "trimming") /\ t \in req[c].victims
    BY <1>4, <2>1 DEF Origin, At
  <2>3. QED
    BY <2>2 DEF Oldest, Has, At
<1>5. QED
  BY <1>1, <1>2, <1>3, <1>4 DEF Has, At

LEMMA FreshStep ==
  ASSUME Types, FreshInv, [Next]_vars
  PROVE  FreshInv'
<1> SUFFICES ASSUME NEW c \in Clients, At(c, "inserting")', NEW t, t = req'[c].tok
             PROVE  t \notin rows' /\ \A d \in Clients \ {c} : ~Has(d, t)'
  BY DEF FreshInv, At
<1>1. CASE Acts(c)
  <2>1. Mint(c, t)
    BY <1>1, Origins DEF Origin
  <2>2. t \notin rows' /\ \A d \in Clients : ~Has(d, t)
    BY <2>1, HasKnows DEF Mint, rowVars, Types
  <2>3. \A d \in Clients \ {c} : req'[d] = req[d]
    BY <2>1, BecomeOnly DEF Mint, Types
  <2>4. QED
    BY <2>2, <2>3 DEF Has, At
<1>2. CASE ~Acts(c)
  <2>1. req'[c] = req[c]
    BY <1>2, Waiting DEF At, WithTok
  <2>2. At(c, "inserting") /\ t = req[c].tok
    BY <2>1 DEF At
  <2>3. t \notin rows /\ t \in Lost(Clients) /\ \A d \in Clients \ {c} : ~Has(d, t)
    BY <2>2 DEF FreshInv, Lost, Issuing, At
  <2>4. Has(c, t)
    BY <2>2 DEF Has, At, WithTok
  <2>5. t \notin rows'
    <3>1. ASSUME NEW d \in Clients, InsertRow(d) PROVE t \notin rows'
      <4>1. d # c
        BY <1>2, <3>1 DEF Acts, Proceed
      <4>2. t # req[d].tok
        BY <2>3, <3>1, <4>1 DEF InsertRow, Has, At, WithTok
      <4>3. QED
        BY <2>3, <3>1, <4>2 DEF InsertRow
    <3>2. QED
      BY <2>3, <3>1, RowsGained
  <2>6. ASSUME NEW d \in Clients \ {c}, Has(d, t)' PROVE FALSE
    <3>1. Mint(d, t)
      BY <2>3, <2>6, HasNow
    <3>2. QED
      BY <2>4, <3>1, HasKnows DEF Mint, Types
  <2>7. QED
    BY <2>5, <2>6
<1>3. QED
  BY <1>1, <1>2

LEMMA OrderStep ==
  ASSUME Types, FreshInv, OrderInv, [Next]_vars
  PROVE  OrderInv'
<1>1. CASE \E c \in Clients : InsertRow(c)
  <2>1. PICK c \in Clients : InsertRow(c)
    BY <1>1
  <2>2. PICK n \in Tokens : n = req[c].tok
    BY <2>1, ReqTypes DEF InsertRow, At, WithTok, Types
  <2>3. /\ rows' = rows \cup {n}
        /\ \A t \in Tokens : older'[t] = IF t = n THEN rows ELSE older[t] \ {n}
    BY <2>1, <2>2 DEF InsertRow
  <2>4. n \notin rows /\ rows \subseteq Tokens
    BY <2>1, <2>2 DEF InsertRow, FreshInv, Types, TypeOK, TokenSession
  <2>5. ASSUME NEW t \in rows' PROVE t \notin older'[t]
    BY <2>3, <2>4 DEF OrderInv
  <2>6. ASSUME NEW t \in rows', NEW u \in rows', t # u
        PROVE  t \in older'[u] \/ u \in older'[t]
    BY <2>3, <2>4, <2>6 DEF OrderInv
  <2>7. ASSUME NEW t \in rows', NEW u \in rows', NEW v \in rows',
               t \in older'[u], u \in older'[v]
        PROVE  t \in older'[v]
    <3>1. u # n /\ t # n
      BY <2>3, <2>4, <2>7
    <3>2. QED
      BY <2>3, <2>4, <2>7, <3>1 DEF OrderInv
  <2>8. QED
    BY <2>5, <2>6, <2>7 DEF OrderInv
<1>2. CASE ~\E c \in Clients : InsertRow(c)
  BY <1>2, RowsGained DEF OrderInv
<1>3. QED
  BY <1>1, <1>2

--------------------------------------------------------------------------------
(* The session limit *)

\* Without the n oldest of m + n rows at most m are left: the rows before a row that is
\* left are at least n, and no two rows have as many before them.
LEMMA OldestSuffice ==
  ASSUME Types, OrderInv, NEW m \in Nat, NEW n \in Nat, Cardinality(rows) <= m + n
  PROVE  Cardinality(rows \ Oldest(n)) <= m
<1> DEFINE Left == rows \ Oldest(n)
           Before(t) == older[t] \cap rows
           rank == [t \in Left |-> Cardinality(Before(t))]
<1>1. IsFiniteSet(rows) /\ Cardinality(rows) \in Nat
  BY Counted DEF Types
<1>2. IsFiniteSet(Left) /\ Cardinality(Left) \in Nat
  BY <1>1, FS_Subset, FS_CardinalityType
<1>3. ASSUME NEW t \in rows
      PROVE  /\ IsFiniteSet(Before(t)) /\ Cardinality(Before(t)) \in Nat
             /\ Cardinality(Before(t)) < Cardinality(rows)
  <2>1. Before(t) \in SUBSET (rows \ {t})
    BY DEF OrderInv
  <2>2. IsFiniteSet(rows \ {t}) /\ Cardinality(rows \ {t}) = Cardinality(rows) - 1
    BY <1>1, FS_RemoveElement
  <2>3. IsFiniteSet(Before(t)) /\ Cardinality(Before(t)) <= Cardinality(rows \ {t})
    BY <2>1, <2>2, FS_Subset
  <2>4. Cardinality(Before(t)) \in Nat
    BY <2>3, FS_CardinalityType
  <2>5. QED
    BY <1>1, <2>2, <2>3, <2>4
<1>4. ASSUME NEW t \in rows, NEW u \in rows, t \in older[u]
      PROVE  Cardinality(Before(t)) # Cardinality(Before(u))
  <2>1. Before(t) \in SUBSET Before(u) /\ t \in Before(u) /\ t \notin Before(t)
    BY <1>4 DEF OrderInv
  <2>2. QED
    BY <1>3, <2>1, FS_Subset
<1>5. ASSUME NEW t \in Left PROVE rank[t] \in n..(m + n - 1)
  <2>1. t \in rows /\ ~(Cardinality(Before(t)) < n) /\ rank[t] = Cardinality(Before(t))
    BY DEF Oldest
  <2>2. Cardinality(Before(t)) \in Nat /\ Cardinality(Before(t)) < Cardinality(rows)
    BY <1>3, <2>1
  <2>3. QED
    BY <1>1, <2>1, <2>2
<1>6. rank \in [Left -> n..(m + n - 1)]
  BY <1>5
<1>7. IsFiniteSet(n..(m + n - 1)) /\ Cardinality(n..(m + n - 1)) = m
  <2>1. /\ IsFiniteSet(n..(m + n - 1))
        /\ Cardinality(n..(m + n - 1)) = IF n > m + n - 1 THEN 0 ELSE (m + n - 1) - n + 1
    BY FS_Interval
  <2>2. QED
    BY <2>1
<1>8. ASSUME Cardinality(Left) > m PROVE FALSE
  <2>1. PICK t \in Left, u \in Left : t # u /\ rank[t] = rank[u]
    <3>1. m < Cardinality(Left)
      BY <1>2, <1>8
    <3> HIDE DEF Left, rank
    <3>2. QED
      BY <1>2, <1>6, <1>7, <3>1, FS_PigeonHole
  <2>2. t \in rows /\ u \in rows /\ (t \in older[u] \/ u \in older[t])
    BY <2>1 DEF OrderInv
  <2>3. QED
    BY <1>4, <2>1, <2>2
<1>9. QED
  BY <1>2, <1>8

\* Request c is about to bring the rows down to the limit.
Bounding(c) ==
  \/ At(c, "counting")
  \/ At(c, "finding") /\ Cardinality(rows) <= MaxSessions + req[c].excess
  \/ req[c].at \in {"trimming", "deleting"} /\ Cardinality(rows \ req[c].victims) <= MaxSessions

LimitInv ==
  MaxSessions > 0 /\ ~unlimited =>
    Cardinality(rows) <= MaxSessions \/ \E c \in Clients : Bounding(c)

\* Fewer rows do no harm.
LEMMA FewerRows ==
  ASSUME Types, NEW R, R \subseteq rows
  PROVE  IsFiniteSet(R) /\ Cardinality(R) \in Nat /\ Cardinality(R) <= Cardinality(rows)
BY FS_Subset, FS_CardinalityType DEF Types

\* A request that died or failed on the way is remembered until a row is inserted.
LEMMA UnlimitedKept ==
  ASSUME Types, [Next]_vars, ~\E c \in Clients : InsertRow(c), unlimited
  PROVE  unlimited'
<1>1. ASSUME NEW c \in Clients, Acts(c) PROVE unlimited'
  <2>1. CASE QuietStep(c)
    BY <2>1, QuietEffect
  <2>2. CASE Fails(c)
    BY <2>2, Zenon DEF Fails
  <2>3. CASE ~QuietStep(c) /\ ~Fails(c)
    BY <1>1, <2>3 DEF Acts, Arrive, Proceed, QuietStep, Update, SoftRemove, Sweep, Unlist,
      DeleteOldest, BlacklistSession, Rotate, Trim, FindNone, Refresh, Mint
  <2>4. QED
    BY <2>1, <2>2, <2>3
<1>2. CASE Crash
  BY <1>2, Zenon DEF Crash
<1>3. CASE \/ UNCHANGED vars
           \/ \E u \in Tokens : ExpireToken(u) \/ ExpireRow(u) \/ LapseEntry(u)
  BY <1>3 DEF vars, ExpireToken, ExpireRow, LapseEntry
<1>4. QED
  BY <1>1, <1>2, <1>3 DEF Next, Acts

\* A request that enforces the limit takes the next step or fails.
LEMMA EnforcingActs ==
  ASSUME NEW c \in Clients, req[c].at \in Enforcing, Acts(c)
  PROVE  \/ At(c, "counting") /\ Count(c)
         \/ At(c, "finding") /\ (FindOldest(c) \/ FindNone(c))
         \/ At(c, "trimming") /\ Trim(c)
         \/ At(c, "deleting") /\ DeleteOldest(c)
         \/ Fails(c)
<1>1. ~Arrive(c)
  BY DEF Arrive, UpdateProfile, LogoutAll, DeleteAccount, Login, Revoke, Logout, Refresh, At,
    Enforcing
<1>2. Proceed(c) => Count(c) \/ FindOldest(c) \/ FindNone(c) \/ Trim(c) \/ DeleteOldest(c) \/ Fails(c)
  BY DEF Proceed, Compare, Update, Sweep, SoftRemove, Look, BlacklistSession, Unlist,
    CheckVersion, Rotate, Mint, InsertRow, At, Enforcing
<1>3. QED
  BY <1>1, <1>2 DEF Acts, Count, FindOldest, FindNone, Trim, DeleteOldest

\* What a request that enforces the limit leaves to do.
LEMMA BoundingStep ==
  ASSUME Types, OrderInv, MaxSessions > 0, ~unlimited', [Next]_vars,
         NEW c \in Clients, Bounding(c), Acts(c)
  PROVE  Cardinality(rows') <= MaxSessions \/ Bounding(c)'
<1> USE DEF Types
<1>1. MaxSessions \in Nat /\ Cardinality(rows) \in Nat
  BY SessionAssumption, Counted
<1>2. CASE Fails(c)
  <2>1. ~(Excess > 0) /\ rows' = rows
    BY <1>2, Zenon DEF Fails, Bounding, Enforcing, At, rowVars
  <2>2. QED
    BY <1>1, <2>1 DEF Excess
<1>3. CASE At(c, "counting") /\ Count(c)
  <2>1. rows' = rows
    BY <1>3 DEF Count, rowVars
  <2>2. CASE Excess <= 0
    BY <1>1, <2>1, <2>2 DEF Excess
  <2>3. CASE ~(Excess <= 0)
    <3>1. PICK r : r = [at |-> "finding", tok |-> req[c].tok, excess |-> Excess]
      OBVIOUS
    <3>2. req'[c] = r
      BY <1>3, <2>3, <3>1, BecomeOnly DEF Count
    <3>3. Cardinality(rows') <= MaxSessions + r.excess
      BY <1>1, <2>1, <3>1 DEF Excess
    <3>4. QED
      BY <3>1, <3>2, <3>3 DEF Bounding, At
  <2>4. QED
    BY <2>2, <2>3
<1>4. CASE At(c, "finding") /\ FindOldest(c)
  <2>1. rows' = rows /\ req[c].excess \in Nat
    BY <1>4, ReqTypes DEF FindOldest, rowVars
  <2>2. PICK r : r = [at |-> "trimming", tok |-> req[c].tok,
                      victims |-> Oldest(req[c].excess), left |-> Oldest(req[c].excess)]
    OBVIOUS
  <2>3. req'[c] = r
    BY <1>4, <2>2, BecomeOnly DEF FindOldest
  <2>4. Cardinality(rows) <= MaxSessions + req[c].excess
    BY <1>4 DEF Bounding, At
  <2>5. Cardinality(rows \ Oldest(req[c].excess)) <= MaxSessions
    BY <1>1, <2>1, <2>4, OldestSuffice
  <2>6. QED
    BY <2>1, <2>2, <2>3, <2>5 DEF Bounding, At
<1>5. CASE At(c, "finding") /\ FindNone(c)
  BY <1>1, <1>5, FS_EmptySet DEF FindNone, rowVars
<1>6. CASE At(c, "trimming") /\ Trim(c)
  <2>1. req[c].tok \in Tokens /\ rows' = rows /\ Cardinality(rows \ req[c].victims) <= MaxSessions
    BY <1>6, ReqTypes DEF Trim, rowVars, Bounding, At, WithTok
  <2>2. PICK u \in req[c].left :
          Become(c, IF req[c].left = {u}
                    THEN [at |-> "deleting", tok |-> req[c].tok, victims |-> req[c].victims]
                    ELSE LeftOut(c, u))
    BY <1>6 DEF Trim, LeftOut
  <2>3. PICK q, r : /\ q = [at |-> "deleting", tok |-> req[c].tok, victims |-> req[c].victims]
                    /\ r = LeftOut(c, u)
    OBVIOUS
  <2>4. r.at = "trimming" /\ r.victims = req[c].victims
    BY <1>6, <2>3, LeftType
  <2>5. req'[c].at \in {"trimming", "deleting"} /\ req'[c].victims = req[c].victims
    BY <2>2, <2>3, <2>4, BecomeOnly
  <2>6. QED
    BY <2>1, <2>5 DEF Bounding
<1>7. CASE At(c, "deleting") /\ DeleteOldest(c)
  BY <1>7 DEF DeleteOldest, Bounding, At
<1>8. QED
  <2>1. req[c].at \in Enforcing
    BY DEF Bounding, Enforcing, At
  <2>2. QED
    BY <1>2, <1>3, <1>4, <1>5, <1>6, <1>7, <2>1, EnforcingActs

LEMMA LimitStep ==
  ASSUME Types, OrderInv, LimitInv, [Next]_vars
  PROVE  LimitInv'
<1> SUFFICES ASSUME MaxSessions > 0, ~unlimited'
             PROVE  Cardinality(rows') <= MaxSessions \/ \E c \in Clients : Bounding(c)'
  BY DEF LimitInv
<1> USE DEF Types
<1>1. MaxSessions \in Nat /\ Cardinality(rows) \in Nat
  BY SessionAssumption, Counted
<1>2. CASE \E c \in Clients : InsertRow(c)
  <2>1. PICK c \in Clients : InsertRow(c)
    BY <1>2
  <2>2. PICK r : r = [at |-> "counting", tok |-> req[c].tok]
    OBVIOUS
  <2>3. req'[c] = r
    BY <1>1, <2>1, <2>2, BecomeOnly DEF InsertRow
  <2>4. QED
    BY <2>2, <2>3 DEF Bounding, At
<1>3. CASE ~\E c \in Clients : InsertRow(c)
  <2>1. ~unlimited /\ rows' \subseteq rows
    BY <1>3, UnlimitedKept, RowsGained
  <2>2. Cardinality(rows') \in Nat /\ Cardinality(rows') <= Cardinality(rows)
    BY <2>1, FewerRows
  <2>3. CASE Cardinality(rows) <= MaxSessions
    BY <1>1, <2>2, <2>3
  <2>4. ASSUME NEW c \in Clients, Bounding(c), Acts(c)
        PROVE  Cardinality(rows') <= MaxSessions \/ Bounding(c)'
    BY <2>4, BoundingStep
  <2>5. ASSUME NEW c \in Clients, Bounding(c), ~Acts(c), req'[c] = req[c] PROVE Bounding(c)'
    <3>1. CASE At(c, "counting")
      BY <2>5, <3>1 DEF Bounding, At
    <3>2. CASE At(c, "finding")
      <4>1. req[c].excess \in Nat /\ Cardinality(rows) <= MaxSessions + req[c].excess
        BY <2>5, <3>2, ReqTypes DEF Bounding, At
      <4>2. QED
        BY <1>1, <2>2, <2>5, <3>2, <4>1 DEF Bounding, At
    <3>3. CASE req[c].at \in {"trimming", "deleting"}
      <4>1. Cardinality(rows \ req[c].victims) <= MaxSessions
        BY <2>5, <3>3 DEF Bounding, At
      <4>2. /\ IsFiniteSet(rows \ req[c].victims)
            /\ Cardinality(rows \ req[c].victims) \in Nat
        BY FewerRows
      <4>3. rows' \ req[c].victims \in SUBSET (rows \ req[c].victims)
        BY <2>1
      <4>4. /\ Cardinality(rows' \ req[c].victims) <= Cardinality(rows \ req[c].victims)
            /\ Cardinality(rows' \ req[c].victims) \in Nat
        BY <4>2, <4>3, FS_Subset, FS_CardinalityType
      <4>5. Cardinality(rows' \ req[c].victims) <= MaxSessions
        BY <1>1, <4>1, <4>2, <4>4
      <4>6. QED
        BY <2>5, <3>3, <4>5 DEF Bounding
    <3>4. QED
      BY <2>5, <3>1, <3>2, <3>3 DEF Bounding
  <2>6. ASSUME NEW c \in Clients, Bounding(c), Crash PROVE Cardinality(rows) <= MaxSessions
    <3>1. req[c].at \in Enforcing
      BY <2>6 DEF Bounding, Enforcing, At
    <3>2. ~(Excess > 0)
      BY <2>6, <3>1, Zenon DEF Crash
    <3>3. QED
      BY <1>1, <3>2 DEF Excess
  <2>7. ASSUME NEW c \in Clients, Bounding(c), ~Acts(c)
        PROVE  req'[c] = req[c] \/ Crash
    BY <2>7, OthersWait DEF Overtaken, Bounding, At
  <2>8. QED
    BY <2>1, <2>3, <2>4, <2>5, <2>6, <2>7 DEF LimitInv
<1>4. QED
  BY <1>2, <1>3

\* The session limit holds whenever no request is about to enforce it, for any limit and
\* any number of requests that insert rows, count them, and delete the oldest at the same
\* time, unless one of them died or failed on the way.
THEOREM SessionLimitHolds == Spec => []LimitHolds
<1> DEFINE All == Types /\ FreshInv /\ OrderInv /\ LimitInv
<1>1. Init => All
  <2>1. ASSUME Init PROVE FreshInv /\ OrderInv
    BY <2>1, IdleType DEF Init, FreshInv, OrderInv, At
  <2>2. ASSUME Init PROVE LimitInv
    BY <2>2, FS_EmptySet, SessionAssumption DEF Init, LimitInv
  <2>3. QED
    BY <2>1, <2>2, InitTypes
<1>2. All /\ [Next]_vars => All'
  BY TypeStep, FreshStep, OrderStep, LimitStep
<1>3. All => LimitHolds
  BY DEF LimitInv, LimitHolds, Bounding, Enforcing, At
<1>4. QED
  BY <1>1, <1>2, <1>3, PTL DEF Spec

=============================================================================
