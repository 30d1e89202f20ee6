----------------------------- MODULE Accounts_proofs -----------------------------
(***************************************************************************)
(* Proofs about Accounts for every set of requests, users, identities and  *)
(* installations: its types with the unique e-mail and phone number, that  *)
(* codes are used once, and that users are kept.                           *)
(***************************************************************************)
EXTENDS Accounts, FiniteSetTheorems, TLAPS

\* A verification that was alone with its code has a code that nobody has accepted.
CodeInv ==
  /\ reused = {}
  /\ \A k \in Kinds : codes[k] = "live" => k \notin accepted
  /\ \A c \in Clients : At(c, "spending") /\ ~req[c].raced =>
       /\ req[c].kind \notin accepted
       /\ \A d \in Clients \ {c} : ~(At(d, "spending") /\ req[d].kind = req[c].kind)

\* A row to be inserted is new; one to be linked has no password.
NewRow(c) ==
  At(c, "creating") =>
    /\ req[c].row.state = "live" /\ req[c].row.backupCodes = 0
    /\ req[c].link # None => ~req[c].row.password

\* An entity is a row that was there, with backup codes that were given;
HeldRow(c) ==
  req[c].at \in {"claiming", "saving"} =>
    /\ req[c].row.state = "live" /\ req[c].row.backupCodes <= made[req[c].user]
    /\ req[c].op = "backup" => req[c].row.backupCodes # 0 /\ req[c].row.used

\* until it is stale the row is still there,
FreshRow(c) ==
  req[c].at \in {"claiming", "saving", "removing"} /\ ~req[c].stale => Found(req[c].user)

\* the entity takes nothing away from it, nor, but in a conversion, gives it a password or
\* makes its user known, and it brings back no code that was used.
Keeps(u, r, op) ==
  /\ users[u].email => r.email
  /\ users[u].password => r.password
  /\ ~users[u].isAnonymous => ~r.isAnonymous
  /\ op # "convert" => /\ r.password => users[u].password
                       /\ users[u].isAnonymous => r.isAnonymous

NewCode(u, r, op) ==
  u \notin overwritten /\ <<u, r.backupCodes>> \in spent => r.used /\ op # "backup"

FreshEntity(c) ==
  req[c].at \in {"claiming", "saving"} /\ ~req[c].stale =>
    Keeps(req[c].user, req[c].row, req[c].op) /\ NewCode(req[c].user, req[c].row, req[c].op)

\* A link of a user may go who has a password, another link, or lost them in one of the
\* ways that HasWayIn excepts.
Lost(u) == u \in overwritten \/ users[u].state = "gone"

Spared(c) ==
  /\ At(c, "counting") /\ req[c].password => users[req[c].user].password \/ Lost(req[c].user)
  /\ At(c, "unlinking") =>
       \/ users[req[c].user].password \/ Lost(req[c].user) \/ req[c].user \in cutOff
       \/ \E p, q \in Linked(req[c].user) : p # q

RequestOK(c) == NewRow(c) /\ HeldRow(c) /\ FreshRow(c) /\ FreshEntity(c) /\ Spared(c)

RequestInv == \A c \in Clients : RequestOK(c)

\* The rows themselves
UserOK(u) ==
  /\ users[u].state = "unused" => ~users[u].password
  /\ Exists(u) /\ ~users[u].isAnonymous => HasWayIn(u)
  /\ Exists(u) /\ users[u].password => Opens(users[u]) \/ u \in cutOff \cup overwritten
  /\ users[u].backupCodes <= made[u]
  /\ u \notin overwritten /\ <<u, users[u].backupCodes>> \in spent => users[u].used

UserInv ==
  /\ \A u \in Users : UserOK(u)
  /\ \A u \in Users : \A g \in 1..MaxGen : <<u, g>> \in spent => g <= made[u]
  /\ again \subseteq overwritten

\* The indexes on e-mails and phone numbers
OneEach ==
  \A u, v \in Users :
    /\ Exists(u) /\ users[u].email /\ Exists(v) /\ users[v].email => u = v
    /\ Exists(u) /\ users[u].phone /\ Exists(v) /\ users[v].phone => u = v

\* TypeOK without the cardinalities
Types ==
  /\ options \subseteq Features
  /\ users \in [Users -> User] /\ accounts \in Account /\ passkeys \subseteq Users
  /\ codes \in Verification /\ issued \subseteq Users
  /\ req \in [Clients -> Request]
  /\ made \in [Users -> 0..MaxGen]
  /\ spent \subseteq Users \X (1..MaxGen) /\ again \subseteq Users
  /\ accepted \cup reused \subseteq Kinds
  /\ overwritten \subseteq Users /\ cutOff \subseteq Users

Inv == Types /\ RequestInv /\ UserInv

--------------------------------------------------------------------------------
(* The steps, by what they change. *)

\* Nothing but the request, or a passkey
Reads(c) ==
  \/ Register(c) \/ Claim(c) \/ EnterByOtp(c) \/ EnterByLink(c) \/ Match(c) \/ Link(c)
  \/ CountAccounts(c) \/ LoginWithPassword(c) \/ CompleteAuthentication(c) \/ Discard(c)
  \/ Fails(c)
  \/ \E u \in Users : \/ ConvertAnonymousUser(c, u) \/ UpdateProfile(c, u) \/ ChangePassword(c, u)
                      \/ DeleteAccount(c, u) \/ VerifyBackupCode(c, u) \/ Disable(c, u)
                      \/ CompleteRegistration(c, u) \/ DeletePasskey(c, u)
                      \/ \E p \in Identities : LinkAccount(c, u, p) \/ UnlinkAccount(c, u, p)
  \/ \E p \in Identities : \/ AuthenticateWithSSO(c, p)
                           \/ \E email \in BOOLEAN : Authenticate(c, p, email)

Gives(c) == \E u \in Users : EnableTOTP(c, u) \/ GenerateBackupCodes(c, u)

Inserts(c) == Create(c) \/ CreateAndLink(c) \/ LoginAnonymous(c)

\* Codes
Codes(c) ==
  \/ \E k \in Kinds : Sent(c, k) \/ \E login \in BOOLEAN : FindCode(c, k, login)
  \/ RemoveCode(c)

LEMMA Steps ==
  Next => \/ \E c \in Clients : \/ Reads(c) \/ Gives(c) \/ Inserts(c) \/ Save(c) \/ SoftRemove(c)
                               \/ Codes(c) \/ Attach(c) \/ Unlink(c)
          \/ \E old \in SUBSET {u \in Users : Exists(u) /\ users[u].isAnonymous} : Delete(old)
          \/ \E k \in Kinds : Expire(k)
<1> SUFFICES ASSUME Next
             PROVE  \/ \E c \in Clients : \/ Reads(c) \/ Gives(c) \/ Inserts(c) \/ Save(c)
                                         \/ SoftRemove(c) \/ Codes(c) \/ Attach(c) \/ Unlink(c)
                    \/ \E old \in SUBSET {u \in Users : Exists(u) /\ users[u].isAnonymous} : Delete(old)
                    \/ \E k \in Kinds : Expire(k)
  OBVIOUS
<1>1. ASSUME NEW c \in Clients, AuthController(c) \/ TwoFactorController(c) \/ PasskeyController(c)
      PROVE  Reads(c) \/ Gives(c) \/ Inserts(c)
  BY <1>1, Zenon DEF AuthController, Public, TwoFactorController, PasskeyController, Reads, Gives, Inserts
<1>2. ASSUME NEW c \in Clients, Application(c)
      PROVE  Reads(c) \/ Codes(c)
  <2>1. "otp" \in Kinds /\ "2fa" \in Kinds /\ "magic-link" \in Kinds
    BY DEF Kinds
  <2>2. CASE SendOtp(c) \/ VerifyOtp(c) \/ GenerateToken(c) \/ VerifyToken(c)
    BY <2>1, <2>2 DEF SendOtp, VerifyOtp, GenerateToken, VerifyToken, Codes
  <2>3. ASSUME NEW p \in OAuthIds, NEW email \in BOOLEAN, Authenticate(c, p, email)
        PROVE  Reads(c)
    BY <2>3 DEF Reads, Identities
  <2>4. ASSUME NEW p \in OAuthIds, VerifyGoogleIdToken(c, p) \/ VerifyAppleIdToken(c, p)
        PROVE  Reads(c)
    BY <2>3, <2>4 DEF VerifyGoogleIdToken, VerifyAppleIdToken
  <2>5. ASSUME NEW p \in SsoIds, AuthenticateWithSSO(c, p)
        PROVE  Reads(c)
    BY <2>5 DEF Reads, Identities
  <2>6. ASSUME NEW u \in Users, ConvertAnonymousUser(c, u)
        PROVE  Reads(c)
    BY <2>6 DEF Reads
  <2>7. ASSUME NEW u \in Users, NEW p \in Identities, LinkAccount(c, u, p) \/ UnlinkAccount(c, u, p)
        PROVE  Reads(c)
    BY <2>7 DEF Reads
  <2>8. OAuthIds \subseteq Identities
    BY DEF Identities
  <2>9. QED
    BY <1>2, <2>2, <2>3, <2>4, <2>5, <2>6, <2>7, <2>8 DEF Application
<1>3. ASSUME NEW c \in Clients, Proceed(c)
      PROVE  Reads(c) \/ Inserts(c) \/ Save(c) \/ SoftRemove(c) \/ Codes(c) \/ Attach(c) \/ Unlink(c)
  BY <1>3, Zenon DEF Proceed, Reads, Inserts, Codes
<1>4. ASSUME NEW c \in Clients, Fails(c)
      PROVE  Reads(c)
  BY <1>4, Zenon DEF Reads
<1>5. QED
  BY <1>1, <1>2, <1>3, <1>4, Zenon DEF Next, AdminController, CleanupExpiredAnonymousUsers

--------------------------------------------------------------------------------
(* Requests and rows *)

\* The requests that are made,
LEMMA Made ==
  /\ Idle \in Request
  /\ \A row \in User, link \in Identities \cup {None} :
       [at |-> "creating", row |-> row, link |-> link] \in Request
  /\ \A step \in {"claiming", "saving"}, u \in Users, row \in User, op \in Saves, stale \in BOOLEAN :
       [at |-> step, user |-> u, row |-> row, op |-> op, stale |-> stale] \in Request
  /\ \A u \in Users, stale \in BOOLEAN : [at |-> "removing", user |-> u, stale |-> stale] \in Request
  /\ \A k \in Kinds, login, raced \in BOOLEAN :
       [at |-> "spending", kind |-> k, login |-> login, raced |-> raced] \in Request
  /\ \A k \in Kinds : [at |-> "entering", kind |-> k] \in Request
  /\ \A p \in Identities, email \in BOOLEAN : [at |-> "matching", id |-> p, email |-> email] \in Request
  /\ \A step \in {"linking", "attaching"}, p \in Identities, u \in Users, second \in BOOLEAN :
       [at |-> step, id |-> p, user |-> u, second |-> second] \in Request
  /\ \A p \in Identities, u \in Users, password \in BOOLEAN :
       [at |-> "counting", id |-> p, user |-> u, password |-> password] \in Request
  /\ \A p \in Identities, u \in Users : [at |-> "unlinking", id |-> p, user |-> u] \in Request
  /\ \A u \in Users : [at |-> "discarding", user |-> u] \in Request
  BY DEF Request, Idle

\* what they hold at each step,
LEMMA Locals ==
  ASSUME NEW r \in Request
  PROVE  /\ r.at = "creating" => r.row \in User /\ r.link \in Identities \cup {None}
         /\ r.at \in {"claiming", "saving"} => r.row \in User /\ r.op \in Saves
         /\ r.at \in {"claiming", "saving", "removing"} => r.stale \in BOOLEAN
         /\ r.at \in {"claiming", "saving", "removing", "linking", "attaching", "counting",
                       "unlinking", "discarding"} => r.user \in Users
         /\ r.at \in {"spending", "entering"} => r.kind \in Kinds
         /\ r.at = "spending" => r.login \in BOOLEAN /\ r.raced \in BOOLEAN
         /\ r.at \in {"matching", "linking", "attaching", "counting", "unlinking"} => r.id \in Identities
         /\ r.at = "matching" => r.email \in BOOLEAN
         /\ r.at \in {"linking", "attaching"} => r.second \in BOOLEAN
         /\ r.at = "counting" => r.password \in BOOLEAN
  BY DEF Request

\* and what becomes of one when its row is written by another,
LEMMA Staled ==
  ASSUME NEW r \in Request, r.at \in {"claiming", "saving", "removing"}, NEW q,
         q = [r EXCEPT !.stale = TRUE]
  PROVE  /\ q \in Request /\ q.at = r.at /\ q.user = r.user /\ q.stale
         /\ r.at # "removing" => q.row = r.row /\ q.op = r.op
  BY DEF Request

\* when another finds its code,
LEMMA Raced ==
  ASSUME NEW r \in Request, r.at = "spending", NEW q, q = [r EXCEPT !.raced = TRUE]
  PROVE  /\ q \in Request /\ q.at = r.at /\ q.kind = r.kind /\ q.raced
  BY DEF Request

\* and when it goes on with the same row or link.
LEMMA Onward ==
  ASSUME NEW r \in Request
  PROVE  /\ r.at = "claiming" =>
              [r EXCEPT !.at = "saving"]
                = [at |-> "saving", user |-> r.user, row |-> r.row, op |-> r.op, stale |-> r.stale]
         /\ r.at = "linking" =>
              [r EXCEPT !.at = "attaching"]
                = [at |-> "attaching", id |-> r.id, user |-> r.user, second |-> r.second]
  BY DEF Request

LEMMA Becomes ==
  ASSUME req \in [Clients -> Request], NEW c \in Clients, NEW r \in Request, Become(c, r)
  PROVE  /\ req' \in [Clients -> Request] /\ req'[c] = r
         /\ \A d \in Clients \ {c} : req'[d] = req[d]
  BY DEF Become

LEMMA NewUserType ==
  ASSUME NEW email \in BOOLEAN, NEW verified \in BOOLEAN, NEW phone \in BOOLEAN,
         NEW password \in BOOLEAN, NEW anonymous \in BOOLEAN
  PROVE  /\ NewUser(email, verified, phone, password, anonymous) \in User
         /\ NewUser(email, verified, phone, password, anonymous).state = "live"
         /\ NewUser(email, verified, phone, password, anonymous).email = email
         /\ NewUser(email, verified, phone, password, anonymous).phone = phone
         /\ NewUser(email, verified, phone, password, anonymous).password = password
         /\ NewUser(email, verified, phone, password, anonymous).isAnonymous = anonymous
         /\ NewUser(email, verified, phone, password, anonymous).backupCodes = 0
  BY AccountsAssumption DEF NewUser, User

LEMMA NoUserType ==
  ASSUME NEW state \in {"unused", "gone"}
  PROVE  /\ NoUser(state) \in User /\ NoUser(state).state = state
         /\ NoUser(state).email = FALSE /\ NoUser(state).phone = FALSE
         /\ NoUser(state).password = FALSE /\ NoUser(state).backupCodes = 0
<1> DEFINE r == NewUser(FALSE, FALSE, FALSE, FALSE, FALSE)
<1>1. /\ r \in User /\ r.email = FALSE /\ r.phone = FALSE /\ r.password = FALSE
      /\ r.backupCodes = 0
  BY NewUserType
<1>2. NoUser(state) = [r EXCEPT !.state = state]
  BY DEF NoUser
<1> HIDE DEF r
<1>3. QED
  BY <1>1, <1>2 DEF User

\* A row that is edited stays a row, with the other columns as they were.
LEMMA Deleted ==
  ASSUME NEW r \in User, NEW q, q = [r EXCEPT !.state = "deleted"]
  PROVE  /\ q \in User /\ q.state = "deleted" /\ q.email = r.email /\ q.phone = r.phone
         /\ q.password = r.password /\ q.isAnonymous = r.isAnonymous /\ q.backupCodes = r.backupCodes /\ q.used = r.used
  BY DEF User

LEMMA MarkedUsed ==
  ASSUME NEW r \in User, NEW q, q = [r EXCEPT !.used = TRUE]
  PROVE  /\ q \in User /\ q.state = r.state /\ q.email = r.email /\ q.password = r.password
         /\ q.isAnonymous = r.isAnonymous /\ q.backupCodes = r.backupCodes /\ q.used = TRUE
  BY DEF User

LEMMA Verified ==
  ASSUME NEW r \in User, NEW q, q = [r EXCEPT !.emailVerified = TRUE]
  PROVE  /\ q \in User /\ q.state = r.state /\ q.email = r.email /\ q.password = r.password
         /\ q.isAnonymous = r.isAnonymous /\ q.backupCodes = r.backupCodes /\ q.used = r.used
  BY DEF User

LEMMA Disabled ==
  ASSUME NEW r \in User, NEW q, q = [r EXCEPT !.twoFactorEnabled = FALSE]
  PROVE  /\ q \in User /\ q.state = r.state /\ q.email = r.email /\ q.password = r.password
         /\ q.isAnonymous = r.isAnonymous /\ q.backupCodes = r.backupCodes /\ q.used = r.used
  BY DEF User

LEMMA GivenCodes ==
  ASSUME NEW r \in User, NEW second \in BOOLEAN, NEW g \in 0..MaxGen, NEW q,
         q = [r EXCEPT !.twoFactorEnabled = second, !.backupCodes = g, !.used = FALSE]
  PROVE  /\ q \in User /\ q.state = r.state /\ q.email = r.email /\ q.password = r.password
         /\ q.isAnonymous = r.isAnonymous /\ q.backupCodes = g /\ q.used = FALSE
  BY DEF User

--------------------------------------------------------------------------------
(* What a request holds after a step that writes no row *)

LEMMA HoldsNothing ==
  ASSUME NEW c \in Clients,
         req'[c].at \notin {"creating", "claiming", "saving", "removing", "counting", "unlinking"}
  PROVE  RequestOK(c)'
  BY DEF RequestOK, NewRow, HeldRow, FreshRow, FreshEntity, Spared, At

\* A request that is about to insert the row of a new user
LEMMA HoldsNewRow ==
  ASSUME NEW c \in Clients, NEW row \in User, NEW link \in Identities \cup {None},
         req'[c] = [at |-> "creating", row |-> row, link |-> link],
         row.state = "live", row.backupCodes = 0,
         link # None => ~row.password
  PROVE  RequestOK(c)'
  BY DEF RequestOK, NewRow, HeldRow, FreshRow, FreshEntity, Spared, At

\* A request that has just read the row of u
LEMMA HoldsRow ==
  ASSUME NEW c \in Clients, NEW u \in Users, NEW row \in User, NEW op \in Saves,
         NEW step \in {"claiming", "saving"}, UNCHANGED <<users, spent, overwritten>>,
         req'[c] = [at |-> step, user |-> u, row |-> row, op |-> op, stale |-> FALSE],
         Found(u), row.state = "live", row.backupCodes <= made'[u],
         op = "backup" => row.backupCodes # 0 /\ row.used,
         Keeps(u, row, op), NewCode(u, row, op)
  PROVE  RequestOK(c)'
  BY DEF RequestOK, NewRow, HeldRow, FreshRow, FreshEntity, Spared, At, Found, Keeps, NewCode

\* A row as it was read, changed in ways that take nothing from its user
LEMMA ReadRow ==
  ASSUME Inv, NEW u \in Users, Found(u), NEW row \in User, NEW op \in Saves \ {"backup"},
         row.state = "live", row.backupCodes = users[u].backupCodes,
         row.used = users[u].used
  PROVE  row.backupCodes <= made[u] /\ NewCode(u, row, op)
  BY DEF Inv, UserInv, UserOK, NewCode

LEMMA KeepsRow ==
  ASSUME NEW u \in Users, NEW row, NEW op,
         row.email = users[u].email, row.password = users[u].password,
         row.isAnonymous = users[u].isAnonymous
  PROVE  Keeps(u, row, op)
  BY DEF Keeps

\* The reading steps that hold a row
LEMMA ReadsRow ==
  ASSUME Inv, NEW c \in Clients, NEW u \in Users,
         \/ ConvertAnonymousUser(c, u) \/ UpdateProfile(c, u) \/ ChangePassword(c, u)
         \/ DeleteAccount(c, u) \/ VerifyBackupCode(c, u) \/ Disable(c, u)
  PROVE  /\ req' \in [Clients -> Request]
         /\ \A d \in Clients \ {c} : req'[d] = req[d]
         /\ RequestOK(c)'
         /\ req'[c] = req[c] \/ req'[c].at # "spending"
<1>1. /\ req \in [Clients -> Request] /\ users[u] \in User
      /\ users[u].email \in BOOLEAN /\ users[u].password \in BOOLEAN
  BY DEF Inv, Types, User
<1> DEFINE Goal == /\ req' \in [Clients -> Request]
                   /\ \A d \in Clients \ {c} : req'[d] = req[d]
                   /\ RequestOK(c)'
                   /\ req'[c] = req[c] \/ req'[c].at # "spending"
<1>2. ASSUME NEW row \in User, NEW op \in Saves, NEW step \in {"claiming", "saving"},
             Hold(c, step, u, row, op), Found(u), row.state = "live", row.backupCodes <= made[u],
             op = "backup" => row.backupCodes # 0 /\ row.used,
             Keeps(u, row, op), NewCode(u, row, op)
      PROVE  Goal
  <2>1. [at |-> step, user |-> u, row |-> row, op |-> op, stale |-> FALSE] \in Request
    BY Made
  <2>2. /\ req' \in [Clients -> Request]
        /\ \A d \in Clients \ {c} : req'[d] = req[d]
        /\ req'[c] = [at |-> step, user |-> u, row |-> row, op |-> op, stale |-> FALSE]
    BY <1>1, <1>2, <2>1, Becomes DEF Hold
  <2>3. UNCHANGED <<users, spent, overwritten, made>>
    BY <1>2 DEF Hold, tables, backupHistory
  <2>4. RequestOK(c)'
    BY <1>2, <2>2, <2>3, HoldsRow
  <2>5. QED
    BY <2>2, <2>4
<1>3. "profile" \in Saves /\ "password" \in Saves /\ "disable" \in Saves
      /\ "backup" \in Saves /\ "convert" \in Saves /\ "code" \in Saves
  BY DEF Saves
<1>4. CASE ConvertAnonymousUser(c, u)
  <2> DEFINE row(email, password) ==
               [users[u] EXCEPT !.email = users[u].email \/ email,
                                !.password = users[u].password \/ password, !.isAnonymous = FALSE]
  <2>1. PICK email \in BOOLEAN, password \in BOOLEAN :
          /\ Found(u) /\ users[u].isAnonymous
          /\ Hold(c, "claiming", u, row(email, password), "convert")
    BY <1>4 DEF ConvertAnonymousUser
  <2>2. PICK r : /\ r = [users[u] EXCEPT !.email = users[u].email \/ email,
                                        !.password = users[u].password \/ password,
                                        !.isAnonymous = FALSE]
                 /\ Hold(c, "claiming", u, r, "convert")
    BY <2>1
  <2>3. /\ r \in User /\ r.state = users[u].state /\ r.backupCodes = users[u].backupCodes
        /\ r.used = users[u].used
        /\ users[u].email \/ email => r.email
        /\ users[u].password \/ password => r.password
        /\ ~r.isAnonymous
    BY <1>1, <2>1, <2>2 DEF User
  <2> HIDE DEF row
  <2>4. Keeps(u, r, "convert") /\ r.state = "live"
    BY <1>1, <2>1, <2>3 DEF Keeps, Found
  <2>5. r.backupCodes <= made[u] /\ NewCode(u, r, "convert")
    BY <1>3, <2>1, <2>3, <2>4, ReadRow
  <2>6. QED
    BY <1>2, <1>3, <2>1, <2>2, <2>3, <2>4, <2>5
<1>5. CASE UpdateProfile(c, u) \/ ChangePassword(c, u)
  <2>1. PICK op \in {"profile", "password"} : Found(u) /\ Hold(c, "saving", u, users[u], op)
    BY <1>5 DEF UpdateProfile, ChangePassword
  <2>2. Keeps(u, users[u], op) /\ users[u].state = "live"
    BY <2>1, KeepsRow DEF Found
  <2>3. QED
    BY <1>1, <1>2, <1>3, <2>1, <2>2, ReadRow
<1>6. CASE DeleteAccount(c, u)
  <2>1. /\ [at |-> "removing", user |-> u, stale |-> FALSE] \in Request
        /\ Become(c, [at |-> "removing", user |-> u, stale |-> FALSE])
        /\ Found(u) /\ UNCHANGED users
    BY <1>6, Made DEF DeleteAccount, tables
  <2>2. /\ req' \in [Clients -> Request]
        /\ \A d \in Clients \ {c} : req'[d] = req[d]
        /\ req'[c] = [at |-> "removing", user |-> u, stale |-> FALSE]
    BY <1>1, <2>1, Becomes
  <2>3. RequestOK(c)'
    BY <2>1, <2>2 DEF RequestOK, NewRow, HeldRow, FreshRow, FreshEntity, Spared, At, Found
  <2>4. QED
    BY <2>2, <2>3
<1>7. CASE VerifyBackupCode(c, u)
  <2> DEFINE row == [users[u] EXCEPT !.used = TRUE]
  <2>1. /\ Found(u) /\ users[u].backupCodes # 0 /\ ~users[u].used
        /\ Hold(c, "saving", u, row, "backup")
    BY <1>7 DEF VerifyBackupCode
  <2>2. /\ row \in User /\ row.state = users[u].state /\ row.backupCodes = users[u].backupCodes
        /\ row.used /\ row.email = users[u].email /\ row.password = users[u].password
        /\ row.isAnonymous = users[u].isAnonymous
    BY <1>1, MarkedUsed
  <2> HIDE DEF row
  <2>3. Keeps(u, row, "backup") /\ row.state = "live"
    BY <2>1, <2>2, KeepsRow DEF Found
  <2>4. row.backupCodes <= made[u] /\ NewCode(u, row, "backup")
    BY <2>1, <2>2 DEF Inv, UserInv, UserOK, NewCode
  <2>5. QED
    BY <1>2, <1>3, <2>1, <2>2, <2>3, <2>4
<1>8. CASE Disable(c, u)
  <2> DEFINE row == [users[u] EXCEPT !.twoFactorEnabled = FALSE]
  <2>1. Found(u) /\ Hold(c, "saving", u, row, "disable")
    BY <1>8 DEF Disable
  <2>2. /\ row \in User /\ row.state = users[u].state /\ row.backupCodes = users[u].backupCodes
        /\ row.used = users[u].used /\ row.email = users[u].email
        /\ row.password = users[u].password /\ row.isAnonymous = users[u].isAnonymous
    BY <1>1, Disabled
  <2> HIDE DEF row
  <2>3. Keeps(u, row, "disable") /\ row.state = "live"
    BY <2>1, <2>2, KeepsRow DEF Found
  <2>4. QED
    BY <1>2, <1>3, <2>1, <2>2, <2>3, ReadRow
<1>9. QED
  BY <1>4, <1>5, <1>6, <1>7, <1>8

\* More than one link is two of them,
LEMMA ManyLinks ==
  ASSUME NEW u \in Users, Cardinality(Linked(u)) > 1
  PROVE  \E p, q \in Linked(u) : p # q
<1>1. CASE Linked(u) = {}
  BY <1>1, FS_EmptySet
<1>2. ASSUME NEW p \in Linked(u), \A q \in Linked(u) : q = p
      PROVE  FALSE
  <2>1. Linked(u) = {p}
    BY <1>2
  <2>2. QED
    BY <2>1, FS_Singleton
<1>3. QED
  BY <1>1, <1>2

\* and users of whom any two are the same are one at most.
LEMMA OneOrNone ==
  ASSUME NEW S, \A u, v \in S : u = v
  PROVE  Cardinality(S) <= 1
<1>1. CASE S = {}
  BY <1>1, FS_EmptySet
<1>2. ASSUME NEW u \in S
      PROVE  Cardinality(S) <= 1
  <2>1. S = {u}
    BY <1>2
  <2>2. Cardinality(S) = 1
    BY <2>1, FS_Singleton
  <2>3. QED
    BY <2>2
<1>3. QED
  BY <1>1, <1>2

LEMMA ReadsFrame ==
  ASSUME NEW c \in Clients, Reads(c)
  PROVE  /\ UNCHANGED <<options, users, accounts, codes, codeHistory, backupHistory, overwritten>>
         /\ Link(c) \/ Fails(c) \/ UNCHANGED cutOff
  BY DEF Reads, Register, Claim, EnterByOtp, EnterByLink, Match, Link, CountAccounts,
         LoginWithPassword, CompleteAuthentication, Discard, Fails, ConvertAnonymousUser, UpdateProfile,
         ChangePassword, DeleteAccount, VerifyBackupCode, Disable, CompleteRegistration,
         DeletePasskey, LinkAccount, UnlinkAccount, Authenticate, AuthenticateWithSSO, Hold, tables

\* An entity that stays as it was
LEMMA SameRow ==
  ASSUME NEW c \in Clients, RequestOK(c), req'[c] = req[c],
         UNCHANGED <<users, accounts, made, spent, overwritten>>, cutOff \subseteq cutOff'
  PROVE  RequestOK(c)'
  BY DEF RequestOK, NewRow, HeldRow, FreshRow, FreshEntity, Spared, At, Found, Keeps, NewCode, Lost,
         Linked

\* Claim() goes on with the entity that was read.
LEMMA ClaimOK ==
  ASSUME Inv, NEW c \in Clients, Claim(c)
  PROVE  /\ req' \in [Clients -> Request]
         /\ \A d \in Clients \ {c} : req'[d] = req[d]
         /\ RequestOK(c)'
         /\ req'[c] = req[c] \/ req'[c].at # "spending"
<1>1. req \in [Clients -> Request] /\ req[c] \in Request /\ At(c, "claiming")
  BY DEF Inv, Types, Claim
<1>2. PICK u \in Users, row \in User, op \in Saves, stale \in BOOLEAN :
        u = req[c].user /\ row = req[c].row /\ op = req[c].op /\ stale = req[c].stale
  BY <1>1, Locals DEF At
<1>3. Become(c, [at |-> "saving", user |-> u, row |-> row, op |-> op, stale |-> stale])
  BY <1>1, <1>2, Onward DEF Claim, At
<1>4. [at |-> "saving", user |-> u, row |-> row, op |-> op, stale |-> stale] \in Request
  BY Made
<1>5. /\ req' \in [Clients -> Request] /\ \A d \in Clients \ {c} : req'[d] = req[d]
      /\ req'[c] = [at |-> "saving", user |-> u, row |-> row, op |-> op, stale |-> stale]
  BY <1>1, <1>3, <1>4, Becomes
<1>6. UNCHANGED <<users, made, spent, overwritten>>
  BY DEF Claim, tables, backupHistory
<1>7. RequestOK(c)
  BY DEF Inv, RequestInv
<1>8. RequestOK(c)'
  BY <1>1, <1>2, <1>5, <1>6, <1>7 DEF RequestOK, NewRow, HeldRow, FreshRow, FreshEntity, Spared,
     At, Found, Keeps, NewCode
<1>9. QED
  BY <1>5, <1>8

\* The user that is found by a code, or will be created
LEMMA EnterOK ==
  ASSUME Inv, NEW c \in Clients, EnterByOtp(c) \/ EnterByLink(c)
  PROVE  /\ req' \in [Clients -> Request]
         /\ \A d \in Clients \ {c} : req'[d] = req[d]
         /\ RequestOK(c)'
         /\ req'[c] = req[c] \/ req'[c].at # "spending"
<1>1. req \in [Clients -> Request] /\ users \in [Users -> User]
  BY DEF Inv, Types
<1>2. FindOrCreate(c) /\ UNCHANGED <<users, made, spent, overwritten>>
  BY DEF EnterByOtp, EnterByLink, tables, backupHistory
<1>3. CASE Become(c, [at |-> "creating", row |-> NewUser(TRUE, TRUE, FALSE, FALSE, FALSE),
                        link |-> None])
  <2> DEFINE row == NewUser(TRUE, TRUE, FALSE, FALSE, FALSE)
  <2>1. row \in User /\ row.state = "live" /\ row.backupCodes = 0
    BY NewUserType
  <2> HIDE DEF row
  <2>2. [at |-> "creating", row |-> row, link |-> None] \in Request
    BY <2>1, Made
  <2>3. /\ req' \in [Clients -> Request] /\ \A d \in Clients \ {c} : req'[d] = req[d]
        /\ req'[c] = [at |-> "creating", row |-> row, link |-> None]
    BY <1>1, <1>3, <2>2, Becomes DEF row
  <2>4. RequestOK(c)'
    BY <2>1, <2>3, HoldsNewRow
  <2>5. QED
    BY <2>3, <2>4
<1>4. ASSUME NEW u \in HasEmail,
             Become(c, [at |-> "saving", user |-> u, op |-> "code", stale |-> FALSE,
                        row |-> [users[u] EXCEPT !.emailVerified = TRUE]])
      PROVE  /\ req' \in [Clients -> Request]
             /\ \A d \in Clients \ {c} : req'[d] = req[d]
             /\ RequestOK(c)'
             /\ req'[c] = req[c] \/ req'[c].at # "spending"
  <2> DEFINE row == [users[u] EXCEPT !.emailVerified = TRUE]
  <2>1. u \in Users /\ Found(u) /\ users[u] \in User /\ "code" \in Saves \ {"backup"}
    BY <1>1 DEF HasEmail, Saves
  <2>2. /\ row \in User /\ row.state = users[u].state /\ row.backupCodes = users[u].backupCodes
        /\ row.used = users[u].used /\ row.email = users[u].email
        /\ row.password = users[u].password /\ row.isAnonymous = users[u].isAnonymous
    BY <2>1, Verified
  <2>3. Become(c, [at |-> "saving", user |-> u, row |-> row, op |-> "code", stale |-> FALSE])
    BY <1>4
  <2> HIDE DEF row
  <2>4. Keeps(u, row, "code") /\ row.state = "live"
    BY <2>1, <2>2, KeepsRow DEF Found
  <2>5. row.backupCodes <= made[u] /\ NewCode(u, row, "code")
    BY <2>1, <2>2, <2>4, ReadRow
  <2>6. [at |-> "saving", user |-> u, row |-> row, op |-> "code", stale |-> FALSE] \in Request
    BY <2>1, <2>2, Made
  <2>7. /\ req' \in [Clients -> Request] /\ \A d \in Clients \ {c} : req'[d] = req[d]
        /\ req'[c] = [at |-> "saving", user |-> u, row |-> row, op |-> "code", stale |-> FALSE]
    BY <1>1, <2>3, <2>6, Becomes
  <2>8. RequestOK(c)'
    BY <1>2, <2>1, <2>2, <2>4, <2>5, <2>7, HoldsRow
  <2>9. QED
    BY <2>7, <2>8
<1>5. CASE Become(c, Idle)
  <2>1. /\ req' \in [Clients -> Request] /\ req'[c] = Idle
        /\ \A d \in Clients \ {c} : req'[d] = req[d]
    BY <1>1, <1>5, Made, Becomes
  <2>2. QED
    BY <2>1, HoldsNothing DEF Idle
<1>6. QED
  BY <1>2, <1>3, <1>4, <1>5 DEF FindOrCreate, End

\* The other reading steps
LEMMA ReadsRest ==
  ASSUME Inv, NEW c \in Clients,
         \/ Register(c) \/ Match(c) \/ Link(c) \/ CountAccounts(c) \/ LoginWithPassword(c)
         \/ CompleteAuthentication(c) \/ Discard(c) \/ Fails(c)
         \/ \E u \in Users : \/ CompleteRegistration(c, u) \/ DeletePasskey(c, u)
                             \/ \E p \in Identities : LinkAccount(c, u, p) \/ UnlinkAccount(c, u, p)
         \/ \E p \in Identities : \/ AuthenticateWithSSO(c, p)
                                  \/ \E email \in BOOLEAN : Authenticate(c, p, email)
  PROVE  /\ req' \in [Clients -> Request]
         /\ \A d \in Clients \ {c} : req'[d] = req[d]
         /\ RequestOK(c)'
         /\ req'[c] = req[c] \/ req'[c].at # "spending"
<1>1. /\ req \in [Clients -> Request] /\ req[c] \in Request /\ users \in [Users -> User]
      /\ RequestOK(c)
  BY DEF Inv, Types, RequestInv
<1> DEFINE Goal == /\ req' \in [Clients -> Request]
                   /\ \A d \in Clients \ {c} : req'[d] = req[d]
                   /\ RequestOK(c)'
                   /\ req'[c] = req[c] \/ req'[c].at # "spending"
<1>2. UNCHANGED <<users, accounts, made, spent, overwritten>>
  BY ReadsFrame DEF Reads, backupHistory
<1>3. ASSUME NEW r \in Request, Become(c, r),
             r.at \notin {"creating", "claiming", "saving", "removing", "counting", "unlinking",
                       "spending"}
      PROVE  Goal
  BY <1>1, <1>3, Becomes, HoldsNothing
<1>4. CASE UNCHANGED req /\ UNCHANGED cutOff
  BY <1>1, <1>2, <1>4, SameRow
<1>5. ASSUME NEW row \in User, NEW link \in Identities \cup {None},
             Become(c, [at |-> "creating", row |-> row, link |-> link]),
             row.state = "live", row.backupCodes = 0,
             link # None => ~row.password
      PROVE  Goal
  <2>1. [at |-> "creating", row |-> row, link |-> link] \in Request
    BY Made
  <2>2. /\ req' \in [Clients -> Request] /\ \A d \in Clients \ {c} : req'[d] = req[d]
        /\ req'[c] = [at |-> "creating", row |-> row, link |-> link]
    BY <1>1, <1>5, <2>1, Becomes
  <2>3. QED
    BY <1>5, <2>2, HoldsNewRow
<1>6. CASE Register(c)
  <2>1. PICK email \in BOOLEAN, phone \in BOOLEAN, password \in BOOLEAN :
          Become(c, [at |-> "creating", link |-> None,
                     row |-> NewUser(email, FALSE, phone, password, FALSE)])
    BY <1>6 DEF Register
  <2> DEFINE row == NewUser(email, FALSE, phone, password, FALSE)
  <2>2. row \in User /\ row.state = "live" /\ row.backupCodes = 0
    BY AccountsAssumption DEF NewUser, User
  <2>3. Become(c, [at |-> "creating", row |-> row, link |-> None])
    BY <2>1
  <2> HIDE DEF row
  <2>4. QED
    BY <1>5, <2>2, <2>3
<1>7. CASE Match(c)
  <2>1. PICK p \in Identities : p = req[c].id
    BY <1>1, <1>7, Locals DEF Match, At
  <2>2. CASE \E u \in HasEmail : Become(c, [at |-> LinkStep(p), id |-> p, user |-> u,
                                           second |-> users[u].twoFactorEnabled])
    <3>1. PICK u \in HasEmail : Become(c, [at |-> LinkStep(p), id |-> p, user |-> u,
                                           second |-> users[u].twoFactorEnabled])
      BY <2>2
    <3>2. /\ u \in Users /\ users[u].twoFactorEnabled \in BOOLEAN
          /\ LinkStep(p) \in {"linking", "attaching"}
      BY <1>1 DEF HasEmail, User, LinkStep
    <3>3. PICK second \in BOOLEAN, step \in {"linking", "attaching"} :
            second = users[u].twoFactorEnabled /\ step = LinkStep(p)
      BY <3>2
    <3>4. [at |-> step, id |-> p, user |-> u, second |-> second] \in Request
      BY <3>2, Made
    <3>5. QED
      BY <1>3, <3>1, <3>3, <3>4
  <2>3. ASSUME NEW email \in BOOLEAN, NEW verified \in BOOLEAN,
               Become(c, [at |-> "creating", link |-> p,
                          row |-> NewUser(email, verified, FALSE, FALSE, FALSE)])
        PROVE  Goal
    <3> DEFINE row == NewUser(email, verified, FALSE, FALSE, FALSE)
    <3>1. row \in User /\ row.state = "live" /\ row.backupCodes = 0 /\ row.password = FALSE
      BY AccountsAssumption DEF NewUser, User
    <3>2. Become(c, [at |-> "creating", row |-> row, link |-> p])
      BY <2>3
    <3> HIDE DEF row
    <3>3. QED
      BY <1>5, <3>1, <3>2
  <2>4. req[c].email \in BOOLEAN
    BY <1>1, <1>7, Locals DEF Match, At
  <2>5. QED
    BY <1>7, <2>1, <2>2, <2>3, <2>4 DEF Match
<1>8. CASE Link(c)
  <2>1. req[c].id \in Identities /\ req[c].user \in Users /\ req[c].second \in BOOLEAN
    BY <1>1, <1>8, Locals DEF Link, At
  <2>2. [at |-> "attaching", id |-> req[c].id, user |-> req[c].user, second |-> req[c].second] \in Request
    BY <2>1, Made
  <2>3. CASE Become(c, [req[c] EXCEPT !.at = "attaching"])
    <3>1. [req[c] EXCEPT !.at = "attaching"]
            = [at |-> "attaching", id |-> req[c].id, user |-> req[c].user, second |-> req[c].second]
      BY <1>1, <1>8, Onward DEF Link, At
    <3>2. QED
      BY <1>3, <2>2, <2>3, <3>1
  <2>4. CASE Become(c, Idle)
    BY <1>3, <2>4, Made DEF Idle
  <2>5. QED
    BY <1>8, <2>3, <2>4 DEF Link, End
<1>9. CASE CountAccounts(c)
  <2>1. PICK p \in Identities, u \in Users : p = req[c].id /\ u = req[c].user
    BY <1>1, <1>9, Locals DEF CountAccounts, At
  <2>2. [at |-> "unlinking", id |-> p, user |-> u] \in Request
    BY Made
  <2>3. /\ req' \in [Clients -> Request] /\ \A d \in Clients \ {c} : req'[d] = req[d]
        /\ req'[c] = [at |-> "unlinking", id |-> p, user |-> u]
    BY <1>1, <1>9, <2>1, <2>2, Becomes DEF CountAccounts
  <2>4. req[c].password => users[u].password \/ Lost(u)
    BY <1>1, <1>9, <2>1 DEF RequestOK, Spared, CountAccounts
  <2>5. Cardinality(Linked(u)) > 1 => \E p1, p2 \in Linked(u) : p1 # p2
    BY ManyLinks
  <2>6. users[u].password \/ Lost(u) \/ \E p1, p2 \in Linked(u) : p1 # p2
    BY <1>9, <2>1, <2>4, <2>5 DEF CountAccounts
  <2>7. RequestOK(c)'
    BY <1>2, <2>3, <2>6 DEF RequestOK, NewRow, HeldRow, FreshRow, FreshEntity, Spared, At, Lost, Linked
  <2>8. QED
    BY <2>3, <2>7
<1>10. CASE Discard(c) \/ Fails(c)
  BY <1>3, <1>10, Made DEF Discard, Fails, End, Idle
<1>11. ASSUME NEW u \in Users, CompleteRegistration(c, u)
       PROVE  Goal
  BY <1>4, <1>11 DEF CompleteRegistration
<1>12. ASSUME NEW u \in Users, DeletePasskey(c, u)
       PROVE  Goal
  BY <1>3, <1>12, Made DEF DeletePasskey
<1>13. ASSUME NEW u \in Users, NEW p \in Identities, LinkAccount(c, u, p)
       PROVE  Goal
  BY <1>3, <1>13, Made DEF LinkAccount
<1>14. ASSUME NEW u \in Users, NEW p \in Identities, UnlinkAccount(c, u, p)
       PROVE  Goal
  <2>1. users[u].password \in BOOLEAN
    BY <1>1 DEF User
  <2>2. [at |-> "counting", id |-> p, user |-> u, password |-> users[u].password] \in Request
    BY <2>1, Made
  <2>3. /\ req' \in [Clients -> Request] /\ \A d \in Clients \ {c} : req'[d] = req[d]
        /\ req'[c] = [at |-> "counting", id |-> p, user |-> u, password |-> users[u].password]
    BY <1>1, <1>14, <2>2, Becomes DEF UnlinkAccount
  <2>4. RequestOK(c)'
    BY <1>2, <2>3 DEF RequestOK, NewRow, HeldRow, FreshRow, FreshEntity, Spared, At
  <2>5. QED
    BY <2>3, <2>4
<1>15. ASSUME NEW p \in Identities, NEW email \in BOOLEAN,
              LoginLinked(c, p) \/ StartMatching(c, p, email), UNCHANGED cutOff
       PROVE  Goal
  BY <1>3, <1>4, <1>15, Made DEF LoginLinked, StartMatching
<1>16. ASSUME NEW p \in Identities,
              AuthenticateWithSSO(c, p) \/ \E email \in BOOLEAN : Authenticate(c, p, email)
       PROVE  Goal
  BY <1>15, <1>16 DEF AuthenticateWithSSO, Authenticate
<1>17. CASE LoginWithPassword(c) \/ CompleteAuthentication(c)
  BY <1>4, <1>17 DEF LoginWithPassword, CompleteAuthentication
<1>18. QED
  BY <1>6, <1>7, <1>8, <1>9, <1>10, <1>11, <1>12, <1>13, <1>14, <1>16, <1>17

--------------------------------------------------------------------------------
(* The rows after a step that writes none *)

LEMMA WayInKept ==
  ASSUME NEW u \in Users, HasWayIn(u),
         users[u].password => users'[u].password, users[u].email => users'[u].email,
         Linked(u) # {} => Linked(u)' # {} \/ u \in cutOff',
         \A d \in Clients : u \in Linking(d) =>
           u \in Linking(d)' \/ u \in cutOff' \/ Linked(u)' # {},
         cutOff \subseteq cutOff', overwritten \subseteq overwritten', UNCHANGED options
  PROVE  HasWayIn(u)'
  BY DEF HasWayIn, Opens, Registered

LEMMA UserKept ==
  ASSUME NEW u \in Users, UserOK(u), users'[u] = users[u], HasWayIn(u) => HasWayIn(u)',
         made[u] \in Nat, made'[u] \in Nat, users[u].backupCodes \in Nat, made[u] <= made'[u],
         \A g : <<u, g>> \in spent' <=> <<u, g>> \in spent,
         cutOff \subseteq cutOff', overwritten \subseteq overwritten', UNCHANGED options
  PROVE  UserOK(u)'
  BY DEF UserOK, Exists, Opens, Registered

\* What a reading step leaves of the links under way
LEMMA ReadsLinking ==
  ASSUME Types, NEW c \in Clients, Reads(c), \A d \in Clients \ {c} : req'[d] = req[d],
         NEW u \in Users, NEW d \in Clients, u \in Linking(d)
  PROVE  u \in Linking(d)' \/ u \in cutOff' \/ Linked(u) # {}
<1>1. req \in [Clients -> Request] /\ accounts \in [Identities -> Users \cup {None}]
  BY DEF Types, Account
<1>2. CASE d # c
  BY <1>2 DEF Linking
<1>3. CASE d = c
  <2>1. req[c] \in Request /\ req[c].at \in {"linking", "attaching"} /\ req[c].user = u
    BY <1>1, <1>3 DEF Linking
  <2>2. CASE Link(c)
    <3>1. CASE accounts[req[c].id] = None
      <4>1. req[c].at = "linking" /\ req'[c] = [req[c] EXCEPT !.at = "attaching"]
        BY <1>1, <2>2, <3>1 DEF Link, At, Become
      <4>2. req'[c].at = "attaching" /\ req'[c].user = u
        BY <2>1, <4>1, Onward
      <4>3. QED
        BY <1>3, <4>2 DEF Linking
    <3>2. CASE accounts[req[c].id] # None
      <4>1. CASE accounts[req[c].id] = u
        BY <1>1, <2>1, <4>1, Locals DEF Linked
      <4>2. CASE accounts[req[c].id] # u
        BY <2>1, <2>2, <3>2, <4>2 DEF Link
      <4>3. QED
        BY <4>1, <4>2
    <3>3. QED
      BY <3>1, <3>2
  <2>3. CASE Fails(c)
    BY <1>3, <2>3 DEF Fails
  <2>4. QED
    BY <2>1, <2>2, <2>3 DEF Reads, Register, Claim, EnterByOtp, EnterByLink, Match, CountAccounts,
       LoginWithPassword, CompleteAuthentication, Discard, ConvertAnonymousUser, UpdateProfile, ChangePassword,
       DeleteAccount, VerifyBackupCode, Disable, CompleteRegistration, DeletePasskey, LinkAccount,
       UnlinkAccount, Authenticate, AuthenticateWithSSO, At
<1>4. QED
  BY <1>2, <1>3

LEMMA ReadsIssued ==
  ASSUME Types, NEW c \in Clients, Reads(c)
  PROVE  issued' \subseteq Users /\ passkeys' \subseteq Users /\ cutOff' \subseteq Users
         /\ cutOff \subseteq cutOff'
<1>1. /\ req[c] \in Request /\ issued \subseteq Users /\ passkeys \subseteq Users
      /\ accounts \in [Identities -> Users \cup {None}] /\ cutOff \subseteq Users
  BY DEF Types, Account
<1>2. cutOff' \subseteq Users /\ cutOff \subseteq cutOff'
  <2>1. Linking(c) \subseteq Users
    BY <1>1, Locals DEF Linking
  <2>2. CASE Link(c)
    BY <1>1, <2>2, Locals DEF Link, At
  <2>3. CASE Fails(c)
    BY <1>1, <2>1, <2>3 DEF Fails
  <2>4. QED
    BY <1>1, <2>2, <2>3, ReadsFrame
<1>3. passkeys' \subseteq Users
  BY <1>1 DEF Reads, Register, Claim, EnterByOtp, EnterByLink, Match, Link, CountAccounts,
     LoginWithPassword, CompleteAuthentication, Discard, Fails, ConvertAnonymousUser, UpdateProfile, ChangePassword,
     DeleteAccount, VerifyBackupCode, Disable, CompleteRegistration, DeletePasskey, LinkAccount,
     UnlinkAccount, Authenticate, AuthenticateWithSSO, Hold, tables
<1>4. \/ UNCHANGED issued
      \/ \E u \in Users : issued' = issued \cup {u}
  <2>1. CASE Link(c)
    <3>1. req[c].user \in Users
      BY <1>1, <2>1, Locals DEF Link, At
    <3>2. QED
      BY <2>1, <3>1 DEF Link, Login
  <2>2. CASE EnterByOtp(c) \/ EnterByLink(c)
    BY <2>2 DEF EnterByOtp, EnterByLink, FindOrCreate, HasEmail, Login
  <2>3. CASE LoginWithPassword(c) \/ CompleteAuthentication(c)
    BY <1>1, <2>3 DEF LoginWithPassword, FindUserByIdentifier, HasEmail, CompleteAuthentication,
       Login
  <2>4. ASSUME NEW p \in Identities,
               AuthenticateWithSSO(c, p) \/ \E email \in BOOLEAN : Authenticate(c, p, email)
        PROVE  \/ UNCHANGED issued
               \/ \E u \in Users : issued' = issued \cup {u}
    BY <1>1, <2>4 DEF AuthenticateWithSSO, Authenticate, LoginLinked, StartMatching, Login
  <2>5. CASE \/ Register(c) \/ Claim(c) \/ Match(c) \/ CountAccounts(c) \/ Discard(c) \/ Fails(c)
             \/ \E u \in Users : \/ ConvertAnonymousUser(c, u) \/ UpdateProfile(c, u) \/ ChangePassword(c, u)
                                 \/ DeleteAccount(c, u) \/ VerifyBackupCode(c, u) \/ Disable(c, u)
                                 \/ CompleteRegistration(c, u) \/ DeletePasskey(c, u)
                                 \/ \E p \in Identities : LinkAccount(c, u, p) \/ UnlinkAccount(c, u, p)
    BY <2>5 DEF Register, Claim, Match, CountAccounts, Discard, Fails, ConvertAnonymousUser,
       UpdateProfile, ChangePassword, DeleteAccount, VerifyBackupCode, Disable,
       CompleteRegistration, DeletePasskey, LinkAccount, UnlinkAccount, Hold, tables
  <2>6. QED
    BY <2>1, <2>2, <2>3, <2>4, <2>5, Zenon DEF Reads
<1>5. QED
  BY <1>1, <1>2, <1>3, <1>4

LEMMA ReadsInv ==
  ASSUME Inv, NEW c \in Clients, Reads(c)
  PROVE  /\ Inv' /\ \A d \in Clients \ {c} : req'[d] = req[d]
         /\ req'[c] = req[c] \/ req'[c].at # "spending"
<1>1. /\ req' \in [Clients -> Request] /\ RequestOK(c)'
      /\ \A d \in Clients \ {c} : req'[d] = req[d]
      /\ req'[c] = req[c] \/ req'[c].at # "spending"
  BY ReadsRow, ReadsRest, ClaimOK, EnterOK, Zenon DEF Reads
<1>2. /\ UNCHANGED <<options, users, accounts, codes, made, spent, again, accepted, reused, overwritten>>
      /\ issued' \subseteq Users /\ passkeys' \subseteq Users /\ cutOff' \subseteq Users
      /\ cutOff \subseteq cutOff'
  BY ReadsFrame, ReadsIssued DEF Inv, codeHistory, backupHistory
<1>3. Types'
  BY <1>1, <1>2 DEF Inv, Types
<1>4. RequestInv'
  BY <1>1, <1>2, SameRow DEF Inv, RequestInv
<1>5. ASSUME NEW u \in Users
      PROVE  UserOK(u)'
  <2>1. HasWayIn(u) => HasWayIn(u)'
    <3>1. \A d \in Clients : u \in Linking(d) =>
            u \in Linking(d)' \/ u \in cutOff' \/ Linked(u) # {}
      BY <1>1, ReadsLinking DEF Inv
    <3>2. Linked(u)' = Linked(u)
      BY <1>2 DEF Linked
    <3>3. QED
      BY <1>2, <3>1, <3>2, WayInKept
  <2>2. made[u] \in Nat /\ users[u].backupCodes \in Nat
    BY AccountsAssumption DEF Inv, Types, User
  <2>3. QED
    BY <1>2, <2>1, <2>2, UserKept DEF Inv, UserInv
<1>6. UserInv'
  BY <1>2, <1>5 DEF Inv, UserInv
<1>7. QED
  BY <1>1, <1>3, <1>4, <1>6 DEF Inv

--------------------------------------------------------------------------------
(* What other requests hold when a row is written *)

\* Nothing changes about the user whose row is held, but that some link comes.
LEMMA OtherRow ==
  ASSUME NEW d \in Clients, RequestOK(d), req'[d] = req[d],
         req[d].at \in {"claiming", "saving", "removing", "counting", "unlinking"} =>
           /\ users'[req[d].user] = users[req[d].user]
           /\ made'[req[d].user] = made[req[d].user]
           /\ \A g : <<req[d].user, g>> \in spent' <=> <<req[d].user, g>> \in spent
           /\ At(d, "unlinking") => req[d].user \in cutOff' \/ Linked(req[d].user) \subseteq Linked(req[d].user)',
         overwritten \subseteq overwritten', cutOff \subseteq cutOff'
  PROVE  RequestOK(d)'
<1>1. NewRow(d)' /\ HeldRow(d)' /\ FreshRow(d)'
  BY DEF RequestOK, NewRow, HeldRow, FreshRow, At, Found
<1>2. FreshEntity(d)'
  BY DEF RequestOK, FreshEntity, Keeps, NewCode
<1>3. Spared(d)'
  BY DEF RequestOK, Spared, Lost, At
<1>4. QED
  BY <1>1, <1>2, <1>3 DEF RequestOK

\* The row was written by another.
LEMMA StaleRow ==
  ASSUME NEW d \in Clients, RequestOK(d), req[d].at \in {"claiming", "saving", "removing"},
         req'[d].at = req[d].at, req'[d].user = req[d].user, req'[d].stale,
         req[d].at # "removing" => req'[d].row = req[d].row /\ req'[d].op = req[d].op,
         made'[req[d].user] = made[req[d].user]
  PROVE  RequestOK(d)'
  BY DEF RequestOK, NewRow, HeldRow, FreshRow, FreshEntity, Spared, At

\* No row is held.
LEMMA NoRowHeld ==
  ASSUME NEW d \in Clients, RequestOK(d), req'[d] = req[d],
         req[d].at \notin {"claiming", "saving", "removing"}, Spared(d)'
  PROVE  RequestOK(d)'
  BY DEF RequestOK, NewRow, HeldRow, FreshRow, FreshEntity, At

--------------------------------------------------------------------------------
(* New rows *)

LEMMA InsertOthers ==
  ASSUME Inv, NEW c \in Clients, NEW u \in Users, NEW r \in User, Insert(u, r),
         \A d \in Clients \ {c} : req'[d] = req[d],
         UNCHANGED <<options, made, spent, overwritten>>, cutOff \subseteq cutOff'
  PROVE  /\ \A d \in Clients \ {c} : RequestOK(d)'
         /\ req[c].at \notin {"linking", "attaching"} => \A v \in Users \ {u} : UserOK(v)'
<1>1. /\ users \in [Users -> User] /\ req \in [Clients -> Request]
      /\ \A v \in Users : made[v] \in Nat /\ users[v].backupCodes \in Nat
  BY AccountsAssumption DEF Inv, Types, User
<1>2. /\ users[u].state = "unused" /\ users' = [users EXCEPT ![u] = r] /\ UNCHANGED accounts
  BY DEF Insert
<1>3. \A v \in Users : Linked(v)' = Linked(v)
  BY <1>2 DEF Linked
<1>4. ASSUME NEW d \in Clients \ {c}
      PROVE  RequestOK(d)'
  <2>1. RequestOK(d) /\ req'[d] = req[d] /\ req[d] \in Request
    BY <1>1 DEF Inv, RequestInv
  <2>2. CASE /\ req[d].at \in {"claiming", "saving", "removing", "counting", "unlinking"}
             /\ req[d].user = u
    <3>1. CASE req[d].at \in {"claiming", "saving", "removing"}
      <4>1. req[d].stale
        BY <1>2, <2>1, <2>2, <3>1 DEF RequestOK, FreshRow, Found
      <4>2. QED
        BY <2>1, <3>1, <4>1, StaleRow
    <3>2. CASE req[d].at \in {"counting", "unlinking"}
      <4>1. ~users[u].password /\ users[u].state # "gone"
        BY <1>2 DEF Inv, UserInv, UserOK
      <4>2. Spared(d)'
        BY <1>3, <2>1, <2>2, <4>1 DEF RequestOK, Spared, Lost, At
      <4>3. QED
        BY <2>1, <3>2, <4>2, NoRowHeld
    <3>3. QED
      BY <2>2, <3>1, <3>2
  <2>3. CASE ~(/\ req[d].at \in {"claiming", "saving", "removing", "counting", "unlinking"}
               /\ req[d].user = u)
    BY <1>1, <1>2, <1>3, <2>1, <2>3, Locals, OtherRow
  <2>4. QED
    BY <2>2, <2>3
<1>5. ASSUME req[c].at \notin {"linking", "attaching"}, NEW v \in Users \ {u}
      PROVE  UserOK(v)'
  <2>1. users'[v] = users[v] /\ UserOK(v)
    BY <1>1, <1>2 DEF Inv, UserInv
  <2>2. \A d \in Clients : v \in Linking(d) => v \in Linking(d)'
    BY <1>5 DEF Linking
  <2>3. HasWayIn(v) => HasWayIn(v)'
    BY <1>3, <2>1, <2>2, WayInKept
  <2>4. QED
    BY <1>1, <2>1, <2>3, UserKept
<1>6. QED
  BY <1>4, <1>5

LEMMA InsertsInv ==
  ASSUME Inv, NEW c \in Clients, Inserts(c)
  PROVE  Inv' /\ \A d \in Clients \ {c} : req'[d] = req[d]
<1>1. /\ users \in [Users -> User] /\ req \in [Clients -> Request] /\ req[c] \in Request
      /\ \A v \in Users : made[v] \in Nat /\ users[v].backupCodes \in Nat
      /\ RequestOK(c)
  BY AccountsAssumption DEF Inv, Types, User, RequestInv
<1>2. PICK u \in Users, r \in User :
        /\ Insert(u, r) /\ r.state = "live" /\ r.backupCodes = 0
        /\ r.password => Opens(r) \/ u \in cutOff'
        /\ \/ r.isAnonymous \/ Opens(r) \/ Linked(u) # {} \/ u \in cutOff'
           \/ req'[c].at \in {"linking", "attaching"} /\ req'[c].user = u
        /\ UNCHANGED cutOff \/ cutOff' = cutOff \cup {u}
        /\ \E q \in Request :
             /\ Become(c, q)
             /\ q.at \notin {"creating", "claiming", "saving", "removing", "counting", "unlinking"}
        /\ req[c].at \notin {"linking", "attaching"}
        /\ UNCHANGED issued \/ issued' = issued \cup {u}
        /\ UNCHANGED <<options, passkeys, codes, codeHistory, backupHistory, overwritten>>
  <2>1. CASE Create(c)
    <3>1. PICK u \in Users :
            /\ Insert(u, req[c].row) /\ issued' = issued \cup {u} /\ Become(c, Idle)
            /\ cutOff' = IF Stranded(u, req[c].row) THEN cutOff \cup {u} ELSE cutOff
      BY <2>1 DEF Create, InsertAndLogin, Login, End
    <3>2. /\ req[c].row \in User /\ req[c].row.state = "live" /\ req[c].row.backupCodes = 0
          /\ req[c].at \notin {"linking", "attaching"}
      BY <1>1, <2>1, Locals DEF Create, At, RequestOK, NewRow
    <3>3. UNCHANGED <<options, passkeys, codes, codeHistory, backupHistory, overwritten>>
      BY <2>1, <3>1 DEF Create, Insert
    <3>4. /\ req[c].row.password => Opens(req[c].row) \/ u \in cutOff'
          /\ Opens(req[c].row) \/ Linked(u) # {} \/ u \in cutOff'
      BY <3>1 DEF Stranded
    <3>5. QED
      BY <3>1, <3>2, <3>3, <3>4, Made DEF Idle
  <2>2. CASE LoginAnonymous(c)
    <3> DEFINE r == NewUser(FALSE, FALSE, FALSE, FALSE, TRUE)
    <3>1. PICK u \in Users : Insert(u, r) /\ issued' = issued \cup {u}
      BY <2>2 DEF LoginAnonymous, InsertAndLogin, Login
    <3>2. /\ r \in User /\ r.state = "live" /\ r.backupCodes = 0 /\ r.isAnonymous = TRUE
          /\ r.password = FALSE
      BY NewUserType
    <3> HIDE DEF r
    <3>3. Become(c, Idle) /\ Idle \in Request /\ req[c].at = "idle"
      BY <2>2, Made DEF LoginAnonymous, InsertAndLogin, End, At
    <3>4. UNCHANGED <<options, passkeys, codes, codeHistory, backupHistory, overwritten, cutOff>>
      BY <2>2, <3>1 DEF LoginAnonymous, Insert
    <3>5. QED
      BY <3>1, <3>2, <3>3, <3>4 DEF Idle
  <2>3. CASE CreateAndLink(c)
    <3>1. PICK u \in Users :
            /\ Insert(u, req[c].row)
            /\ Become(c, [at |-> LinkStep(req[c].link), id |-> req[c].link, user |-> u, second |-> FALSE])
      BY <2>3 DEF CreateAndLink
    <3>2. PICK p \in Identities, step \in {"linking", "attaching"} :
            p = req[c].link /\ step = LinkStep(p)
      BY <1>1, <2>3, Locals DEF CreateAndLink, At, LinkStep
    <3>3. PICK q \in Request : q = [at |-> step, id |-> p, user |-> u, second |-> FALSE]
      BY Made
    <3>4. Become(c, q) /\ req'[c] = q
      BY <1>1, <3>1, <3>2, <3>3 DEF Become
    <3>5. /\ req[c].row \in User /\ req[c].row.state = "live" /\ req[c].row.backupCodes = 0
          /\ ~req[c].row.password
          /\ req[c].at \notin {"linking", "attaching"}
      BY <1>1, <2>3, Locals DEF CreateAndLink, At, RequestOK, NewRow
    <3>6. UNCHANGED <<options, issued, passkeys, codes, codeHistory, backupHistory, overwritten, cutOff>>
      BY <2>3, <3>1 DEF CreateAndLink, Insert
    <3>7. QED
      BY <3>1, <3>3, <3>4, <3>5, <3>6
  <2>4. QED
    BY <2>1, <2>2, <2>3 DEF Inserts
<1>3. /\ req' \in [Clients -> Request] /\ \A d \in Clients \ {c} : req'[d] = req[d]
      /\ req'[c].at \notin {"creating", "claiming", "saving", "removing", "counting", "unlinking"}
  BY <1>1, <1>2, Becomes
<1>4. RequestOK(c)'
  BY <1>3, HoldsNothing
<1>5. /\ UNCHANGED <<made, spent, again, accepted, reused, overwritten>>
      /\ cutOff \subseteq cutOff' /\ cutOff' \subseteq Users
  BY <1>2 DEF codeHistory, backupHistory, Inv, Types
<1>6. /\ \A d \in Clients \ {c} : RequestOK(d)'
      /\ \A v \in Users \ {u} : UserOK(v)'
  BY <1>2, <1>3, <1>5, InsertOthers
<1>7. UserOK(u)'
  <2>1. users'[u] = r
    BY <1>1, <1>2 DEF Insert
  <2>2. Opens(r)' = Opens(r) /\ Linked(u)' = Linked(u)
    BY <1>2 DEF Opens, Registered, Linked, Insert
  <2>5. r.isAnonymous \/ HasWayIn(u)'
    BY <1>2, <2>1, <2>2 DEF HasWayIn, Linking, Opens, Registered
  <2>6. r.password => Opens(users[u])' \/ u \in cutOff'
    BY <1>2, <2>1 DEF Opens, Registered
  <2>3. <<u, 0>> \notin spent
    BY DEF Inv, Types
  <2>4. QED
    BY <1>1, <1>2, <1>5, <2>1, <2>3, <2>5, <2>6 DEF UserOK
<1>8. users' \in [Users -> User] /\ UNCHANGED accounts /\ issued' \subseteq Users
  BY <1>1, <1>2 DEF Insert, Inv, Types
<1>9. Types'
  BY <1>2, <1>3, <1>5, <1>8 DEF Inv, Types
<1>10. RequestInv' /\ UserInv'
  BY <1>4, <1>5, <1>6, <1>7 DEF Inv, RequestInv, UserInv
<1>11. QED
  BY <1>3, <1>9, <1>10 DEF Inv

--------------------------------------------------------------------------------
(* New backup codes *)

LEMMA GivesInv ==
  ASSUME Inv, NEW c \in Clients, Gives(c)
  PROVE  Inv' /\ \A d \in Clients \ {c} : req'[d] = req[d]
<1>1. /\ users \in [Users -> User] /\ req \in [Clients -> Request]
      /\ made \in [Users -> 0..MaxGen] /\ MaxGen \in Nat
  BY AccountsAssumption DEF Inv, Types
<1>2. PICK u \in Users, second \in BOOLEAN, op \in {"enable", "generate"} :
        Found(u) /\ GiveCodes(c, u, second, op)
  <2>1. \A u \in Users : users[u].twoFactorEnabled \in BOOLEAN
    BY <1>1 DEF User
  <2>2. QED
    BY <2>1 DEF Gives, EnableTOTP, GenerateBackupCodes, GiveCodes
<1> DEFINE row == [users[u] EXCEPT !.twoFactorEnabled = second, !.backupCodes = made[u] + 1,
                                   !.used = FALSE]
<1>3. /\ At(c, "idle") /\ made[u] < MaxGen /\ made' = [made EXCEPT ![u] = made[u] + 1]
      /\ Become(c, [at |-> "saving", user |-> u, row |-> row, op |-> op, stale |-> FALSE])
      /\ UNCHANGED <<options, tables, issued, codeHistory, spent, again, overwritten, cutOff>>
  BY <1>2 DEF GiveCodes
<1>4. /\ row \in User /\ row.state = "live" /\ row.email = users[u].email
      /\ row.password = users[u].password /\ row.isAnonymous = users[u].isAnonymous
      /\ row.backupCodes = made[u] + 1 /\ row.used = FALSE
  <2>1. users[u] \in User /\ users[u].state = "live" /\ made[u] + 1 \in 0..MaxGen
    BY <1>1, <1>2, <1>3 DEF Found
  <2>2. PICK r \in User, g \in 0..MaxGen : r = users[u] /\ g = made[u] + 1
    BY <2>1
  <2>3. row = [r EXCEPT !.twoFactorEnabled = second, !.backupCodes = g, !.used = FALSE]
    BY <2>2
  <2> HIDE DEF row
  <2>4. /\ row \in User /\ row.state = r.state /\ row.email = r.email /\ row.password = r.password
        /\ row.isAnonymous = r.isAnonymous /\ row.backupCodes = g /\ row.used = FALSE
    BY <2>3 DEF User
  <2>5. QED
    BY <2>1, <2>2, <2>4
<1> HIDE DEF row
<1>5. UNCHANGED <<options, users, accounts, passkeys, codes, issued, accepted, reused, spent, again,
                  overwritten, cutOff>>
  BY <1>3 DEF tables, codeHistory
<1>6. op \in Saves \ {"backup"}
  BY DEF Saves
<1>7. [at |-> "saving", user |-> u, row |-> row, op |-> op, stale |-> FALSE] \in Request
  BY <1>4, <1>6, Made
<1>8. /\ req' \in [Clients -> Request] /\ \A d \in Clients \ {c} : req'[d] = req[d]
      /\ req'[c] = [at |-> "saving", user |-> u, row |-> row, op |-> op, stale |-> FALSE]
  BY <1>1, <1>3, <1>7, Becomes
<1>9. /\ made' \in [Users -> 0..MaxGen] /\ made'[u] = made[u] + 1
      /\ \A v \in Users : made[v] \in Nat /\ made'[v] \in Nat /\ made[v] <= made'[v]
  BY <1>1, <1>3
<1>10. RequestOK(c)'
  <2>1. Keeps(u, row, op)
    BY <1>4, KeepsRow
  <2>2. <<u, made[u] + 1>> \notin spent
    <3>1. made[u] + 1 \in 1..MaxGen
      BY <1>1, <1>3
    <3>2. ~(made[u] + 1 <= made[u])
      BY <1>1
    <3>3. QED
      BY <3>1, <3>2 DEF Inv, UserInv
  <2>3. NewCode(u, row, op)
    BY <1>4, <2>2 DEF NewCode
  <2>4. row.backupCodes <= made'[u]
    BY <1>4, <1>9
  <2>5. QED
    BY <1>2, <1>4, <1>5, <1>6, <1>8, <2>1, <2>3, <2>4, HoldsRow
<1>11. ASSUME NEW d \in Clients \ {c}
       PROVE  RequestOK(d)'
  <2>1. RequestOK(d) /\ req[d] \in Request /\ req'[d] = req[d]
    BY <1>1, <1>8 DEF Inv, RequestInv
  <2>2. HeldRow(d)'
    <3>1. CASE req[d].at \in {"claiming", "saving"}
      <4>1. /\ req[d].row.backupCodes \in Nat /\ req[d].user \in Users
            /\ req[d].row.backupCodes <= made[req[d].user]
        BY <2>1, <3>1, <1>1, Locals DEF User, RequestOK, HeldRow
      <4>2. req[d].row.backupCodes <= made'[req[d].user]
        BY <4>1, <1>9
      <4>3. QED
        BY <2>1, <4>2 DEF RequestOK, HeldRow
    <3>2. CASE req[d].at \notin {"claiming", "saving"}
      BY <2>1, <3>2 DEF HeldRow
    <3>3. QED
      BY <3>1, <3>2
  <2>3. NewRow(d)' /\ FreshRow(d)' /\ FreshEntity(d)' /\ Spared(d)'
    BY <1>5, <2>1 DEF RequestOK, NewRow, FreshRow, FreshEntity, Spared, At, Found, Keeps, NewCode,
       Lost, Linked
  <2>4. QED
    BY <2>2, <2>3 DEF RequestOK
<1>12. ASSUME NEW v \in Users
       PROVE  UserOK(v)'
  <2>1. HasWayIn(v) => HasWayIn(v)'
    <3>1. \A d \in Clients : v \in Linking(d) => v \in Linking(d)'
      BY <1>3, <1>8 DEF Linking, At
    <3>2. Linked(v)' = Linked(v)
      BY <1>5 DEF Linked
    <3>3. QED
      BY <1>5, <3>1, <3>2, WayInKept
  <2>2. users[v].backupCodes \in Nat
    BY <1>1 DEF User
  <2>3. QED
    BY <1>5, <1>9, <2>1, <2>2, UserKept DEF Inv, UserInv
<1>13. ASSUME NEW v \in Users, NEW g \in 1..MaxGen, <<v, g>> \in spent'
       PROVE  g <= made'[v]
  <2>1. g <= made[v]
    BY <1>5, <1>13 DEF Inv, UserInv
  <2>2. QED
    BY <1>1, <1>9, <2>1
<1>14. Types'
  BY <1>5, <1>8, <1>9 DEF Inv, Types
<1>15. RequestInv' /\ UserInv'
  BY <1>5, <1>10, <1>11, <1>12, <1>13 DEF Inv, RequestInv, UserInv
<1>16. QED
  BY <1>8, <1>14, <1>15 DEF Inv

--------------------------------------------------------------------------------
(* A row that is written over *)

LEMMA Overtaken ==
  ASSUME Inv, NEW c \in Clients, NEW u \in Users, NEW r \in User, Overtake(c, u, Idle),
         req[c].at \notin {"linking", "attaching"},
         users' = [users EXCEPT ![u] = r], UNCHANGED <<options, accounts, made>>,
         cutOff \subseteq cutOff', overwritten \subseteq overwritten',
         \A v \in Users \ {u} : \A g : <<v, g>> \in spent' <=> <<v, g>> \in spent,
         \/ u \in overwritten'
         \/ /\ users[u].password => r.password
            /\ users[u].state = "gone" => r.state = "gone"
  PROVE  /\ req' \in [Clients -> Request] /\ RequestInv' /\ req'[c] = Idle
         /\ \A d \in Clients \ {c} : \/ req'[d] = req[d]
                                     \/ req[d].at \in {"claiming", "saving", "removing"}
         /\ \A v \in Users \ {u} : UserOK(v)'
         /\ HasWayIn(u) /\ (users[u].password => r.password) /\ (users[u].email => r.email)
              => HasWayIn(u)'
<1>1. /\ users \in [Users -> User] /\ req \in [Clients -> Request]
      /\ \A v \in Users : made[v] \in Nat /\ users[v].backupCodes \in Nat
  BY AccountsAssumption DEF Inv, Types, User
<1>2. /\ users'[u] = r /\ \A v \in Users \ {u} : users'[v] = users[v]
      /\ \A v \in Users : Linked(v)' = Linked(v)
  BY <1>1 DEF Linked
<1>3. /\ req'[c] = Idle
      /\ \A d \in Clients \ {c} : d \in Holding(u) => req'[d] = [req[d] EXCEPT !.stale = TRUE]
      /\ \A d \in Clients \ {c} : d \notin Holding(u) => req'[d] = req[d]
      /\ DOMAIN req' = Clients /\ req' = [d \in Clients |-> req'[d]]
  BY DEF Overtake
<1>4. ASSUME NEW d \in Clients
      PROVE  req'[d] \in Request /\ RequestOK(d)'
  <2>1. req[d] \in Request /\ RequestOK(d)
    BY <1>1 DEF Inv, RequestInv
  <2>2. CASE d = c
    BY <1>3, <2>2, Made, HoldsNothing DEF Idle
  <2>3. CASE d # c /\ d \in Holding(u)
    <3>1. req[d].at \in {"claiming", "saving", "removing"} /\ req[d].user = u
      BY <2>3 DEF Holding
    <3>2. /\ req'[d] \in Request /\ req'[d].at = req[d].at /\ req'[d].user = u /\ req'[d].stale
          /\ req[d].at # "removing" => req'[d].row = req[d].row /\ req'[d].op = req[d].op
      BY <1>3, <2>1, <2>3, <3>1, Staled
    <3>3. QED
      BY <2>1, <3>1, <3>2, StaleRow
  <2>4. CASE d # c /\ d \notin Holding(u)
    <3>1. req'[d] = req[d]
      BY <1>3, <2>4
    <3>2. CASE req[d].at \in {"counting", "unlinking"} /\ req[d].user = u
      <4>1. Spared(d)'
        BY <1>2, <2>1, <3>1, <3>2 DEF RequestOK, Spared, Lost, At
      <4>2. QED
        BY <2>1, <3>1, <3>2, <4>1, NoRowHeld
    <3>3. CASE ~(req[d].at \in {"counting", "unlinking"} /\ req[d].user = u)
      <4>1. req[d].at \in {"claiming", "saving", "removing", "counting", "unlinking"} =>
              req[d].user \in Users \ {u}
        BY <2>1, <2>4, <3>3, Locals DEF Holding
      <4>2. QED
        BY <1>2, <2>1, <3>1, <4>1, OtherRow
    <3>4. QED
      BY <2>1, <3>1, <3>2, <3>3
  <2>5. QED
    BY <2>2, <2>3, <2>4
<1>5. \A d \in Clients \ {c} : req'[d] = req[d] \/ req[d].at \in {"claiming", "saving", "removing"}
  BY <1>3 DEF Holding
<1>6. \A v \in Users, d \in Clients : v \in Linking(d) => v \in Linking(d)'
  BY <1>5 DEF Linking
<1>7. ASSUME NEW v \in Users \ {u}
      PROVE  UserOK(v)'
  <2>1. HasWayIn(v) => HasWayIn(v)'
    BY <1>2, <1>6, WayInKept
  <2>2. QED
    BY <1>1, <1>2, <2>1, UserKept DEF Inv, UserInv
<1>8. HasWayIn(u) /\ (users[u].password => r.password) /\ (users[u].email => r.email)
        => HasWayIn(u)'
  BY <1>2, <1>6, WayInKept
<1>9. req' \in [Clients -> Request] /\ RequestInv'
  BY <1>3, <1>4 DEF RequestInv
<1>10. QED
  BY <1>3, <1>5, <1>7, <1>8, <1>9

LEMMA SoftRemoveInv ==
  ASSUME Inv, NEW c \in Clients, SoftRemove(c)
  PROVE  /\ Inv' /\ req'[c] = Idle
         /\ \A d \in Clients \ {c} : \/ req'[d] = req[d]
                                     \/ req[d].at \in {"claiming", "saving", "removing"}
<1>1. /\ users \in [Users -> User] /\ req \in [Clients -> Request] /\ At(c, "removing")
      /\ req[c] \in Request
  BY DEF Inv, Types, SoftRemove
<1>2. PICK u \in Users : u = req[c].user
  BY <1>1, Locals DEF At
<1>3. PICK r \in User :
        /\ users' = [users EXCEPT ![u] = r]
        /\ r.email = users[u].email /\ r.password = users[u].password
        /\ r.isAnonymous = users[u].isAnonymous /\ r.backupCodes = users[u].backupCodes
        /\ r.used = users[u].used
        /\ \/ r.state = users[u].state
           \/ Exists(u) /\ r.state = "deleted"
  <2>1. CASE Exists(u)
    <3>1. PICK r : r = [users[u] EXCEPT !.state = "deleted"]
      OBVIOUS
    <3>2. users' = [users EXCEPT ![u] = r]
      BY <1>2, <2>1, <3>1 DEF SoftRemove
    <3>3. users[u] \in User
      BY <1>1
    <3>4. /\ r \in User /\ r.state = "deleted" /\ r.email = users[u].email
          /\ r.password = users[u].password /\ r.isAnonymous = users[u].isAnonymous
          /\ r.backupCodes = users[u].backupCodes /\ r.used = users[u].used
      BY <3>1, <3>3, Deleted
    <3>5. QED
      BY <2>1, <3>2, <3>4
  <2>2. CASE ~Exists(u)
    <3>1. users' = [users EXCEPT ![u] = users[u]]
      BY <1>1, <1>2, <2>2 DEF SoftRemove
    <3>2. QED
      BY <1>1, <3>1
  <2>3. QED
    BY <2>1, <2>2
<1>4. /\ Overtake(c, u, Idle)
      /\ UNCHANGED <<options, accounts, passkeys, codes, issued, accepted, reused, made, spent,
                     again, overwritten, cutOff>>
  BY <1>2 DEF SoftRemove, codeHistory, backupHistory
<1>5. users[u].state = "gone" => r.state = "gone"
  BY <1>3 DEF Exists
<1>6. /\ req' \in [Clients -> Request] /\ RequestInv' /\ req'[c] = Idle
      /\ \A d \in Clients \ {c} : \/ req'[d] = req[d]
                                  \/ req[d].at \in {"claiming", "saving", "removing"}
      /\ \A v \in Users \ {u} : UserOK(v)'
      /\ HasWayIn(u) => HasWayIn(u)'
  <2>1. req[c].at \notin {"linking", "attaching"}
    BY <1>1 DEF At
  <2>2. QED
    BY <1>3, <1>4, <1>5, <2>1, Overtaken
<1>7. UserOK(u)'
  <2>1. users'[u] = r
    BY <1>1, <1>3
  <2>2. UserOK(u)
    BY DEF Inv, UserInv
  <2>3. Exists(u)' => Exists(u)
    BY <1>3, <2>1 DEF Exists
  <2>4. users'[u].state = "unused" => ~users'[u].password
    BY <1>3, <2>1, <2>2 DEF UserOK
  <2>6. Opens(users[u]) => Opens(users[u])'
    BY <1>3, <1>4, <2>1 DEF Opens, Registered
  <2>5. QED
    BY <1>3, <1>4, <1>6, <2>1, <2>2, <2>3, <2>4, <2>6 DEF UserOK
<1>8. Types'
  BY <1>1, <1>3, <1>4, <1>6 DEF Inv, Types
<1>9. UserInv'
  BY <1>4, <1>6, <1>7 DEF Inv, UserInv
<1>10. QED
  BY <1>6, <1>8, <1>9 DEF Inv

\* What save() writes is the row of the entity but for the backup codes, which disable()
\* leaves alone.
LEMMA WrittenRow ==
  ASSUME Inv, NEW c \in Clients, At(c, "saving"), NEW u, u = req[c].user, NEW r, r = req[c].row,
         NEW w, w = Written(c)
  PROVE  /\ u \in Users /\ r \in User /\ w \in User
         /\ w.state = "live" /\ w.email = r.email
         /\ w.password = r.password /\ w.isAnonymous = r.isAnonymous
         /\ w.backupCodes <= made[u]
         /\ \/ w.backupCodes = 0
            \/ w.backupCodes = r.backupCodes /\ w.used = r.used
            \/ /\ req[c].op = "disable"
               /\ w.backupCodes = users[u].backupCodes /\ w.used = users[u].used
<1>1. /\ users \in [Users -> User] /\ req[c] \in Request /\ req[c].at = "saving" /\ RequestOK(c)
      /\ made \in [Users -> 0..MaxGen] /\ MaxGen \in Nat
  BY AccountsAssumption DEF Inv, Types, RequestInv, At
<1>2. /\ u \in Users /\ r \in User /\ r.state = "live" /\ r.backupCodes <= made[u]
      /\ users[u] \in User /\ users[u].backupCodes <= made[u] /\ made[u] \in Nat
  <2>1. u \in Users /\ r \in User
    BY <1>1, Locals
  <2>2. r.state = "live" /\ r.backupCodes <= made[u]
    BY <1>1 DEF RequestOK, HeldRow
  <2>3. users[u].backupCodes <= made[u]
    BY <2>1 DEF Inv, UserInv, UserOK
  <2>4. QED
    BY <1>1, <2>1, <2>2, <2>3
<1>3. CASE req[c].op # "disable"
  BY <1>2, <1>3 DEF Written
<1>4. CASE req[c].op = "disable" /\ Exists(u)
  <2>1. w = [r EXCEPT !.backupCodes = users[u].backupCodes, !.used = users[u].used]
    BY <1>4 DEF Written
  <2>2. users[u].backupCodes \in 0..MaxGen /\ users[u].used \in BOOLEAN
    BY <1>2 DEF User
  <2>3. PICK g \in 0..MaxGen, used \in BOOLEAN : g = users[u].backupCodes /\ used = users[u].used
    BY <2>2
  <2>4. w = [r EXCEPT !.backupCodes = g, !.used = used]
    BY <2>1, <2>3
  <2>5. /\ w \in User /\ w.state = r.state /\ w.email = r.email /\ w.password = r.password
        /\ w.isAnonymous = r.isAnonymous /\ w.backupCodes = g /\ w.used = used
    BY <1>2, <2>4 DEF User
  <2>6. w.backupCodes = users[u].backupCodes /\ w.used = users[u].used
    BY <2>3, <2>5
  <2>7. QED
    BY <1>2, <1>4, <2>5, <2>6
<1>5. CASE req[c].op = "disable" /\ ~Exists(u)
  <2>1. PICK g \in 0..MaxGen : g = 0
    BY <1>1
  <2> DEFINE q == [r EXCEPT !.backupCodes = g, !.used = FALSE]
  <2>3. w = q
    BY <1>5, <2>1 DEF Written
  <2>2. /\ w \in User /\ w.state = r.state /\ w.email = r.email /\ w.password = r.password
        /\ w.isAnonymous = r.isAnonymous /\ w.backupCodes = g
    BY <1>2, <2>3 DEF User
  <2>4. QED
    BY <1>2, <2>1, <2>2
<1>6. QED
  BY <1>3, <1>4, <1>5

LEMMA SaveInv ==
  ASSUME Inv, NEW c \in Clients, Save(c)
  PROVE  /\ Inv' /\ req'[c] = Idle
         /\ \A d \in Clients \ {c} : \/ req'[d] = req[d]
                                     \/ req[d].at \in {"claiming", "saving", "removing"}
<1>1. /\ users \in [Users -> User] /\ req \in [Clients -> Request] /\ At(c, "saving")
      /\ req[c] \in Request /\ RequestOK(c)
      /\ made \in [Users -> 0..MaxGen] /\ MaxGen \in Nat
  BY AccountsAssumption DEF Inv, Types, Save, RequestInv
<1>2. PICK u \in Users, row \in User, op \in Saves :
        u = req[c].user /\ row = req[c].row /\ op = req[c].op
  BY <1>1, Locals DEF At
<1>3. PICK w \in User :
        /\ w = Written(c) /\ users' = [users EXCEPT ![u] = w]
        /\ w.state = "live" /\ w.email = row.email /\ w.password = row.password
        /\ w.isAnonymous = row.isAnonymous /\ w.backupCodes <= made[u]
        /\ \/ w.backupCodes = 0
           \/ w.backupCodes = row.backupCodes /\ w.used = row.used
           \/ /\ op = "disable"
              /\ w.backupCodes = users[u].backupCodes /\ w.used = users[u].used
  <2>1. PICK w : w = Written(c)
    OBVIOUS
  <2>2. users' = [users EXCEPT ![u] = w]
    BY <1>2, <2>1 DEF Save
  <2>3. /\ w \in User
        /\ w.state = "live" /\ w.email = row.email
        /\ w.password = row.password /\ w.isAnonymous = row.isAnonymous
        /\ w.backupCodes <= made[u]
        /\ \/ w.backupCodes = 0
           \/ w.backupCodes = row.backupCodes /\ w.used = row.used
           \/ /\ req[c].op = "disable"
              /\ w.backupCodes = users[u].backupCodes /\ w.used = users[u].used
    BY <1>1, <1>2, <2>1, WrittenRow
  <2>4. QED
    BY <1>2, <2>1, <2>2, <2>3
<1>4. /\ Overtake(c, u, Idle)
      /\ UNCHANGED <<options, accounts, passkeys, codes, accepted, reused, made>>
      /\ cutOff' = IF op = "convert" /\ Stranded(u, w) THEN cutOff \cup {u} ELSE cutOff
      /\ overwritten' = IF req[c].stale THEN overwritten \cup {u} ELSE overwritten
      /\ \/ op = "backup" /\ spent' = spent \cup {<<u, row.backupCodes>>}
         \/ op # "backup" /\ UNCHANGED <<spent, again>>
      /\ op = "backup" =>
           again' = IF <<u, row.backupCodes>> \in spent THEN again \cup {u} ELSE again
  BY <1>2, <1>3 DEF Save, codeHistory
<1>5. /\ overwritten \subseteq overwritten' /\ overwritten' \subseteq Users
      /\ cutOff \subseteq cutOff' /\ cutOff' \subseteq Users
      /\ req[c].stale => u \in overwritten'
      /\ ~req[c].stale => overwritten' = overwritten
  BY <1>4 DEF Inv, Types
<1>6. issued' \subseteq Users
  <2>1. issued \subseteq Users /\ (UNCHANGED issued \/ issued' = issued \cup {u})
    BY <1>2 DEF Inv, Types, Save, Login
  <2>2. QED
    BY <2>1
<1>7. /\ row.backupCodes \in 0..MaxGen /\ row.backupCodes <= made[u]
      /\ op = "backup" => row.backupCodes # 0 /\ row.used
  BY <1>1, <1>2 DEF User, RequestOK, HeldRow, At
<1>8. ~req[c].stale => Found(u) /\ Keeps(u, row, op) /\ NewCode(u, row, op)
  BY <1>1, <1>2 DEF RequestOK, FreshRow, FreshEntity, At
<1>9. spent' \subseteq Users \X (1..MaxGen)
  <2>1. spent \subseteq Users \X (1..MaxGen)
    BY DEF Inv, Types
  <2>2. op = "backup" => row.backupCodes \in 1..MaxGen
    BY <1>1, <1>7
  <2>3. QED
    BY <1>4, <2>1, <2>2
<1>10. again' \subseteq Users /\ again' \subseteq overwritten'
  <2>1. CASE op = "backup" /\ <<u, row.backupCodes>> \in spent
    <3>1. u \in overwritten'
      BY <1>5, <1>8, <2>1 DEF NewCode
    <3>2. QED
      BY <1>4, <1>5, <2>1, <3>1 DEF Inv, Types, UserInv
  <2>2. CASE ~(op = "backup" /\ <<u, row.backupCodes>> \in spent)
    BY <1>4, <1>5, <2>2 DEF Inv, Types, UserInv
  <2>3. QED
    BY <2>1, <2>2
<1>11. \A v \in Users \ {u} : \A g : <<v, g>> \in spent' <=> <<v, g>> \in spent
  BY <1>4
<1>12. \A v \in Users : \A g \in 1..MaxGen : <<v, g>> \in spent' => g <= made'[v]
  BY <1>4, <1>7 DEF Inv, UserInv
<1>13. /\ req' \in [Clients -> Request] /\ RequestInv' /\ req'[c] = Idle
       /\ \A d \in Clients \ {c} : \/ req'[d] = req[d]
                                   \/ req[d].at \in {"claiming", "saving", "removing"}
       /\ \A v \in Users \ {u} : UserOK(v)'
       /\ HasWayIn(u) /\ (users[u].password => w.password) /\ (users[u].email => w.email)
            => HasWayIn(u)'
  <2>1. \/ u \in overwritten'
        \/ /\ users[u].password => w.password
           /\ users[u].state = "gone" => w.state = "gone"
    BY <1>3, <1>5, <1>8 DEF Found, Keeps
  <2>2. req[c].at \notin {"linking", "attaching"}
    BY <1>1 DEF At
  <2>3. QED
    BY <1>3, <1>4, <1>5, <1>11, <2>1, <2>2, Overtaken
<1>14. UserOK(u)'
  <2>1. users'[u] = w
    BY <1>1, <1>3
  <2>2. CASE req[c].stale
    <3>1. HasWayIn(u)' /\ u \in overwritten'
      BY <1>5, <2>2 DEF HasWayIn
    <3>2. QED
      BY <1>3, <1>4, <2>1, <3>1 DEF UserOK
  <2>3. CASE ~req[c].stale
    <3>1. UserOK(u)
      BY DEF Inv, UserInv
    <3>2. /\ ~w.isAnonymous => HasWayIn(u)'
          /\ w.password => Opens(users[u])' \/ u \in cutOff' \cup overwritten'
      <4>1. /\ Linked(u)' = Linked(u)
            /\ Opens(w) => Opens(users[u])'
            /\ users[u].email /\ users[u].password /\ Opens(users[u]) => Opens(users[u])'
        BY <1>3, <1>4, <1>8, <2>1, <2>3 DEF Linked, Opens, Registered, Keeps
      <4>2. CASE op = "convert"
        BY <1>4, <4>1, <4>2 DEF Stranded, HasWayIn
      <4>3. CASE op # "convert"
        <5>1. ~w.isAnonymous => HasWayIn(u)'
          BY <1>3, <1>8, <1>13, <2>3, <3>1, <4>3 DEF Keeps, UserOK, Found, Exists
        <5>2. w.password => users[u].password /\ Exists(u)
          BY <1>3, <1>8, <2>3, <4>3 DEF Keeps, Found, Exists
        <5>3. Opens(users[u]) => users[u].email
          BY DEF Opens
        <5>4. QED
          BY <1>5, <3>1, <4>1, <5>1, <5>2, <5>3 DEF UserOK
      <4>4. QED
        BY <4>2, <4>3
    <3>3. u \notin overwritten' /\ <<u, w.backupCodes>> \in spent' => w.used
      <4> SUFFICES ASSUME u \notin overwritten', <<u, w.backupCodes>> \in spent'
                   PROVE  w.used
        OBVIOUS
      <4>1. w.backupCodes # 0
        BY <1>9
      <4>2. CASE op = "backup"
        BY <1>3, <1>7, <4>1, <4>2
      <4>3. CASE op # "backup"
        <5>1. <<u, w.backupCodes>> \in spent /\ u \notin overwritten
          BY <1>4, <1>5, <4>3
        <5>2. QED
          BY <1>3, <1>8, <2>3, <3>1, <4>1, <5>1 DEF NewCode, UserOK
      <4>4. QED
        BY <4>2, <4>3
    <3>4. QED
      BY <1>3, <1>4, <2>1, <3>2, <3>3 DEF UserOK
  <2>4. QED
    BY <2>2, <2>3
<1>15. Types'
  BY <1>1, <1>3, <1>4, <1>5, <1>6, <1>9, <1>10, <1>13 DEF Inv, Types
<1>16. UserInv'
  BY <1>10, <1>12, <1>13, <1>14 DEF UserInv
<1>17. QED
  BY <1>13, <1>15, <1>16 DEF Inv

--------------------------------------------------------------------------------
(* Links *)

LEMMA AttachInv ==
  ASSUME Inv, NEW c \in Clients, Attach(c)
  PROVE  Inv' /\ req'[c] = Idle /\ \A d \in Clients \ {c} : req'[d] = req[d]
<1>1. /\ users \in [Users -> User] /\ req \in [Clients -> Request] /\ At(c, "attaching")
      /\ req[c] \in Request /\ accounts \in [Identities -> Users \cup {None}]
      /\ \A v \in Users : made[v] \in Nat /\ users[v].backupCodes \in Nat
  BY AccountsAssumption DEF Inv, Types, Attach, Account, User
<1>2. PICK u \in Users, p \in Identities : u = req[c].user /\ p = req[c].id
  BY <1>1, Locals DEF At
<1>3. /\ accounts[p] = None /\ accounts' = [accounts EXCEPT ![p] = u]
      /\ UNCHANGED <<options, users, passkeys, codes, accepted, reused, made, spent, again,
                     overwritten, cutOff>>
      /\ Become(c, Idle)
      /\ UNCHANGED issued \/ issued' = issued \cup {u}
  BY <1>2 DEF Attach, codeHistory, backupHistory, End, Login
<1>4. /\ req' \in [Clients -> Request] /\ req'[c] = Idle
      /\ \A d \in Clients \ {c} : req'[d] = req[d]
  BY <1>1, <1>3, Made, Becomes
<1>5. /\ \A v \in Users : Linked(v) \subseteq Linked(v)'
      /\ Linked(u)' # {}
  <2>1. u # None
    BY AccountsAssumption
  <2>2. QED
    BY <1>1, <1>3, <2>1, AccountsAssumption DEF Linked
<1>6. ASSUME NEW d \in Clients
      PROVE  RequestOK(d)'
  <2>1. CASE d = c
    BY <1>4, <2>1, HoldsNothing DEF Idle
  <2>2. CASE d # c
    <3>1. RequestOK(d) /\ req'[d] = req[d] /\ req[d] \in Request
      BY <1>1, <1>4, <2>2 DEF Inv, RequestInv
    <3>2. QED
      BY <1>3, <1>5, <3>1, Locals, OtherRow
  <2>3. QED
    BY <2>1, <2>2
<1>7. ASSUME NEW v \in Users
      PROVE  UserOK(v)'
  <2>1. \A d \in Clients : v \in Linking(d) => v \in Linking(d)' \/ Linked(v)' # {}
    <3>1. Linking(c) = {u}
      BY <1>1, <1>2 DEF Linking, At
    <3>2. \A d \in Clients \ {c} : Linking(d)' = Linking(d)
      BY <1>4 DEF Linking
    <3>3. QED
      BY <1>5, <3>1, <3>2
  <2>2. HasWayIn(v) => HasWayIn(v)'
    BY <1>3, <1>5, <2>1, WayInKept
  <2>3. QED
    BY <1>1, <1>3, <2>2, UserKept DEF Inv, UserInv
<1>8. accounts' \in Account /\ issued' \subseteq Users
  BY <1>1, <1>3 DEF Account, Inv, Types
<1>9. Types'
  BY <1>3, <1>4, <1>8 DEF Inv, Types
<1>10. RequestInv' /\ UserInv'
  BY <1>3, <1>6, <1>7 DEF Inv, RequestInv, UserInv
<1>11. QED
  BY <1>4, <1>9, <1>10 DEF Inv

LEMMA UnlinkInv ==
  ASSUME Inv, NEW c \in Clients, Unlink(c)
  PROVE  Inv' /\ req'[c] = Idle /\ \A d \in Clients \ {c} : req'[d] = req[d]
<1>1. /\ users \in [Users -> User] /\ req \in [Clients -> Request] /\ At(c, "unlinking")
      /\ req[c] \in Request /\ accounts \in [Identities -> Users \cup {None}]
      /\ \A v \in Users : made[v] \in Nat /\ users[v].backupCodes \in Nat
      /\ RequestOK(c)
  BY AccountsAssumption DEF Inv, Types, Unlink, Account, User, RequestInv
<1>2. PICK u \in Users, p \in Identities : u = req[c].user /\ p = req[c].id
  BY <1>1, Locals DEF At
<1>3. /\ accounts' = IF accounts[p] = u THEN [accounts EXCEPT ![p] = None] ELSE accounts
      /\ cutOff' = IF \E d \in Clients \ {c} : At(d, "unlinking") /\ req[d].user = u
                     THEN cutOff \cup {u} ELSE cutOff
      /\ UNCHANGED <<options, users, passkeys, codes, issued, accepted, reused, made, spent, again,
                     overwritten>>
      /\ Become(c, Idle)
  BY <1>2 DEF Unlink, codeHistory, backupHistory, End
<1>4. /\ req' \in [Clients -> Request] /\ req'[c] = Idle
      /\ \A d \in Clients \ {c} : req'[d] = req[d]
  BY <1>1, <1>3, Made, Becomes
<1>5. /\ accounts' \in [Identities -> Users \cup {None}]
      /\ \A q \in Identities \ {p} : accounts'[q] = accounts[q]
      /\ accounts[p] # u => accounts'[p] = accounts[p]
      /\ accounts[p] = u => accounts'[p] = None
  BY <1>1, <1>3
<1>6. /\ \A v \in Users \ {u} : Linked(v) \subseteq Linked(v)'
      /\ \A q \in Linked(u) \ {p} : q \in Linked(u)'
  BY <1>5 DEF Linked
<1>7. /\ cutOff \subseteq cutOff' /\ cutOff' \subseteq Users
      /\ \A d \in Clients \ {c} : At(d, "unlinking") /\ req[d].user = u => u \in cutOff'
  BY <1>3 DEF Inv, Types
<1>8. ASSUME NEW d \in Clients
      PROVE  RequestOK(d)'
  <2>1. CASE d = c
    BY <1>4, <2>1, HoldsNothing DEF Idle
  <2>2. CASE d # c
    <3>1. RequestOK(d) /\ req'[d] = req[d] /\ req[d] \in Request
      BY <1>1, <1>4, <2>2 DEF Inv, RequestInv
    <3>2. At(d, "unlinking") =>
            req[d].user \in cutOff' \/ Linked(req[d].user) \subseteq Linked(req[d].user)'
      BY <1>6, <1>7, <2>2, <3>1, Locals DEF At
    <3>3. QED
      BY <1>3, <1>7, <3>1, <3>2, OtherRow
  <2>3. QED
    BY <2>1, <2>2
<1>9. \A v \in Users, d \in Clients : v \in Linking(d) => v \in Linking(d)'
  BY <1>1, <1>4 DEF Linking, At
<1>10. ASSUME NEW v \in Users
       PROVE  UserOK(v)'
  <2>1. CASE v # u
    <3>1. HasWayIn(v) => HasWayIn(v)'
      BY <1>3, <1>6, <1>7, <1>9, <2>1, WayInKept
    <3>2. QED
      BY <1>1, <1>3, <3>1, UserKept DEF Inv, UserInv
  <2>2. CASE v = u
    <3>1. UserOK(u)
      BY DEF Inv, UserInv
    <3>2. Exists(u) => HasWayIn(u)'
      <4>1. \/ users[u].password \/ Lost(u) \/ u \in cutOff
            \/ \E q1, q2 \in Linked(u) : q1 # q2
        BY <1>1, <1>2 DEF RequestOK, Spared
      <4>2. CASE Exists(u) /\ (users[u].password \/ u \in overwritten \/ u \in cutOff)
        <5>1. Opens(users[u]) \/ u \in cutOff \cup overwritten
          BY <3>1, <4>2 DEF UserOK
        <5>2. Opens(users[u]) => Opens(users[u])'
          BY <1>3 DEF Opens, Registered
        <5>3. QED
          BY <1>3, <1>7, <5>1, <5>2 DEF HasWayIn
      <4>3. CASE users[u].state = "gone"
        BY <4>3 DEF Exists
      <4>4. CASE \E q1, q2 \in Linked(u) : q1 # q2
        <5>1. Linked(u)' # {}
          BY <1>6, <4>4
        <5>2. QED
          BY <5>1 DEF HasWayIn
      <4>5. QED
        BY <4>1, <4>2, <4>3, <4>4 DEF Lost
    <3>3. QED
      BY <1>3, <1>7, <2>2, <3>1, <3>2 DEF UserOK, Exists, Opens, Registered
  <2>3. QED
    BY <2>1, <2>2
<1>11. Types'
  BY <1>3, <1>4, <1>5, <1>7 DEF Inv, Types, Account
<1>12. RequestInv' /\ UserInv'
  BY <1>3, <1>8, <1>10 DEF Inv, RequestInv, UserInv
<1>13. QED
  BY <1>4, <1>11, <1>12 DEF Inv

--------------------------------------------------------------------------------
(* Codes *)

\* What others do with their codes is nothing to the rows.
LEMMA CodesKeep ==
  ASSUME Inv, req' \in [Clients -> Request], codes' \in Verification,
         accepted' \cup reused' \subseteq Kinds,
         UNCHANGED <<options, users, accounts, passkeys, issued, backupHistory, overwritten, cutOff>>,
         \A d \in Clients : \/ req'[d] = req[d]
                            \/ /\ req[d].at \in {"idle", "spending"}
                               /\ req'[d].at \in {"idle", "spending", "entering"}
  PROVE  Inv'
<1>1. /\ users \in [Users -> User]
      /\ \A v \in Users : made[v] \in Nat /\ users[v].backupCodes \in Nat
  BY AccountsAssumption DEF Inv, Types, User
<1>2. UNCHANGED <<made, spent, again>>
  BY DEF backupHistory
<1>3. RequestInv'
  BY <1>2, SameRow, HoldsNothing DEF Inv, RequestInv
<1>4. ASSUME NEW v \in Users
      PROVE  UserOK(v)'
  <2>1. \A d \in Clients : v \in Linking(d) => v \in Linking(d)'
    BY DEF Linking
  <2>2. Linked(v)' = Linked(v)
    BY DEF Linked
  <2>3. HasWayIn(v) => HasWayIn(v)'
    BY <2>1, <2>2, WayInKept
  <2>4. QED
    BY <1>1, <1>2, <2>3, UserKept DEF Inv, UserInv
<1>5. Types'
  BY <1>2 DEF Inv, Types
<1>6. UserInv'
  BY <1>2, <1>4 DEF Inv, UserInv
<1>7. QED
  BY <1>3, <1>5, <1>6 DEF Inv

LEMMA SentInv ==
  ASSUME Inv, CodeInv, NEW c \in Clients, NEW k \in Kinds, Sent(c, k)
  PROVE  Inv' /\ CodeInv'
<1>1. /\ codes \in [Kinds -> {"none", "live", "expired"}] /\ accepted \cup reused \subseteq Kinds
      /\ req \in [Clients -> Request]
  BY DEF Inv, Types, Verification
<1>2. /\ codes' = [codes EXCEPT ![k] = "live"] /\ accepted' = accepted \ {k}
      /\ UNCHANGED <<options, users, accounts, passkeys, issued, req, reused, backupHistory,
                     overwritten, cutOff>>
      /\ \A d \in Clients : ~(At(d, "spending") /\ req[d].kind = k)
  BY DEF Sent
<1>3. codes' \in Verification /\ accepted' \cup reused' \subseteq Kinds
  BY <1>1, <1>2 DEF Verification
<1>4. Inv'
  BY <1>1, <1>2, <1>3, CodesKeep
<1>5. CodeInv'
  BY <1>1, <1>2 DEF CodeInv, At
<1>6. QED
  BY <1>4, <1>5

LEMMA FindCodeInv ==
  ASSUME Inv, CodeInv, NEW c \in Clients, NEW k \in Kinds, NEW login \in BOOLEAN,
         FindCode(c, k, login)
  PROVE  /\ Inv' /\ CodeInv'
         /\ \A d \in Clients \ {c} : req'[d] = req[d] \/ At(d, "spending")
<1>1. /\ codes \in [Kinds -> {"none", "live", "expired"}] /\ accepted \cup reused \subseteq Kinds
      /\ req \in [Clients -> Request]
  BY DEF Inv, Types, Verification
<1> DEFINE others == {d \in Clients : At(d, "spending") /\ req[d].kind = k}
<1> DEFINE q == [at |-> "spending", kind |-> k, login |-> login, raced |-> others # {}]
<1>2. /\ At(c, "idle") /\ codes[k] = "live"
      /\ req' = [d \in Clients |-> CASE d = c -> q
                                     [] d \in others -> [req[d] EXCEPT !.raced = TRUE]
                                     [] OTHER -> req[d]]
      /\ UNCHANGED <<options, users, accounts, passkeys, codes, issued, accepted, reused,
                     backupHistory, overwritten, cutOff>>
  BY Zenon DEF FindCode, tables, codeHistory
<1>3. PICK raced \in BOOLEAN : raced <=> others # {}
  <2> HIDE DEF others
  <2>1. CASE others = {}
    <3>1. FALSE <=> others # {}
      BY <2>1
    <3>2. WITNESS FALSE \in BOOLEAN
    <3>3. QED
      BY <3>1
  <2>2. CASE others # {}
    <3>1. TRUE <=> others # {}
      BY <2>2
    <3>2. WITNESS TRUE \in BOOLEAN
    <3>3. QED
      BY <3>1
  <2>3. QED
    BY <2>1, <2>2
<1>4. q = [at |-> "spending", kind |-> k, login |-> login, raced |-> raced]
  <2> HIDE DEF others
  <2>1. CASE raced
    <3>1. (others # {}) = TRUE /\ raced = TRUE
      BY <1>3, <2>1
    <3>2. QED
      BY <3>1
  <2>2. CASE ~raced
    <3>1. (others # {}) = FALSE /\ raced = FALSE
      BY <1>3, <2>2
    <3>2. QED
      BY <3>1
  <2>3. QED
    BY <2>1, <2>2
<1> HIDE DEF q
<1>5. /\ req'[c] \in Request /\ req'[c].at = "spending" /\ req'[c].kind = k
      /\ req'[c].raced <=> others # {}
      /\ \A d \in Clients \ {c} : d \in others => req'[d] = [req[d] EXCEPT !.raced = TRUE]
      /\ \A d \in Clients \ {c} : d \notin others => req'[d] = req[d]
      /\ req' = [d \in Clients |-> req'[d]]
  <2>1. c \notin others
    BY <1>2 DEF At
  <2> HIDE DEF others
  <2>2. /\ req'[c] = q
        /\ \A d \in Clients \ {c} : d \in others => req'[d] = [req[d] EXCEPT !.raced = TRUE]
        /\ \A d \in Clients \ {c} : d \notin others => req'[d] = req[d]
        /\ req' = [d \in Clients |-> req'[d]]
    BY <1>2, <2>1
  <2>3. q \in Request /\ q.at = "spending" /\ q.kind = k /\ (q.raced <=> others # {})
    BY <1>3, <1>4, Made
  <2>4. QED
    BY <2>2, <2>3
<1>6. ASSUME NEW d \in Clients \ {c}
      PROVE  /\ req'[d] \in Request /\ req'[d].at = req[d].at
             /\ d \in others => At(d, "spending") /\ req'[d].kind = k /\ req'[d].raced
             /\ d \notin others => req'[d] = req[d]
  BY <1>1, <1>5, Raced DEF At
<1>7. Inv'
  <2>1. req' \in [Clients -> Request]
    BY <1>2, <1>5, <1>6
  <2>2. \A d \in Clients : \/ req'[d] = req[d]
                           \/ /\ req[d].at \in {"idle", "spending"}
                              /\ req'[d].at \in {"idle", "spending", "entering"}
    BY <1>2, <1>5, <1>6 DEF At
  <2>3. codes' \in Verification /\ accepted' \cup reused' \subseteq Kinds
    BY <1>1, <1>2 DEF Verification
  <2>4. QED
    BY <1>2, <2>1, <2>2, <2>3, CodesKeep
<1>8. CodeInv'
  <2>1. reused' = {} /\ \A j \in Kinds : codes'[j] = "live" => j \notin accepted'
    BY <1>2 DEF CodeInv
  <2>2. ASSUME NEW d \in Clients, At(d, "spending")', ~req'[d].raced
        PROVE  /\ req'[d].kind \notin accepted'
               /\ \A e \in Clients \ {d} : ~(At(e, "spending")' /\ req'[e].kind = req'[d].kind)
    <3>1. CASE d = c
      <4>1. others = {}
        BY <1>5, <2>2, <3>1
      <4>2. \A e \in Clients \ {c} : req'[e] = req[e] /\ ~(At(e, "spending") /\ req[e].kind = k)
        BY <1>2, <4>1
      <4>3. QED
        BY <1>2, <1>5, <3>1, <4>2 DEF CodeInv, At
    <3>2. CASE d # c
      <4>1. d \notin others /\ req'[d] = req[d]
        BY <1>6, <2>2, <3>2
      <4>2. req[d].kind # k
        BY <2>2, <4>1 DEF At
      <4>3. \A e \in Clients \ {d} : ~(At(e, "spending") /\ req[e].kind = req[d].kind)
        BY <2>2, <4>1 DEF CodeInv, At
      <4>4. QED
        BY <1>2, <1>5, <1>6, <2>2, <4>1, <4>2, <4>3 DEF CodeInv, At
    <3>3. QED
      BY <3>1, <3>2
  <2>3. QED
    BY <2>1, <2>2 DEF CodeInv
<1>9. QED
  BY <1>2, <1>6, <1>7, <1>8

LEMMA RemoveCodeInv ==
  ASSUME Inv, CodeInv, NEW c \in Clients, RemoveCode(c)
  PROVE  Inv' /\ CodeInv' /\ \A d \in Clients \ {c} : req'[d] = req[d]
<1>1. /\ codes \in [Kinds -> {"none", "live", "expired"}] /\ accepted \cup reused \subseteq Kinds
      /\ req \in [Clients -> Request] /\ At(c, "spending") /\ req[c] \in Request
  BY DEF Inv, Types, Verification, RemoveCode
<1>2. PICK k \in Kinds : k = req[c].kind
  BY <1>1, Locals DEF At
<1>3. /\ codes' = [codes EXCEPT ![k] = "none"] /\ accepted' = accepted \cup {k}
      /\ reused' = IF k \in accepted /\ ~req[c].raced THEN reused \cup {k} ELSE reused
      /\ UNCHANGED <<options, users, accounts, passkeys, issued, backupHistory, overwritten, cutOff>>
  BY <1>2 DEF RemoveCode, Accept
<1>4. PICK r \in Request : Become(c, r) /\ r.at \in {"idle", "entering"}
  <2>1. CASE req[c].login
    BY <1>2, <2>1, Made DEF RemoveCode, Accept
  <2>2. CASE ~req[c].login
    BY <2>2, Made DEF RemoveCode, Accept, Idle
  <2>3. QED
    BY <2>1, <2>2
<1>5. /\ req' \in [Clients -> Request] /\ req'[c] = r
      /\ \A d \in Clients \ {c} : req'[d] = req[d]
  BY <1>1, <1>4, Becomes
<1>6. reused' = {}
  BY <1>1, <1>2, <1>3 DEF CodeInv
<1>7. Inv'
  <2>1. codes' \in Verification /\ accepted' \cup reused' \subseteq Kinds
    BY <1>1, <1>3, <1>6 DEF Verification
  <2>2. QED
    BY <1>1, <1>3, <1>4, <1>5, <2>1, CodesKeep DEF At
<1>8. CodeInv'
  <2>1. ASSUME NEW j \in Kinds, codes'[j] = "live"
        PROVE  j \notin accepted'
    BY <1>1, <1>3, <2>1 DEF CodeInv
  <2>2. ASSUME NEW d \in Clients, At(d, "spending")', ~req'[d].raced
        PROVE  /\ req'[d].kind \notin accepted'
               /\ \A e \in Clients \ {d} : ~(At(e, "spending")' /\ req'[e].kind = req'[d].kind)
    <3>1. d # c /\ req'[d] = req[d]
      BY <1>4, <1>5, <2>2 DEF At
    <3>2. /\ req[d].kind \notin accepted
          /\ \A e \in Clients \ {d} : ~(At(e, "spending") /\ req[e].kind = req[d].kind)
      BY <2>2, <3>1 DEF CodeInv, At
    <3>3. req[d].kind # k
      BY <1>1, <1>2, <3>1, <3>2
    <3>4. QED
      BY <1>3, <1>4, <1>5, <3>1, <3>2, <3>3 DEF At
  <2>3. QED
    BY <1>6, <2>1, <2>2 DEF CodeInv
<1>9. QED
  BY <1>5, <1>7, <1>8

LEMMA ExpireInv ==
  ASSUME Inv, CodeInv, NEW k \in Kinds, Expire(k)
  PROVE  Inv' /\ CodeInv'
<1>1. /\ codes \in [Kinds -> {"none", "live", "expired"}] /\ accepted \cup reused \subseteq Kinds
      /\ req \in [Clients -> Request]
  BY DEF Inv, Types, Verification
<1>2. /\ codes' = [codes EXCEPT ![k] = "expired"]
      /\ UNCHANGED <<options, users, accounts, passkeys, issued, req, accepted, reused,
                     backupHistory, overwritten, cutOff>>
  BY DEF Expire, codeHistory
<1>3. codes' \in Verification
  BY <1>1, <1>2 DEF Verification
<1>4. Inv'
  BY <1>1, <1>2, <1>3, CodesKeep
<1>5. CodeInv'
  BY <1>1, <1>2 DEF CodeInv, At
<1>6. QED
  BY <1>4, <1>5

\* The steps that leave the codes alone
LEMMA OtherCodes ==
  ASSUME CodeInv, UNCHANGED <<codes, accepted, reused>>,
         \A d \in Clients : \/ req'[d] = req[d]
                            \/ req'[d].at # "spending"
  PROVE  CodeInv'
  BY DEF CodeInv, At

--------------------------------------------------------------------------------
(* The cleanup *)

LEMMA DeleteInv ==
  ASSUME Inv, NEW old \in SUBSET {u \in Users : Exists(u) /\ users[u].isAnonymous}, Delete(old)
  PROVE  /\ Inv'
         /\ \A d \in Clients : \/ req'[d] = req[d]
                               \/ req'[d].at \in {"claiming", "saving", "removing"}
<1>1. /\ users \in [Users -> User] /\ req \in [Clients -> Request] /\ old \subseteq Users
      /\ accounts \in [Identities -> Users \cup {None}] /\ None \notin old
      /\ \A v \in Users : made[v] \in Nat /\ users[v].backupCodes \in Nat
  BY AccountsAssumption DEF Inv, Types, User, Account
<1>2. /\ users' = [u \in Users |-> IF u \in old THEN NoUser("gone") ELSE users[u]]
      /\ accounts' = [p \in Identities |-> IF accounts[p] \in old THEN None ELSE accounts[p]]
      /\ passkeys' = passkeys \ old
      /\ UNCHANGED <<options, codes, issued, accepted, reused, made, spent, again, overwritten, cutOff>>
  BY DEF Delete, codeHistory, backupHistory
<1>3. PICK gone \in User : /\ gone = NoUser("gone") /\ gone.state = "gone" /\ gone.backupCodes = 0
                           /\ gone.email = FALSE /\ gone.password = FALSE
  BY NoUserType
<1>4. /\ \A v \in old : users'[v] = gone
      /\ \A v \in Users \ old : users'[v] = users[v]
      /\ users' \in [Users -> User]
  BY <1>1, <1>2, <1>3
<1>5. \A v \in Users \ old : Linked(v) \subseteq Linked(v)'
  BY <1>1, <1>2 DEF Linked
<1>6. ASSUME NEW d \in Clients
      PROVE  /\ req'[d] \in Request /\ RequestOK(d)'
             /\ \/ req'[d] = req[d]
                \/ /\ req'[d].at \in {"claiming", "saving", "removing"}
                   /\ req[d].at \in {"claiming", "saving", "removing"}
  <2>1. req[d] \in Request /\ RequestOK(d)
    BY <1>1 DEF Inv, RequestInv
  <2>2. CASE \E u \in old : d \in Holding(u)
    <3>1. req[d].at \in {"claiming", "saving", "removing"}
      BY <2>2 DEF Holding
    <3>2. req'[d] = [req[d] EXCEPT !.stale = TRUE]
      BY <2>2 DEF Delete
    <3>3. /\ req'[d] \in Request /\ req'[d].at = req[d].at /\ req'[d].user = req[d].user
          /\ req'[d].stale
          /\ req[d].at # "removing" => req'[d].row = req[d].row /\ req'[d].op = req[d].op
      BY <2>1, <3>1, <3>2, Staled
    <3>4. QED
      BY <1>2, <2>1, <3>1, <3>3, StaleRow
  <2>3. CASE ~\E u \in old : d \in Holding(u)
    <3>1. req'[d] = req[d]
      BY <2>3 DEF Delete
    <3>2. CASE req[d].at \in {"counting", "unlinking"} /\ req[d].user \in old
      <4>1. Spared(d)'
        BY <1>3, <1>4, <3>1, <3>2 DEF Spared, Lost, At
      <4>2. QED
        BY <2>1, <3>1, <3>2, <4>1, NoRowHeld
    <3>3. CASE ~(req[d].at \in {"counting", "unlinking"} /\ req[d].user \in old)
      <4>1. req[d].at \in {"claiming", "saving", "removing", "counting", "unlinking"} =>
              req[d].user \in Users \ old
        BY <2>1, <2>3, <3>3, Locals DEF Holding
      <4>2. QED
        BY <1>2, <1>4, <1>5, <2>1, <3>1, <4>1, OtherRow
    <3>4. QED
      BY <3>2, <3>3
  <2>4. QED
    BY <2>2, <2>3
<1>7. req' \in [Clients -> Request]
  <2>1. req' = [d \in Clients |-> req'[d]]
    BY DEF Delete
  <2>2. QED
    BY <1>6, <2>1
<1>8. ASSUME NEW v \in Users
      PROVE  UserOK(v)'
  <2>1. CASE v \in old
    <3>1. <<v, 0>> \notin spent
      BY DEF Inv, Types
    <3>2. QED
      BY <1>1, <1>2, <1>3, <1>4, <2>1, <3>1 DEF UserOK, Exists
  <2>2. CASE v \notin old
    <3>1. \A d \in Clients : v \in Linking(d) => v \in Linking(d)'
      BY <1>6 DEF Linking
    <3>2. HasWayIn(v) => HasWayIn(v)'
      BY <1>2, <1>4, <1>5, <2>2, <3>1, WayInKept
    <3>3. QED
      BY <1>1, <1>2, <1>4, <2>2, <3>2, UserKept DEF Inv, UserInv
  <2>3. QED
    BY <2>1, <2>2
<1>9. accounts' \in Account /\ passkeys' \subseteq Users
  BY <1>1, <1>2 DEF Account, Inv, Types
<1>10. Types'
  BY <1>2, <1>4, <1>7, <1>9 DEF Inv, Types
<1>11. RequestInv' /\ UserInv'
  BY <1>2, <1>6, <1>8 DEF Inv, RequestInv, UserInv
<1>12. QED
  BY <1>6, <1>10, <1>11 DEF Inv

--------------------------------------------------------------------------------
(* All steps *)

\* The invariant of the component: rows and the entities of requests, codes, e-mails
\* and phone numbers.
FullInv == Inv /\ CodeInv /\ OneEach

LEMMA InitInv == Init => FullInv
<1> SUFFICES ASSUME Init
             PROVE  FullInv
  OBVIOUS
<1>1. /\ options \in Configurations /\ accounts = [p \in Identities |-> None] /\ passkeys = {}
      /\ codes = [k \in Kinds |-> "none"] /\ issued = {} /\ req = [c \in Clients |-> Idle]
      /\ made = [u \in Users |-> 0] /\ spent = {} /\ again = {} /\ accepted = {} /\ reused = {}
      /\ overwritten = {} /\ cutOff = {}
  BY DEF Init
<1>2. PICK none \in User : /\ none = NoUser("unused") /\ none.state = "unused"
                           /\ none.email = FALSE /\ none.phone = FALSE
                           /\ none.password = FALSE /\ none.backupCodes = 0
  BY NoUserType
<1>3. users = [u \in Users |-> none]
  BY <1>2 DEF Init
<1>4. Idle \in Request /\ Idle.at = "idle" /\ MaxGen \in Nat
  BY Made, AccountsAssumption DEF Idle
<1>5. \A c \in Clients : req[c] = Idle
  BY <1>1
<1>6. RequestInv
  BY <1>4, <1>5 DEF RequestInv, RequestOK, NewRow, HeldRow, FreshRow, FreshEntity, Spared, At
<1>7. UserInv
  BY <1>1, <1>2, <1>3 DEF UserInv, UserOK, Exists
<1>8. Types
  <2>1. options \subseteq Features
    BY <1>1, ConfigurationsAssumption
  <2>2. QED
    BY <1>1, <1>3, <1>4, <2>1 DEF Types, Account, Verification
<1>9. CodeInv
  BY <1>1, <1>4 DEF CodeInv, At
<1>10. OneEach
  BY <1>2, <1>3 DEF OneEach, Exists
<1>11. QED
  BY <1>6, <1>7, <1>8, <1>9, <1>10 DEF FullInv, Inv

LEMMA StutterInv ==
  ASSUME FullInv, UNCHANGED vars
  PROVE  FullInv'
<1>1. UNCHANGED <<options, users, accounts, passkeys, codes, issued, req, accepted, reused, made,
                  spent, again, overwritten, cutOff>>
  BY DEF vars, tables, codeHistory, backupHistory
<1>2. RequestInv'
  BY <1>1, SameRow DEF FullInv, Inv, RequestInv
<1>3. ASSUME NEW u \in Users
      PROVE  UserOK(u)'
  <2>1. HasWayIn(u) => HasWayIn(u)'
    BY <1>1 DEF HasWayIn, Linked, Linking, Opens, Registered
  <2>2. UserOK(u)
    BY DEF FullInv, Inv, UserInv
  <2>3. QED
    BY <1>1, <2>1, <2>2 DEF UserOK, Exists, Opens, Registered
<1>4. UserInv'
  BY <1>1, <1>3 DEF FullInv, Inv, UserInv
<1>5. Types'
  BY <1>1 DEF FullInv, Inv, Types
<1>6. CodeInv'
  BY <1>1, OtherCodes DEF FullInv
<1>7. OneEach'
  BY <1>1 DEF FullInv, OneEach, Exists
<1>8. QED
  BY <1>2, <1>4, <1>5, <1>6, <1>7 DEF FullInv, Inv

\* What a step does to the rows: none is written, a new one is inserted, the one of the
\* user of a request is written, or anonymous users are deleted.
LEMMA Rows ==
  ASSUME FullInv, Next
  PROVE  \/ UNCHANGED users
         \/ \E u \in Users, r \in User : Insert(u, r)
         \/ \E c \in Clients : Save(c) \/ SoftRemove(c)
         \/ \E old \in SUBSET {u \in Users : Exists(u) /\ users[u].isAnonymous} : Delete(old)
<1>1. req \in [Clients -> Request]
  BY DEF FullInv, Inv, Types
<1>2. ASSUME NEW c \in Clients, Inserts(c)
      PROVE  \E u \in Users, r \in User : Insert(u, r)
  <2>1. CASE Create(c)
    <3>1. req[c].row \in User
      BY <1>1, <2>1, Locals DEF Create, At
    <3>2. QED
      BY <2>1, <3>1 DEF Create, InsertAndLogin
  <2>2. CASE CreateAndLink(c)
    <3>1. req[c].row \in User
      BY <1>1, <2>2, Locals DEF CreateAndLink, At
    <3>2. QED
      BY <2>2, <3>1 DEF CreateAndLink
  <2>3. CASE LoginAnonymous(c)
    <3>1. NewUser(FALSE, FALSE, FALSE, FALSE, TRUE) \in User
      BY NewUserType
    <3>2. QED
      BY <2>3, <3>1 DEF LoginAnonymous, InsertAndLogin
  <2>4. QED
    BY <1>2, <2>1, <2>2, <2>3 DEF Inserts
<1>3. ASSUME NEW c \in Clients, Reads(c) \/ Gives(c) \/ Codes(c) \/ Attach(c) \/ Unlink(c)
      PROVE  UNCHANGED users
  <2>1. CASE Reads(c)
    BY <2>1, ReadsFrame
  <2>2. CASE Gives(c)
    BY <2>2 DEF Gives, EnableTOTP, GenerateBackupCodes, GiveCodes, tables
  <2>3. CASE Codes(c)
    BY <2>3 DEF Codes, Sent, FindCode, RemoveCode, tables
  <2>4. CASE Attach(c) \/ Unlink(c)
    BY <2>4 DEF Attach, Unlink
  <2>5. QED
    BY <1>3, <2>1, <2>2, <2>3, <2>4
<1>4. \A k \in Kinds : Expire(k) => UNCHANGED users
  BY DEF Expire
<1>5. QED
  BY <1>2, <1>3, <1>4, Steps, Zenon

LEMMA CodeInvNext ==
  ASSUME FullInv, Next
  PROVE  Inv' /\ CodeInv'
<1>1. Inv /\ CodeInv /\ Types
  BY DEF FullInv, Inv
<1>2. ASSUME NEW c \in Clients, Reads(c)
      PROVE  Inv' /\ CodeInv'
  <2>1. UNCHANGED <<codes, accepted, reused>>
    BY <1>2, ReadsFrame DEF codeHistory
  <2>2. QED
    BY <1>1, <1>2, <2>1, ReadsInv, OtherCodes
<1>3. ASSUME NEW c \in Clients, Gives(c)
      PROVE  Inv' /\ CodeInv'
  <2>1. UNCHANGED <<codes, accepted, reused>>
    BY <1>3 DEF Gives, EnableTOTP, GenerateBackupCodes, GiveCodes, tables, codeHistory
  <2>2. req'[c].at # "spending"
    <3>1. req \in [Clients -> Request]
      BY <1>1 DEF Types
    <3>2. QED
      BY <1>3, <3>1 DEF Gives, EnableTOTP, GenerateBackupCodes, GiveCodes, Become
  <2>3. QED
    BY <1>1, <1>3, <2>1, <2>2, GivesInv, OtherCodes
<1>4. ASSUME NEW c \in Clients, Inserts(c)
      PROVE  Inv' /\ CodeInv'
  <2>1. UNCHANGED <<codes, accepted, reused>>
    BY <1>4 DEF Inserts, Create, CreateAndLink, LoginAnonymous, InsertAndLogin, Insert, codeHistory
  <2>2. req'[c].at # "spending"
    <3>1. req \in [Clients -> Request] /\ \A p : LinkStep(p) # "spending"
      BY <1>1 DEF Types, LinkStep
    <3>2. CASE Create(c) \/ LoginAnonymous(c)
      <4>1. Become(c, Idle)
        BY <3>2, Zenon DEF Create, LoginAnonymous, InsertAndLogin, End
      <4>2. QED
        BY <3>1, <4>1 DEF Become, Idle
    <3>3. CASE CreateAndLink(c)
      <4>1. PICK p, u : Become(c, [at |-> LinkStep(p), id |-> p, user |-> u, second |-> FALSE])
        BY <3>3 DEF CreateAndLink
      <4>2. QED
        BY <3>1, <4>1 DEF Become
    <3>4. QED
      BY <1>4, <3>2, <3>3 DEF Inserts
  <2>3. QED
    BY <1>1, <1>4, <2>1, <2>2, InsertsInv, OtherCodes
<1>5. ASSUME NEW c \in Clients, Save(c) \/ SoftRemove(c)
      PROVE  Inv' /\ CodeInv'
  <2>1. UNCHANGED <<codes, accepted, reused>>
    BY <1>5 DEF Save, SoftRemove, codeHistory
  <2>2. /\ Inv' /\ req'[c] = Idle
        /\ \A d \in Clients \ {c} : \/ req'[d] = req[d]
                                    \/ req[d].at \in {"claiming", "saving", "removing"}
    BY <1>1, <1>5, SaveInv, SoftRemoveInv
  <2>3. \A d \in Clients : req'[d] = req[d] \/ req'[d].at # "spending"
    <3>1. PICK u : Overtake(c, u, Idle)
      BY <1>5 DEF Save, SoftRemove
    <3>2. req \in [Clients -> Request]
      BY <1>1 DEF Types
    <3>3. ASSUME NEW d \in Clients \ {c}, req'[d] # req[d]
          PROVE  req'[d].at # "spending"
      <4>1. /\ req'[d] = [req[d] EXCEPT !.stale = TRUE]
            /\ req[d].at \in {"claiming", "saving", "removing"}
        BY <3>1, <3>3 DEF Overtake, Holding
      <4>2. QED
        BY <3>2, <4>1, Staled
    <3>4. QED
      BY <2>2, <3>3 DEF Idle
  <2>4. QED
    BY <1>1, <2>1, <2>2, <2>3, OtherCodes
<1>6. ASSUME NEW c \in Clients, Codes(c)
      PROVE  Inv' /\ CodeInv'
  BY <1>1, <1>6, SentInv, FindCodeInv, RemoveCodeInv DEF Codes
<1>7. ASSUME NEW c \in Clients, Attach(c) \/ Unlink(c)
      PROVE  Inv' /\ CodeInv'
  <2>1. UNCHANGED <<codes, accepted, reused>>
    BY <1>7 DEF Attach, Unlink, codeHistory
  <2>2. QED
    BY <1>1, <1>7, <2>1, AttachInv, UnlinkInv, OtherCodes DEF Idle
<1>8. ASSUME NEW old \in SUBSET {u \in Users : Exists(u) /\ users[u].isAnonymous}, Delete(old)
      PROVE  Inv' /\ CodeInv'
  <2>1. UNCHANGED <<codes, accepted, reused>>
    BY <1>8 DEF Delete, codeHistory
  <2>2. QED
    BY <1>1, <1>8, <2>1, DeleteInv, OtherCodes
<1>9. ASSUME NEW k \in Kinds, Expire(k)
      PROVE  Inv' /\ CodeInv'
  BY <1>1, <1>9, ExpireInv
<1>10. QED
  BY <1>2, <1>3, <1>4, <1>5, <1>6, <1>7, <1>8, <1>9, Steps, Zenon

\* The row that is saved
LEMMA Saved ==
  ASSUME FullInv, NEW c \in Clients, Save(c)
  PROVE  \E u \in Users, w \in User :
           /\ u = req[c].user /\ users' = [users EXCEPT ![u] = w] /\ Unique(u, w)
           /\ w.state = "live" /\ w.isAnonymous = req[c].row.isAnonymous
<1>1. Inv /\ req[c] \in Request /\ At(c, "saving")
  BY DEF FullInv, Inv, Types, Save
<1>2. PICK u \in Users, row \in User, w \in {Written(c)} : u = req[c].user /\ row = req[c].row
  BY <1>1, Locals DEF At
<1>3. users' = [users EXCEPT ![u] = w] /\ Unique(u, w)
  BY <1>2 DEF Save
<1>4. w \in User /\ w.state = "live" /\ w.isAnonymous = row.isAnonymous
  BY <1>1, <1>2, WrittenRow
<1>5. QED
  BY <1>2, <1>3, <1>4

\* Every write that gives a row the e-mail or the phone finds no other row that has it.
LEMMA OneEachNext ==
  ASSUME FullInv, Next
  PROVE  OneEach'
<1>1. users \in [Users -> User] /\ OneEach /\ req \in [Clients -> Request]
  BY DEF FullInv, Inv, Types
<1>2. ASSUME NEW u \in Users, NEW r \in User, Unique(u, r), users' = [users EXCEPT ![u] = r]
      PROVE  OneEach'
  BY <1>1, <1>2 DEF OneEach, Unique, Exists
<1>3. CASE UNCHANGED users
  BY <1>1, <1>3 DEF OneEach, Exists
<1>4. ASSUME NEW u \in Users, NEW r \in User, Insert(u, r)
      PROVE  OneEach'
  BY <1>2, <1>4 DEF Insert
<1>5. ASSUME NEW c \in Clients, Save(c)
      PROVE  OneEach'
  BY <1>2, <1>5, Saved
<1>6. ASSUME NEW c \in Clients, SoftRemove(c)
      PROVE  OneEach'
  <2>1. \A u \in Users : /\ Exists(u)' => Exists(u)
                         /\ users'[u].email = users[u].email
                         /\ users'[u].phone = users[u].phone
    <3>1. PICK u \in Users : u = req[c].user
      BY <1>1, <1>6, Locals DEF SoftRemove, At
    <3>2. CASE Exists(u)
      <4>1. PICK r : r = [users[u] EXCEPT !.state = "deleted"]
        OBVIOUS
      <4>2. r.email = users[u].email /\ r.phone = users[u].phone
        BY <1>1, <4>1, Deleted
      <4>3. users' = [users EXCEPT ![u] = r]
        BY <1>6, <3>1, <3>2, <4>1 DEF SoftRemove
      <4>4. QED
        BY <1>1, <3>2, <4>2, <4>3 DEF Exists
    <3>3. CASE ~Exists(u)
      BY <1>6, <3>1, <3>3 DEF SoftRemove, Exists
    <3>4. QED
      BY <3>2, <3>3
  <2>2. QED
    BY <1>1, <2>1 DEF OneEach
<1>7. ASSUME NEW old \in SUBSET {u \in Users : Exists(u) /\ users[u].isAnonymous}, Delete(old)
      PROVE  OneEach'
  <2>1. NoUser("gone").email = FALSE /\ NoUser("gone").phone = FALSE
    BY NoUserType
  <2>2. \A u \in Users : \/ users'[u] = users[u]
                         \/ users'[u].email = FALSE /\ users'[u].phone = FALSE
    BY <1>1, <1>7, <2>1 DEF Delete
  <2>3. QED
    BY <1>1, <2>2 DEF OneEach, Exists
<1>8. QED
  BY <1>3, <1>4, <1>5, <1>6, <1>7, Rows

\* A row that is not anonymous is written over with one that is not, unless by a stale save.
LEMMA StillThere ==
  ASSUME FullInv, Next, NEW u \in Users, Exists(u), ~users[u].isAnonymous
  PROVE  u \in overwritten' \/ (Exists(u)' /\ ~users'[u].isAnonymous)
<1>1. users \in [Users -> User] /\ req \in [Clients -> Request]
  BY DEF FullInv, Inv, Types
<1>2. CASE UNCHANGED users
  BY <1>2 DEF Exists
<1>3. ASSUME NEW v \in Users, NEW r \in User, Insert(v, r)
      PROVE  Exists(u)' /\ ~users'[u].isAnonymous
  BY <1>1, <1>3 DEF Insert, Exists
<1>4. ASSUME NEW c \in Clients, Save(c)
      PROVE  u \in overwritten' \/ (Exists(u)' /\ ~users'[u].isAnonymous)
  <2>1. PICK v \in Users, w \in User :
          /\ v = req[c].user /\ users' = [users EXCEPT ![v] = w]
          /\ w.state = "live" /\ w.isAnonymous = req[c].row.isAnonymous
    BY <1>4, Saved
  <2>2. CASE v # u
    BY <1>1, <2>1, <2>2 DEF Exists
  <2>3. CASE v = u /\ req[c].stale
    BY <1>4, <2>1, <2>3 DEF Save
  <2>4. CASE v = u /\ ~req[c].stale
    <3>1. FreshEntity(c) /\ req[c].at = "saving"
      BY <1>4 DEF FullInv, Inv, RequestInv, RequestOK, Save, At
    <3>2. ~req[c].row.isAnonymous
      BY <2>1, <2>4, <3>1 DEF FreshEntity, Keeps
    <3>3. QED
      BY <1>1, <2>1, <2>4, <3>2 DEF Exists
  <2>5. QED
    BY <2>2, <2>3, <2>4
<1>5. ASSUME NEW c \in Clients, SoftRemove(c)
      PROVE  Exists(u)' /\ ~users'[u].isAnonymous
  <2>1. PICK v \in Users : v = req[c].user
    BY <1>1, <1>5, Locals DEF SoftRemove, At
  <2>2. CASE v = u
    <3>1. PICK r : r = [users[u] EXCEPT !.state = "deleted"]
      OBVIOUS
    <3>2. r.state = "deleted" /\ r.isAnonymous = users[u].isAnonymous
      BY <1>1, <3>1, Deleted
    <3>3. users' = [users EXCEPT ![u] = r]
      BY <1>5, <2>1, <2>2, <3>1 DEF SoftRemove
    <3>4. QED
      BY <1>1, <3>2, <3>3 DEF Exists
  <2>3. CASE v # u
    BY <1>1, <1>5, <2>1, <2>3 DEF SoftRemove, Exists
  <2>4. QED
    BY <2>2, <2>3
<1>6. ASSUME NEW old \in SUBSET {v \in Users : Exists(v) /\ users[v].isAnonymous}, Delete(old)
      PROVE  Exists(u)' /\ ~users'[u].isAnonymous
  BY <1>1, <1>6 DEF Delete, Exists
<1>7. QED
  BY <1>2, <1>3, <1>4, <1>5, <1>6, Rows

LEMMA FullInvNext ==
  ASSUME FullInv, [Next]_vars
  PROVE  FullInv'
  BY StutterInv, CodeInvNext, OneEachNext DEF FullInv

\* Rows, the entities that requests hold, codes and the unique columns stay in agreement,
\* for any number of requests at any of their awaits.
THEOREM AccountsInvariant == Spec => []FullInv
  BY InitInv, FullInvNext, PTL DEF Spec

--------------------------------------------------------------------------------
(* The properties *)

\* The tables, requests and histories keep their shape, and the e-mail address belongs to
\* one row at most, as does the phone number, whichever requests insert and save rows at
\* once: every write is checked by the unique indexes of auth_users, which count deleted
\* rows.
THEOREM AccountsTypeCorrect == Spec => []TypeOK
<1>1. ASSUME FullInv
      PROVE  TypeOK
  <2>1. /\ Cardinality({u \in Users : Exists(u) /\ users[u].email}) <= 1
        /\ Cardinality({u \in Users : Exists(u) /\ users[u].phone}) <= 1
    BY <1>1, OneOrNone DEF FullInv, OneEach
  <2>2. QED
    BY <1>1, <2>1 DEF FullInv, Inv, Types, TypeOK, Passkey
<1>2. QED
  BY <1>1, AccountsInvariant, PTL

\* A one-time code or link is accepted once, unless two verifications overlap, and a
\* backup code is, unless an older row was saved over a newer one: what makes them
\* single-use is the row that is removed and the list that is written back.
THEOREM CodesAreUsedOnce == Spec => []OneUse
<1>1. FullInv => OneUse
  BY DEF FullInv, Inv, CodeInv, UserInv, OneUse
<1>2. QED
  BY <1>1, AccountsInvariant, PTL

\* Users are kept, and keep a way in: whoever is not anonymous can log in by e-mail or has a
\* linked identity, and no later registration, login, conversion, linking, unlinking or
\* cleanup takes that away, but for a save of an older row, two unlinks at once and a link
\* that failed.  Not so those whom register() or convertAnonymousUser() leaves without either.
THEOREM UsersStay == Spec => UsersKept
<1> DEFINE Kept == \A u \in Users :
                     /\ Exists(u) /\ ~users[u].isAnonymous =>
                          \/ u \in overwritten'
                          \/ Exists(u)' /\ ~users'[u].isAnonymous
                     /\ Found(u)' /\ ~users'[u].isAnonymous => HasWayIn(u)'
<1>1. FullInv /\ Next => Kept
  <2> SUFFICES ASSUME FullInv, Next, NEW u \in Users
               PROVE  /\ Exists(u) /\ ~users[u].isAnonymous =>
                           \/ u \in overwritten'
                           \/ Exists(u)' /\ ~users'[u].isAnonymous
                      /\ Found(u)' /\ ~users'[u].isAnonymous => HasWayIn(u)'
    OBVIOUS
  <2>1. UserOK(u)'
    BY CodeInvNext DEF Inv, UserInv
  <2>2. Found(u)' => Exists(u)'
    BY DEF Found, Exists
  <2>3. QED
    BY <2>1, <2>2, StillThere DEF UserOK
<1>2. FullInv /\ [Next]_vars => [Kept]_vars
  BY <1>1
<1>3. QED
  BY <1>2, AccountsInvariant, PTL DEF Spec, UsersKept

==================================================================================
