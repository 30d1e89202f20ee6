-------------------------------- MODULE Accounts --------------------------------
(***************************************************************************)
(* The ways into an account: registration, one-time codes and links,       *)
(* OAuth, SSO and One Tap identities, passkeys, anonymous users and their  *)
(* conversion, and two-factor backup codes, by concurrent requests that    *)
(* may fail at any await, over the tables of users, linked accounts,       *)
(* passkeys and verifications.                                             *)
(*                                                                         *)
(* One e-mail address and one phone number are at stake: every input that  *)
(* has one has that one.  save() is one step here, the write of every      *)
(* column the entity holds (AuthSessions takes it apart).  The session     *)
(* rows and token versions are there, too.                                 *)
(***************************************************************************)
EXTENDS Integers, FiniteSets

CONSTANTS
  Clients,         \* requests that can be in progress at once
  Users,           \* ids of users; a bound on how many are ever created
  OAuthIds,        \* <<provider, providerAccountId>> of OAuth providers
  SsoIds,          \* and of SSO providers: their names start with "sso-"
  MaxGen,          \* bound on how often a user is given backup codes
  Configurations,  \* sets of options the module may be started with
  None             \* no user, no identity

ASSUME AccountsAssumption ==
  /\ OAuthIds \cap SsoIds = {}
  /\ None \notin Users \cup OAuthIds \cup SsoIds
  /\ MaxGen \in Nat

VARIABLES
  options,     \* what this installation has enabled
  users,       \* users[u]: the row of auth_users
  accounts,    \* accounts[p]: the user identity p is linked to
  passkeys,    \* users with a row for the one passkey credential
  codes,       \* codes[k]: the last verification of kind k: "none", "live" or "expired"
  issued,      \* users a token was ever issued to
  req,         \* req[c]: where request c is, with the locals it still needs
  made,        \* made[u]: how often u was given backup codes
  spent,       \* history: <<u, g>>: backup code g of u was accepted
  again,       \* history: users one of whose backup codes was accepted twice
  accepted,    \* history: kinds whose last code was accepted
  reused,      \* history: kinds a code of which was accepted again, though the requests
               \* that accepted it did not overlap
  overwritten, \* history: users whose row was saved by a request that had an older one
  cutOff       \* history: users registered or converted with nothing to log in with, and
               \* those whose linking failed or raced, or whose unlinks did

tables == <<users, accounts, passkeys, codes>>
codeHistory == <<accepted, reused>>
backupHistory == <<made, spent, again>>
vars == <<options, tables, issued, req, codeHistory, backupHistory, overwritten, cutOff>>

Identities == OAuthIds \cup SsoIds
Kinds == {"otp", "2fa", "magic-link"}
Features == {"credentials", "registration", "otp", "magicLink", "oauth", "oauthRegistration",
             "sso", "ssoRegistration", "onelink", "passkey", "twoFactor"}

ASSUME ConfigurationsAssumption == Configurations \subseteq SUBSET Features

\* A row of auth_users.  state: not yet created, there, deleted softly, or deleted for
\* good; backupCodes: which backup codes it has, 0 for none; used: whether the one that
\* is tried has been used.
User == [state : {"unused", "live", "deleted", "gone"},
         email : BOOLEAN, emailVerified : BOOLEAN, phone : BOOLEAN,
         password : BOOLEAN, isAnonymous : BOOLEAN,
         twoFactorEnabled : BOOLEAN, backupCodes : 0..MaxGen, used : BOOLEAN]

NewUser(email, verified, phone, password, anonymous) ==
  [state |-> "live", email |-> email, emailVerified |-> verified, phone |-> phone,
   password |-> password, isAnonymous |-> anonymous, twoFactorEnabled |-> FALSE,
   backupCodes |-> 0, used |-> FALSE]

NoUser(state) == [NewUser(FALSE, FALSE, FALSE, FALSE, FALSE) EXCEPT !.state = state]

Exists(u) == users[u].state \in {"live", "deleted"}

\* findOne({ id }): a deleted row is not found.
Found(u) == users[u].state = "live"

\* findOne({ email }) and findOne({ phone })
HasEmail == {u \in Users : Found(u) /\ users[u].email}
HasPhone == {u \in Users : Found(u) /\ users[u].phone}

\* The unique indexes on email and phone count deleted rows as well: u may have r.
UniqueFound(u, r) ==   \* mutant: indexes on the rows not deleted
  /\ r.email => HasEmail \subseteq {u}
  /\ r.phone => HasPhone \subseteq {u}
Unique(u, r) ==
  \A v \in Users \ {u} : Exists(v) => ~(r.email /\ users[v].email) /\ ~(r.phone /\ users[v].phone)

Linked(u) == {p \in Identities : accounts[p] = u}

\* auth_accounts, auth_passkeys and auth_verifications
Account == [Identities -> Users \cup {None}]
Passkey == SUBSET Users
Verification == [Kinds -> {"none", "live", "expired"}]

--------------------------------------------------------------------------------
(* Requests. *)

Saves == {"profile", "password", "enable", "generate", "disable", "backup", "convert", "code"}

Request ==
  [at : {"idle"}]
  \cup [at : {"creating"}, row : User, link : Identities \cup {None}]
  \cup [at : {"claiming", "saving"}, user : Users, row : User, op : Saves, stale : BOOLEAN]
  \cup [at : {"removing"}, user : Users, stale : BOOLEAN]
  \cup [at : {"spending"}, kind : Kinds, login : BOOLEAN, raced : BOOLEAN]
  \cup [at : {"entering"}, kind : Kinds]
  \cup [at : {"matching"}, id : Identities, email : BOOLEAN]
  \cup [at : {"linking", "attaching"}, id : Identities, user : Users, second : BOOLEAN]
  \cup [at : {"counting"}, id : Identities, user : Users, password : BOOLEAN]
  \cup [at : {"unlinking"}, id : Identities, user : Users]
  \cup [at : {"discarding"}, user : Users]

Idle == [at |-> "idle"]
At(c, step) == req[c].at = step
Become(c, r) == req' = [req EXCEPT ![c] = r]
End(c) == Become(c, Idle)

\* The requests that hold an entity read from the row of u.
Holding(u) == {c \in Clients : req[c].at \in {"claiming", "saving", "removing"} /\ req[c].user = u}

\* The row of u is written by c, which goes on as r: what others hold is older now.
Overtake(c, u, r) ==
  req' = [d \in Clients |-> CASE d = c -> r
                              [] d \in Holding(u) \ {c} -> [req[d] EXCEPT !.stale = TRUE]
                              [] OTHER -> req[d]]

\* createLoginResult(): tokens, unless the user has a second factor; no request
\* completes such a login.
Login(u, second) == issued' = IF second THEN issued ELSE issued \cup {u}

\* The users that request c was about to link.
Linking(c) == IF req[c].at \in {"linking", "attaching"} THEN {req[c].user} ELSE {}

\* An await of request c rejects, or its process dies: what it has written stays.
Fails(c) ==
  /\ ~At(c, "idle")
  /\ cutOff' = cutOff \cup Linking(c)
  /\ End(c)
  /\ UNCHANGED <<options, tables, issued, codeHistory, backupHistory, overwritten>>

\* userRepo.save(create(...)): a row with a new id, u, is inserted.
Insert(u, r) ==
  /\ users[u].state = "unused" /\ Unique(u, r)
  /\ users' = [users EXCEPT ![u] = r]
  /\ UNCHANGED <<accounts, passkeys, codes>>

\* The same, and tokens for the new user.
InsertAndLogin(c, u, r) == Insert(u, r) /\ Login(u, FALSE) /\ End(c)

--------------------------------------------------------------------------------
(* Services and guards. *)

\* What the options register.
Registered(service) == service \in options

\* AuthGuard: a token of u, whose row may be deleted or gone by now.
AuthGuard(u) == u \in issued

\* A user with the row r can log in: by e-mail and password, or through a service that
\* lets in whoever has the e-mail address.  A phone number or a password alone do not do.
Opens(r) ==
  /\ r.email
  /\ \/ r.password /\ Registered("credentials")
     \/ options \cap {"otp", "magicLink", "oauth", "sso", "onelink"} # {}

\* No login is left to u, once its row is r, but an identity that unlinkAccount() guards.
Stranded(u, r) == ~Opens(r) /\ (r.password \/ Linked(u) = {})

--------------------------------------------------------------------------------
(* AuthService. *)

\* register(): neither the e-mail nor the phone number is in use; the row is inserted
\* later.  A registration has any of an e-mail, unverified, a phone number and a password.
Register(c) ==
  /\ At(c, "idle") /\ {"credentials", "registration"} \subseteq options
  /\ \E email, phone, password \in BOOLEAN :
       /\ email => HasEmail = {}
       /\ phone => HasPhone = {}
       /\ Become(c, [at |-> "creating", link |-> None,
                     row |-> NewUser(email, FALSE, phone, password, FALSE)])
  /\ UNCHANGED <<options, tables, issued, codeHistory, backupHistory, overwritten, cutOff>>

Create(c) ==
  /\ At(c, "creating") /\ req[c].link = None
  /\ \E u \in Users :
       /\ InsertAndLogin(c, u, req[c].row)
       /\ cutOff' = IF Stranded(u, req[c].row) THEN cutOff \cup {u} ELSE cutOff
  /\ UNCHANGED <<options, codeHistory, backupHistory, overwritten>>

\* findUserByIdentifier(): the query by phone number is never reached, for the promise of
\* the one by e-mail before it is not null.
FindUserByIdentifier(identifier) == {u \in HasEmail : identifier = "email"}

LoginWithPassword(c) ==
  /\ At(c, "idle") /\ Registered("credentials")
  /\ \E identifier \in {"email", "phone"} : \E u \in FindUserByIdentifier(identifier) :
       users[u].password /\ Login(u, users[u].twoFactorEnabled)
  /\ UNCHANGED <<options, tables, req, codeHistory, backupHistory, overwritten, cutOff>>

LoginAnonymous(c) ==
  /\ At(c, "idle")
  /\ \E u \in Users : InsertAndLogin(c, u, NewUser(FALSE, FALSE, FALSE, FALSE, TRUE))
  /\ UNCHANGED <<options, codeHistory, backupHistory, overwritten, cutOff>>

\* A request has read the row of u and is going to save it as r.
Hold(c, step, u, r, op) ==
  /\ Become(c, [at |-> step, user |-> u, row |-> r, op |-> op, stale |-> FALSE])
  /\ UNCHANGED <<options, tables, issued, codeHistory, backupHistory, overwritten, cutOff>>

\* convertAnonymousUser() with an e-mail, a password, both or neither; no phone number.
ConvertAnonymousUser(c, u) ==
  /\ At(c, "idle") /\ Registered("credentials") /\ Found(u) /\ users[u].isAnonymous
  /\ \E email, password \in BOOLEAN :
       /\ password => Registered("registration")
       /\ Hold(c, "claiming", u,
               [users[u] EXCEPT !.email = @ \/ email, !.password = @ \/ password,
                                !.isAnonymous = FALSE], "convert")

\* ... whose e-mail must not be in use.
Claim(c) ==
  /\ At(c, "claiming")
  /\ req[c].row.email => HasEmail = {}
  /\ Become(c, [req[c] EXCEPT !.at = "saving"])
  /\ UNCHANGED <<options, tables, issued, codeHistory, backupHistory, overwritten, cutOff>>

UpdateProfile(c, u) ==
  At(c, "idle") /\ Found(u) /\ Hold(c, "saving", u, users[u], "profile")

ChangePassword(c, u) ==
  /\ At(c, "idle") /\ Registered("credentials")
  /\ Found(u) /\ users[u].password
  /\ Hold(c, "saving", u, users[u], "password")

DeleteAccount(c, u) ==
  /\ At(c, "idle") /\ Found(u)
  /\ Become(c, [at |-> "removing", user |-> u, stale |-> FALSE])
  /\ UNCHANGED <<options, tables, issued, codeHistory, backupHistory, overwritten, cutOff>>

\* softRemove() writes deletedAt only: the other columns keep what deleteAccount()
\* has cleared in the entity.
SoftRemove(c) ==
  /\ At(c, "removing")
  /\ LET u == req[c].user IN
       /\ users' = IF Exists(u) THEN [users EXCEPT ![u].state = "deleted"] ELSE users
       /\ Overtake(c, u, Idle)
  /\ UNCHANGED <<options, accounts, passkeys, codes, issued, codeHistory, backupHistory,
                 overwritten, cutOff>>

--------------------------------------------------------------------------------
(* save() of a user that was read before. *)

\* The row that request c writes.  An undefined column is left as it is in the row,
\* and a row that is gone is inserted again.
Written(c) ==
  LET u == req[c].user
      r == req[c].row
  IN IF req[c].op # "disable" THEN r
     ELSE IF Exists(u) THEN [r EXCEPT !.backupCodes = users[u].backupCodes, !.used = users[u].used]
     ELSE [r EXCEPT !.backupCodes = 0, !.used = FALSE]

Save(c) ==
  /\ At(c, "saving")
  /\ LET u == req[c].user
         op == req[c].op
         code == <<u, req[c].row.backupCodes>>
     IN /\ Unique(u, Written(c))
        /\ users' = [users EXCEPT ![u] = Written(c)]
        /\ Overtake(c, u, Idle)
        /\ overwritten' = IF req[c].stale THEN overwritten \cup {u} ELSE overwritten
        /\ cutOff' = IF op = "convert" /\ Stranded(u, Written(c))
                       THEN cutOff \cup {u} ELSE cutOff
        /\ IF op \in {"convert", "code"}
             THEN Login(u, op = "code" /\ req[c].row.twoFactorEnabled)
             ELSE UNCHANGED issued
        /\ IF op = "backup"
             THEN /\ spent' = spent \cup {code}
                  /\ again' = IF code \in spent THEN again \cup {u} ELSE again
             ELSE UNCHANGED <<spent, again>>
  /\ UNCHANGED <<options, accounts, passkeys, codes, codeHistory, made>>

--------------------------------------------------------------------------------
(* TwoFactorService. *)

\* u is given new backup codes.
GiveCodes(c, u, second, op) ==
  /\ At(c, "idle") /\ Found(u) /\ made[u] < MaxGen
  /\ made' = [made EXCEPT ![u] = @ + 1]
  /\ Become(c, [at |-> "saving", user |-> u, op |-> op, stale |-> FALSE,
                row |-> [users[u] EXCEPT !.twoFactorEnabled = second,
                                         !.backupCodes = made[u] + 1, !.used = FALSE]])
  /\ UNCHANGED <<options, tables, issued, codeHistory, spent, again, overwritten, cutOff>>

EnableTOTP(c, u) == GiveCodes(c, u, TRUE, "enable")

GenerateBackupCodes(c, u) == Found(u) /\ GiveCodes(c, u, users[u].twoFactorEnabled, "generate")

\* The code is in the row that was read and not marked as used there.
VerifyBackupCode(c, u) ==
  /\ At(c, "idle") /\ Found(u) /\ users[u].backupCodes # 0 /\ ~users[u].used
  /\ Hold(c, "saving", u, [users[u] EXCEPT !.used = TRUE], "backup")

Disable(c, u) ==
  /\ At(c, "idle") /\ Found(u)
  /\ Hold(c, "saving", u, [users[u] EXCEPT !.twoFactorEnabled = FALSE], "disable")

--------------------------------------------------------------------------------
(* OtpService and MagicLinkService.  Other codes of a kind fare like the last one, *)
(* which is sent when no request is busy with the one before (a bound).            *)

Sent(c, k) ==
  /\ At(c, "idle") /\ codes[k] # "live"
  /\ \A d \in Clients : ~(At(d, "spending") /\ req[d].kind = k)
  /\ codes' = [codes EXCEPT ![k] = "live"]
  /\ accepted' = accepted \ {k}
  /\ UNCHANGED <<options, users, accounts, passkeys, issued, req, reused, backupHistory,
                 overwritten, cutOff>>

\* For "login" and "verify" the type is 'otp'.
SendOtp(c) == Registered("otp") /\ \E k \in {"otp", "2fa"} : Sent(c, k)

GenerateToken(c) == Registered("magicLink") /\ Sent(c, "magic-link")

\* The row is found and not expired.
FindCode(c, k, login) ==
  /\ At(c, "idle") /\ codes[k] = "live"
  /\ LET others == {d \in Clients : At(d, "spending") /\ req[d].kind = k}
     IN req' = [d \in Clients |->
                  CASE d = c -> [at |-> "spending", kind |-> k, login |-> login,
                                 raced |-> others # {}]
                    [] d \in others -> [req[d] EXCEPT !.raced = TRUE]
                    [] OTHER -> req[d]]
  /\ UNCHANGED <<options, tables, issued, codeHistory, backupHistory, overwritten, cutOff>>

VerifyOtp(c) ==
  /\ Registered("otp")
  /\ \/ FindCode(c, "otp", TRUE)
     \/ FindCode(c, "otp", FALSE)
     \/ FindCode(c, "2fa", FALSE)

VerifyToken(c) == Registered("magicLink") /\ FindCode(c, "magic-link", TRUE)

\* Request c has a valid code of kind k.
Accept(c, k) ==
  /\ accepted' = accepted \cup {k}
  /\ reused' = IF k \in accepted /\ ~req[c].raced THEN reused \cup {k} ELSE reused
  /\ Become(c, IF req[c].login THEN [at |-> "entering", kind |-> k] ELSE Idle)

\* verificationRepo.remove(): no error if the row is gone.
KeepCode(c) ==   \* mutant: the row stays
  /\ At(c, "spending")
  /\ Accept(c, req[c].kind)
  /\ UNCHANGED <<options, tables, issued, backupHistory, overwritten, cutOff>>
RemoveCode(c) ==
  /\ At(c, "spending")
  /\ Accept(c, req[c].kind)
  /\ codes' = [codes EXCEPT ![req[c].kind] = "none"]
  /\ UNCHANGED <<options, users, accounts, passkeys, issued, backupHistory, overwritten, cutOff>>

\* The user of the e-mail is found, or is to be created.
FindOrCreate(c) ==
  IF HasEmail = {}
    THEN /\ Become(c, [at |-> "creating", link |-> None,
                       row |-> NewUser(TRUE, TRUE, FALSE, FALSE, FALSE)])
         /\ UNCHANGED issued
    ELSE \E u \in HasEmail :
           IF users[u].emailVerified
             THEN End(c) /\ Login(u, users[u].twoFactorEnabled)
             ELSE /\ Become(c, [at |-> "saving", user |-> u, op |-> "code", stale |-> FALSE,
                                row |-> [users[u] EXCEPT !.emailVerified = TRUE]])
                  /\ UNCHANGED issued

EnterByOtp(c) ==
  /\ At(c, "entering") /\ req[c].kind = "otp"
  /\ FindOrCreate(c)
  /\ UNCHANGED <<options, tables, codeHistory, backupHistory, overwritten, cutOff>>

EnterByLink(c) ==
  /\ At(c, "entering") /\ req[c].kind = "magic-link"
  /\ FindOrCreate(c)
  /\ UNCHANGED <<options, tables, codeHistory, backupHistory, overwritten, cutOff>>

\* A code may expire at any time; its row stays.
Expire(k) ==
  /\ codes[k] = "live"
  /\ codes' = [codes EXCEPT ![k] = "expired"]
  /\ UNCHANGED <<options, users, accounts, passkeys, issued, req, codeHistory, backupHistory,
                 overwritten, cutOff>>

--------------------------------------------------------------------------------
(* OAuthService, OnetapService and SSOService. *)

\* A profile whose identity is linked to a user that is there logs that user in.
LoginLinked(c, p) ==
  /\ accounts[p] # None /\ Found(accounts[p])
  /\ Login(accounts[p], users[accounts[p]].twoFactorEnabled)
  /\ UNCHANGED req

\* One that is not goes on to look for the e-mail of the profile.
StartMatching(c, p, email) ==
  /\ Become(c, [at |-> "matching", id |-> p, email |-> email])
  /\ UNCHANGED issued

\* authenticate(): a link to a deleted user throws.
Authenticate(c, p, email) ==
  /\ At(c, "idle") /\ p \in OAuthIds
  /\ \/ LoginLinked(c, p)
     \/ accounts[p] = None /\ StartMatching(c, p, email)
  /\ UNCHANGED <<options, tables, codeHistory, backupHistory, overwritten, cutOff>>

\* One Tap: an ID token becomes a profile of the provider.
VerifyGoogleIdToken(c, p) ==
  Registered("onelink") /\ \E email \in BOOLEAN : Authenticate(c, p, email)

VerifyAppleIdToken(c, p) ==
  Registered("onelink") /\ \E email \in BOOLEAN : Authenticate(c, p, email)

\* authenticateWithSSO(): a link to a deleted user counts as none.
AuthenticateWithSSO(c, p) ==
  /\ At(c, "idle") /\ Registered("sso") /\ p \in SsoIds
  /\ \/ LoginLinked(c, p)
     \/ accounts[p] = None /\ StartMatching(c, p, TRUE)
     \/ accounts[p] # None /\ ~Found(accounts[p]) /\ StartMatching(c, p, TRUE)
  /\ UNCHANGED <<options, tables, codeHistory, backupHistory, overwritten, cutOff>>

\* linkSSOAccount() does not look before it saves, linkAccount() does.
LinkStep(p) == IF p \in SsoIds THEN "attaching" ELSE "linking"

RegistrationAllowed(p) ==
  IF p \in SsoIds THEN "ssoRegistration" \in options ELSE "oauthRegistration" \in options

\* The user with that e-mail is linked, or one is created if registration is allowed.
Match(c) ==
  /\ At(c, "matching")
  /\ LET p == req[c].id
         matches == IF req[c].email THEN HasEmail ELSE {}
     IN IF matches # {}
          THEN \E u \in matches :
                 Become(c, [at |-> LinkStep(p), id |-> p, user |-> u,
                            second |-> users[u].twoFactorEnabled])
          ELSE /\ RegistrationAllowed(p)
               /\ \E verified \in {req[c].email, FALSE} :
                    Become(c, [at |-> "creating", link |-> p,
                               row |-> NewUser(req[c].email, verified, FALSE, FALSE, FALSE)])
  /\ UNCHANGED <<options, tables, issued, codeHistory, backupHistory, overwritten, cutOff>>

CreateAndLink(c) ==
  /\ At(c, "creating") /\ req[c].link # None
  /\ LET p == req[c].link
     IN \E u \in Users :
          /\ Insert(u, req[c].row)
          /\ Become(c, [at |-> LinkStep(p), id |-> p, user |-> u, second |-> FALSE])
  /\ UNCHANGED <<options, issued, codeHistory, backupHistory, overwritten, cutOff>>

\* linkAccount(): a link the identity has is returned, whoever it belongs to, and the
\* login of the user goes on.
Link(c) ==
  /\ At(c, "linking")
  /\ IF accounts[req[c].id] = None
       THEN /\ Become(c, [req[c] EXCEPT !.at = "attaching"])
            /\ UNCHANGED <<issued, cutOff>>
       ELSE /\ End(c)
            /\ Login(req[c].user, req[c].second)
            /\ cutOff' = IF accounts[req[c].id] = req[c].user THEN cutOff
                         ELSE cutOff \cup {req[c].user}
  /\ UNCHANGED <<options, tables, codeHistory, backupHistory, overwritten>>

\* linkAccount() for a user who is logged in: no tokens at its end.
LinkAccount(c, u, p) ==
  /\ At(c, "idle") /\ Registered("oauth") /\ p \in OAuthIds
  /\ Become(c, [at |-> "linking", id |-> p, user |-> u, second |-> TRUE])
  /\ UNCHANGED <<options, tables, issued, codeHistory, backupHistory, overwritten, cutOff>>

\* accountRepo.save(): the identity must be free and the user's row there.
Attach(c) ==
  /\ At(c, "attaching")
  /\ accounts[req[c].id] = None /\ Exists(req[c].user)
  /\ accounts' = [accounts EXCEPT ![req[c].id] = req[c].user]
  /\ Login(req[c].user, req[c].second)
  /\ End(c)
  /\ UNCHANGED <<options, users, passkeys, codes, codeHistory, backupHistory, overwritten, cutOff>>

\* unlinkAccount() reads the user,
UnlinkAccount(c, u, p) ==
  /\ At(c, "idle") /\ Registered("oauth") /\ Found(u)
  /\ Become(c, [at |-> "counting", id |-> p, user |-> u, password |-> users[u].password])
  /\ UNCHANGED <<options, tables, issued, codeHistory, backupHistory, overwritten, cutOff>>

\* counts the user's links: without a password one must remain,
CountAtLeastOne(c) ==   \* mutant: off by one
  /\ At(c, "counting")
  /\ req[c].password \/ Cardinality(Linked(req[c].user)) >= 1
  /\ Become(c, [at |-> "unlinking", id |-> req[c].id, user |-> req[c].user])
  /\ UNCHANGED <<options, tables, issued, codeHistory, backupHistory, overwritten, cutOff>>
CountAccounts(c) ==
  /\ At(c, "counting")
  /\ req[c].password \/ Cardinality(Linked(req[c].user)) > 1
  /\ Become(c, [at |-> "unlinking", id |-> req[c].id, user |-> req[c].user])
  /\ UNCHANGED <<options, tables, issued, codeHistory, backupHistory, overwritten, cutOff>>

\* and deletes this one.
Unlink(c) ==
  /\ At(c, "unlinking")
  /\ LET u == req[c].user
         p == req[c].id
     IN /\ accounts' = IF accounts[p] = u THEN [accounts EXCEPT ![p] = None] ELSE accounts
        /\ cutOff' = IF \E d \in Clients \ {c} : At(d, "unlinking") /\ req[d].user = u
                       THEN cutOff \cup {u} ELSE cutOff
  /\ End(c)
  /\ UNCHANGED <<options, users, passkeys, codes, issued, codeHistory, backupHistory, overwritten>>

--------------------------------------------------------------------------------
(* PasskeyService: a row is inserted for any user whose row is there, deleted or not. *)

CompleteRegistration(c, u) ==
  /\ At(c, "idle") /\ Exists(u)
  /\ passkeys' = passkeys \cup {u}
  /\ UNCHANGED <<options, users, accounts, codes, issued, req, codeHistory, backupHistory,
                 overwritten, cutOff>>

\* The login of some user with that credential.
CompleteAuthentication(c) ==
  /\ At(c, "idle")
  /\ \E u \in passkeys : Found(u) /\ Login(u, users[u].twoFactorEnabled)
  /\ UNCHANGED <<options, tables, req, codeHistory, backupHistory, overwritten, cutOff>>

DeletePasskey(c, u) ==
  /\ At(c, "idle") /\ u \in passkeys
  /\ Become(c, [at |-> "discarding", user |-> u])
  /\ UNCHANGED <<options, tables, issued, codeHistory, backupHistory, overwritten, cutOff>>

Discard(c) ==
  /\ At(c, "discarding")
  /\ passkeys' = passkeys \ {req[c].user}
  /\ End(c)
  /\ UNCHANGED <<options, users, accounts, codes, issued, codeHistory, backupHistory,
                 overwritten, cutOff>>

--------------------------------------------------------------------------------
(* AnonymousService: one DELETE of the anonymous users older than some age, their *)
(* links and passkeys with them.  Any set of them may be that old.                *)

Delete(old) ==
  /\ users' = [u \in Users |-> IF u \in old THEN NoUser("gone") ELSE users[u]]
  /\ accounts' = [p \in Identities |-> IF accounts[p] \in old THEN None ELSE accounts[p]]
  /\ passkeys' = passkeys \ old
  /\ req' = [c \in Clients |-> IF \E u \in old : c \in Holding(u)
                                 THEN [req[c] EXCEPT !.stale = TRUE] ELSE req[c]]
  /\ UNCHANGED <<options, codes, issued, codeHistory, backupHistory, overwritten, cutOff>>

CleanupExpiredAnonymousUsers ==
  \E old \in SUBSET {u \in Users : Exists(u) /\ users[u].isAnonymous} :
    old # {} /\ Delete(old)

--------------------------------------------------------------------------------
(* Who calls what. *)

\* The routes that are Public()
Public(c) == Register(c) \/ LoginWithPassword(c) \/ LoginAnonymous(c)

AuthController(c) ==
  \/ Public(c)
  \/ \E u \in Users : AuthGuard(u) /\ (UpdateProfile(c, u) \/ ChangePassword(c, u)
                                       \/ DeleteAccount(c, u))

TwoFactorController(c) ==
  /\ Registered("twoFactor")
  /\ \E u \in Users : AuthGuard(u) /\ (EnableTOTP(c, u) \/ GenerateBackupCodes(c, u)
                                       \/ VerifyBackupCode(c, u) \/ Disable(c, u))

PasskeyController(c) ==
  /\ Registered("passkey")
  /\ \/ CompleteAuthentication(c)
     \/ \E u \in Users : AuthGuard(u) /\ (CompleteRegistration(c, u) \/ DeletePasskey(c, u))

\* cleanupAnonymous(), of an administrator
AdminController == CleanupExpiredAnonymousUsers

\* The application calls the services that have no controller.
Application(c) ==
  \/ SendOtp(c) \/ VerifyOtp(c)
  \/ GenerateToken(c) \/ VerifyToken(c)
  \/ \E p \in OAuthIds, email \in BOOLEAN : Registered("oauth") /\ Authenticate(c, p, email)
  \/ \E p \in OAuthIds : VerifyGoogleIdToken(c, p) \/ VerifyAppleIdToken(c, p)
  \/ \E p \in SsoIds : AuthenticateWithSSO(c, p)
  \/ \E u \in Users : \/ ConvertAnonymousUser(c, u)
                      \/ \E p \in OAuthIds : AuthGuard(u) /\ LinkAccount(c, u, p)
                      \/ \E p \in Identities : UnlinkAccount(c, u, p)

\* A request under way takes its next step.
Proceed(c) ==
  \/ Create(c) \/ Claim(c) \/ Save(c) \/ SoftRemove(c)
  \/ RemoveCode(c) \/ EnterByOtp(c) \/ EnterByLink(c)
  \/ Match(c) \/ CreateAndLink(c) \/ Link(c) \/ Attach(c)
  \/ CountAccounts(c) \/ Unlink(c)
  \/ Discard(c)

Init ==
  /\ options \in Configurations
  /\ users = [u \in Users |-> NoUser("unused")]
  /\ accounts = [p \in Identities |-> None]
  /\ passkeys = {}
  /\ codes = [k \in Kinds |-> "none"]
  /\ issued = {}
  /\ req = [c \in Clients |-> Idle]
  /\ made = [u \in Users |-> 0]
  /\ spent = {}
  /\ again = {}
  /\ accepted = {}
  /\ reused = {}
  /\ overwritten = {}
  /\ cutOff = {}

Next ==
  \/ \E c \in Clients : \/ AuthController(c) \/ TwoFactorController(c) \/ PasskeyController(c)
                        \/ Application(c)
                        \/ Proceed(c) \/ Fails(c)
  \/ AdminController
  \/ \E k \in Kinds : Expire(k)

Spec == Init /\ [][Next]_vars

--------------------------------------------------------------------------------
(* Properties. *)

\* The shape of the tables, the requests and the histories; the unique e-mail and phone.
TypeOK ==
  /\ options \subseteq Features
  /\ users \in [Users -> User]
  /\ Cardinality({u \in Users : Exists(u) /\ users[u].email}) <= 1
  /\ Cardinality({u \in Users : Exists(u) /\ users[u].phone}) <= 1
  /\ accounts \in Account
  /\ passkeys \in Passkey
  /\ codes \in Verification
  /\ issued \subseteq Users
  /\ req \in [Clients -> Request]
  /\ made \in [Users -> 0..MaxGen]
  /\ spent \subseteq Users \X (1..MaxGen)
  /\ again \subseteq Users
  /\ accepted \cup reused \subseteq Kinds
  /\ overwritten \subseteq Users
  /\ cutOff \subseteq Users

\* A one-time code or link is accepted once, unless two verifications found it before
\* either removed it; so is a backup code, unless a save of the user by a request that
\* had read an older row has written the list of codes over a newer one.
OneUse ==
  /\ reused = {}
  /\ again \subseteq overwritten

\* A user who is not anonymous can log in by e-mail or has a linked identity to come back
\* with.  The exceptions: a request is linking one; one that was to failed; two unlinks at
\* once; a save of an older row; and whoever was registered or converted with no e-mail, or
\* one that lets nobody in, and no identity that unlinkAccount() keeps, since it takes any
\* password for a way in.
HasWayIn(u) ==
  \/ Opens(users[u])
  \/ Linked(u) # {}
  \/ \E c \in Clients : u \in Linking(c)
  \/ u \in cutOff \cup overwritten

\* Users are kept.  Whoever has converted, or was never anonymous, stays: no cleanup
\* deletes that user and no step makes it anonymous again, but for a save of an older
\* row; and until it deletes itself it has a way in.
UsersKept ==
  [][\A u \in Users :
       /\ Exists(u) /\ ~users[u].isAnonymous =>
            \/ u \in overwritten'
            \/ Exists(u)' /\ ~users'[u].isAnonymous
       /\ Found(u)' /\ ~users'[u].isAnonymous => HasWayIn(u)']_vars

================================================================================
