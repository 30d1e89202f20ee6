------------------------------ MODULE Access_proofs ------------------------------
(***************************************************************************)
(* Proofs about Access for every set of requests, users, roles,            *)
(* organizations, slugs and keys: its types, the freshness of the          *)
(* permission cache, and that owners, deletions and revocations hold.      *)
(***************************************************************************)
EXTENDS Access, TLAPS

\* A change of the roles of u has been written and not announced.  A request that is
\* about to insert a first row has written nothing.
Unannounced(u) ==
  \E c \in Clients : req[c].at \in {"setting", "invalidating"} /\ req[c].user = u

\* Without such a change, entries and answers on their way to the cache are true.
FreshInv ==
  \A u \in Users \ unsure :
    ~Unannounced(u) =>
      /\ \A k \in Kinds : cache[k][u] \subseteq {granted[u]}
      /\ \A c \in Clients : At(c, "filling") /\ req[c].user = u => req[c].found = granted[u]

\* The rows that requests rely on: they were inserted, and unless the entity in hand is
\* stale they are still there.
RowOf(c) ==
  /\ req[c].at \in {"owning", "renaming"} => Exists(req[c].org)
  /\ At(c, "owning") => orgs[req[c].org].ownerId = req[c].user
  /\ At(c, "renaming") /\ ~req[c].stale => Found(req[c].org)
  /\ req[c].at \in {"removing", "changing"} /\ ~req[c].stale
       => members[req[c].org][req[c].user] # "absent"

RowInv == \A c \in Clients : RowOf(c)

\* An organization that was founded has its owner, whose row no request holds as that
\* of another member.
OwnerOf(o) ==
  /\ founding[o] # "no" => Exists(o)
  /\ founding[o] = "done" =>
       /\ members[o][orgs[o].ownerId] = "owner"
       /\ \A c \in Clients : Holds(c, o, orgs[o].ownerId) => req[c].stale

OwnerInv == \A o \in Orgs : OwnerOf(o)

RightsInv == RowInv /\ OwnerInv

--------------------------------------------------------------------------------
(* The steps, by the module they belong to. *)

RoleChange(c) ==
  \/ \E u \in Users : \/ \E r \in Roles : AssignRole(c, u, r) \/ RemoveRole(c, u, r)
                      \/ \E roles \in SUBSET Roles : SetUserRoles(c, u, roles)
  \/ SaveRoles(c)

Answer(c) ==
  \/ \E k \in Kinds, u \in Users : Ask(c, k, u)
  \/ ReadRoles(c) \/ SetCache(c)

LEMMA Steps ==
  Next => \/ \E c \in Clients : RoleChange(c) \/ Answer(c) \/ InvalidateCache(c)
          \/ \E c \in Clients : OrgStep(c)
          \/ \E c \in Clients : Use(c) \/ Fails(c)
          \/ ApiKeyStep
          \/ \E k \in Kinds, u \in Users : Expire(k, u)
          \/ Restart
  BY Zenon DEF Next, RbacStep, RoleChange, Answer

LEMMA RbacFrame ==
  ASSUME NEW c \in Clients, RoleChange(c) \/ Answer(c) \/ InvalidateCache(c)
  PROVE  UNCHANGED <<modules, orgVars, keys>>
  BY DEF RoleChange, Answer, AssignRole, RemoveRole, SetUserRoles, SaveRoles, Ask, ReadRoles,
         SetCache, InvalidateCache, Rbac

LEMMA OrgFrame ==
  ASSUME NEW c \in Clients, OrgStep(c)
  PROVE  UNCHANGED <<modules, rbacVars, keys>>
  BY DEF OrgStep, Create, SaveOrg, SaveOwner, Update, SaveUpdate, Delete, AddMember, SaveMember,
         RemoveMember, DeleteMember, UpdateMemberRole, SaveRole, Org

LEMMA KeyFrame ==
  ASSUME ApiKeyStep \/ \E c \in Clients : Use(c)
  PROVE  UNCHANGED <<modules, rbacVars, orgVars>>
  BY DEF ApiKeyStep, CreateKey, Revoke, RestoreKey, ExpireKey, Validate, Use, ApiKeys

--------------------------------------------------------------------------------
(* Types *)

\* The requests that are made,
LEMMA Made ==
  /\ Idle \in Request
  /\ \A k \in Kinds, u \in Users : [at |-> "asking", kind |-> k, user |-> u] \in Request
  /\ \A k \in Kinds, u \in Users, found \in SUBSET Roles :
       [at |-> "filling", kind |-> k, user |-> u, found |-> found] \in Request
  /\ \A u \in Users, roles \in SUBSET Roles :
       /\ [at |-> "granting", user |-> u, roles |-> roles] \in Request
       /\ [at |-> "setting", user |-> u, roles |-> roles] \in Request
  /\ \A u \in Users : [at |-> "invalidating", user |-> u] \in Request
  /\ \A slug \in Slugs, u \in Users : [at |-> "founding", slug |-> slug, user |-> u] \in Request
  /\ \A o \in Orgs, u \in Users : [at |-> "owning", org |-> o, user |-> u] \in Request
  /\ \A o \in Orgs, u \in Users, role \in OrgMemberRole :
       [at |-> "adding", org |-> o, user |-> u, role |-> role] \in Request
  /\ \A o \in Orgs, u \in Users, stale \in BOOLEAN :
       [at |-> "removing", org |-> o, user |-> u, stale |-> stale] \in Request
  /\ \A o \in Orgs, u \in Users, role \in OrgMemberRole, stale \in BOOLEAN :
       [at |-> "changing", org |-> o, user |-> u, role |-> role, stale |-> stale] \in Request
  /\ \A o \in Orgs, slug \in Slugs, stale \in BOOLEAN :
       [at |-> "renaming", org |-> o, slug |-> slug, stale |-> stale] \in Request
  /\ \A k \in Keys : [at |-> "using", key |-> k] \in Request
  BY DEF Request, Idle

\* and what they hold at each step.
LEMMA Locals ==
  ASSUME NEW r \in Request
  PROVE  /\ r.at \in {"asking", "filling"} => r.kind \in Kinds /\ r.user \in Users
         /\ r.at = "filling" => r.found \in SUBSET Roles
         /\ r.at \in {"granting", "setting"} => r.user \in Users /\ r.roles \in SUBSET Roles
         /\ r.at \in {"invalidating", "founding"} => r.user \in Users
         /\ r.at = "founding" => r.slug \in Slugs
         /\ r.at \in {"owning", "removing", "adding", "changing"} => r.org \in Orgs /\ r.user \in Users
         /\ r.at \in {"adding", "changing"} => r.role \in OrgMemberRole
         /\ r.at \in {"removing", "changing", "renaming"} => r.stale \in BOOLEAN
         /\ r.at = "renaming" => r.org \in Orgs /\ r.slug \in Slugs
         /\ r.at = "using" => r.key \in Keys
  BY DEF Request

\* The staleness of a row that is held changes, and nothing else of the request.
LEMMA Restaled ==
  ASSUME NEW r \in Request, r.at \in {"removing", "changing", "renaming"}, NEW stale \in BOOLEAN
  PROVE  /\ [r EXCEPT !.stale = stale] \in Request
         /\ [r EXCEPT !.stale = stale].stale = stale
         /\ [r EXCEPT !.stale = stale].at = r.at
         /\ [r EXCEPT !.stale = stale].org = r.org
         /\ r.at # "renaming" => [r EXCEPT !.stale = stale].user = r.user
  BY DEF Request

LEMMA Becomes ==
  ASSUME req \in [Clients -> Request], NEW c \in Clients, NEW r \in Request, Become(c, r)
  PROVE  /\ req' \in [Clients -> Request]
         /\ req'[c] = r
         /\ \A d \in Clients \ {c} : req'[d] = req[d]
  BY DEF Become

\* The requests after a step of RbacService,
LEMMA RbacRequests ==
  ASSUME AccessTypeOK, NEW c \in Clients, RoleChange(c) \/ Answer(c) \/ InvalidateCache(c)
  PROVE  req' \in [Clients -> Request]
<1> USE DEF AccessTypeOK, RbacUserRole
<1>1. req[c] \in Request /\ req \in [Clients -> Request] /\ granted \in [Users -> SUBSET Roles]
  OBVIOUS
<1>2. ASSUME NEW u \in Users, NEW r \in Roles, AssignRole(c, u, r) \/ RemoveRole(c, u, r)
      PROVE  req' \in [Clients -> Request]
  <2>1. /\ [at |-> "invalidating", user |-> u] \in Request
        /\ [at |-> "granting", user |-> u, roles |-> {r}] \in Request
    BY Made
  <2>2. PICK q \in Request : Become(c, q)
    BY <1>2, <2>1 DEF AssignRole, RemoveRole
  <2>3. QED
    BY <1>1, <2>2, Becomes
<1>3. ASSUME NEW u \in Users, NEW roles \in SUBSET Roles, SetUserRoles(c, u, roles)
      PROVE  req' \in [Clients -> Request]
  <2>1. /\ [at |-> "invalidating", user |-> u] \in Request
        /\ [at |-> "setting", user |-> u, roles |-> roles] \in Request
    BY Made
  <2>2. PICK q \in Request : Become(c, q)
    BY <1>3, <2>1 DEF SetUserRoles
  <2>3. QED
    BY <1>1, <2>2, Becomes
<1>4. CASE SaveRoles(c)
  <2>1. req[c].user \in Users
    BY <1>1, <1>4, Locals DEF SaveRoles
  <2>2. [at |-> "invalidating", user |-> req[c].user] \in Request
    BY <2>1, Made
  <2>3. QED
    BY <1>1, <1>4, <2>2, Becomes DEF SaveRoles
<1>5. ASSUME NEW k \in Kinds, NEW u \in Users, Ask(c, k, u)
      PROVE  req' \in [Clients -> Request]
  <2>1. [at |-> "asking", kind |-> k, user |-> u] \in Request
    BY Made
  <2>2. QED
    BY <1>1, <1>5, <2>1, Becomes DEF Ask
<1>6. CASE ReadRoles(c)
  <2>1. req[c].kind \in Kinds /\ req[c].user \in Users
    BY <1>1, <1>6, Locals DEF ReadRoles, At
  <2>2. granted[req[c].user] \in SUBSET Roles
    BY <1>1, <2>1
  <2>3. [at |-> "filling", kind |-> req[c].kind, user |-> req[c].user,
         found |-> granted[req[c].user]] \in Request
    BY <2>1, <2>2, Made
  <2>4. QED
    BY <1>1, <1>6, <2>3, Becomes DEF ReadRoles
<1>7. CASE SetCache(c) \/ InvalidateCache(c)
  <2>1. Become(c, Idle)
    BY <1>7 DEF SetCache, InvalidateCache
  <2>2. QED
    BY <1>1, <2>1, Made, Becomes
<1>8. QED
  BY <1>2, <1>3, <1>4, <1>5, <1>6, <1>7, Zenon DEF RoleChange, Answer

\* and the rest of the state.
LEMMA RbacType ==
  ASSUME AccessTypeOK, NEW c \in Clients, RoleChange(c) \/ Answer(c) \/ InvalidateCache(c)
  PROVE  AccessTypeOK'
<1>1. UNCHANGED <<modules, orgVars, keys>>
  BY RbacFrame
<1>2. req \in [Clients -> Request] /\ req[c] \in Request /\ granted \in [Users -> SUBSET Roles]
  BY DEF AccessTypeOK, RbacUserRole
<1>3. cache \in [Kinds -> [Users -> CacheEntry]] /\ unsure \subseteq Users
  BY DEF AccessTypeOK
<1>4. granted' \in [Users -> SUBSET Roles]
  <2>1. CASE SaveRoles(c)
    <3>1. req[c].user \in Users /\ req[c].roles \in SUBSET Roles
      BY <1>2, <2>1, Locals DEF SaveRoles
    <3>2. QED
      BY <1>2, <2>1, <3>1 DEF SaveRoles
  <2>2. CASE RoleChange(c) /\ ~SaveRoles(c)
    BY <1>2, <2>2 DEF RoleChange, AssignRole, RemoveRole, SetUserRoles, rbacVars
  <2>3. CASE Answer(c) \/ InvalidateCache(c)
    BY <1>2, <2>3 DEF Answer, Ask, ReadRoles, SetCache, InvalidateCache, rbacVars
  <2>4. QED
    BY <2>1, <2>2, <2>3
<1>5. cache' \in [Kinds -> [Users -> CacheEntry]] /\ unsure' \subseteq Users
  <2>1. CASE SetCache(c)
    <3>1. req[c].kind \in Kinds /\ req[c].user \in Users /\ req[c].found \in SUBSET Roles
      BY <1>2, <2>1, Locals DEF SetCache, At
    <3>2. {req[c].found} \in CacheEntry
      BY <3>1 DEF CacheEntry
    <3>3. QED
      BY <1>3, <2>1, <3>1, <3>2 DEF SetCache
  <2>2. CASE InvalidateCache(c)
    <3>1. req[c].user \in Users
      BY <1>2, <2>2, Locals DEF InvalidateCache, At
    <3>2. PICK us \in SUBSET Users : Evict(us)
      BY <2>2, <3>1 DEF InvalidateCache
    <3>3. {} \in CacheEntry
      BY DEF CacheEntry
    <3>4. QED
      BY <1>3, <3>2, <3>3 DEF Evict
  <2>3. CASE RoleChange(c) \/ (Answer(c) /\ ~SetCache(c))
    BY <1>3, <2>3 DEF RoleChange, AssignRole, RemoveRole, SetUserRoles, SaveRoles, Answer, Ask,
                      ReadRoles, rbacVars
  <2>4. QED
    BY <2>1, <2>2, <2>3
<1>6. req' \in [Clients -> Request]
  BY RbacRequests
<1>7. QED
  BY <1>1, <1>4, <1>5, <1>6 DEF AccessTypeOK, orgVars, Exists, RbacUserRole

--------------------------------------------------------------------------------
(* The requests after a step of OrgService *)

\* A request of another client is left alone, but for the staleness of its row.
Sees(r, q) ==
  \/ q = r
  \/ /\ r.at \in {"removing", "changing", "renaming"}
     /\ \E stale \in BOOLEAN : q = [r EXCEPT !.stale = stale]

LEMMA SeesRequest ==
  ASSUME NEW r \in Request, NEW q, Sees(r, q)
  PROVE  /\ q \in Request /\ q.at = r.at
         /\ r.at \in {"owning", "removing", "changing", "renaming"} => q.org = r.org
         /\ r.at \in {"owning", "removing", "changing"} => q.user = r.user
         /\ r.at \in {"setting", "invalidating", "filling", "granting"} => q = r
<1>1. CASE q = r
  BY <1>1
<1>2. ASSUME r.at \in {"removing", "changing", "renaming"}, NEW stale \in BOOLEAN,
             q = [r EXCEPT !.stale = stale]
      PROVE  /\ q \in Request /\ q.at = r.at /\ q.org = r.org
             /\ r.at # "renaming" => q.user = r.user
  BY <1>2, Restaled
<1>3. QED
  BY <1>1, <1>2 DEF Sees

\* An update gets all its requests from Request, and the others keep what they hold.
Requests(c) ==
  /\ req' \in [Clients -> Request]
  /\ \A d \in Clients \ {c} : Sees(req[d], req'[d])

LEMMA BecomesRequests ==
  ASSUME req \in [Clients -> Request], NEW c \in Clients, NEW r \in Request, Become(c, r)
  PROVE  Requests(c)
  BY Becomes DEF Sees, Requests

LEMMA SeenRequests ==
  ASSUME req \in [Clients -> Request], NEW c \in Clients,
         req' = [d \in Clients |-> req'[d]], req'[c] \in Request,
         \A d \in Clients \ {c} : Sees(req[d], req'[d])
  PROVE  Requests(c)
<1>1. \A d \in Clients : req'[d] \in Request
  BY SeesRequest
<1>2. QED
  BY <1>1 DEF Requests

LEMMA OrgRequests ==
  ASSUME AccessTypeOK, NEW c \in Clients, OrgStep(c)
  PROVE  Requests(c)
<1>1. req \in [Clients -> Request] /\ req[c] \in Request
  BY DEF AccessTypeOK
<1>2. ASSUME NEW slug \in Slugs, NEW u \in Users, Create(c, slug, u)
      PROVE  Requests(c)
  <2>1. [at |-> "founding", slug |-> slug, user |-> u] \in Request
    BY Made
  <2>2. QED
    BY <1>1, <1>2, <2>1, BecomesRequests DEF Create
<1>3. ASSUME NEW o \in Orgs, NEW slug \in Slugs, Update(c, o, slug)
      PROVE  Requests(c)
  <2>1. [at |-> "renaming", org |-> o, slug |-> slug, stale |-> FALSE] \in Request
    BY Made
  <2>2. QED
    BY <1>1, <1>3, <2>1, BecomesRequests DEF Update
<1>4. ASSUME NEW o \in Orgs, NEW u \in Users, RemoveMember(c, o, u)
      PROVE  Requests(c)
  <2>1. [at |-> "removing", org |-> o, user |-> u, stale |-> FALSE] \in Request
    BY Made
  <2>2. QED
    BY <1>1, <1>4, <2>1, BecomesRequests DEF RemoveMember
<1>5. ASSUME NEW o \in Orgs, NEW u \in Users, NEW role \in OrgMemberRole,
             AddMember(c, o, u, role) \/ UpdateMemberRole(c, o, u, role)
      PROVE  Requests(c)
  <2>1. /\ [at |-> "adding", org |-> o, user |-> u, role |-> role] \in Request
        /\ [at |-> "changing", org |-> o, user |-> u, role |-> role, stale |-> FALSE] \in Request
    BY Made
  <2>2. PICK r \in Request : Become(c, r)
    BY <1>5, <2>1 DEF AddMember, UpdateMemberRole
  <2>3. QED
    BY <1>1, <2>2, BecomesRequests
<1>6. CASE SaveOrg(c)
  <2>1. PICK o \in Orgs : Become(c, [at |-> "owning", org |-> o, user |-> req[c].user])
    BY <1>6 DEF SaveOrg
  <2>2. req[c].user \in Users
    BY <1>1, <1>6, Locals DEF SaveOrg, At
  <2>3. [at |-> "owning", org |-> o, user |-> req[c].user] \in Request
    BY <2>2, Made
  <2>4. QED
    BY <1>1, <2>1, <2>3, BecomesRequests
<1>7. CASE SaveOwner(c) \/ SaveUpdate(c) \/ SaveMember(c)
  <2>1. Become(c, Idle)
    BY <1>7 DEF SaveOwner, SaveUpdate, SaveMember
  <2>2. QED
    BY <1>1, <2>1, Made, BecomesRequests
<1>8. ASSUME NEW o \in Orgs, Delete(c, o)
      PROVE  Requests(c)
  <2> DEFINE F(d) == IF At(d, "renaming") /\ req[d].org = o
                     THEN [req[d] EXCEPT !.stale = TRUE] ELSE req[d]
  <2>1. req' = [d \in Clients |-> F(d)]
    BY <1>8 DEF Delete
  <2>2. F(c) \in Request
    BY <1>1, <1>8 DEF Delete, At
  <2>3. \A d \in Clients \ {c} : Sees(req[d], F(d))
    BY DEF Sees, At
  <2>4. req' = [d \in Clients |-> req'[d]] /\ \A d \in Clients : req'[d] = F(d)
    BY <2>1
  <2> HIDE DEF F
  <2>5. QED
    BY <1>1, <2>2, <2>3, <2>4, SeenRequests
<1>9. CASE DeleteMember(c)
  <2> DEFINE others == IF req[c].stale THEN {}
                       ELSE {d \in Clients \ {c} : Holds(d, req[c].org, req[c].user)}
             F(d) == CASE d = c -> Idle
                       [] d \in others -> [req[d] EXCEPT !.stale = TRUE]
                       [] OTHER -> req[d]
  <2>1. req' = [d \in Clients |-> F(d)]
    BY <1>9 DEF DeleteMember
  <2>2. F(c) \in Request
    BY Made
  <2>3. ASSUME NEW d \in Clients \ {c}
        PROVE  Sees(req[d], F(d))
    <3>1. CASE d \in others
      <4>1. F(d) = [req[d] EXCEPT !.stale = TRUE]
        BY <3>1
      <4>2. req[d].at \in {"removing", "changing"}
        BY <3>1 DEF Holds
      <4>3. QED
        BY <4>1, <4>2 DEF Sees
    <3>2. CASE d \notin others
      BY <3>2 DEF Sees
    <3>3. QED
      BY <3>1, <3>2
  <2>4. req' = [d \in Clients |-> req'[d]] /\ \A d \in Clients : req'[d] = F(d)
    BY <2>1
  <2> HIDE DEF F
  <2>5. QED
    BY <1>1, <2>2, <2>3, <2>4, SeenRequests
<1>10. CASE SaveRole(c)
  <2> DEFINE others == IF req[c].stale
                       THEN {d \in Clients \ {c} : Holds(d, req[c].org, req[c].user)} ELSE {}
  <2>1. PICK same \in SUBSET others :
          req' = [d \in Clients |-> CASE d = c -> Idle
                                      [] d \in same -> [req[d] EXCEPT !.stale = FALSE]
                                      [] OTHER -> req[d]]
    BY <1>10 DEF SaveRole
  <2> DEFINE F(d) == CASE d = c -> Idle
                       [] d \in same -> [req[d] EXCEPT !.stale = FALSE]
                       [] OTHER -> req[d]
  <2>2. req' = [d \in Clients |-> F(d)]
    BY <2>1
  <2>3. F(c) \in Request
    BY Made
  <2>4. ASSUME NEW d \in Clients \ {c}
        PROVE  Sees(req[d], F(d))
    <3>1. CASE d \in same
      <4>1. F(d) = [req[d] EXCEPT !.stale = FALSE]
        BY <3>1
      <4>2. req[d].at \in {"removing", "changing"}
        BY <3>1 DEF Holds
      <4>3. QED
        BY <4>1, <4>2 DEF Sees
    <3>2. CASE d \notin same
      BY <3>2 DEF Sees
    <3>3. QED
      BY <3>1, <3>2
  <2>5. req' = [d \in Clients |-> req'[d]] /\ \A d \in Clients : req'[d] = F(d)
    BY <2>2
  <2> HIDE DEF F
  <2>6. QED
    BY <1>1, <2>3, <2>4, <2>5, SeenRequests
<1>11. QED
  BY <1>2, <1>3, <1>4, <1>5, <1>6, <1>7, <1>8, <1>9, <1>10, Zenon DEF OrgStep

\* The tables of OrgService after a step of it
LEMMA OrgRows ==
  ASSUME AccessTypeOK, RowInv, NEW c \in Clients, OrgStep(c)
  PROVE  /\ orgs' \in [Orgs -> Organization \cup {NoOrg}]
         /\ members' \in OrganizationMember
         /\ founding' \in [Orgs -> {"no", "saved", "failed", "done"}]
         /\ (\A o, p \in Orgs : Exists(o) /\ Exists(p) /\ o # p => orgs[o].slug # orgs[p].slug)'
         /\ \A o \in Orgs : Exists(o) => Exists(o)' /\ orgs'[o].ownerId = orgs[o].ownerId
<1> DEFINE Rows == /\ orgs' \in [Orgs -> Organization \cup {NoOrg}]
                   /\ (\A o, p \in Orgs : Exists(o) /\ Exists(p) /\ o # p => orgs[o].slug # orgs[p].slug)'
                   /\ \A o \in Orgs : Exists(o) => Exists(o)' /\ orgs'[o].ownerId = orgs[o].ownerId
           Owners == founding' \in [Orgs -> {"no", "saved", "failed", "done"}]
<1>1. /\ req[c] \in Request
      /\ orgs \in [Orgs -> Organization \cup {NoOrg}]
      /\ members \in [Orgs -> [Users -> OrgMemberRole \cup {"absent"}]]
      /\ founding \in [Orgs -> {"no", "saved", "failed", "done"}]
      /\ \A o, p \in Orgs : Exists(o) /\ Exists(p) /\ o # p => orgs[o].slug # orgs[p].slug
  BY DEF AccessTypeOK, OrganizationMember
<1>2. UNCHANGED orgs => Rows
  BY <1>1 DEF Exists
<1>3. CASE SaveOrg(c)
  <2>1. req[c].user \in Users /\ req[c].slug \in Slugs
    BY <1>1, <1>3, Locals DEF SaveOrg, At
  <2>2. PICK o \in Orgs :
          /\ ~Exists(o) /\ FreeFor(o, req[c].slug)
          /\ orgs' = [orgs EXCEPT ![o] = [state |-> "live", slug |-> req[c].slug,
                                          ownerId |-> req[c].user]]
          /\ founding' = [founding EXCEPT ![o] = "saved"]
    BY <1>3 DEF SaveOrg
  <2>3. [state |-> "live", slug |-> req[c].slug, ownerId |-> req[c].user] \in Organization
    BY <2>1 DEF Organization
  <2>4. Rows
    BY <1>1, <2>2, <2>3 DEF Exists, FreeFor
  <2>5. Owners /\ UNCHANGED members
    BY <1>1, <1>3, <2>2 DEF SaveOrg
  <2>6. QED
    BY <1>1, <2>4, <2>5 DEF OrganizationMember
<1>4. CASE SaveUpdate(c)
  <2> DEFINE o == req[c].org
  <2>1. o \in Orgs /\ req[c].slug \in Slugs /\ Exists(o)
    BY <1>1, <1>4, Locals DEF SaveUpdate, At, RowInv, RowOf
  <2>2. /\ FreeFor(o, req[c].slug)
        /\ orgs' = [orgs EXCEPT ![o].state = "live", ![o].slug = req[c].slug]
    BY <1>4 DEF SaveUpdate
  <2>3. orgs[o] \in Organization
    BY <1>1, <2>1 DEF Exists, NoOrg
  <2>4. /\ orgs'[o] = [state |-> "live", slug |-> req[c].slug, ownerId |-> orgs[o].ownerId]
        /\ \A p \in Orgs \ {o} : orgs'[p] = orgs[p]
        /\ orgs' = [p \in Orgs |-> orgs'[p]]
    BY <1>1, <2>1, <2>2, <2>3 DEF Organization
  <2>5. orgs'[o] \in Organization
    BY <2>1, <2>3, <2>4 DEF Organization
  <2> HIDE DEF o
  <2>6. Rows
    BY <1>1, <2>1, <2>2, <2>4, <2>5 DEF Exists, FreeFor
  <2>7. QED
    BY <1>1, <1>4, <2>6 DEF SaveUpdate, OrganizationMember
<1>5. ASSUME NEW o \in Orgs, Delete(c, o)
      PROVE  Rows /\ UNCHANGED <<members, founding>>
  <2>1. orgs[o] \in Organization /\ Exists(o)
    BY <1>1, <1>5 DEF Delete, Exists, NoOrg
  <2>2. /\ orgs'[o] = [state |-> "deleted", slug |-> orgs[o].slug, ownerId |-> orgs[o].ownerId]
        /\ \A p \in Orgs \ {o} : orgs'[p] = orgs[p]
        /\ orgs' = [p \in Orgs |-> orgs'[p]]
    BY <1>1, <1>5, <2>1 DEF Delete, Organization
  <2>3. orgs'[o] \in Organization
    BY <2>1, <2>2 DEF Organization
  <2>4. \A p \in Orgs : /\ Exists(p)' <=> Exists(p)
                        /\ orgs'[p].slug = orgs[p].slug /\ orgs'[p].ownerId = orgs[p].ownerId
    BY <2>1, <2>2 DEF Exists
  <2>5. orgs' \in [Orgs -> Organization \cup {NoOrg}]
    BY <1>1, <2>2, <2>3
  <2>6. Rows
    BY <1>1, <2>4, <2>5
  <2>7. QED
    BY <1>5, <2>6 DEF Delete
<1>6. CASE SaveOwner(c) \/ SaveMember(c) \/ DeleteMember(c) \/ SaveRole(c)
  <2>1. /\ req[c].org \in Orgs /\ req[c].user \in Users
        /\ SaveMember(c) \/ SaveRole(c) => req[c].role \in OrgMemberRole
    BY <1>1, <1>6, Locals DEF SaveOwner, SaveMember, DeleteMember, SaveRole, At
  <2>2. PICK role \in OrgMemberRole \cup {"absent"} :
          members' \in {members, [members EXCEPT ![req[c].org][req[c].user] = role]}
    BY <1>6, <2>1 DEF SaveOwner, SaveMember, DeleteMember, SaveRole, OrgMemberRole
  <2>3. members' \in OrganizationMember
    BY <1>1, <2>1, <2>2 DEF OrganizationMember
  <2>4. Owners
    <3>1. founding' = founding \/ founding' = [founding EXCEPT ![req[c].org] = "done"]
      BY <1>6 DEF SaveOwner, SaveMember, DeleteMember, SaveRole
    <3>2. founding' \in [Orgs -> {"no", "saved", "failed", "done"}]
      BY <1>1, <3>1
    <3>3. QED
      BY <3>2
  <2>5. Rows
    BY <1>2, <1>6 DEF SaveOwner, SaveMember, DeleteMember, SaveRole
  <2>6. QED
    BY <2>3, <2>4, <2>5
<1>7. CASE UNCHANGED orgVars
  BY <1>1, <1>2, <1>7 DEF orgVars, OrganizationMember
<1>8. \/ SaveOrg(c) \/ SaveUpdate(c) \/ \E o \in Orgs : Delete(c, o)
      \/ SaveOwner(c) \/ SaveMember(c) \/ DeleteMember(c) \/ SaveRole(c)
      \/ UNCHANGED orgVars
  BY DEF OrgStep, Create, Update, AddMember, RemoveMember, UpdateMemberRole
<1>9. QED
  BY <1>1, <1>3, <1>4, <1>5, <1>6, <1>7, <1>8 DEF OrganizationMember

LEMMA OrgType ==
  ASSUME AccessTypeOK, RowInv, NEW c \in Clients, OrgStep(c)
  PROVE  AccessTypeOK'
  BY OrgFrame, OrgRequests, OrgRows DEF AccessTypeOK, Requests, rbacVars

LEMMA OtherType ==
  ASSUME AccessTypeOK,
         \/ \E c \in Clients : Use(c) \/ Fails(c)
         \/ ApiKeyStep
         \/ \E k \in Kinds, u \in Users : Expire(k, u)
         \/ Restart
         \/ UNCHANGED vars
  PROVE  AccessTypeOK'
<1>1. CASE UNCHANGED vars
  BY <1>1 DEF AccessTypeOK, vars, rbacVars, orgVars, Exists
<1>2. ASSUME NEW c \in Clients, Use(c)
      PROVE  AccessTypeOK'
  <2>1. Become(c, Idle) /\ UNCHANGED <<modules, rbacVars, orgVars, keys>>
    BY <1>2 DEF Use, ApiKeys
  <2>2. req' \in [Clients -> Request]
    BY <2>1, Made, Becomes DEF AccessTypeOK
  <2>3. QED
    BY <2>1, <2>2 DEF AccessTypeOK, rbacVars, orgVars, Exists
<1>3. ASSUME NEW c \in Clients, Fails(c)
      PROVE  AccessTypeOK'
  <2>1. Become(c, Idle) /\ UNCHANGED <<modules, granted, cache, orgs, members, keys>>
    BY <1>3 DEF Fails
  <2>2. req' \in [Clients -> Request]
    BY <2>1, Made, Becomes DEF AccessTypeOK
  <2>3. unsure' \subseteq Users
    BY <1>3, Locals DEF Fails, AccessTypeOK
  <2>4. founding' \in [Orgs -> {"no", "saved", "failed", "done"}]
    BY <1>3, Locals DEF Fails, AccessTypeOK
  <2>5. QED
    BY <2>1, <2>2, <2>3, <2>4 DEF AccessTypeOK, Exists
<1>4. CASE ApiKeyStep
  <2>1. UNCHANGED <<modules, rbacVars, orgVars>>
    BY <1>4, KeyFrame
  <2>2. keys' \in [Keys -> ApiKey]
    <3>1. PICK k \in Keys, state \in {"live", "expired"}, revoked \in BOOLEAN :
            keys' \in {keys, [keys EXCEPT ![k].state = state], [keys EXCEPT ![k].revoked = revoked]}
      BY <1>4 DEF ApiKeyStep, CreateKey, Revoke, RestoreKey, ExpireKey, Validate
    <3>2. keys \in [Keys -> ApiKey]
      BY DEF AccessTypeOK
    <3>3. QED
      BY <3>1, <3>2 DEF ApiKey
  <2>3. req' \in [Clients -> Request]
    <3>1. CASE UNCHANGED req
      BY <3>1 DEF AccessTypeOK
    <3>2. ASSUME NEW k \in Keys, NEW c \in Clients, Validate(c, k)
          PROVE  req' \in [Clients -> Request]
      BY <3>2, Made, Becomes DEF Validate, AccessTypeOK
    <3>3. QED
      BY <1>4, <3>1, <3>2 DEF ApiKeyStep, CreateKey, Revoke, RestoreKey, ExpireKey
  <2>4. QED
    BY <2>1, <2>2, <2>3 DEF AccessTypeOK, rbacVars, orgVars, Exists
<1>5. ASSUME NEW k \in Kinds, NEW u \in Users, Expire(k, u)
      PROVE  AccessTypeOK'
  <2>1. cache' \in [Kinds -> [Users -> CacheEntry]]
    BY <1>5 DEF AccessTypeOK, Expire, CacheEntry
  <2>2. QED
    BY <1>5, <2>1 DEF AccessTypeOK, Expire, Rbac, orgVars, Exists
<1>6. CASE Restart
  <2>1. /\ req' \in [Clients -> Request] /\ cache' \in [Kinds -> [Users -> CacheEntry]]
        /\ founding' \in [Orgs -> {"no", "saved", "failed", "done"}]
    BY <1>6, Made DEF AccessTypeOK, Restart, CacheEntry
  <2>2. QED
    BY <1>6, <2>1 DEF AccessTypeOK, Restart, Exists
<1>7. QED
  BY <1>1, <1>2, <1>3, <1>4, <1>5, <1>6

--------------------------------------------------------------------------------
(* Freshness *)

\* A step keeps the entries true when it tells nothing of itself, or
LEMMA FreshUnlessChanged ==
  ASSUME FreshInv, unsure \subseteq unsure',
         \A u \in Users \ unsure' :
           ~Unannounced(u)' =>
             /\ ~Unannounced(u) /\ granted'[u] = granted[u]
             /\ \A k \in Kinds : cache'[k][u] \subseteq cache[k][u]
             /\ \A c \in Clients : At(c, "filling")' /\ req'[c].user = u =>
                  req'[c] = req[c] \/ req'[c].found = granted[u]
  PROVE  FreshInv'
  BY DEF FreshInv, At

LEMMA RoleChangeFresh ==
  ASSUME AccessTypeOK, FreshInv, NEW c \in Clients, RoleChange(c)
  PROVE  FreshInv'
<1>1. req \in [Clients -> Request] /\ req[c] \in Request /\ granted \in [Users -> SUBSET Roles]
  BY DEF AccessTypeOK, RbacUserRole
<1>2. UNCHANGED <<cache, unsure>>
  BY DEF RoleChange, AssignRole, RemoveRole, SetUserRoles, SaveRoles, rbacVars
<1>3. PICK w \in Users :
        /\ \A u \in Users \ {w} : granted'[u] = granted[u]
        /\ req[c].at = "idle" \/ req[c].user = w
        /\ \E roles \in SUBSET Roles :
             \/ UNCHANGED granted /\ At(c, "idle")
                /\ Become(c, [at |-> "granting", user |-> w, roles |-> roles])
             \/ Become(c, [at |-> "setting", user |-> w, roles |-> roles])
             \/ Become(c, [at |-> "invalidating", user |-> w])
  <2>1. ASSUME NEW u \in Users, NEW r \in Roles, AssignRole(c, u, r) \/ RemoveRole(c, u, r)
        PROVE  /\ \A v \in Users \ {u} : granted'[v] = granted[v]
               /\ At(c, "idle")
               /\ \/ /\ UNCHANGED granted
                     /\ Become(c, [at |-> "granting", user |-> u, roles |-> {r}])
                  \/ Become(c, [at |-> "invalidating", user |-> u])
    BY <1>1, <2>1 DEF AssignRole, RemoveRole, rbacVars
  <2>2. ASSUME NEW u \in Users, NEW roles \in SUBSET Roles, SetUserRoles(c, u, roles)
        PROVE  /\ \A v \in Users \ {u} : granted'[v] = granted[v]
               /\ At(c, "idle")
               /\ \/ Become(c, [at |-> "setting", user |-> u, roles |-> roles])
                  \/ Become(c, [at |-> "invalidating", user |-> u])
    BY <1>1, <2>2 DEF SetUserRoles
  <2>3. CASE SaveRoles(c)
    <3>1. req[c].user \in Users
      BY <1>1, <2>3, Locals DEF SaveRoles
    <3>2. /\ \A v \in Users \ {req[c].user} : granted'[v] = granted[v]
          /\ Become(c, [at |-> "invalidating", user |-> req[c].user])
      BY <1>1, <2>3, <3>1 DEF SaveRoles
    <3>3. QED
      BY <3>1, <3>2
  <2>4. QED
    BY <2>1, <2>2, <2>3 DEF RoleChange, At
<1>4. \A d \in Clients \ {c} : req'[d] = req[d]
  BY <1>1, <1>3 DEF Become
<1>5. \/ UNCHANGED granted /\ At(c, "idle") /\ req'[c].at = "granting"
      \/ req'[c].at \in {"setting", "invalidating"} /\ req'[c].user = w
  BY <1>1, <1>3 DEF Become
<1>6. ASSUME NEW u \in Users, ~Unannounced(u)'
      PROVE  ~Unannounced(u) /\ granted'[u] = granted[u]
  BY <1>3, <1>4, <1>5, <1>6 DEF Unannounced, At
<1>7. ASSUME NEW d \in Clients, At(d, "filling")'
      PROVE  req'[d] = req[d]
  BY <1>4, <1>5, <1>7 DEF At
<1>8. QED
  BY <1>2, <1>6, <1>7, FreshUnlessChanged

LEMMA AnswerFresh ==
  ASSUME AccessTypeOK, FreshInv, NEW c \in Clients, Answer(c)
  PROVE  FreshInv'
<1>1. req \in [Clients -> Request] /\ req[c] \in Request
  BY DEF AccessTypeOK
<1>2. cache \in [Kinds -> [Users -> CacheEntry]]
  BY DEF AccessTypeOK
<1>3. UNCHANGED <<granted, unsure>>
  BY DEF Answer, Ask, ReadRoles, SetCache, rbacVars
<1>4. /\ \A d \in Clients \ {c} : req'[d] = req[d]
      /\ req[c].at \notin {"setting", "invalidating"}
      /\ req'[c].at \notin {"setting", "invalidating"}
      /\ At(c, "filling")' => req'[c].found = granted[req'[c].user]
  BY <1>1 DEF Answer, Ask, ReadRoles, SetCache, Become, At, Idle
<1>5. \A u \in Users : Unannounced(u)' <=> Unannounced(u)
  BY <1>4 DEF Unannounced
<1>6. ASSUME NEW u \in Users \ unsure, ~Unannounced(u), NEW k \in Kinds
      PROVE  cache'[k][u] \subseteq {granted[u]}
  <2>1. CASE SetCache(c)
    <3>1. req[c].user = u => req[c].found = granted[u]
      BY <1>6, <2>1 DEF FreshInv, SetCache
    <3>2. req[c].kind \in Kinds /\ req[c].user \in Users
      BY <1>1, <2>1, Locals DEF SetCache, At
    <3>3. cache'[k][u] \in {cache[k][u], {req[c].found}}
      /\ (cache'[k][u] # cache[k][u] => req[c].user = u)
      BY <1>2, <2>1, <3>2 DEF SetCache
    <3>4. QED
      BY <1>6, <3>1, <3>3 DEF FreshInv
  <2>2. CASE UNCHANGED cache
    BY <1>6, <2>2 DEF FreshInv
  <2>3. QED
    BY <2>1, <2>2 DEF Answer, Ask, ReadRoles, rbacVars
<1>7. ASSUME NEW u \in Users \ unsure, ~Unannounced(u), NEW d \in Clients, At(d, "filling")',
             req'[d].user = u
      PROVE  req'[d].found = granted[u]
  BY <1>4, <1>7 DEF FreshInv, At
<1>8. QED
  BY <1>3, <1>5, <1>6, <1>7 DEF FreshInv

LEMMA InvalidateFresh ==
  ASSUME AccessTypeOK, FreshInv, NEW c \in Clients, InvalidateCache(c)
  PROVE  FreshInv'
<1>1. req \in [Clients -> Request] /\ req[c] \in Request
  BY DEF AccessTypeOK
<1>2. req[c].user \in Users
  BY <1>1, Locals DEF InvalidateCache, At
<1>3. PICK us \in SUBSET Users : req[c].user \in us /\ Evict(us)
  BY <1>2 DEF InvalidateCache
<1>4. /\ \A d \in Clients \ {c} : req'[d] = req[d]
      /\ req[c].at = "invalidating" /\ req'[c].at = "idle"
      /\ UNCHANGED granted
  BY <1>1 DEF InvalidateCache, Become, Idle, At
<1>5. /\ unsure' = unsure \cup (us \cap BeingFilled)
      /\ \A k \in Kinds, u \in Users : cache'[k][u] = IF u \in us THEN {} ELSE cache[k][u]
  BY <1>3 DEF Evict
<1>6. ASSUME NEW u \in Users \ unsure', ~Unannounced(u)', u \notin us
      PROVE  ~Unannounced(u)
  BY <1>3, <1>4, <1>6 DEF Unannounced
<1>7. ASSUME NEW u \in Users \ unsure', u \in us, NEW d \in Clients, At(d, "filling")
      PROVE  req[d].user # u
  BY <1>5, <1>7 DEF BeingFilled
<1>8. ASSUME NEW u \in Users \ unsure', ~Unannounced(u)'
      PROVE  /\ \A k \in Kinds : cache'[k][u] \subseteq {granted'[u]}
             /\ \A d \in Clients : At(d, "filling")' /\ req'[d].user = u => req'[d].found = granted'[u]
  <2>1. CASE u \in us
    BY <1>4, <1>5, <1>7, <1>8, <2>1 DEF At
  <2>2. CASE u \notin us
    <3>1. ~Unannounced(u) /\ u \notin unsure
      BY <1>5, <1>6, <1>8, <2>2
    <3>2. QED
      BY <1>4, <1>5, <2>2, <3>1 DEF FreshInv, At
  <2>3. QED
    BY <2>1, <2>2
<1>9. QED
  BY <1>8 DEF FreshInv

\* A step that leaves RbacService alone, but for its requests that end
LEMMA OtherFresh ==
  ASSUME FreshInv, unsure \subseteq unsure', UNCHANGED granted,
         \A k \in Kinds, u \in Users : cache'[k][u] \subseteq cache[k][u],
         \A c \in Clients :
           \/ req'[c] = req[c]
           \/ /\ req'[c].at \notin {"setting", "invalidating", "filling"}
              /\ req[c].at \in {"setting", "invalidating"} => req[c].user \in unsure'
  PROVE  FreshInv'
<1>1. ASSUME NEW u \in Users \ unsure', ~Unannounced(u)'
      PROVE  ~Unannounced(u)
  BY <1>1 DEF Unannounced
<1>2. QED
  BY <1>1, FreshUnlessChanged DEF At

LEMMA FreshStep ==
  ASSUME AccessTypeOK, FreshInv, [Next]_vars
  PROVE  FreshInv'
<1>1. req \in [Clients -> Request]
  BY DEF AccessTypeOK
<1>2. ASSUME NEW c \in Clients, OrgStep(c)
      PROVE  FreshInv'
  <2>1. UNCHANGED rbacVars /\ Requests(c)
    BY <1>2, OrgFrame, OrgRequests
  <2>2. \A d \in Clients \ {c} :
          \/ req'[d] = req[d]
          \/ /\ req'[d].at = req[d].at
             /\ req[d].at \notin {"setting", "invalidating", "filling"}
    <3>1. \A d \in Clients \ {c} : req[d] \in Request /\ Sees(req[d], req'[d])
      BY <1>1, <2>1 DEF Requests
    <3>2. \A d \in Clients \ {c} : req'[d].at = req[d].at
      BY <3>1, SeesRequest
    <3>3. \A d \in Clients \ {c} :
            req'[d] = req[d] \/ req[d].at \in {"removing", "changing", "renaming"}
      BY <3>1 DEF Sees
    <3>4. ASSUME NEW d \in Clients \ {c}, req'[d] # req[d]
          PROVE  req'[d].at = req[d].at /\ req[d].at \notin {"setting", "invalidating", "filling"}
      BY <3>2, <3>3, <3>4
    <3>5. QED
      BY <3>4
  <2>3. req'[c] = req[c] \/ (req[c].at \notin {"setting", "invalidating"}
                              /\ req'[c].at \notin {"setting", "invalidating", "filling"})
    BY <1>1, <1>2 DEF OrgStep, Create, SaveOrg, SaveOwner, Update, SaveUpdate, Delete, AddMember,
         SaveMember, RemoveMember, DeleteMember, UpdateMemberRole, SaveRole, Become, At, Idle
  <2>4. QED
    BY <2>1, <2>2, <2>3, OtherFresh DEF rbacVars
<1>3. ASSUME NEW c \in Clients, Use(c)
      PROVE  FreshInv'
  <2>1. UNCHANGED rbacVars /\ \A d \in Clients : req'[d] = req[d] \/ (At(d, "using") /\ req'[d] = Idle)
    BY <1>1, <1>3 DEF Use, Become, ApiKeys, At
  <2>2. QED
    BY <2>1, OtherFresh DEF rbacVars, At, Idle
<1>4. ASSUME NEW c \in Clients, Fails(c)
      PROVE  FreshInv'
  <2>1. /\ UNCHANGED <<granted, cache>>
        /\ \A d \in Clients \ {c} : req'[d] = req[d]
        /\ req'[c].at = "idle"
    BY <1>1, <1>4 DEF Fails, Become, Idle
  <2>2. /\ unsure \subseteq unsure'
        /\ req[c].at \in {"setting", "invalidating"} => req[c].user \in unsure'
    BY <1>4 DEF Fails
  <2>3. QED
    BY <2>1, <2>2, OtherFresh
<1>5. CASE ApiKeyStep
  <2>1. UNCHANGED rbacVars
    BY <1>5, KeyFrame
  <2>2. \A d \in Clients : req'[d] = req[d] \/ (At(d, "idle") /\ req'[d].at = "using")
    BY <1>1, <1>5 DEF ApiKeyStep, CreateKey, Revoke, RestoreKey, ExpireKey, Validate, Become
  <2>3. QED
    BY <2>1, <2>2, OtherFresh DEF rbacVars, At
<1>6. ASSUME NEW k \in Kinds, NEW u \in Users, Expire(k, u)
      PROVE  FreshInv'
  <2>1. UNCHANGED <<req, granted, unsure>>
    BY <1>6 DEF Expire
  <2>2. \A j \in Kinds, v \in Users : cache'[j][v] \subseteq cache[j][v]
    BY <1>6 DEF Expire, AccessTypeOK
  <2>3. QED
    BY <2>1, <2>2, OtherFresh
<1>7. CASE Restart
  <2>1. ~\E u \in Users : Unannounced(u)'
    BY <1>7 DEF Restart, Unannounced, Idle
  <2>2. QED
    BY <1>7 DEF Restart, FreshInv, At, Idle
<1>8. CASE UNCHANGED vars
  BY <1>8 DEF vars, rbacVars, FreshInv, Unannounced, At
<1>9. QED
  BY <1>2, <1>3, <1>4, <1>5, <1>6, <1>7, <1>8, RoleChangeFresh, AnswerFresh, InvalidateFresh, Steps

--------------------------------------------------------------------------------
(* The rows that requests rely on *)

\* What becomes of the rows in hand when those of the organizations stay, and of members
LEMMA RowKept ==
  ASSUME NEW d \in Clients, RowOf(d), req'[d] = req[d],
         At(d, "owning") \/ At(d, "renaming") =>
           /\ Exists(req[d].org) => Exists(req[d].org)'
           /\ orgs'[req[d].org].ownerId = orgs[req[d].org].ownerId
           /\ Found(req[d].org) => Found(req[d].org)',
         req[d].at \in {"removing", "changing"} =>
           (members[req[d].org][req[d].user] # "absent"
             => members'[req[d].org][req[d].user] # "absent")
  PROVE  RowOf(d)'
  BY DEF RowOf, Exists, Found, At

LEMMA NoRow ==
  ASSUME NEW d \in Clients,
         req'[d].at \notin {"owning", "renaming", "removing", "changing"}
  PROVE  RowOf(d)'
  BY DEF RowOf, At

\* The steps that write no row and leave other requests alone
LEMMA ReadRow ==
  ASSUME AccessTypeOK, RowInv, NEW c \in Clients,
         \/ \E slug \in Slugs, u \in Users : Create(c, slug, u)
         \/ \E o \in Orgs, slug \in Slugs : Update(c, o, slug)
         \/ \E o \in Orgs, u \in Users :
              \/ RemoveMember(c, o, u)
              \/ \E role \in OrgMemberRole : AddMember(c, o, u, role) \/ UpdateMemberRole(c, o, u, role)
  PROVE  RowInv'
<1>1. req \in [Clients -> Request]
  BY DEF AccessTypeOK
<1>2. UNCHANGED orgVars /\ \A d \in Clients \ {c} : req'[d] = req[d]
  BY <1>1 DEF Create, Update, RemoveMember, AddMember, UpdateMemberRole, Become
<1>3. \A d \in Clients \ {c} : RowOf(d)'
  BY <1>2, RowKept DEF RowInv, orgVars, Exists, Found
<1>4. RowOf(c)'
  <2>1. CASE \/ \E slug \in Slugs, u \in Users : Create(c, slug, u)
             \/ \E o \in Orgs, u \in Users, role \in OrgMemberRole : AddMember(c, o, u, role)
    <3>1. req'[c].at \in {"founding", "adding"}
      BY <1>1, <2>1 DEF Create, AddMember, Become
    <3>2. QED
      BY <3>1, NoRow
  <2>2. ASSUME NEW o \in Orgs, NEW slug \in Slugs, Update(c, o, slug)
        PROVE  RowOf(c)'
    <3>1. /\ req'[c] = [at |-> "renaming", org |-> o, slug |-> slug, stale |-> FALSE]
          /\ UNCHANGED orgs /\ Found(o)
      BY <1>1, <2>2 DEF Update, Become, orgVars
    <3>2. QED
      BY <3>1 DEF RowOf, Found, Exists, At
  <2>3. ASSUME NEW o \in Orgs, NEW u \in Users,
               RemoveMember(c, o, u) \/ \E role \in OrgMemberRole : UpdateMemberRole(c, o, u, role)
        PROVE  RowOf(c)'
    <3>1. /\ req'[c].at \in {"removing", "changing"} /\ req'[c].org = o /\ req'[c].user = u
          /\ UNCHANGED members /\ members[o][u] # "absent"
      BY <1>1, <2>3 DEF RemoveMember, UpdateMemberRole, Become, Removable, orgVars
    <3>2. QED
      BY <3>1 DEF RowOf, At
  <2>4. QED
    BY <2>1, <2>2, <2>3
<1>5. QED
  BY <1>3, <1>4 DEF RowInv

\* The steps that insert or update a row
LEMMA SaveRow ==
  ASSUME AccessTypeOK, RowInv, NEW c \in Clients,
         SaveOrg(c) \/ SaveOwner(c) \/ SaveUpdate(c) \/ SaveMember(c)
  PROVE  RowInv'
<1>1. req \in [Clients -> Request] /\ req[c] \in Request
  BY DEF AccessTypeOK
<1>2. /\ orgs \in [Orgs -> Organization \cup {NoOrg}]
      /\ members \in [Orgs -> [Users -> OrgMemberRole \cup {"absent"}]]
  BY DEF AccessTypeOK, OrganizationMember
<1>3. \A d \in Clients \ {c} : req'[d] = req[d]
  BY <1>1 DEF SaveOrg, SaveOwner, SaveUpdate, SaveMember, Become
<1>4. \A o \in Orgs : /\ Exists(o) => Exists(o)' /\ orgs'[o].ownerId = orgs[o].ownerId
                      /\ Found(o) => Found(o)'
  <2>1. \A o \in Orgs : Exists(o) => Exists(o)' /\ orgs'[o].ownerId = orgs[o].ownerId
    BY OrgRows DEF OrgStep
  <2>2. \A o \in Orgs : Found(o) => Found(o)'
    <3>1. CASE SaveOrg(c)
      BY <1>2, <3>1 DEF SaveOrg, Found, Exists
    <3>2. CASE SaveUpdate(c)
      <4>1. req[c].org \in Orgs /\ Exists(req[c].org)
        BY <1>1, <3>2, Locals DEF SaveUpdate, At, RowInv, RowOf
      <4>2. orgs[req[c].org] \in Organization
        BY <1>2, <4>1 DEF Exists, NoOrg
      <4>3. QED
        BY <1>2, <3>2, <4>1, <4>2 DEF SaveUpdate, Found, Organization
    <3>3. CASE UNCHANGED orgs
      BY <3>3 DEF Found
    <3>4. QED
      BY <3>1, <3>2, <3>3 DEF SaveOwner, SaveMember
  <2>3. QED
    BY <2>1, <2>2
<1>5. \A o \in Orgs, u \in Users : members[o][u] # "absent" => members'[o][u] # "absent"
  <2>1. CASE SaveOwner(c)
    BY <1>2, <2>1 DEF SaveOwner
  <2>2. CASE SaveMember(c)
    <3>1. req[c].org \in Orgs /\ req[c].user \in Users /\ req[c].role \in OrgMemberRole
      BY <1>1, <2>2, Locals DEF SaveMember, At
    <3>2. QED
      BY <1>2, <2>2, <3>1 DEF SaveMember, OrgMemberRole
  <2>3. QED
    BY <2>1, <2>2 DEF SaveOrg, SaveUpdate
<1>6. ASSUME NEW d \in Clients \ {c}
      PROVE  RowOf(d)'
  <2>1. /\ RowOf(d) /\ req'[d] = req[d] /\ req[d] \in Request
    BY <1>1, <1>3 DEF RowInv
  <2>2. /\ req[d].at \in {"owning", "renaming", "removing", "changing"} => req[d].org \in Orgs
        /\ req[d].at \in {"removing", "changing"} => req[d].user \in Users
    BY <2>1, Locals
  <2>3. At(d, "owning") \/ At(d, "renaming") => Exists(req[d].org)
    BY <2>1 DEF RowOf, At
  <2>4. QED
    BY <1>4, <1>5, <2>1, <2>2, <2>3, RowKept DEF At
<1>7. RowOf(c)'
  <2>1. CASE SaveOrg(c)
    <3>1. PICK o \in Orgs :
            /\ orgs' = [orgs EXCEPT ![o] = [state |-> "live", slug |-> req[c].slug,
                                            ownerId |-> req[c].user]]
            /\ Become(c, [at |-> "owning", org |-> o, user |-> req[c].user])
      BY <2>1 DEF SaveOrg
    <3>2. /\ req'[c] = [at |-> "owning", org |-> o, user |-> req[c].user]
          /\ orgs'[o] = [state |-> "live", slug |-> req[c].slug, ownerId |-> req[c].user]
      BY <1>1, <1>2, <3>1 DEF Become
    <3>3. QED
      BY <3>2 DEF RowOf, At, Exists
  <2>2. CASE Become(c, Idle)
    BY <1>1, <2>2, NoRow DEF Become, Idle
  <2>3. QED
    BY <2>1, <2>2 DEF SaveOwner, SaveUpdate, SaveMember
<1>8. QED
  BY <1>6, <1>7 DEF RowInv

LEMMA DeleteRow ==
  ASSUME AccessTypeOK, RowInv, NEW c \in Clients, NEW o \in Orgs, Delete(c, o)
  PROVE  RowInv'
<1>1. /\ req \in [Clients -> Request]
      /\ orgs \in [Orgs -> Organization \cup {NoOrg}]
  BY DEF AccessTypeOK
<1>2. /\ \A p \in Orgs \ {o} : orgs'[p] = orgs[p]
      /\ \A p \in Orgs : Exists(p) => Exists(p)' /\ orgs'[p].ownerId = orgs[p].ownerId
      /\ UNCHANGED members
  <2>1. \A p \in Orgs : Exists(p) => Exists(p)' /\ orgs'[p].ownerId = orgs[p].ownerId
    BY OrgRows DEF OrgStep
  <2>2. QED
    BY <1>1, <2>1 DEF Delete
<1>3. ASSUME NEW d \in Clients
      PROVE  RowOf(d)'
  <2>1. /\ RowOf(d) /\ req[d] \in Request
        /\ req[d].at \in {"owning", "renaming"} => req[d].org \in Orgs
    BY <1>1, Locals DEF RowInv
  <2>2. CASE At(d, "renaming") /\ req[d].org = o
    <3>1. req'[d] = [req[d] EXCEPT !.stale = TRUE]
      BY <2>2 DEF Delete
    <3>2. At(d, "renaming")' /\ req'[d].org = o /\ req'[d].stale
      BY <2>1, <2>2, <3>1, Restaled DEF At
    <3>3. QED
      BY <1>2, <2>1, <2>2, <3>2 DEF RowOf, At
  <2>3. CASE ~(At(d, "renaming") /\ req[d].org = o)
    <3>1. req'[d] = req[d]
      BY <2>3 DEF Delete
    <3>2. At(d, "renaming") => req[d].org \in Orgs \ {o}
      BY <2>1, <2>3 DEF At
    <3>3. QED
      BY <1>2, <2>1, <3>1, <3>2 DEF RowOf, At, Found
  <2>4. QED
    BY <2>2, <2>3
<1>4. QED
  BY <1>3 DEF RowInv

LEMMA DeleteMemberRow ==
  ASSUME AccessTypeOK, RowInv, NEW c \in Clients, DeleteMember(c)
  PROVE  RowInv'
<1> DEFINE o == req[c].org
           u == req[c].user
<1>1. /\ req \in [Clients -> Request] /\ req[c] \in Request
      /\ members \in [Orgs -> [Users -> OrgMemberRole \cup {"absent"}]]
  BY DEF AccessTypeOK, OrganizationMember
<1>2. o \in Orgs /\ u \in Users /\ UNCHANGED orgs
  BY <1>1, Locals DEF DeleteMember, At
<1>3. ASSUME NEW d \in Clients, d # c
      PROVE  RowOf(d)'
  <2>1. /\ RowOf(d) /\ req[d] \in Request
        /\ req[d].at \in {"removing", "changing"} => req[d].org \in Orgs /\ req[d].user \in Users
    BY <1>1, Locals DEF RowInv
  <2>2. CASE Holds(d, o, u) /\ ~req[c].stale
    <3>1. req'[d] = [req[d] EXCEPT !.stale = TRUE]
      BY <1>3, <2>2 DEF DeleteMember
    <3>2. req'[d].at \in {"removing", "changing"} /\ req'[d].stale
      BY <2>1, <2>2, <3>1, Restaled DEF Holds
    <3>3. QED
      BY <3>2 DEF RowOf, At
  <2>3. CASE ~(Holds(d, o, u) /\ ~req[c].stale)
    <3>1. req'[d] = req[d]
      BY <1>3, <2>3 DEF DeleteMember
    <3>2. \A p \in Orgs, v \in Users : req[c].stale \/ p # o \/ v # u => members'[p][v] = members[p][v]
      BY <1>1, <1>2 DEF DeleteMember
    <3>3. QED
      BY <1>2, <2>1, <2>3, <3>1, <3>2, RowKept DEF Holds, Found, Exists
  <2>4. QED
    BY <2>2, <2>3
<1>4. req'[c] = Idle
  BY DEF DeleteMember
<1>5. QED
  BY <1>3, <1>4, NoRow DEF RowInv, Idle

LEMMA SaveRoleRow ==
  ASSUME AccessTypeOK, RowInv, NEW c \in Clients, SaveRole(c)
  PROVE  RowInv'
<1> DEFINE o == req[c].org
           u == req[c].user
           others == IF req[c].stale THEN {d \in Clients \ {c} : Holds(d, o, u)} ELSE {}
<1>1. /\ req \in [Clients -> Request] /\ req[c] \in Request
      /\ members \in [Orgs -> [Users -> OrgMemberRole \cup {"absent"}]]
  BY DEF AccessTypeOK, OrganizationMember
<1>2. o \in Orgs /\ u \in Users /\ req[c].role \in OrgMemberRole /\ UNCHANGED orgs
  BY <1>1, Locals DEF SaveRole, At
<1>3. PICK same \in SUBSET others :
        req' = [d \in Clients |-> CASE d = c -> Idle
                                    [] d \in same -> [req[d] EXCEPT !.stale = FALSE]
                                    [] OTHER -> req[d]]
  BY DEF SaveRole
<1>4. /\ members'[o][u] # "absent"
      /\ \A p \in Orgs, v \in Users : members[p][v] # "absent" => members'[p][v] # "absent"
  BY <1>1, <1>2 DEF SaveRole, OrgMemberRole
<1>5. ASSUME NEW d \in Clients, d # c
      PROVE  RowOf(d)'
  <2>1. /\ RowOf(d) /\ req[d] \in Request
        /\ req[d].at \in {"removing", "changing"} => req[d].org \in Orgs /\ req[d].user \in Users
    BY <1>1, Locals DEF RowInv
  <2>2. CASE d \in same
    <3>1. req'[d] = [req[d] EXCEPT !.stale = FALSE] /\ Holds(d, o, u)
      BY <1>3, <1>5, <2>2
    <3>2. req[d].at \in {"removing", "changing"} /\ req[d].org = o /\ req[d].user = u
      BY <3>1 DEF Holds
    <3>3. req'[d].at \in {"removing", "changing"} /\ req'[d].org = o /\ req'[d].user = u
      BY <2>1, <3>1, <3>2, Restaled
    <3>4. QED
      BY <1>4, <3>3 DEF RowOf, At
  <2>3. CASE d \notin same
    <3>1. req'[d] = req[d]
      BY <1>3, <1>5, <2>3
    <3>2. QED
      BY <1>2, <1>4, <2>1, <3>1, RowKept DEF Found, Exists
  <2>4. QED
    BY <2>2, <2>3
<1>6. req'[c] = Idle
  BY <1>3
<1>7. QED
  BY <1>5, <1>6, NoRow DEF RowInv, Idle

LEMMA RowStep ==
  ASSUME AccessTypeOK, RowInv, [Next]_vars
  PROVE  RowInv'
<1>1. req \in [Clients -> Request]
  BY DEF AccessTypeOK
<1>2. ASSUME NEW c \in Clients, OrgStep(c)
      PROVE  RowInv'
  BY <1>2, ReadRow, SaveRow, DeleteRow, DeleteMemberRow, SaveRoleRow, Zenon DEF OrgStep
<1>3. ASSUME UNCHANGED <<orgs, members>>,
             \A d \in Clients :
               \/ req'[d] = req[d]
               \/ req'[d].at \notin {"owning", "renaming", "removing", "changing"}
      PROVE  RowInv'
  BY <1>3, NoRow DEF RowInv, RowOf, Exists, Found, At
<1>4. ASSUME NEW c \in Clients, RoleChange(c) \/ Answer(c) \/ InvalidateCache(c)
      PROVE  RowInv'
  <2>1. UNCHANGED <<orgs, members>>
    BY <1>4, RbacFrame DEF orgVars
  <2>2. \A d \in Clients :
          \/ req'[d] = req[d]
          \/ req'[d].at \notin {"owning", "renaming", "removing", "changing"}
    BY <1>1, <1>4 DEF RoleChange, Answer, AssignRole, RemoveRole, SetUserRoles, SaveRoles, Ask,
                      ReadRoles, SetCache, InvalidateCache, Become, Idle
  <2>3. QED
    BY <1>3, <2>1, <2>2
<1>5. ASSUME NEW c \in Clients, Use(c) \/ Fails(c)
      PROVE  RowInv'
  BY <1>1, <1>3, <1>5 DEF Use, Fails, Become, ApiKeys, orgVars, Idle
<1>6. CASE ApiKeyStep
  <2>1. UNCHANGED <<orgs, members>>
    BY <1>6, KeyFrame DEF orgVars
  <2>2. \A d \in Clients :
          \/ req'[d] = req[d]
          \/ req'[d].at \notin {"owning", "renaming", "removing", "changing"}
    BY <1>1, <1>6 DEF ApiKeyStep, CreateKey, Revoke, RestoreKey, ExpireKey, Validate, Become
  <2>3. QED
    BY <1>3, <2>1, <2>2
<1>7. CASE Restart
  BY <1>3, <1>7 DEF Restart, Idle
<1>8. CASE (\E k \in Kinds, u \in Users : Expire(k, u)) \/ UNCHANGED vars
  BY <1>3, <1>8 DEF Expire, Rbac, orgVars, vars
<1>9. QED
  BY <1>2, <1>4, <1>5, <1>6, <1>7, <1>8, Steps

--------------------------------------------------------------------------------
(* The owners *)

\* An organization's owner stays when no request comes to hold the owner's row.
LEMMA OwnerKept ==
  ASSUME NEW o \in Orgs, OwnerOf(o),
         Exists(o) => Exists(o)' /\ orgs'[o].ownerId = orgs[o].ownerId,
         founding'[o] = founding[o],
         founding[o] = "done" =>
           /\ members'[o][orgs[o].ownerId] = "owner"
           /\ \A d \in Clients :
                req'[d].at \in {"removing", "changing"} /\ req'[d].org = o
                  /\ req'[d].user = orgs[o].ownerId => req'[d].stale
  PROVE  OwnerOf(o)'
  BY DEF OwnerOf, Holds

\* What is left to show of a step of OrgService that leaves founding alone
LEMMA OwnersKept ==
  ASSUME AccessTypeOK, RowInv, OwnerInv, NEW c \in Clients, OrgStep(c), UNCHANGED founding,
         \A o \in Orgs : founding[o] = "done" =>
           /\ members'[o][orgs[o].ownerId] = "owner"
           /\ \A d \in Clients :
                req'[d].at \in {"removing", "changing"} /\ req'[d].org = o
                  /\ req'[d].user = orgs[o].ownerId => req'[d].stale
  PROVE  OwnerInv'
<1>1. \A o \in Orgs : Exists(o) => Exists(o)' /\ orgs'[o].ownerId = orgs[o].ownerId
  BY OrgRows
<1>2. QED
  BY <1>1, OwnerKept DEF OwnerInv

LEMMA OrgStepOwner ==
  ASSUME AccessTypeOK, RowInv, OwnerInv, NEW c \in Clients, OrgStep(c)
  PROVE  OwnerInv'
<1>1. /\ req \in [Clients -> Request] /\ req[c] \in Request
      /\ orgs \in [Orgs -> Organization \cup {NoOrg}]
      /\ members \in [Orgs -> [Users -> OrgMemberRole \cup {"absent"}]]
      /\ founding \in [Orgs -> {"no", "saved", "failed", "done"}]
  BY DEF AccessTypeOK, OrganizationMember
<1>2. \A p \in Orgs : Exists(p) => Exists(p)' /\ orgs'[p].ownerId = orgs[p].ownerId
  BY OrgRows
<1>3. ASSUME NEW p \in Orgs, founding[p] = "done"
      PROVE  /\ Exists(p) /\ orgs[p].ownerId \in Users
             /\ members[p][orgs[p].ownerId] = "owner"
             /\ \A d \in Clients : Holds(d, p, orgs[p].ownerId) => req[d].stale
  BY <1>1, <1>3 DEF OwnerInv, OwnerOf, Exists, NoOrg, Organization
<1>4. CASE SaveOrg(c)
  <2>1. PICK o \in Orgs :
          /\ ~Exists(o)
          /\ orgs' = [orgs EXCEPT ![o] = [state |-> "live", slug |-> req[c].slug,
                                          ownerId |-> req[c].user]]
          /\ founding' = [founding EXCEPT ![o] = "saved"]
          /\ Become(c, [at |-> "owning", org |-> o, user |-> req[c].user])
    BY <1>4 DEF SaveOrg
  <2>2. OwnerOf(o)'
    BY <1>1, <2>1 DEF OwnerOf, Exists
  <2>3. ASSUME NEW p \in Orgs \ {o}
        PROVE  OwnerOf(p)'
    <3>1. OwnerOf(p) /\ founding'[p] = founding[p] /\ UNCHANGED members
      BY <1>1, <1>4, <2>1 DEF OwnerInv, SaveOrg
    <3>2. \A d \in Clients : req'[d] = req[d] \/ req'[d].at = "owning"
      BY <1>1, <2>1 DEF Become
    <3>3. QED
      BY <1>2, <1>3, <3>1, <3>2, OwnerKept DEF Holds
  <2>4. QED
    BY <2>2, <2>3 DEF OwnerInv
<1>5. CASE SaveOwner(c)
  <2>1. PICK o \in Orgs, u \in Users : o = req[c].org /\ u = req[c].user
    BY <1>1, <1>5, Locals DEF SaveOwner, At
  <2>2. Exists(o) /\ orgs[o].ownerId = u /\ members[o][u] = "absent" /\ UNCHANGED orgs
    BY <1>1, <1>5, <2>1 DEF SaveOwner, At, RowInv, RowOf
  <2>3. /\ members' = [members EXCEPT ![o][u] = "owner"]
        /\ founding' = [founding EXCEPT ![o] = "done"]
        /\ \A d \in Clients \ {c} : req'[d] = req[d]
        /\ req'[c] = Idle
    BY <1>1, <1>5, <2>1 DEF SaveOwner, Become
  <2>4. OwnerOf(o)'
    <3>1. \A d \in Clients : Holds(d, o, u) => req[d].stale
      BY <1>1, <2>2 DEF RowInv, RowOf, Holds
    <3>2. \A d \in Clients : Holds(d, o, u)' => req'[d].stale
      BY <2>3, <3>1 DEF Holds, Idle
    <3>3. Exists(o)' /\ orgs'[o].ownerId = u /\ members'[o][u] = "owner"
      BY <1>1, <1>2, <2>2, <2>3
    <3>4. QED
      BY <3>2, <3>3 DEF OwnerOf, Holds
  <2>5. ASSUME NEW p \in Orgs \ {o}
        PROVE  OwnerOf(p)'
    <3>1. OwnerOf(p) /\ founding'[p] = founding[p] /\ members'[p] = members[p]
      BY <1>1, <2>3 DEF OwnerInv
    <3>2. QED
      BY <1>2, <1>3, <2>3, <3>1, OwnerKept DEF Holds, Idle
  <2>6. QED
    BY <2>4, <2>5 DEF OwnerInv
<1>6. CASE SaveUpdate(c)
  <2>1. UNCHANGED <<members, founding>> /\ \A d \in Clients : req'[d] = req[d] \/ req'[d] = Idle
    BY <1>1, <1>6 DEF SaveUpdate, Become
  <2>2. QED
    BY <1>3, <2>1, OwnersKept DEF Holds, Idle
<1>7. CASE SaveMember(c)
  <2>1. /\ UNCHANGED founding
        /\ \A d \in Clients : req'[d] = req[d] \/ req'[d] = Idle
        /\ members[req[c].org][req[c].user] = "absent"
        /\ members' = [members EXCEPT ![req[c].org][req[c].user] = req[c].role]
    BY <1>1, <1>7 DEF SaveMember, Become
  <2>2. \A p \in Orgs : founding[p] = "done" => members'[p][orgs[p].ownerId] = "owner"
    BY <1>1, <1>3, <2>1
  <2>3. QED
    BY <1>3, <2>1, <2>2, OwnersKept DEF Holds, Idle
<1>8. ASSUME NEW o \in Orgs, Delete(c, o)
      PROVE  OwnerInv'
  <2>1. UNCHANGED <<members, founding>>
    BY <1>8 DEF Delete
  <2>2. \A d \in Clients : req'[d] = req[d] \/ req'[d].at = "renaming"
    BY <1>1, <1>8, Restaled DEF Delete, At
  <2>3. QED
    BY <1>3, <2>1, <2>2, OwnersKept DEF Holds
<1>9. CASE DeleteMember(c)
  <2>1. /\ UNCHANGED founding /\ req'[c] = Idle
        /\ req[c].at = "removing" /\ req[c].org \in Orgs /\ req[c].user \in Users
        /\ members' = IF req[c].stale THEN members
                      ELSE [members EXCEPT ![req[c].org][req[c].user] = "absent"]
    BY <1>1, <1>9, Locals DEF DeleteMember, At
  <2>2. \A p \in Orgs : founding[p] = "done" => members'[p][orgs[p].ownerId] = "owner"
    BY <1>1, <1>3, <2>1 DEF Holds
  <2>3. ASSUME NEW d \in Clients \ {c}
        PROVE  req'[d] = req[d] \/ req'[d].stale
    BY <1>1, <1>9, Restaled DEF DeleteMember, Holds
  <2>4. QED
    BY <1>3, <2>1, <2>2, <2>3, OwnersKept DEF Holds, Idle
<1>10. CASE SaveRole(c)
  <2> DEFINE o == req[c].org
             u == req[c].user
             others == IF req[c].stale THEN {d \in Clients \ {c} : Holds(d, o, u)} ELSE {}
  <2>1. /\ UNCHANGED founding
        /\ req[c].at = "changing" /\ o \in Orgs /\ u \in Users
        /\ req[c].stale => members[o][u] = "absent"
        /\ members' = [members EXCEPT ![o][u] = req[c].role]
    BY <1>1, <1>10, Locals DEF SaveRole, At
  <2>2. PICK same \in SUBSET others :
          req' = [d \in Clients |-> CASE d = c -> Idle
                                      [] d \in same -> [req[d] EXCEPT !.stale = FALSE]
                                      [] OTHER -> req[d]]
    BY <1>10 DEF SaveRole
  <2>3. \A p \in Orgs : founding[p] = "done" => p # o \/ orgs[p].ownerId # u
    BY <1>1, <1>3, <2>1 DEF Holds
  <2>4. \A p \in Orgs : founding[p] = "done" => members'[p][orgs[p].ownerId] = "owner"
    BY <1>1, <1>3, <2>1, <2>3
  <2>5. ASSUME NEW d \in Clients
        PROVE  req'[d] = req[d] \/ req'[d] = Idle \/ (req'[d].org = o /\ req'[d].user = u)
    <3>1. CASE d \in same
      <4>1. req'[d] = [req[d] EXCEPT !.stale = FALSE]
        BY <2>2, <3>1
      <4>2. req[d].at \in {"removing", "changing"} /\ req[d].org = o /\ req[d].user = u
        BY <3>1 DEF Holds
      <4>3. QED
        BY <1>1, <4>1, <4>2, Restaled
    <3>2. CASE d \notin same
      BY <2>2, <3>2
    <3>3. QED
      BY <3>1, <3>2
  <2> HIDE DEF o, u
  <2>6. QED
    BY <1>3, <2>1, <2>3, <2>4, <2>5, OwnersKept DEF Holds, Idle
<1>11. ASSUME UNCHANGED orgVars,
              \A d \in Clients \ {c} : req'[d] = req[d],
              \/ req'[c].at \notin {"removing", "changing"}
              \/ members[req'[c].org][req'[c].user] # "owner"
       PROVE  OwnerInv'
  BY <1>3, <1>11, OwnersKept DEF orgVars, Holds
<1>12. CASE \/ \E slug \in Slugs, u \in Users : Create(c, slug, u)
            \/ \E o \in Orgs, slug \in Slugs : Update(c, o, slug)
            \/ \E o \in Orgs, u \in Users, role \in OrgMemberRole : AddMember(c, o, u, role)
  <2>1. /\ UNCHANGED orgVars /\ \A d \in Clients \ {c} : req'[d] = req[d]
        /\ req'[c].at \notin {"removing", "changing"}
    BY <1>1, <1>12 DEF Create, Update, AddMember, Become
  <2>2. QED
    BY <1>11, <2>1
<1>13. ASSUME NEW o \in Orgs, NEW u \in Users,
              RemoveMember(c, o, u) \/ \E role \in OrgMemberRole : UpdateMemberRole(c, o, u, role)
       PROVE  OwnerInv'
  <2>1. /\ UNCHANGED orgVars /\ \A d \in Clients \ {c} : req'[d] = req[d]
        /\ req'[c].org = o /\ req'[c].user = u /\ members[o][u] # "owner"
    BY <1>1, <1>13 DEF RemoveMember, UpdateMemberRole, Become, Removable
  <2>2. QED
    BY <1>11, <2>1
<1>14. QED
  BY <1>4, <1>5, <1>6, <1>7, <1>8, <1>9, <1>10, <1>12, <1>13, Zenon DEF OrgStep

LEMMA OwnerStep ==
  ASSUME AccessTypeOK, RightsInv, [Next]_vars
  PROVE  RightsInv'
<1>1. RowInv /\ OwnerInv /\ RowInv' /\ req \in [Clients -> Request]
  BY RowStep DEF RightsInv, AccessTypeOK
<1> SUFFICES OwnerInv'
  BY <1>1 DEF RightsInv
<1>2. ASSUME UNCHANGED <<orgs, members, founding>>,
             \A d \in Clients : req'[d] = req[d] \/ req'[d].at \notin {"removing", "changing"}
      PROVE  OwnerInv'
  BY <1>1, <1>2 DEF OwnerInv, OwnerOf, Holds, Exists
<1>3. ASSUME NEW c \in Clients, RoleChange(c) \/ Answer(c) \/ InvalidateCache(c)
      PROVE  OwnerInv'
  <2>1. UNCHANGED <<orgs, members, founding>>
    BY <1>3, RbacFrame DEF orgVars
  <2>2. \A d \in Clients : req'[d] = req[d] \/ req'[d].at \notin {"removing", "changing"}
    BY <1>1, <1>3 DEF RoleChange, Answer, AssignRole, RemoveRole, SetUserRoles, SaveRoles, Ask,
                      ReadRoles, SetCache, InvalidateCache, Become, Idle
  <2>3. QED
    BY <1>2, <2>1, <2>2
<1>4. ASSUME NEW c \in Clients, Use(c)
      PROVE  OwnerInv'
  BY <1>1, <1>2, <1>4 DEF Use, Become, ApiKeys, orgVars, Idle
<1>5. ASSUME UNCHANGED <<orgs, members>>,
             \A d \in Clients : req'[d] = req[d] \/ req'[d].at \notin {"removing", "changing"},
             \A o \in Orgs : founding'[o] = founding[o] \/ (founding'[o] = "failed" /\ Exists(o))
      PROVE  OwnerInv'
  BY <1>1, <1>5 DEF OwnerInv, OwnerOf, Holds, Exists
<1>6. ASSUME NEW c \in Clients, Fails(c)
      PROVE  OwnerInv'
  <2>1. founding \in [Orgs -> {"no", "saved", "failed", "done"}]
    BY DEF AccessTypeOK
  <2>2. \A o \in Orgs : founding'[o] = founding[o] \/ (founding'[o] = "failed" /\ Exists(o))
    BY <1>1, <1>6, <2>1 DEF Fails, RowInv, RowOf, At
  <2>3. QED
    BY <1>1, <1>5, <1>6, <2>2 DEF Fails, Become, Idle
<1>7. CASE Restart
  <2>1. \A o \in Orgs : founding'[o] = founding[o] \/ (founding'[o] = "failed" /\ Exists(o))
    BY <1>1, <1>7 DEF Restart, OwnerInv, OwnerOf
  <2>2. QED
    BY <1>5, <1>7, <2>1 DEF Restart, Idle
<1>8. CASE ApiKeyStep
  <2>1. UNCHANGED <<orgs, members, founding>>
    BY <1>8, KeyFrame DEF orgVars
  <2>2. \A d \in Clients : req'[d] = req[d] \/ req'[d].at \notin {"removing", "changing"}
    BY <1>1, <1>8 DEF ApiKeyStep, CreateKey, Revoke, RestoreKey, ExpireKey, Validate, Become
  <2>3. QED
    BY <1>2, <2>1, <2>2
<1>9. CASE (\E k \in Kinds, u \in Users : Expire(k, u)) \/ UNCHANGED vars
  BY <1>2, <1>9 DEF Expire, Rbac, orgVars, vars
<1>10. QED
  BY <1>1, <1>3, <1>4, <1>6, <1>7, <1>8, <1>9, OrgStepOwner, Steps

--------------------------------------------------------------------------------
(* Theorems *)

LEMMA InitAccess ==
  ASSUME Init
  PROVE  AccessTypeOK /\ FreshInv /\ RightsInv
<1>1. AccessTypeOK
  <2>1. Idle \in Request /\ {} \in CacheEntry
    BY Made DEF CacheEntry
  <2>2. /\ modules \subseteq {"rbac", "org", "apiKeys"} /\ req \in [Clients -> Request]
        /\ granted \in RbacUserRole /\ cache \in [Kinds -> [Users -> CacheEntry]]
        /\ unsure \subseteq Users
    BY <2>1, AccessAssumption DEF Init, RbacUserRole
  <2>3. /\ orgs \in [Orgs -> Organization \cup {NoOrg}] /\ members \in OrganizationMember
        /\ founding \in [Orgs -> {"no", "saved", "failed", "done"}] /\ keys \in [Keys -> ApiKey]
        /\ \A o \in Orgs : ~Exists(o)
    BY DEF Init, OrganizationMember, ApiKey, NoOrg, Exists
  <2>4. QED
    BY <2>2, <2>3 DEF AccessTypeOK
<1>2. FreshInv
  BY DEF Init, FreshInv, At, Idle
<1>3. RightsInv
  BY DEF Init, RightsInv, RowInv, RowOf, OwnerInv, OwnerOf, At, Idle
<1>4. QED
  BY <1>1, <1>2, <1>3

\* The tables, the cache and every request keep their shape, and no two organizations, a
\* deleted one included, have the same slug: what create() and update() of OrgService find
\* free is checked again by the unique index, and update() saves into a row that is there.
THEOREM AccessTypeCorrect == Spec => []AccessTypeOK
<1>1. Init => AccessTypeOK /\ RowInv
  BY InitAccess DEF RightsInv
<1>2. AccessTypeOK /\ RowInv /\ [Next]_vars => (AccessTypeOK /\ RowInv)'
  BY RbacType, OrgType, OtherType, RowStep, Steps
<1>3. QED
  BY <1>1, <1>2, PTL DEF Spec

\* After a change of roles and the invalidation that announces it, the cache of RbacService
\* never answers with the roles of before, for any number of concurrent requests, unless a
\* read was under way at the invalidation or the change failed.
THEOREM PermissionsStayFresh == Spec => []PermissionsFresh
<1>1. Init => FreshInv
  BY InitAccess
<1>2. AccessTypeOK /\ FreshInv /\ [Next]_vars => FreshInv'
  BY FreshStep
<1>3. FreshInv => PermissionsFresh
  <2>1. \A u \in Users : Unannounced(u) => Changing(u)
    BY DEF Unannounced, Changing
  <2>2. QED
    BY <2>1 DEF FreshInv, PermissionsFresh
<1>4. QED
  BY <1>1, <1>2, <1>3, AccessTypeCorrect, PTL DEF Spec

\* The step that makes a deleted organization live again,
LEMMA Revival ==
  ASSUME AccessTypeOK, RowInv, Next, NEW o \in Orgs,
         orgs[o].state = "deleted", orgs'[o].state = "live"
  PROVE  \E c \in Clients : Saves(c, {"renaming"}) /\ req[c].org = o /\ req[c].stale
<1>1. /\ req \in [Clients -> Request]
      /\ orgs \in [Orgs -> Organization \cup {NoOrg}]
  BY DEF AccessTypeOK
<1>2. PICK c \in Clients : OrgStep(c)
  BY Steps, RbacFrame, KeyFrame DEF Fails, Expire, Restart, Rbac, orgVars
<1>3. ~SaveOrg(c)
  BY <1>1 DEF SaveOrg, Exists
<1>4. ASSUME NEW p \in Orgs
      PROVE  ~Delete(c, p)
  <2>1. orgs[o] \in Organization
    BY <1>1 DEF NoOrg
  <2>2. QED
    BY <1>1, <2>1 DEF Delete, Organization
<1>5. SaveUpdate(c)
  BY <1>2, <1>3, <1>4 DEF OrgStep, Create, SaveOwner, Update, AddMember, SaveMember, RemoveMember,
                          DeleteMember, UpdateMemberRole, SaveRole, orgVars
<1>6. At(c, "renaming") /\ At(c, "idle")' /\ req[c].org = o
  BY <1>1, <1>5 DEF SaveUpdate, Become, Idle, At
<1>7. req[c].stale
  BY <1>6 DEF RowInv, RowOf, Found
<1>8. QED
  BY <1>6, <1>7 DEF Saves, At

\* and those that make somebody a member.
LEMMA Membership ==
  ASSUME AccessTypeOK, RowInv, Next, NEW o \in Orgs, NEW u \in Users,
         members[o][u] = "absent", members'[o][u] # "absent"
  PROVE  \E c \in Clients : /\ Saves(c, {"adding", "owning", "changing"})
                            /\ req[c].org = o /\ req[c].user = u
                            /\ At(c, "changing") => req[c].stale
<1>1. /\ req \in [Clients -> Request]
      /\ members \in [Orgs -> [Users -> OrgMemberRole \cup {"absent"}]]
  BY DEF AccessTypeOK, OrganizationMember
<1>2. PICK c \in Clients : OrgStep(c)
  BY Steps, RbacFrame, KeyFrame DEF Fails, Expire, Restart, Rbac, orgVars
<1>3. ~DeleteMember(c)
  BY <1>1 DEF DeleteMember
<1>4. SaveOwner(c) \/ SaveMember(c) \/ SaveRole(c)
  BY <1>2, <1>3 DEF OrgStep, Create, SaveOrg, Update, SaveUpdate, Delete, AddMember, RemoveMember,
                    UpdateMemberRole, orgVars
<1>5. req[c].at \in {"adding", "owning", "changing"} /\ req'[c] = Idle
  BY <1>1, <1>4 DEF SaveOwner, SaveMember, SaveRole, Become, At
<1>6. req[c].org = o /\ req[c].user = u
  BY <1>1, <1>4 DEF SaveOwner, SaveMember, SaveRole
<1>7. At(c, "changing") => req[c].stale
  BY <1>1, <1>6 DEF RowInv, RowOf, At
<1>8. QED
  BY <1>5, <1>6, <1>7 DEF Saves, At, Idle

LEMMA Restoration ==
  ASSUME AccessTypeOK, Next, NEW k \in Keys, keys[k].revoked, ~keys'[k].revoked
  PROVE  RestoreKey(k)
<1>1. keys \in [Keys -> ApiKey]
  BY DEF AccessTypeOK
<1>2. ApiKeyStep
  BY Steps, RbacFrame, OrgFrame DEF Use, Fails, Expire, Restart, Rbac
<1>3. PICK j \in Keys : CreateKey(j) \/ Revoke(j) \/ RestoreKey(j) \/ ExpireKey(j)
                         \/ \E c \in Clients : Validate(c, j)
  BY <1>2 DEF ApiKeyStep
<1>4. RestoreKey(j) /\ j = k
  BY <1>1, <1>3 DEF CreateKey, Revoke, RestoreKey, ExpireKey, Validate, ApiKey
<1>5. QED
  BY <1>4

\* An organization keeps its founder as an owner, what was deleted comes back only by the
\* requests that held it, and a revoked API key only by restore(), whatever requests of
\* OrgService and ApiKeyService interleave, fail or end with their process.
THEOREM RightsAlwaysHold == Spec => RightsHold
<1>1. Init => AccessTypeOK /\ RightsInv
  BY InitAccess
<1>2. AccessTypeOK /\ RightsInv /\ [Next]_vars => RightsInv'
  BY OwnerStep
<1>3. AccessTypeOK /\ RightsInv /\ Next =>
        /\ \A o \in Orgs :
             /\ founding'[o] = "done" => members'[o][orgs'[o].ownerId] = "owner"
             /\ orgs[o].state = "deleted" /\ orgs'[o].state = "live" =>
                  \E c \in Clients : Saves(c, {"renaming"}) /\ req[c].org = o /\ req[c].stale
             /\ \A u \in Users : members[o][u] = "absent" /\ members'[o][u] # "absent" =>
                  \E c \in Clients : /\ Saves(c, {"adding", "owning", "changing"})
                                     /\ req[c].org = o /\ req[c].user = u
                                     /\ At(c, "changing") => req[c].stale
        /\ \A k \in Keys : keys[k].revoked /\ ~keys'[k].revoked => RestoreKey(k)
  <2> SUFFICES ASSUME AccessTypeOK, RightsInv, Next
               PROVE  /\ \A o \in Orgs :
                           /\ founding'[o] = "done" => members'[o][orgs'[o].ownerId] = "owner"
                           /\ orgs[o].state = "deleted" /\ orgs'[o].state = "live" =>
                                \E c \in Clients : Saves(c, {"renaming"}) /\ req[c].org = o /\ req[c].stale
                           /\ \A u \in Users : members[o][u] = "absent" /\ members'[o][u] # "absent" =>
                                \E c \in Clients : /\ Saves(c, {"adding", "owning", "changing"})
                                                   /\ req[c].org = o /\ req[c].user = u
                                                   /\ At(c, "changing") => req[c].stale
                      /\ \A k \in Keys : keys[k].revoked /\ ~keys'[k].revoked => RestoreKey(k)
    OBVIOUS
  <2>1. \A o \in Orgs : founding'[o] = "done" => members'[o][orgs'[o].ownerId] = "owner"
    BY OwnerStep DEF RightsInv, OwnerInv, OwnerOf
  <2>2. QED
    BY <2>1, Revival, Membership, Restoration DEF RightsInv
<1>4. QED
  BY <1>1, <1>2, <1>3, AccessTypeCorrect, PTL DEF Spec, RightsHold

==================================================================================
