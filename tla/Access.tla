--------------------------------- MODULE Access ---------------------------------
(***************************************************************************)
(* Who may do what: RbacService, whose cache answers for the roles that    *)
(* the TypeORM permission store keeps; OrgService, which keeps             *)
(* organizations and their members; and ApiKeyService.  Concurrent         *)
(* requests interleave at every await and may fail there.                  *)
(*                                                                         *)
(* A permission is taken to be the role it comes from.  The application    *)
(* changes roles and then invalidates the cache, as rbac/README.md says.   *)
(***************************************************************************)
EXTENDS Integers, FiniteSets

CONSTANTS
  Clients,   \* requests that can be in progress at once
  Users,     \* user ids
  Roles,     \* roles of the permission store
  Orgs,      \* ids of organizations; a bound on how many are ever created
  Slugs,     \* slugs they may have
  Keys,      \* ids of API keys; a bound on how many are ever created
  Modules    \* sets of modules an application may import

ASSUME AccessAssumption == Modules \subseteq SUBSET {"rbac", "org", "apiKeys"}

VARIABLES
  modules,   \* what this application imports
  req,       \* req[c]: where request c is, with the locals it still needs
  granted,   \* granted[u]: the roles with a row for u
  cache,     \* cache[k][u]: the roles that the entry of kind k for u stands for, in a
             \* set of at most one entry
  unsure,    \* history: users with a read under way when their entries were invalidated,
             \* or whose change of roles failed
  orgs,      \* orgs[o]: the row of o
  members,   \* members[o][u]: role of u in o, or "absent"
  founding,  \* founding[o]: how far create() of o is: "no", "saved", "failed" or "done"
  keys       \* keys[k]: the row of API key k

rbacVars == <<granted, cache, unsure>>
orgVars == <<orgs, members, founding>>
vars == <<modules, req, rbacVars, orgVars, keys>>

Kinds == {"permissions", "roles"}
OrgMemberRole == {"owner", "member"}   \* admin and viewer fare like member

Organization == [state : {"live", "deleted"}, slug : Slugs, ownerId : Users]
NoOrg == [state |-> "unused"]

\* The tables of roles and of members, a row of an API key, and what the cache holds of
\* a kind for a user.
RbacUserRole == [Users -> SUBSET Roles]
OrganizationMember == [Orgs -> [Users -> OrgMemberRole \cup {"absent"}]]
ApiKey == [state : {"unused", "live", "expired"}, revoked : BOOLEAN]
CacheEntry == {{}} \cup {{roles} : roles \in SUBSET Roles}

Request ==
  [at : {"idle"}]
  \cup [at : {"asking"}, kind : Kinds, user : Users]
  \cup [at : {"filling"}, kind : Kinds, user : Users, found : SUBSET Roles]
  \cup [at : {"granting", "setting"}, user : Users, roles : SUBSET Roles]
  \cup [at : {"invalidating"}, user : Users]
  \cup [at : {"founding"}, slug : Slugs, user : Users]
  \cup [at : {"owning"}, org : Orgs, user : Users]
  \cup [at : {"adding"}, org : Orgs, user : Users, role : OrgMemberRole]
  \cup [at : {"removing"}, org : Orgs, user : Users, stale : BOOLEAN]
  \cup [at : {"changing"}, org : Orgs, user : Users, role : OrgMemberRole, stale : BOOLEAN]
  \cup [at : {"renaming"}, org : Orgs, slug : Slugs, stale : BOOLEAN]
  \cup [at : {"using"}, key : Keys]

Idle == [at |-> "idle"]
At(c, step) == req[c].at = step
Become(c, r) == req' = [req EXCEPT ![c] = r]

--------------------------------------------------------------------------------
(* The permission store. *)

\* A change of the roles of u, one that a request is about to make or to announce.
Changing(u) ==
  \E c \in Clients : req[c].at \in {"granting", "setting", "invalidating"} /\ req[c].user = u

Rbac == "rbac" \in modules /\ UNCHANGED <<modules, orgVars, keys>>

\* assignRole(): unless there is a row, one is inserted.
AssignRole(c, u, r) ==
  /\ Rbac /\ At(c, "idle")
  /\ Become(c, IF r \in granted[u] THEN [at |-> "invalidating", user |-> u]
               ELSE [at |-> "granting", user |-> u, roles |-> {r}])
  /\ UNCHANGED rbacVars

\* removeRole()
RemoveRole(c, u, r) ==
  /\ Rbac /\ At(c, "idle")
  /\ granted' = [granted EXCEPT ![u] = @ \ {r}]
  /\ Become(c, [at |-> "invalidating", user |-> u])
  /\ UNCHANGED <<cache, unsure>>

\* setUserRoles(): every row of u is deleted,
SetUserRoles(c, u, roles) ==
  /\ Rbac /\ At(c, "idle")
  /\ granted' = [granted EXCEPT ![u] = {}]
  /\ Become(c, IF roles = {} THEN [at |-> "invalidating", user |-> u]
               ELSE [at |-> "setting", user |-> u, roles |-> roles])
  /\ UNCHANGED <<cache, unsure>>

\* ... and the new ones are inserted.
SaveRoles(c) ==
  /\ Rbac /\ req[c].at \in {"granting", "setting"}
  /\ granted' = [granted EXCEPT ![req[c].user] = @ \cup req[c].roles]
  /\ Become(c, [at |-> "invalidating", user |-> req[c].user])
  /\ UNCHANGED <<cache, unsure>>

--------------------------------------------------------------------------------
(* RbacService.  A request that finds an entry is answered from it at once. *)

\* canActivate(), getUserPermissions() or getUserRoles(), without an entry
Ask(c, k, u) ==
  /\ Rbac /\ At(c, "idle") /\ cache[k][u] = {}
  /\ Become(c, [at |-> "asking", kind |-> k, user |-> u])
  /\ UNCHANGED rbacVars

ReadRoles(c) ==
  /\ Rbac /\ At(c, "asking")
  /\ Become(c, [at |-> "filling", kind |-> req[c].kind, user |-> req[c].user,
                found |-> granted[req[c].user]])
  /\ UNCHANGED rbacVars

SetCache(c) ==
  /\ Rbac /\ At(c, "filling")
  /\ cache' = [cache EXCEPT ![req[c].kind][req[c].user] = {req[c].found}]
  /\ Become(c, Idle)
  /\ UNCHANGED <<granted, unsure>>

\* Users with a read under way that has its answer.
BeingFilled == {req[c].user : c \in {d \in Clients : At(d, "filling")}}

EvictPermissions(us) ==   \* mutant: the entry of the roles is forgotten
  /\ cache' = [cache EXCEPT !["permissions"] = [u \in Users |-> IF u \in us THEN {} ELSE @[u]]]
  /\ unsure' = unsure \cup (us \cap BeingFilled)

\* invalidateCache(), of one user or, for want of one, of all
Evict(us) ==
  /\ cache' = [k \in Kinds |-> [u \in Users |-> IF u \in us THEN {} ELSE cache[k][u]]]
  /\ unsure' = unsure \cup (us \cap BeingFilled)

InvalidateCache(c) ==
  /\ Rbac /\ At(c, "invalidating")
  /\ Evict({req[c].user}) \/ Evict(Users)
  /\ Become(c, Idle)
  /\ UNCHANGED granted

\* The time to live of an entry ends.
Expire(k, u) ==
  /\ Rbac /\ cache[k][u] # {}
  /\ cache' = [cache EXCEPT ![k][u] = {}]
  /\ UNCHANGED <<req, granted, unsure>>

--------------------------------------------------------------------------------
(* OrgService. *)

Org == "org" \in modules /\ UNCHANGED <<modules, rbacVars, keys>>

Exists(o) == orgs[o].state # "unused"
Found(o) == orgs[o].state = "live"

\* The unique index on slug, which counts deleted rows as well.
FreeToday(o, slug) == \A p \in Orgs \ {o} : Found(p) => orgs[p].slug # slug   \* mutant: the index covers live rows only
FreeFor(o, slug) == \A p \in Orgs \ {o} : Exists(p) => orgs[p].slug # slug

\* create(): no organization that is not deleted has the slug,
Create(c, slug, owner) ==
  /\ Org /\ At(c, "idle")
  /\ \A o \in Orgs : Found(o) => orgs[o].slug # slug
  /\ Become(c, [at |-> "founding", slug |-> slug, user |-> owner])
  /\ UNCHANGED orgVars

\* the row is inserted,
SaveOrg(c) ==
  /\ Org /\ At(c, "founding")
  /\ \E o \in Orgs :
       /\ ~Exists(o) /\ FreeFor(o, req[c].slug)
       /\ orgs' = [orgs EXCEPT ![o] = [state |-> "live", slug |-> req[c].slug,
                                       ownerId |-> req[c].user]]
       /\ founding' = [founding EXCEPT ![o] = "saved"]
       /\ Become(c, [at |-> "owning", org |-> o, user |-> req[c].user])
  /\ UNCHANGED <<members>>

\* and then the owner's membership, unless somebody has made the owner a member.
SaveOwner(c) ==
  /\ Org /\ At(c, "owning")
  /\ LET o == req[c].org
         u == req[c].user
     IN /\ members[o][u] = "absent"
        /\ members' = [members EXCEPT ![o][u] = "owner"]
        /\ founding' = [founding EXCEPT ![o] = "done"]
  /\ Become(c, Idle)
  /\ UNCHANGED <<orgs>>

\* update() reads the row,
Update(c, o, slug) ==
  /\ Org /\ At(c, "idle") /\ Found(o)
  /\ Become(c, [at |-> "renaming", org |-> o, slug |-> slug, stale |-> FALSE])
  /\ UNCHANGED orgVars

\* and saves it with what was read: a row deleted since is not deleted any more.
SaveUpdate(c) ==
  /\ Org /\ At(c, "renaming")
  /\ LET o == req[c].org
     IN /\ FreeFor(o, req[c].slug)
        /\ orgs' = [orgs EXCEPT ![o].state = "live", ![o].slug = req[c].slug]
  /\ Become(c, Idle)
  /\ UNCHANGED <<members, founding>>

\* delete(): softDelete()
Delete(c, o) ==
  /\ Org /\ At(c, "idle") /\ Exists(o)
  /\ orgs' = [orgs EXCEPT ![o].state = "deleted"]
  /\ req' = [d \in Clients |-> IF At(d, "renaming") /\ req[d].org = o
                                THEN [req[d] EXCEPT !.stale = TRUE] ELSE req[d]]
  /\ UNCHANGED <<members, founding>>

\* addMember(): nobody looks whether the organization is there; the insert needs its row.
AddMember(c, o, u, role) ==
  /\ Org /\ At(c, "idle") /\ members[o][u] = "absent"
  /\ Become(c, [at |-> "adding", org |-> o, user |-> u, role |-> role])
  /\ UNCHANGED orgVars

SaveMember(c) ==
  /\ Org /\ At(c, "adding")
  /\ LET o == req[c].org
         u == req[c].user
     IN /\ Exists(o) /\ members[o][u] = "absent"
        /\ members' = [members EXCEPT ![o][u] = req[c].role]
  /\ Become(c, Idle)
  /\ UNCHANGED <<orgs, founding>>

\* removeMember() and updateMemberRole() find a member who is not an owner.
RemovableFound(o, u) == members[o][u] # "absent"   \* mutant: owners are not spared
Removable(o, u) == members[o][u] \notin {"absent", "owner"}

\* Request d has read a row of u in o, which was removed since if the request is stale.
Holds(d, o, u) == req[d].at \in {"removing", "changing"} /\ req[d].org = o /\ req[d].user = u

RemoveMember(c, o, u) ==
  /\ Org /\ At(c, "idle") /\ Removable(o, u)
  /\ Become(c, [at |-> "removing", org |-> o, user |-> u, stale |-> FALSE])
  /\ UNCHANGED orgVars

\* remove(), by the id of the row: whatever its role is by now, if it is there.
DeleteMember(c) ==
  /\ Org /\ At(c, "removing")
  /\ LET o == req[c].org
         u == req[c].user
         others == IF req[c].stale THEN {} ELSE {d \in Clients \ {c} : Holds(d, o, u)}
     IN /\ members' = IF req[c].stale THEN members ELSE [members EXCEPT ![o][u] = "absent"]
        /\ req' = [d \in Clients |-> CASE d = c -> Idle
                                       [] d \in others -> [req[d] EXCEPT !.stale = TRUE]
                                       [] OTHER -> req[d]]
  /\ UNCHANGED <<orgs, founding>>

UpdateMemberRole(c, o, u, role) ==
  /\ Org /\ At(c, "idle") /\ Removable(o, u)
  /\ Become(c, [at |-> "changing", org |-> o, user |-> u, role |-> role, stale |-> FALSE])
  /\ UNCHANGED orgVars

\* save(): a row that was removed since is inserted again, under its old id, by which some
\* of the other requests may know it.
SaveRole(c) ==
  /\ Org /\ At(c, "changing")
  /\ LET o == req[c].org
         u == req[c].user
         others == IF req[c].stale THEN {d \in Clients \ {c} : Holds(d, o, u)} ELSE {}
     IN /\ req[c].stale => members[o][u] = "absent"
        /\ members' = [members EXCEPT ![o][u] = req[c].role]
        /\ \E same \in SUBSET others :
             req' = [d \in Clients |-> CASE d = c -> Idle
                                         [] d \in same -> [req[d] EXCEPT !.stale = FALSE]
                                         [] OTHER -> req[d]]
  /\ UNCHANGED <<orgs, founding>>

--------------------------------------------------------------------------------
(* ApiKeyService over the TypeORM repository. *)

ApiKeys == "apiKeys" \in modules /\ UNCHANGED <<modules, rbacVars, orgVars>>

\* create(), with or without an end of its validity
CreateKey(k) ==
  /\ ApiKeys /\ keys[k].state = "unused"
  /\ keys' = [keys EXCEPT ![k].state = "live"]
  /\ UNCHANGED req

\* validate() finds a row that is neither revoked nor expired,
Validate(c, k) ==
  /\ ApiKeys /\ At(c, "idle")
  /\ keys[k] = [state |-> "live", revoked |-> FALSE]
  /\ Become(c, [at |-> "using", key |-> k])
  /\ UNCHANGED keys

\* ... and writes when it was used last, and no other column.
Use(c) ==
  /\ ApiKeys /\ At(c, "using")
  /\ Become(c, Idle)
  /\ UNCHANGED keys

Revoke(k) ==
  /\ ApiKeys /\ keys[k].state # "unused"
  /\ keys' = [keys EXCEPT ![k].revoked = TRUE]
  /\ UNCHANGED req

RestoreKey(k) ==
  /\ ApiKeys /\ keys[k].state # "unused"
  /\ keys' = [keys EXCEPT ![k].revoked = FALSE]
  /\ UNCHANGED req

ExpireKey(k) ==
  /\ ApiKeys /\ keys[k].state = "live"
  /\ keys' = [keys EXCEPT ![k].state = "expired"]
  /\ UNCHANGED req

--------------------------------------------------------------------------------

\* A request rejects, or its process dies at it: what it has written stays.
Fails(c) ==
  /\ ~At(c, "idle")
  /\ unsure' = IF req[c].at \in {"setting", "invalidating"} THEN unsure \cup {req[c].user} ELSE unsure
  /\ founding' = IF At(c, "owning") THEN [founding EXCEPT ![req[c].org] = "failed"] ELSE founding
  /\ Become(c, Idle)
  /\ UNCHANGED <<modules, granted, cache, orgs, members, keys>>

\* The process ends, and its cache with it.
Restart ==
  /\ req' = [c \in Clients |-> Idle]
  /\ cache' = [k \in Kinds |-> [u \in Users |-> {}]]
  /\ founding' = [o \in Orgs |-> IF founding[o] = "saved" THEN "failed" ELSE founding[o]]
  /\ UNCHANGED <<modules, granted, unsure, orgs, members, keys>>

Init ==
  /\ modules \in Modules
  /\ req = [c \in Clients |-> Idle]
  /\ granted = [u \in Users |-> {}]
  /\ cache = [k \in Kinds |-> [u \in Users |-> {}]]
  /\ unsure = {}
  /\ orgs = [o \in Orgs |-> NoOrg]
  /\ members = [o \in Orgs |-> [u \in Users |-> "absent"]]
  /\ founding = [o \in Orgs |-> "no"]
  /\ keys = [k \in Keys |-> [state |-> "unused", revoked |-> FALSE]]

RbacStep(c) ==
  \/ \E u \in Users : \/ \E r \in Roles : AssignRole(c, u, r) \/ RemoveRole(c, u, r)
                      \/ \E roles \in SUBSET Roles : SetUserRoles(c, u, roles)
                      \/ \E k \in Kinds : Ask(c, k, u)
  \/ SaveRoles(c) \/ ReadRoles(c) \/ SetCache(c) \/ InvalidateCache(c)

OrgStep(c) ==
  \/ \E slug \in Slugs, u \in Users : Create(c, slug, u)
  \/ \E o \in Orgs : \/ Delete(c, o)
                     \/ \E slug \in Slugs : Update(c, o, slug)
                     \/ \E u \in Users : \/ RemoveMember(c, o, u)
                                         \/ \E role \in OrgMemberRole : \/ AddMember(c, o, u, role)
                                                                        \/ UpdateMemberRole(c, o, u, role)
  \/ SaveOrg(c) \/ SaveOwner(c) \/ SaveUpdate(c)
  \/ SaveMember(c) \/ DeleteMember(c) \/ SaveRole(c)

ApiKeyStep ==
  \E k \in Keys : \/ CreateKey(k) \/ Revoke(k) \/ RestoreKey(k) \/ ExpireKey(k)
                 \/ \E c \in Clients : Validate(c, k)

Next ==
  \/ \E c \in Clients : RbacStep(c) \/ OrgStep(c) \/ Use(c) \/ Fails(c)
  \/ ApiKeyStep
  \/ \E k \in Kinds, u \in Users : Expire(k, u)
  \/ Restart

Spec == Init /\ [][Next]_vars

--------------------------------------------------------------------------------
(* Properties. *)

\* The shape of the tables, the cache and the requests, and the unique slugs.
AccessTypeOK ==
  /\ modules \subseteq {"rbac", "org", "apiKeys"}
  /\ req \in [Clients -> Request]
  /\ granted \in RbacUserRole
  /\ cache \in [Kinds -> [Users -> CacheEntry]]
  /\ unsure \subseteq Users
  /\ orgs \in [Orgs -> Organization \cup {NoOrg}]
  /\ \A o, p \in Orgs : Exists(o) /\ Exists(p) /\ o # p => orgs[o].slug # orgs[p].slug
  /\ members \in OrganizationMember
  /\ founding \in [Orgs -> {"no", "saved", "failed", "done"}]
  /\ keys \in [Keys -> ApiKey]

\* "next request sees new permissions" (rbac/README.md): once a change of a user's roles
\* has invalidated the cache and no other is under way, an entry says what the store
\* says, unless a read was under way at the invalidation, or a change failed halfway.
PermissionsFresh ==
  \A u \in Users \ unsure :
    ~Changing(u) => \A k \in Kinds : cache[k][u] \subseteq {granted[u]}

\* Request c completes from one of the steps.
Saves(c, steps) == req[c].at \in steps /\ At(c, "idle")'

\* An organization whose create() completed keeps its owner as a member, an owner.  What is
\* deleted, an organization or a membership, comes back only by an addMember() or
\* because a request held the entity when it was deleted, and saved it; a revoked API key,
\* only by a restore(), never by a validate() that read it before.
RightsHold ==
  [][/\ \A o \in Orgs :
          /\ founding'[o] = "done" => members'[o][orgs'[o].ownerId] = "owner"
          /\ orgs[o].state = "deleted" /\ orgs'[o].state = "live" =>
               \E c \in Clients : Saves(c, {"renaming"}) /\ req[c].org = o /\ req[c].stale
          /\ \A u \in Users : members[o][u] = "absent" /\ members'[o][u] # "absent" =>
               \E c \in Clients : /\ Saves(c, {"adding", "owning", "changing"})
                                  /\ req[c].org = o /\ req[c].user = u
                                  /\ At(c, "changing") => req[c].stale
     /\ \A k \in Keys : keys[k].revoked /\ ~keys'[k].revoked => RestoreKey(k)]_vars

================================================================================
