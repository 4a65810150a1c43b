---------------------------- MODULE TenantAccess ----------------------------
(***************************************************************************)
(* Who a tenant's requests are made by, and what they may do: the part of  *)
(* the tenant middleware behind the connection (pkg/tenant), the users     *)
(* table, API keys and personal tokens (internal/admin, pkg/user), around  *)
(* the writers of the tenant's config, which only admins reach.            *)
(*                                                                         *)
(* A request is resolved with the config (TenantConfig's Resolve), then    *)
(* its user is looked up and, if need be, made, then its handler runs.     *)
(* What is kept of a request's identity is its groups: who it is, and that *)
(* it is, github.com/wisbric/core has checked before, outside this model.  *)
(***************************************************************************)
EXTENDS TenantConfig, FiniteSets, Functions

CONSTANTS
  People,      \* subjects of the OIDC provider
  Claims,      \* the sets of groups that identities carry
  ClaimRoles,  \* the roles that core makes out of a token when somebody logs in
  GroupConfig, \* GroupConfig[s]: the group mapping in settings s, Disabled if there is none
  Disabled,
  None,        \* NULL; nobody; no role
  MaxVisits    \* requests and logins in a behaviour

Mapping == [admin : SUBSET UNION Claims, editor : SUBSET UNION Claims, allowed : SUBSET UNION Claims]
Roles == {"admin", "editor", "viewer"} \cup ClaimRoles

ASSUME AccessAssumption ==
  /\ None \notin People \cup Roles
  /\ Disabled \notin Mapping
  /\ GroupConfig \in [Values \cup {Unset} -> Mapping \cup {Disabled}]
  /\ MaxVisits \in Nat

VARIABLES
  users,   \* users[p]: the role in the row of p, if there is one
  keys,    \* rows of api_keys; those with an owner are personal tokens
  visits,  \* visits[r]: how far the middleware is with request r
  granted, \* history variable: the roles that a login or the mapping of groups gave to whom
  left     \* what is left of MaxVisits

avars == <<config, requests, agreed, lost, users, keys, visits, granted, left>>

Out == [pc |-> "out"]
\* Only a request with a key is nobody's, and it is served at once.
Visit ==
  [pc : {"login", "lookup", "upsert", "served", "denied"}, who : People,
   groups : Claims \cup {{}}, role : Roles \cup {None}]
  \cup [pc : {"served"}, who : {None}, groups : {{}}, role : Roles]
Key == [owner : People \cup {None}, role : Roles]

AccessTypeOK ==
  /\ DOMAIN users \subseteq People /\ \A p \in DOMAIN users : users[p] \in Roles
  /\ DOMAIN keys \subseteq Nat /\ IsFiniteSet(DOMAIN keys) /\ \A k \in DOMAIN keys : keys[k] \in Key
  /\ visits \in [Requests -> {Out} \cup Visit]
  /\ granted \subseteq People \X Roles
  /\ left \in 0 .. MaxVisits

\* Nobody has been here, and there is the API key of the seed, an admin's.
AccessInit ==
  /\ Init
  /\ users = << >>
  /\ keys = [k \in {0} |-> [owner |-> None, role |-> "admin"]]
  /\ visits = [r \in Requests |-> Out]
  /\ granted = {}
  /\ left = MaxVisits

-----------------------------------------------------------------------------
(* Roles *)

\* The role of somebody in these groups; None: not to be let in.
MapGroupsToRole(groups, mapping) ==
  CASE groups \cap mapping.admin # {} -> "admin"
    [] groups \cap mapping.admin = {} /\ groups \cap mapping.editor # {} -> "editor"
    [] OTHER -> IF mapping.allowed = {} \/ groups \cap mapping.allowed # {} THEN "viewer" ELSE None

\* The role to provision: without groups, or without a mapping of them, editor.
ProvisionRole(groups, settings) ==
  IF groups # {} /\ GroupConfig[settings] # Disabled
    THEN MapGroupsToRole(groups, GroupConfig[settings])
    ELSE "editor"

\* The role a request has, given the one in its user's row.
RoleOf(visit, row) == IF visit.groups # {} THEN visit.role ELSE row

\* Mutant: the role is replaced as well.
UpsertUserReplaces(p, role) == [q \in DOMAIN users \cup {p} |-> IF q = p THEN role ELSE users[q]]

\* INSERT ... ON CONFLICT (external_id) DO UPDATE, of the name and the e-mail address: a role
\* that is there stays.
UpsertUser(p, role) == [q \in DOMAIN users \cup {p} |-> IF q \in DOMAIN users THEN users[q] ELSE role]

-----------------------------------------------------------------------------
(* The middleware *)

Goes(r, visit) == visits' = [visits EXCEPT ![r] = visit]

\* To the handler, under this role.
Serve(visit, role) == [pc |-> "served", who |-> visit.who, groups |-> visit.groups, role |-> role]

\* A request of p arrives, and gets as far as a role to provision.
PersonEnters(r) ==
  /\ visits[r] = Out /\ left > 0 /\ left' = left - 1
  /\ Resolve(r)
  /\ \E p \in People, groups \in Claims :
       LET role == ProvisionRole(groups, config["settings"]) IN
       /\ Goes(r, [pc |-> IF role = None THEN "denied" ELSE "lookup",
                   who |-> p, groups |-> groups, role |-> role])
       /\ granted' = granted \cup (IF role = None THEN {} ELSE {<<p, role>>})
  /\ UNCHANGED <<users, keys>>

\* A request with an API key or a personal token has the role of its row, and no user.
KeyEnters(r) ==
  /\ visits[r] = Out /\ left > 0 /\ left' = left - 1
  /\ Resolve(r)
  /\ \E k \in DOMAIN keys :
       Goes(r, [pc |-> "served", who |-> None, groups |-> {}, role |-> keys[k].role])
  /\ UNCHANGED <<users, keys, granted>>

\* GetUserByExternalID: the row, or an error, whatever it is.
Lookup(r) ==
  LET v == visits[r] IN
  /\ v.pc = "lookup"
  /\ \/ v.who \in DOMAIN users /\ Goes(r, Serve(v, RoleOf(v, users[v.who])))
     \/ Goes(r, [v EXCEPT !.pc = "upsert"])
  /\ UNCHANGED <<config, requests, agreed, lost, users, keys, granted, left>>

Upsert(r) ==
  LET v == visits[r] IN
  /\ v.pc = "upsert"
  /\ users' = UpsertUser(v.who, v.role)
  /\ Goes(r, Serve(v, RoleOf(v, UpsertUser(v.who, v.role)[v.who])))
  /\ UNCHANGED <<config, requests, agreed, lost, keys, granted, left>>

\* FindOrCreateOIDCUser, for the callback of a login, when it finds no row or fails to look.
LoginLookup(r) ==
  /\ visits[r] = Out /\ requests[r] = Idle /\ left > 0 /\ left' = left - 1
  /\ \E p \in People, role \in ClaimRoles :
       /\ Goes(r, [pc |-> "login", who |-> p, groups |-> {}, role |-> role])
       /\ granted' = granted \cup {<<p, role>>}
  /\ UNCHANGED <<config, requests, agreed, lost, users, keys>>

LoginUpsert(r) ==
  /\ visits[r].pc = "login"
  /\ users' = UpsertUser(visits[r].who, visits[r].role)
  /\ Goes(r, Out)
  /\ UNCHANGED <<config, requests, agreed, lost, keys, granted, left>>

-----------------------------------------------------------------------------
(* The handlers *)

Served(r) == visits[r].pc = "served"
Admin(r) == Served(r) /\ visits[r].role = "admin"

\* Behind requireAdmin: the three writers of TenantConfig.
AdminWrites(r) ==
  /\ Admin(r)
  /\ UpdateConfig(r) \/ UpdateOIDCConfig(r) \/ TestOIDCConfig(r)
  /\ Goes(r, Out)
  /\ UNCHANGED <<users, keys, granted, left>>

NewKey(row) ==
  LET k == CHOOSE n \in 0 .. Cardinality(DOMAIN keys) : n \notin DOMAIN keys
  IN [j \in DOMAIN keys \cup {k} |-> IF j = k THEN row ELSE keys[j]]

\* The request ends, and leaves these keys behind.
LeavesKeys(r, rows) ==
  /\ End(r)
  /\ keys' = rows
  /\ Goes(r, Out)
  /\ UNCHANGED <<users, granted, left>>

\* Any role: the admin says which.
CreateAPIKey(r) == Admin(r) /\ \E role \in Roles : LeavesKeys(r, NewKey([owner |-> None, role |-> role]))

\* Any key of the tenant, personal tokens as well.
DeleteAPIKey(r) == Admin(r) /\ \E k \in DOMAIN keys : LeavesKeys(r, Restrict(keys, DOMAIN keys \ {k}))

\* Mutant: an admin's token, as CreateAPIKey makes them when no role is given.
CreateTokenOfAdmin(r) ==
  /\ Served(r) /\ visits[r].who # None
  /\ LeavesKeys(r, NewKey([owner |-> visits[r].who, role |-> "admin"]))

\* With the role that the request has; it stays, whatever becomes of its owner's.
CreateToken(r) ==
  /\ Served(r) /\ visits[r].who # None
  /\ LeavesKeys(r, NewKey([owner |-> visits[r].who, role |-> visits[r].role]))

\* A token of one's own.
RevokeToken(r) ==
  /\ Served(r) /\ visits[r].who # None
  /\ \E k \in DOMAIN keys :
       keys[k].owner = visits[r].who /\ LeavesKeys(r, Restrict(keys, DOMAIN keys \ {k}))

\* Another handler, a 403, an error or a restart.
Leaves(r) == LeavesKeys(r, keys)

\* A restart during a login.
LoginEnds(r) ==
  /\ visits[r].pc = "login"
  /\ Goes(r, Out)
  /\ UNCHANGED <<config, requests, agreed, lost, users, keys, granted, left>>

-----------------------------------------------------------------------------
(* Specification *)

TokenStep(r) == CreateAPIKey(r) \/ DeleteAPIKey(r) \/ CreateToken(r) \/ RevokeToken(r)

AccessNext ==
  \E r \in Requests :
    \/ PersonEnters(r) \/ KeyEnters(r) \/ Lookup(r) \/ Upsert(r)
    \/ LoginLookup(r) \/ LoginUpsert(r) \/ LoginEnds(r)
    \/ AdminWrites(r) \/ TokenStep(r) \/ Leaves(r)

AccessSpec == AccessInit /\ [][AccessNext]_avars

-----------------------------------------------------------------------------
(* Properties *)

\* "BookOwl maps Keycloak group membership to internal roles" (docs/11, sections 2.1 and 4.4):
\* whoever logs in, is provisioned or changes the mapping at the same time, a request that is
\* served has the role that the mapping gives its groups in the settings as they are, unless
\* these were written since it arrived; and one without groups has the role of its user's row,
\* of which there is then one for good.  Nothing is said of groups where the settings map none.
RolesFollowConfig ==
  \A r \in Requests : Served(r) /\ visits[r].who # None =>
    LET v == visits[r]
        mapping == GroupConfig[config["settings"]] IN
    /\ v.who \in DOMAIN users
    /\ v.groups = {} => v.role = users[v.who]
    /\ v.groups # {} /\ mapping # Disabled /\ requests[r].config["settings"] = config["settings"] =>
         v.role = MapGroupsToRole(v.groups, mapping) /\ v.role # None

\* No row of users and no personal token has a role that its owner was not once given by a
\* login or by the mapping of his groups, whatever races, fails or is retried: being an admin
\* takes an admin group, or a key that an admin made.
RolesWereGranted ==
  /\ \A p \in DOMAIN users : <<p, users[p]>> \in granted
  /\ \A k \in DOMAIN keys : keys[k].owner # None => <<keys[k].owner, keys[k].role>> \in granted

\* What they rest on: so are the roles under way, and between its arrival and its handler a
\* request has the role of its groups in the settings it was resolved with, or its user's.
VisitsGranted ==
  \A r \in Requests : visits[r] # Out /\ visits[r].who # None /\ visits[r].pc # "denied" =>
    <<visits[r].who, visits[r].role>> \in granted

RolesAsResolved ==
  \A r \in Requests : visits[r].pc \in {"lookup", "upsert", "served"} /\ visits[r].who # None =>
    LET v == visits[r] IN
    /\ v.pc # "served" \/ v.groups # {} =>
         v.role = ProvisionRole(v.groups, requests[r].config["settings"])
    /\ v.pc = "served" => v.who \in DOMAIN users /\ (v.groups = {} => v.role = users[v.who])

\* The middleware is at work on the requests that have a config.
VisitsHaveConfigs ==
  \A r \in Requests : requests[r] = Idle <=> visits[r] = Out \/ visits[r].pc = "login"

\* The inductive invariant.
AccessInv ==
  /\ ConfigInv
  /\ AccessTypeOK
  /\ VisitsHaveConfigs
  /\ VisitsGranted
  /\ RolesWereGranted
  /\ RolesAsResolved
=============================================================================
