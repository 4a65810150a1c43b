------------------------- MODULE TenantAccessProofs -------------------------
(***************************************************************************)
(* Theorems about TenantAccess, for any people, claims, group mappings,    *)
(* keys and number of requests, and about TenantConfig, for any values.    *)
(* What the first say of the config rests on the second: a step of         *)
(* TenantAccess is one of TenantConfig, or leaves the config and its       *)
(* requests alone.                                                         *)
(***************************************************************************)
EXTENDS TenantAccess, FiniteSetTheorems, TLAPS

-----------------------------------------------------------------------------
(* The config column.  All that is said of it rests on ConfigInv, which is *)
(* inductive.                                                              *)

\* The three handlers write the merge of a change with the config their request was
\* resolved with, and a change sets fields to values.
LEMMA HandlersMerge ==
  ASSUME NEW r \in Requests, UpdateConfig(r) \/ UpdateOIDCConfig(r) \/ TestOIDCConfig(r)
  PROVE  \E set \in SUBSET Fields : \E change \in [set -> Values] :
           Write(r, change, Merge(requests[r].config, change))
  <1>1. CASE UpdateConfig(r)
    BY <1>1 DEF UpdateConfig, Fields
  <1>2. CASE UpdateOIDCConfig(r)
    <2>1. \A set \in {{"settings"}, {"settings", "client_secret"}} : set \in SUBSET Fields
      BY DEF Fields, OIDCFields
    <2> QED BY <1>2, <2>1 DEF UpdateOIDCConfig
  <1>3. CASE TestOIDCConfig(r)
    <2>1. {"last_test"} \in SUBSET Fields
      BY DEF Fields, OIDCFields
    <2> QED BY <1>3, <2>1 DEF TestOIDCConfig
  <1> QED BY <1>1, <1>2, <1>3

\* A merge is a config again, with the change where it sets something.
LEMMA MergeType ==
  ASSUME NEW c \in Config, NEW set \in SUBSET Fields, NEW change \in [set -> Values]
  PROVE  /\ Merge(c, change) \in Config
         /\ \A f \in set : Merge(c, change)[f] = change[f]
         /\ \A f \in Fields \ set : Merge(c, change)[f] = c[f]
  BY DEF Merge, Config

\* A request under way is a record of TypeOK.
LEMMA ResolvedType ==
  ASSUME TypeOK, NEW r \in Requests, requests[r] # Idle
  PROVE  requests[r] \in Resolved
  BY DEF TypeOK

\* A write keeps ConfigInv.
LEMMA WriteKeepsInv ==
  ASSUME ConfigInv, NEW r \in Requests, NEW set \in SUBSET Fields,
         NEW change \in [set -> Values], Write(r, change, Merge(requests[r].config, change))
  PROVE  ConfigInv'
  <1> DEFINE base == requests[r].config
             news == requests[r].news
  <1>1. requests[r] \in Resolved /\ requests[r] # Idle /\ TypeOK
    BY DEF ConfigInv, Write, Idle, TypeOK
  <1>2. base \in Config /\ news \in SUBSET Fields /\ agreed \in Config /\ lost \in SUBSET Fields
    BY <1>1 DEF Resolved, TypeOK
  <1>3. /\ config' = Merge(base, change)
        /\ agreed' = Merge(agreed, change)
        /\ lost' = (lost \cup news) \ set
    BY DEF Write
  <1>4. \A q \in Requests : requests'[q] =
          IF q = r \/ requests[q] = Idle THEN Idle
            ELSE [requests[q] EXCEPT !.news = @ \cup set]
    BY DEF Write
  <1>5. \A q \in Requests \ {r} : requests[q] # Idle =>
          /\ requests'[q] \in Resolved
          /\ requests'[q].config = requests[q].config
          /\ requests'[q].news = requests[q].news \cup set
    <2> SUFFICES ASSUME NEW q \in Requests \ {r}, requests[q] # Idle
                 PROVE  /\ requests'[q] \in Resolved
                        /\ requests'[q].config = requests[q].config
                        /\ requests'[q].news = requests[q].news \cup set
      OBVIOUS
    <2>1. requests'[q] = [requests[q] EXCEPT !.news = @ \cup set]
      BY <1>4
    <2>2. requests[q] \in Resolved
      BY <1>1, ResolvedType
    <2> QED BY <2>1, <2>2 DEF Resolved
  <1>6. TypeOK'
    <2>1. config' \in Config /\ agreed' \in Config /\ lost' \subseteq Fields
      BY <1>2, <1>3, MergeType
    <2>2. requests' \in [Requests -> {Idle} \cup Resolved]
      BY <1>4, <1>5 DEF Write
    <2> QED BY <2>1, <2>2 DEF TypeOK
  <1>7. OnlyOverlapLoses'
    <2> SUFFICES ASSUME NEW f \in Fields, f \notin lost' PROVE config'[f] = agreed'[f]
      BY DEF OnlyOverlapLoses
    <2>1. CASE f \in set
      BY <2>1, <1>2, <1>3, MergeType
    <2>2. CASE f \notin set
      <3>1. base[f] = agreed[f]
        BY <2>2, <1>1, <1>3 DEF ConfigInv, NewsComplete
      <3> QED BY <2>2, <3>1, <1>2, <1>3, MergeType
    <2> QED BY <2>1, <2>2
  <1>8. NewsComplete'
    <2> SUFFICES ASSUME NEW q \in Requests, requests'[q] # Idle,
                        NEW f \in Fields, f \notin requests'[q].news, f \notin lost'
                 PROVE  requests'[q].config[f] = agreed'[f]
      BY DEF NewsComplete
    <2>1. q # r /\ requests[q] # Idle
      BY <1>4
    <2>2. f \notin requests[q].news /\ f \notin set /\ f \notin lost
      BY <2>1, <1>3, <1>5
    <2>3. requests[q].config[f] = agreed[f]
      BY <2>1, <2>2 DEF ConfigInv, NewsComplete
    <2> QED BY <2>1, <2>2, <2>3, <1>2, <1>3, <1>5, MergeType
  <1> QED BY <1>6, <1>7, <1>8 DEF ConfigInv

\* ConfigInv is an invariant: what a request may undo is in its news or lost already.
THEOREM ConfigInvariant == Spec => []ConfigInv
<1>1. Init => ConfigInv
  BY DEF Init, ConfigInv, TypeOK, OnlyOverlapLoses, NewsComplete, Config, Idle
<1>2. ConfigInv /\ [Next]_tvars => ConfigInv'
  <2> SUFFICES ASSUME ConfigInv, [Next]_tvars PROVE ConfigInv'
    OBVIOUS
  <2>1. ASSUME NEW r \in Requests, Resolve(r) PROVE ConfigInv'
    <3>1. TypeOK' /\ OnlyOverlapLoses'
      BY <2>1 DEF ConfigInv, Resolve, TypeOK, Resolved, OnlyOverlapLoses
    <3>2. NewsComplete'
      BY <2>1 DEF ConfigInv, Resolve, TypeOK, OnlyOverlapLoses, NewsComplete
    <3> QED BY <3>1, <3>2 DEF ConfigInv
  <2>2. ASSUME NEW r \in Requests, UpdateConfig(r) \/ UpdateOIDCConfig(r) \/ TestOIDCConfig(r)
        PROVE  ConfigInv'
    BY <2>2, HandlersMerge, WriteKeepsInv
  <2>3. ASSUME NEW r \in Requests, End(r) PROVE ConfigInv'
    BY <2>3 DEF ConfigInv, End, TypeOK, OnlyOverlapLoses, NewsComplete
  <2>4. CASE UNCHANGED tvars
    BY <2>4 DEF tvars, ConfigInv, TypeOK, OnlyOverlapLoses, NewsComplete
  <2> QED BY <2>1, <2>2, <2>3, <2>4 DEF Next
<1> QED BY <1>1, <1>2, PTL DEF Spec

\* Only requests that overlap lose what an admin has set.
THEOREM ChangesSurvive == Spec => []OnlyOverlapLoses
<1>1. ConfigInv => OnlyOverlapLoses
  BY DEF ConfigInv
<1> QED BY <1>1, ConfigInvariant, PTL

-----------------------------------------------------------------------------
(* Users, keys and requests *)

\* Every step is one of TenantConfig or a stutter of it.
LEMMA StepOfConfig ==
  ASSUME [AccessNext]_avars
  PROVE  [Next]_tvars
  <1>1. ASSUME NEW r \in Requests, PersonEnters(r) \/ KeyEnters(r) PROVE Next
    BY <1>1 DEF PersonEnters, KeyEnters, Next
  <1>2. ASSUME NEW r \in Requests,
               Lookup(r) \/ Upsert(r) \/ LoginLookup(r) \/ LoginUpsert(r) \/ LoginEnds(r)
        PROVE  UNCHANGED tvars
    BY <1>2 DEF Lookup, Upsert, LoginLookup, LoginUpsert, LoginEnds, tvars
  <1>3. ASSUME NEW r \in Requests, AdminWrites(r) PROVE Next
    BY <1>3 DEF AdminWrites, Next
  <1>4. ASSUME NEW r \in Requests, TokenStep(r) \/ Leaves(r) PROVE End(r)
    BY <1>4 DEF TokenStep, Leaves, CreateAPIKey, DeleteAPIKey, CreateToken, RevokeToken, LeavesKeys
  <1>5. CASE UNCHANGED avars
    BY <1>5 DEF avars, tvars
  <1> QED BY <1>1, <1>2, <1>3, <1>4, <1>5 DEF AccessNext, Next

\* The invariant of TenantConfig holds of it as well.
THEOREM ConfigKept == AccessSpec => []ConfigInv
<1>1. AccessInit => Init
  BY DEF AccessInit
<1> QED BY <1>1, StepOfConfig, ConfigInvariant, PTL DEF AccessSpec, Spec

-----------------------------------------------------------------------------
(* What the operators leave *)

\* The mapping of groups gives a role, or None.
LEMMA RoleType ==
  ASSUME NEW groups, NEW settings \in Values \cup {Unset}
  PROVE  ProvisionRole(groups, settings) \in Roles \cup {None}
  BY DEF ProvisionRole, MapGroupsToRole, Roles

\* An upsert leaves every row that is there alone.
LEMMA UpsertType ==
  ASSUME NEW p, NEW role, users' = UpsertUser(p, role)
  PROVE  /\ DOMAIN users' = DOMAIN users \cup {p}
         /\ \A q \in DOMAIN users : users'[q] = users[q]
         /\ p \notin DOMAIN users => users'[p] = role
  BY DEF UpsertUser

\* A new key has an id of its own, and leaves the others alone.
LEMMA NewKeyType ==
  ASSUME AccessTypeOK, NEW row \in Key
  PROVE  \E k \in Nat \ DOMAIN keys :
           /\ DOMAIN NewKey(row) = DOMAIN keys \cup {k}
           /\ NewKey(row)[k] = row
           /\ \A j \in DOMAIN keys : NewKey(row)[j] = keys[j]
<1> DEFINE c == Cardinality(DOMAIN keys)
           k == CHOOSE n \in 0 .. c : n \notin DOMAIN keys
<1>1. IsFiniteSet(DOMAIN keys) /\ c \in Nat
  BY FS_CardinalityType DEF AccessTypeOK
<1>2. \E n \in 0 .. c : n \notin DOMAIN keys
  <2> SUFFICES ASSUME 0 .. c \subseteq DOMAIN keys PROVE FALSE
    OBVIOUS
  <2>1. Cardinality(0 .. c) <= c
    BY <1>1, FS_Subset
  <2>2. Cardinality(0 .. c) = c + 1
    BY <1>1, FS_Interval
  <2> QED BY <1>1, <2>1, <2>2
<1>3. k \in 0 .. c /\ k \notin DOMAIN keys
  BY <1>2
<1>4. k \in Nat \ DOMAIN keys
  BY <1>1, <1>3
<1>5. NewKey(row) = [j \in DOMAIN keys \cup {k} |-> IF j = k THEN row ELSE keys[j]]
  BY DEF NewKey
<1> HIDE DEF k
<1> QED BY <1>3, <1>4, <1>5

\* A visit goes on, and the others stay where they are.
LEMMA GoesType ==
  ASSUME AccessTypeOK, NEW r \in Requests, NEW visit \in {Out} \cup Visit, Goes(r, visit)
  PROVE  /\ visits' \in [Requests -> {Out} \cup Visit]
         /\ visits'[r] = visit
         /\ \A q \in Requests \ {r} : visits'[q] = visits[q]
  BY DEF AccessTypeOK, Goes

\* Whatever a request does, the others stay as they were resolved.
LEMMA OthersResolved ==
  ASSUME ConfigInv, NEW r \in Requests,
         Resolve(r) \/ UpdateConfig(r) \/ UpdateOIDCConfig(r) \/ TestOIDCConfig(r) \/ End(r)
  PROVE  \A q \in Requests \ {r} :
           /\ requests'[q] = Idle <=> requests[q] = Idle
           /\ requests[q] # Idle => requests'[q].config = requests[q].config
<1>1. requests \in [Requests -> {Idle} \cup Resolved]
  BY DEF ConfigInv, TypeOK
<1>2. CASE Resolve(r) \/ End(r)
  BY <1>1, <1>2 DEF Resolve, End
<1>3. CASE UpdateConfig(r) \/ UpdateOIDCConfig(r) \/ TestOIDCConfig(r)
  <2>1. PICK change : Write(r, change, Merge(requests[r].config, change))
    BY <1>3, HandlersMerge
  <2> SUFFICES ASSUME NEW q \in Requests \ {r}
               PROVE  /\ requests'[q] = Idle <=> requests[q] = Idle
                      /\ requests[q] # Idle => requests'[q].config = requests[q].config
    OBVIOUS
  <2>2. requests'[q] = IF requests[q] = Idle THEN Idle
                       ELSE [requests[q] EXCEPT !.news = @ \cup DOMAIN change]
    BY <2>1 DEF Write
  <2>3. CASE requests[q] = Idle
    BY <2>2, <2>3
  <2>4. CASE requests[q] # Idle
    <3>1. requests[q] \in Resolved
      BY <1>1, <2>4
    <3> QED BY <2>2, <2>4, <3>1 DEF Resolved, Idle
  <2> QED BY <2>3, <2>4
<1> QED BY <1>2, <1>3

-----------------------------------------------------------------------------
(* The invariant *)

\* What r's visit has to meet.
Sound(visit, request) ==
  /\ request = Idle <=> visit = Out \/ visit.pc = "login"
  /\ visit # Out /\ visit.who # None /\ visit.pc # "denied" => <<visit.who, visit.role>> \in granted
  /\ visit.pc \in {"lookup", "upsert", "served"} /\ visit.who # None =>
       /\ visit.pc # "served" \/ visit.groups # {} =>
            visit.role = ProvisionRole(visit.groups, request.config["settings"])
       /\ visit.pc = "served" =>
            visit.who \in DOMAIN users /\ (visit.groups = {} => visit.role = users[visit.who])

\* The conjuncts of AccessInv that are about the visits one by one.
LEMMA VisitsSound ==
  VisitsHaveConfigs /\ VisitsGranted /\ RolesAsResolved
    <=> \A r \in Requests : Sound(visits[r], requests[r])
  BY DEF VisitsHaveConfigs, VisitsGranted, RolesAsResolved, Sound

\* When r's visit goes on, and rows and grants stay, it is only r's visit to look at.
LEMMA VisitKeepsInv ==
  ASSUME AccessInv, NEW r \in Requests, NEW visit \in {Out} \cup Visit, Goes(r, visit),
         \A q \in Requests \ {r} :
           /\ requests'[q] = Idle <=> requests[q] = Idle
           /\ requests[q] # Idle => requests'[q].config = requests[q].config,
         \A p \in DOMAIN users : p \in DOMAIN users' /\ users'[p] = users[p],
         granted \subseteq granted',
         Sound(visit, requests[r])'
  PROVE  VisitsHaveConfigs' /\ VisitsGranted' /\ RolesAsResolved'
<1>1. \A q \in Requests : Sound(visits[q], requests[q])
  BY VisitsSound DEF AccessInv
<1>2. visits'[r] = visit /\ \A q \in Requests \ {r} : visits'[q] = visits[q]
  BY GoesType DEF AccessInv
<1>3. ASSUME NEW q \in Requests \ {r} PROVE Sound(visits[q], requests[q])'
  <2>1. visits'[q] = visits[q]
    BY <1>2
  <2>2. Sound(visits[q], requests[q])
    BY <1>1
  <2>3. visits[q] # Out /\ visits[q].pc # "login" => requests'[q].config = requests[q].config
    BY <2>2 DEF Sound
  <2> QED BY <2>1, <2>2, <2>3 DEF Sound, Out
<1>4. Sound(visits[r], requests[r])'
  BY <1>2 DEF Sound
<1>5. \A q \in Requests : Sound(visits[q], requests[q])'
  BY <1>3, <1>4
<1> QED BY <1>5 DEF Sound, VisitsHaveConfigs, VisitsGranted, RolesAsResolved

\* What the keys have to meet.
SoundKeys(rows) ==
  /\ DOMAIN rows \subseteq Nat /\ IsFiniteSet(DOMAIN rows)
  /\ \A k \in DOMAIN rows :
       /\ rows[k] \in Key
       /\ rows[k].owner # None => <<rows[k].owner, rows[k].role>> \in granted

\* The keys of AccessInv do.
LEMMA KeysSound == AccessInv => SoundKeys(keys)
  BY DEF AccessInv, AccessTypeOK, RolesWereGranted, SoundKeys

\* So do they with a new one of a role that its owner was given.
LEMMA NewKeySound ==
  ASSUME AccessInv, NEW row \in Key, row.owner # None => <<row.owner, row.role>> \in granted
  PROVE  SoundKeys(NewKey(row))
<1>1. SoundKeys(keys) /\ AccessTypeOK
  BY KeysSound DEF AccessInv
<1>2. PICK k \in Nat \ DOMAIN keys :
        /\ DOMAIN NewKey(row) = DOMAIN keys \cup {k}
        /\ NewKey(row)[k] = row
        /\ \A j \in DOMAIN keys : NewKey(row)[j] = keys[j]
  BY <1>1, NewKeyType
<1>3. IsFiniteSet(DOMAIN keys \cup {k})
  BY <1>1, FS_AddElement DEF SoundKeys
<1> QED BY <1>1, <1>2, <1>3 DEF SoundKeys

\* AccessInv without what ConfigKept says.
Accessible ==
  AccessTypeOK /\ VisitsHaveConfigs /\ VisitsGranted /\ RolesWereGranted /\ RolesAsResolved

\* A request arrives, with a role that its groups give it, or with a key's.
LEMMA EnterKeepsInv ==
  ASSUME AccessInv, NEW r \in Requests, PersonEnters(r) \/ KeyEnters(r)
  PROVE  Accessible'
<1>1. /\ Resolve(r) /\ visits[r] = Out /\ left' = left - 1 /\ left > 0
      /\ UNCHANGED <<users, keys>>
  BY DEF PersonEnters, KeyEnters
<1>2. /\ requests'[r].config = config /\ requests'[r] # Idle
      /\ config["settings"] \in Values \cup {Unset}
  BY <1>1 DEF AccessInv, ConfigInv, TypeOK, Resolve, Idle, Config, Fields, OIDCFields
<1>3. left' \in 0 .. MaxVisits
  BY <1>1, AccessAssumption DEF AccessInv, AccessTypeOK
<1>4. \A q \in Requests \ {r} :
        /\ requests'[q] = Idle <=> requests[q] = Idle
        /\ requests[q] # Idle => requests'[q].config = requests[q].config
  BY <1>1, OthersResolved DEF AccessInv
<1>5. CASE PersonEnters(r)
  <2>1. PICK p \in People, groups \in Claims :
          LET role == ProvisionRole(groups, config["settings"]) IN
          /\ Goes(r, [pc |-> IF role = None THEN "denied" ELSE "lookup",
                      who |-> p, groups |-> groups, role |-> role])
          /\ granted' = granted \cup (IF role = None THEN {} ELSE {<<p, role>>})
    BY <1>5 DEF PersonEnters
  <2>2. PICK role \in Roles \cup {None} : role = ProvisionRole(groups, config["settings"])
    BY <1>2, RoleType
  <2> PICK pc \in {"denied", "lookup"} : pc = IF role = None THEN "denied" ELSE "lookup"
    OBVIOUS
  <2>3. PICK visit \in Visit : visit = [pc |-> pc, who |-> p, groups |-> groups, role |-> role]
    BY DEF Visit
  <2>4. /\ granted \subseteq granted' /\ granted' \subseteq People \X Roles
        /\ role # None => <<p, role>> \in granted'
    BY <2>1, <2>2 DEF AccessInv, AccessTypeOK
  <2>5. Sound(visit, requests[r])'
    BY <1>2, <2>2, <2>3, <2>4 DEF Sound, Out
  <2>6. Goes(r, visit)
    BY <2>1, <2>2, <2>3
  <2>7. AccessTypeOK'
    BY <1>1, <1>3, <2>4, <2>6, GoesType DEF AccessInv, AccessTypeOK
  <2>8. RolesWereGranted'
    BY <1>1, <2>4 DEF AccessInv, RolesWereGranted
  <2> QED BY <1>1, <1>4, <2>4, <2>5, <2>6, <2>7, <2>8, VisitKeepsInv DEF Accessible
<1>6. CASE KeyEnters(r)
  <2>1. PICK k \in DOMAIN keys :
          Goes(r, [pc |-> "served", who |-> None, groups |-> {}, role |-> keys[k].role])
    BY <1>6 DEF KeyEnters
  <2>2. granted' = granted
    BY <1>6 DEF KeyEnters
  <2>3. PICK visit \in Visit :
          visit = [pc |-> "served", who |-> None, groups |-> {}, role |-> keys[k].role]
    BY DEF Visit, AccessInv, AccessTypeOK, Key
  <2>4. Sound(visit, requests[r])'
    BY <1>2, <2>3 DEF Sound, Out
  <2>5. AccessTypeOK'
    BY <1>1, <1>3, <2>1, <2>2, <2>3, GoesType DEF AccessInv, AccessTypeOK
  <2>6. RolesWereGranted'
    BY <1>1, <2>2 DEF AccessInv, RolesWereGranted
  <2> QED BY <1>1, <1>4, <2>1, <2>2, <2>3, <2>4, <2>5, <2>6, VisitKeepsInv DEF Accessible
<1> QED BY <1>5, <1>6

\* A visit that is on its way to its user's row.
LEMMA UnderWay ==
  ASSUME AccessInv, NEW r \in Requests, visits[r].pc \in {"lookup", "upsert"}
  PROVE  /\ visits[r] \in [pc : {"lookup", "upsert"}, who : People, groups : Claims \cup {{}},
                           role : Roles \cup {None}]
         /\ visits[r].who # None /\ visits[r] # Out /\ requests[r] # Idle
         /\ <<visits[r].who, visits[r].role>> \in granted /\ visits[r].role \in Roles
         /\ visits[r].role = ProvisionRole(visits[r].groups, requests[r].config["settings"])
<1>1. visits[r] \in Visit /\ visits[r] # Out
  BY DEF AccessInv, AccessTypeOK, Out
<1>2. visits[r] \in [pc : {"lookup", "upsert"}, who : People, groups : Claims \cup {{}},
                    role : Roles \cup {None}]
  BY <1>1 DEF Visit
<1>3. visits[r].who # None /\ visits[r].pc # "denied"
  BY <1>2, AccessAssumption
<1>4. <<visits[r].who, visits[r].role>> \in granted
  BY <1>1, <1>3 DEF AccessInv, VisitsGranted
<1>5. visits[r].role \in Roles
  BY <1>4 DEF AccessInv, AccessTypeOK
<1>6. requests[r] # Idle
  BY <1>1 DEF AccessInv, VisitsHaveConfigs
<1>7. visits[r].role = ProvisionRole(visits[r].groups, requests[r].config["settings"])
  BY <1>3 DEF AccessInv, RolesAsResolved
<1> QED BY <1>1, <1>2, <1>3, <1>4, <1>5, <1>6, <1>7

\* The middleware finds the row of a request's user.
LEMMA LookupKeepsInv ==
  ASSUME AccessInv, NEW r \in Requests, Lookup(r)
  PROVE  Accessible'
<1>1. /\ visits[r].pc = "lookup"
      /\ UNCHANGED <<requests, users, keys, granted, left>>
  BY DEF Lookup
<1>2. PICK v : v = visits[r]
  OBVIOUS
<1>3. /\ v \in [pc : {"lookup", "upsert"}, who : People, groups : Claims \cup {{}},
                role : Roles \cup {None}]
      /\ v.who # None /\ v # Out /\ requests[r] # Idle
      /\ <<v.who, v.role>> \in granted /\ v.role \in Roles
      /\ v.role = ProvisionRole(v.groups, requests[r].config["settings"])
  BY <1>1, <1>2, UnderWay
<1>4. ASSUME NEW visit \in Visit, Goes(r, visit), Sound(visit, requests[r])'
      PROVE  Accessible'
  <2>1. AccessTypeOK'
    BY <1>1, <1>4, GoesType DEF AccessInv, AccessTypeOK
  <2>2. RolesWereGranted'
    BY <1>1 DEF AccessInv, RolesWereGranted
  <2> QED BY <1>1, <1>4, <2>1, <2>2, VisitKeepsInv DEF Accessible
<1>5. CASE /\ v.who \in DOMAIN users
           /\ Goes(r, Serve(v, RoleOf(v, users[v.who])))
  <2>1. <<v.who, users[v.who]>> \in granted /\ users[v.who] \in Roles
    BY <1>5 DEF AccessInv, RolesWereGranted, AccessTypeOK
  <2>2. PICK role \in Roles : role = RoleOf(v, users[v.who])
    BY <1>3, <2>1 DEF RoleOf
  <2>3. PICK visit \in Visit :
          visit = [pc |-> "served", who |-> v.who, groups |-> v.groups, role |-> role]
    BY <1>3 DEF Visit
  <2>4. Serve(v, RoleOf(v, users[v.who])) = visit
    BY <2>2, <2>3 DEF Serve
  <2>5. Sound(visit, requests[r])'
    BY <1>1, <1>3, <1>5, <2>1, <2>2, <2>3 DEF Sound, Out, RoleOf
  <2> QED BY <1>4, <1>5, <2>4, <2>5
<1>6. CASE Goes(r, [v EXCEPT !.pc = "upsert"])
  <2>1. PICK visit \in Visit :
          visit = [pc |-> "upsert", who |-> v.who, groups |-> v.groups, role |-> v.role]
    BY <1>3 DEF Visit
  <2>2. [v EXCEPT !.pc = "upsert"] = visit
    BY <1>3, <2>1
  <2>3. Sound(visit, requests[r])'
    BY <1>1, <1>3, <2>1 DEF Sound, Out
  <2> QED BY <1>4, <1>6, <2>2, <2>3
<1> QED BY <1>2, <1>5, <1>6 DEF Lookup

\* It makes the row, or finds that another request has made it.
LEMMA UpsertKeepsInv ==
  ASSUME AccessInv, NEW r \in Requests, Upsert(r)
  PROVE  Accessible'
<1>1. /\ visits[r].pc = "upsert"
      /\ UNCHANGED <<requests, keys, granted, left>>
  BY DEF Upsert
<1>2. PICK v : v = visits[r]
  OBVIOUS
<1>3. /\ v \in [pc : {"lookup", "upsert"}, who : People, groups : Claims \cup {{}},
                role : Roles \cup {None}]
      /\ v.who # None /\ v # Out /\ requests[r] # Idle
      /\ <<v.who, v.role>> \in granted /\ v.role \in Roles
      /\ v.role = ProvisionRole(v.groups, requests[r].config["settings"])
  BY <1>1, <1>2, UnderWay
<1>4. users' = UpsertUser(v.who, v.role)
  BY <1>2 DEF Upsert
<1>5. /\ DOMAIN users' = DOMAIN users \cup {v.who}
      /\ \A q \in DOMAIN users : users'[q] = users[q]
      /\ v.who \notin DOMAIN users => users'[v.who] = v.role
  BY <1>4, UpsertType
<1>6. RolesWereGranted'
  BY <1>1, <1>3, <1>5 DEF AccessInv, RolesWereGranted
<1>7. DOMAIN users' \subseteq People /\ \A p \in DOMAIN users' : users'[p] \in Roles
  BY <1>3, <1>5 DEF AccessInv, AccessTypeOK
<1>8. v.who \in DOMAIN users' /\ <<v.who, users'[v.who]>> \in granted'
  BY <1>5, <1>6 DEF RolesWereGranted
<1>9. PICK role \in Roles : role = RoleOf(v, users'[v.who])
  BY <1>3, <1>7, <1>8 DEF RoleOf
<1>10. PICK visit \in Visit :
         visit = [pc |-> "served", who |-> v.who, groups |-> v.groups, role |-> role]
  BY <1>3 DEF Visit
<1>11. Goes(r, visit)
  <2>1. Serve(v, role) = visit
    BY <1>10 DEF Serve
  <2>2. Goes(r, Serve(v, RoleOf(v, UpsertUser(v.who, v.role)[v.who])))
    BY <1>2 DEF Upsert
  <2> QED BY <1>4, <1>9, <2>1, <2>2, Zenon
<1>12. Sound(visit, requests[r])'
  BY <1>1, <1>3, <1>8, <1>9, <1>10 DEF Sound, Out, RoleOf
<1>13. AccessTypeOK'
  BY <1>1, <1>7, <1>11, GoesType DEF AccessInv, AccessTypeOK
<1> QED BY <1>1, <1>5, <1>6, <1>11, <1>12, <1>13, VisitKeepsInv DEF Accessible

\* A login looks for the row of who logs in, then makes it, unless it is stopped in between.
LEMMA LoginKeepsInv ==
  ASSUME AccessInv, NEW r \in Requests, LoginLookup(r) \/ LoginUpsert(r) \/ LoginEnds(r)
  PROVE  Accessible'
<1>1. UNCHANGED <<requests, keys>>
  BY DEF LoginLookup, LoginUpsert, LoginEnds
<1>2. ASSUME LoginUpsert(r) \/ LoginEnds(r)
      PROVE  requests[r] = Idle /\ Goes(r, Out) /\ UNCHANGED <<granted, left>>
  BY <1>2 DEF LoginUpsert, LoginEnds, AccessInv, VisitsHaveConfigs
<1>3. Sound(Out, Idle)'
  BY DEF Sound, Out, Idle
<1>4. CASE LoginLookup(r)
  <2>1. PICK p \in People, role \in ClaimRoles :
          /\ Goes(r, [pc |-> "login", who |-> p, groups |-> {}, role |-> role])
          /\ granted' = granted \cup {<<p, role>>}
    BY <1>4 DEF LoginLookup
  <2>2. requests[r] = Idle /\ users' = users /\ left' \in 0 .. MaxVisits
    BY <1>4, AccessAssumption DEF LoginLookup, AccessInv, AccessTypeOK
  <2>3. PICK visit \in Visit :
          visit = [pc |-> "login", who |-> p, groups |-> {}, role |-> role]
    BY DEF Visit, Roles
  <2>4. Sound(visit, requests[r])'
    BY <1>1, <2>1, <2>2, <2>3 DEF Sound, Out
  <2>5. granted \subseteq granted' /\ granted' \subseteq People \X Roles
    BY <2>1 DEF AccessInv, AccessTypeOK, Roles
  <2>6. AccessTypeOK'
    BY <1>1, <2>1, <2>2, <2>3, <2>5, GoesType DEF AccessInv, AccessTypeOK
  <2>7. RolesWereGranted'
    BY <1>1, <2>2, <2>5 DEF AccessInv, RolesWereGranted
  <2> QED BY <1>1, <2>1, <2>2, <2>3, <2>4, <2>5, <2>6, <2>7, VisitKeepsInv DEF Accessible
<1>5. CASE LoginUpsert(r)
  <2>1. PICK v : v = visits[r]
    OBVIOUS
  <2>2. users' = UpsertUser(v.who, v.role)
    BY <1>5, <2>1 DEF LoginUpsert
  <2>3. v \in Visit /\ v.pc = "login" /\ v # Out
    BY <1>5, <2>1 DEF LoginUpsert, AccessInv, AccessTypeOK, Out
  <2>4. v.who \in People /\ v.who # None
    BY <2>3, AccessAssumption DEF Visit
  <2>5. <<v.who, v.role>> \in granted
    BY <2>1, <2>3, <2>4 DEF AccessInv, VisitsGranted
  <2>6. v.role \in Roles
    BY <2>5 DEF AccessInv, AccessTypeOK
  <2>7. /\ DOMAIN users' = DOMAIN users \cup {v.who}
        /\ \A q \in DOMAIN users : users'[q] = users[q]
        /\ v.who \notin DOMAIN users => users'[v.who] = v.role
    BY <2>2, UpsertType
  <2>8. AccessTypeOK'
    BY <1>1, <1>2, <1>5, <2>4, <2>6, <2>7, GoesType DEF AccessInv, AccessTypeOK
  <2>9. RolesWereGranted'
    BY <1>1, <1>2, <1>5, <2>5, <2>7 DEF AccessInv, RolesWereGranted
  <2>10. Sound(Out, requests[r])'
    BY <1>1, <1>2, <1>3, <1>5 DEF Sound
  <2> QED BY <1>1, <1>2, <1>5, <2>7, <2>8, <2>9, <2>10, VisitKeepsInv DEF Accessible
<1>6. CASE LoginEnds(r)
  <2>1. users' = users
    BY <1>6 DEF LoginEnds
  <2>2. AccessTypeOK' /\ RolesWereGranted'
    BY <1>1, <1>2, <1>6, <2>1, GoesType DEF AccessInv, AccessTypeOK, RolesWereGranted
  <2>3. Sound(Out, requests[r])'
    BY <1>1, <1>2, <1>3, <1>6 DEF Sound
  <2> QED BY <1>1, <1>2, <1>6, <2>1, <2>2, <2>3, VisitKeepsInv DEF Accessible
<1> QED BY <1>4, <1>5, <1>6

\* A request that is served leaves, having written the config or the keys.
LEMMA LeaveKeepsInv ==
  ASSUME AccessInv, NEW r \in Requests, AdminWrites(r) \/ TokenStep(r) \/ Leaves(r)
  PROVE  Accessible'
<1>1. Goes(r, Out) /\ requests'[r] = Idle /\ UNCHANGED <<users, granted, left>>
  <2>1. requests \in [Requests -> {Idle} \cup Resolved]
    BY DEF AccessInv, ConfigInv, TypeOK
  <2>2. CASE AdminWrites(r)
    <3>1. PICK change : Write(r, change, Merge(requests[r].config, change))
      BY <2>2, HandlersMerge DEF AdminWrites
    <3>2. requests'[r] = Idle
      BY <3>1 DEF Write
    <3> QED BY <2>2, <3>2 DEF AdminWrites
  <2>3. CASE TokenStep(r) \/ Leaves(r)
    <3>1. PICK rows : LeavesKeys(r, rows)
      BY <2>3 DEF TokenStep, CreateAPIKey, DeleteAPIKey, CreateToken, RevokeToken, Leaves
    <3> QED BY <2>1, <3>1 DEF LeavesKeys, End
  <2> QED BY <2>2, <2>3
<1>2. \A q \in Requests \ {r} :
        /\ requests'[q] = Idle <=> requests[q] = Idle
        /\ requests[q] # Idle => requests'[q].config = requests[q].config
  <2>1. UpdateConfig(r) \/ UpdateOIDCConfig(r) \/ TestOIDCConfig(r) \/ End(r)
    BY DEF AdminWrites, TokenStep, CreateAPIKey, DeleteAPIKey, CreateToken, RevokeToken, Leaves,
           LeavesKeys
  <2> QED BY <2>1, OthersResolved DEF AccessInv
<1>3. SoundKeys(keys)'
  <2>1. CASE AdminWrites(r) \/ Leaves(r)
    <3>1. keys' = keys
      BY <2>1 DEF AdminWrites, Leaves, LeavesKeys
    <3> QED BY <1>1, <3>1, KeysSound DEF SoundKeys
  <2>2. CASE CreateAPIKey(r)
    <3>1. PICK role \in Roles : keys' = NewKey([owner |-> None, role |-> role])
      BY <2>2 DEF CreateAPIKey, LeavesKeys
    <3>2. PICK row \in Key : row = [owner |-> None, role |-> role]
      BY DEF Key
    <3>3. SoundKeys(NewKey(row))
      BY <3>2, NewKeySound
    <3> QED BY <1>1, <3>1, <3>2, <3>3 DEF SoundKeys
  <2>3. CASE CreateToken(r)
    <3>1. PICK v : v = visits[r]
      OBVIOUS
    <3>2. v \in Visit /\ v.pc = "served" /\ v.who # None /\ v # Out
      BY <2>3, <3>1 DEF CreateToken, Served, AccessInv, AccessTypeOK, Out
    <3>3. <<v.who, v.role>> \in granted
      BY <3>1, <3>2 DEF AccessInv, VisitsGranted
    <3>4. v.role \in Roles /\ v.who \in People
      BY <3>3 DEF AccessInv, AccessTypeOK
    <3>5. PICK row \in Key : row = [owner |-> v.who, role |-> v.role]
      BY <3>4 DEF Key
    <3>6. keys' = NewKey(row)
      BY <2>3, <3>1, <3>5 DEF CreateToken, LeavesKeys
    <3>7. SoundKeys(NewKey(row))
      BY <3>3, <3>5, NewKeySound
    <3> QED BY <1>1, <3>6, <3>7 DEF SoundKeys
  <2>4. CASE DeleteAPIKey(r) \/ RevokeToken(r)
    <3>1. PICK k \in DOMAIN keys : keys' = Restrict(keys, DOMAIN keys \ {k})
      BY <2>4 DEF DeleteAPIKey, RevokeToken, LeavesKeys
    <3>2. /\ DOMAIN keys' = DOMAIN keys \ {k}
          /\ \A j \in DOMAIN keys' : keys'[j] = keys[j]
      BY <3>1 DEF Restrict
    <3>3. IsFiniteSet(DOMAIN keys')
      BY <3>2, FS_Subset, KeysSound DEF SoundKeys
    <3> QED BY <1>1, <3>2, <3>3, KeysSound DEF SoundKeys
  <2> QED BY <2>1, <2>2, <2>3, <2>4 DEF TokenStep
<1>4. AccessTypeOK' /\ RolesWereGranted'
  BY <1>1, <1>3, GoesType DEF SoundKeys, AccessInv, AccessTypeOK, RolesWereGranted
<1>5. Sound(Out, requests[r])'
  BY <1>1 DEF Sound, Out, Idle
<1> QED BY <1>1, <1>2, <1>4, <1>5, VisitKeepsInv DEF Accessible

-----------------------------------------------------------------------------
(* Theorems *)

\* AccessInv holds throughout, whatever requests, logins and changes of config overlap.
THEOREM AccessInvariant == AccessSpec => []AccessInv
<1>1. AccessInit => Accessible
  <2> SUFFICES ASSUME AccessInit PROVE Accessible
    OBVIOUS
  <2>1. AccessTypeOK
    <3>1. IsFiniteSet({0})
      BY FS_Singleton
    <3>2. [owner |-> None, role |-> "admin"] \in Key
      BY DEF Key, Roles
    <3> QED BY <3>1, <3>2, AccessAssumption DEF AccessInit, AccessTypeOK
  <2>2. \A r \in Requests : visits[r] = Out /\ requests[r] = Idle
    BY DEF AccessInit, Init
  <2>3. VisitsHaveConfigs /\ VisitsGranted /\ RolesAsResolved
    BY <2>2 DEF VisitsHaveConfigs, VisitsGranted, RolesAsResolved, Out
  <2>4. RolesWereGranted
    BY DEF AccessInit, RolesWereGranted
  <2> QED BY <2>1, <2>3, <2>4 DEF Accessible
<1>2. ConfigInv /\ Accessible /\ [AccessNext]_avars => Accessible'
  <2> SUFFICES ASSUME ConfigInv, Accessible, [AccessNext]_avars PROVE Accessible'
    OBVIOUS
  <2>1. AccessInv
    BY DEF Accessible, AccessInv
  <2>2. CASE AccessNext
    BY <2>1, <2>2, EnterKeepsInv, LookupKeepsInv, UpsertKeepsInv, LoginKeepsInv, LeaveKeepsInv
       DEF AccessNext
  <2>3. CASE UNCHANGED avars
    BY <2>3 DEF avars, Accessible, AccessTypeOK, VisitsHaveConfigs, VisitsGranted,
                RolesWereGranted, RolesAsResolved
  <2> QED BY <2>2, <2>3
<1>3. ConfigInv /\ Accessible => AccessInv
  BY DEF AccessInv, Accessible
<1> QED BY <1>1, <1>2, <1>3, ConfigKept, PTL DEF AccessSpec

\* No config field is lost but to an overlap, with the middleware in front of the writers.
COROLLARY AccessLosesNoChange == AccessSpec => []OnlyOverlapLoses
<1>1. ConfigInv => OnlyOverlapLoses
  BY DEF ConfigInv
<1> QED BY <1>1, ConfigKept, PTL

\* No row and no personal token has a role that its owner was not given.
COROLLARY NoRoleOutOfNothing == AccessSpec => []RolesWereGranted
<1>1. AccessInv => RolesWereGranted
  BY DEF AccessInv
<1> QED BY <1>1, AccessInvariant, PTL

\* A request is served under its groups' role in the settings, where these map groups and have
\* not changed since.
COROLLARY ServedAsConfigured == AccessSpec => []RolesFollowConfig
<1>1. AccessInv => RolesFollowConfig
  <2> SUFFICES ASSUME AccessInv, NEW r \in Requests, Served(r), visits[r].who # None
               PROVE  LET v == visits[r]
                          mapping == GroupConfig[config["settings"]] IN
                      /\ v.who \in DOMAIN users
                      /\ v.groups = {} => v.role = users[v.who]
                      /\ v.groups # {} /\ mapping # Disabled /\ requests[r].config["settings"] = config["settings"] =>
                           v.role = MapGroupsToRole(v.groups, mapping) /\ v.role # None
    BY DEF RolesFollowConfig
  <2>1. visits[r].pc = "served" /\ visits[r] # Out
    BY DEF Served, Out
  <2>2. <<visits[r].who, visits[r].role>> \in People \X Roles
    BY <2>1 DEF AccessInv, VisitsGranted, AccessTypeOK
  <2>3. visits[r].role # None
    BY <2>2, AccessAssumption
  <2> QED BY <2>1, <2>3 DEF AccessInv, RolesAsResolved, ProvisionRole
<1> QED BY <1>1, AccessInvariant, PTL
=============================================================================
