----------------------- MODULE TenantConnectionsProofs -----------------------
(***************************************************************************)
(* Tenant isolation, proved for any number of requests, tenants and        *)
(* connections: IsolationInv is inductive and contains OwnSchema.  What    *)
(* makes it work is that a request's connection has one user from Acquire  *)
(* to Release, and that the search_path is set between the two, before the *)
(* handler runs; that it is never reset then does not matter.              *)
(***************************************************************************)
EXTENDS TenantConnections, FiniteSetTheorems, TLAPS

(* What a step leaves of a request in every other request. *)

\* A connection the pool hands out is used by no request and not by the cleanup.
LEMMA FreeIsUnused ==
  ASSUME TypeOK, NEW c \in Free
  PROVE  /\ c \in Conns /\ c # None /\ c # cleanup
         /\ \A q \in Requests : conn[q] # c /\ extra[q] # c
  BY NoneAssumption DEF Free, Taken, TypeOK

LEMMA InitIsolation == Init => IsolationInv
  BY DEF Init, IsolationInv, TypeOK, SoleUser, Equipped, OwnSchema, Idle, At

\* A request that has begun is one of the records of TypeOK.
LEMMA RequestType ==
  ASSUME TypeOK, NEW r \in Requests, ~At(r, "idle")
  PROVE  requests[r] \in [pc : Labels, tenant : Tenants]
  BY DEF TypeOK, At, Idle

\* Moving a request to another label keeps what TypeOK says of requests.
LEMMA GoType ==
  ASSUME TypeOK, NEW r \in Requests, ~At(r, "idle"), NEW label \in Labels, Go(r, label)
  PROVE  /\ requests' \in [Requests -> {Idle} \cup [pc : Labels, tenant : Tenants]]
         /\ requests'[r] = [pc |-> label, tenant |-> requests[r].tenant]
         /\ \A q \in Requests \ {r} : requests'[q] = requests[q]
  <1>1. requests[r] \in [pc : Labels, tenant : Tenants]
    BY RequestType
  <1>2. [requests[r] EXCEPT !.pc = label] = [pc |-> label, tenant |-> requests[r].tenant]
    BY <1>1
  <1>. QED
    BY <1>1, <1>2 DEF TypeOK, Go

LEMMA ArriveIsolation ==
  ASSUME IsolationInv, NEW r \in Requests, NEW t \in Tenants, Arrive(r, t)
  PROVE  IsolationInv'
  <1>1. /\ requests' \in [Requests -> {Idle} \cup [pc : Labels, tenant : Tenants]]
        /\ requests'[r] = [pc |-> "lookup", tenant |-> t]
        /\ \A q \in Requests \ {r} : requests'[q] = requests[q]
    BY DEF IsolationInv, TypeOK, Arrive, Labels
  <1>. QED
    BY <1>1 DEF IsolationInv, TypeOK, SoleUser, Equipped, OwnSchema, Arrive, At, Idle

LEMMA TakeExtraIsolation ==
  ASSUME IsolationInv, NEW r \in Requests, TakeExtra(r)
  PROVE  IsolationInv'
  <1>1. PICK c \in Free : extra' = [extra EXCEPT ![r] = c]
    BY DEF TakeExtra
  <1>2. /\ c \in Conns /\ c # None /\ c # cleanup
        /\ \A q \in Requests : conn[q] # c /\ extra[q] # c
    BY FreeIsUnused DEF IsolationInv
  <1>3. extra' \in [Requests -> Conns \cup {None}]
    BY <1>1, <1>2 DEF IsolationInv, TypeOK
  <1>4. \A q \in Requests : extra'[q] = IF q = r THEN c ELSE extra[q]
    BY <1>1 DEF IsolationInv, TypeOK
  <1>. QED
    BY <1>2, <1>3, <1>4
    DEF IsolationInv, TypeOK, SoleUser, Equipped, OwnSchema, TakeExtra, At, Idle

LEMMA GiveExtraBackIsolation ==
  ASSUME IsolationInv, NEW r \in Requests, GiveExtraBack(r)
  PROVE  IsolationInv'
  <1>1. ~At(r, "idle")
    BY DEF GiveExtraBack, At
  <1>2. extra' \in [Requests -> Conns \cup {None}]
        /\ \A q \in Requests : extra'[q] = IF q = r THEN None ELSE extra[q]
    BY DEF GiveExtraBack, IsolationInv, TypeOK
  <1>3. CASE At(r, "lookup")
    <2>1. Go(r, "resolve") /\ "resolve" \in Labels
      BY <1>3 DEF GiveExtraBack, Labels
    <2>2. /\ requests' \in [Requests -> {Idle} \cup [pc : Labels, tenant : Tenants]]
         /\ requests'[r] = [pc |-> "resolve", tenant |-> requests[r].tenant]
         /\ \A q \in Requests \ {r} : requests'[q] = requests[q]
      BY <1>1, <2>1, GoType DEF IsolationInv
    <2>. QED
      BY <1>2, <1>3, <2>2
      DEF IsolationInv, TypeOK, SoleUser, Equipped, OwnSchema, GiveExtraBack, At, Idle
  <1>4. CASE At(r, "asking")
    <2>1. Go(r, "serving") /\ "serving" \in Labels
      BY <1>4 DEF GiveExtraBack, Labels, At
    <2>2. /\ requests' \in [Requests -> {Idle} \cup [pc : Labels, tenant : Tenants]]
         /\ requests'[r] = [pc |-> "serving", tenant |-> requests[r].tenant]
         /\ \A q \in Requests \ {r} : requests'[q] = requests[q]
      BY <1>1, <2>1, GoType DEF IsolationInv
    <2>. QED
      BY <1>2, <1>4, <2>2
      DEF IsolationInv, TypeOK, SoleUser, Equipped, OwnSchema, GiveExtraBack, At, Idle
  <1>. QED
    BY <1>3, <1>4 DEF GiveExtraBack

LEMMA AcquireConnIsolation ==
  ASSUME IsolationInv, NEW r \in Requests, AcquireConn(r)
  PROVE  IsolationInv'
  <1>1. PICK c \in Free : conn' = [conn EXCEPT ![r] = c]
    BY DEF AcquireConn
  <1>2. /\ c \in Conns /\ c # None /\ c # cleanup
        /\ \A q \in Requests : conn[q] # c /\ extra[q] # c
    BY FreeIsUnused DEF IsolationInv
  <1>3. /\ conn' \in [Requests -> Conns \cup {None}]
        /\ \A q \in Requests : conn'[q] = IF q = r THEN c ELSE conn[q]
    BY <1>1, <1>2 DEF IsolationInv, TypeOK
  <1>4. ~At(r, "idle") /\ Go(r, "pointing") /\ "pointing" \in Labels
    BY DEF AcquireConn, At, Labels
  <1>5. /\ requests' \in [Requests -> {Idle} \cup [pc : Labels, tenant : Tenants]]
       /\ requests'[r] = [pc |-> "pointing", tenant |-> requests[r].tenant]
       /\ \A q \in Requests \ {r} : requests'[q] = requests[q]
    BY <1>4, GoType DEF IsolationInv
  <1>. QED
    BY <1>2, <1>3, <1>5
    DEF IsolationInv, TypeOK, SoleUser, Equipped, OwnSchema, AcquireConn, At, Idle

\* The only step that points a connection somewhere else while a request keeps it: its
\* own, so that nobody's but its own statements are affected.
LEMMA SetSearchPathIsolation ==
  ASSUME IsolationInv, NEW r \in Requests, SetSearchPath(r)
  PROVE  IsolationInv'
  <1>1. ~At(r, "idle") /\ Go(r, "serving") /\ "serving" \in Labels
    BY DEF SetSearchPath, At, Labels
  <1>2. conn[r] \in Conns /\ conn[r] # None
    BY NoneAssumption DEF IsolationInv, TypeOK, Equipped, SetSearchPath, At
  <1>3. requests[r].tenant \in Tenants
    BY <1>1, RequestType DEF IsolationInv
  <1>4. /\ search_path' \in [Conns -> Tenants \cup {Default}]
        /\ search_path'[conn[r]] = requests[r].tenant
        /\ \A c \in Conns \ {conn[r]} : search_path'[c] = search_path[c]
    BY <1>2, <1>3 DEF IsolationInv, TypeOK, SetSearchPath
  <1>5. \A q \in Requests \ {r} : conn[q] # None => conn[q] \in Conns \ {conn[r]}
    BY <1>2 DEF IsolationInv, TypeOK, SoleUser
  <1>6. /\ requests' \in [Requests -> {Idle} \cup [pc : Labels, tenant : Tenants]]
       /\ requests'[r] = [pc |-> "serving", tenant |-> requests[r].tenant]
       /\ \A q \in Requests \ {r} : requests'[q] = requests[q]
    BY <1>1, GoType DEF IsolationInv
  <1>. QED
    BY <1>2, <1>4, <1>5, <1>6
    DEF IsolationInv, TypeOK, SoleUser, Equipped, OwnSchema, SetSearchPath, At, Idle

LEMMA AskGlobalIsolation ==
  ASSUME IsolationInv, NEW r \in Requests, AskGlobal(r)
  PROVE  IsolationInv'
  <1>1. ~At(r, "idle") /\ Go(r, "asking") /\ "asking" \in Labels
    BY DEF AskGlobal, At, Labels
  <1>2. /\ requests' \in [Requests -> {Idle} \cup [pc : Labels, tenant : Tenants]]
       /\ requests'[r] = [pc |-> "asking", tenant |-> requests[r].tenant]
       /\ \A q \in Requests \ {r} : requests'[q] = requests[q]
    BY <1>1, GoType DEF IsolationInv
  <1>3. extra[r] = None /\ conn[r] # None
    BY DEF IsolationInv, Equipped, AskGlobal, At
  <1>4. Equipped'
    BY <1>2, <1>3 DEF IsolationInv, Equipped, AskGlobal, At
  <1>. QED
    BY <1>2, <1>3, <1>4 DEF IsolationInv, TypeOK, SoleUser, OwnSchema, AskGlobal, At, Idle

LEMMA EndIsolation ==
  ASSUME IsolationInv, NEW r \in Requests, End(r)
  PROVE  IsolationInv'
  <1>1. /\ requests' \in [Requests -> {Idle} \cup [pc : Labels, tenant : Tenants]]
        /\ \A q \in Requests : requests'[q] = IF q = r THEN Idle ELSE requests[q]
    BY DEF IsolationInv, TypeOK, End
  <1>2. /\ conn' \in [Requests -> Conns \cup {None}]
        /\ \A q \in Requests : conn'[q] = IF q = r THEN None ELSE conn[q]
    BY DEF IsolationInv, TypeOK, End
  <1>3. /\ extra' \in [Requests -> Conns \cup {None}]
        /\ \A q \in Requests : extra'[q] = IF q = r THEN None ELSE extra[q]
    BY DEF IsolationInv, TypeOK, End
  <1>. QED
    BY <1>1, <1>2, <1>3 DEF IsolationInv, TypeOK, SoleUser, Equipped, OwnSchema, End, At, Idle

LEMMA ReplaceIsolation ==
  ASSUME IsolationInv, NEW c \in Conns, Replace(c)
  PROVE  IsolationInv'
  <1>1. \A q \in Requests : conn[q] # c /\ extra[q] # c
    BY FreeIsUnused DEF IsolationInv, Replace
  <1>2. /\ search_path' \in [Conns -> Tenants \cup {Default}]
        /\ \A b \in Conns \ {c} : search_path'[b] = search_path[b]
    BY DEF IsolationInv, TypeOK, Replace
  <1>. QED
    BY <1>1, <1>2 DEF IsolationInv, TypeOK, SoleUser, Equipped, OwnSchema, Replace, At

LEMMA CleanupIsolation ==
  ASSUME IsolationInv, BeginCleanup \/ FinishCleanup
  PROVE  IsolationInv'
  <1>1. CASE BeginCleanup
    <2>1. PICK c \in Free : cleanup' = c
      BY <1>1 DEF BeginCleanup
    <2>2. c \in Conns /\ \A q \in Requests : conn[q] # c
      BY FreeIsUnused DEF IsolationInv
    <2>. QED
      BY <1>1, <2>1, <2>2
      DEF IsolationInv, TypeOK, SoleUser, Equipped, OwnSchema, BeginCleanup, At
  <1>2. CASE FinishCleanup
    <2>1. search_path[cleanup] \in Tenants \cup {Default}
      BY <1>2 DEF IsolationInv, TypeOK, FinishCleanup
    <2>. QED
      BY <1>2, <2>1
      DEF IsolationInv, TypeOK, SoleUser, Equipped, OwnSchema, FinishCleanup, At
  <1>. QED
    BY <1>1, <1>2

LEMMA NextIsolation == IsolationInv /\ [Next]_cvars => IsolationInv'
  <1>. SUFFICES ASSUME IsolationInv, [Next]_cvars PROVE IsolationInv'
    OBVIOUS
  <1>1. ASSUME NEW r \in Requests, NEW t \in Tenants, Arrive(r, t) PROVE IsolationInv'
    BY <1>1, ArriveIsolation
  <1>2. ASSUME NEW r \in Requests, Step(r) PROVE IsolationInv'
    BY <1>2, TakeExtraIsolation, GiveExtraBackIsolation, AcquireConnIsolation,
       SetSearchPathIsolation DEF Step
  <1>3. ASSUME NEW r \in Requests, AskGlobal(r) PROVE IsolationInv'
    BY <1>3, AskGlobalIsolation
  <1>4. ASSUME NEW r \in Requests, Respond(r) \/ RunOutOfTime(r) PROVE IsolationInv'
    BY <1>4, EndIsolation DEF Respond, RunOutOfTime
  <1>5. ASSUME NEW c \in Conns, Replace(c) PROVE IsolationInv'
    BY <1>5, ReplaceIsolation
  <1>6. ASSUME BeginCleanup \/ FinishCleanup PROVE IsolationInv'
    BY <1>6, CleanupIsolation
  <1>7. CASE UNCHANGED cvars
    BY <1>7 DEF cvars, IsolationInv, TypeOK, SoleUser, Equipped, OwnSchema, At
  <1>. QED
    BY <1>1, <1>2, <1>3, <1>4, <1>5, <1>6, <1>7 DEF Next

\* The middleware's bookkeeping: a connection kept by a request has no other user, and the
\* schema it is pointed to is the tenant's by the time the handler runs.
THEOREM Isolation == Spec => []IsolationInv
  BY InitIsolation, NextIsolation, PTL DEF Spec

\* A request holds the connections that its place in the middleware says, whatever way it
\* ends: what an early return or the timeout left behind would break the type.
THEOREM TypeCorrect == Spec => []TypeOK
  <1>1. IsolationInv => TypeOK
    BY DEF IsolationInv
  <1>. QED
    BY <1>1, Isolation, PTL

\* Tenant isolation: the statements of a handler run in the schema of its tenant, over a
\* connection of its own, with any number of requests, tenants and connections.
THEOREM TenantIsolation == Spec => []OwnSchema
  <1>1. IsolationInv => OwnSchema
    BY DEF IsolationInv
  <1>. QED
    BY <1>1, Isolation, PTL

\* Requests that keep a connection and wait are asking for a second one; if all connections
\* are held up so, there is an asking request for each.
LEMMA AskersHoldAll ==
  ASSUME IsolationInv, Gridlock
  PROVE  Cardinality({r \in Requests : At(r, "asking")}) >= Cardinality(Conns)
  <1>. DEFINE Askers == {r \in Requests : At(r, "asking")}
              T == {conn[r] : r \in Askers}
              f == [r \in Askers |-> conn[r]]
  <1>1. \A r \in Requests : extra[r] = None
    BY DEF IsolationInv, TypeOK, Equipped, Gridlock, Waiting, At, Idle, Labels
  <1>2. \A r \in Requests : conn[r] # None => r \in Askers
    BY DEF IsolationInv, Equipped, Gridlock, Waiting, At
  <1>3. Conns \subseteq T
    <2>1. Conns \subseteq Taken /\ cleanup = None
      BY DEF Gridlock, Free
    <2> QED BY <1>1, <1>2, <2>1, NoneAssumption DEF Taken
  <1>4. IsFiniteSet(Askers)
    BY FS_Subset, RequestsAssumption
  <1>5. f \in Surjection(Askers, T)
    BY DEF Surjection
  <1>6. IsFiniteSet(T) /\ Cardinality(T) <= Cardinality(Askers)
    BY <1>4, <1>5, FS_Surjection
  <1>7. IsFiniteSet(Conns) /\ Cardinality(Conns) <= Cardinality(T)
    BY <1>3, <1>6, FS_Subset
  <1>8. Cardinality(T) \in Nat /\ Cardinality(Conns) \in Nat /\ Cardinality(Askers) \in Nat
    BY <1>4, <1>6, <1>7, FS_CardinalityType
  <1>. QED
    BY <1>6, <1>7, <1>8

\* The pool is used up by requests that wait only when there are as many handlers asking for a
\* second connection (internal/admin, pkg/user over the pool) as it has connections.
THEOREM AskersMakeGridlock == Spec => []GridlockTakesAskers
  <1>1. IsolationInv => GridlockTakesAskers
    BY AskersHoldAll DEF GridlockTakesAskers
  <1>. QED
    BY <1>1, Isolation, PTL
=============================================================================
