-------------------------- MODULE TenantConnections --------------------------
(***************************************************************************)
(* How requests and the weekly cleanup of one API process share the pool   *)
(* of PostgreSQL connections (pkg/tenant/middleware.go, internal/app).     *)
(*                                                                         *)
(* Tenants are schemas.  The middleware looks the tenant up over a         *)
(* connection it gives back at once, takes another one for the rest of the *)
(* request and points its search_path to the tenant's schema.  Nothing     *)
(* resets the search_path when a connection goes back to the pool.         *)
(* Handlers for the configuration and for keys and tokens query the global *)
(* tables over a second connection while they hold the first.  The pool    *)
(* (a library, external) makes a request wait until a connection is free   *)
(* or its context is done.                                                 *)
(***************************************************************************)
EXTENDS Naturals, FiniteSets

CONSTANTS
  Requests,  \* requests in flight at one time
  Tenants,   \* tenants; the schema of a tenant is named like it
  Conns,     \* the connections of the pool
  Default,   \* the search_path of a new connection: "$user", public
  None       \* no connection

ASSUME DefaultAssumption == Default \notin Tenants
ASSUME RequestsAssumption == IsFiniteSet(Requests)
ASSUME NoneAssumption == None \notin Conns

VARIABLES
  search_path,  \* search_path[c]: what connection c is set to
  requests,     \* requests[r]: where r is, for which tenant
  conn,         \* conn[r]: the connection r keeps until it ends, or None
  extra,        \* extra[r]: the connection of a query outside its schema, or None
  cleanup,      \* the connection of the running cleanup, or None
  cleaned       \* the tenant whose orphans the last cleanup went through, or Default

cvars == <<search_path, requests, conn, extra, cleanup, cleaned>>

-----------------------------------------------------------------------------
(* Requests and connections *)

\* lookup: about to query public.tenants; resolve: about to take its connection; pointing:
\* about to set search_path; serving: in the handler; asking: the handler queries a global
\* table.
Labels == {"lookup", "resolve", "pointing", "serving", "asking"}

Idle == [pc |-> "idle"]

TypeOK ==
  /\ search_path \in [Conns -> Tenants \cup {Default}]
  /\ requests \in [Requests -> {Idle} \cup [pc : Labels, tenant : Tenants]]
  /\ conn \in [Requests -> Conns \cup {None}]
  /\ extra \in [Requests -> Conns \cup {None}]
  /\ cleanup \in Conns \cup {None}
  /\ cleaned \in Tenants \cup {Default}
  /\ \A r \in Requests : requests[r] = Idle => conn[r] = None /\ extra[r] = None

At(r, label) == requests[r].pc = label
Go(r, label) == requests' = [requests EXCEPT ![r].pc = label]

\* The connections of the pool in use.
Taken == {conn[r] : r \in Requests} \cup {extra[r] : r \in Requests} \cup {cleanup}

Free == Conns \ Taken

Waiting(r) ==
  \/ At(r, "resolve")
  \/ (At(r, "lookup") \/ At(r, "asking")) /\ extra[r] = None

Init ==
  /\ search_path = [c \in Conns |-> Default]
  /\ requests = [r \in Requests |-> Idle]
  /\ conn = [r \in Requests |-> None]
  /\ extra = [r \in Requests |-> None]
  /\ cleanup = None
  /\ cleaned = Default

-----------------------------------------------------------------------------
(* One request *)

Arrive(r, t) ==
  /\ At(r, "idle")
  /\ requests' = [requests EXCEPT ![r] = [pc |-> "lookup", tenant |-> t]]
  /\ UNCHANGED <<search_path, conn, extra, cleanup, cleaned>>

\* A query over the pool itself takes a connection.
TakeExtra(r) ==
  /\ At(r, "lookup") \/ At(r, "asking")
  /\ extra[r] = None
  /\ \E c \in Free : extra' = [extra EXCEPT ![r] = c]
  /\ UNCHANGED <<search_path, requests, conn, cleanup, cleaned>>

\* The tenant is found, or the handler has its answer; the connection goes back.
GiveExtraBack(r) ==
  /\ At(r, "lookup") \/ At(r, "asking")
  /\ extra[r] # None
  /\ extra' = [extra EXCEPT ![r] = None]
  /\ Go(r, IF At(r, "lookup") THEN "resolve" ELSE "serving")
  /\ UNCHANGED <<search_path, conn, cleanup, cleaned>>

\* pool.Acquire.
AcquireConn(r) ==
  /\ At(r, "resolve")
  /\ \E c \in Free : conn' = [conn EXCEPT ![r] = c]
  /\ Go(r, "pointing")
  /\ UNCHANGED <<search_path, extra, cleanup, cleaned>>

\* Mutant: the search_path is set on new connections only.
SetSearchPathOnce(r) ==
  /\ At(r, "pointing")
  /\ search_path' = [search_path EXCEPT ![conn[r]] =
                       IF @ = Default THEN requests[r].tenant ELSE @]
  /\ Go(r, "serving")
  /\ UNCHANGED <<conn, extra, cleanup, cleaned>>

\* SET search_path TO the schema of the request's tenant.
SetSearchPath(r) ==
  /\ At(r, "pointing")
  /\ search_path' = [search_path EXCEPT ![conn[r]] = requests[r].tenant]
  /\ Go(r, "serving")
  /\ UNCHANGED <<conn, extra, cleanup, cleaned>>

\* A handler of internal/admin, of the profile's tokens or of /health goes to the pool again.
AskGlobal(r) ==
  /\ At(r, "serving")
  /\ Go(r, "asking")
  /\ UNCHANGED <<search_path, conn, extra, cleanup, cleaned>>

\* Mutant: no deferred Release.
EndWithoutRelease(r) ==
  /\ requests' = [requests EXCEPT ![r] = Idle]
  /\ extra' = [extra EXCEPT ![r] = None]
  /\ UNCHANGED <<search_path, conn, cleanup, cleaned>>

\* The request ends, and the deferred Release gives back what it holds.
End(r) ==
  /\ requests' = [requests EXCEPT ![r] = Idle]
  /\ conn' = [conn EXCEPT ![r] = None]
  /\ extra' = [extra EXCEPT ![r] = None]
  /\ UNCHANGED <<search_path, cleanup, cleaned>>

Respond(r) == At(r, "serving") /\ End(r)

\* chimw.Timeout: the context is done, and with it a wait for a connection or a statement.
RunOutOfTime(r) == ~At(r, "idle") /\ End(r)

\* The pool (external) replaces a connection that a cancelled statement has closed, or that
\* has become too old.
Replace(c) ==
  /\ c \in Free
  /\ search_path' = [search_path EXCEPT ![c] = Default]
  /\ UNCHANGED <<requests, conn, extra, cleanup, cleaned>>

-----------------------------------------------------------------------------
(* The cleanup *)

\* runOrphanCleanup: a connection of the pool, as it is.
BeginCleanup ==
  /\ cleanup = None
  /\ \E c \in Free : cleanup' = c
  /\ UNCHANGED <<search_path, requests, conn, extra, cleaned>>

\* Mutant: no Release when the cleanup is over.
FinishCleanupKeepsConn ==
  /\ cleanup # None
  /\ cleaned' = search_path[cleanup]
  /\ UNCHANGED <<search_path, requests, conn, extra, cleanup>>

\* CleanupOrphans goes through the storage_objects that the search_path leads to: those of
\* a tenant, or an error when there are none.
FinishCleanup ==
  /\ cleanup # None
  /\ cleaned' = search_path[cleanup]
  /\ cleanup' = None
  /\ UNCHANGED <<search_path, requests, conn, extra>>

-----------------------------------------------------------------------------
(* Specification *)

Step(r) == TakeExtra(r) \/ GiveExtraBack(r) \/ AcquireConn(r) \/ SetSearchPath(r)

Next ==
  \/ \E r \in Requests :
       \/ \E t \in Tenants : Arrive(r, t)
       \/ Step(r)
       \/ AskGlobal(r)
       \/ Respond(r)
       \/ RunOutOfTime(r)
  \/ \E c \in Conns : Replace(c)
  \/ BeginCleanup
  \/ FinishCleanup

Spec == Init /\ [][Next]_cvars

\* The pool (external) serves those that wait in the order in which they came, so nobody
\* is passed over forever.  Handlers make finitely many queries and return; one goroutine
\* goes through the cleanup when its ticker fires.  That time runs out for a request is
\* not assumed.
FairSpec ==
  /\ Spec
  /\ \A r \in Requests : SF_cvars(Step(r)) /\ SF_cvars(Respond(r))
  /\ SF_cvars(BeginCleanup) /\ WF_cvars(FinishCleanup)

-----------------------------------------------------------------------------
(* Properties *)

\* Tenant isolation: whatever connection a request was given, and whoever used it before,
\* the handler's statements run in the schema of the request's tenant, over a connection
\* that nobody else uses, also while and after it queries the global tables.
OwnSchema ==
  \A r \in Requests : At(r, "serving") \/ At(r, "asking") =>
    /\ search_path[conn[r]] = requests[r].tenant
    /\ conn[r] # cleanup
    /\ conn[r] # extra[r]
    /\ \A q \in Requests \ {r} : conn[r] \notin {conn[q], extra[q]}

\* The inductive invariant behind it: a connection that a request keeps has one user.
SoleUser ==
  \A r \in Requests : conn[r] # None =>
    /\ conn[r] # cleanup
    /\ conn[r] # extra[r]
    /\ \A q \in Requests \ {r} : conn[r] \notin {conn[q], extra[q]}

\* A request has its connection from Acquire on, and a second one only for a query.
Equipped ==
  \A r \in Requests :
    /\ requests[r].pc \in {"pointing", "serving", "asking"} <=> conn[r] # None
    /\ extra[r] # None => At(r, "lookup") \/ At(r, "asking")

IsolationInv == TypeOK /\ SoleUser /\ Equipped /\ OwnSchema

\* All connections are taken, and everybody who has one or wants one waits for another.
Gridlock ==
  /\ Free = {} /\ cleanup = None
  /\ \A r \in Requests : At(r, "idle") \/ Waiting(r)

\* What it takes for that: as many handlers that ask for a second connection, over the one they
\* keep, as the pool has connections.  No number of other requests, and no lookup of a
\* tenant, brings it about.
GridlockTakesAskers ==
  Gridlock => Cardinality({r \in Requests : At(r, "asking")}) >= Cardinality(Conns)

\* Nobody has to wait for the timeout: with that many connections every request ends by
\* itself, however many wait for a second one, and although the cleanup takes one too.
EveryRequestEnds ==
  Cardinality(Conns) > Cardinality(Requests) =>
    \A r \in Requests : ~At(r, "idle") ~> At(r, "idle")

\* "Images that are uploaded but never referenced [...] need periodic cleanup" (docs/09,
\* section 10): the cleanup comes round to every tenant.
EveryTenantIsCleaned == \A t \in Tenants : []<>(cleaned = t)
=============================================================================
