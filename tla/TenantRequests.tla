--------------------------- MODULE TenantRequests ---------------------------
(***************************************************************************)
(* What is under way on the tables of a tenant: API requests of several    *)
(* statements, the collaboration of a browser's read with the write it     *)
(* sends later, runs of the runbook migration and of the seed.  No two     *)
(* statements share a transaction, so whatever is under way interleaves    *)
(* between any two of them, and may end after any of them.                 *)
(***************************************************************************)
EXTENDS TenantTables

CONSTANTS
  Clients,   \* what is under way at one time
  PageLimit, \* what a page of a list or of search results is limited to
  Scenarios  \* the tables at the start, and how often each kind of thing happens then

\* What happens: the bound on each is scenario.quota.
Kinds == {"spaces", "collections", "documents", "deletions", "edits", "moves", "reads", "searches",
          "templates", "postmortems", "comments", "moderation", "imports", "nightowl", "seeds"}

ASSUME ClientAssumption == None \notin Clients
ASSUME PageAssumption == PageLimit \in Nat \ {0}
ASSUME ScenarioAssumption ==
  \A s \in Scenarios : Typed(s.db) /\ Consistent(s.db) /\ s.quota \in [Kinds -> Nat]

VARIABLES
  db,        \* the tables
  requests,  \* requests[c]: how far what c has under way is
  quota      \* how often each kind of thing may still happen

Idle == [kind |-> "idle"]

\* What has been written since a request began: ids of documents, and None for a row of
\* another table.  For the properties only.
Heard(r, news) == IF r = Idle THEN Idle ELSE [r EXCEPT !.news = @ \cup news]

Written(new) ==
  LET kept == {d \in (DOMAIN db.documents) \cap (DOMAIN new.documents) :
                 db.documents[d] = new.documents[d]}
      changed == ((DOMAIN db.documents) \cup (DOMAIN new.documents)) \ kept
      others == \E table \in {"spaces", "collections", "templates", "members"} : db[table] # new[table]
  IN changed \cup (IF others THEN {None} ELSE {})

May(kind) == quota[kind] > 0
Spend(kind) == May(kind) /\ quota' = [quota EXCEPT ![kind] = @ - 1]

\* c goes on as r, with nothing written.
Go(c, r) == requests' = [requests EXCEPT ![c] = r] /\ UNCHANGED db

\* c begins something of a kind, whose first statement finds what r says.
MayBegin(c, kind) == requests[c] = Idle /\ May(kind)
Begin(c, kind, r) == MayBegin(c, kind) /\ Spend(kind) /\ Go(c, r)

\* c's statement leaves the tables new, and c goes on as r; the others hear of it.
Commit(c, new, r) ==
  /\ db' = new
  /\ requests' = [q \in Clients |-> IF q = c THEN r ELSE Heard(requests[q], Written(new))]

\* Mutant: the constraints are not there.
ExecuteUnchecked(c, statement, done, refused) == Commit(c, statement, done)

\* The statement of c, which goes on as done or, when a constraint stops it, as refused.
Execute(c, statement, done, refused) ==
  IF Consistent(statement) THEN Commit(c, statement, done) ELSE Go(c, refused)

\* A request of one statement.
Request(kind, statement) ==
  /\ Spend(kind)
  /\ IF Consistent(statement) THEN Commit(None, statement, Idle) ELSE UNCHANGED <<db, requests>>

\* Where pages of documents begin, up to the first that is sure to be empty.
PageOffsets == {PageLimit * page : page \in 0 .. Cardinality(DOMAIN db.documents)}

\* A finished request is answered, or the client or the server gives up on it.
End(c) ==
  /\ requests[c] # Idle
  /\ Go(c, Idle)
  /\ UNCHANGED quota
=============================================================================
