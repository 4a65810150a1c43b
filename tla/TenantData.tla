------------------------------ MODULE TenantData ------------------------------
(***************************************************************************)
(* Everything that reads and writes one tenant's tables, at once: the API  *)
(* for spaces, collections, documents, templates, comments and             *)
(* notifications, the calls of NightOwl, the runbook migration and the     *)
(* seed.                                                                   *)
(***************************************************************************)
EXTENDS Workspace, Discussion, Integration, Seed

ASSUME RunbooksAssumption ==
  \A s \in Scenarios : s.runbooks \in Seq(Alerts) /\ IsInjective(s.runbooks)

\* The tables at the start are those that such requests, imports and seeds have left.
ASSUME StartAssumption ==
  \A s \in Scenarios : Threaded(s.db) /\ Earned(s.db) /\ SystemWide(s.db)

dvars == <<db, requests, quota, runbooks>>

Init ==
  /\ \E s \in Scenarios : db = s.db /\ quota = s.quota /\ runbooks = s.runbooks
  /\ requests = [c \in Clients |-> Idle]

\* The request of c is answered, the client goes away or the replica stops.
Ends == \E c \in Clients : End(c)

Next ==
  \/ (WorkspaceStep \/ DiscussionStep \/ IntegrationStep \/ SeedStep \/ Ends) /\ UNCHANGED runbooks
  \/ NightOwlChanges

Spec == Init /\ [][Next]_dvars

\* The tables, with the constraints of migrations/tenant: whatever is moved into, imported
\* or seeded at the same time, no slug is twice in a space, and nothing refers to a row that
\* a delete has taken away.
TablesOK == Typed(db) /\ Consistent(db)

\* A move or a post-mortem that nothing came between is refused only for a reason.
QuietRequests == QuietMoves /\ RefusalsHaveAReason
=============================================================================
