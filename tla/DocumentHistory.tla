--------------------------- MODULE DocumentHistory ---------------------------
(***************************************************************************)
(* The document service of the Go API (pkg/document): Create, Update,      *)
(* Restore and Delete, with the rows they leave in documents and           *)
(* document_versions.                                                      *)
(*                                                                         *)
(* No handler opens a transaction: every SQL statement commits on its own, *)
(* on the request's connection, so the statements of concurrent requests   *)
(* interleave, and a request may end between two of them (the client hangs *)
(* up and its context is cancelled, the 409 and 500 paths, a restart).     *)
(* One action is one statement with the checks around it.                  *)
(*                                                                         *)
(* A body stands for the four columns a snapshot copies: content, and as   *)
(* one value the title, doc_type and tags, which only the API writes.      *)
(* Documents live in one space, so a slug is unique.                       *)
(***************************************************************************)
EXTENDS Naturals

CONSTANTS
  Docs,        \* document ids (UUIDs, never reused)
  Slugs,       \* values of documents.slug
  Titles,      \* values of (title, doc_type, tags)
  Contents,    \* values of content, the Tiptap JSON
  Requests,    \* API requests in flight at one time
  MaxVersion,  \* bound: documents.version stays below or at it
  MayFail      \* whether requests are cut short (and, beside them, the collab server)

ASSUME MaxVersionAssumption == MaxVersion \in Nat \ {0}
ASSUME MayFailAssumption == MayFail \in BOOLEAN

VARIABLES
  documents,          \* documents[d]: the row of d, or its absence
  document_versions,  \* the snapshot rows [doc, version, body]
  was,                \* history variable: every [doc, version, body] documents has held
  requests            \* requests[r]: where request r is and what it has read

dvars == <<documents, document_versions, was, requests>>

-----------------------------------------------------------------------------
(* Rows and requests *)

Bodies  == [title : Titles, content : Contents]
Version == Nat \ {0}
Row     == [doc : Docs, version : Version, body : Bodies]

Unborn == [status |-> "unborn"]
Gone   == [status |-> "gone"]
LiveRow == [status : {"live"}, slug : Slugs, body : Bodies, version : Version]

Idle == [pc |-> "idle"]
\* A restore that has read the version to go back to, and not yet the document.
PickedRequest == [pc : {"picked"}, doc : Docs, body : Bodies]
\* An update or a restore that has read the document (seen) and will write slug and body.
WritingRequest ==
  [pc : {"read", "snapshotted"}, doc : Docs, slug : Slugs, body : Bodies, seen : Row]

TypeOK ==
  /\ documents \in [Docs -> {Unborn, Gone} \cup LiveRow]
  /\ document_versions \subseteq Row
  /\ was \subseteq Row
  /\ requests \in [Requests -> {Idle} \cup PickedRequest \cup WritingRequest]

IsLive(d) == documents[d].status = "live"

CurrentRow(d) ==
  [doc |-> d, version |-> documents[d].version, body |-> documents[d].body]

\* Mutant: no UNIQUE(document_id, version).
NeverTaken(row) == FALSE

\* UNIQUE(document_id, version) refuses a second snapshot with the same number.
VersionTaken(row) ==
  \E v \in document_versions : v.doc = row.doc /\ v.version = row.version

\* UNIQUE(space_id, slug).
SlugTaken(s, d) == \E e \in Docs \ {d} : IsLive(e) /\ documents[e].slug = s

At(r, label) == requests[r].pc = label
Finish(r) == requests' = [requests EXCEPT ![r] = Idle]

-----------------------------------------------------------------------------
(* The operations *)

Init ==
  /\ documents = [d \in Docs |-> Unborn]
  /\ document_versions = {}
  /\ was = {}
  /\ requests = [r \in Requests |-> Idle]

\* Mutant: version DEFAULT 0.
CreateAtZero(d, s, b) ==
  /\ documents[d].status = "unborn"
  /\ ~SlugTaken(s, d)
  /\ documents' = [documents EXCEPT ![d] =
                     [status |-> "live", slug |-> s, body |-> b, version |-> 0]]
  /\ UNCHANGED <<document_versions, was, requests>>

\* Service.Create: one INSERT, version DEFAULT 1.  A taken slug is a 409 and changes nothing.
Create(d, s, b) ==
  /\ documents[d].status = "unborn"
  /\ ~SlugTaken(s, d)
  /\ documents' = [documents EXCEPT ![d] =
                     [status |-> "live", slug |-> s, body |-> b, version |-> 1]]
  /\ was' = was \cup {[doc |-> d, version |-> 1, body |-> b]}
  /\ UNCHANGED <<document_versions, requests>>

\* Mutant: document_versions without ON DELETE CASCADE or a foreign key.
DeleteKeepsSnapshots(d) ==
  /\ IsLive(d)
  /\ documents' = [documents EXCEPT ![d] = Gone]
  /\ UNCHANGED <<document_versions, was, requests>>

\* Service.Delete: one DELETE, ON DELETE CASCADE takes the snapshots along.
Delete(d) ==
  /\ IsLive(d)
  /\ documents' = [documents EXCEPT ![d] = Gone]
  /\ document_versions' = {v \in document_versions : v.doc # d}
  /\ UNCHANGED <<was, requests>>

\* What a request that is about to write knows: the row it read, what it will write.
Read(r, d, s, b) ==
  requests' = [requests EXCEPT ![r] =
    [pc |-> "read", doc |-> d, slug |-> s, body |-> b, seen |-> CurrentRow(d)]]

\* Service.Update, first statement: GetByID.  Not found is a 404 and changes nothing.
UpdateRead(r, d, s, b) ==
  /\ At(r, "idle")
  /\ IsLive(d)
  /\ Read(r, d, s, b)
  /\ UNCHANGED <<documents, document_versions, was>>

\* Service.Restore, first statement: GetVersionByID, of a version of the same document.
RestorePick(r, v) ==
  /\ At(r, "idle")
  /\ requests' = [requests EXCEPT ![r] = [pc |-> "picked", doc |-> v.doc, body |-> v.body]]
  /\ UNCHANGED <<documents, document_versions, was>>

\* Service.Restore, second statement: GetByID; the document keeps the slug read here.
RestoreRead(r) ==
  /\ At(r, "picked")
  /\ LET d == requests[r].doc IN
       IF IsLive(d) THEN Read(r, d, documents[d].slug, requests[r].body) ELSE Finish(r)
  /\ UNCHANGED <<documents, document_versions, was>>

\* Mutant: the snapshot takes the number the document has by now, with the body read before.
SnapshotRenumbered(r) ==
  LET d == requests[r].doc
      v == [requests[r].seen EXCEPT !.version = documents[d].version]
  IN /\ At(r, "read")
     /\ IsLive(d)
     /\ ~VersionTaken(v)
     /\ document_versions' = document_versions \cup {v}
     /\ requests' = [requests EXCEPT ![r].pc = "snapshotted"]
     /\ UNCHANGED <<documents, was>>

\* CreateVersion: insert the row that was read, under the number that was read.
Snapshot(r) ==
  /\ At(r, "read")
  /\ IsLive(requests[r].doc)
  /\ ~VersionTaken(requests[r].seen)
  /\ document_versions' = document_versions \cup {requests[r].seen}
  /\ requests' = [requests EXCEPT ![r].pc = "snapshotted"]
  /\ UNCHANGED <<documents, was>>

\* CreateVersion violates UNIQUE(document_id, version), or the foreign key: a 500.
SnapshotFails(r) ==
  /\ At(r, "read")
  /\ ~IsLive(requests[r].doc) \/ VersionTaken(requests[r].seen)
  /\ Finish(r)
  /\ UNCHANGED <<documents, document_versions, was>>

\* Mutant: the service counts from the version it read instead of version = version + 1.
SaveCountsFromSeen(r) ==
  /\ At(r, "snapshotted")
  /\ LET d   == requests[r].doc
         new == [status |-> "live", slug |-> requests[r].slug, body |-> requests[r].body,
                 version |-> requests[r].seen.version + 1]
     IN /\ IsLive(d)
        /\ ~SlugTaken(requests[r].slug, d)
        /\ documents[d].version < MaxVersion
        /\ documents' = [documents EXCEPT ![d] = new]
        /\ was' = was \cup {[doc |-> d, version |-> new.version, body |-> new.body]}
  /\ Finish(r)
  /\ UNCHANGED document_versions

\* UpdateDocument: overwrite the row and count version up, whatever it is by now.
Save(r) ==
  /\ At(r, "snapshotted")
  /\ LET d   == requests[r].doc
         new == [status |-> "live", slug |-> requests[r].slug, body |-> requests[r].body,
                 version |-> documents[d].version + 1]
     IN /\ IsLive(d)
        /\ ~SlugTaken(requests[r].slug, d)
        /\ documents[d].version < MaxVersion
        /\ documents' = [documents EXCEPT ![d] = new]
        /\ was' = was \cup {[doc |-> d, version |-> new.version, body |-> new.body]}
  /\ Finish(r)
  /\ UNCHANGED document_versions

\* UpdateDocument finds no row (404) or a taken slug (409): the snapshot stays behind.
SaveFails(r) ==
  /\ At(r, "snapshotted")
  /\ ~IsLive(requests[r].doc) \/ SlugTaken(requests[r].slug, requests[r].doc)
  /\ Finish(r)
  /\ UNCHANGED <<documents, document_versions, was>>

\* The request ends early: its context is cancelled, or the replica serving it stops.
Abort(r) ==
  /\ MayFail
  /\ ~At(r, "idle")
  /\ Finish(r)
  /\ UNCHANGED <<documents, document_versions, was>>

-----------------------------------------------------------------------------
(* Specification *)

\* What one request does by itself.
RequestStep(r) ==
  \/ \E d \in Docs, s \in Slugs, b \in Bodies : UpdateRead(r, d, s, b)
  \/ \E v \in document_versions : RestorePick(r, v)
  \/ RestoreRead(r)
  \/ Snapshot(r)
  \/ SnapshotFails(r)
  \/ Save(r)
  \/ SaveFails(r)
  \/ Abort(r)

Next ==
  \/ \E d \in Docs, s \in Slugs, b \in Bodies : Create(d, s, b)
  \/ \E d \in Docs : Delete(d)
  \/ \E r \in Requests : RequestStep(r)

Spec == Init /\ [][Next]_dvars

-----------------------------------------------------------------------------
(* Properties *)

\* No snapshot misreports the past: a row (d, n, body) of document_versions says that
\* documents held body when d was at version n, however the requests that read the
\* document and inserted the row interleaved (service.go Update and Restore).
HistoryTruthful == document_versions \subseteq was

\* No gap: every version a document has been through before the current one can be
\* restored ("Every edit creates a version snapshot", README.md).
HistoryComplete ==
  \A d \in Docs : IsLive(d) =>
    \A n \in 1 .. documents[d].version - 1 :
      \E v \in document_versions : v.doc = d /\ v.version = n

\* No lost update between API requests: a request that has taken its snapshot is about
\* to overwrite the very row it read.  Nothing locks the row; UNIQUE(document_id,
\* version) is what makes the loser of a race fail before it writes.
SaveSupersedesWhatItRead ==
  \A r \in Requests :
    At(r, "snapshotted") /\ IsLive(requests[r].doc) =>
      CurrentRow(requests[r].doc) = requests[r].seen

\* A snapshot with the number of the current version is there only while a request is
\* about to supersede it.  Otherwise VersionTaken holds for good: every later Update and
\* Restore of the document ends in SnapshotFails.
NoStuckDocument ==
  \A d \in Docs :
    IsLive(d) /\ VersionTaken(CurrentRow(d)) =>
      \E r \in Requests : At(r, "snapshotted") /\ requests[r].doc = d

\* A version number names one body: no two bodies of a document were ever current under
\* the same number.
VersionNamesOneBody ==
  \A v, w \in was : v.doc = w.doc /\ v.version = w.version => v = w

\* The inductive invariant behind these.  The history variable tells the truth about
\* documents; snapshots belong to live documents; what a request has read was current
\* once; and no two requests are between snapshot and save on the same document.
WasUpToDate ==
  /\ \A v \in was : documents[v.doc] # Unborn
  /\ \A v \in was : IsLive(v.doc) => v.version <= documents[v.doc].version
  /\ \A d \in Docs : IsLive(d) => CurrentRow(d) \in was

SnapshotsOfLiveDocuments == \A v \in document_versions : IsLive(v.doc)

RequestsReadThePast ==
  \A r \in Requests : requests[r] \in WritingRequest =>
    requests[r].seen \in was /\ requests[r].seen.doc = requests[r].doc

SnapshotTaken ==
  \A r \in Requests :
    At(r, "snapshotted") /\ IsLive(requests[r].doc) => requests[r].seen \in document_versions

SoleSaver ==
  \A r, q \in Requests :
    /\ At(r, "snapshotted") /\ At(q, "snapshotted")
    /\ IsLive(requests[r].doc) /\ requests[r].doc = requests[q].doc
    => r = q

HistoryInv ==
  /\ TypeOK
  /\ VersionNamesOneBody /\ WasUpToDate
  /\ HistoryTruthful /\ SnapshotsOfLiveDocuments /\ HistoryComplete
  /\ RequestsReadThePast /\ SnapshotTaken /\ SaveSupersedesWhatItRead /\ SoleSaver

\* The three statements of a save together are the one edit step of VersionedDocuments:
\* a snapshot counts as past once the version it belongs to is superseded.
CurrentOf(d) ==
  IF IsLive(d)
    THEN [status |-> "live", body |-> documents[d].body, version |-> documents[d].version]
    ELSE documents[d]
Past == {v \in document_versions : IsLive(v.doc) /\ v.version < documents[v.doc].version}

Abstract == INSTANCE VersionedDocuments
              WITH current <- [d \in Docs |-> CurrentOf(d)], past <- Past

ImplementsVersionedDocuments == Abstract!VSpec
=============================================================================
