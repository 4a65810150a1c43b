--------------------------- MODULE CollabDocuments ---------------------------
(***************************************************************************)
(* The collaboration server (collab/src/server.ts) beside the document     *)
(* service: both write documents and document_versions, over connections   *)
(* of their own and without transactions.                                  *)
(*                                                                         *)
(* Hocuspocus (a library, external) keeps one Yjs document in memory per   *)
(* document with clients, loads it with the fetch hook when the first one  *)
(* connects, runs the store hook after edits and when the last one leaves, *)
(* and unloads it.  It runs at most one store per document at a time, and  *)
(* nothing limits when: fetch and store are modelled as taking place at    *)
(* any time the library could call them.  One server process is modelled.  *)
(*                                                                         *)
(* The API numbers a snapshot with the version it supersedes; the store    *)
(* hook numbers it with the version it has just produced.                  *)
(***************************************************************************)
EXTENDS DocumentHistory

CONSTANTS
  Convertible,  \* contents that pmSchema can turn into a Yjs document
  Blank         \* the content of an empty Yjs document

ASSUME BlankAssumption == Blank \in Convertible /\ Convertible \subseteq Contents

VARIABLES
  yjs,       \* yjs[d]: the content document_yjs_state holds for d, or NoState
  sessions,  \* sessions[d]: the content in the server's memory, or Closed
  stores     \* stores[d]: the store hook running for d, between its statements

collabVars == <<yjs, sessions, stores>>
cvars == <<documents, document_versions, was, requests, yjs, sessions, stores>>

NoState == [status |-> "none"]
Saved(c) == [status |-> "saved", content |-> c]

Closed == [status |-> "closed"]
Open(c) == [status |-> "open", content |-> c]

NoStore == [step |-> "none"]
\* The hook has written document_yjs_state, and will write this content to documents.
YjsSaved(c) == [step |-> "yjs_saved", content |-> c]
\* The hook has updated documents, and will insert this snapshot.
BodySaved(row) == [step |-> "body_saved", row |-> row]

CTypeOK ==
  /\ TypeOK
  /\ yjs \in [Docs -> {NoState} \cup [status : {"saved"}, content : Contents]]
  /\ sessions \in [Docs -> {Closed} \cup [status : {"open"}, content : Contents]]
  /\ stores \in [Docs -> {NoStore} \cup [step : {"yjs_saved"}, content : Contents]
                                   \cup [step : {"body_saved"}, row : Row]]

CInit ==
  /\ Init
  /\ yjs = [d \in Docs |-> NoState]
  /\ sessions = [d \in Docs |-> Closed]
  /\ stores = [d \in Docs |-> NoStore]

-----------------------------------------------------------------------------
(* The document service, beside a collaboration server *)

ApiStep ==
  /\ \/ \E d \in Docs, s \in Slugs, b \in Bodies : Create(d, s, b)
     \/ \E r \in Requests : RequestStep(r)
  /\ UNCHANGED collabVars

\* Service.Delete; ON DELETE CASCADE takes document_yjs_state along, not the session.
CDelete(d) ==
  /\ Delete(d)
  /\ yjs' = [yjs EXCEPT ![d] = NoState]
  /\ UNCHANGED <<sessions, stores>>

-----------------------------------------------------------------------------
(* The collaboration server *)

\* fetch: the Yjs snapshot if there is one, else documents.content converted; content
\* that does not convert, or a document that is not there, starts blank.
Fetched(d) ==
  IF yjs[d] # NoState THEN yjs[d].content
  ELSE IF IsLive(d) /\ documents[d].body.content \in Convertible
    THEN documents[d].body.content
    ELSE Blank

Connect(d) ==
  /\ sessions[d] = Closed
  /\ documents[d].status # "unborn"
  /\ sessions' = [sessions EXCEPT ![d] = Open(Fetched(d))]
  /\ UNCHANGED <<dvars, yjs, stores>>

\* A client's update is applied to the document in memory.
Edit(d, c) ==
  /\ sessions[d] # Closed
  /\ sessions' = [sessions EXCEPT ![d] = Open(c)]
  /\ UNCHANGED <<dvars, yjs, stores>>

\* store, first statement: upsert document_yjs_state.  With the document deleted the
\* foreign key makes it throw, and the hook ends with nothing changed.
StoreYjs(d) ==
  /\ sessions[d] # Closed
  /\ stores[d] = NoStore
  /\ IsLive(d)
  /\ yjs' = [yjs EXCEPT ![d] = Saved(sessions[d].content)]
  /\ stores' = [stores EXCEPT ![d] = YjsSaved(sessions[d].content)]
  /\ UNCHANGED <<dvars, sessions>>

\* store ends early: the state does not convert to ProseMirror JSON, or UPDATE found no row.
StoreStops(d) ==
  /\ stores[d].step = "yjs_saved"
  /\ MayFail \/ ~IsLive(d)
  /\ stores' = [stores EXCEPT ![d] = NoStore]
  /\ UNCHANGED <<dvars, yjs, sessions>>

\* store, second statement: UPDATE documents SET content, version = version + 1 RETURNING
\* version, title, doc_type, tags.  It neither looks at the version it overwrites nor keeps what it held.
StoreBody(d) ==
  LET row == [doc |-> d, version |-> documents[d].version + 1,
              body |-> [documents[d].body EXCEPT !.content = stores[d].content]]
  IN /\ stores[d].step = "yjs_saved"
     /\ IsLive(d)
     /\ documents[d].version < MaxVersion
     /\ documents' = [documents EXCEPT ![d].body = row.body, ![d].version = row.version]
     /\ was' = was \cup {row}
     /\ stores' = [stores EXCEPT ![d] = BodySaved(row)]
     /\ UNCHANGED <<document_versions, requests, yjs, sessions>>

\* Mutant: the snapshot takes the number before the bump, as the API's snapshots do.
StoreVersionBeforeBump(d) ==
  LET row == [stores[d].row EXCEPT !.version = @ - 1]
  IN /\ stores[d].step = "body_saved"
     /\ IF IsLive(d) /\ ~VersionTaken(row)
          THEN document_versions' = document_versions \cup {row}
          ELSE UNCHANGED document_versions
     /\ stores' = [stores EXCEPT ![d] = NoStore]
     /\ UNCHANGED <<documents, was, requests, yjs, sessions>>

\* store, third statement: insert a snapshot of what was just written, under the version
\* just produced.  A row with that number, or no document, makes it throw.
StoreVersion(d) ==
  /\ stores[d].step = "body_saved"
  /\ IF IsLive(d) /\ ~VersionTaken(stores[d].row)
       THEN document_versions' = document_versions \cup {stores[d].row}
       ELSE UNCHANGED document_versions
  /\ stores' = [stores EXCEPT ![d] = NoStore]
  /\ UNCHANGED <<documents, was, requests, yjs, sessions>>

\* The last client has left and the document is unloaded.
Disconnect(d) ==
  /\ sessions[d] # Closed
  /\ stores[d] = NoStore
  /\ sessions' = [sessions EXCEPT ![d] = Closed]
  /\ UNCHANGED <<dvars, yjs, stores>>

\* The server process stops: what is in memory is gone, a hook ends between two statements.
Crash ==
  /\ MayFail
  /\ \E d \in Docs : sessions[d] # Closed
  /\ sessions' = [d \in Docs |-> Closed]
  /\ stores' = [d \in Docs |-> NoStore]
  /\ UNCHANGED <<dvars, yjs>>

-----------------------------------------------------------------------------
(* Specification *)

CollabStep(d) ==
  \/ Connect(d)
  \/ \E c \in Convertible : Edit(d, c)
  \/ StoreYjs(d)
  \/ StoreStops(d)
  \/ StoreBody(d)
  \/ StoreVersion(d)
  \/ Disconnect(d)

CNext ==
  \/ ApiStep
  \/ \E d \in Docs : CDelete(d) \/ CollabStep(d)
  \/ Crash

CSpec == CInit /\ [][CNext]_cvars

-----------------------------------------------------------------------------
(* Properties *)

\* A store whose snapshot is refused by UNIQUE(document_id, version) loses nothing: the
\* row in its way, taken by a request that read the document after the store's UPDATE, is
\* the same snapshot.
RefusedAutosaveIsKept ==
  \A d \in Docs :
    stores[d].step = "body_saved" /\ VersionTaken(stores[d].row) =>
      stores[d].row \in document_versions

\* The inductive invariant behind these and behind the two of DocumentHistory that still
\* hold here: what a request or a store hook is going to insert was once current.
StoresWerePast ==
  \A d \in Docs : stores[d].step = "body_saved" => stores[d].row \in was

PastKept ==
  VersionNamesOneBody /\ WasUpToDate /\ HistoryTruthful /\ RequestsReadThePast

CollabInv == CTypeOK /\ PastKept /\ StoresWerePast

\* "The existing documents.content column remains and stays in sync via Hocuspocus's store
\* hook" (docs/17-collab.md): between stores, content is what the Yjs state holds.
ContentInSync ==
  \A d \in Docs :
    IsLive(d) /\ yjs[d] # NoState /\ stores[d] = NoStore =>
      documents[d].body.content = yjs[d].content
=============================================================================
