------------------------ MODULE CollabDocumentsProofs ------------------------
(***************************************************************************)
(* Theorems about CollabDocuments, for any sets of documents, requests and *)
(* contents: what is left of the history's promises when the store hook    *)
(* of the collaboration server writes the same rows.                       *)
(***************************************************************************)
EXTENDS CollabDocuments, DocumentHistoryProofs

(***************************************************************************)
(* Type correctness.                                                       *)
(***************************************************************************)

\* What a session starts from is a content: the Yjs state, the converted column, or blank.
LEMMA FetchedType ==
  ASSUME CTypeOK, NEW d \in Docs
  PROVE  Fetched(d) \in Contents
  <1>1. Convertible \subseteq Contents /\ Blank \in Contents
    BY BlankAssumption
  <1>2. yjs[d] # NoState => yjs[d].content \in Contents
    BY DEF CTypeOK, NoState
  <1> QED BY <1>1, <1>2 DEF Fetched

\* What a store hook holds between its statements.
LEMMA StoreType ==
  ASSUME CTypeOK, NEW d \in Docs
  PROVE  /\ stores[d].step = "yjs_saved" => stores[d].content \in Contents
         /\ stores[d].step = "body_saved" => stores[d].row \in Row
  BY DEF CTypeOK, NoStore

\* The row that the hook's UPDATE leaves is a row.
LEMMA StoredRowType ==
  ASSUME CTypeOK, NEW d \in Docs, StoreBody(d)
  PROVE  /\ documents[d] \in LiveRow
         /\ [doc |-> d, version |-> documents[d].version + 1,
             body |-> [documents[d].body EXCEPT !.content = stores[d].content]] \in Row
  <1>1. documents[d] \in LiveRow /\ stores[d].content \in Contents
    BY CurrentRowType, StoreType DEF StoreBody, CTypeOK
  <1>2. documents[d].version + 1 \in Version
    BY <1>1 DEF LiveRow, Version
  <1>3. [documents[d].body EXCEPT !.content = stores[d].content] \in Bodies
    BY <1>1 DEF LiveRow, Bodies
  <1> QED BY <1>1, <1>2, <1>3 DEF Row

\* Every step of the two services keeps the types.
LEMMA CTypeStep ==
  ASSUME CTypeOK, [CNext]_cvars
  PROVE  CTypeOK'
  <1> USE DEF CTypeOK
  <1>1. CASE ApiStep
    <2>1. Next /\ UNCHANGED collabVars
      BY <1>1 DEF ApiStep, Next
    <2> QED BY <2>1, TypeStep DEF collabVars
  <1>2. ASSUME NEW d \in Docs, CDelete(d)
        PROVE  CTypeOK'
    <2>1. Next /\ UNCHANGED <<sessions, stores>> /\ yjs' = [yjs EXCEPT ![d] = NoState]
      BY <1>2 DEF CDelete, Next
    <2> QED BY <2>1, TypeStep
  <1>3. ASSUME NEW d \in Docs, Connect(d)
        PROVE  CTypeOK'
    BY <1>3, FetchedType DEF Connect, Open, dvars, TypeOK
  <1>4. ASSUME NEW d \in Docs, NEW c \in Convertible, Edit(d, c)
        PROVE  CTypeOK'
    BY <1>4, BlankAssumption DEF Edit, Open, dvars, TypeOK
  <1>5. ASSUME NEW d \in Docs, StoreYjs(d)
        PROVE  CTypeOK'
    <2>1. sessions[d].content \in Contents
      BY <1>5 DEF StoreYjs
    <2> QED BY <1>5, <2>1 DEF StoreYjs, Saved, YjsSaved, dvars, TypeOK
  <1>6. ASSUME NEW d \in Docs, StoreStops(d)
        PROVE  CTypeOK'
    BY <1>6 DEF StoreStops, dvars, TypeOK
  <1>7. ASSUME NEW d \in Docs, StoreBody(d)
        PROVE  CTypeOK'
    <2> DEFINE row == [doc |-> d, version |-> documents[d].version + 1,
                       body |-> [documents[d].body EXCEPT !.content = stores[d].content]]
    <2>1. documents[d] \in LiveRow /\ row \in Row
      BY <1>7, StoredRowType
    <2>2. [documents[d] EXCEPT !.body = row.body, !.version = row.version] \in LiveRow
      BY <2>1 DEF LiveRow, Row
    <2>3. /\ documents' = [documents EXCEPT ![d] =
                             [documents[d] EXCEPT !.body = row.body, !.version = row.version]]
          /\ was' = was \cup {row} /\ stores' = [stores EXCEPT ![d] = BodySaved(row)]
          /\ UNCHANGED <<document_versions, requests, yjs, sessions>>
      BY <1>7 DEF StoreBody, TypeOK
    <2>4. BodySaved(row) \in [step : {"body_saved"}, row : Row]
      BY <2>1 DEF BodySaved
    <2> HIDE DEF row
    <2> QED BY <2>1, <2>2, <2>3, <2>4 DEF TypeOK
  <1>8. ASSUME NEW d \in Docs, StoreVersion(d)
        PROVE  CTypeOK'
    BY <1>8, StoreType DEF StoreVersion, TypeOK
  <1>9. ASSUME NEW d \in Docs, Disconnect(d)
        PROVE  CTypeOK'
    BY <1>9 DEF Disconnect, dvars, TypeOK
  <1>10. CASE Crash
    BY <1>10 DEF Crash, dvars, TypeOK
  <1>11. CASE UNCHANGED cvars
    BY <1>11 DEF cvars, TypeOK
  <1> QED
    BY <1>1, <1>2, <1>3, <1>4, <1>5, <1>6, <1>7, <1>8, <1>9, <1>10, <1>11
    DEF CNext, CollabStep

(***************************************************************************)
(* The past.  Two writers count the same column up, and each counts from   *)
(* what the column holds, so a version is never given twice; and whatever  *)
(* is inserted into document_versions was read from a row that once was    *)
(* there.  None of this needs UNIQUE(document_id, version).                *)
(***************************************************************************)

\* Writing a row of documents under a number the document has not had keeps the past.
LEMMA RowWritten ==
  ASSUME TypeOK, PastKept,
         NEW d \in Docs, NEW row, row.doc = d,
         \A v \in was : v.doc = d => v.version < row.version,
         row.version \in Nat,
         documents'[d] # Unborn, documents'[d].version = row.version,
         IsLive(d)', CurrentRow(d)' = row,
         \A e \in Docs \ {d} : documents'[e] = documents[e],
         was' = was \cup {row}, document_versions' = document_versions,
         \A r \in Requests : requests'[r] = requests[r] \/ requests'[r] = Idle
  PROVE  PastKept'
  <1> USE DEF PastKept
  <1>1. \A v \in was : v.doc \in Docs /\ v.version \in Nat
    BY DEF TypeOK, Row, Version
  <1>2. \A e \in Docs \ {d} : /\ IsLive(e)' <=> IsLive(e)
                              /\ CurrentRow(e)' = CurrentRow(e)
    BY DEF IsLive, CurrentRow
  <1>3. VersionNamesOneBody'
    BY <1>1 DEF VersionNamesOneBody
  <1>4. WasUpToDate'
    BY <1>1, <1>2 DEF WasUpToDate
  <1>5. HistoryTruthful'
    BY DEF HistoryTruthful
  <1>6. RequestsReadThePast'
    BY DEF RequestsReadThePast, Idle, WritingRequest
  <1> QED BY <1>3, <1>4, <1>5, <1>6

\* The next number is one that the document has not had.
LEMMA NextVersionIsNew ==
  ASSUME TypeOK, PastKept, NEW d \in Docs, IsLive(d)
  PROVE  /\ documents[d].version + 1 \in Nat
         /\ \A v \in was : v.doc = d => v.version < documents[d].version + 1
  <1>1. documents[d].version \in Nat /\ \A v \in was : v.version \in Nat
    BY CurrentRowType DEF LiveRow, TypeOK, Row, Version
  <1> QED BY <1>1 DEF PastKept, WasUpToDate

\* A step that only moves one request, having read nothing but the past.
LEMMA RequestMoves ==
  ASSUME TypeOK, PastKept, UNCHANGED <<documents, was>>, document_versions' \subseteq was,
         NEW r \in Requests, NEW x, requests' = [requests EXCEPT ![r] = x],
         x \in WritingRequest => x.seen \in was /\ x.seen.doc = x.doc
  PROVE  PastKept'
  <1> USE DEF PastKept
  <1>1. \A q \in Requests : requests'[q] = IF q = r THEN x ELSE requests[q]
    BY DEF TypeOK
  <1>2. RequestsReadThePast'
    BY <1>1 DEF RequestsReadThePast
  <1>3. (VersionNamesOneBody /\ WasUpToDate)'
    BY DEF VersionNamesOneBody, WasUpToDate, IsLive, CurrentRow
  <1> QED BY <1>2, <1>3 DEF HistoryTruthful

\* In particular one that ends it, and one that reads a live document.
LEMMA RequestEnds ==
  ASSUME TypeOK, PastKept, UNCHANGED <<documents, document_versions, was>>,
         NEW r \in Requests, Finish(r)
  PROVE  PastKept'
  <1>1. Idle \notin WritingRequest
    BY DEF Idle, WritingRequest
  <1> QED BY <1>1, RequestMoves DEF Finish, PastKept, HistoryTruthful

LEMMA RequestReads ==
  ASSUME TypeOK, PastKept, UNCHANGED <<documents, document_versions, was>>,
         NEW r \in Requests, NEW d \in Docs, NEW s, NEW b, IsLive(d), Read(r, d, s, b)
  PROVE  PastKept'
  <1> DEFINE x == [pc |-> "read", doc |-> d, slug |-> s, body |-> b, seen |-> CurrentRow(d)]
  <1>1. x.seen \in was /\ x.seen.doc = x.doc
    BY DEF PastKept, WasUpToDate, CurrentRow
  <1>2. requests' = [requests EXCEPT ![r] = x] /\ document_versions' \subseteq was
    BY DEF Read, PastKept, HistoryTruthful
  <1> HIDE DEF x
  <1> QED BY <1>1, <1>2, RequestMoves

\* The document service keeps the past, also without the rest of its own invariant.
LEMMA ServiceKeepsPast ==
  ASSUME TypeOK, PastKept, Next
  PROVE  PastKept'
  <1>1. ASSUME NEW d \in Docs, NEW s \in Slugs, NEW b \in Bodies, Create(d, s, b)
        PROVE  PastKept'
    <2> DEFINE row == [doc |-> d, version |-> 1, body |-> b]
    <2>1. documents[d] = Unborn
      BY <1>1 DEF Create, TypeOK, LiveRow, Gone
    <2>2. \A v \in was : v.doc # d
      BY <2>1 DEF PastKept, WasUpToDate
    <2>3. /\ IsLive(d)' /\ CurrentRow(d)' = row
          /\ documents'[d] # Unborn /\ documents'[d].version = row.version
          /\ \A e \in Docs \ {d} : documents'[e] = documents[e]
      BY <1>1 DEF Create, TypeOK, IsLive, CurrentRow, Unborn
    <2>4. was' = was \cup {row} /\ row.doc = d /\ row.version = 1
          /\ document_versions' = document_versions /\ requests' = requests
      BY <1>1 DEF Create
    <2> HIDE DEF row
    <2> QED BY <2>2, <2>3, <2>4, RowWritten
  <1>2. ASSUME NEW d \in Docs, Delete(d)
        PROVE  PastKept'
    <2>1. /\ ~IsLive(d)' /\ documents'[d] # Unborn
          /\ \A e \in Docs \ {d} : documents'[e] = documents[e]
      BY <1>2 DEF Delete, TypeOK, IsLive, Gone, Unborn
    <2>2. /\ was' = was /\ requests' = requests /\ document_versions' \subseteq document_versions
          /\ \A v \in was : v.doc \in Docs
      BY <1>2 DEF Delete, TypeOK, Row
    <2>3. WasUpToDate'
      BY <2>1, <2>2 DEF PastKept, WasUpToDate, IsLive, CurrentRow
    <2> QED BY <2>2, <2>3 DEF PastKept, VersionNamesOneBody, HistoryTruthful, RequestsReadThePast
  <1>3. ASSUME NEW r \in Requests, RequestStep(r)
        PROVE  PastKept'
    <2>1. ASSUME NEW d \in Docs, NEW s \in Slugs, NEW b \in Bodies, UpdateRead(r, d, s, b)
          PROVE  PastKept'
      BY <2>1, RequestReads DEF UpdateRead
    <2>2. ASSUME NEW v \in document_versions, RestorePick(r, v)
          PROVE  PastKept'
      <3> DEFINE x == [pc |-> "picked", doc |-> v.doc, body |-> v.body]
      <3>1. x \notin WritingRequest
        BY DEF WritingRequest
      <3>2. /\ requests' = [requests EXCEPT ![r] = x] /\ UNCHANGED <<documents, was>>
            /\ document_versions' \subseteq was
        BY <2>2 DEF RestorePick, PastKept, HistoryTruthful
      <3> HIDE DEF x
      <3> QED BY <3>1, <3>2, RequestMoves
    <2>3. CASE RestoreRead(r)
      <3> DEFINE d == requests[r].doc
      <3>1. d \in Docs /\ UNCHANGED <<documents, document_versions, was>>
        BY <2>3, PickedRequestType DEF RestoreRead, PickedRequest
      <3>2. CASE IsLive(d)
        <4>1. Read(r, d, documents[d].slug, requests[r].body)
          BY <2>3, <3>2 DEF RestoreRead
        <4> HIDE DEF d
        <4> QED BY <3>1, <3>2, <4>1, RequestReads
      <3>3. CASE ~IsLive(d)
        <4>1. Finish(r)
          BY <2>3, <3>3 DEF RestoreRead
        <4> QED BY <3>1, <4>1, RequestEnds
      <3> QED BY <3>2, <3>3
    <2>4. CASE Snapshot(r)
      <3> DEFINE x == [requests[r] EXCEPT !.pc = "snapshotted"]
      <3>1. requests[r] \in WritingRequest
        BY <2>4, WritingRequestType DEF Snapshot
      <3>2. /\ requests[r].seen \in was /\ requests[r].seen.doc = requests[r].doc
            /\ x.seen = requests[r].seen /\ x.doc = requests[r].doc
        BY <3>1 DEF PastKept, RequestsReadThePast, WritingRequest
      <3>3. requests' = [requests EXCEPT ![r] = x] /\ UNCHANGED <<documents, was>>
        BY <2>4 DEF Snapshot, TypeOK
      <3>4. document_versions' \subseteq was
        BY <2>4, <3>2 DEF Snapshot, PastKept, HistoryTruthful
      <3> HIDE DEF x
      <3> QED BY <3>2, <3>3, <3>4, RequestMoves
    <2>5. CASE SnapshotFails(r)
      BY <2>5, RequestEnds DEF SnapshotFails
    <2>6. CASE Save(r)
      <3>1. PICK d, row : /\ d = requests[r].doc /\ d \in Docs /\ IsLive(d)
                          /\ row = [doc |-> d, version |-> documents[d].version + 1,
                                    body |-> requests[r].body]
        BY <2>6, WritingRequestType DEF Save, WritingRequest
      <3>2. /\ row.doc = d /\ row.version \in Nat
            /\ \A v \in was : v.doc = d => v.version < row.version
        BY <3>1, NextVersionIsNew
      <3>3. /\ IsLive(d)' /\ CurrentRow(d)' = row
            /\ documents'[d] # Unborn /\ documents'[d].version = row.version
            /\ \A e \in Docs \ {d} : documents'[e] = documents[e]
        BY <2>6, <3>1 DEF Save, TypeOK, IsLive, CurrentRow, Unborn
      <3>4. /\ was' = was \cup {row} /\ document_versions' = document_versions
            /\ \A q \in Requests : requests'[q] = requests[q] \/ requests'[q] = Idle
        BY <2>6, <3>1 DEF Save, Finish, TypeOK
      <3> QED BY <3>1, <3>2, <3>3, <3>4, RowWritten
    <2>7. CASE SaveFails(r)
      BY <2>7, RequestEnds DEF SaveFails
    <2>8. CASE Abort(r)
      BY <2>8, RequestEnds DEF Abort
    <2> QED BY <1>3, <2>1, <2>2, <2>3, <2>4, <2>5, <2>6, <2>7, <2>8 DEF RequestStep
  <1> QED BY <1>1, <1>2, <1>3 DEF Next

\* A step that leaves the document service alone keeps the past.
LEMMA PastAlone ==
  ASSUME PastKept, UNCHANGED dvars
  PROVE  PastKept'
  BY DEF PastKept, VersionNamesOneBody, WasUpToDate, HistoryTruthful, RequestsReadThePast,
         IsLive, CurrentRow, dvars

\* The document service never forgets what has been current.
LEMMA WasGrows ==
  ASSUME Next
  PROVE  was \subseteq was'
  BY DEF Next, Create, Delete, RequestStep, UpdateRead, RestorePick, RestoreRead, Snapshot,
         SnapshotFails, Save, SaveFails, Abort

\* CollabInv is inductive.
THEOREM CollabInvariant == CSpec => []CollabInv
<1>1. CInit => CollabInv
  <2> SUFFICES ASSUME CInit PROVE CollabInv
    OBVIOUS
  <2>1. /\ \A d \in Docs : ~IsLive(d) /\ stores[d].step # "body_saved"
        /\ \A r \in Requests : requests[r] \notin WritingRequest
    BY DEF CInit, Init, IsLive, Unborn, NoStore, Idle, WritingRequest
  <2>2. CTypeOK
    BY DEF CInit, Init, CTypeOK, TypeOK
  <2>3. PastKept
    BY <2>1 DEF CInit, Init, PastKept, VersionNamesOneBody, WasUpToDate, HistoryTruthful,
                RequestsReadThePast
  <2> QED BY <2>1, <2>2, <2>3 DEF CollabInv, StoresWerePast
<1>2. CollabInv /\ CTypeOK' /\ [CNext]_cvars => CollabInv'
  <2> SUFFICES ASSUME CollabInv, CTypeOK', [CNext]_cvars PROVE PastKept' /\ StoresWerePast'
    BY DEF CollabInv
  <2> USE DEF CollabInv, CTypeOK
  <2>1. ASSUME Next, stores' = stores
        PROVE  PastKept' /\ StoresWerePast'
    <3>1. PastKept'
      BY <2>1, ServiceKeepsPast
    <3>2. StoresWerePast'
      BY <2>1, WasGrows DEF StoresWerePast
    <3> QED BY <3>1, <3>2
  <2>2. CASE ApiStep
    BY <2>1, <2>2 DEF ApiStep, Next, collabVars
  <2>3. ASSUME NEW d \in Docs, CDelete(d)
        PROVE  PastKept' /\ StoresWerePast'
    BY <2>1, <2>3 DEF CDelete, Next
  <2>4. ASSUME UNCHANGED dvars,
               \A d \in Docs : stores'[d] = stores[d] \/ stores'[d].step # "body_saved"
        PROVE  PastKept' /\ StoresWerePast'
    <3>1. PastKept'
      BY <2>4, PastAlone
    <3>2. StoresWerePast'
      BY <2>4 DEF StoresWerePast, dvars
    <3> QED BY <3>1, <3>2
  <2>5. ASSUME NEW d \in Docs,
               \/ Connect(d) \/ (\E c \in Convertible : Edit(d, c))
               \/ StoreYjs(d) \/ StoreStops(d) \/ Disconnect(d)
        PROVE  PastKept' /\ StoresWerePast'
    <3>1. UNCHANGED dvars
      BY <2>5 DEF Connect, Edit, StoreYjs, StoreStops, Disconnect
    <3>2. \A e \in Docs : stores'[e] = stores[e] \/ stores'[e].step # "body_saved"
      BY <2>5 DEF Connect, Edit, StoreYjs, StoreStops, Disconnect, YjsSaved, NoStore
    <3> QED BY <2>4, <3>1, <3>2
  <2>6. ASSUME NEW d \in Docs, StoreBody(d)
        PROVE  PastKept' /\ StoresWerePast'
    <3> DEFINE row == [doc |-> d, version |-> documents[d].version + 1,
                       body |-> [documents[d].body EXCEPT !.content = stores[d].content]]
    <3>1. IsLive(d) /\ documents[d] \in LiveRow /\ row \in Row
      BY <2>6, StoredRowType DEF StoreBody
    <3>2. /\ row.version \in Nat
          /\ \A v \in was : v.doc = d => v.version < row.version
      BY <3>1, NextVersionIsNew
    <3>3. /\ IsLive(d)' /\ CurrentRow(d)' = row
          /\ documents'[d] # Unborn /\ documents'[d].version = row.version
          /\ \A e \in Docs \ {d} : documents'[e] = documents[e]
      <4>1. documents' = [documents EXCEPT ![d] =
                           [documents[d] EXCEPT !.body = row.body, !.version = row.version]]
        BY <2>6 DEF StoreBody, TypeOK
      <4>2. documents'[d] = [documents[d] EXCEPT !.body = row.body, !.version = row.version]
        BY <4>1 DEF TypeOK
      <4>3. /\ documents'[d].status = "live" /\ documents'[d].body = row.body
            /\ documents'[d].version = row.version
        BY <3>1, <4>2 DEF LiveRow
      <4>4. IsLive(d)' /\ documents'[d] # Unborn
        BY <4>3 DEF IsLive, Unborn
      <4>5. CurrentRow(d)' = row
        BY <4>3 DEF CurrentRow
      <4>6. \A e \in Docs \ {d} : documents'[e] = documents[e]
        BY <4>1 DEF TypeOK
      <4> QED BY <4>3, <4>4, <4>5, <4>6
    <3>4. /\ was' = was \cup {row} /\ row.doc = d /\ document_versions' = document_versions
          /\ requests' = requests /\ stores' = [stores EXCEPT ![d] = BodySaved(row)]
      BY <2>6 DEF StoreBody
    <3> HIDE DEF row
    <3>5. PastKept'
      BY <3>2, <3>3, <3>4, RowWritten
    <3>6. StoresWerePast'
      BY <3>4 DEF StoresWerePast, BodySaved
    <3> QED BY <3>5, <3>6
  <2>7. ASSUME NEW d \in Docs, StoreVersion(d)
        PROVE  PastKept' /\ StoresWerePast'
    <3>1. stores[d].row \in was
      BY <2>7 DEF StoreVersion, StoresWerePast
    <3>2. /\ UNCHANGED <<documents, was, requests>>
          /\ document_versions' \subseteq document_versions \cup {stores[d].row}
          /\ stores' = [stores EXCEPT ![d] = NoStore]
      BY <2>7 DEF StoreVersion
    <3>3. PastKept'
      BY <3>1, <3>2 DEF PastKept, VersionNamesOneBody, WasUpToDate, HistoryTruthful,
                        RequestsReadThePast, IsLive, CurrentRow
    <3>4. StoresWerePast'
      BY <3>2 DEF StoresWerePast, NoStore
    <3> QED BY <3>3, <3>4
  <2>8. CASE Crash
    <3>1. UNCHANGED dvars /\ \A e \in Docs : stores'[e].step # "body_saved"
      BY <2>8 DEF Crash, NoStore
    <3> QED BY <2>4, <3>1
  <2>9. CASE UNCHANGED cvars
    BY <2>4, <2>9 DEF cvars, dvars
  <2> QED BY <2>2, <2>3, <2>5, <2>6, <2>7, <2>8, <2>9 DEF CNext, CollabStep
<1>3. CollabInv /\ [CNext]_cvars => CTypeOK'
  BY CTypeStep DEF CollabInv
<1> QED BY <1>1, <1>2, <1>3, PTL DEF CSpec

\* Every reachable state of the two services is well typed.
COROLLARY CTypeCorrect == CSpec => []CTypeOK
<1>1. CollabInv => CTypeOK
  BY DEF CollabInv
<1> QED BY <1>1, CollabInvariant, PTL

\* No snapshot misreports the past, with the store hook's own numbering beside the API's
\* and the two racing at will (service.go Update and Restore, server.ts store).
COROLLARY SnapshotsStillTellTheTruth == CSpec => []HistoryTruthful
<1>1. CollabInv => HistoryTruthful
  BY DEF CollabInv, PastKept
<1> QED BY <1>1, CollabInvariant, PTL

\* The two writers never give one number of a document to two bodies.
COROLLARY NumbersNameOneBody == CSpec => []VersionNamesOneBody
<1>1. CollabInv => VersionNamesOneBody
  BY DEF CollabInv, PastKept
<1> QED BY <1>1, CollabInvariant, PTL

\* When UNIQUE(document_id, version) refuses the snapshot of a store hook, the row in its
\* way is that snapshot: both were current under one number, which names one body.
COROLLARY NoAutosaveIsLost == CSpec => []RefusedAutosaveIsKept
<1>1. CollabInv => RefusedAutosaveIsKept
  <2> SUFFICES ASSUME CollabInv, NEW d \in Docs, stores[d].step = "body_saved",
                      VersionTaken(stores[d].row)
               PROVE  stores[d].row \in document_versions
    BY DEF RefusedAutosaveIsKept
  <2>1. PICK v \in document_versions :
          v.doc = stores[d].row.doc /\ v.version = stores[d].row.version
    BY DEF VersionTaken
  <2>2. v \in was /\ stores[d].row \in was
    BY DEF CollabInv, PastKept, HistoryTruthful, StoresWerePast
  <2>3. v = stores[d].row
    BY <2>1, <2>2 DEF CollabInv, PastKept, VersionNamesOneBody
  <2> QED BY <2>3
<1> QED BY <1>1, CollabInvariant, PTL
=============================================================================
