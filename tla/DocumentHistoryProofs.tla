----------------------- MODULE DocumentHistoryProofs -----------------------
(***************************************************************************)
(* Theorems about DocumentHistory, for any sets of documents, slugs,       *)
(* bodies and requests and any MaxVersion.                                 *)
(***************************************************************************)
EXTENDS DocumentHistory, TLAPS

(***************************************************************************)
(* Type correctness.                                                       *)
(***************************************************************************)

\* The row a live document holds is a row.
LEMMA CurrentRowType ==
  ASSUME TypeOK, NEW d \in Docs, IsLive(d)
  PROVE  /\ documents[d] \in LiveRow
         /\ CurrentRow(d) \in Row
  BY DEF TypeOK, IsLive, CurrentRow, LiveRow, Unborn, Gone, Row, Version

\* A request past its read holds the record of one that is going to write.
LEMMA WritingRequestType ==
  ASSUME TypeOK, NEW r \in Requests, At(r, "read") \/ At(r, "snapshotted")
  PROVE  requests[r] \in WritingRequest
  BY DEF TypeOK, At, Idle, PickedRequest, WritingRequest

\* A restore that has picked a version holds the record of one.
LEMMA PickedRequestType ==
  ASSUME TypeOK, NEW r \in Requests, At(r, "picked")
  PROVE  requests[r] \in PickedRequest
  BY DEF TypeOK, At, Idle, PickedRequest, WritingRequest

\* Reading a live document makes the record of a request that is going to write.
LEMMA ReadType ==
  ASSUME TypeOK, NEW r \in Requests, NEW d \in Docs, NEW s \in Slugs, NEW b \in Bodies,
         IsLive(d), Read(r, d, s, b)
  PROVE  requests' \in [Requests -> {Idle} \cup PickedRequest \cup WritingRequest]
  <1>1. CurrentRow(d) \in Row
    BY CurrentRowType
  <1>2. [pc |-> "read", doc |-> d, slug |-> s, body |-> b, seen |-> CurrentRow(d)]
          \in WritingRequest
    BY <1>1 DEF WritingRequest
  <1> QED BY <1>2 DEF Read, TypeOK

\* Ending a request leaves the requests well typed.
LEMMA FinishType ==
  ASSUME TypeOK, NEW r \in Requests, Finish(r)
  PROVE  requests' \in [Requests -> {Idle} \cup PickedRequest \cup WritingRequest]
  BY DEF TypeOK, Finish

\* Every step of the document service keeps the types.
LEMMA TypeStep ==
  ASSUME TypeOK, [Next]_dvars
  PROVE  TypeOK'
  <1>1. ASSUME NEW d \in Docs, NEW s \in Slugs, NEW b \in Bodies, Create(d, s, b)
        PROVE  TypeOK'
    <2>1. [status |-> "live", slug |-> s, body |-> b, version |-> 1] \in LiveRow
      BY DEF LiveRow, Version
    <2>2. [doc |-> d, version |-> 1, body |-> b] \in Row
      BY DEF Row, Version
    <2> QED BY <1>1, <2>1, <2>2 DEF Create, TypeOK
  <1>2. ASSUME NEW d \in Docs, Delete(d)
        PROVE  TypeOK'
    BY <1>2 DEF Delete, TypeOK
  <1>3. ASSUME NEW r \in Requests, RequestStep(r)
        PROVE  TypeOK'
    <2>1. ASSUME NEW d \in Docs, NEW s \in Slugs, NEW b \in Bodies, UpdateRead(r, d, s, b)
          PROVE  TypeOK'
      <3>1. requests' \in [Requests -> {Idle} \cup PickedRequest \cup WritingRequest]
        BY <2>1, ReadType DEF UpdateRead
      <3> QED BY <2>1, <3>1 DEF UpdateRead, TypeOK
    <2>2. ASSUME NEW v \in document_versions, RestorePick(r, v)
          PROVE  TypeOK'
      <3>1. [pc |-> "picked", doc |-> v.doc, body |-> v.body] \in PickedRequest
        BY DEF TypeOK, Row, PickedRequest
      <3> QED BY <2>2, <3>1 DEF RestorePick, TypeOK
    <2>3. CASE RestoreRead(r)
      <3>1. requests[r] \in PickedRequest
        BY <2>3, PickedRequestType DEF RestoreRead
      <3>2. requests' \in [Requests -> {Idle} \cup PickedRequest \cup WritingRequest]
        <4> DEFINE d == requests[r].doc
        <4>1. d \in Docs /\ requests[r].body \in Bodies
          BY <3>1 DEF PickedRequest
        <4>2. CASE IsLive(d)
          <5>1. documents[d].slug \in Slugs
            BY <4>1, <4>2, CurrentRowType DEF LiveRow
          <5>2. Read(r, d, documents[d].slug, requests[r].body)
            BY <2>3, <4>2 DEF RestoreRead
          <5> HIDE DEF d
          <5> QED BY <4>1, <4>2, <5>1, <5>2, ReadType
        <4>3. CASE ~IsLive(d)
          BY <2>3, <4>3, FinishType DEF RestoreRead
        <4> QED BY <4>2, <4>3
      <3> QED BY <2>3, <3>2 DEF RestoreRead, TypeOK
    <2>4. CASE Snapshot(r)
      <3>1. requests[r] \in WritingRequest
        BY <2>4, WritingRequestType DEF Snapshot
      <3>2. requests[r].seen \in Row
        BY <3>1 DEF WritingRequest
      <3>3. [requests[r] EXCEPT !.pc = "snapshotted"] \in WritingRequest
        BY <3>1 DEF WritingRequest
      <3> QED BY <2>4, <3>2, <3>3 DEF Snapshot, TypeOK
    <2>5. CASE SnapshotFails(r)
      BY <2>5, FinishType DEF SnapshotFails, TypeOK
    <2>6. CASE Save(r)
      <3>1. requests[r] \in WritingRequest
        BY <2>6, WritingRequestType DEF Save
      <3> DEFINE d == requests[r].doc
                 new == [status |-> "live", slug |-> requests[r].slug,
                         body |-> requests[r].body, version |-> documents[d].version + 1]
      <3>2. d \in Docs /\ IsLive(d) /\ documents[d] \in LiveRow
        BY <2>6, <3>1, CurrentRowType DEF Save, WritingRequest
      <3>3. new \in LiveRow
        BY <3>1, <3>2 DEF WritingRequest, LiveRow, Version
      <3>4. [doc |-> d, version |-> new.version, body |-> new.body] \in Row
        BY <3>2, <3>3 DEF LiveRow, Row
      <3>5. documents' = [documents EXCEPT ![d] = new]
        BY <2>6 DEF Save
      <3>6. was' = was \cup {[doc |-> d, version |-> new.version, body |-> new.body]}
        BY <2>6 DEF Save
      <3>7. requests' \in [Requests -> {Idle} \cup PickedRequest \cup WritingRequest]
        BY <2>6, FinishType DEF Save
      <3> HIDE DEF new, d
      <3> QED BY <2>6, <3>2, <3>3, <3>4, <3>5, <3>6, <3>7 DEF Save, TypeOK
    <2>7. CASE SaveFails(r)
      BY <2>7, FinishType DEF SaveFails, TypeOK
    <2>8. CASE Abort(r)
      BY <2>8, FinishType DEF Abort, TypeOK
    <2> QED BY <1>3, <2>1, <2>2, <2>3, <2>4, <2>5, <2>6, <2>7, <2>8 DEF RequestStep
  <1>4. CASE UNCHANGED dvars
    BY <1>4 DEF dvars, TypeOK
  <1> QED BY <1>1, <1>2, <1>3, <1>4 DEF Next

\* Every reachable state is well typed (the rows of documents and document_versions, and
\* what requests hold between their statements).
THEOREM TypeCorrect == Spec => []TypeOK
<1>1. Init => TypeOK
  BY DEF Init, TypeOK
<1>2. TypeOK /\ [Next]_dvars => TypeOK'
  BY TypeStep
<1> QED BY <1>1, <1>2, PTL DEF Spec

(***************************************************************************)
(* The version history.  HistoryInv is inductive: the reason a snapshot    *)
(* never misreports the past is that its INSERT only succeeds while the    *)
(* row it read is still the current one.  If the document has moved on,    *)
(* HistoryComplete says the number is taken already; if it has not,        *)
(* VersionNamesOneBody says the row read is the row that is there.         *)
(***************************************************************************)

\* A step that only moves one request, to a state in which it is not about to save and
\* has read nothing but the past, keeps the invariant.
LEMMA RequestOnlyStep ==
  ASSUME HistoryInv, TypeOK', UNCHANGED <<documents, document_versions, was>>,
         NEW r \in Requests, NEW x, requests' = [requests EXCEPT ![r] = x],
         x.pc # "snapshotted",
         x \in WritingRequest => x.seen \in was /\ x.seen.doc = x.doc
  PROVE  HistoryInv'
  <1>1. \A q \in Requests : requests'[q] = IF q = r THEN x ELSE requests[q]
    BY DEF HistoryInv, TypeOK
  <1>2. \A q \in Requests : At(q, "snapshotted")' => q # r /\ At(q, "snapshotted") /\ requests'[q] = requests[q]
    BY <1>1 DEF At
  <1>3. /\ \A e \in Docs : IsLive(e)' <=> IsLive(e)
        /\ \A e \in Docs : CurrentRow(e)' = CurrentRow(e)
    BY DEF IsLive, CurrentRow
  <1>4. (VersionNamesOneBody /\ WasUpToDate /\ HistoryTruthful
           /\ SnapshotsOfLiveDocuments /\ HistoryComplete)'
    BY DEF HistoryInv, VersionNamesOneBody, WasUpToDate, HistoryTruthful,
           SnapshotsOfLiveDocuments, HistoryComplete, IsLive, CurrentRow
  <1>5. RequestsReadThePast'
    BY <1>1 DEF HistoryInv, RequestsReadThePast
  <1>6. SnapshotTaken'
    BY <1>2 DEF HistoryInv, SnapshotTaken, IsLive
  <1>7. SaveSupersedesWhatItRead'
    BY <1>2 DEF HistoryInv, SaveSupersedesWhatItRead, IsLive, CurrentRow
  <1>8. SoleSaver'
    BY <1>2 DEF HistoryInv, SoleSaver, IsLive
  <1> QED BY <1>4, <1>5, <1>6, <1>7, <1>8 DEF HistoryInv

\* In particular one that ends a request.
LEMMA FinishStep ==
  ASSUME HistoryInv, TypeOK', UNCHANGED <<documents, document_versions, was>>,
         NEW r \in Requests, Finish(r)
  PROVE  HistoryInv'
  <1>1. Idle.pc # "snapshotted" /\ Idle \notin WritingRequest
    BY DEF Idle, WritingRequest
  <1> QED BY <1>1, RequestOnlyStep DEF Finish

\* And one that reads a live document.
LEMMA ReadStep ==
  ASSUME HistoryInv, TypeOK', UNCHANGED <<documents, document_versions, was>>,
         NEW r \in Requests, NEW d \in Docs, NEW s \in Slugs, NEW b \in Bodies,
         IsLive(d), Read(r, d, s, b)
  PROVE  HistoryInv'
  <1> DEFINE x == [pc |-> "read", doc |-> d, slug |-> s, body |-> b, seen |-> CurrentRow(d)]
  <1>1. x.pc # "snapshotted" /\ x.seen = CurrentRow(d) /\ x.doc = d
    OBVIOUS
  <1>2. CurrentRow(d) \in was /\ CurrentRow(d).doc = d
    BY DEF HistoryInv, WasUpToDate, CurrentRow
  <1>3. requests' = [requests EXCEPT ![r] = x]
    BY DEF Read
  <1> HIDE DEF x
  <1> QED BY <1>1, <1>2, <1>3, RequestOnlyStep

\* A request that may insert its snapshot has read the row that is current now, and no
\* other request is about to save the document.
LEMMA SnapshotIsOfCurrentRow ==
  ASSUME HistoryInv, NEW r \in Requests, Snapshot(r)
  PROVE  /\ requests[r].doc \in Docs /\ requests[r] \in WritingRequest
         /\ requests[r].seen \in was
         /\ requests[r].seen = CurrentRow(requests[r].doc)
         /\ \A q \in Requests : At(q, "snapshotted") => requests[q].doc # requests[r].doc
  <1> DEFINE d == requests[r].doc
             seen == requests[r].seen
  <1>1. requests[r] \in WritingRequest /\ d \in Docs /\ seen \in Row
    BY WritingRequestType DEF HistoryInv, Snapshot, WritingRequest
  <1>2. seen \in was /\ seen.doc = d
    BY <1>1 DEF HistoryInv, RequestsReadThePast
  <1>3. IsLive(d) /\ ~VersionTaken(seen)
    BY DEF Snapshot
  <1>4. documents[d].version \in Version
    BY <1>1, <1>3, CurrentRowType DEF HistoryInv, LiveRow
  <1>5. seen.version \in Version /\ seen.version <= documents[d].version
    BY <1>1, <1>2, <1>3 DEF HistoryInv, WasUpToDate, Row
  <1>6. ~(seen.version < documents[d].version)
    <2> SUFFICES ASSUME seen.version < documents[d].version PROVE FALSE
      OBVIOUS
    <2>1. seen.version \in 1 .. documents[d].version - 1
      BY <1>4, <1>5 DEF Version
    <2>2. PICK v \in document_versions : v.doc = d /\ v.version = seen.version
      BY <1>1, <1>3, <2>1 DEF HistoryInv, HistoryComplete
    <2> QED BY <1>2, <1>3, <2>2 DEF VersionTaken
  <1>7. CurrentRow(d) \in was /\ CurrentRow(d).doc = d
          /\ CurrentRow(d).version = documents[d].version
    BY <1>1, <1>3 DEF HistoryInv, WasUpToDate, CurrentRow
  <1>8. seen.version = documents[d].version
    BY <1>4, <1>5, <1>6 DEF Version
  <1>9. seen = CurrentRow(d)
    BY <1>2, <1>7, <1>8 DEF HistoryInv, VersionNamesOneBody
  <1>10. ASSUME NEW q \in Requests, At(q, "snapshotted"), requests[q].doc = d
         PROVE  FALSE
    <2>1. CurrentRow(d) = requests[q].seen /\ requests[q].seen \in document_versions
      BY <1>3, <1>10 DEF HistoryInv, SaveSupersedesWhatItRead, SnapshotTaken
    <2> QED BY <1>3, <1>9, <2>1 DEF VersionTaken
  <1> QED BY <1>1, <1>2, <1>9, <1>10

\* HistoryInv is inductive.
THEOREM HistoryInvariant == Spec => []HistoryInv
<1>1. Init => HistoryInv
  <2> SUFFICES ASSUME Init PROVE HistoryInv
    OBVIOUS
  <2>1. /\ \A d \in Docs : ~IsLive(d)
        /\ \A r \in Requests : requests[r] = Idle
    BY DEF Init, IsLive, Unborn
  <2>2. TypeOK
    BY DEF Init, TypeOK
  <2> QED BY <2>1, <2>2 DEF Init, HistoryInv, VersionNamesOneBody, WasUpToDate, HistoryTruthful,
             SnapshotsOfLiveDocuments, HistoryComplete, RequestsReadThePast, SnapshotTaken,
             SaveSupersedesWhatItRead, SoleSaver, At, Idle, WritingRequest
<1>2. HistoryInv /\ TypeOK' /\ [Next]_dvars => HistoryInv'
  <2> SUFFICES ASSUME HistoryInv, TypeOK', [Next]_dvars PROVE HistoryInv'
    OBVIOUS
  <2> USE DEF HistoryInv
  <2>1. ASSUME NEW d \in Docs, NEW s \in Slugs, NEW b \in Bodies, Create(d, s, b)
        PROVE  HistoryInv'
    <3> DEFINE row == [doc |-> d, version |-> 1, body |-> b]
    <3>1. documents[d] = Unborn
      BY <2>1 DEF Create, TypeOK, LiveRow, Gone
    <3>2. /\ \A v \in was : v.doc # d
          /\ \A v \in document_versions : v.doc # d
      BY <3>1 DEF WasUpToDate, HistoryTruthful
    <3>3. \A r \in Requests : At(r, "snapshotted") => requests[r].doc # d
      BY <3>2, WritingRequestType DEF RequestsReadThePast
    <3>4. /\ IsLive(d)' /\ CurrentRow(d)' = row
          /\ documents'[d] # Unborn /\ documents'[d].version = 1
      BY <2>1 DEF Create, TypeOK, IsLive, CurrentRow, Unborn
    <3>5. \A e \in Docs \ {d} : /\ documents'[e] = documents[e]
                                /\ IsLive(e)' <=> IsLive(e)
                                /\ CurrentRow(e)' = CurrentRow(e)
      BY <2>1 DEF Create, TypeOK, IsLive, CurrentRow
    <3>6. /\ was' = was \cup {row} /\ row.doc = d /\ row.version = 1
          /\ document_versions' = document_versions /\ requests' = requests
      BY <2>1 DEF Create
    <3>7. \A v \in was : v.doc \in Docs
      BY DEF TypeOK, Row
    <3>8. \A r \in Requests : At(r, "snapshotted")' =>
            At(r, "snapshotted") /\ requests[r].doc \in Docs \ {d}
      BY <3>3, <3>6, WritingRequestType DEF At, WritingRequest
    <3> HIDE DEF row
    <3>9. VersionNamesOneBody'
      BY <3>2, <3>6 DEF VersionNamesOneBody
    <3>10. WasUpToDate'
      BY <3>2, <3>4, <3>5, <3>6, <3>7 DEF WasUpToDate
    <3>11. (HistoryTruthful /\ SnapshotsOfLiveDocuments)'
      BY <3>2, <3>5, <3>6, <3>7 DEF HistoryTruthful, SnapshotsOfLiveDocuments
    <3>12. HistoryComplete'
      <4> SUFFICES ASSUME NEW e \in Docs, IsLive(e)', NEW n \in 1 .. documents'[e].version - 1
                   PROVE  \E v \in document_versions' : v.doc = e /\ v.version = n
        BY DEF HistoryComplete
      <4>1. e # d
        BY <3>4
      <4> QED BY <3>5, <3>6, <4>1 DEF HistoryComplete
    <3>13. RequestsReadThePast'
      BY <3>6 DEF RequestsReadThePast
    <3>14. (SnapshotTaken /\ SaveSupersedesWhatItRead /\ SoleSaver)'
      BY <3>5, <3>6, <3>8 DEF SnapshotTaken, SaveSupersedesWhatItRead, SoleSaver
    <3> QED BY <3>9, <3>10, <3>11, <3>12, <3>13, <3>14
  <2>2. ASSUME NEW d \in Docs, Delete(d)
        PROVE  HistoryInv'
    <3>1. ~IsLive(d)' /\ documents'[d] # Unborn
      BY <2>2 DEF Delete, TypeOK, IsLive, Gone, Unborn
    <3>2. \A e \in Docs \ {d} : /\ documents'[e] = documents[e]
                                /\ IsLive(e)' <=> IsLive(e)
                                /\ CurrentRow(e)' = CurrentRow(e)
      BY <2>2 DEF Delete, TypeOK, IsLive, CurrentRow
    <3>3. /\ was' = was /\ requests' = requests
          /\ document_versions' = {v \in document_versions : v.doc # d}
      BY <2>2 DEF Delete
    <3>4. \A v \in was : v.doc \in Docs
      BY DEF TypeOK, Row
    <3>5. \A r \in Requests : At(r, "snapshotted")' =>
            /\ At(r, "snapshotted") /\ requests'[r] = requests[r] /\ requests[r].doc \in Docs
            /\ requests[r].seen.doc = requests[r].doc
      <4>1. \A r \in Requests : At(r, "snapshotted")' => At(r, "snapshotted")
        BY <3>3 DEF At
      <4>2. \A r \in Requests : At(r, "snapshotted") => requests[r] \in WritingRequest
        BY WritingRequestType
      <4>3. \A r \in Requests : requests[r] \in WritingRequest => requests[r].doc \in Docs
        BY DEF WritingRequest
      <4> QED BY <3>3, <4>1, <4>2, <4>3 DEF RequestsReadThePast
    <3>6. VersionNamesOneBody'
      BY <3>3 DEF VersionNamesOneBody
    <3>7. WasUpToDate'
      BY <3>1, <3>2, <3>3, <3>4 DEF WasUpToDate
    <3>8. (HistoryTruthful /\ SnapshotsOfLiveDocuments)'
      BY <3>2, <3>3, <3>4 DEF HistoryTruthful, SnapshotsOfLiveDocuments
    <3>9. HistoryComplete'
      BY <3>1, <3>2, <3>3 DEF HistoryComplete
    <3>10. RequestsReadThePast'
      BY <3>3 DEF RequestsReadThePast
    <3>11. (SnapshotTaken /\ SaveSupersedesWhatItRead /\ SoleSaver)'
      BY <3>1, <3>2, <3>3, <3>5 DEF SnapshotTaken, SaveSupersedesWhatItRead, SoleSaver
    <3> QED BY <3>6, <3>7, <3>8, <3>9, <3>10, <3>11
  <2>3. ASSUME NEW r \in Requests, RequestStep(r)
        PROVE  HistoryInv'
    <3>1. ASSUME NEW d \in Docs, NEW s \in Slugs, NEW b \in Bodies, UpdateRead(r, d, s, b)
          PROVE  HistoryInv'
      BY <3>1, ReadStep DEF UpdateRead
    <3>2. ASSUME NEW v \in document_versions, RestorePick(r, v)
          PROVE  HistoryInv'
      <4> DEFINE x == [pc |-> "picked", doc |-> v.doc, body |-> v.body]
      <4>1. x.pc # "snapshotted" /\ x \notin WritingRequest
        BY DEF WritingRequest
      <4>2. requests' = [requests EXCEPT ![r] = x]
        BY <3>2 DEF RestorePick
      <4>3. UNCHANGED <<documents, document_versions, was>>
        BY <3>2 DEF RestorePick
      <4> HIDE DEF x
      <4> QED BY <4>1, <4>2, <4>3, RequestOnlyStep
    <3>3. CASE RestoreRead(r)
      <4> DEFINE d == requests[r].doc
      <4>1. d \in Docs /\ requests[r].body \in Bodies
        BY <3>3, PickedRequestType DEF RestoreRead, PickedRequest
      <4>2. CASE IsLive(d)
        <5>1. documents[d].slug \in Slugs
          BY <4>1, <4>2, CurrentRowType DEF LiveRow
        <5>2. Read(r, d, documents[d].slug, requests[r].body)
          BY <3>3, <4>2 DEF RestoreRead
        <5>3. UNCHANGED <<documents, document_versions, was>>
          BY <3>3 DEF RestoreRead
        <5> HIDE DEF d
        <5> QED BY <4>1, <4>2, <5>1, <5>2, <5>3, ReadStep
      <4>3. CASE ~IsLive(d)
        BY <3>3, <4>3, FinishStep DEF RestoreRead
      <4> QED BY <4>2, <4>3
    <3>4. CASE Snapshot(r)
      <4> DEFINE d == requests[r].doc
                 seen == requests[r].seen
      <4>1. /\ d \in Docs /\ seen \in was /\ seen = CurrentRow(d)
            /\ \A q \in Requests : At(q, "snapshotted") => requests[q].doc # d
            /\ requests[r] \in WritingRequest
        BY <3>4, SnapshotIsOfCurrentRow
      <4>2. /\ IsLive(d) /\ seen.doc = d
            /\ documents' = documents /\ was' = was
            /\ document_versions' = document_versions \cup {seen}
        BY <3>4, <4>1 DEF Snapshot, CurrentRow
      <4>3. /\ At(r, "snapshotted")' /\ requests'[r].doc = d /\ requests'[r].seen = seen
            /\ \A q \in Requests \ {r} : requests'[q] = requests[q]
        BY <3>4, <4>1 DEF Snapshot, At, TypeOK, WritingRequest
      <4>4. /\ \A e \in Docs : IsLive(e)' <=> IsLive(e)
            /\ \A e \in Docs : CurrentRow(e)' = CurrentRow(e)
        BY <4>2 DEF IsLive, CurrentRow
      <4>5. \A q \in Requests \ {r} : At(q, "snapshotted")' =>
              /\ At(q, "snapshotted") /\ requests[q].doc \in Docs
              /\ requests[q].doc # d /\ requests'[q].doc # d
        BY <4>1, <4>3, WritingRequestType DEF At, WritingRequest
      <4>6. \A v \in was : v.doc \in Docs
        BY DEF TypeOK, Row
      <4> HIDE DEF d, seen
      <4>7. (VersionNamesOneBody /\ WasUpToDate)'
        BY <4>2 DEF VersionNamesOneBody, WasUpToDate, IsLive, CurrentRow
      <4>8. (HistoryTruthful /\ SnapshotsOfLiveDocuments)'
        BY <4>1, <4>2, <4>4, <4>6 DEF HistoryTruthful, SnapshotsOfLiveDocuments
      <4>9. HistoryComplete'
        BY <4>2, <4>4 DEF HistoryComplete
      <4>10. RequestsReadThePast'
        BY <4>1, <4>2, <4>3 DEF RequestsReadThePast
      <4>11. SnapshotTaken'
        BY <4>2, <4>3, <4>4, <4>5 DEF SnapshotTaken
      <4>12. SaveSupersedesWhatItRead'
        BY <4>1, <4>2, <4>3, <4>4, <4>5 DEF SaveSupersedesWhatItRead
      <4>13. SoleSaver'
        BY <4>3, <4>4, <4>5 DEF SoleSaver
      <4> QED BY <4>7, <4>8, <4>9, <4>10, <4>11, <4>12, <4>13
    <3>5. CASE SnapshotFails(r)
      BY <3>5, FinishStep DEF SnapshotFails
    <3>6. CASE Save(r)
      <4>1. requests[r] \in WritingRequest
        BY <3>6, WritingRequestType DEF Save
      <4>2. PICK d, n, new, row :
              /\ d \in Docs
              /\ d = requests[r].doc /\ n = documents[d].version
              /\ new = [status |-> "live", slug |-> requests[r].slug,
                        body |-> requests[r].body, version |-> n + 1]
              /\ row = [doc |-> d, version |-> n + 1, body |-> requests[r].body]
        BY <4>1 DEF WritingRequest
      <4>3. IsLive(d) /\ n \in Version
        BY <3>6, <4>2, CurrentRowType DEF Save, LiveRow
      <4>4. CurrentRow(d) \in document_versions /\ CurrentRow(d).doc = d /\ CurrentRow(d).version = n
        BY <3>6, <4>2, <4>3 DEF Save, SnapshotTaken, SaveSupersedesWhatItRead, CurrentRow
      <4>5. /\ documents' = [documents EXCEPT ![d] = new]
            /\ was' = was \cup {row} /\ document_versions' = document_versions
            /\ requests' = [requests EXCEPT ![r] = Idle]
        BY <3>6, <4>2 DEF Save, Finish
      <4>6. /\ IsLive(d)' /\ documents'[d] # Unborn /\ documents'[d].version = n + 1
            /\ CurrentRow(d)' = row /\ row.doc = d /\ row.version = n + 1
        BY <4>2, <4>3, <4>5 DEF TypeOK, IsLive, CurrentRow, Unborn
      <4>7. \A e \in Docs \ {d} : /\ documents'[e] = documents[e]
                                  /\ IsLive(e)' <=> IsLive(e)
                                  /\ CurrentRow(e)' = CurrentRow(e)
        BY <4>5 DEF TypeOK, IsLive, CurrentRow
      <4>8. \A v \in was : v.doc \in Docs /\ v.version \in Version
        BY DEF TypeOK, Row
      <4>9. \A q \in Requests : At(q, "snapshotted")' =>
              /\ At(q, "snapshotted") /\ requests'[q] = requests[q]
              /\ requests[q].doc \in Docs \ {d}
        <5>1. \A q \in Requests : At(q, "snapshotted")' => q # r /\ requests'[q] = requests[q]
          BY <4>5 DEF TypeOK, At, Idle
        <5>2. \A q \in Requests \ {r} : At(q, "snapshotted") => requests[q].doc \in Docs \ {d}
          BY <3>6, <4>2, <4>3, WritingRequestType DEF Save, SoleSaver, WritingRequest
        <5> QED BY <5>1, <5>2 DEF At
      <4>10. \A q \in Requests : requests'[q] = requests[q] \/ requests'[q] \notin WritingRequest
        BY <4>5 DEF TypeOK, Idle, WritingRequest
      <4>11. VersionNamesOneBody'
        <5>1. \A v \in was : v.doc = d => v.version # n + 1
          BY <4>3, <4>4, <4>8 DEF WasUpToDate, CurrentRow, Version
        <5> QED BY <4>5, <4>6, <5>1 DEF VersionNamesOneBody
      <4>12. WasUpToDate'
        <5>1. \A v \in was : v.doc = d => v.version <= n + 1
          BY <4>3, <4>4, <4>8 DEF WasUpToDate, CurrentRow, Version
        <5> QED BY <4>3, <4>5, <4>6, <4>7, <4>8, <5>1 DEF WasUpToDate, Version
      <4>13. (HistoryTruthful /\ SnapshotsOfLiveDocuments)'
        BY <4>5, <4>6, <4>7, <4>8 DEF HistoryTruthful, SnapshotsOfLiveDocuments
      <4>14. HistoryComplete'
        <5> SUFFICES ASSUME NEW e \in Docs, IsLive(e)', NEW k \in 1 .. documents'[e].version - 1
                     PROVE  \E v \in document_versions' : v.doc = e /\ v.version = k
          BY DEF HistoryComplete
        <5>1. CASE e # d
          BY <4>5, <4>7, <5>1 DEF HistoryComplete
        <5>2. CASE e = d /\ k = n
          BY <4>4, <4>5, <5>2
        <5>3. CASE e = d /\ k # n
          <6>1. documents[d].version = n
            BY <4>4 DEF CurrentRow
          <6>2. k \in 1 .. documents[d].version - 1
            BY <4>3, <4>6, <5>3, <6>1 DEF Version
          <6> QED BY <4>3, <4>5, <5>3, <6>2 DEF HistoryComplete
        <5> QED BY <5>1, <5>2, <5>3
      <4>15. RequestsReadThePast'
        BY <4>5, <4>10 DEF RequestsReadThePast
      <4>16. (SnapshotTaken /\ SaveSupersedesWhatItRead /\ SoleSaver)'
        BY <4>5, <4>7, <4>9 DEF SnapshotTaken, SaveSupersedesWhatItRead, SoleSaver
      <4> QED BY <4>11, <4>12, <4>13, <4>14, <4>15, <4>16
    <3>7. CASE SaveFails(r)
      BY <3>7, FinishStep DEF SaveFails
    <3>8. CASE Abort(r)
      BY <3>8, FinishStep DEF Abort
    <3> QED BY <2>3, <3>1, <3>2, <3>3, <3>4, <3>5, <3>6, <3>7, <3>8 DEF RequestStep
  <2>4. CASE UNCHANGED dvars
    BY <2>4 DEF dvars, VersionNamesOneBody, WasUpToDate, HistoryTruthful,
       SnapshotsOfLiveDocuments, HistoryComplete, RequestsReadThePast, SnapshotTaken,
       SaveSupersedesWhatItRead, SoleSaver, At, IsLive, CurrentRow
  <2> QED BY <2>1, <2>2, <2>3, <2>4 DEF Next
<1> QED BY <1>1, <1>2, TypeCorrect, PTL DEF Spec

\* No snapshot in document_versions misreports what the document held under that number.
THEOREM SnapshotsTellTheTruth == Spec => []HistoryTruthful
<1>1. HistoryInv => HistoryTruthful
  BY DEF HistoryInv
<1> QED BY <1>1, HistoryInvariant, PTL

\* The API by itself leaves no gap in the history of a document.
THEOREM NoVersionIsMissing == Spec => []HistoryComplete
<1>1. HistoryInv => HistoryComplete
  BY DEF HistoryInv
<1> QED BY <1>1, HistoryInvariant, PTL

\* No API request overwrites an update it has not seen.
THEOREM NoUpdateIsLost == Spec => []SaveSupersedesWhatItRead
<1>1. HistoryInv => SaveSupersedesWhatItRead
  BY DEF HistoryInv
<1> QED BY <1>1, HistoryInvariant, PTL

(***************************************************************************)
(* Refinement.  A request's three statements are one VEdit, which takes    *)
(* place at Save; a snapshot whose version is still the current one is not *)
(* yet past.                                                               *)
(***************************************************************************)

\* A step that leaves the documents alone, and adds at most a snapshot of the current
\* version of one, is a stuttering step.
LEMMA AbstractStutter ==
  ASSUME documents' = documents,
         \A v : IsLive(v.doc) /\ v.version < documents[v.doc].version =>
                  (v \in document_versions' <=> v \in document_versions)
  PROVE  UNCHANGED Abstract!vvars
  <1>1. [d \in Docs |-> CurrentOf(d)]' = [d \in Docs |-> CurrentOf(d)]
    BY DEF CurrentOf, IsLive
  <1>2. Past' = Past
    BY DEF Past, IsLive
  <1> QED BY <1>1, <1>2 DEF Abstract!vvars

\* The document service implements VersionedDocuments.
THEOREM Refinement == Spec => ImplementsVersionedDocuments
<1>1. Init => Abstract!VInit
  <2> SUFFICES ASSUME Init PROVE Abstract!VInit
    OBVIOUS
  <2>1. [d \in Docs |-> CurrentOf(d)] = [d \in Docs |-> Abstract!Unborn]
    BY DEF Init, CurrentOf, IsLive, Unborn, Abstract!Unborn
  <2>2. Past = {}
    BY DEF Init, Past
  <2> QED BY <2>1, <2>2 DEF Abstract!VInit
<1>2. HistoryInv /\ TypeOK' /\ [Next]_dvars => [Abstract!VNext]_(Abstract!vvars)
  <2> SUFFICES ASSUME HistoryInv, TypeOK', [Next]_dvars
               PROVE  [Abstract!VNext]_(Abstract!vvars)
    OBVIOUS
  <2> DEFINE current == [d \in Docs |-> CurrentOf(d)]
  <2> TypeOK /\ HistoryTruthful /\ SnapshotsOfLiveDocuments
    BY DEF HistoryInv
  <2>0. \A v \in document_versions : v \in Row /\ IsLive(v.doc)
    BY DEF TypeOK, SnapshotsOfLiveDocuments
  <2>1. ASSUME NEW d \in Docs, NEW s \in Slugs, NEW b \in Bodies, Create(d, s, b)
        PROVE  Abstract!VCreate(d, b)
    <3>1. ~IsLive(d) /\ documents[d] = Unborn
      BY <2>1 DEF Create, TypeOK, IsLive, LiveRow, Gone, Unborn
    <3>2. current[d].status = "unborn"
      BY <3>1 DEF CurrentOf, Unborn
    <3>3. current' = [current EXCEPT ![d] = Abstract!Live(b, 1)]
      BY <2>1 DEF Create, TypeOK, CurrentOf, IsLive, Abstract!Live
    <3>4. Past' = Past
      BY <2>0, <2>1, <3>1 DEF Create, TypeOK, Past, IsLive, Row
    <3> QED BY <3>2, <3>3, <3>4 DEF Abstract!VCreate
  <2>2. ASSUME NEW d \in Docs, Delete(d)
        PROVE  Abstract!VDelete(d)
    <3>1. current[d].status = "live"
      BY <2>2 DEF Delete, CurrentOf
    <3>2. current' = [current EXCEPT ![d] = Abstract!Gone]
      BY <2>2 DEF Delete, TypeOK, CurrentOf, IsLive, Gone, Abstract!Gone
    <3>3. Past' = {v \in Past : v.doc # d}
      BY <2>0, <2>2 DEF Delete, TypeOK, Past, IsLive, Gone, Row
    <3> QED BY <3>1, <3>2, <3>3 DEF Abstract!VDelete
  <2>3. ASSUME NEW r \in Requests, Save(r)
        PROVE  Abstract!VEdit(requests[r].doc, requests[r].body)
    <3>1. requests[r] \in WritingRequest
      BY <2>3, WritingRequestType DEF Save
    <3>2. PICK d, n, b, new :
            /\ d \in Docs
            /\ d = requests[r].doc /\ n = documents[d].version /\ b = requests[r].body
            /\ new = [status |-> "live", slug |-> requests[r].slug,
                      body |-> requests[r].body, version |-> n + 1]
      BY <3>1 DEF WritingRequest
    <3>3. IsLive(d) /\ n \in Version
      BY <2>3, <3>2, CurrentRowType DEF Save, LiveRow
    <3>4. CurrentRow(d) \in document_versions /\ CurrentRow(d) \in was
      BY <2>3, <3>2, <3>3
      DEF Save, HistoryInv, SnapshotTaken, SaveSupersedesWhatItRead, WasUpToDate
    <3>5. documents' = [documents EXCEPT ![d] = new] /\ document_versions' = document_versions
      BY <2>3, <3>2 DEF Save
    <3>6. current[d].status = "live" /\ current[d].version = n /\ current[d].body = documents[d].body
      BY <3>2, <3>3 DEF CurrentOf
    <3>7. current' = [current EXCEPT ![d] = Abstract!Live(b, current[d].version + 1)]
      BY <3>2, <3>5, <3>6 DEF TypeOK, CurrentOf, IsLive, Abstract!Live
    <3>8. CurrentRow(d).doc = d /\ CurrentRow(d).version = n
      BY <3>2 DEF CurrentRow
    <3>9. \A v \in document_versions : v.doc = d /\ v.version = n => v = CurrentRow(d)
      BY <3>4, <3>8 DEF HistoryInv, HistoryTruthful, VersionNamesOneBody
    <3>10. /\ IsLive(d)' /\ documents'[d].version = n + 1
           /\ \A e \in Docs \ {d} : documents'[e] = documents[e]
      BY <3>2, <3>5 DEF TypeOK, IsLive
    <3>11. \A v \in document_versions :
             (IsLive(v.doc)' /\ v.version < documents'[v.doc].version) <=>
               v = CurrentRow(d) \/ (IsLive(v.doc) /\ v.version < documents[v.doc].version)
      <4> SUFFICES ASSUME NEW v \in document_versions
                   PROVE  (IsLive(v.doc)' /\ v.version < documents'[v.doc].version) <=>
                            v = CurrentRow(d) \/ (IsLive(v.doc) /\ v.version < documents[v.doc].version)
        OBVIOUS
      <4>1. v.doc \in Docs /\ v.version \in Version /\ IsLive(v.doc)
        BY <2>0 DEF Row
      <4>2. CASE v.doc = d
        <5>1. v = CurrentRow(d) <=> v.version = n
          BY <3>8, <3>9, <4>2
        <5>2. v.version < n + 1 <=> v.version = n \/ v.version < n
          BY <3>3, <4>1 DEF Version
        <5> QED BY <3>2, <3>3, <3>10, <4>2, <5>1, <5>2
      <4>3. CASE v.doc # d
        BY <3>8, <3>10, <4>1, <4>3 DEF IsLive
      <4> QED BY <4>2, <4>3
    <3>12. Past' = Past \cup {CurrentRow(d)}
      BY <3>4, <3>5, <3>11 DEF Past
    <3>13. CurrentRow(d) = [doc |-> d, version |-> current[d].version, body |-> current[d].body]
      BY <3>2, <3>6 DEF CurrentRow
    <3> HIDE DEF current
    <3>14. Abstract!VEdit(d, b)
      BY <3>6, <3>7, <3>12, <3>13 DEF Abstract!VEdit, current
    <3> QED BY <3>2, <3>14
  <2>4. ASSUME NEW r \in Requests, RequestStep(r), ~Save(r)
        PROVE  UNCHANGED Abstract!vvars
    <3>1. CASE Snapshot(r)
      <4>1. requests[r].seen = CurrentRow(requests[r].doc)
        BY <3>1, SnapshotIsOfCurrentRow
      <4>2. /\ document_versions' = document_versions \cup {requests[r].seen}
            /\ documents' = documents
        BY <3>1 DEF Snapshot
      <4>3. documents[requests[r].doc] \in LiveRow
        BY <3>1, WritingRequestType, CurrentRowType DEF Snapshot, WritingRequest
      <4>4. /\ requests[r].seen.doc = requests[r].doc
            /\ ~(requests[r].seen.version < documents[requests[r].doc].version)
        BY <4>1, <4>3 DEF CurrentRow, LiveRow, Version
      <4> QED BY <4>2, <4>4, AbstractStutter
    <3>2. CASE ~Snapshot(r)
      <4>1. documents' = documents /\ document_versions' = document_versions
        BY <2>4, <3>2 DEF RequestStep, UpdateRead, RestorePick, RestoreRead, SnapshotFails,
                          SaveFails, Abort
      <4> QED BY <4>1, AbstractStutter
    <3> QED BY <3>1, <3>2
  <2>5. CASE UNCHANGED dvars
    BY <2>5, AbstractStutter DEF dvars
  <2>6. ASSUME NEW r \in Requests, Save(r)
        PROVE  \E d \in Docs : \E b \in Bodies : Abstract!VEdit(d, b)
    BY <2>3, <2>6, WritingRequestType DEF Save, WritingRequest
  <2> QED BY <2>1, <2>2, <2>4, <2>5, <2>6 DEF Next, Abstract!VNext
<1> QED BY <1>1, <1>2, HistoryInvariant, TypeCorrect, PTL
        DEF Spec, ImplementsVersionedDocuments, Abstract!VSpec
=============================================================================
