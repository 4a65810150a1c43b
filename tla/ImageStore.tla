----------------------------- MODULE ImageStore -----------------------------
(***************************************************************************)
(* Uploaded images (pkg/image, pkg/storage): a file in the storage         *)
(* backend, a row in storage_objects, and the references from documents to *)
(* it in document_images, which SyncDocumentImages derives from a          *)
(* document's content after every save and which the weekly cleanup looks  *)
(* at to find the files nobody needs.                                      *)
(*                                                                         *)
(* No two of these change together: a file call or an SQL statement is a   *)
(* step of its own, so uploads, saves, deletions and the cleanup           *)
(* interleave, and what fails half way stays half done.                    *)
(*                                                                         *)
(* An image is known by two UUIDs: the one in its storage key, drawn by    *)
(* the upload, and the id of its storage_objects row, drawn by PostgreSQL. *)
(* Documents link to it in one of the ways of LinkKinds:                   *)
(*   "id"     /api/v1/images/ and the id of the row                        *)
(*   "key"    /api/v1/images/ and the UUID of the key: what URL returns    *)
(*            for the local backend and for presigned S3                   *)
(*   "public" the public bucket and the key: what URL returns for S3       *)
(***************************************************************************)
EXTENDS FiniteSets, Naturals

CONSTANTS
  Docs,          \* document ids
  Images,        \* images; each is uploaded at most once
  Savers,        \* document requests in flight at one time
  LinkKinds,     \* the ways in which contents link to images, of those above
  CleanupLimit,  \* rows one cleanup looks at (100)
  Modes          \* the documents there are at the start of a behaviour, its savers and its hazards

ASSUME LinkAssumption == LinkKinds \subseteq {"id", "key", "public"}
ASSUME LimitAssumption == CleanupLimit \in Nat \ {0}

\* The collaboration server writes contents too; users delete images; calls fail and
\* requests are cut short.
Hazards == {"collab", "deletes", "failures"}

ASSUME ModeAssumption == Modes \subseteq [documents : SUBSET Docs, savers : SUBSET Savers, hazards : SUBSET Hazards]

VARIABLES
  files,            \* images whose file is in the backend
  storage_objects,  \* images with a row
  aged,             \* images whose row is older than the cleanup's minimum age
  uploads,          \* uploads[i]: how far the upload of i has come, or a user's deletion of it
  documents,        \* documents not deleted
  content,          \* content[d]: the links in d
  document_images,  \* pairs of a document and an image
  saves,            \* saves[s]: the SyncDocumentImages that s runs after its save
  drifted,          \* history variable: documents with references that nobody has to have right
  deletes,          \* images whose file a user's deletion has removed, and not yet the row
  cleanup,          \* the rows the cleanup has still to go through, and how far it is
  mode              \* which of Modes this behaviour is in, from start to end

ivars ==
  <<files, storage_objects, aged, uploads, documents, content, document_images, saves, drifted, deletes,
    cleanup, mode>>

CollabEdits == "collab" \in mode.hazards
UserDeletes == "deletes" \in mode.hazards
MayFail == "failures" \in mode.hazards

-----------------------------------------------------------------------------
(* Links *)

Link == [kind : LinkKinds, image : Images]

\* ExtractImageIDs: API links only.
Extracted(links) == {l \in links : l.kind \in {"id", "key"}}

\* The rows that extracted UUIDs name: the UUID of a key is the id of no row.
Rows(links) == {l.image : l \in {k \in links : k.kind = "id"}} \cap storage_objects

Referenced(i) == \E d \in Docs : <<d, i>> \in document_images
Orphans == {i \in storage_objects \cap aged : ~Referenced(i)}

Idle == [pc |-> "idle"]
Upserting == [pc : {"upserting"}, doc : Docs, todo : SUBSET Link, keep : SUBSET Link]
\* The cleanup waits for its ticker, is about to take an image of its batch, or has removed
\* the file of one and not yet the row.
Waiting == [pc |-> "waiting"]
AtFile == [pc : {"file"}, batch : SUBSET Images]
AtRow  == [pc : {"row"}, batch : SUBSET Images, image : Images]

TypeOK ==
  /\ files \subseteq Images /\ storage_objects \subseteq Images
  /\ aged \subseteq storage_objects
  /\ uploads \in [Images -> {"none", "stored", "done", "failed", "deleted"}]
  /\ documents \subseteq Docs /\ content \in [Docs -> SUBSET Link]
  /\ document_images \subseteq documents \X storage_objects
  /\ saves \in [Savers -> {Idle} \cup Upserting]
  /\ drifted \subseteq Docs
  /\ deletes \subseteq Images
  /\ cleanup \in {Waiting} \cup AtFile \cup AtRow
  /\ mode \in Modes

Init ==
  /\ mode \in Modes
  /\ files = {} /\ storage_objects = {} /\ aged = {}
  /\ uploads = [i \in Images |-> "none"]
  /\ documents = mode.documents /\ content = [d \in Docs |-> {}]
  /\ document_images = {}
  /\ saves = [s \in Savers |-> Idle]
  /\ drifted = {}
  /\ deletes = {}
  /\ cleanup = Waiting

-----------------------------------------------------------------------------
(* Upload: the file, then the row *)

PutFile(i) ==
  /\ uploads[i] = "none"
  /\ files' = files \cup {i}
  /\ uploads' = [uploads EXCEPT ![i] = "stored"]
  /\ UNCHANGED <<storage_objects, aged, documents, content, document_images, saves, drifted, deletes, cleanup>>

CreateStorageObject(i) ==
  /\ uploads[i] = "stored"
  /\ storage_objects' = storage_objects \cup {i}
  /\ uploads' = [uploads EXCEPT ![i] = "done"]
  /\ UNCHANGED <<files, aged, documents, content, document_images, saves, drifted, deletes, cleanup>>

\* The INSERT fails, and the file is deleted, which may fail too; or the replica stops.
UploadFails(i) ==
  /\ MayFail
  /\ uploads[i] = "stored"
  /\ \/ files' = files \ {i}
     \/ UNCHANGED files
  /\ uploads' = [uploads EXCEPT ![i] = "failed"]
  /\ UNCHANGED <<storage_objects, aged, documents, content, document_images, saves, drifted, deletes, cleanup>>

\* 24 hours pass.
Age(i) ==
  /\ i \in storage_objects \ aged
  /\ aged' = aged \cup {i}
  /\ UNCHANGED <<files, storage_objects, uploads, documents, content, document_images, saves, drifted, deletes, cleanup>>

-----------------------------------------------------------------------------
(* Saves: the content, then SyncDocumentImages statement by statement *)

\* Mutant: references are only ever added.
SyncKeepsStale(s, d, links) == saves' = [saves EXCEPT ![s] = Idle]

\* What SyncDocumentImages has to do for the content just written.
Sync(s, d, links) ==
  saves' = [saves EXCEPT ![s] =
    [pc |-> "upserting", doc |-> d, todo |-> Extracted(links), keep |-> Extracted(links)]]

\* Links of images that have been uploaded, whatever became of them since.
Known == {l \in Link : uploads[l.image] \in {"done", "deleted"}}

Syncing(d) == {s \in Savers : saves[s] # Idle /\ saves[s].doc = d}

\* Service.Create, Update or Restore has written the content of d.
SaveContent(s, d, links) ==
  /\ saves[s] = Idle
  /\ d \in documents
  /\ content' = [content EXCEPT ![d] = links]
  /\ Sync(s, d, links)
  /\ drifted' = IF Syncing(d) = {} THEN drifted \ {d} ELSE drifted \cup {d}
  /\ UNCHANGED <<files, storage_objects, aged, uploads, documents, document_images, deletes, cleanup>>

\* One UpsertDocumentImage.  When the document or the row is gone the foreign key refuses
\* it.  That, or that it fails otherwise, is logged, and the loop goes on.
UpsertDocumentImage(s) ==
  /\ saves[s].pc = "upserting"
  /\ \E l \in saves[s].todo :
       /\ saves' = [saves EXCEPT ![s].todo = @ \ {l}]
       /\ \/ /\ document_images' = document_images \cup
                 (IF saves[s].doc \in documents THEN {saves[s].doc} \X Rows({l}) ELSE {})
             /\ UNCHANGED drifted
          \/ /\ MayFail
             /\ drifted' = drifted \cup {saves[s].doc}
             /\ UNCHANGED document_images
  /\ UNCHANGED <<files, storage_objects, aged, uploads, documents, content, deletes, cleanup>>

\* The last statement: DeleteStaleDocumentImages, or with no ids to keep
\* DeleteDocumentImagesByDocument.
DeleteStaleDocumentImages(s) ==
  /\ saves[s].pc = "upserting"
  /\ saves[s].todo = {}
  /\ LET kept == {l.image : l \in {k \in saves[s].keep : k.kind = "id"}} IN
       document_images' = {p \in document_images : p[1] = saves[s].doc => p[2] \in kept}
  /\ saves' = [saves EXCEPT ![s] = Idle]
  /\ UNCHANGED <<files, storage_objects, aged, uploads, documents, content, drifted, deletes, cleanup>>

\* The request is cancelled or the replica stops.
SyncFails(s) ==
  /\ MayFail
  /\ saves[s] # Idle
  /\ saves' = [saves EXCEPT ![s] = Idle]
  /\ drifted' = drifted \cup {saves[s].doc}
  /\ UNCHANGED <<files, storage_objects, aged, uploads, documents, content, document_images, deletes, cleanup>>

\* The store hook of the collaboration server writes content, and no references.
CollabStore(d, links) ==
  /\ CollabEdits
  /\ d \in documents
  /\ content' = [content EXCEPT ![d] = links]
  /\ drifted' = drifted \cup {d}
  /\ UNCHANGED <<files, storage_objects, aged, uploads, documents, document_images, saves, deletes, cleanup>>

\* Service.Delete; ON DELETE CASCADE takes the references along.
DeleteDocument(d) ==
  /\ d \in documents
  /\ documents' = documents \ {d}
  /\ document_images' = {p \in document_images : p[1] # d}
  /\ UNCHANGED <<files, storage_objects, aged, uploads, content, saves, drifted, deletes, cleanup>>

-----------------------------------------------------------------------------
(* Deletion by a user, and the cleanup: the file, then the row *)

\* Mutant: document_images.storage_id without a foreign key.
RemoveRowUnchecked(i) == storage_objects' = storage_objects \ {i} /\ aged' = aged \ {i}

\* DeleteStorageObject: document_images refers to it without ON DELETE, so that a
\* reference makes it fail.
RemoveRow(i) ==
  IF Referenced(i)
    THEN UNCHANGED <<storage_objects, aged>>
    ELSE storage_objects' = storage_objects \ {i} /\ aged' = aged \ {i}

\* Handler.Delete has found the row; a failing backend is only logged.
DeleteFile(i) ==
  /\ UserDeletes
  /\ i \in storage_objects \ deletes
  /\ files' = files \ {i} \/ (MayFail /\ UNCHANGED files)
  /\ deletes' = deletes \cup {i}
  /\ uploads' = [uploads EXCEPT ![i] = "deleted"]
  /\ UNCHANGED <<storage_objects, aged, documents, content, document_images, saves, drifted, cleanup>>

DeleteRow(i) ==
  /\ i \in deletes
  /\ RemoveRow(i) \/ (MayFail /\ UNCHANGED <<storage_objects, aged>>)
  /\ deletes' = deletes \ {i}
  /\ UNCHANGED <<files, uploads, documents, content, document_images, saves, drifted, cleanup>>

\* Mutant: the minimum age has no effect.
ListAnyAge ==
  /\ cleanup = Waiting
  /\ \E batch \in SUBSET {i \in storage_objects : ~Referenced(i)} :
       /\ batch # {} /\ Cardinality(batch) <= CleanupLimit
       /\ cleanup' = [pc |-> "file", batch |-> batch]
  /\ UNCHANGED <<files, storage_objects, aged, uploads, documents, content, document_images, saves, drifted, deletes>>

\* ListOrphanedStorageObjects: LIMIT 100, in no order.
ListOrphanedStorageObjects ==
  /\ cleanup = Waiting
  /\ \E batch \in SUBSET Orphans :
       /\ batch # {}
       /\ batch = Orphans \/ Cardinality(batch) = CleanupLimit
       /\ Cardinality(batch) <= CleanupLimit
       /\ cleanup' = [pc |-> "file", batch |-> batch]
  /\ UNCHANGED <<files, storage_objects, aged, uploads, documents, content, document_images, saves, drifted, deletes>>

\* The file of one of them.  When the backend fails its row is left alone.
CleanupFile(i) ==
  /\ cleanup.pc = "file"
  /\ i \in cleanup.batch
  /\ \/ files' = files \ {i}
        /\ cleanup' = [pc |-> "row", batch |-> cleanup.batch \ {i}, image |-> i]
     \/ MayFail
        /\ cleanup' = [pc |-> "file", batch |-> cleanup.batch \ {i}]
        /\ UNCHANGED files
  /\ UNCHANGED <<storage_objects, aged, uploads, documents, content, document_images, saves, drifted, deletes>>

\* Mutant: the rows of a batch stay.
CleanupRowKept ==
  /\ cleanup.pc = "row"
  /\ cleanup' = [pc |-> "file", batch |-> cleanup.batch]
  /\ UNCHANGED <<storage_objects, aged, files, uploads, documents, content, document_images, saves, drifted, deletes>>

\* Its row; that this fails is only logged.
CleanupRow ==
  /\ cleanup.pc = "row"
  /\ RemoveRow(cleanup.image) \/ (MayFail /\ UNCHANGED <<storage_objects, aged>>)
  /\ cleanup' = [pc |-> "file", batch |-> cleanup.batch]
  /\ UNCHANGED <<files, uploads, documents, content, document_images, saves, drifted, deletes>>

\* The batch is through, or five minutes are over, or the replica stops.
CleanupEnds ==
  /\ cleanup # Waiting
  /\ MayFail \/ (cleanup.pc = "file" /\ cleanup.batch = {})
  /\ cleanup' = Waiting
  /\ UNCHANGED <<files, storage_objects, aged, uploads, documents, content, document_images, saves, drifted, deletes>>

-----------------------------------------------------------------------------
(* Specification *)

CleanupGoesOn ==
  \/ \E i \in Images : CleanupFile(i)
  \/ CleanupRow
  \/ CleanupEnds

CleanupStep == ListOrphanedStorageObjects \/ CleanupGoesOn

UserStep ==
  \/ \E i \in Images : PutFile(i) \/ DeleteFile(i)
  \/ \E d \in Docs, links \in SUBSET Known :
       CollabStore(d, links) \/ \E s \in mode.savers : SaveContent(s, d, links)
  \/ \E d \in Docs : DeleteDocument(d)

ServerStep ==
  \/ \E i \in Images : CreateStorageObject(i) \/ UploadFails(i) \/ DeleteRow(i)
  \/ \E s \in Savers : UpsertDocumentImage(s) \/ DeleteStaleDocumentImages(s) \/ SyncFails(s)

Next ==
  /\ UserStep \/ ServerStep \/ CleanupStep \/ \E i \in Images : Age(i)
  /\ UNCHANGED mode

Spec == Init /\ [][Next]_ivars

\* A cleanup that has listed a batch goes on to its end, in one goroutine and over one
\* connection.  That it ever lists one here is not assumed: which tenant's rows the job sees
\* is an accident (module TenantConnections).
FairSpec == Spec /\ WF_ivars(CleanupGoesOn /\ UNCHANGED mode)

-----------------------------------------------------------------------------
(* Properties *)

Settled(d) == d \in documents /\ Syncing(d) = {}

\* "This keeps the reference table accurate" (docs/09, section 4): when no save of a
\* document is under way, its references are the rows its content links to, whatever
\* uploads, deletions and the cleanup do meanwhile.  Saves of it that overlap, one that is
\* cut short and the collaboration server spoil that until the next save of its own.
ReferencesFollowContent ==
  \A d \in Docs : Settled(d) /\ d \notin drifted =>
    {i \in Images : <<d, i>> \in document_images} = Rows(content[d])

\* minAge, "24h to allow for in-progress edits" (cleanup.go): unless users delete it, a
\* recorded image keeps its file for that long, referenced or not, whatever fails.
YoungImagesHaveFiles == \A i \in storage_objects \ aged : uploads[i] = "done" => i \in files

\* What a cleanup has listed it reclaims, unless the image is referenced by the time its row
\* is to go, or a call fails: no image of a batch stays in storage_objects unreferenced.
ListedOrphansAreReclaimed ==
  ~MayFail => \A i \in Images :
    (cleanup # Waiting /\ i \in cleanup.batch) ~> (i \notin storage_objects \/ Referenced(i))

\* CleanupOrphans "deletes storage objects not referenced in any document_images row"
\* (cleanup.go), and no others: what is referenced has its file.
ReferencedImagesHaveFiles ==
  \A i \in Images : Referenced(i) => i \in files

\* What the cleanup takes for an orphan is linked from no document: "Images that are uploaded
\* but never referenced in a document [...] or images removed from all documents" (docs/09,
\* section 10).
OrphansAreUnlinked ==
  \A d \in Docs : Settled(d) => \A l \in content[d] : l.image \notin Orphans
=============================================================================
