-------------------------- MODULE ImageStoreProofs --------------------------
(***************************************************************************)
(* Theorems about ImageStore, for any documents, images, savers and        *)
(* limits, whatever may fail.  All of it rests on ImageInv.                *)
(***************************************************************************)
EXTENDS ImageStore, TLAPS

\* The images that the cleanup is at work on.
Batch ==
  CASE cleanup.pc = "waiting" -> {}
    [] cleanup.pc = "file" -> cleanup.batch
    [] cleanup.pc = "row" -> cleanup.batch \cup {cleanup.image}

\* What has a row, is linked to or is in a batch was uploaded, and is so but once; what is in
\* a batch was old enough when it was listed.
UploadsInOrder ==
  /\ \A i \in Images : uploads[i] = "stored" => i \in files
  /\ \A i \in storage_objects \cup Batch : uploads[i] \in {"done", "deleted"}
  /\ \A i \in Batch : i \in storage_objects => i \in aged
  /\ \A d \in Docs : \A l \in content[d] : uploads[l.image] \in {"done", "deleted"}

References(d) == {i \in Images : <<d, i>> \in document_images}

\* How far the references of d are: right, or right as far as its only save has come.
InSync(d) ==
  /\ \A s, q \in Syncing(d) : s = q
  /\ Syncing(d) = {} => References(d) = Rows(content[d])
  /\ \A s \in Syncing(d) :
       /\ saves[s].keep = Extracted(content[d])
       /\ \A l \in saves[s].keep \ saves[s].todo :
            l.kind = "id" /\ l.image \in storage_objects => l.image \in References(d)

SyncsInOrder == \A d \in documents \ drifted : InSync(d)

ImageInv ==
  /\ TypeOK
  /\ UploadsInOrder
  /\ YoungImagesHaveFiles
  /\ SyncsInOrder

-----------------------------------------------------------------------------
(* Lemmas *)

\* What a removal of a row leaves.
LEMMA RemoveRowType ==
  ASSUME TypeOK, NEW i \in Images, RemoveRow(i) \/ UNCHANGED <<storage_objects, aged>>
  PROVE  /\ storage_objects' \subseteq storage_objects
         /\ aged' \subseteq storage_objects'
         /\ storage_objects' \ aged' \subseteq storage_objects \ aged
         /\ \A d \in Docs, j \in Images : <<d, j>> \in document_images => j \in storage_objects'
         /\ \A j \in storage_objects' : j \in aged => j \in aged'
  BY DEF RemoveRow, Referenced, TypeOK

\* What is in a batch or linked to is an image.
LEMMA ImagesType ==
  ASSUME TypeOK
  PROVE  Batch \subseteq Images /\ \A d \in Docs : \A l \in content[d] : l.image \in Images
<1>1. cleanup \in {Waiting} \cup AtFile \cup AtRow /\ content \in [Docs -> SUBSET Link]
  BY DEF TypeOK
<1>2. Batch \subseteq Images
  BY <1>1 DEF Batch, Waiting, AtFile, AtRow
<1> QED BY <1>1, <1>2 DEF Link

\* Uploads go on, and end once.
LEMMA UploadsGoOn ==
  ASSUME TypeOK, UploadsInOrder, UNCHANGED <<content, cleanup>>,
         \A i \in Images : uploads'[i] = "stored" => i \in files',
         \A i \in Images : uploads[i] \in {"done", "deleted"} => uploads'[i] \in {"done", "deleted"},
         \A i \in storage_objects' :
           /\ i \in storage_objects \/ uploads'[i] \in {"done", "deleted"}
           /\ i \in aged => i \in aged'
           /\ i \in storage_objects \/ uploads[i] = "stored"
  PROVE  UploadsInOrder'
<1>1. Batch' = Batch
  BY DEF Batch
<1>2. storage_objects \subseteq Images
  BY DEF TypeOK
<1>3. \A i \in storage_objects' \cup Batch' : uploads'[i] \in {"done", "deleted"}
  BY <1>1, <1>2, ImagesType DEF UploadsInOrder
<1>4. \A i \in Batch' : i \in storage_objects' => i \in aged'
  BY <1>1 DEF UploadsInOrder
<1>5. \A d \in Docs : \A l \in content'[d] : uploads'[l.image] \in {"done", "deleted"}
  BY ImagesType DEF UploadsInOrder
<1> QED BY <1>3, <1>4, <1>5 DEF UploadsInOrder

\* Where neither references, contents nor saves change, and rows are only removed that are
\* not referred to, or added that nothing links to, syncs stay in order.
LEMMA RowsKeepSyncs ==
  ASSUME TypeOK, UploadsInOrder, SyncsInOrder,
         UNCHANGED <<documents, content, document_images, saves, drifted>>,
         \A i \in storage_objects' \ storage_objects : uploads[i] \notin {"done", "deleted"},
         \A d \in Docs, i \in Images : <<d, i>> \in document_images => i \in storage_objects'
  PROVE  SyncsInOrder'
<1> SUFFICES ASSUME NEW d \in documents \ drifted PROVE InSync(d)'
  BY DEF SyncsInOrder
<1>1. InSync(d) /\ d \in Docs /\ content[d] \in SUBSET Link
  BY DEF SyncsInOrder, TypeOK
<1>2. \A l \in content[d] : l.image \in storage_objects' => l.image \in storage_objects
  BY <1>1 DEF UploadsInOrder
<1>3. Syncing(d)' = Syncing(d) /\ References(d)' = References(d)
  BY DEF Syncing, References
<1>4. ASSUME Syncing(d) = {} PROVE References(d) = Rows(content[d])'
  <2>1. References(d) = Rows(content[d])
    BY <1>1, <1>4 DEF InSync
  <2>2. ASSUME NEW i PROVE i \in Rows(content[d]) <=> i \in Rows(content[d])'
    <3>1. i \in Rows(content[d]) => i \in storage_objects'
      BY <1>1, <2>1 DEF References
    <3> QED BY <1>1, <1>2, <3>1 DEF Rows
  <2> QED BY <2>1, <2>2 DEF References, Rows
<1>5. ASSUME NEW s \in Syncing(d), NEW l \in saves[s].keep \ saves[s].todo,
             l.kind = "id", l.image \in storage_objects'
      PROVE  l.image \in References(d)
  <2>1. l \in content[d]
    BY <1>1, <1>5 DEF InSync, Extracted
  <2> QED BY <1>1, <1>2, <1>5, <2>1 DEF InSync
<1> QED BY <1>1, <1>3, <1>4, <1>5 DEF InSync

-----------------------------------------------------------------------------
(* The steps *)

\* Uploads.
LEMMA UploadKeepsInv ==
  ASSUME ImageInv, mode' = mode, NEW i \in Images,
         PutFile(i) \/ CreateStorageObject(i) \/ UploadFails(i) \/ Age(i)
  PROVE  ImageInv'
<1> USE DEF ImageInv
<1>1. TypeOK'
  BY DEF PutFile, CreateStorageObject, UploadFails, Age, TypeOK
<1>2. UNCHANGED <<content, cleanup>>
  BY DEF PutFile, CreateStorageObject, UploadFails, Age
<1>3. UploadsInOrder'
  <2>1. \A j \in Images : uploads'[j] = "stored" => j \in files'
    BY DEF PutFile, CreateStorageObject, UploadFails, Age, TypeOK, UploadsInOrder
  <2>2. \A j \in Images : uploads[j] \in {"done", "deleted"} => uploads'[j] \in {"done", "deleted"}
    BY DEF PutFile, CreateStorageObject, UploadFails, Age, TypeOK
  <2>3. \A j \in storage_objects' :
          /\ j \in storage_objects \/ uploads'[j] \in {"done", "deleted"}
          /\ j \in aged => j \in aged'
          /\ j \in storage_objects \/ uploads[j] = "stored"
    BY DEF PutFile, CreateStorageObject, UploadFails, Age, TypeOK
  <2> QED BY <1>2, <2>1, <2>2, <2>3, UploadsGoOn
<1>4. YoungImagesHaveFiles'
  BY DEF PutFile, CreateStorageObject, UploadFails, Age, TypeOK, UploadsInOrder, YoungImagesHaveFiles
<1>5. SyncsInOrder'
  <2>1. UNCHANGED <<documents, content, document_images, saves, drifted>>
    BY DEF PutFile, CreateStorageObject, UploadFails, Age
  <2>2. \A j \in storage_objects' \ storage_objects : uploads[j] \notin {"done", "deleted"}
    BY DEF PutFile, CreateStorageObject, UploadFails, Age
  <2>3. \A d \in Docs, j \in Images : <<d, j>> \in document_images => j \in storage_objects'
    BY DEF PutFile, CreateStorageObject, UploadFails, Age, TypeOK
  <2> QED BY <2>1, <2>2, <2>3, RowsKeepSyncs
<1> QED BY <1>1, <1>3, <1>4, <1>5

\* Deletions by users.
LEMMA DeleteKeepsInv ==
  ASSUME ImageInv, mode' = mode, NEW i \in Images, DeleteFile(i) \/ DeleteRow(i)
  PROVE  ImageInv'
<1> USE DEF ImageInv
<1>1. RemoveRow(i) \/ UNCHANGED <<storage_objects, aged>>
  BY DEF DeleteFile, DeleteRow
<1>2. TypeOK'
  BY <1>1, RemoveRowType DEF DeleteFile, DeleteRow, TypeOK
<1>3. UNCHANGED <<content, cleanup>>
  BY DEF DeleteFile, DeleteRow
<1>4. UploadsInOrder'
  <2>1. \A j \in Images : uploads'[j] = "stored" => j \in files'
    BY DEF DeleteFile, DeleteRow, TypeOK, UploadsInOrder
  <2>2. \A j \in Images : uploads[j] \in {"done", "deleted"} => uploads'[j] \in {"done", "deleted"}
    BY DEF DeleteFile, DeleteRow, TypeOK
  <2>3. \A j \in storage_objects' : j \in storage_objects /\ (j \in aged => j \in aged')
    BY <1>1, RemoveRowType
  <2> QED BY <1>3, <2>1, <2>2, <2>3, UploadsGoOn
<1>5. YoungImagesHaveFiles'
  BY <1>1, RemoveRowType DEF DeleteFile, DeleteRow, TypeOK, YoungImagesHaveFiles
<1>6. SyncsInOrder'
  <2>1. UNCHANGED <<documents, content, document_images, saves, drifted>>
    BY DEF DeleteFile, DeleteRow
  <2> QED BY <1>1, <2>1, RemoveRowType, RowsKeepSyncs
<1> QED BY <1>2, <1>4, <1>5, <1>6

\* The cleanup.
LEMMA CleanupKeepsInv ==
  ASSUME ImageInv, mode' = mode, CleanupStep
  PROVE  ImageInv'
<1> USE DEF ImageInv
<1>1. UNCHANGED <<uploads, documents, content, document_images, saves, drifted, deletes>>
  BY DEF CleanupStep, CleanupGoesOn, ListOrphanedStorageObjects, CleanupFile, CleanupRow, CleanupEnds
<1>2. ASSUME UNCHANGED <<storage_objects, aged>>, cleanup' \in {Waiting} \cup AtFile \cup AtRow,
             files' \subseteq files, files \ files' \subseteq Batch,
             \A i \in Batch' : i \in Batch \cup Orphans
      PROVE  ImageInv'
  <2>1. TypeOK'
    BY <1>1, <1>2 DEF TypeOK
  <2>2. UploadsInOrder'
    BY <1>1, <1>2 DEF TypeOK, UploadsInOrder, Orphans
  <2>3. YoungImagesHaveFiles'
    BY <1>1, <1>2 DEF TypeOK, UploadsInOrder, YoungImagesHaveFiles
  <2>4. SyncsInOrder'
    BY <1>1, <1>2, RowsKeepSyncs DEF TypeOK
  <2> QED BY <2>1, <2>2, <2>3, <2>4
<1>3. CASE ListOrphanedStorageObjects
  BY <1>2, <1>3 DEF ListOrphanedStorageObjects, AtFile, Batch, Orphans, TypeOK
<1>4. ASSUME NEW i \in Images, CleanupFile(i) PROVE ImageInv'
  BY <1>2, <1>4 DEF CleanupFile, AtFile, AtRow, Waiting, Batch, TypeOK
<1>5. CASE CleanupEnds
  BY <1>2, <1>5 DEF CleanupEnds, Waiting, Batch
<1>6. CASE CleanupRow
  <2>1. /\ cleanup \in AtRow /\ cleanup.image \in Images
        /\ cleanup' = [pc |-> "file", batch |-> cleanup.batch] /\ files' = files
        /\ RemoveRow(cleanup.image) \/ UNCHANGED <<storage_objects, aged>>
    BY <1>6 DEF CleanupRow, TypeOK, Waiting, AtFile, AtRow
  <2>2. /\ storage_objects' \subseteq storage_objects
        /\ aged' \subseteq storage_objects'
        /\ storage_objects' \ aged' \subseteq storage_objects \ aged
        /\ \A d \in Docs, j \in Images : <<d, j>> \in document_images => j \in storage_objects'
        /\ \A j \in storage_objects' : j \in aged => j \in aged'
    BY <2>1, RemoveRowType
  <2>3. Batch' \subseteq Batch
    BY <2>1 DEF Batch, AtRow
  <2>4. TypeOK'
    BY <1>1, <2>1, <2>2 DEF TypeOK, AtFile, AtRow
  <2>5. UploadsInOrder'
    BY <1>1, <2>1, <2>2, <2>3 DEF UploadsInOrder
  <2>6. YoungImagesHaveFiles'
    BY <1>1, <2>1, <2>2 DEF YoungImagesHaveFiles
  <2>7. SyncsInOrder'
    BY <1>1, <2>2, RowsKeepSyncs
  <2> QED BY <2>4, <2>5, <2>6, <2>7
<1> QED BY <1>3, <1>4, <1>5, <1>6 DEF CleanupStep, CleanupGoesOn

\* A document that a step leaves alone, with its saves and references, is as it was.
LEMMA OthersInSync ==
  ASSUME NEW d, InSync(d), UNCHANGED <<storage_objects, content[d], References(d), Syncing(d)>>,
         \A s \in Syncing(d) : saves'[s] = saves[s]
  PROVE  InSync(d)'
  BY DEF InSync, Rows

\* The steps of saves leave files, rows and the cleanup alone.
LEMMA SavesKeepFiles ==
  ASSUME TypeOK, UploadsInOrder, YoungImagesHaveFiles,
         UNCHANGED <<files, storage_objects, aged, uploads, cleanup>>,
         \A d \in Docs : \A l \in content'[d] : uploads[l.image] \in {"done", "deleted"}
  PROVE  UploadsInOrder' /\ YoungImagesHaveFiles'
<1>1. Batch' = Batch
  BY DEF Batch
<1>2. UploadsInOrder'
  BY <1>1 DEF UploadsInOrder
<1> QED BY <1>2 DEF YoungImagesHaveFiles

\* A save writes the content.
LEMMA SaveKeepsInv ==
  ASSUME ImageInv, mode' = mode, NEW s \in Savers, NEW d \in Docs, NEW links \in SUBSET Known,
         SaveContent(s, d, links)
  PROVE  ImageInv'
<1> USE DEF ImageInv
<1>1. /\ links \in SUBSET Link /\ Extracted(links) \in SUBSET Link
      /\ \A l \in links : uploads[l.image] \in {"done", "deleted"}
  BY DEF Known, Extracted
<1>2. PICK save \in Upserting :
        save = [pc |-> "upserting", doc |-> d, todo |-> Extracted(links), keep |-> Extracted(links)]
  BY <1>1 DEF Upserting
<1>3. /\ content' = [content EXCEPT ![d] = links]
      /\ saves' = [saves EXCEPT ![s] = save]
      /\ saves[s] = Idle /\ save # Idle
      /\ drifted' = IF Syncing(d) = {} THEN drifted \ {d} ELSE drifted \cup {d}
      /\ UNCHANGED <<files, storage_objects, aged, uploads, documents, document_images, deletes, cleanup>>
  BY <1>2 DEF SaveContent, Sync, Idle, Upserting
<1>4. TypeOK'
  BY <1>1, <1>3 DEF TypeOK
<1>5. /\ content'[d] = links /\ saves'[s] = save
      /\ \A e \in Docs \ {d} : content'[e] = content[e]
      /\ \A q \in Savers \ {s} : saves'[q] = saves[q]
  BY <1>3 DEF TypeOK
<1>6. UploadsInOrder' /\ YoungImagesHaveFiles'
  <2>1. \A e \in Docs : \A l \in content'[e] : uploads[l.image] \in {"done", "deleted"}
    BY <1>1, <1>5 DEF UploadsInOrder
  <2> QED BY <1>3, <2>1, SavesKeepFiles
<1>7. SyncsInOrder'
  <2> SUFFICES ASSUME NEW e \in documents \ drifted' PROVE InSync(e)'
    BY <1>3 DEF SyncsInOrder
  <2>1. CASE e = d
    <3>1. Syncing(d) = {}
      BY <1>3, <2>1
    <3>2. Syncing(d)' = {s}
      BY <1>2, <1>3, <1>5, <3>1 DEF Syncing
    <3> QED BY <1>2, <1>5, <2>1, <3>2 DEF InSync
  <2>2. CASE e # d
    <3>1. e \in Docs /\ e \notin drifted
      BY <1>3, <2>2 DEF TypeOK
    <3>2. Syncing(e)' = Syncing(e) /\ s \notin Syncing(e)
      BY <1>2, <1>3, <1>5, <2>2 DEF Syncing
    <3>3. \A q \in Syncing(e) : saves'[q] = saves[q]
      BY <1>5, <3>2 DEF Syncing
    <3>4. UNCHANGED <<content[e], References(e)>>
      BY <1>3, <1>5, <2>2, <3>1 DEF References
    <3> QED BY <1>3, <3>1, <3>2, <3>3, <3>4, OthersInSync DEF SyncsInOrder
  <2> QED BY <2>1, <2>2
<1> QED BY <1>4, <1>6, <1>7

\* A sync goes on, ends or fails.
LEMMA SyncKeepsInv ==
  ASSUME ImageInv, mode' = mode, NEW s \in Savers,
         UpsertDocumentImage(s) \/ DeleteStaleDocumentImages(s) \/ SyncFails(s)
  PROVE  ImageInv'
<1> USE DEF ImageInv
<1>1. UNCHANGED <<files, storage_objects, aged, uploads, documents, content, deletes, cleanup>>
  BY DEF UpsertDocumentImage, DeleteStaleDocumentImages, SyncFails
<1>2. PICK save \in Upserting : save = saves[s]
  BY DEF UpsertDocumentImage, DeleteStaleDocumentImages, SyncFails, TypeOK, Idle
<1>3. save # Idle /\ save.doc \in Docs /\ save.todo \subseteq Link /\ save.keep \subseteq Link
  BY <1>2 DEF Upserting, Idle
<1>4. UploadsInOrder' /\ YoungImagesHaveFiles'
  BY <1>1, SavesKeepFiles DEF UploadsInOrder
<1>5. ASSUME NEW e \in documents \ drifted, e # save.doc,
             UNCHANGED References(e), \A q \in Savers \ {s} : saves'[q] = saves[q],
             saves'[s] = Idle \/ (saves'[s] # Idle /\ saves'[s].doc = save.doc)
      PROVE  InSync(e)'
  <2>1. Syncing(e)' = Syncing(e) /\ s \notin Syncing(e)
    BY <1>2, <1>3, <1>5 DEF Syncing
  <2>2. \A q \in Syncing(e) : saves'[q] = saves[q]
    BY <1>5, <2>1 DEF Syncing
  <2>3. InSync(e) /\ content'[e] = content[e]
    BY <1>1 DEF SyncsInOrder
  <2> QED BY <1>1, <1>5, <2>1, <2>2, <2>3, OthersInSync
<1>6. CASE UpsertDocumentImage(s)
  <2>1. PICK l \in save.todo :
          /\ saves' = [saves EXCEPT ![s].todo = @ \ {l}]
          /\ \/ /\ document_images' = document_images \cup
                    (IF save.doc \in documents THEN {save.doc} \X Rows({l}) ELSE {})
                /\ drifted' = drifted
             \/ /\ drifted' = drifted \cup {save.doc}
                /\ document_images' = document_images
    BY <1>2, <1>6 DEF UpsertDocumentImage
  <2>2. PICK next \in Upserting : next = [save EXCEPT !.todo = @ \ {l}]
    BY <1>2 DEF Upserting
  <2>3. /\ saves' = [saves EXCEPT ![s] = next]
        /\ next.doc = save.doc /\ next.keep = save.keep /\ next.todo = save.todo \ {l} /\ next # Idle
    BY <1>2, <2>1, <2>2 DEF Upserting, Idle
  <2>4. saves'[s] = next /\ \A q \in Savers \ {s} : saves'[q] = saves[q]
    BY <2>3 DEF TypeOK
  <2>5. Rows({l}) = IF l.kind = "id" /\ l.image \in storage_objects THEN {l.image} ELSE {}
    BY DEF Rows
  <2>6. TypeOK'
    <3>1. document_images' \subseteq documents \X storage_objects
      BY <2>1, <2>5 DEF TypeOK
    <3>2. saves' \in [Savers -> {Idle} \cup Upserting]
      BY <2>3 DEF TypeOK
    <3>3. drifted' \subseteq Docs
      BY <1>3, <2>1 DEF TypeOK
    <3> QED BY <1>1, <3>1, <3>2, <3>3 DEF TypeOK
  <2>7. SyncsInOrder'
    <3> SUFFICES ASSUME NEW e \in documents \ drifted, e \notin drifted' PROVE InSync(e)'
      BY <1>1, <2>1 DEF SyncsInOrder
    <3>1. CASE e # save.doc
      <4>1. References(e)' = References(e)
        BY <2>1, <3>1 DEF References
      <4> QED BY <1>5, <2>3, <2>4, <3>1, <4>1
    <3>2. CASE e = save.doc
      <4>1. InSync(e) /\ s \in Syncing(e)
        BY <1>2, <1>3, <3>2 DEF SyncsInOrder, Syncing
      <4>2. Syncing(e)' = {s} /\ Syncing(e) = {s}
        BY <2>3, <2>4, <3>2, <4>1 DEF Syncing, InSync
      <4>3. save.keep = Extracted(content[e])
        BY <1>2, <4>1 DEF InSync
      <4>4. \A k \in save.keep \ next.todo :
              k.kind = "id" /\ k.image \in storage_objects => k.image \in References(e)'
        <5>1. ASSUME NEW k \in save.keep \ save.todo, k.kind = "id", k.image \in storage_objects
              PROVE  k.image \in References(e)'
          <6>1. k.image \in References(e)
            BY <1>2, <4>1, <5>1 DEF InSync
          <6> QED BY <2>1, <6>1 DEF References
        <5>2. ASSUME l.kind = "id", l.image \in storage_objects PROVE l.image \in References(e)'
          <6>1. document_images' = document_images \cup ({save.doc} \X Rows({l}))
            BY <2>1, <3>2
          <6> QED BY <2>5, <3>2, <5>2, <6>1 DEF References, TypeOK
        <5> QED BY <2>3, <5>1, <5>2
      <4> QED BY <1>1, <2>3, <2>4, <4>2, <4>3, <4>4 DEF InSync
    <3> QED BY <3>1, <3>2
  <2> QED BY <1>4, <2>6, <2>7
<1>7. CASE DeleteStaleDocumentImages(s)
  <2> DEFINE kept == {l.image : l \in {k \in save.keep : k.kind = "id"}}
  <2>1. /\ save.todo = {} /\ drifted' = drifted
        /\ document_images' = {p \in document_images : p[1] = save.doc => p[2] \in kept}
        /\ saves' = [saves EXCEPT ![s] = Idle]
    BY <1>2, <1>7 DEF DeleteStaleDocumentImages
  <2>2. saves'[s] = Idle /\ \A q \in Savers \ {s} : saves'[q] = saves[q]
    BY <2>1 DEF TypeOK
  <2>3. TypeOK'
    BY <1>1, <2>1 DEF TypeOK
  <2>4. SyncsInOrder'
    <3> SUFFICES ASSUME NEW e \in documents \ drifted PROVE InSync(e)'
      BY <1>1, <2>1 DEF SyncsInOrder
    <3>1. CASE e # save.doc
      <4>1. References(e)' = References(e)
        BY <2>1, <3>1 DEF References
      <4> QED BY <1>5, <2>2, <3>1, <4>1
    <3>2. CASE e = save.doc
      <4>1. InSync(e) /\ s \in Syncing(e) /\ content[e] \subseteq Link
        BY <1>2, <1>3, <3>2 DEF SyncsInOrder, Syncing, TypeOK
      <4>2. Syncing(e)' = {}
        BY <2>2, <4>1 DEF Syncing, InSync
      <4>3. save.keep = Extracted(content[e])
        BY <1>2, <4>1 DEF InSync
      <4>4. \A l \in save.keep :
              l.kind = "id" /\ l.image \in storage_objects => l.image \in References(e)
        BY <1>2, <2>1, <4>1 DEF InSync
      <4>5. \A i : i \in References(e)' <=> i \in References(e) /\ i \in kept
        BY <2>1, <3>2 DEF References
      <4>6. \A i : i \in kept <=> \E l \in content[e] : l.kind = "id" /\ l.image = i
        BY <4>3 DEF Extracted
      <4>7. References(e) \subseteq storage_objects
        BY DEF References, TypeOK
      <4>8. \A i : i \in kept /\ i \in storage_objects => i \in References(e)
        BY <4>4
      <4>9. \A i : i \in Rows(content[e]) <=> i \in kept /\ i \in storage_objects
        BY <4>6 DEF Rows
      <4>10. References(e)' = Rows(content[e])
        BY <4>5, <4>7, <4>8, <4>9 DEF References, Rows
      <4>11. Rows(content[e])' = Rows(content[e])
        BY <1>1 DEF Rows
      <4> QED BY <4>2, <4>10, <4>11 DEF InSync
    <3> QED BY <3>1, <3>2
  <2> QED BY <1>4, <2>3, <2>4
<1>8. CASE SyncFails(s)
  <2>1. /\ saves' = [saves EXCEPT ![s] = Idle] /\ drifted' = drifted \cup {save.doc}
        /\ document_images' = document_images
    BY <1>2, <1>8 DEF SyncFails
  <2>2. saves'[s] = Idle /\ \A q \in Savers \ {s} : saves'[q] = saves[q]
    BY <2>1 DEF TypeOK
  <2>3. TypeOK'
    BY <1>1, <1>3, <2>1 DEF TypeOK
  <2>4. SyncsInOrder'
    <3> SUFFICES ASSUME NEW e \in documents \ drifted, e # save.doc PROVE InSync(e)'
      BY <1>1, <2>1 DEF SyncsInOrder
    <3>1. References(e)' = References(e)
      BY <2>1 DEF References
    <3> QED BY <1>5, <2>2, <3>1
  <2> QED BY <1>4, <2>3, <2>4
<1> QED BY <1>6, <1>7, <1>8

\* The collaboration server writes content, or a document is deleted.
LEMMA DocumentKeepsInv ==
  ASSUME ImageInv, mode' = mode, NEW d \in Docs,
         DeleteDocument(d) \/ \E links \in SUBSET Known : CollabStore(d, links)
  PROVE  ImageInv'
<1> USE DEF ImageInv
<1>1. UNCHANGED <<files, storage_objects, aged, uploads, saves, deletes, cleanup>>
  BY DEF DeleteDocument, CollabStore
<1>2. \A e \in Docs : Syncing(e)' = Syncing(e)
  BY <1>1 DEF Syncing
<1>3. CASE DeleteDocument(d)
  <2>1. /\ documents' = documents \ {d} /\ UNCHANGED <<content, drifted>>
        /\ document_images' = {p \in document_images : p[1] # d}
    BY <1>3 DEF DeleteDocument
  <2>2. TypeOK'
    BY <1>1, <2>1 DEF TypeOK
  <2>3. UploadsInOrder' /\ YoungImagesHaveFiles'
    BY <1>1, <2>1, SavesKeepFiles DEF UploadsInOrder
  <2>4. SyncsInOrder'
    <3> SUFFICES ASSUME NEW e \in documents \ drifted, e # d PROVE InSync(e)'
      BY <2>1 DEF SyncsInOrder
    <3>1. References(e)' = References(e)
      BY <2>1 DEF References
    <3>2. InSync(e) /\ Syncing(e)' = Syncing(e)
      BY <1>2 DEF SyncsInOrder, TypeOK
    <3> QED BY <1>1, <2>1, <3>1, <3>2, OthersInSync
  <2> QED BY <2>2, <2>3, <2>4
<1>4. ASSUME NEW links \in SUBSET Known, CollabStore(d, links) PROVE ImageInv'
  <2>1. /\ content' = [content EXCEPT ![d] = links] /\ drifted' = drifted \cup {d}
        /\ UNCHANGED <<documents, document_images>>
    BY <1>4 DEF CollabStore
  <2>2. links \in SUBSET Link /\ \A l \in links : uploads[l.image] \in {"done", "deleted"}
    BY DEF Known
  <2>3. content'[d] = links /\ \A e \in Docs \ {d} : content'[e] = content[e]
    BY <2>1 DEF TypeOK
  <2>4. TypeOK'
    BY <1>1, <2>1, <2>2 DEF TypeOK
  <2>5. UploadsInOrder' /\ YoungImagesHaveFiles'
    <3>1. \A e \in Docs : \A l \in content'[e] : uploads[l.image] \in {"done", "deleted"}
      BY <2>2, <2>3 DEF UploadsInOrder
    <3> QED BY <1>1, <3>1, SavesKeepFiles
  <2>6. SyncsInOrder'
    <3> SUFFICES ASSUME NEW e \in documents \ drifted, e # d PROVE InSync(e)'
      BY <2>1 DEF SyncsInOrder
    <3>1. References(e)' = References(e)
      BY <2>1 DEF References
    <3>2. InSync(e) /\ Syncing(e)' = Syncing(e) /\ content'[e] = content[e]
      BY <1>2, <2>3 DEF SyncsInOrder, TypeOK
    <3> QED BY <1>1, <3>1, <3>2, OthersInSync
  <2> QED BY <2>4, <2>5, <2>6
<1> QED BY <1>3, <1>4

-----------------------------------------------------------------------------
(* Theorems *)

\* ImageInv holds throughout, whatever uploads, saves, deletions and cleanups overlap or fail.
THEOREM ImageInvariant == Spec => []ImageInv
<1>1. Init => ImageInv
  <2> SUFFICES ASSUME Init PROVE ImageInv
    OBVIOUS
  <2>1. mode.documents \subseteq Docs
    BY ModeAssumption DEF Init
  <2>2. TypeOK
    BY <2>1 DEF Init, TypeOK
  <2>3. UploadsInOrder
    BY DEF Init, UploadsInOrder, Batch, Waiting
  <2>4. SyncsInOrder
    BY DEF Init, SyncsInOrder, InSync, Syncing, References, Rows
  <2>5. YoungImagesHaveFiles
    BY DEF Init, YoungImagesHaveFiles
  <2> QED BY <2>2, <2>3, <2>4, <2>5 DEF ImageInv
<1>2. ImageInv /\ [Next]_ivars => ImageInv'
  <2> SUFFICES ASSUME ImageInv, [Next]_ivars PROVE ImageInv'
    OBVIOUS
  <2>1. CASE Next
    <3>1. mode' = mode /\ mode.savers \subseteq Savers
      BY <2>1, ModeAssumption DEF Next, ImageInv, TypeOK
    <3>2. CASE UserStep
      BY <3>1, <3>2, UploadKeepsInv, DeleteKeepsInv, SaveKeepsInv, DocumentKeepsInv DEF UserStep
    <3>3. CASE ServerStep
      BY <3>1, <3>3, UploadKeepsInv, DeleteKeepsInv, SyncKeepsInv DEF ServerStep
    <3>4. CASE CleanupStep
      BY <3>1, <3>4, CleanupKeepsInv
    <3>5. CASE \E i \in Images : Age(i)
      BY <3>1, <3>5, UploadKeepsInv
    <3> QED BY <2>1, <3>2, <3>3, <3>4, <3>5 DEF Next
  <2>2. CASE UNCHANGED ivars
    <3>1. TypeOK' /\ Batch' = Batch
      BY <2>2 DEF ivars, ImageInv, TypeOK, Batch
    <3>2. UploadsInOrder' /\ YoungImagesHaveFiles'
      BY <2>2, <3>1 DEF ivars, ImageInv, UploadsInOrder, YoungImagesHaveFiles
    <3>3. ASSUME NEW d \in documents \ drifted PROVE InSync(d)'
      <4>1. Syncing(d)' = Syncing(d) /\ References(d)' = References(d)
        BY <2>2 DEF ivars, Syncing, References
      <4> QED BY <2>2, <4>1, OthersInSync DEF ivars, ImageInv, SyncsInOrder
    <3> QED BY <2>2, <3>1, <3>2, <3>3 DEF ivars, ImageInv, SyncsInOrder
  <2> QED BY <2>1, <2>2
<1> QED BY <1>1, <1>2, PTL DEF Spec

\* Every reachable state has the types of TypeOK.
COROLLARY TypeCorrect == Spec => []TypeOK
<1>1. ImageInv => TypeOK
  BY DEF ImageInv
<1> QED BY <1>1, ImageInvariant, PTL

\* An image that was recorded less than a day ago keeps its file, unless its user deletes it.
COROLLARY YoungImagesAreSafe == Spec => []YoungImagesHaveFiles
<1>1. ImageInv => YoungImagesHaveFiles
  BY DEF ImageInv
<1> QED BY <1>1, ImageInvariant, PTL

\* The last save of a document that nothing else has spoilt leaves its references right.
COROLLARY ReferencesAreKept == Spec => []ReferencesFollowContent
<1>1. ImageInv => ReferencesFollowContent
  BY DEF ImageInv, SyncsInOrder, InSync, References, ReferencesFollowContent, Settled
<1> QED BY <1>1, ImageInvariant, PTL
=============================================================================
