------------------------- MODULE VersionedDocuments -------------------------
(***************************************************************************)
(* What version history promises a reader of BookOwl's documentation: a    *)
(* document has one current body and a numbered past, and an edit, in one  *)
(* indivisible step, archives the body it supersedes under its version     *)
(* number and installs the next one.  "A new version is saved whenever the *)
(* document is updated" (docs/03-data-model.md, document_versions).        *)
(*                                                                         *)
(* The Go service needs three statements on an autocommit connection for   *)
(* what is one step here; DocumentHistory shows that it implements this.   *)
(***************************************************************************)
EXTENDS Naturals

CONSTANTS
  Docs,     \* document ids
  Bodies    \* what a snapshot holds: title, content, doc_type and tags as one value

VARIABLES
  current,  \* current[d]: the body of d, its version, and whether d exists
  past      \* superseded bodies: records [doc, version, body]

vvars == <<current, past>>

\* A document is created once, is live, and is never brought back.
Unborn == [status |-> "unborn"]
Gone   == [status |-> "gone"]
Live(b, n) == [status |-> "live", body |-> b, version |-> n]

VInit ==
  /\ current = [d \in Docs |-> Unborn]
  /\ past = {}

\* A new document starts at version 1 with an empty past.
VCreate(d, b) ==
  /\ current[d].status = "unborn"
  /\ current' = [current EXCEPT ![d] = Live(b, 1)]
  /\ UNCHANGED past

\* An edit archives exactly the body it replaces.
VEdit(d, b) ==
  /\ current[d].status = "live"
  /\ past' = past \cup {[doc |-> d, version |-> current[d].version, body |-> current[d].body]}
  /\ current' = [current EXCEPT ![d] = Live(b, @.version + 1)]

\* Deleting a document deletes its past with it.
VDelete(d) ==
  /\ current[d].status = "live"
  /\ current' = [current EXCEPT ![d] = Gone]
  /\ past' = {row \in past : row.doc # d}

VNext == \E d \in Docs :
  \/ \E b \in Bodies : VCreate(d, b) \/ VEdit(d, b)
  \/ VDelete(d)

VSpec == VInit /\ [][VNext]_vvars
=============================================================================
