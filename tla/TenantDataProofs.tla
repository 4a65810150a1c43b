-------------------------- MODULE TenantDataProofs --------------------------
(***************************************************************************)
(* Theorems about TenantData, for any tables at the start, any users,      *)
(* names and runbooks, and any number of requests, imports and seeds.      *)
(*                                                                         *)
(* That the constraints hold is what Execute and Request assume of the     *)
(* database.  The theorems are about what they are good for: that with     *)
(* these constraints and no others no document is lost from the trees and  *)
(* no comment from the lists.                                              *)
(*                                                                         *)
(* Much of it is about types: of the rows, which statements get from what  *)
(* requests have read, and of the requests, which get it from rows.  What  *)
(* a step may change is for TenantRequestsProofs, too.                     *)
(***************************************************************************)
EXTENDS TenantData, FiniteSetTheorems, SequenceTheorems, WellFoundedInduction, TLAPS

NoticeFields == {"user", "kind", "document", "comment", "actor", "read"}

\* What is needed of the types: that a table's next id is new, and the fields of two tables.
Shaped(t) ==
  /\ DOMAIN t = Numbered \cup {"members", "next"}
  /\ t.next \in [Numbered -> Nat]
  /\ \A table \in Numbered : DOMAIN t[table] \subseteq 0 .. (t.next[table] - 1)
  /\ \A k \in DOMAIN t.comments : t.comments[k] \in Comment
  /\ \A n \in DOMAIN t.notices : DOMAIN t.notices[n] = NoticeFields

\* The notices of t are in u, about the same documents.
NoticesStay(t, u) ==
  \A n \in DOMAIN t.notices :
    n \in DOMAIN u.notices /\ u.notices[n].document = t.notices[n].document

\* The comments of u are those of t, in their places, or new and in a place for them.
CommentsStayPut(t, u) ==
  \A k \in DOMAIN u.comments :
    LET new == u.comments[k] IN
    \/ /\ k \in DOMAIN t.comments
       /\ new.parent = t.comments[k].parent
       /\ new.document = t.comments[k].document
       /\ new.resolved = t.comments[k].resolved \/ new.parent = None
    \/ /\ k \notin DOMAIN t.comments
       /\ new.parent = None \/ (new.parent \in DOMAIN t.comments /\ t.comments[new.parent].parent = None)
       /\ ~new.resolved

\* What every statement makes of the tables t, as far as it matters here.
Follows(t, u) == Shaped(u) /\ NoticesStay(t, u) /\ CommentsStayPut(t, u)

-----------------------------------------------------------------------------
(* The statements *)

\* A statement that touches neither comments nor notices.
LEMMA Untouched ==
  ASSUME NEW t, NEW u, Shaped(t),
         DOMAIN u = DOMAIN t, u.next = t.next, u.comments = t.comments, u.notices = t.notices,
         \A table \in Numbered : DOMAIN u[table] \subseteq DOMAIN t[table]
  PROVE  Follows(t, u)
<1>1. Shaped(u)
  BY DEF Shaped
<1>2. NoticesStay(t, u) /\ CommentsStayPut(t, u)
  BY DEF NoticesStay, CommentsStayPut
<1> QED BY <1>1, <1>2 DEF Follows

\* What an INSERT leaves: a row more under an id that was free, and the other tables alone.
LEMMA InsertLeaves ==
  ASSUME NEW t, Shaped(t), NEW table \in Numbered, NEW row, NEW u, u = Insert(t, table, row)
  PROVE  /\ DOMAIN u = DOMAIN t
         /\ u.next \in [Numbered -> Nat]
         /\ t.next[table] \in Nat \ DOMAIN t[table]
         /\ DOMAIN u[table] = DOMAIN t[table] \cup {t.next[table]}
         /\ u[table][t.next[table]] = row
         /\ \A i \in DOMAIN t[table] : u[table][i] = t[table][i]
         /\ \A other \in Numbered \ {table} : u[other] = t[other]
         /\ \A other \in Numbered : DOMAIN u[other] \subseteq 0 .. (u.next[other] - 1)
<1>1. /\ DOMAIN t = Numbered \cup {"members", "next"}
      /\ t.next \in [Numbered -> Nat]
      /\ "next" \notin Numbered
  BY DEF Shaped, Numbered
<1>2. t.next[table] \in Nat \ DOMAIN t[table]
  BY <1>1 DEF Shaped
<1>3. /\ DOMAIN u = DOMAIN t
      /\ u[table] = Put(t[table], t.next[table], row)
      /\ u.next = [t.next EXCEPT ![table] = @ + 1]
      /\ \A other \in Numbered \ {table} : u[other] = t[other]
  BY <1>1 DEF Insert
<1>4. /\ DOMAIN u[table] = DOMAIN t[table] \cup {t.next[table]}
      /\ u[table][t.next[table]] = row
      /\ \A i \in DOMAIN t[table] : u[table][i] = t[table][i]
  BY <1>2, <1>3 DEF Put
<1>5. u.next \in [Numbered -> Nat]
  BY <1>1, <1>3
<1>6. ASSUME NEW other \in Numbered PROVE DOMAIN u[other] \subseteq 0 .. (u.next[other] - 1)
  <2>1. DOMAIN t[other] \subseteq 0 .. (t.next[other] - 1) /\ t.next[other] \in Nat
    BY <1>1 DEF Shaped
  <2>2. CASE other = table
    BY <1>1, <1>3, <1>4, <2>1, <2>2
  <2>3. CASE other # table
    BY <1>1, <1>3, <2>1, <2>3
  <2> QED BY <2>2, <2>3
<1> QED BY <1>2, <1>3, <1>4, <1>5, <1>6

\* An INSERT into another table than comments and notifications.
LEMMA InsertFollows ==
  ASSUME NEW t, Shaped(t), NEW table \in Numbered \ {"comments", "notices"}, NEW row
  PROVE  Follows(t, Insert(t, table, row))
<1> PICK u : u = Insert(t, table, row)
  OBVIOUS
<1>1. "comments" \in Numbered /\ "notices" \in Numbered
  BY DEF Numbered
<1>2. u.comments = t.comments /\ u.notices = t.notices
  BY <1>1, InsertLeaves
<1>3. Shaped(u)
  <2>1. /\ DOMAIN u = DOMAIN t
        /\ u.next \in [Numbered -> Nat]
        /\ \A other \in Numbered : DOMAIN u[other] \subseteq 0 .. (u.next[other] - 1)
    BY InsertLeaves
  <2> QED BY <1>2, <2>1 DEF Shaped
<1>4. NoticesStay(t, u) /\ CommentsStayPut(t, u)
  BY <1>2 DEF NoticesStay, CommentsStayPut
<1> QED BY <1>3, <1>4 DEF Follows

\* A new comment, on a document or in answer to a comment that is no reply.
LEMMA CreateCommentFollows ==
  ASSUME NEW t, Shaped(t), NEW d \in Nat, NEW parent, NEW author \in Users, NEW body \in SUBSET Mentions,
         parent = None \/ (parent \in DOMAIN t.comments /\ t.comments[parent].parent = None)
  PROVE  Follows(t, CreateComment(t, d, parent, author, body))
<1> PICK u : u = CreateComment(t, d, parent, author, body)
  OBVIOUS
<1>1. "comments" \in Numbered /\ "notices" \in Numbered
  BY DEF Numbered
<1>2. parent \in IdOrNull
  BY <1>1 DEF Shaped, IdOrNull, Id
<1>3. PICK row \in Comment :
        row = [document |-> d, parent |-> parent, author |-> author, body |-> body, aged |-> FALSE,
               posted |-> body, deleted |-> FALSE, resolved |-> FALSE]
  BY <1>2 DEF Comment, Id
<1>4. u = Insert(t, "comments", row)
  BY <1>3 DEF CreateComment
<1>5. /\ u.notices = t.notices
      /\ DOMAIN u.comments = DOMAIN t.comments \cup {t.next.comments}
      /\ u.comments[t.next.comments] = row /\ t.next.comments \notin DOMAIN t.comments
      /\ \A i \in DOMAIN t.comments : u.comments[i] = t.comments[i]
  BY <1>1, <1>4, InsertLeaves
<1>6. Shaped(u)
  <2>1. /\ DOMAIN u = DOMAIN t
        /\ u.next \in [Numbered -> Nat]
        /\ \A other \in Numbered : DOMAIN u[other] \subseteq 0 .. (u.next[other] - 1)
    BY <1>1, <1>4, InsertLeaves
  <2>2. \A k \in DOMAIN u.comments : u.comments[k] \in Comment
    BY <1>5 DEF Shaped
  <2> QED BY <1>5, <2>1, <2>2 DEF Shaped
<1>7. NoticesStay(t, u)
  BY <1>5 DEF NoticesStay
<1>8. CommentsStayPut(t, u)
  BY <1>3, <1>5 DEF CommentsStayPut
<1> QED BY <1>6, <1>7, <1>8 DEF Follows

\* A new notification.
LEMMA CreateNotificationFollows ==
  ASSUME NEW t, Shaped(t), NEW row, DOMAIN row = NoticeFields
  PROVE  Follows(t, CreateNotification(t, row))
<1> PICK u : u = Insert(t, "notices", row)
  OBVIOUS
<1>1. "comments" \in Numbered /\ "notices" \in Numbered
  BY DEF Numbered
<1>2. /\ u.comments = t.comments
      /\ DOMAIN u.notices = DOMAIN t.notices \cup {t.next.notices}
      /\ u.notices[t.next.notices] = row
      /\ \A i \in DOMAIN t.notices : u.notices[i] = t.notices[i]
  BY <1>1, InsertLeaves
<1>3. Shaped(u)
  <2>1. /\ DOMAIN u = DOMAIN t
        /\ u.next \in [Numbered -> Nat]
        /\ \A other \in Numbered : DOMAIN u[other] \subseteq 0 .. (u.next[other] - 1)
    BY <1>1, InsertLeaves
  <2>2. \A n \in DOMAIN u.notices : DOMAIN u.notices[n] = NoticeFields
    BY <1>2 DEF Shaped
  <2> QED BY <1>2, <2>1, <2>2 DEF Shaped
<1>4. NoticesStay(t, u) /\ CommentsStayPut(t, u)
  BY <1>2 DEF NoticesStay, CommentsStayPut
<1> QED BY <1>3, <1>4 DEF Follows, CreateNotification

\* What a DELETE leaves, with all that it takes along.
LEMMA CascadeFollows ==
  ASSUME NEW t, Shaped(t), NEW spaces, NEW documents
  PROVE  Follows(t, Cascade(t, spaces, documents))
<1> PICK u : u = Cascade(t, spaces, documents)
  OBVIOUS
<1>1. DOMAIN t = Numbered \cup {"members", "next"}
  BY DEF Shaped
<1>2. /\ DOMAIN u = DOMAIN t
      /\ u.next = t.next /\ u.notices = t.notices
      /\ \A table \in Numbered : \E ids : u[table] = t[table] \/ u[table] = Without(t[table], ids)
      /\ \E ids : u.comments = Without(t.comments, ids)
  BY <1>1 DEF Cascade, Numbered
<1>3. ASSUME NEW table \in Numbered
      PROVE  DOMAIN u[table] \subseteq DOMAIN t[table]
  BY <1>2 DEF Without, Restrict
<1>4. DOMAIN u.comments \subseteq DOMAIN t.comments
      /\ \A k \in DOMAIN u.comments : u.comments[k] = t.comments[k]
  BY <1>2 DEF Without, Restrict
<1>5. Shaped(u)
  <2>1. \A table \in Numbered : DOMAIN u[table] \subseteq 0 .. (u.next[table] - 1)
    BY <1>2, <1>3 DEF Shaped
  <2>2. \A k \in DOMAIN u.comments : u.comments[k] \in Comment
    BY <1>4 DEF Shaped
  <2> QED BY <1>1, <1>2, <2>1, <2>2 DEF Shaped
<1>6. NoticesStay(t, u) /\ CommentsStayPut(t, u)
  BY <1>2, <1>4 DEF NoticesStay, CommentsStayPut
<1> QED BY <1>5, <1>6 DEF Follows

\* A write to one comment that leaves it in its place.
LEMMA CommentWritten ==
  ASSUME NEW t, Shaped(t), NEW k \in DOMAIN t.comments, NEW row \in Comment,
         NEW u, u = [t EXCEPT !.comments[k] = row],
         row.parent = t.comments[k].parent, row.document = t.comments[k].document,
         row.resolved = t.comments[k].resolved \/ row.parent = None
  PROVE  /\ Follows(t, u)
         /\ \A table \in (DOMAIN t) \ {"comments"} : u[table] = t[table]
<1>1. DOMAIN t = Numbered \cup {"members", "next"}
  BY DEF Shaped
<1>2. /\ DOMAIN u = DOMAIN t
      /\ \A table \in (DOMAIN t) \ {"comments"} : u[table] = t[table]
      /\ u.comments = [t.comments EXCEPT ![k] = row]
  BY <1>1 DEF Numbered
<1>3. /\ DOMAIN u.comments = DOMAIN t.comments
      /\ u.comments[k] = row
      /\ \A j \in DOMAIN t.comments \ {k} : u.comments[j] = t.comments[j]
  BY <1>2
<1>4. u.next = t.next /\ u.notices = t.notices
  BY <1>1, <1>2 DEF Numbered
<1>5. Shaped(u)
  <2>1. \A table \in Numbered : DOMAIN u[table] \subseteq 0 .. (u.next[table] - 1)
    BY <1>1, <1>2, <1>3, <1>4 DEF Shaped
  <2>2. \A j \in DOMAIN u.comments : u.comments[j] \in Comment
    BY <1>3 DEF Shaped
  <2> QED BY <1>1, <1>2, <1>4, <2>1, <2>2 DEF Shaped
<1>6. NoticesStay(t, u) /\ CommentsStayPut(t, u)
  BY <1>3, <1>4 DEF NoticesStay, CommentsStayPut
<1> QED BY <1>2, <1>5, <1>6 DEF Follows

\* The other statements that touch neither comments nor notifications, whatever they are given.
LEMMA OthersFollow ==
  ASSUME NEW t, Shaped(t), NEW x, NEW y, NEW z, NEW w
  PROVE  /\ Follows(t, UpdateSpace(t, x, y))
         /\ Follows(t, AddSpaceMember(t, x, y))
         /\ Follows(t, RemoveSpaceMember(t, x, y))
         /\ Follows(t, UpdateCollection(t, x, y, z))
         /\ Follows(t, DeleteCollection(t, x))
         /\ Follows(t, UpdateTemplate(t, x, y))
         /\ Follows(t, DeleteTemplate(t, x))
         /\ Follows(t, UpdateDocument(t, x, y))
         /\ Follows(t, MoveToSpace(t, x, y, z, w))
         /\ Follows(t, MoveDocumentToCollection(t, x, y))
         /\ Follows(t, [t EXCEPT !.members = x])
<1> DEFINE Leaves(u) == /\ DOMAIN u = DOMAIN t
                        /\ u.next = t.next /\ u.comments = t.comments /\ u.notices = t.notices
                        /\ \A table \in Numbered : DOMAIN u[table] \subseteq DOMAIN t[table]
<1>1. DOMAIN t = Numbered \cup {"members", "next"}
  BY DEF Shaped
<1>2. ASSUME NEW u, Leaves(u) PROVE Follows(t, u)
  BY <1>2, Untouched
<1>3. Leaves(UpdateSpace(t, x, y))
  BY <1>1 DEF Numbered, UpdateSpace
<1>4. Leaves(AddSpaceMember(t, x, y))
  BY <1>1 DEF Numbered, AddSpaceMember
<1>5. Leaves(RemoveSpaceMember(t, x, y))
  BY <1>1 DEF Numbered, RemoveSpaceMember
<1>6. Leaves(UpdateCollection(t, x, y, z))
  BY <1>1 DEF Numbered, UpdateCollection
<1>7. Leaves(DeleteCollection(t, x))
  BY <1>1 DEF Numbered, DeleteCollection, Without, Restrict
<1>8. Leaves(UpdateTemplate(t, x, y))
  BY <1>1 DEF Numbered, UpdateTemplate
<1>9. Leaves(DeleteTemplate(t, x))
  BY <1>1 DEF Numbered, DeleteTemplate, Without, Restrict
<1>10. Leaves(UpdateDocument(t, x, y))
  BY <1>1 DEF Numbered, UpdateDocument
<1>11. Leaves(MoveToSpace(t, x, y, z, w))
  BY <1>1 DEF Numbered, MoveToSpace
<1>12. Leaves(MoveDocumentToCollection(t, x, y))
  BY <1>1 DEF Numbered, MoveDocumentToCollection
<1>13. Leaves([t EXCEPT !.members = x])
  BY <1>1 DEF Numbered
<1> HIDE DEF Leaves
<1> QED BY <1>2, <1>3, <1>4, <1>5, <1>6, <1>7, <1>8, <1>9, <1>10, <1>11, <1>12, <1>13

\* Reading notifications.
LEMMA ReadsFollow ==
  ASSUME NEW t, Shaped(t), NEW x, NEW y
  PROVE  Follows(t, MarkNotificationRead(t, x, y)) /\ Follows(t, MarkAllNotificationsRead(t, y))
<1>1. DOMAIN t = Numbered \cup {"members", "next"}
  BY DEF Shaped
<1>2. ASSUME NEW rows, DOMAIN rows = DOMAIN t.notices,
             \A n \in DOMAIN t.notices :
               rows[n] = t.notices[n] \/ rows[n] = [t.notices[n] EXCEPT !.read = TRUE]
      PROVE  Follows(t, [t EXCEPT !.notices = rows])
  <2> PICK u : u = [t EXCEPT !.notices = rows]
    OBVIOUS
  <2>1. /\ DOMAIN u = DOMAIN t /\ u.notices = rows /\ u.next = t.next /\ u.comments = t.comments
        /\ \A table \in Numbered \ {"notices"} : u[table] = t[table]
    BY <1>1 DEF Numbered
  <2>2. \A n \in DOMAIN rows : DOMAIN rows[n] = NoticeFields /\ rows[n].document = t.notices[n].document
    BY <1>2 DEF Shaped, NoticeFields
  <2>3. \A table \in Numbered : DOMAIN u[table] \subseteq 0 .. (u.next[table] - 1)
    BY <1>2, <2>1 DEF Shaped
  <2>4. Shaped(u)
    BY <2>1, <2>2, <2>3 DEF Shaped
  <2>5. NoticesStay(t, u) /\ CommentsStayPut(t, u)
    BY <1>2, <2>1, <2>2 DEF NoticesStay, CommentsStayPut
  <2> QED BY <2>4, <2>5 DEF Follows
<1> QED BY <1>2 DEF MarkNotificationRead, MarkAllNotificationsRead

\* What is done to comments: their text and marks, and only top-level ones are resolved.
LEMMA CommentsFollow ==
  ASSUME NEW t, Shaped(t), NEW k \in DOMAIN t.comments
  PROVE  /\ \A body \in SUBSET Mentions : Follows(t, UpdateCommentBody(t, k, body))
         /\ Follows(t, SoftDeleteComment(t, k))
         /\ t.comments[k].parent = None =>
              Follows(t, ResolveComment(t, k)) /\ Follows(t, UnresolveComment(t, k))
<1>1. t.comments[k] \in Comment
  BY DEF Shaped
<1>2. PICK r : r = t.comments[k]
  OBVIOUS
<1>3. ASSUME NEW body \in SUBSET Mentions PROVE Follows(t, UpdateCommentBody(t, k, body))
  <2>1. PICK row \in Comment : row = [r EXCEPT !.body = body]
    BY <1>1, <1>2 DEF Comment
  <2>2. UpdateCommentBody(t, k, body) = [t EXCEPT !.comments[k] = row]
    BY <1>2, <2>1 DEF UpdateCommentBody
  <2>3. row.parent = r.parent /\ row.document = r.document /\ row.resolved = r.resolved
    BY <1>1, <1>2, <2>1 DEF Comment
  <2> QED BY <1>2, <2>2, <2>3, CommentWritten
<1>4. Follows(t, SoftDeleteComment(t, k))
  <2>1. PICK row \in Comment : row = [r EXCEPT !.deleted = TRUE, !.body = {}]
    BY <1>1, <1>2 DEF Comment
  <2>2. SoftDeleteComment(t, k) = [t EXCEPT !.comments[k] = row]
    BY <1>2, <2>1 DEF SoftDeleteComment
  <2>3. row.parent = r.parent /\ row.document = r.document /\ row.resolved = r.resolved
    BY <1>1, <1>2, <2>1 DEF Comment
  <2> QED BY <1>2, <2>2, <2>3, CommentWritten
<1>5. ASSUME r.parent = None PROVE Follows(t, ResolveComment(t, k)) /\ Follows(t, UnresolveComment(t, k))
  <2>1. PICK row \in Comment : row = [r EXCEPT !.resolved = TRUE]
    BY <1>1, <1>2 DEF Comment
  <2>2. PICK row2 \in Comment : row2 = [r EXCEPT !.resolved = FALSE]
    BY <1>1, <1>2 DEF Comment
  <2>3. ResolveComment(t, k) = [t EXCEPT !.comments[k] = row]
    BY <1>2, <2>1 DEF ResolveComment
  <2>4. UnresolveComment(t, k) = [t EXCEPT !.comments[k] = row2]
    BY <1>2, <2>2 DEF UnresolveComment
  <2>5. /\ row.parent = r.parent /\ row.document = r.document
        /\ row2.parent = r.parent /\ row2.document = r.document
    BY <1>1, <1>2, <2>1, <2>2 DEF Comment
  <2> QED BY <1>2, <1>5, <2>3, <2>4, <2>5, CommentWritten
<1> QED BY <1>2, <1>3, <1>4, <1>5

\* A comment turns 15 minutes old: the constraints are as they were.
LEMMA AgeKeeps ==
  ASSUME Shaped(db), Consistent(db), NEW k \in DOMAIN db.comments, Age(k)
  PROVE  Consistent(db') /\ Follows(db, db')
<1>1. PICK t : t = db
  OBVIOUS
<1>2. PICK u : u = db'
  OBVIOUS
<1>3. t.comments[k] \in Comment
  BY <1>1 DEF Shaped
<1>4. PICK row \in Comment : row = [t.comments[k] EXCEPT !.aged = TRUE]
  BY <1>3 DEF Comment
<1>5. u = [t EXCEPT !.comments[k] = row]
  BY <1>1, <1>2, <1>4 DEF Age
<1>6. /\ row.parent = t.comments[k].parent /\ row.document = t.comments[k].document
      /\ row.resolved = t.comments[k].resolved
  BY <1>3, <1>4 DEF Comment
<1>7. Follows(t, u) /\ \A table \in (DOMAIN t) \ {"comments"} : u[table] = t[table]
  BY <1>1, <1>5, <1>6, CommentWritten
<1>8. /\ u.spaces = t.spaces /\ u.collections = t.collections /\ u.documents = t.documents
      /\ u.templates = t.templates /\ u.notices = t.notices /\ u.members = t.members
  BY <1>1, <1>7 DEF Shaped, Numbered
<1>9. /\ DOMAIN u.comments = DOMAIN t.comments
      /\ \A j \in DOMAIN t.comments :
           u.comments[j].parent = t.comments[j].parent /\ u.comments[j].document = t.comments[j].document
  <2>1. u.comments = [t.comments EXCEPT ![k] = row]
    BY <1>1, <1>5 DEF Shaped, Numbered
  <2> QED BY <1>6, <2>1
<1>10. SlugsUnique(u)
  BY <1>1, <1>8 DEF Consistent, SlugsUnique
<1>11. ReferencesResolve(u)
  BY <1>1, <1>8, <1>9 DEF Consistent, ReferencesResolve
<1> QED BY <1>1, <1>2, <1>7, <1>10, <1>11 DEF Consistent

-----------------------------------------------------------------------------
(* Types *)

News == SUBSET (Id \cup {None})

\* What is under way, by its kind.
Edits == [kind : {"edit"}, doc : Id, space : Id, slug : Slugs, news : News]
Moves ==
  [kind : {"move"}, pc : {"check", "write", "moved", "refused"}, doc : Id, from : Id, slug : Slugs,
   to : Id, place : IdOrNull, tries : Nat, news : News]
Trees ==
  [kind : {"tree"}, pc : {"half", "done"}, space : Id, filed : SUBSET Id, loose : SUBSET Id, news : News]
Lists ==
  [kind : {"list"}, pc : {"half", "done"}, of : {"documents", "runbooks"}, offset : Nat, total : Nat,
   rows : SUBSET Id, news : News]
Replies ==
  [kind : {"reply"}, doc : Id, parent : Id, author : Users, body : SUBSET Mentions, news : News]
Posts ==
  [kind : {"post"}, comment : Id, due : SUBSET (Users \X NoticeKinds), failed : BOOLEAN, news : News]
PostMortems ==
  [kind : {"postmortem"}, pc : {"space", "document", "created", "refused"}, into : Names, name : Names,
   space : IdOrNull, news : News]
Imports ==
  {r \in [kind : {"import"}, pc : {"space", "collection", "fetch", "look", "create", "done"}, into : Names,
          filing : Names \cup {None}, space : IdOrNull, collection : IdOrNull, offset : Nat, total : Nat,
          page : Seq(Alerts), imported : SUBSET Id, skipped : SUBSET Alerts, failed : SUBSET Alerts,
          changed : BOOLEAN, news : News] :
    r.pc = "create" => r.page # << >>}
Seeds ==
  {r \in [kind : {"seed"}, pc : {"templates", "template", "space", "newspace", "members",
                                 "docs", "create", "file", "done"},
          demo : BOOLEAN, templates : SUBSET SystemNames, name : Names \cup {None}, space : IdOrNull,
          members : SUBSET SeededUsers, collection : IdOrNull, docs : SUBSET DemoDocs, doc : IdOrNull,
          failed : BOOLEAN, news : News] :
    r.pc \in {"template", "create"} => r.name \in Names}

\* How documents match a query: a rank for each of some of them.
Ranks == UNION {[ds -> Nat] : ds \in SUBSET Id}

Searches ==
  [kind : {"search"}, pc : {"more", "done"}, exact : Ranks, similar : Ranks, in : {"space", "type", "all"},
   where : Id \cup Types \cup {None}, offset : Nat, found : SUBSET Id, news : News]

Proper(r) ==
  \/ r = Idle
  \/ r \in Edits \cup Moves \cup Trees \cup Lists \cup Searches
  \/ r \in Replies \cup Posts \cup PostMortems \cup Imports \cup Seeds

RequestsProper == DOMAIN requests = Clients /\ \A c \in Clients : Proper(requests[c])

\* The rows of each table.
RowOf ==
  [spaces |-> Space, collections |-> Collection, documents |-> Document, templates |-> Template,
   comments |-> Comment, notices |-> Notice]

\* Who replies, to what: to a comment that was there and no reply, as it still is if it is.
RepliesInv ==
  \A c \in Clients : requests[c].kind = "reply" =>
    LET parent == requests[c].parent IN
    /\ parent \in 0 .. (db.next.comments - 1)
    /\ parent \in DOMAIN db.comments => db.comments[parent].parent = None

\* The invariant: rows and requests of their types, and the constraints.  What a request
\* writes is of the table's type only because the request is of its own.
TypesInv ==
  Typed(db) /\ Consistent(db) /\ RequestsProper /\ RepliesInv /\ runbooks \in Seq(Alerts)

LEMMA TypedShaped ==
  ASSUME NEW t, Typed(t)
  PROVE  Shaped(t)
BY DEF Typed, Shaped, Id, Notice, NoticeFields

\* A request of each kind has the fields of its kind.
LEMMA KindTyped ==
  ASSUME NEW r, Proper(r)
  PROVE  /\ r.kind = "idle" => r = Idle
         /\ r.kind = "edit" => r \in Edits
         /\ r.kind = "move" => r \in Moves
         /\ r.kind = "tree" => r \in Trees
         /\ r.kind = "list" => r \in Lists
         /\ r.kind = "search" => r \in Searches
         /\ r.kind = "reply" => r \in Replies
         /\ r.kind = "post" => r \in Posts
         /\ r.kind = "postmortem" => r \in PostMortems
         /\ r.kind = "import" => r \in Imports
         /\ r.kind = "seed" => r \in Seeds
BY DEF Proper, Idle, Edits, Moves, Trees, Lists, Searches, Replies, Posts, PostMortems, Imports, Seeds

-----------------------------------------------------------------------------
(* The steps *)

\* What a step may make of spaces, members and collections, and what any delete takes along.
PlacesWritten ==
  \/ \E name \in Names : db' = CreateSpace(db, Slug(name))
  \/ \E c \in Clients :
       (PostMortemSpace(c) \/ ImportSpace(c)) /\ db' = CreateSpace(db, Slug(requests[c].into))
  \/ \E s \in DOMAIN db.spaces, name \in Names : db' = UpdateSpace(db, s, Slug(name))
  \/ \E members : db' = [db EXCEPT !.members = members]
  \/ \E s : \E name \in Names : db' = CreateCollection(db, s, Slug(name))
  \/ \E c \in Clients :
       /\ ImportCollection(c) /\ requests[c].filing # None
       /\ db' = CreateCollection(db, requests[c].space, Slug(requests[c].filing))
  \/ \E parent : \E k \in DOMAIN db.collections, name \in Names :
       db' = UpdateCollection(db, k, Slug(name), parent)
  \/ \E k : db' = DeleteCollection(db, k)
  \/ \E spaces \in SUBSET DOMAIN db.spaces, documents \in SUBSET DOMAIN db.documents :
       db' = Cascade(db, spaces, documents)

\* The types that rows have at present, which new ones may take over.
TypesThere ==
  Types \cup {db.documents[d].type : d \in DOMAIN db.documents}
        \cup {db.templates[p].type : p \in DOMAIN db.templates}

\* What a step may make of the templates.
TemplatesWritten ==
  \/ \E s \in DOMAIN db.spaces \cup {None}, name \in Names, type \in TypesThere, global \in BOOLEAN :
       db' = CreateTemplate(db, [space |-> s, name |-> name, type |-> type, system |-> FALSE,
                                 global |-> global])
  \/ \E c \in Clients :
       /\ MakeTemplate(c)
       /\ db' = CreateTemplate(db, [space |-> None, name |-> requests[c].name, type |-> "runbook",
                                    system |-> TRUE, global |-> TRUE])
  \/ \E p : \E name \in Names : db' = UpdateTemplate(db, p, name)
  \/ \E p : db' = DeleteTemplate(db, p)

\* What the PUT of c may make of its document.
Resent(old, place, slug, sent) ==
  [old EXCEPT !.slug = slug, !.collection = place, !.alert = sent.alert,
              !.type = Given(sent.type, @), !.status = Given(sent.status, @)]
SentBy(c, new) ==
  \E place : \E slug \in {requests[c].slug} \cup {Slug(name) : name \in Names}, sent \in Sent :
    new = Resent(db.documents[requests[c].doc], place, slug, sent)

\* What a step may make of the documents, but for deleting them.
DocumentsWritten ==
  \/ \E s \in DOMAIN db.spaces, name \in Names, type \in Types, status \in Statuses,
        alert \in Alerts \cup {None} : \E place :
       /\ Spend("documents")
       /\ db' = CreateDocument(db, [space |-> s, collection |-> place, slug |-> Slug(name), alert |-> alert,
                                    type |-> type, status |-> status])
  \/ \E c \in Clients :
       /\ PostMortemDocument(c)
       /\ db' = CreateDocument(db, [space |-> requests[c].space, collection |-> None,
                                    slug |-> Slug(requests[c].name), type |-> "post-mortem",
                                    status |-> "published", alert |-> None])
  \/ \E c \in Clients :
       /\ ImportCreate(c)
       /\ db' = CreateDocument(db, [space |-> requests[c].space, collection |-> requests[c].collection,
                                    slug |-> Slug(Title[Head(requests[c].page)]), type |-> "runbook",
                                    status |-> "published", alert |-> Head(requests[c].page)])
  \/ \E c \in Clients :
       /\ MakeDocument(c)
       /\ db' = CreateDocument(db, [space |-> requests[c].space, collection |-> requests[c].collection,
                                    slug |-> Slug(requests[c].name), type |-> "runbook",
                                    status |-> "published", alert |-> None])
  \/ \E c \in Clients : \E new :
       /\ Update(c) /\ requests[c].doc \in DOMAIN db.documents /\ SentBy(c, new)
       /\ db' = UpdateDocument(db, requests[c].doc, new)
  \/ \E c \in Clients :
       /\ MoveWrite(c)
       /\ db' = MoveToSpace(db, requests[c].doc, requests[c].to, requests[c].place, Candidate(requests[c]))
  \/ \E c \in Clients :
       /\ FileDocument(c)
       /\ db' = MoveDocumentToCollection(db, requests[c].doc, requests[c].collection)

\* Where a comment may be put: under nothing, or under a comment that is no reply.
Answers(parent) ==
  parent = None \/ (parent \in DOMAIN db.comments /\ db.comments[parent].parent = None)

\* The notification of comment k that p, a user and a reason, is due.
NoticeOf(k, p) ==
  [user |-> p[1], kind |-> p[2], document |-> db.comments[k].document, comment |-> k,
   actor |-> db.comments[k].author, read |-> FALSE]

\* What a step may make of comments and notifications.
DiscussionWritten ==
  \/ \E c \in Clients, d \in DOMAIN db.documents, author \in Users, body \in SUBSET Mentions :
       \E parent : /\ Answers(parent)
                   /\ Post(c, CreateComment(db, d, parent, author, body))
                   /\ db' = CreateComment(db, d, parent, author, body)
  \/ \E k \in DOMAIN db.comments :
       \/ \E body \in SUBSET Mentions : db' = UpdateCommentBody(db, k, body)
       \/ db' = SoftDeleteComment(db, k)
       \/ db.comments[k].parent = None /\ (db' = ResolveComment(db, k) \/ db' = UnresolveComment(db, k))
       \/ Age(k)
  \/ \E c \in Clients : \E p \in requests[c].due :
       /\ Notify(c) /\ requests[c].comment \in DOMAIN db.comments
       /\ db' = CreateNotification(db, NoticeOf(requests[c].comment, p))
  \/ \E n, u : db' = MarkNotificationRead(db, n, u)
  \/ \E u : db' = MarkAllNotificationsRead(db, u)

\* A step leaves the tables alone, or leaves what a statement makes of them, with the
\* constraints met.
Stands ==
  \/ db' = db
  \/ Consistent(db') /\ (PlacesWritten \/ TemplatesWritten \/ DocumentsWritten \/ DiscussionWritten)

\* Spaces and collections.
LEMMA PlacesStand ==
  ASSUME SpaceStep \/ CollectionStep
  PROVE  Stands
<1> USE DEF Request, Commit, Stands, PlacesWritten
<1>1. CASE SpaceStep
  <2>1. CASE SpaceCreate
    BY <2>1 DEF SpaceCreate, SpaceRequest
  <2>2. CASE SpaceUpdate
    BY <2>2 DEF SpaceUpdate, SpaceRequest
  <2>3. CASE AddMember \/ RemoveMember
    BY <2>3 DEF AddMember, RemoveMember, SpaceRequest, AddSpaceMember, RemoveSpaceMember
  <2>4. CASE SpaceDelete
    BY <2>4 DEF SpaceDelete, DeleteSpace
  <2> QED BY <1>1, <2>1, <2>2, <2>3, <2>4 DEF SpaceStep
<1>2. CASE CollectionStep
  <2>1. CASE CollectionCreate
    BY <2>1 DEF CollectionCreate, CollectionRequest
  <2>2. CASE CollectionUpdate
    BY <2>2 DEF CollectionUpdate, CollectionRequest
  <2>3. CASE CollectionDelete
    BY <2>3 DEF CollectionDelete
  <2> QED BY <1>2, <2>1, <2>2, <2>3 DEF CollectionStep
<1> QED BY <1>1, <1>2

\* Templates.
LEMMA TemplatesStand ==
  ASSUME TemplateStep
  PROVE  Stands
<1> USE DEF TemplateRequest, Request, Commit, Stands, TemplatesWritten
<1>1. CASE TemplateCreate
  BY <1>1 DEF TemplateCreate, TypesThere
<1>2. CASE SaveDocumentAsTemplate
  BY <1>2 DEF SaveDocumentAsTemplate, TypesThere
<1>3. CASE TemplateUpdate
  BY <1>3 DEF TemplateUpdate
<1>4. CASE TemplateDelete
  BY <1>4 DEF TemplateDelete
<1> QED BY <1>1, <1>2, <1>3, <1>4 DEF TemplateStep

\* Documents: their statements, and the reads, which leave everything alone.
LEMMA DocumentsStand ==
  ASSUME DocumentStep
  PROVE  Stands
<1>1. CASE Create
  <2>1. PICK s \in DOMAIN db.spaces, place \in AnyCollection, name \in Names, sent \in Sent :
          Request("documents", CreateDocument(db,
            [space |-> s, collection |-> place, slug |-> Slug(name), alert |-> sent.alert,
             type |-> Given(sent.type, "document"), status |-> Given(sent.status, "draft")]))
    BY <1>1 DEF Create
  <2>2. /\ Given(sent.type, "document") \in Types /\ Given(sent.status, "draft") \in Statuses
        /\ sent.alert \in Alerts \cup {None}
    BY SentAssumption DEF Given, Types, Statuses
  <2>3. PICK type \in Types, status \in Statuses, alert \in Alerts \cup {None} :
          Request("documents", CreateDocument(db,
            [space |-> s, collection |-> place, slug |-> Slug(name), alert |-> alert, type |-> type,
             status |-> status]))
    BY <2>1, <2>2
  <2> QED BY <2>3 DEF Request, Commit, Stands, DocumentsWritten
<1>2. CASE Delete
  BY <1>2 DEF Delete, DeleteDocument, Request, Commit, Stands, PlacesWritten
<1>3. ASSUME NEW c \in Clients, Update(c) PROVE Stands
  <2>1. requests[c].doc \in DOMAIN db.documents
    BY <1>3 DEF Update
  <2>2. PICK place \in AnyCollection, slug \in {requests[c].slug} \cup {Slug(name) : name \in Names}, sent \in Sent :
          LET d == requests[c].doc
              new == Resent(db.documents[d], place, slug, sent)
          IN Execute(c, UpdateDocument(db, d, new), Idle, Idle)
    BY <1>3 DEF Update, Resent
  <2>3. PICK new :
          /\ new = Resent(db.documents[requests[c].doc], place, slug, sent)
          /\ Execute(c, UpdateDocument(db, requests[c].doc, new), Idle, Idle)
    BY <2>2
  <2>4. SentBy(c, new)
    BY <2>3 DEF SentBy
  <2>5. db' = db \/ (Consistent(db') /\ db' = UpdateDocument(db, requests[c].doc, new))
    BY <2>3 DEF Execute, Commit, Go
  <2> QED BY <1>3, <2>1, <2>4, <2>5 DEF Stands, DocumentsWritten
<1>4. ASSUME NEW c \in Clients, MoveWrite(c) PROVE Stands
  <2>1. \/ db' = db
        \/ Consistent(db')
           /\ db' = MoveToSpace(db, requests[c].doc, requests[c].to, requests[c].place, Candidate(requests[c]))
    BY <1>4 DEF MoveWrite, Execute, Commit, Go
  <2> QED BY <1>4, <2>1 DEF Stands, DocumentsWritten
<1>5. ASSUME NEW c \in Clients,
             \/ Get(c) \/ MoveGet(c) \/ CheckSlug(c) \/ TreeCollections(c) \/ TreeDocuments(c)
             \/ ListCount(c) \/ ListRows(c) \/ SearchBegin(c) \/ SearchNext(c)
      PROVE  db' = db
  BY <1>5 DEF Get, MoveGet, CheckSlug, TreeCollections, TreeDocuments, ListCount, ListRows,
              SearchBegin, SearchNext, Begin, Go
<1> QED BY <1>1, <1>2, <1>3, <1>4, <1>5 DEF DocumentStep, Stands

\* Comments and notifications.
LEMMA DiscussionStands ==
  ASSUME TypesInv, DiscussionStep
  PROVE  Stands
<1> Shaped(db) /\ Consistent(db)
  BY TypedShaped DEF TypesInv
<1>1. ASSUME NEW c \in Clients, CreateOn(c) PROVE Stands
  <2>1. PICK d \in DOMAIN db.documents, author \in Users, body \in SUBSET Mentions :
          Post(c, CreateComment(db, d, None, author, body))
    BY <1>1 DEF CreateOn
  <2>2. db' = db \/ (Consistent(db') /\ db' = CreateComment(db, d, None, author, body))
    BY <2>1 DEF Post, Execute, Commit, Go
  <2> QED BY <2>1, <2>2 DEF Stands, DiscussionWritten, Answers
<1>8. ASSUME NEW c \in Clients, ReplyStore(c) PROVE Stands
  <2> PICK r : r = requests[c]
    OBVIOUS
  <2>1. r \in Replies /\ Post(c, CreateComment(db, r.doc, r.parent, r.author, r.body))
    BY <1>8, KindTyped DEF ReplyStore, TypesInv, RequestsProper
  <2>2. db' = db \/ (Consistent(db') /\ db' = CreateComment(db, r.doc, r.parent, r.author, r.body))
    BY <2>1 DEF Post, Execute, Commit, Go
  <2>3. r.author \in Users /\ r.body \in SUBSET Mentions
    BY <2>1 DEF Replies
  <2>4. ASSUME Consistent(db'), db' = CreateComment(db, r.doc, r.parent, r.author, r.body)
        PROVE  r.doc \in DOMAIN db.documents /\ Answers(r.parent)
    <3> PICK k : k = db.next.comments
      OBVIOUS
    <3> PICK row : row = [document |-> r.doc, parent |-> r.parent, author |-> r.author, body |-> r.body,
                          aged |-> FALSE, posted |-> r.body, deleted |-> FALSE, resolved |-> FALSE]
      OBVIOUS
    <3>1. {"comments", "documents"} \subseteq Numbered
      BY DEF Numbered
    <3>7. db' = Insert(db, "comments", row)
      BY <2>4 DEF CreateComment
    <3>2. /\ DOMAIN db'.comments = DOMAIN db.comments \cup {k} /\ db'.comments[k] = row
          /\ db'.documents = db.documents
      BY <3>1, <3>7, InsertLeaves
    <3>8. row.document = r.doc /\ row.parent = r.parent /\ k \in DOMAIN db'.comments
      BY <3>2
    <3>10. \A u : ReferencesResolve(u) => \A j \in DOMAIN u.comments :
             u.comments[j].document \in DOMAIN u.documents /\ u.comments[j].parent \in DOMAIN u.comments \cup {None}
      BY DEF ReferencesResolve
    <3>11. ReferencesResolve(db')
      BY <2>4 DEF Consistent
    <3>9. /\ db'.comments[k].document \in DOMAIN db'.documents
          /\ db'.comments[k].parent \in DOMAIN db'.comments \cup {None}
      BY <3>8, <3>10, <3>11
    <3>3. r.doc \in DOMAIN db.documents /\ r.parent \in DOMAIN db.comments \cup {k, None}
      BY <3>2, <3>8, <3>9
    <3>4. /\ r.parent \in 0 .. (k - 1)
          /\ r.parent \in DOMAIN db.comments => db.comments[r.parent].parent = None
      BY <1>8 DEF ReplyStore, TypesInv, RepliesInv
    <3>5. k \in Nat
      BY <3>1 DEF Shaped
    <3>6. r.parent # k
      BY <3>4, <3>5
    <3> QED BY <3>3, <3>4, <3>6 DEF Answers
  <2> QED BY <2>1, <2>2, <2>3, <2>4 DEF Stands, DiscussionWritten
<1>2. ASSUME NEW c \in Clients, Notify(c) PROVE Stands
  <2>1. PICK p \in requests[c].due :
          LET next == [requests[c] EXCEPT !.due = @ \ {p}]
          IN IF requests[c].comment \in DOMAIN db.comments
               THEN Execute(c, CreateNotification(db, NoticeOf(requests[c].comment, p)), next, next)
               ELSE Go(c, next)
    BY <1>2 DEF Notify, NoticeOf
  <2>2. \/ db' = db
        \/ /\ Consistent(db') /\ requests[c].comment \in DOMAIN db.comments
           /\ db' = CreateNotification(db, NoticeOf(requests[c].comment, p))
    BY <2>1 DEF Execute, Commit, Go
  <2> QED BY <1>2, <2>2 DEF Stands, DiscussionWritten
<1>3. ASSUME NEW c \in Clients, NotifyFails(c) PROVE Stands
  BY <1>3 DEF NotifyFails, Go, Stands
<1>4. ASSUME NEW k \in DOMAIN db.comments, NEW u \in Users, UpdateComment(k, u) \/ SoftDelete(k, u)
      PROVE  Stands
  BY <1>4 DEF UpdateComment, SoftDelete, CommentRequest, Request, Commit, Stands, DiscussionWritten
<1>5. ASSUME NEW k \in DOMAIN db.comments, Resolve(k) \/ Unresolve(k) PROVE Stands
  BY <1>5 DEF Resolve, Unresolve, CommentRequest, Request, Commit, Stands, DiscussionWritten
<1>6. ASSUME NEW k \in DOMAIN db.comments, Age(k) PROVE Stands
  BY <1>6, AgeKeeps DEF Stands, DiscussionWritten
<1>7. CASE NotificationStep
  BY <1>7 DEF NotificationStep, MarkRead, MarkAllRead, NoticeRequest, Request, Commit, Stands,
              DiscussionWritten
<1>9. ASSUME NEW c \in Clients, Reply(c) PROVE Stands
  BY <1>9 DEF Reply, Begin, Go, Stands
<1> QED BY <1>1, <1>2, <1>3, <1>4, <1>5, <1>6, <1>7, <1>8, <1>9 DEF DiscussionStep, CommentStep

\* Post-mortems and imports.
LEMMA IntegrationStands ==
  ASSUME IntegrationStep
  PROVE  Stands
<1>1. ASSUME NEW c \in Clients, PostMortemSpace(c) \/ ImportSpace(c) PROVE Stands
  <2>1. db' = db \/ (Consistent(db') /\ db' = CreateSpace(db, Slug(requests[c].into)))
    BY <1>1 DEF PostMortemSpace, ImportSpace, Execute, Commit, Go
  <2> QED BY <1>1, <2>1 DEF Stands, PlacesWritten
<1>2. ASSUME NEW c \in Clients, PostMortemDocument(c) PROVE Stands
  <2>1. \/ db' = db
        \/ Consistent(db')
           /\ db' = CreateDocument(db, [space |-> requests[c].space, collection |-> None,
                      slug |-> Slug(requests[c].name), type |-> "post-mortem", status |-> "published",
                      alert |-> None])
    BY <1>2 DEF PostMortemDocument, Execute, Commit, Go
  <2> QED BY <1>2, <2>1 DEF Stands, DocumentsWritten
<1>3. ASSUME NEW c \in Clients, ImportCollection(c) PROVE Stands
  <2>1. \/ db' = db
        \/ /\ Consistent(db') /\ requests[c].filing # None
           /\ db' = CreateCollection(db, requests[c].space, Slug(requests[c].filing))
    BY <1>3 DEF ImportCollection, Execute, Commit, Go
  <2> QED BY <1>3, <2>1 DEF Stands, PlacesWritten
<1>4. ASSUME NEW c \in Clients, ImportCreate(c) PROVE Stands
  <2>1. \/ db' = db
        \/ Consistent(db')
           /\ db' = CreateDocument(db, [space |-> requests[c].space, collection |-> requests[c].collection,
                      slug |-> Slug(Title[Head(requests[c].page)]), type |-> "runbook",
                      status |-> "published", alert |-> Head(requests[c].page)])
    BY <1>4 DEF ImportCreate, Execute, Commit, Go
  <2> QED BY <1>4, <2>1 DEF Stands, DocumentsWritten
<1>5. ASSUME NEW c \in Clients,
             \/ PostMortemBegin(c) \/ ImportBegin(c) \/ ImportFetch(c) \/ ImportLook(c)
             \/ ImportPage(c) \/ RunbooksCount(c) \/ RunbooksRows(c)
      PROVE  db' = db
  BY <1>5 DEF PostMortemBegin, ImportBegin, ImportFetch, ImportLook, ImportPage, RunbooksCount,
              RunbooksRows, Begin, Go
<1> QED BY <1>1, <1>2, <1>3, <1>4, <1>5 DEF IntegrationStep, PostMortemStep, ImportStep, Stands

\* Seeds.
LEMMA SeedStands ==
  ASSUME SeedStep
  PROVE  Stands
<1>1. ASSUME NEW c \in Clients, MakeTemplate(c) PROVE Stands
  <2>1. \/ db' = db
        \/ Consistent(db')
           /\ db' = CreateTemplate(db, [space |-> None, name |-> requests[c].name, type |-> "runbook",
                                        system |-> TRUE, global |-> TRUE])
    BY <1>1 DEF MakeTemplate, Execute, Commit, Go
  <2> QED BY <1>1, <2>1 DEF Stands, TemplatesWritten
<1>2. ASSUME NEW c \in Clients, MakeSpace(c) PROVE Stands
  BY <1>2, SeedAssumption DEF MakeSpace, Execute, Commit, Go, Stands, PlacesWritten
<1>3. ASSUME NEW c \in Clients, AddSeededMember(c) PROVE Stands
  BY <1>3 DEF AddSeededMember, AddSpaceMember, Execute, Commit, Go, Stands, PlacesWritten
<1>4. ASSUME NEW c \in Clients, FindOrCreateCollection(c) PROVE Stands
  <2>1. db' = db \/ (Consistent(db') /\ db' = CreateCollection(db, requests[c].space, Slug(DemoName)))
    BY <1>4 DEF FindOrCreateCollection, Execute, Commit, Go
  <2> QED BY <2>1, SeedAssumption DEF Stands, PlacesWritten
<1>5. ASSUME NEW c \in Clients, MakeDocument(c) PROVE Stands
  <2>1. \/ db' = db
        \/ Consistent(db')
           /\ db' = CreateDocument(db, [space |-> requests[c].space, collection |-> requests[c].collection,
                      slug |-> Slug(requests[c].name), type |-> "runbook", status |-> "published",
                      alert |-> None])
    BY <1>5 DEF MakeDocument, Execute, Commit, Go
  <2> QED BY <1>5, <2>1 DEF Stands, DocumentsWritten
<1>6. ASSUME NEW c \in Clients, FileDocument(c) PROVE Stands
  <2>1. \/ db' = db
        \/ Consistent(db') /\ db' = MoveDocumentToCollection(db, requests[c].doc, requests[c].collection)
    BY <1>6 DEF FileDocument, Execute, Commit, Go
  <2> QED BY <1>6, <2>1 DEF Stands, DocumentsWritten
<1>7. ASSUME NEW c \in Clients,
             \/ SeedBegin(c) \/ LookForTemplate(c) \/ TemplatesDone(c) \/ TemplatesFail(c) \/ FindSpace(c)
             \/ LookForDocument(c) \/ DocumentsDone(c)
      PROVE  db' = db
  BY <1>7 DEF SeedBegin, LookForTemplate, TemplatesDone, TemplatesFail, FindSpace, LookForDocument,
              DocumentsDone, Begin, Go
<1> QED BY <1>1, <1>2, <1>3, <1>4, <1>5, <1>6, <1>7 DEF SeedStep, Stands

\* Every step.
LEMMA NextStands ==
  ASSUME TypesInv, [Next]_dvars
  PROVE  Stands
<1>1. CASE Ends \/ NightOwlChanges \/ UNCHANGED dvars
  BY <1>1 DEF Ends, End, Go, NightOwlChanges, dvars, Stands
<1> QED BY <1>1, PlacesStand, TemplatesStand, DocumentsStand, DiscussionStands, IntegrationStands, SeedStands
        DEF Next, WorkspaceStep

\* In each of them the comments and notifications stay where they are.
Kept == db' = db \/ (Consistent(db') /\ Follows(db, db'))

LEMMA NextKept ==
  ASSUME TypesInv, [Next]_dvars
  PROVE  Kept
<1> Shaped(db) /\ Consistent(db)
  BY TypedShaped DEF TypesInv
<1>1. {"spaces", "collections", "templates", "documents"} \subseteq Numbered \ {"comments", "notices"}
  BY DEF Numbered
<1>2. PlacesWritten => Follows(db, db')
  <2>1. \A table \in {"spaces", "collections"} : \A row : Follows(db, Insert(db, table, row))
    BY <1>1, InsertFollows
  <2>2. /\ \A x, y, z : Follows(db, UpdateSpace(db, x, y)) /\ Follows(db, UpdateCollection(db, x, y, z))
        /\ \A x : Follows(db, DeleteCollection(db, x)) /\ Follows(db, [db EXCEPT !.members = x])
    BY OthersFollow
  <2>3. \A spaces, documents : Follows(db, Cascade(db, spaces, documents))
    BY CascadeFollows
  <2> QED BY <2>1, <2>2, <2>3 DEF PlacesWritten, CreateSpace, CreateCollection
<1>3. TemplatesWritten => Follows(db, db')
  <2>1. \A row : Follows(db, Insert(db, "templates", row))
    BY <1>1, InsertFollows
  <2>2. \A p, name : Follows(db, UpdateTemplate(db, p, name)) /\ Follows(db, DeleteTemplate(db, p))
    BY OthersFollow
  <2> QED BY <2>1, <2>2 DEF TemplatesWritten, CreateTemplate
<1>4. DocumentsWritten => Follows(db, db')
  <2>1. \A row : Follows(db, CreateDocument(db, row))
    BY <1>1, InsertFollows DEF CreateDocument
  <2>2. /\ \A d, new : Follows(db, UpdateDocument(db, d, new))
        /\ \A d, s, place, slug : Follows(db, MoveToSpace(db, d, s, place, slug))
        /\ \A d, k : Follows(db, MoveDocumentToCollection(db, d, k))
    BY OthersFollow
  <2> QED BY <2>1, <2>2 DEF DocumentsWritten
<1>5. DiscussionWritten => Follows(db, db')
  <2>1. ASSUME NEW d \in DOMAIN db.documents, NEW author \in Users, NEW body \in SUBSET Mentions,
               NEW parent, Answers(parent)
        PROVE  Follows(db, CreateComment(db, d, parent, author, body))
    <3>1. d \in Nat
      BY DEF Shaped, Numbered
    <3> QED BY <2>1, <3>1, CreateCommentFollows DEF Answers
  <2>2. ASSUME NEW k \in DOMAIN db.comments
        PROVE  /\ \A body \in SUBSET Mentions : Follows(db, UpdateCommentBody(db, k, body))
               /\ Follows(db, SoftDeleteComment(db, k))
               /\ db.comments[k].parent = None =>
                    Follows(db, ResolveComment(db, k)) /\ Follows(db, UnresolveComment(db, k))
               /\ Age(k) => Follows(db, db')
    BY CommentsFollow, AgeKeeps
  <2>3. \A k, p : Follows(db, CreateNotification(db, NoticeOf(k, p)))
    BY CreateNotificationFollows DEF NoticeOf, NoticeFields
  <2>4. \A n, u : /\ Follows(db, MarkNotificationRead(db, n, u))
                 /\ Follows(db, MarkAllNotificationsRead(db, u))
    BY ReadsFollow
  <2> QED BY <2>1, <2>2, <2>3, <2>4 DEF DiscussionWritten
<1> QED BY <1>2, <1>3, <1>4, <1>5, NextStands DEF Stands, Kept

-----------------------------------------------------------------------------
(* Statements leave typed rows *)

\* Typed, table by table.
LEMMA TypedRows ==
  ASSUME NEW t
  PROVE  Typed(t) <=>
           /\ DOMAIN t = Numbered \cup {"members", "next"}
           /\ t.next \in [Numbered -> Id]
           /\ \A table \in Numbered :
                /\ DOMAIN t[table] \subseteq 0 .. (t.next[table] - 1)
                /\ \A i \in DOMAIN t[table] : t[table][i] \in RowOf[table]
           /\ t.members \subseteq Id \X Users
BY DEF Typed, RowOf, Numbered

\* An INSERT of a row for the table.
LEMMA InsertTyped ==
  ASSUME NEW t, Typed(t), NEW table \in Numbered, NEW row \in RowOf[table]
  PROVE  Typed(Insert(t, table, row))
<1> PICK u : u = Insert(t, table, row)
  OBVIOUS
<1>1. Shaped(t)
  BY TypedShaped
<1>2. /\ DOMAIN u = DOMAIN t
      /\ u.next \in [Numbered -> Nat]
      /\ DOMAIN u[table] = DOMAIN t[table] \cup {t.next[table]}
      /\ u[table][t.next[table]] = row
      /\ \A i \in DOMAIN t[table] : u[table][i] = t[table][i]
      /\ \A other \in Numbered \ {table} : u[other] = t[other]
      /\ \A other \in Numbered : DOMAIN u[other] \subseteq 0 .. (u.next[other] - 1)
  BY <1>1, InsertLeaves
<1>3. u.members = t.members
  <2>1. "members" \notin Numbered /\ "members" # "next" /\ "members" \in DOMAIN t
    BY DEF Typed, Numbered
  <2> QED BY <2>1 DEF Insert
<1>4. ASSUME NEW other \in Numbered, NEW i \in DOMAIN u[other] PROVE u[other][i] \in RowOf[other]
  BY <1>2, TypedRows
<1> QED BY <1>2, <1>3, <1>4, TypedRows DEF Id

\* A statement that adds no row and leaves each as it is, or one for its table.
LEMMA RowsTyped ==
  ASSUME NEW t, Typed(t), NEW u, DOMAIN u = DOMAIN t, u.next = t.next, u.members \subseteq Id \X Users,
         \A table \in Numbered :
           /\ DOMAIN u[table] \subseteq DOMAIN t[table]
           /\ \A i \in DOMAIN u[table] : u[table][i] = t[table][i] \/ u[table][i] \in RowOf[table]
  PROVE  Typed(u)
<1>1. ASSUME NEW table \in Numbered
      PROVE  /\ DOMAIN u[table] \subseteq 0 .. (u.next[table] - 1)
             /\ \A i \in DOMAIN u[table] : u[table][i] \in RowOf[table]
  BY TypedRows
<1> QED BY <1>1, TypedRows

\* The same when one table is written.
LEMMA TableTyped ==
  ASSUME NEW t, Typed(t), NEW table \in Numbered, NEW rows,
         DOMAIN rows \subseteq DOMAIN t[table],
         \A i \in DOMAIN rows : rows[i] = t[table][i] \/ rows[i] \in RowOf[table]
  PROVE  Typed([t EXCEPT ![table] = rows])
<1> PICK u : u = [t EXCEPT ![table] = rows]
  OBVIOUS
<1>1. /\ DOMAIN u = DOMAIN t /\ u.next = t.next /\ u.members = t.members
      /\ u[table] = rows /\ \A other \in Numbered \ {table} : u[other] = t[other]
  <2>1. DOMAIN t = Numbered \cup {"members", "next"} /\ "next" \notin Numbered /\ "members" \notin Numbered
    BY DEF Typed, Numbered
  <2> QED BY <2>1
<1>2. u.members \subseteq Id \X Users
  BY <1>1 DEF Typed
<1> QED BY <1>1, <1>2, RowsTyped

\* A DELETE, with all that it takes along.
LEMMA CascadeTyped ==
  ASSUME NEW t, Typed(t), NEW spaces, NEW documents
  PROVE  Typed(Cascade(t, spaces, documents))
<1> PICK u : u = Cascade(t, spaces, documents)
  OBVIOUS
<1>1. DOMAIN t = Numbered \cup {"members", "next"}
  BY DEF Typed
<1>2. /\ DOMAIN u = DOMAIN t /\ u.next = t.next /\ u.members \subseteq t.members
      /\ \A table \in Numbered : \E ids : u[table] = t[table] \/ u[table] = Without(t[table], ids)
  BY <1>1 DEF Cascade, Numbered
<1>3. ASSUME NEW table \in Numbered
      PROVE  /\ DOMAIN u[table] \subseteq DOMAIN t[table]
             /\ \A i \in DOMAIN u[table] : u[table][i] = t[table][i]
  BY <1>2 DEF Without, Restrict
<1>4. u.members \subseteq Id \X Users
  BY <1>2 DEF Typed
<1> QED BY <1>2, <1>3, <1>4, RowsTyped

LEMMA SlugTyped ==
  /\ \A name \in Names : Slug(name) \in Slugs
  /\ \A slug \in Slugs, i \in Nat : Suffixed(slug, i) \in Slugs
<1>1. \A name \in Names : Slug(name) \in Slugs
  <2>1. << >> \in Seq(Nat)
    OBVIOUS
  <2> QED BY <2>1 DEF Slug, Slugs
<1>2. ASSUME NEW slug \in Slugs, NEW i \in Nat PROVE Suffixed(slug, i) \in Slugs
  <2>1. slug[1] \in Names /\ slug[2] \in Seq(Nat)
    BY DEF Slugs
  <2>2. Append(slug[2], i) \in Seq(Nat)
    BY <2>1
  <2> QED BY <2>1, <2>2 DEF Suffixed, Slugs
<1> QED BY <1>1, <1>2

\* The columns that refer to rows have ids, for the rows are there.
LEMMA ColumnsTyped ==
  ASSUME NEW t, DOMAIN t = Numbered \cup {"members", "next"},
         \A table \in Numbered : DOMAIN t[table] \subseteq Nat, ReferencesResolve(t)
  PROVE  /\ \A c \in DOMAIN t.collections :
              t.collections[c].space \in Id /\ t.collections[c].parent \in IdOrNull
         /\ \A d \in DOMAIN t.documents :
              t.documents[d].space \in Id /\ t.documents[d].collection \in IdOrNull
         /\ \A p \in DOMAIN t.templates : t.templates[p].space \in IdOrNull
         /\ t.members \subseteq Id \X Users
         /\ \A n \in DOMAIN t.notices : t.notices[n].document \in Id /\ t.notices[n].comment \in Id
<1>1. /\ DOMAIN t.spaces \subseteq Id /\ DOMAIN t.collections \subseteq Id
      /\ DOMAIN t.documents \subseteq Id /\ DOMAIN t.comments \subseteq Id
  BY DEF Numbered, Id
<1> QED BY <1>1 DEF ReferencesResolve, IdOrNull

\* An INSERT that the foreign keys let pass: the columns that refer to rows have ids.
LEMMA InsertedRow ==
  ASSUME NEW t, Typed(t), NEW table \in Numbered, NEW row, Consistent(Insert(t, table, row))
  PROVE  /\ table = "collections" => row.space \in Id /\ row.parent \in IdOrNull
         /\ table = "documents" => row.space \in Id /\ row.collection \in IdOrNull
         /\ table = "templates" => row.space \in IdOrNull
         /\ table = "notices" => row.document \in Id /\ row.comment \in Id
<1> PICK u : u = Insert(t, table, row)
  OBVIOUS
<1>1. /\ DOMAIN u = DOMAIN t
      /\ DOMAIN u[table] = DOMAIN t[table] \cup {t.next[table]}
      /\ u[table][t.next[table]] = row
      /\ u.next \in [Numbered -> Nat]
      /\ \A other \in Numbered : DOMAIN u[other] \subseteq 0 .. (u.next[other] - 1)
  BY TypedShaped, InsertLeaves
<1>2. \A other \in Numbered : DOMAIN u[other] \subseteq Nat
  BY <1>1
<1>3. DOMAIN t = Numbered \cup {"members", "next"}
  BY DEF Typed
<1>4. ReferencesResolve(u)
  BY DEF Consistent
<1>5. \A id \in DOMAIN u[table] :
         /\ table = "collections" => u[table][id].space \in Id /\ u[table][id].parent \in IdOrNull
         /\ table = "documents" => u[table][id].space \in Id /\ u[table][id].collection \in IdOrNull
         /\ table = "templates" => u[table][id].space \in IdOrNull
         /\ table = "notices" => u[table][id].document \in Id /\ u[table][id].comment \in Id
  BY <1>1, <1>2, <1>3, <1>4, ColumnsTyped
<1> QED BY <1>1, <1>5

\* Spaces, members and collections.
LEMMA PlacesTyped ==
  ASSUME Typed(db), RequestsProper, PlacesWritten, Consistent(db')
  PROVE  Typed(db')
<1>1. \A table \in Numbered : \A row \in RowOf[table] : Typed(Insert(db, table, row))
  BY InsertTyped
<1>2. "spaces" \in Numbered /\ "collections" \in Numbered
  BY DEF Numbered
<1>3. ASSUME NEW slug \in Slugs, db' = CreateSpace(db, slug) PROVE Typed(db')
  BY <1>1, <1>2, <1>3 DEF CreateSpace, RowOf, Space
<1>4. ASSUME NEW s, NEW slug \in Slugs, db' = CreateCollection(db, s, slug) PROVE Typed(db')
  <2>1. PICK row : row = [space |-> s, slug |-> slug, parent |-> None]
    OBVIOUS
  <2>2. row.space \in Id
    BY <1>2, <1>4, <2>1, InsertedRow DEF CreateCollection
  <2>3. row \in Collection
    BY <2>1, <2>2 DEF Collection, IdOrNull
  <2> QED BY <1>1, <1>2, <1>4, <2>1, <2>3 DEF CreateCollection, RowOf
<1>5. ASSUME NEW c \in Clients, ImportSpace(c) \/ PostMortemSpace(c) PROVE requests[c].into \in Names
  BY <1>5, KindTyped DEF RequestsProper, ImportSpace, PostMortemSpace, Imports, PostMortems
<1>6. ASSUME NEW c \in Clients, ImportCollection(c), requests[c].filing # None
      PROVE  requests[c].filing \in Names
  BY <1>6, KindTyped DEF RequestsProper, ImportCollection, Imports
<1>7. ASSUME NEW s \in DOMAIN db.spaces, NEW slug \in Slugs, db' = UpdateSpace(db, s, slug)
      PROVE  Typed(db')
  <2>1. PICK rows : rows = [db.spaces EXCEPT ![s].slug = slug]
    OBVIOUS
  <2>2. db.spaces[s] \in Space
    BY DEF Typed
  <2>3. [db.spaces[s] EXCEPT !.slug = slug] \in Space
    BY <2>2 DEF Space
  <2>4. DOMAIN rows = DOMAIN db.spaces
        /\ \A i \in DOMAIN rows : rows[i] = db.spaces[i] \/ rows[i] \in RowOf["spaces"]
    BY <2>1, <2>3 DEF RowOf
  <2>5. db' = [db EXCEPT !["spaces"] = rows]
    BY <1>7, <2>1 DEF UpdateSpace
  <2> QED BY <1>2, <2>4, <2>5, TableTyped
<1>8. ASSUME NEW members, db' = [db EXCEPT !.members = members] PROVE Typed(db')
  <2>1. DOMAIN db = Numbered \cup {"members", "next"} /\ "members" \notin Numbered
    BY DEF Typed, Numbered
  <2>2. DOMAIN db' = DOMAIN db /\ db'.next = db.next /\ \A table \in Numbered : db'[table] = db[table]
    BY <1>8, <2>1 DEF Numbered
  <2>3. \A table \in Numbered : DOMAIN db'[table] \subseteq Nat
    BY <2>2 DEF Typed, Id
  <2>4. db'.members \subseteq Id \X Users
    BY <2>1, <2>2, <2>3, ColumnsTyped DEF Consistent
  <2> QED BY <2>2, <2>4, RowsTyped
<1>9. ASSUME NEW k \in DOMAIN db.collections, NEW slug \in Slugs, NEW parent,
             db' = UpdateCollection(db, k, slug, parent)
      PROVE  Typed(db')
  <2>1. PICK row : row = [db.collections[k] EXCEPT !.slug = slug, !.parent = parent]
    OBVIOUS
  <2>2. PICK rows : rows = [db.collections EXCEPT ![k] = row]
    OBVIOUS
  <2>3. db.collections[k] \in Collection
    BY DEF Typed
  <2>4. db' = [db EXCEPT !["collections"] = rows]
    BY <1>9, <2>1, <2>2 DEF UpdateCollection
  <2>5. "collections" \in DOMAIN db /\ DOMAIN db' = DOMAIN db
        /\ \A table \in Numbered : DOMAIN db'[table] \subseteq Nat
    BY <1>2, <2>2, <2>4 DEF Typed, Id
  <2>6. db'.collections[k].parent \in IdOrNull
    <3>1. k \in DOMAIN db'.collections
      BY <2>2, <2>4, <2>5
    <3> QED BY <3>1, <2>5, ColumnsTyped DEF Consistent, Typed
  <2>7. row.parent = parent /\ parent \in IdOrNull
    BY <2>1, <2>2, <2>3, <2>4, <2>5, <2>6 DEF Collection
  <2>8. row \in Collection
    BY <2>1, <2>3, <2>7 DEF Collection
  <2>9. DOMAIN rows = DOMAIN db.collections
        /\ \A i \in DOMAIN rows : rows[i] = db.collections[i] \/ rows[i] \in RowOf["collections"]
    BY <2>2, <2>8 DEF RowOf
  <2> QED BY <1>2, <2>4, <2>9, TableTyped
<1>10. ASSUME NEW k, db' = DeleteCollection(db, k) PROVE Typed(db')
  <2>1. PICK rows : rows = Without(db.collections, {k})
    OBVIOUS
  <2>2. DOMAIN rows \subseteq DOMAIN db.collections /\ \A i \in DOMAIN rows : rows[i] = db.collections[i]
    BY <2>1 DEF Without, Restrict
  <2>3. db' = [db EXCEPT !["collections"] = rows]
    BY <1>10, <2>1 DEF DeleteCollection
  <2> QED BY <1>2, <2>2, <2>3, TableTyped
<1>11. ASSUME NEW spaces, NEW documents, db' = Cascade(db, spaces, documents) PROVE Typed(db')
  BY <1>11, CascadeTyped
<1> QED BY <1>3, <1>4, <1>5, <1>6, <1>7, <1>8, <1>9, <1>10, <1>11, SlugTyped DEF PlacesWritten

\* Templates.
LEMMA TemplatesTyped ==
  ASSUME Typed(db), RequestsProper, TemplatesWritten, Consistent(db')
  PROVE  Typed(db')
<1>1. "templates" \in Numbered
  BY DEF Numbered
<1>2. ASSUME NEW s, NEW name \in Names, NEW type \in Types, NEW system \in BOOLEAN, NEW global \in BOOLEAN,
             db' = CreateTemplate(db, [space |-> s, name |-> name, type |-> type, system |-> system,
                                       global |-> global])
      PROVE  Typed(db')
  <2>1. PICK row : row = [space |-> s, name |-> name, type |-> type, system |-> system, global |-> global]
    OBVIOUS
  <2>2. row.space \in IdOrNull
    BY <1>1, <1>2, <2>1, InsertedRow DEF CreateTemplate
  <2>3. row \in RowOf["templates"]
    BY <2>1, <2>2 DEF Template, RowOf
  <2> QED BY <1>1, <1>2, <2>1, <2>3, InsertTyped DEF CreateTemplate
<1>3. TypesThere = Types
  BY DEF TypesThere, Typed, Document, Template
<1>4. ASSUME NEW c \in Clients, MakeTemplate(c) PROVE requests[c].name \in Names
  BY <1>4, KindTyped DEF RequestsProper, MakeTemplate, At, Seeds
<1>5. ASSUME NEW p, NEW name \in Names, db' = UpdateTemplate(db, p, name) PROVE Typed(db')
  <2>1. PICK rows : rows = [q \in DOMAIN db.templates |->
                              IF q = p /\ ~db.templates[q].system
                                THEN [db.templates[q] EXCEPT !.name = name] ELSE db.templates[q]]
    OBVIOUS
  <2>2. \A q \in DOMAIN rows : rows[q] \in RowOf["templates"]
    BY <2>1 DEF Typed, Template, RowOf
  <2>3. db' = [db EXCEPT !["templates"] = rows]
    BY <1>5, <2>1 DEF UpdateTemplate
  <2> QED BY <1>1, <2>1, <2>2, <2>3, TableTyped
<1>6. ASSUME NEW p, db' = DeleteTemplate(db, p) PROVE Typed(db')
  <2>1. PICK ids : db' = [db EXCEPT !["templates"] = Without(db.templates, ids)]
    BY <1>6 DEF DeleteTemplate
  <2>2. PICK rows : rows = Without(db.templates, ids)
    OBVIOUS
  <2>3. DOMAIN rows \subseteq DOMAIN db.templates /\ \A i \in DOMAIN rows : rows[i] = db.templates[i]
    BY <2>2 DEF Without, Restrict
  <2> QED BY <1>1, <2>1, <2>2, <2>3, TableTyped
<1>7. "runbook" \in Types
  BY DEF Types
<1> QED BY <1>2, <1>3, <1>4, <1>5, <1>6, <1>7 DEF TemplatesWritten

\* Documents.
LEMMA DocumentsTyped ==
  ASSUME Typed(db), RequestsProper, DocumentsWritten, Consistent(db')
  PROVE  Typed(db')
<1>1. "documents" \in Numbered
  BY DEF Numbered
<1>3. ASSUME NEW s, NEW k, NEW slug \in Slugs, NEW type \in Types, NEW status \in Statuses,
             NEW alert \in Alerts \cup {None},
             db' = CreateDocument(db, [space |-> s, collection |-> k, slug |-> slug, type |-> type,
                                       status |-> status, alert |-> alert])
      PROVE  Typed(db')
  <2>1. PICK row : row = [space |-> s, collection |-> k, slug |-> slug, type |-> type, status |-> status,
                          alert |-> alert]
    OBVIOUS
  <2>2. row.space \in Id /\ row.collection \in IdOrNull
    BY <1>1, <1>3, <2>1, InsertedRow DEF CreateDocument
  <2>3. row \in RowOf["documents"]
    BY <2>1, <2>2 DEF Document, RowOf
  <2> QED BY <1>1, <1>3, <2>1, <2>3, InsertTyped DEF CreateDocument
<1>4. "document" \in Types /\ "runbook" \in Types /\ "post-mortem" \in Types
      /\ "draft" \in Statuses /\ "published" \in Statuses /\ "archived" \in Statuses
  BY DEF Types, Statuses
<1>5. ASSUME NEW c \in Clients
      PROVE  /\ PostMortemDocument(c) \/ MakeDocument(c) => requests[c].name \in Names
             /\ ImportCreate(c) => Title[Head(requests[c].page)] \in Names /\ Head(requests[c].page) \in Alerts
             /\ Update(c) => requests[c].slug \in Slugs
             /\ MoveWrite(c) => Candidate(requests[c]) \in Slugs
  <2>1. PostMortemDocument(c) \/ MakeDocument(c) => requests[c].name \in Names
    BY KindTyped DEF RequestsProper, PostMortemDocument, MakeDocument, At, PostMortems, Seeds
  <2>2. ImportCreate(c) => Title[Head(requests[c].page)] \in Names /\ Head(requests[c].page) \in Alerts
    <3> SUFFICES ASSUME ImportCreate(c) PROVE Head(requests[c].page) \in Alerts
      BY TitleAssumption
    <3>1. requests[c].page \in Seq(Alerts) /\ requests[c].page # << >>
      BY KindTyped DEF RequestsProper, ImportCreate, Imports
    <3> QED BY <3>1
  <2>3. Update(c) => requests[c].slug \in Slugs
    BY KindTyped DEF RequestsProper, Update, Edits
  <2>4. MoveWrite(c) => requests[c].slug \in Slugs /\ requests[c].tries \in Nat
    BY KindTyped DEF RequestsProper, MoveWrite, Moves
  <2> QED BY <2>1, <2>2, <2>3, <2>4, SlugTyped DEF Candidate
<1>6. ASSUME NEW d \in DOMAIN db.documents, NEW row, db' = [db EXCEPT !.documents[d] = row],
             \E base \in Document : row = [base EXCEPT !.space = row.space, !.collection = row.collection]
      PROVE  Typed(db')
  <2>1. PICK rows : rows = [db.documents EXCEPT ![d] = row]
    OBVIOUS
  <2>2. db' = [db EXCEPT !["documents"] = rows]
    BY <1>6, <2>1
  <2>3. "documents" \in DOMAIN db /\ DOMAIN db' = DOMAIN db
        /\ \A table \in Numbered : DOMAIN db'[table] \subseteq Nat
    BY <1>1, <2>1, <2>2 DEF Typed, Id
  <2>4. db'.documents = rows /\ d \in DOMAIN rows /\ rows[d] = row
    BY <2>1, <2>2, <2>3
  <2>5. row.space \in Id /\ row.collection \in IdOrNull
    BY <2>3, <2>4, ColumnsTyped DEF Consistent, Typed
  <2>6. row \in RowOf["documents"]
    BY <1>6, <2>5 DEF Document, RowOf
  <2>7. DOMAIN rows = DOMAIN db.documents
        /\ \A i \in DOMAIN rows : rows[i] = db.documents[i] \/ rows[i] \in RowOf["documents"]
    BY <2>1, <2>6
  <2> QED BY <1>1, <2>2, <2>7, TableTyped
<1>7. ASSUME NEW c \in Clients, Update(c), requests[c].doc \in DOMAIN db.documents,
             NEW new, SentBy(c, new), db' = UpdateDocument(db, requests[c].doc, new)
      PROVE  Typed(db')
  <2> PICK place : \E slug \in {requests[c].slug} \cup {Slug(name) : name \in Names}, sent \in Sent :
        new = Resent(db.documents[requests[c].doc], place, slug, sent)
    BY <1>7 DEF SentBy
  <2> PICK slug \in {requests[c].slug} \cup {Slug(name) : name \in Names}, sent \in Sent :
        new = Resent(db.documents[requests[c].doc], place, slug, sent)
    OBVIOUS
  <2> PICK old : old = db.documents[requests[c].doc]
    OBVIOUS
  <2>1. old \in Document /\ slug \in Slugs /\ sent.alert \in Alerts \cup {None}
    BY <1>5, <1>7, SlugTyped, SentAssumption DEF Typed
  <2>7. PICK type \in Types, status \in Statuses :
          type = Given(sent.type, old.type) /\ status = Given(sent.status, old.status)
    BY <2>1, SentAssumption DEF Given, Document
  <2>2. PICK base \in Document :
          base = [old EXCEPT !.slug = slug, !.alert = sent.alert, !.type = type, !.status = status]
    BY <2>1 DEF Document
  <2>3. PICK row : row = [[old EXCEPT !.slug = slug, !.collection = place, !.alert = sent.alert,
                             !.type = type, !.status = status] EXCEPT !.space = old.space]
    OBVIOUS
  <2>4. row = [base EXCEPT !.space = row.space, !.collection = row.collection]
    BY <2>1, <2>2, <2>3 DEF Document
  <2>5. db' = [db EXCEPT !.documents[requests[c].doc] = row]
    BY <1>7, <2>3, <2>7 DEF UpdateDocument, Resent
  <2> QED BY <1>6, <1>7, <2>4, <2>5
<1>8. ASSUME NEW d, NEW s, NEW k, NEW slug \in Slugs, db' = MoveToSpace(db, d, s, k, slug) PROVE Typed(db')
  <2>1. CASE d \in DOMAIN db.documents
    <3> PICK old : old = db.documents[d]
      OBVIOUS
    <3>1. old \in Document
      BY <2>1 DEF Typed
    <3>2. PICK base \in Document : base = [old EXCEPT !.slug = slug]
      BY <3>1 DEF Document
    <3>3. PICK row : row = [old EXCEPT !.space = s, !.collection = k, !.slug = slug]
      OBVIOUS
    <3>4. row = [base EXCEPT !.space = row.space, !.collection = row.collection]
      BY <3>1, <3>2, <3>3 DEF Document
    <3>5. db' = [db EXCEPT !.documents[d] = row]
      BY <1>8, <2>1, <3>3 DEF MoveToSpace
    <3> QED BY <1>6, <2>1, <3>4, <3>5
  <2> QED BY <1>8, <2>1 DEF MoveToSpace
<1>9. ASSUME NEW d, NEW k, db' = MoveDocumentToCollection(db, d, k) PROVE Typed(db')
  <2>1. CASE d \in DOMAIN db.documents
    <3> PICK old : old = db.documents[d]
      OBVIOUS
    <3>1. old \in Document
      BY <2>1 DEF Typed
    <3>2. PICK row : row = [old EXCEPT !.collection = k]
      OBVIOUS
    <3>3. row = [old EXCEPT !.space = row.space, !.collection = row.collection]
      BY <3>1, <3>2 DEF Document
    <3>4. db' = [db EXCEPT !.documents[d] = row]
      BY <1>9, <2>1, <3>2 DEF MoveDocumentToCollection
    <3> QED BY <1>6, <2>1, <3>1, <3>3, <3>4
  <2> QED BY <1>9, <2>1 DEF MoveDocumentToCollection
<1>10. ASSUME NEW s, NEW name \in Names, NEW type \in Types, NEW status \in Statuses,
              NEW alert \in Alerts \cup {None}, NEW place,
              db' = CreateDocument(db, [space |-> s, collection |-> place, slug |-> Slug(name), alert |-> alert,
                                        type |-> type, status |-> status])
       PROVE  Typed(db')
  <2>1. Slug(name) \in Slugs
    BY SlugTyped
  <2> QED BY <1>3, <1>10, <2>1
<1>11. ASSUME NEW c \in Clients, PostMortemDocument(c),
              db' = CreateDocument(db, [space |-> requests[c].space, collection |-> None,
                                        slug |-> Slug(requests[c].name), type |-> "post-mortem",
                                        status |-> "published", alert |-> None])
       PROVE  Typed(db')
  BY <1>3, <1>4, <1>5, <1>11, SlugTyped
<1>12. ASSUME NEW c \in Clients, ImportCreate(c),
              db' = CreateDocument(db, [space |-> requests[c].space, collection |-> requests[c].collection,
                                        slug |-> Slug(Title[Head(requests[c].page)]), type |-> "runbook",
                                        status |-> "published", alert |-> Head(requests[c].page)])
       PROVE  Typed(db')
  BY <1>3, <1>4, <1>5, <1>12, SlugTyped
<1>13. ASSUME NEW c \in Clients, MakeDocument(c),
              db' = CreateDocument(db, [space |-> requests[c].space, collection |-> requests[c].collection,
                                        slug |-> Slug(requests[c].name), type |-> "runbook",
                                        status |-> "published", alert |-> None])
       PROVE  Typed(db')
  BY <1>3, <1>4, <1>5, <1>13, SlugTyped
<1>14. ASSUME NEW c \in Clients, MoveWrite(c),
              db' = MoveToSpace(db, requests[c].doc, requests[c].to, requests[c].place,
                                Candidate(requests[c]))
       PROVE  Typed(db')
  BY <1>5, <1>8, <1>14
<1> QED BY <1>7, <1>9, <1>10, <1>11, <1>12, <1>13, <1>14 DEF DocumentsWritten

\* Comments and notifications.
LEMMA DiscussionTyped ==
  ASSUME Typed(db), RequestsProper, DiscussionWritten, Consistent(db')
  PROVE  Typed(db')
<1>1. "comments" \in Numbered /\ "notices" \in Numbered
  BY DEF Numbered
<1>2. \A k \in DOMAIN db.comments : k \in Id /\ db.comments[k] \in Comment
  BY <1>1 DEF Typed, Id
<1>3. ASSUME NEW d \in DOMAIN db.documents, NEW author \in Users, NEW body \in SUBSET Mentions, NEW parent,
             Answers(parent), db' = CreateComment(db, d, parent, author, body)
      PROVE  Typed(db')
  <2>1. d \in Id /\ parent \in IdOrNull
    BY <1>2, <1>3 DEF Typed, Numbered, Id, IdOrNull, Answers
  <2>2. PICK row \in Comment :
          row = [document |-> d, parent |-> parent, author |-> author, body |-> body, aged |-> FALSE,
                 posted |-> body, deleted |-> FALSE, resolved |-> FALSE]
    BY <2>1 DEF Comment
  <2>3. db' = Insert(db, "comments", row) /\ row \in RowOf["comments"]
    BY <1>3, <2>2 DEF CreateComment, RowOf
  <2> QED BY <1>1, <2>3, InsertTyped
<1>4. ASSUME NEW k \in DOMAIN db.comments, NEW row \in Comment, db' = [db EXCEPT !.comments[k] = row]
      PROVE  Typed(db')
  <2>1. PICK rows : rows = [db.comments EXCEPT ![k] = row]
    OBVIOUS
  <2>2. db' = [db EXCEPT !["comments"] = rows]
    BY <1>4, <2>1
  <2>3. DOMAIN rows = DOMAIN db.comments
        /\ \A i \in DOMAIN rows : rows[i] = db.comments[i] \/ rows[i] \in RowOf["comments"]
    BY <2>1 DEF RowOf
  <2> QED BY <1>1, <2>2, <2>3, TableTyped
<1>5. ASSUME NEW k \in DOMAIN db.comments,
             \/ \E body \in SUBSET Mentions : db' = UpdateCommentBody(db, k, body)
             \/ db' = SoftDeleteComment(db, k)
             \/ db' = ResolveComment(db, k)
             \/ db' = UnresolveComment(db, k)
             \/ Age(k)
      PROVE  Typed(db')
  <2> PICK r \in Comment : r = db.comments[k]
    BY <1>2
  <2>1. ASSUME NEW body \in SUBSET Mentions, db' = UpdateCommentBody(db, k, body) PROVE Typed(db')
    <3>1. PICK row \in Comment : row = [r EXCEPT !.body = body]
      BY DEF Comment
    <3>2. db' = [db EXCEPT !.comments[k] = row]
      BY <2>1, <3>1 DEF UpdateCommentBody
    <3> QED BY <1>4, <3>2
  <2>2. CASE db' = SoftDeleteComment(db, k)
    <3>1. PICK row \in Comment : row = [r EXCEPT !.deleted = TRUE, !.body = {}]
      BY DEF Comment
    <3>2. db' = [db EXCEPT !.comments[k] = row]
      BY <2>2, <3>1 DEF SoftDeleteComment
    <3> QED BY <1>4, <3>2
  <2>3. CASE db' = ResolveComment(db, k)
    <3>1. PICK row \in Comment : row = [r EXCEPT !.resolved = TRUE]
      BY DEF Comment
    <3>2. db' = [db EXCEPT !.comments[k] = row]
      BY <2>3, <3>1 DEF ResolveComment
    <3> QED BY <1>4, <3>2
  <2>4. CASE db' = UnresolveComment(db, k)
    <3>1. PICK row \in Comment : row = [r EXCEPT !.resolved = FALSE]
      BY DEF Comment
    <3>2. db' = [db EXCEPT !.comments[k] = row]
      BY <2>4, <3>1 DEF UnresolveComment
    <3> QED BY <1>4, <3>2
  <2>5. CASE Age(k)
    <3>1. PICK row \in Comment : row = [r EXCEPT !.aged = TRUE]
      BY DEF Comment
    <3>2. db' = [db EXCEPT !.comments[k] = row]
      BY <2>5, <3>1 DEF Age
    <3> QED BY <1>4, <3>2
  <2> QED BY <1>5, <2>1, <2>2, <2>3, <2>4, <2>5
<1>6. ASSUME NEW c \in Clients, NEW p \in requests[c].due, Notify(c),
             requests[c].comment \in DOMAIN db.comments,
             db' = CreateNotification(db, NoticeOf(requests[c].comment, p))
      PROVE  Typed(db')
  <2>1. PICK row : row = NoticeOf(requests[c].comment, p)
    OBVIOUS
  <2>2. row.document \in Id /\ row.comment \in Id
    BY <1>1, <1>6, <2>1, InsertedRow DEF CreateNotification
  <2>3. p[1] \in Users /\ p[2] \in NoticeKinds
    BY <1>6, KindTyped DEF RequestsProper, Notify, Posts
  <2>4. db.comments[requests[c].comment].author \in Users
    BY <1>2, <1>6 DEF Comment
  <2>5. row \in RowOf["notices"]
    BY <2>1, <2>2, <2>3, <2>4 DEF NoticeOf, Notice, RowOf
  <2> QED BY <1>1, <1>6, <2>1, <2>5, InsertTyped DEF CreateNotification
<1>7. ASSUME NEW n, NEW u,
             db' = MarkNotificationRead(db, n, u) \/ db' = MarkAllNotificationsRead(db, u)
      PROVE  Typed(db')
  <2>1. PICK rows : /\ db' = [db EXCEPT !["notices"] = rows]
                    /\ DOMAIN rows = DOMAIN db.notices
                    /\ \A m \in DOMAIN rows : \/ rows[m] = db.notices[m]
                                              \/ rows[m] = [db.notices[m] EXCEPT !.read = TRUE]
    BY <1>7 DEF MarkNotificationRead, MarkAllNotificationsRead
  <2>2. \A row \in Notice : [row EXCEPT !.read = TRUE] \in Notice
    BY DEF Notice
  <2>3. \A m \in DOMAIN rows : rows[m] \in RowOf["notices"]
    BY <2>1, <2>2 DEF Typed, RowOf
  <2> QED BY <1>1, <2>1, <2>3, TableTyped
<1> QED BY <1>3, <1>5, <1>6, <1>7 DEF DiscussionWritten

-----------------------------------------------------------------------------
(* Whose step it is *)

\* What a step of somebody else leaves of q's request: it hears what is written, or that
\* NightOwl's list has changed.
Left(q) ==
  \/ requests'[q] = requests[q] /\ Written(db') = {} /\ runbooks' = runbooks
  \/ requests'[q] = Heard(requests[q], Written(db')) /\ runbooks' = runbooks
  \/ /\ requests'[q] = IF requests[q].kind = "import" THEN [requests[q] EXCEPT !.changed = TRUE]
                       ELSE requests[q]
     /\ db' = db

WorkspaceActs(c) ==
  \/ Get(c) \/ Update(c)
  \/ MoveGet(c) \/ CheckSlug(c) \/ MoveWrite(c)
  \/ TreeCollections(c) \/ TreeDocuments(c)
  \/ ListCount(c) \/ ListRows(c)
  \/ SearchBegin(c) \/ SearchNext(c)

DiscussionActs(c) == CreateOn(c) \/ Reply(c) \/ ReplyStore(c) \/ Notify(c) \/ NotifyFails(c)

IntegrationActs(c) ==
  \/ PostMortemBegin(c) \/ PostMortemSpace(c) \/ PostMortemDocument(c)
  \/ ImportBegin(c) \/ ImportSpace(c) \/ ImportCollection(c)
  \/ ImportFetch(c) \/ ImportLook(c) \/ ImportCreate(c) \/ ImportPage(c)
  \/ RunbooksCount(c) \/ RunbooksRows(c)

SeedActs(c) ==
  \/ SeedBegin(c) \/ LookForTemplate(c) \/ MakeTemplate(c) \/ TemplatesDone(c) \/ TemplatesFail(c)
  \/ FindSpace(c) \/ MakeSpace(c) \/ AddSeededMember(c) \/ FindOrCreateCollection(c)
  \/ LookForDocument(c) \/ MakeDocument(c) \/ FileDocument(c) \/ DocumentsDone(c)

Acts(c) ==
  (WorkspaceActs(c) \/ DiscussionActs(c) \/ IntegrationActs(c) \/ SeedActs(c) \/ End(c))
    /\ runbooks' = runbooks

\* Nothing is news when the tables that requests read stay as they are.
LEMMA NoNews ==
  ASSUME db'.documents = db.documents, db'.spaces = db.spaces, db'.collections = db.collections,
         db'.templates = db.templates, db'.members = db.members
  PROVE  Written(db') = {}
BY DEF Written

\* The step is that of one request, of which the others hear, or of none.
LEMMA WhoActs ==
  ASSUME Shaped(db), DOMAIN requests = Clients, [Next]_dvars
  PROVE  /\ DOMAIN requests' = Clients
         /\ \/ \A q \in Clients : Left(q)
            \/ \E c \in Clients : Acts(c) /\ \A q \in Clients \ {c} : Left(q)
<1> DEFINE Goes(c) == \E r, new : Go(c, r) \/ Commit(c, new, r)
<1>1. ASSUME NEW c, Goes(c), runbooks' = runbooks
      PROVE  DOMAIN requests' = Clients /\ \A q \in Clients \ {c} : Left(q)
  <2>1. CASE \E r : Go(c, r)
    BY <1>1, <2>1, NoNews DEF Go, Left
  <2>2. CASE \E r, new : Commit(c, new, r)
    BY <1>1, <2>2 DEF Commit, Left
  <2> QED BY <1>1, <2>1, <2>2
<1>2. ASSUME NEW c \in Clients, WorkspaceActs(c) PROVE Goes(c)
  BY <1>2 DEF WorkspaceActs, Get, Update, MoveGet, CheckSlug, MoveWrite, TreeCollections, TreeDocuments,
              ListCount, ListRows, SearchBegin, SearchNext, Begin, Execute
<1>3. ASSUME NEW c \in Clients, DiscussionActs(c) PROVE Goes(c)
  BY <1>3 DEF DiscussionActs, CreateOn, Reply, ReplyStore, Post, Begin, Notify, NotifyFails, Execute
<1>4. ASSUME NEW c \in Clients, IntegrationActs(c) PROVE Goes(c)
  BY <1>4 DEF IntegrationActs, PostMortemBegin, PostMortemSpace, PostMortemDocument, ImportBegin,
              ImportSpace, ImportCollection, ImportFetch, ImportLook, ImportCreate, ImportPage,
              RunbooksCount, RunbooksRows, Begin, Execute
<1>5. ASSUME NEW c \in Clients, SeedActs(c) PROVE Goes(c)
  BY <1>5 DEF SeedActs, SeedBegin, LookForTemplate, MakeTemplate, TemplatesDone, TemplatesFail, FindSpace,
              MakeSpace, AddSeededMember, FindOrCreateCollection, LookForDocument, MakeDocument, FileDocument,
              DocumentsDone, Begin, Execute
<1>6. ASSUME NEW c \in Clients, End(c) PROVE Goes(c)
  BY <1>6 DEF End
<1>7. ASSUME NEW kind, NEW statement, Request(kind, statement), runbooks' = runbooks
      PROVE  DOMAIN requests' = Clients /\ \A q \in Clients : Left(q)
  <2>1. CASE Commit(None, statement, Idle)
    BY <1>1, <1>7, <2>1, ClientAssumption
  <2>2. CASE UNCHANGED <<db, requests>>
    BY <1>7, <2>2, NoNews DEF Left
  <2> QED BY <1>7, <2>1, <2>2 DEF Request
<1>8. ASSUME NEW k \in DOMAIN db.comments, Age(k), runbooks' = runbooks
      PROVE  DOMAIN requests' = Clients /\ \A q \in Clients : Left(q)
  <2>1. /\ db'.documents = db.documents /\ db'.spaces = db.spaces /\ db'.collections = db.collections
        /\ db'.templates = db.templates /\ db'.members = db.members /\ requests' = requests
    BY <1>8 DEF Age, Shaped, Numbered
  <2> QED BY <1>8, <2>1, NoNews DEF Left
<1>9. CASE NightOwlChanges
  BY <1>9 DEF NightOwlChanges, Left
<1>10. CASE UNCHANGED dvars
  BY <1>10, NoNews DEF dvars, Left
<1> DEFINE Alone == \E kind, statement : Request(kind, statement)
<1>11. ASSUME SpaceStep \/ CollectionStep \/ TemplateStep PROVE Alone
  BY <1>11 DEF SpaceStep, SpaceCreate, SpaceUpdate, SpaceDelete, AddMember, RemoveMember, SpaceRequest,
               CollectionStep, CollectionCreate, CollectionUpdate, CollectionDelete, CollectionRequest,
               TemplateStep, TemplateCreate, TemplateUpdate, TemplateDelete, SaveDocumentAsTemplate,
               TemplateRequest
<1>12. ASSUME Create \/ Delete \/ NotificationStep PROVE Alone
  BY <1>12 DEF Create, Delete, NotificationStep, MarkRead, MarkAllRead, NoticeRequest
<1>13. ASSUME NEW k \in DOMAIN db.comments,
              \/ \E u \in Users : UpdateComment(k, u) \/ SoftDelete(k, u)
              \/ Resolve(k) \/ Unresolve(k)
       PROVE  Alone
  BY <1>13 DEF UpdateComment, SoftDelete, Resolve, Unresolve, CommentRequest
<1>14. ASSUME Alone, runbooks' = runbooks
       PROVE  DOMAIN requests' = Clients /\ \A q \in Clients : Left(q)
  BY <1>7, <1>14
<1>15. ASSUME NEW c \in Clients, runbooks' = runbooks,
              WorkspaceActs(c) \/ DiscussionActs(c) \/ IntegrationActs(c) \/ SeedActs(c) \/ End(c)
       PROVE  DOMAIN requests' = Clients /\ Acts(c) /\ \A q \in Clients \ {c} : Left(q)
  <2>1. Goes(c)
    BY <1>2, <1>3, <1>4, <1>5, <1>6, <1>15
  <2> QED BY <1>1, <1>15, <2>1 DEF Acts
<1> HIDE DEF Alone, Goes
<1>16. ASSUME runbooks' = runbooks, WorkspaceStep \/ DiscussionStep
       PROVE  \/ Alone
              \/ \E k \in DOMAIN db.comments : Age(k)
              \/ \E c \in Clients : WorkspaceActs(c) \/ DiscussionActs(c)
  BY <1>11, <1>12, <1>13, <1>16
     DEF WorkspaceStep, DocumentStep, DiscussionStep, CommentStep, WorkspaceActs, DiscussionActs
<1>17. ASSUME runbooks' = runbooks, IntegrationStep \/ SeedStep \/ Ends
       PROVE  \E c \in Clients : IntegrationActs(c) \/ SeedActs(c) \/ End(c)
  BY <1>17 DEF IntegrationStep, PostMortemStep, ImportStep, SeedStep, Ends, IntegrationActs, SeedActs
<1> QED BY <1>8, <1>9, <1>10, <1>14, <1>15, <1>16, <1>17 DEF Next

\* To hear of news changes nothing else of a request.
LEMMA HeardFields ==
  ASSUME NEW r, Proper(r), NEW news \in News, NEW h, h = Heard(r, news)
  PROVE  /\ Proper(h) /\ DOMAIN h = DOMAIN r
         /\ \A f \in DOMAIN r \ {"news"} : h[f] = r[f]
         /\ r # Idle => h.news = r.news \cup news
<1>1. CASE r = Idle
  BY <1>1 DEF Heard, Proper, Idle
<1>2. CASE r # Idle
  <2>1. h = [r EXCEPT !.news = r.news \cup news]
    BY <1>2 DEF Heard
  <2>2. "news" \in DOMAIN r /\ r.news \in News
    BY <1>2 DEF Proper, Edits, Moves, Trees, Lists, Searches, Replies, Posts, PostMortems, Imports, Seeds
  <2>3. r.news \cup news \in News
    BY <2>2 DEF News
  <2>4. /\ DOMAIN h = DOMAIN r
        /\ \A f \in DOMAIN r \ {"news"} : h[f] = r[f]
        /\ h.news = r.news \cup news
    BY <2>1, <2>2
  <2>5. Proper(h)
    <3>1. CASE r \in Edits \cup Moves
      BY <2>1, <2>3, <3>1 DEF Proper, Edits, Moves
    <3>2. CASE r \in Trees \cup Lists
      BY <2>1, <2>3, <3>2 DEF Proper, Trees, Lists
    <3>3. CASE r \in Replies \cup Posts \cup PostMortems
      BY <2>1, <2>3, <3>3 DEF Proper, Replies, Posts, PostMortems
    <3>4. CASE r \in Imports
      BY <2>1, <2>3, <3>4 DEF Proper, Imports
    <3>5. CASE r \in Seeds
      BY <2>1, <2>3, <3>5 DEF Proper, Seeds
    <3>6. CASE r \in Searches
      BY <2>1, <2>3, <3>6 DEF Proper, Searches
    <3> QED BY <1>2, <3>1, <3>2, <3>3, <3>4, <3>5, <3>6 DEF Proper
  <2> QED BY <1>2, <2>4, <2>5
<1> QED BY <1>1, <1>2

\* The ids of what is written are ids.
LEMMA WrittenTyped ==
  ASSUME Typed(db), Typed(db')
  PROVE  Written(db') \in News
<1>1. DOMAIN db.documents \subseteq Id /\ DOMAIN db'.documents \subseteq Id
  BY DEF Typed, Numbered, Id
<1> QED BY <1>1 DEF Written, News

\* What a step of somebody else leaves of a request: its kind and fields.
LEMMA LeftFields ==
  ASSUME Typed(db), Typed(db'), NEW q \in Clients, Proper(requests[q]), Left(q)
  PROVE  LET r == requests[q]
             s == requests'[q]
         IN /\ Proper(s) /\ DOMAIN s = DOMAIN r
            /\ \A f \in DOMAIN r \ {"news", "changed"} : s[f] = r[f]
            /\ r.kind # "idle" => s.news = r.news \cup Written(db')
            /\ r.kind = "import" => s.changed \/ (s.changed = r.changed /\ runbooks' = runbooks)
<1> PICK r : r = requests[q]
  OBVIOUS
<1> PICK s : s = requests'[q]
  OBVIOUS
<1>1. Proper(r)
  OBVIOUS
<1>2. r # Idle <=> r.kind # "idle"
  BY <1>1, KindTyped DEF Idle
<1>3. r.kind = "import" => "changed" \in DOMAIN r
  BY <1>1, KindTyped DEF Imports
<1>4. CASE s = r /\ Written(db') = {} /\ runbooks' = runbooks
  BY <1>1, <1>4
<1>5. CASE s = Heard(r, Written(db')) /\ runbooks' = runbooks
  BY <1>1, <1>2, <1>3, <1>5, WrittenTyped, HeardFields
<1>6. CASE /\ s = IF r.kind = "import" THEN [r EXCEPT !.changed = TRUE] ELSE r
           /\ db' = db
  <2>1. Written(db') = {}
    BY <1>6, NoNews
  <2>2. CASE r.kind = "import"
    <3>1. r \in Imports
      BY <1>1, <2>2, KindTyped
    <3>2. \A i \in Imports : [i EXCEPT !.changed = TRUE] \in Imports
      BY DEF Imports
    <3>3. s \in Imports
      BY <1>6, <2>2, <3>1, <3>2
    <3> QED BY <1>6, <2>1, <2>2, <3>1, <3>3 DEF Proper, Imports
  <2> QED BY <1>1, <1>6, <2>1, <2>2
<1> QED BY <1>4, <1>5, <1>6 DEF Left

-----------------------------------------------------------------------------
(* Steps keep requests typed *)

\* What an actor's statement leaves of its request.
LEMMA GoesOn ==
  ASSUME DOMAIN requests = Clients, NEW c \in Clients
  PROVE  /\ \A r : Go(c, r) => requests'[c] = r /\ db' = db
         /\ \A kind, r : Begin(c, kind, r) => requests'[c] = r /\ requests[c] = Idle /\ db' = db
         /\ \A new, done, refused : Execute(c, new, done, refused) =>
              \/ Consistent(new) /\ db' = new /\ requests'[c] = done
              \/ ~Consistent(new) /\ db' = db /\ requests'[c] = refused
<1>1. \A r : Go(c, r) => requests'[c] = r /\ db' = db
  BY DEF Go
<1>2. \A kind, r : Begin(c, kind, r) => requests'[c] = r /\ requests[c] = Idle /\ db' = db
  BY <1>1 DEF Begin, MayBegin
<1>3. \A new, done, refused : Execute(c, new, done, refused) =>
         \/ Consistent(new) /\ db' = new /\ requests'[c] = done
         \/ ~Consistent(new) /\ db' = db /\ requests'[c] = refused
  BY <1>1 DEF Execute, Commit
<1> QED BY <1>1, <1>2, <1>3

\* Ids of rows are numbers, the next ones too, and what has ids below a bound can be counted.
LEMMA IdsTyped ==
  ASSUME NEW t, Typed(t)
  PROVE  /\ \A table \in Numbered : t.next[table] \in Id /\ DOMAIN t[table] \subseteq Id
         /\ \A table \in Numbered : \A ids \in SUBSET DOMAIN t[table] :
              IsFiniteSet(ids) /\ Cardinality(ids) \in Nat
<1>1. \A table \in Numbered : t.next[table] \in Id /\ DOMAIN t[table] \subseteq 0 .. (t.next[table] - 1)
  BY DEF Typed
<1>2. ASSUME NEW table \in Numbered, NEW ids \in SUBSET DOMAIN t[table]
      PROVE  IsFiniteSet(ids) /\ Cardinality(ids) \in Nat
  <2>1. IsFiniteSet(0 .. (t.next[table] - 1))
    BY <1>1, FS_Interval DEF Id
  <2> QED BY <1>1, <2>1, FS_Subset, FS_CardinalityType
<1> QED BY <1>1, <1>2 DEF Id

\* Pages begin behind a number of rows.
LEMMA OffsetsTyped ==
  ASSUME Typed(db)
  PROVE  PageOffsets \subseteq Nat
<1>1. Cardinality(DOMAIN db.documents) \in Nat /\ PageLimit \in Nat
  BY IdsTyped, PageAssumption DEF Numbered
<1> QED BY <1>1 DEF PageOffsets

\* What a browser, a move or a read does.
LEMMA WorkspaceProper ==
  ASSUME Typed(db), RequestsProper, NEW c \in Clients
  PROVE  LET s == requests'[c]
         IN  /\ Get(c) => s \in Edits
             /\ Update(c) => s = Idle
             /\ MoveGet(c) \/ CheckSlug(c) \/ MoveWrite(c) => s \in Moves
             /\ TreeCollections(c) \/ TreeDocuments(c) => s \in Trees
             /\ ListCount(c) \/ ListRows(c) => s \in Lists
             /\ SearchBegin(c) \/ SearchNext(c) => s \in Searches
<1> PICK r : r = requests[c]
  OBVIOUS
<1> PICK s : s = requests'[c]
  OBVIOUS
<1>1. {} \in News
  BY DEF News
<1>2. DOMAIN db.documents \subseteq Id /\ DOMAIN db.spaces \subseteq Id /\ DOMAIN db.collections \subseteq Id
  BY IdsTyped DEF Numbered
<1>3. \A d \in DOMAIN db.documents : db.documents[d].space \in Id /\ db.documents[d].slug \in Slugs
  BY DEF Typed, Document
<1>4. Proper(r) /\ DOMAIN requests = Clients
  BY DEF RequestsProper
<1>5. ASSUME Get(c) PROVE s \in Edits
  <2>1. PICK d \in DOMAIN db.documents :
          Begin(c, "edits", [kind |-> "edit", doc |-> d, space |-> db.documents[d].space,
                             slug |-> db.documents[d].slug, news |-> {}])
    BY <1>5 DEF Get
  <2>2. s = [kind |-> "edit", doc |-> d, space |-> db.documents[d].space,
             slug |-> db.documents[d].slug, news |-> {}]
    BY <1>4, <2>1, GoesOn
  <2>3. s \in Edits
    BY <1>1, <1>2, <1>3, <2>2 DEF Edits
  <2> QED BY <2>3
<1>6. ASSUME Update(c) PROVE s = Idle
  <2>1. s = Idle
    BY <1>4, <1>6, GoesOn DEF Update
  <2> QED BY <2>1
<1>7. ASSUME MoveGet(c) PROVE s \in Moves
  <2>1. PICK d \in DOMAIN db.documents, to \in DOMAIN db.spaces : \E place \in AnyCollection :
          Begin(c, "moves", [kind |-> "move", pc |-> "check", doc |-> d, from |-> db.documents[d].space,
                             slug |-> db.documents[d].slug, to |-> to, place |-> place, tries |-> 0,
                             news |-> {}])
    BY <1>7 DEF MoveGet
  <2>2. AnyCollection \subseteq IdOrNull
    BY <1>2 DEF AnyCollection, IdOrNull
  <2>3. PICK place \in IdOrNull :
          s = [kind |-> "move", pc |-> "check", doc |-> d, from |-> db.documents[d].space,
               slug |-> db.documents[d].slug, to |-> to, place |-> place, tries |-> 0, news |-> {}]
    BY <1>4, <2>1, <2>2, GoesOn
  <2>4. s \in Moves
    BY <1>1, <1>2, <1>3, <2>3 DEF Moves
  <2> QED BY <2>4
<1>8. ASSUME CheckSlug(c) \/ MoveWrite(c) PROVE s \in Moves
  <2>1. r \in Moves
    BY <1>4, <1>8, KindTyped DEF CheckSlug, MoveWrite
  <2>2. \/ s = [r EXCEPT !.tries = r.tries + 1]
        \/ \E pc \in {"write", "moved", "refused"} : s = [r EXCEPT !.pc = pc]
    <3>1. CASE CheckSlug(c)
      BY <1>4, <2>1, <3>1, GoesOn DEF CheckSlug, Moves
    <3>2. CASE MoveWrite(c)
      BY <1>4, <3>2, GoesOn DEF MoveWrite
    <3> QED BY <1>8, <3>1, <3>2
  <2>3. s \in Moves
    BY <2>1, <2>2 DEF Moves
  <2> QED BY <2>3
<1>9. ASSUME TreeCollections(c) PROVE s \in Trees
  <2>1. PICK place \in DOMAIN db.spaces :
          s = [kind |-> "tree", pc |-> "half", space |-> place, filed |-> GetSpaceTree(db, place),
               loose |-> {}, news |-> {}]
    BY <1>4, <1>9, GoesOn DEF TreeCollections
  <2>2. GetSpaceTree(db, place) \subseteq Id
    BY <1>2 DEF GetSpaceTree, Live
  <2>3. s \in Trees
    BY <1>1, <1>2, <2>1, <2>2 DEF Trees
  <2> QED BY <2>3
<1>10. ASSUME TreeDocuments(c) PROVE s \in Trees
  <2>1. r \in Trees
    BY <1>4, <1>10, KindTyped DEF TreeDocuments
  <2>2. s = [r EXCEPT !.pc = "done", !.loose = GetUncollectedDocuments(db, r.space)]
    BY <1>4, <1>10, GoesOn DEF TreeDocuments
  <2>3. GetUncollectedDocuments(db, r.space) \subseteq Id
    BY <1>2 DEF GetUncollectedDocuments, OfSpace, Live
  <2>4. s \in Trees
    BY <2>1, <2>2, <2>3 DEF Trees
  <2> QED BY <2>4
<1>11. ASSUME ListCount(c) PROVE s \in Lists
  <2>1. PICK offset \in PageOffsets :
          s = [kind |-> "list", pc |-> "half", of |-> "documents", offset |-> offset,
               total |-> CountDocuments(db), rows |-> {}, news |-> {}]
    BY <1>4, <1>11, GoesOn DEF ListCount
  <2>2. CountDocuments(db) \in Nat
    BY IdsTyped DEF CountDocuments, Live, Numbered
  <2>3. s \in Lists
    BY <1>1, <2>1, <2>2, OffsetsTyped DEF Lists
  <2> QED BY <2>3
<1>12. ASSUME ListRows(c) PROVE s \in Lists
  <2>1. r \in Lists
    BY <1>4, <1>12, KindTyped DEF ListRows
  <2>2. PICK page \in ListDocuments(db, PageLimit, r.offset) : s = [r EXCEPT !.pc = "done", !.rows = page]
    BY <1>4, <1>12, GoesOn DEF ListRows
  <2>3. page \subseteq Id
    BY <1>2 DEF ListDocuments, Pages, Live
  <2>4. s \in Lists
    BY <2>1, <2>2, <2>3 DEF Lists
  <2> QED BY <2>4
<1>13. ASSUME SearchBegin(c) PROVE s \in Searches
  <2>1. PICK exact \in Rankings, similar \in Rankings, in \in {"space", "type", "all"} :
          \E where \in CASE in = "space" -> DOMAIN db.spaces [] in = "type" -> Types [] in = "all" -> {None} :
            Begin(c, "searches", [kind |-> "search", pc |-> "more", exact |-> exact, similar |-> similar,
                                  in |-> in, where |-> where, offset |-> 0, found |-> {}, news |-> {}])
    BY <1>13 DEF SearchBegin
  <2>2. PICK where \in Id \cup Types \cup {None} :
          s = [kind |-> "search", pc |-> "more", exact |-> exact, similar |-> similar,
               in |-> in, where |-> where, offset |-> 0, found |-> {}, news |-> {}]
    BY <1>2, <1>4, <2>1, GoesOn
  <2>3. Rankings \subseteq Ranks
    <3> SUFFICES ASSUME NEW ds \in SUBSET DOMAIN db.documents, NEW f \in [ds -> 1 .. Cardinality(ds)]
                 PROVE  f \in Ranks
      BY DEF Rankings
    <3>1. Cardinality(ds) \in Nat
      BY IdsTyped DEF Numbered
    <3>2. ds \in SUBSET Id /\ f \in [ds -> Nat]
      BY <1>2, <3>1
    <3> QED BY <3>2 DEF Ranks
  <2>4. s \in Searches
    BY <1>1, <2>2, <2>3 DEF Searches
  <2> QED BY <2>4
<1>14. ASSUME SearchNext(c) PROVE s \in Searches
  <2>1. r \in Searches
    BY <1>4, <1>14, KindTyped DEF SearchNext
  <2>2. PICK rows \in SearchResults(r) :
          Go(c, [r EXCEPT !.found = r.found \cup rows, !.offset = r.offset + PageLimit,
                          !.pc = IF rows = {} THEN "done" ELSE "more"])
    BY <1>14 DEF SearchNext
  <2>3. rows \in SUBSET Id
    <3>1. ASSUME NEW exact, NEW similar, NEW ds, NEW limit, NEW offset,
                 NEW page \in SearchPages(exact, similar, ds, limit, offset)
          PROVE  page \subseteq ds
      <4>1. \A ranks, all, p : p \in Pages(ranks, all, limit, offset) => p \subseteq all
        BY DEF Pages
      <4>2. PICK fts \in Pages(exact, (DOMAIN exact) \cap ds, limit, offset) :
              \E fuzzy \in Pages(similar, ((DOMAIN similar) \cap ds) \ fts, limit, offset) : page = fts \cup fuzzy
        BY DEF SearchPages
      <4>3. PICK fuzzy \in Pages(similar, ((DOMAIN similar) \cap ds) \ fts, limit, offset) : page = fts \cup fuzzy
        BY <4>2
      <4> QED BY <4>1, <4>2, <4>3
    <3>3. r.in \in {"space", "type", "all"}
      BY <2>1 DEF Searches
    <3>2. \E ds \in SUBSET Live(db) : rows \in SearchPages(r.exact, r.similar, ds, PageLimit, r.offset)
      BY <2>2, <3>3 DEF SearchResults, SearchDocuments, SearchDocumentsBySpace, SearchDocumentsByType,
                        OfSpace, OfType
    <3>4. rows \subseteq Live(db)
      BY <3>1, <3>2
    <3> QED BY <1>2, <3>4 DEF Live
  <2>4. s = [r EXCEPT !.found = r.found \cup rows, !.offset = r.offset + PageLimit,
                      !.pc = IF rows = {} THEN "done" ELSE "more"]
    BY <1>4, <2>2, GoesOn
  <2>5. PICK found \in SUBSET Id, offset \in Nat, pc \in {"more", "done"} :
          s = [r EXCEPT !.found = found, !.offset = offset, !.pc = pc]
    <3>1. PageLimit \in Nat /\ r.offset \in Nat /\ r.found \in SUBSET Id
      BY <2>1, PageAssumption DEF Searches
    <3>2. r.found \cup rows \in SUBSET Id /\ r.offset + PageLimit \in Nat
      BY <2>3, <3>1
    <3> QED BY <2>4, <3>2
  <2>6. s \in Searches
    BY <2>1, <2>5 DEF Searches
  <2> QED BY <2>6
<1> QED BY <1>5, <1>6, <1>7, <1>8, <1>9, <1>10, <1>11, <1>12, <1>13, <1>14

\* What the posting of a comment does.
LEMMA DiscussionProper ==
  ASSUME Typed(db), Typed(db'), RequestsProper, NEW c \in Clients
  PROVE  LET s == requests'[c]
         IN  /\ CreateOn(c) \/ ReplyStore(c) => s = Idle \/ s \in Posts
             /\ Reply(c) => s \in Replies
             /\ Notify(c) \/ NotifyFails(c) => s \in Posts
<1> PICK r : r = requests[c]
  OBVIOUS
<1> PICK s : s = requests'[c]
  OBVIOUS
<1>1. Proper(r) /\ DOMAIN requests = Clients
  BY DEF RequestsProper
<1>2. {} \in News
  BY DEF News
<1>3. ASSUME CreateOn(c) \/ ReplyStore(c) PROVE s = Idle \/ s \in Posts
  <2>1. PICK d, parent, author, body : Post(c, CreateComment(db, d, parent, author, body))
    BY <1>3 DEF CreateOn, ReplyStore
  <2>2. PICK stored : stored = CreateComment(db, d, parent, author, body)
    OBVIOUS
  <2>3. PICK k : k = db.next.comments
    OBVIOUS
  <2>4. \/ s = Idle
        \/ /\ Consistent(stored) /\ db' = stored
           /\ s = [kind |-> "post", comment |-> k, due |-> Recipients(stored, k), failed |-> FALSE, news |-> {}]
    <3>1. Execute(c, stored,
            [kind |-> "post", comment |-> k, due |-> Recipients(stored, k), failed |-> FALSE, news |-> {}], Idle)
      BY <2>1, <2>2, <2>3 DEF Post
    <3> QED BY <1>1, <3>1, GoesOn
  <2>5. ASSUME Consistent(stored), db' = stored PROVE Recipients(stored, k) \subseteq Users \X NoticeKinds
    <3>1. k \in DOMAIN stored.comments
      BY <2>2, <2>3, InsertLeaves, TypedShaped DEF CreateComment, Numbered
    <3>2. \A j \in DOMAIN stored.comments : stored.comments[j] \in Comment
      BY <2>5 DEF Typed
    <3>3. stored.comments[k].parent \in DOMAIN stored.comments \cup {None}
      BY <2>5, <3>1 DEF Consistent, ReferencesResolve
    <3>4. /\ Mentioned(stored.comments[k].posted) \subseteq Users
          /\ stored.comments[k].parent # None => stored.comments[stored.comments[k].parent].author \in Users
      BY <3>1, <3>2, <3>3 DEF Comment, Mentioned, GetUsersByEmails
    <3>5. "comment_reply" \in NoticeKinds /\ "comment_mention" \in NoticeKinds
      BY DEF NoticeKinds
    <3> QED BY <3>4, <3>5 DEF Recipients
  <2>6. k \in Id
    BY <2>3, IdsTyped DEF Numbered
  <2>7. ASSUME Consistent(stored), db' = stored,
               s = [kind |-> "post", comment |-> k, due |-> Recipients(stored, k), failed |-> FALSE, news |-> {}]
        PROVE  s \in Posts
    <3>1. PICK due \in SUBSET (Users \X NoticeKinds) : due = Recipients(stored, k)
      BY <2>5, <2>7
    <3> QED BY <1>2, <2>6, <2>7, <3>1 DEF Posts
  <2> QED BY <2>4, <2>7
<1>5. ASSUME Reply(c) PROVE s \in Replies
  <2>1. PICK d \in DOMAIN db.documents, k \in DOMAIN db.comments, author \in Users, body \in SUBSET Mentions :
          s = [kind |-> "reply", doc |-> d, parent |-> k, author |-> author, body |-> body, news |-> {}]
    BY <1>1, <1>5, GoesOn DEF Reply
  <2>2. d \in Id /\ k \in Id
    BY IdsTyped DEF Numbered
  <2> QED BY <1>2, <2>1, <2>2 DEF Replies
<1>4. ASSUME Notify(c) \/ NotifyFails(c) PROVE s \in Posts
  <2>1. r \in Posts
    BY <1>1, <1>4, KindTyped DEF Notify, NotifyFails
  <2>2. PICK due \in SUBSET r.due :
          s = [r EXCEPT !.due = due] \/ s = [r EXCEPT !.due = due, !.failed = TRUE]
    <3>1. CASE Notify(c)
      <4>1. PICK p \in r.due : \E new :
              \/ Execute(c, new, [r EXCEPT !.due = r.due \ {p}], [r EXCEPT !.due = r.due \ {p}])
              \/ Go(c, [r EXCEPT !.due = r.due \ {p}])
        BY <3>1 DEF Notify
      <4>2. PICK due \in SUBSET r.due : due = r.due \ {p}
        OBVIOUS
      <4>3. s = [r EXCEPT !.due = due]
        BY <1>1, <4>1, <4>2, GoesOn
      <4> QED BY <4>3
    <3>2. CASE NotifyFails(c)
      <4>1. PICK lost : Go(c, [r EXCEPT !.due = r.due \ lost, !.failed = TRUE])
        BY <3>2 DEF NotifyFails
      <4>2. PICK due \in SUBSET r.due : due = r.due \ lost
        OBVIOUS
      <4>3. s = [r EXCEPT !.due = due, !.failed = TRUE]
        BY <1>1, <4>1, <4>2, GoesOn
      <4> QED BY <4>3
    <3> QED BY <1>4, <3>1, <3>2
  <2>3. s \in Posts
    BY <2>1, <2>2 DEF Posts
  <2> QED BY <2>3
<1> QED BY <1>3, <1>4, <1>5

\* A page of NightOwl's list is of its runbooks.
LEMMA PagesTyped ==
  ASSUME runbooks \in Seq(Alerts), NEW offset \in Nat
  PROVE  SubSeq(runbooks, offset + 1, LastOfPage(offset)) \in Seq(Alerts)
<1>1. Len(runbooks) \in Nat /\ BatchLimit \in Nat
  BY BatchAssumption
<1> PICK last : last = LastOfPage(offset)
  OBVIOUS
<1>2. last \in 0 .. Len(runbooks)
  BY <1>1 DEF LastOfPage
<1>3. \A i \in offset + 1 .. last : runbooks[i] \in Alerts
  BY <1>1, <1>2
<1> QED BY <1>1, <1>2, <1>3, SubSeqProperties

\* What NightOwl's list is of.
LEMMA RunbooksTyped ==
  ASSUME runbooks \in Seq(Alerts), [Next]_dvars
  PROVE  runbooks' \in Seq(Alerts)
<1>1. CASE runbooks' = runbooks
  BY <1>1
<1>2. CASE NightOwlChanges
  <2>1. \A i \in 1 .. Len(runbooks) : runbooks[i] \in Alerts
    OBVIOUS
  <2>2. Len(runbooks) \in Nat
    OBVIOUS
  <2>3. ASSUME NEW i \in 0 .. Len(runbooks)
        PROVE  SubSeq(runbooks, 1, i) \in Seq(Alerts) /\ SubSeq(runbooks, i + 1, Len(runbooks)) \in Seq(Alerts)
    BY <2>1, <2>2, SubSeqProperties
  <2>4. ASSUME NEW i \in 0 .. Len(runbooks), NEW a \in Alerts
        PROVE  SubSeq(runbooks, 1, i) \o <<a>> \o SubSeq(runbooks, i + 1, Len(runbooks)) \in Seq(Alerts)
    BY <2>3
  <2>5. ASSUME NEW i \in DOMAIN runbooks
        PROVE  SubSeq(runbooks, 1, i - 1) \o SubSeq(runbooks, i + 1, Len(runbooks)) \in Seq(Alerts)
    <3>1. i \in 0 .. Len(runbooks) /\ i - 1 \in 0 .. Len(runbooks)
      BY <2>2
    <3> QED BY <2>3, <3>1
  <2> QED BY <1>2, <2>4, <2>5 DEF NightOwlChanges
<1> QED BY <1>1, <1>2 DEF Next, dvars

\* What NightOwl's calls and an import do.
LEMMA IntegrationProper ==
  ASSUME Typed(db), RequestsProper, runbooks \in Seq(Alerts), NEW c \in Clients
  PROVE  LET s == requests'[c]
         IN  /\ PostMortemBegin(c) \/ PostMortemSpace(c) \/ PostMortemDocument(c) => s \in PostMortems
             /\ RunbooksCount(c) \/ RunbooksRows(c) => s \in Lists
             /\ ImportBegin(c) \/ ImportFetch(c) \/ ImportLook(c) \/ ImportCreate(c) \/ ImportPage(c) => s \in Imports
             /\ ImportSpace(c) \/ ImportCollection(c) => s = Idle \/ s \in Imports
<1> PICK r : r = requests[c]
  OBVIOUS
<1> PICK s : s = requests'[c]
  OBVIOUS
<1>1. Proper(r) /\ DOMAIN requests = Clients
  BY DEF RequestsProper
<1>2. {} \in News
  BY DEF News
<1>3. /\ DOMAIN db.documents \subseteq Id /\ DOMAIN db.spaces \subseteq Id
      /\ db.next.spaces \in Id /\ db.next.collections \in Id /\ db.next.documents \in Id
  BY IdsTyped DEF Numbered
<1>4. \A slug : GetSpaceBySlug(db, slug) \subseteq Id
  BY <1>3 DEF GetSpaceBySlug
<1>5. ASSUME PostMortemBegin(c) PROVE s \in PostMortems
  <2>1. PICK into \in Names, name \in Names, place \in IdOrNull :
          Begin(c, "postmortems", [kind |-> "postmortem", pc |-> IF place = None THEN "space" ELSE "document",
                                   into |-> into, name |-> name, space |-> place, news |-> {}])
    <3>1. PICK into \in Names, name \in Names :
            \E place \in IF GetSpaceBySlug(db, Slug(into)) = {} THEN {None} ELSE GetSpaceBySlug(db, Slug(into)) :
              Begin(c, "postmortems", [kind |-> "postmortem", pc |-> IF place = None THEN "space" ELSE "document",
                                       into |-> into, name |-> name, space |-> place, news |-> {}])
      BY <1>5 DEF PostMortemBegin
    <3> QED BY <1>4, <3>1 DEF IdOrNull
  <2>2. PICK pc \in {"space", "document"} :
          s = [kind |-> "postmortem", pc |-> pc, into |-> into, name |-> name, space |-> place, news |-> {}]
    BY <1>1, <2>1, GoesOn
  <2>3. s \in PostMortems
    BY <1>2, <2>2 DEF PostMortems
  <2> QED BY <2>3
<1>6. ASSUME PostMortemSpace(c) \/ PostMortemDocument(c) PROVE s \in PostMortems
  <2>1. r \in PostMortems
    BY <1>1, <1>6, KindTyped DEF PostMortemSpace, PostMortemDocument
  <2>2. \/ s = [r EXCEPT !.pc = "document", !.space = db.next.spaces]
        \/ \E pc \in {"created", "refused"} : s = [r EXCEPT !.pc = pc]
    <3>1. CASE PostMortemSpace(c)
      BY <1>1, <3>1, GoesOn DEF PostMortemSpace
    <3>2. CASE PostMortemDocument(c)
      BY <1>1, <3>2, GoesOn DEF PostMortemDocument
    <3> QED BY <1>6, <3>1, <3>2
  <2>3. s \in PostMortems
    BY <1>3, <2>1, <2>2 DEF PostMortems, IdOrNull
  <2> QED BY <2>3
<1>7. ASSUME RunbooksCount(c) PROVE s \in Lists
  <2>1. PICK offset \in PageOffsets :
          s = [kind |-> "list", pc |-> "half", of |-> "runbooks", offset |-> offset,
               total |-> CountRunbooks(db), rows |-> {}, news |-> {}]
    BY <1>1, <1>7, GoesOn DEF RunbooksCount
  <2>2. CountRunbooks(db) \in Nat
    BY IdsTyped DEF CountRunbooks, PublishedRunbooks, Numbered
  <2>3. s \in Lists
    BY <1>2, <2>1, <2>2, OffsetsTyped DEF Lists
  <2> QED BY <2>3
<1>8. ASSUME RunbooksRows(c) PROVE s \in Lists
  <2>1. r \in Lists
    BY <1>1, <1>8, KindTyped DEF RunbooksRows
  <2>2. PICK page \in ListRunbooksWithSpace(db, PageLimit, r.offset) :
          s = [r EXCEPT !.pc = "done", !.rows = page]
    BY <1>1, <1>8, GoesOn DEF RunbooksRows
  <2>3. page \subseteq Id
    BY <1>3 DEF ListRunbooksWithSpace, Pages, WithSpace, PublishedRunbooks
  <2>4. s \in Lists
    BY <2>1, <2>2, <2>3 DEF Lists
  <2> QED BY <2>4
<1>9. ASSUME ImportBegin(c) PROVE s \in Imports
  <2>1. PICK into \in Names, filing \in Names \cup {None} :
          \E place \in IF GetSpaceBySlug(db, Slug(into)) = {} THEN {None} ELSE GetSpaceBySlug(db, Slug(into)) :
            Begin(c, "imports",
              [kind |-> "import", pc |-> IF place = None THEN "space" ELSE "collection", into |-> into,
               filing |-> filing, space |-> place, collection |-> None, offset |-> 0, total |-> 0,
               page |-> << >>, imported |-> {}, skipped |-> {}, failed |-> {}, changed |-> FALSE,
               news |-> {}])
    BY <1>9 DEF ImportBegin
  <2>2. PICK place \in IdOrNull, pc \in {"space", "collection"} :
          s = [kind |-> "import", pc |-> pc, into |-> into,
               filing |-> filing, space |-> place, collection |-> None, offset |-> 0, total |-> 0,
               page |-> << >>, imported |-> {}, skipped |-> {}, failed |-> {}, changed |-> FALSE,
               news |-> {}]
    BY <1>1, <1>4, <2>1, GoesOn DEF IdOrNull
  <2>3. << >> \in Seq(Alerts) /\ None \in IdOrNull
    BY DEF IdOrNull
  <2>4. s \in Imports
    BY <1>2, <2>2, <2>3 DEF Imports
  <2> QED BY <2>4
<1>10. ASSUME ImportSpace(c) \/ ImportCollection(c) PROVE s = Idle \/ s \in Imports
  <2>1. r \in Imports
    BY <1>1, <1>10, KindTyped DEF ImportSpace, ImportCollection
  <2>2. \/ s = Idle
        \/ s = [r EXCEPT !.pc = "collection", !.space = db.next.spaces]
        \/ s = [r EXCEPT !.pc = "fetch"]
        \/ s = [r EXCEPT !.pc = "fetch", !.collection = db.next.collections]
    <3>1. CASE ImportSpace(c)
      BY <1>1, <3>1, GoesOn DEF ImportSpace
    <3>2. CASE ImportCollection(c)
      BY <1>1, <3>2, GoesOn DEF ImportCollection
    <3> QED BY <1>10, <3>1, <3>2
  <2>3. ASSUME s = [r EXCEPT !.pc = "collection", !.space = db.next.spaces]
        PROVE  s \in Imports
    BY <1>3, <2>1, <2>3 DEF Imports, IdOrNull
  <2>4. ASSUME s = [r EXCEPT !.pc = "fetch"]
        PROVE  s \in Imports
    BY <2>1, <2>4 DEF Imports
  <2>5. ASSUME s = [r EXCEPT !.pc = "fetch", !.collection = db.next.collections]
        PROVE  s \in Imports
    BY <1>3, <2>1, <2>5 DEF Imports, IdOrNull
  <2> QED BY <2>2, <2>3, <2>4, <2>5
<1>11. ASSUME ImportFetch(c) PROVE s \in Imports
  <2>1. r \in Imports
    BY <1>1, <1>11, KindTyped DEF ImportFetch
  <2>2. PICK page : page = SubSeq(runbooks, r.offset + 1, LastOfPage(r.offset))
    OBVIOUS
  <2>3. page \in Seq(Alerts) /\ Len(runbooks) \in Nat
    <3>1. r.offset \in Nat
      BY <2>1 DEF Imports
    <3> QED BY <2>2, <3>1, PagesTyped
  <2>4. s = [r EXCEPT !.pc = "look", !.total = Len(runbooks), !.page = page]
    BY <1>1, <1>11, <2>2, GoesOn DEF ImportFetch
  <2>5. s \in Imports
    BY <2>1, <2>3, <2>4 DEF Imports
  <2> QED BY <2>5
<1>12. ASSUME ImportLook(c) \/ ImportCreate(c) PROVE s \in Imports
  <2>1. r \in Imports /\ r.page # << >>
    <3>1. r.kind = "import" /\ r.pc \in {"look", "create"} /\ (r.pc = "look" => r.page # << >>)
      BY <1>12 DEF ImportLook, ImportCreate
    <3> QED BY <1>1, <3>1, KindTyped DEF Imports
  <2>2. PICK a \in Alerts, rest \in Seq(Alerts) : a = Head(r.page) /\ rest = Tail(r.page)
    <3>1. r.page \in Seq(Alerts) /\ r.page # << >>
      BY <2>1 DEF Imports
    <3>2. Head(r.page) \in Alerts /\ Tail(r.page) \in Seq(Alerts)
      BY <3>1, HeadTailProperties
    <3> QED BY <3>2
  <2>3. \/ s = [r EXCEPT !.page = rest, !.skipped = r.skipped \cup {a}] /\ r.pc = "look"
        \/ s = [r EXCEPT !.pc = "create"]
        \/ s = [r EXCEPT !.pc = "look", !.page = rest, !.imported = r.imported \cup {db.next.documents}]
        \/ s = [r EXCEPT !.pc = "look", !.page = rest, !.failed = r.failed \cup {a}]
    <3>1. CASE ImportLook(c)
      BY <1>1, <2>2, <3>1, GoesOn DEF ImportLook
    <3>2. CASE ImportCreate(c)
      <4>1. PICK i : i = [r EXCEPT !.pc = "look", !.page = rest]
        OBVIOUS
      <4>2. PICK new : Execute(c, new, [i EXCEPT !.imported = i.imported \cup {db.next.documents}],
                                       [i EXCEPT !.failed = i.failed \cup {a}])
        BY <2>2, <3>2, <4>1 DEF ImportCreate
      <4>3. i.imported = r.imported /\ i.failed = r.failed
        BY <2>1, <4>1 DEF Imports
      <4>4. s = [i EXCEPT !.imported = i.imported \cup {db.next.documents}]
            \/ s = [i EXCEPT !.failed = i.failed \cup {a}]
        BY <1>1, <4>2, GoesOn
      <4> QED BY <2>1, <4>1, <4>3, <4>4 DEF Imports
    <3> QED BY <1>12, <3>1, <3>2
  <2>4. ASSUME s = [r EXCEPT !.page = rest, !.skipped = r.skipped \cup {a}] /\ r.pc = "look"
        PROVE  s \in Imports
    <3>1. PICK skipped \in SUBSET Alerts : skipped = r.skipped \cup {a}
      BY <2>1 DEF Imports
    <3> QED BY <2>1, <2>4, <3>1 DEF Imports
  <2>5. ASSUME s = [r EXCEPT !.pc = "create"]
        PROVE  s \in Imports
    BY <2>1, <2>5 DEF Imports
  <2>6. ASSUME s = [r EXCEPT !.pc = "look", !.page = rest, !.imported = r.imported \cup {db.next.documents}]
        PROVE  s \in Imports
    <3>1. PICK imported \in SUBSET Id : imported = r.imported \cup {db.next.documents}
      BY <1>3, <2>1 DEF Imports
    <3> QED BY <2>1, <2>6, <3>1 DEF Imports
  <2>7. ASSUME s = [r EXCEPT !.pc = "look", !.page = rest, !.failed = r.failed \cup {a}]
        PROVE  s \in Imports
    <3>1. PICK failed \in SUBSET Alerts : failed = r.failed \cup {a}
      BY <2>1 DEF Imports
    <3> QED BY <2>1, <2>7, <3>1 DEF Imports
  <2> QED BY <2>3, <2>4, <2>5, <2>6, <2>7
<1>13. ASSUME ImportPage(c) PROVE s \in Imports
  <2>1. r \in Imports
    BY <1>1, <1>13, KindTyped DEF ImportPage
  <2>2. PICK pc \in {"done", "fetch"} : s = [r EXCEPT !.offset = r.offset + BatchLimit, !.pc = pc]
    BY <1>1, <1>13, GoesOn DEF ImportPage
  <2>3. r.offset + BatchLimit \in Nat
    BY <2>1, BatchAssumption DEF Imports
  <2>4. s \in Imports
    BY <2>1, <2>2, <2>3 DEF Imports
  <2> QED BY <2>4
<1> QED BY <1>5, <1>6, <1>7, <1>8, <1>9, <1>10, <1>11, <1>12, <1>13

\* What a seed does.
LEMMA SeedProper ==
  ASSUME Typed(db), RequestsProper, NEW c \in Clients, SeedActs(c)
  PROVE  requests'[c] = Idle \/ requests'[c] \in Seeds
<1> PICK r : r = requests[c]
  OBVIOUS
<1> PICK s : s = requests'[c]
  OBVIOUS
<1>1. Proper(r) /\ DOMAIN requests = Clients
  BY DEF RequestsProper
<1>2. {} \in News
  BY DEF News
<1>3. /\ DOMAIN db.documents \subseteq Id /\ DOMAIN db.spaces \subseteq Id /\ DOMAIN db.collections \subseteq Id
      /\ db.next.spaces \in Id /\ db.next.collections \in Id /\ db.next.documents \in Id
  BY IdsTyped DEF Numbered
<1>4. None \in IdOrNull /\ SystemNames \subseteq Names /\ DemoDocs \subseteq Names
  BY SeedAssumption DEF IdOrNull
<1>5. ASSUME SeedBegin(c) PROVE s = Idle \/ s \in Seeds
  <2>1. PICK demo \in BOOLEAN :
          s = [kind |-> "seed", pc |-> "templates", demo |-> demo, templates |-> SystemNames,
               name |-> None, space |-> None, members |-> SeededUsers, collection |-> None,
               docs |-> DemoDocs, doc |-> None, failed |-> FALSE, news |-> {}]
    BY <1>1, <1>5, GoesOn DEF SeedBegin
  <2>2. s \in Seeds
    BY <1>2, <1>4, <2>1 DEF Seeds
  <2> QED BY <2>2
<1>6. ASSUME ~SeedBegin(c) PROVE r \in Seeds
  <2>1. r.kind = "seed"
    BY <1>6 DEF SeedActs, LookForTemplate, MakeTemplate, TemplatesDone, TemplatesFail, FindSpace, MakeSpace,
                AddSeededMember, FindOrCreateCollection, LookForDocument, MakeDocument, FileDocument, DocumentsDone, At
  <2> QED BY <1>1, <2>1, KindTyped
<1>7. ASSUME LookForTemplate(c) /\ r \in Seeds PROVE s = Idle \/ s \in Seeds
  <2>1. PICK name \in r.templates :
          Go(c, IF GetSystemTemplateByName(db, name) # {}
                  THEN [r EXCEPT !.templates = r.templates \ {name}]
                  ELSE [r EXCEPT !.templates = r.templates \ {name}, !.pc = "template", !.name = name])
    BY <1>7 DEF LookForTemplate
  <2>2. PICK templates \in SUBSET SystemNames : templates = r.templates \ {name}
    BY <1>7 DEF Seeds
  <2>3. /\ name \in Names
        /\ \/ s = [r EXCEPT !.templates = templates]
           \/ s = [r EXCEPT !.templates = templates, !.pc = "template", !.name = name]
    BY <1>1, <1>4, <1>7, <2>1, <2>2, GoesOn DEF Seeds
  <2>4. s \in Seeds
    BY <1>7, <2>3 DEF Seeds
  <2> QED BY <2>4
<1>8. ASSUME (MakeTemplate(c) \/ TemplatesDone(c) \/ DocumentsDone(c)) /\ r \in Seeds
      PROVE  s = Idle \/ s \in Seeds
  <2>1. PICK pc \in {"templates", "space", "done"} : s = [r EXCEPT !.pc = pc]
    <3>1. CASE MakeTemplate(c)
      BY <1>1, <3>1, GoesOn DEF MakeTemplate
    <3>2. CASE TemplatesDone(c)
      BY <1>1, <3>2, GoesOn DEF TemplatesDone, BehindTemplates
    <3>4. CASE DocumentsDone(c)
      BY <1>1, <3>4, GoesOn DEF DocumentsDone
    <3> QED BY <1>8, <3>1, <3>2, <3>4
  <2>2. s \in Seeds
    BY <1>8, <2>1 DEF Seeds
  <2> QED BY <2>2
<1>9. ASSUME (FindSpace(c) \/ MakeSpace(c)) /\ r \in Seeds PROVE s = Idle \/ s \in Seeds
  <2>1. \/ s = Idle
        \/ \E place \in IdOrNull : \E pc \in {"newspace", "members"} : s = [r EXCEPT !.pc = pc, !.space = place]
    <3>1. CASE FindSpace(c)
      <4>1. PICK there \in SUBSET DOMAIN db.spaces : there = GetSpaceBySlug(db, Slug(DemoName))
        BY DEF GetSpaceBySlug
      <4>2. PICK place \in IF there = {} THEN {None} ELSE there :
              Go(c, [r EXCEPT !.pc = IF place = None THEN "newspace" ELSE "members", !.space = place])
        BY <3>1, <4>1 DEF FindSpace
      <4>3. place \in IdOrNull
        BY <1>3, <1>4 DEF IdOrNull
      <4>4. PICK pc \in {"newspace", "members"} : pc = IF place = None THEN "newspace" ELSE "members"
        OBVIOUS
      <4>5. s = [r EXCEPT !.pc = pc, !.space = place]
        BY <1>1, <4>2, <4>4, GoesOn
      <4> QED BY <4>3, <4>5
    <3>2. CASE MakeSpace(c)
      <4>1. s = Idle \/ s = [r EXCEPT !.pc = "members", !.space = db.next.spaces]
        BY <1>1, <3>2, GoesOn DEF MakeSpace
      <4> QED BY <1>3, <4>1 DEF IdOrNull
    <3> QED BY <1>9, <3>1, <3>2
  <2>2. s = Idle \/ s \in Seeds
    BY <1>9, <2>1 DEF Seeds
  <2> QED BY <2>2
<1>10. ASSUME FindOrCreateCollection(c) /\ r \in Seeds PROVE s = Idle \/ s \in Seeds
  <2>1. ASSUME NEW k \in Id, s = [r EXCEPT !.pc = "docs", !.collection = k] PROVE s \in Seeds
    BY <1>10, <2>1 DEF Seeds, IdOrNull
  <2>2. ASSUME NEW new, Execute(c, new, [r EXCEPT !.pc = "docs", !.collection = db.next.collections], Idle)
        PROVE  s = Idle \/ s \in Seeds
    <3>1. s = Idle \/ s = [r EXCEPT !.pc = "docs", !.collection = db.next.collections]
      BY <1>1, <2>2, GoesOn
    <3> QED BY <1>3, <2>1, <3>1
  <2>3. ASSUME NEW k \in ListCollectionsBySpace(db, r.space), Go(c, [r EXCEPT !.pc = "docs", !.collection = k])
        PROVE  s \in Seeds
    <3>1. s = [r EXCEPT !.pc = "docs", !.collection = k]
      BY <1>1, <2>3, GoesOn
    <3>2. k \in Id
      BY <1>3 DEF ListCollectionsBySpace
    <3> QED BY <2>1, <3>1, <3>2
  <2>4. \/ \E new : Execute(c, new, [r EXCEPT !.pc = "docs", !.collection = db.next.collections], Idle)
        \/ \E k \in ListCollectionsBySpace(db, r.space) : Go(c, [r EXCEPT !.pc = "docs", !.collection = k])
    BY <1>10 DEF FindOrCreateCollection
  <2> QED BY <2>2, <2>3, <2>4
<1>11. ASSUME LookForDocument(c) /\ r \in Seeds PROVE s = Idle \/ s \in Seeds
  <2>1. PICK name \in r.docs :
          LET l == [r EXCEPT !.docs = r.docs \ {name}, !.name = name]
              there == GetDocumentBySlug(db, l.space, Slug(name))
          IN \/ there = {} /\ Go(c, [l EXCEPT !.pc = "create"])
             \/ \E d \in there :
                  Go(c, IF db.documents[d].collection = None THEN [l EXCEPT !.pc = "file", !.doc = d] ELSE l)
    BY <1>11 DEF LookForDocument
  <2>2. PICK docs \in SUBSET DemoDocs : docs = r.docs \ {name}
    BY <1>11 DEF Seeds
  <2>3. PICK l : l = [r EXCEPT !.docs = docs, !.name = name]
    OBVIOUS
  <2>4. l \in Seeds /\ name \in Names /\ l.name = name /\ l.pc = r.pc
    BY <1>4, <1>11, <2>2, <2>3 DEF Seeds
  <2>5. ASSUME Go(c, l) \/ Go(c, [l EXCEPT !.pc = "create"]) PROVE s \in Seeds
    <3>1. s = l \/ s = [l EXCEPT !.pc = "create"]
      BY <1>1, <2>5, GoesOn
    <3> QED BY <2>4, <3>1 DEF Seeds
  <2>6. ASSUME NEW d \in GetDocumentBySlug(db, l.space, Slug(name)), Go(c, [l EXCEPT !.pc = "file", !.doc = d])
        PROVE  s \in Seeds
    <3>1. s = [l EXCEPT !.pc = "file", !.doc = d]
      BY <1>1, <2>6, GoesOn
    <3>2. d \in IdOrNull
      BY <1>3 DEF GetDocumentBySlug, IdOrNull
    <3> QED BY <2>4, <3>1, <3>2 DEF Seeds
  <2>7. \/ Go(c, l) \/ Go(c, [l EXCEPT !.pc = "create"])
        \/ \E d \in GetDocumentBySlug(db, l.space, Slug(name)) : Go(c, [l EXCEPT !.pc = "file", !.doc = d])
    BY <2>1, <2>2, <2>3
  <2> QED BY <2>5, <2>6, <2>7
<1>12. ASSUME (MakeDocument(c) \/ FileDocument(c)) /\ r \in Seeds PROVE s = Idle \/ s \in Seeds
  <2>1. \/ s = Idle \/ s = [r EXCEPT !.pc = "docs"] \/ s = [r EXCEPT !.pc = "docs", !.doc = None]
        \/ s = [[r EXCEPT !.pc = "docs", !.doc = None] EXCEPT !.failed = TRUE]
    <3>1. CASE MakeDocument(c)
      BY <1>1, <3>1, GoesOn DEF MakeDocument
    <3>2. CASE FileDocument(c)
      BY <1>1, <3>2, GoesOn DEF FileDocument
    <3> QED BY <1>12, <3>1, <3>2
  <2>2. PICK f \in Seeds : f = [r EXCEPT !.pc = "docs", !.doc = None]
    BY <1>4, <1>12 DEF Seeds
  <2>3. s = Idle \/ s = [r EXCEPT !.pc = "docs"] \/ s = f \/ s = [f EXCEPT !.failed = TRUE]
    BY <2>1, <2>2
  <2>4. CASE s = [r EXCEPT !.pc = "docs"]
    BY <1>12, <2>4 DEF Seeds
  <2>5. CASE s = [f EXCEPT !.failed = TRUE]
    BY <2>5 DEF Seeds
  <2> QED BY <2>2, <2>3, <2>4, <2>5
<1>13. ASSUME TemplatesFail(c) /\ r \in Seeds PROVE s = Idle \/ s \in Seeds
  <2>1. PICK f : f = [r EXCEPT !.templates = {}, !.failed = TRUE]
    OBVIOUS
  <2>2. f \in Seeds
    BY <1>13, <2>1 DEF Seeds
  <2>3. PICK pc \in {"space", "done"} : s = [f EXCEPT !.pc = pc]
    BY <1>1, <1>13, <2>1, GoesOn DEF TemplatesFail, BehindTemplates
  <2> QED BY <2>2, <2>3 DEF Seeds
<1>14. ASSUME AddSeededMember(c) /\ r \in Seeds PROVE s = Idle \/ s \in Seeds
  <2>1. PICK u \in r.members : \E new :
          LET next == [r EXCEPT !.members = r.members \ {u}]
          IN Execute(c, new, next, next) \/ Go(c, [next EXCEPT !.failed = TRUE])
    BY <1>14 DEF AddSeededMember
  <2>2. PICK members \in SUBSET SeededUsers : members = r.members \ {u}
    BY <1>14 DEF Seeds
  <2>3. PICK next : next = [r EXCEPT !.members = members]
    OBVIOUS
  <2>4. s = next \/ s = [next EXCEPT !.failed = TRUE]
    BY <1>1, <2>1, <2>2, <2>3, GoesOn
  <2>5. next \in Seeds
    BY <1>14, <2>3 DEF Seeds
  <2> QED BY <2>4, <2>5 DEF Seeds
<1> QED BY <1>5, <1>6, <1>7, <1>8, <1>9, <1>10, <1>11, <1>12, <1>13, <1>14 DEF SeedActs

-----------------------------------------------------------------------------
(* What a step leaves alone *)

\* The next ids only grow, and a new row has one of them.
Grown ==
  \A table \in Numbered :
    /\ db.next[table] <= db'.next[table]
    /\ \A i \in DOMAIN db'[table] \ DOMAIN db[table] : db.next[table] <= i

\* The rows of a table that are left are as they were, and none is new.
Fewer(table) ==
  DOMAIN db'[table] \subseteq DOMAIN db[table] /\ \A i \in DOMAIN db'[table] : db'[table][i] = db[table][i]

\* What an INSERT does, once more, with the number of members and the next ids.
LEMMA InsertGrows ==
  ASSUME Typed(db), NEW table \in Numbered, NEW row, db' = Insert(db, table, row)
  PROVE  /\ \A other \in Numbered \ {table} : db'[other] = db[other]
         /\ db'.members = db.members
         /\ Grown
         /\ db.next[table] \in Id \ DOMAIN db[table]
         /\ DOMAIN db'[table] = DOMAIN db[table] \cup {db.next[table]}
         /\ db'[table][db.next[table]] = row
         /\ \A i \in DOMAIN db[table] : db'[table][i] = db[table][i]
<1>1. /\ db.next[table] \in Id \ DOMAIN db[table]
      /\ DOMAIN db'[table] = DOMAIN db[table] \cup {db.next[table]}
      /\ db'[table][db.next[table]] = row
      /\ \A i \in DOMAIN db[table] : db'[table][i] = db[table][i]
      /\ \A other \in Numbered \ {table} : db'[other] = db[other]
  BY InsertLeaves, TypedShaped DEF Id
<1>2. DOMAIN db = Numbered \cup {"members", "next"} /\ "members" \notin Numbered /\ "next" \notin Numbered
      /\ db.next \in [Numbered -> Nat]
  BY DEF Typed, Numbered, Id
<1>3. db'.members = db.members /\ db'.next = [db.next EXCEPT ![table] = db.next[table] + 1]
  BY <1>2 DEF Insert
<1>4. ASSUME NEW other \in Numbered
      PROVE  /\ db.next[other] <= db'.next[other]
             /\ \A i \in DOMAIN db'[other] \ DOMAIN db[other] : db.next[other] <= i
  <2>1. db.next[other] \in Nat /\ db.next[other] <= db'.next[other]
    BY <1>2, <1>3
  <2> QED BY <1>1, <2>1
<1> QED BY <1>1, <1>3, <1>4 DEF Grown

\* A statement on one table that adds no row.
LEMMA TableGrows ==
  ASSUME Typed(db), NEW table \in Numbered, NEW rows, DOMAIN rows \subseteq DOMAIN db[table],
         db' = [db EXCEPT ![table] = rows]
  PROVE  /\ \A other \in Numbered \ {table} : db'[other] = db[other]
         /\ db'[table] = rows
         /\ db'.members = db.members
         /\ Grown
<1>1. DOMAIN db = Numbered \cup {"members", "next"} /\ "members" \notin Numbered /\ "next" \notin Numbered
      /\ \A other \in Numbered : db.next[other] \in Nat
  BY DEF Typed, Numbered, Id
<1>2. /\ \A other \in Numbered \ {table} : db'[other] = db[other]
      /\ db'[table] = rows /\ db'.members = db.members /\ db'.next = db.next
  BY <1>1
<1>3. ASSUME NEW other \in Numbered
      PROVE  db.next[other] <= db'.next[other] /\ DOMAIN db'[other] \ DOMAIN db[other] = {}
  BY <1>1, <1>2
<1> QED BY <1>2, <1>3 DEF Grown

\* Spaces, members and collections, and what deleting takes along.  No collection changes
\* its space, and nothing takes along a template of no space.
LEMMA PlacesLeave ==
  ASSUME Typed(db), PlacesWritten
  PROVE  /\ Fewer("documents") /\ Fewer("templates") /\ Fewer("comments") /\ db'.notices = db.notices
         /\ Grown
         /\ \A k \in (DOMAIN db.collections) \cap DOMAIN db'.collections :
              db'.collections[k].space = db.collections[k].space
         /\ \A p \in DOMAIN db.templates : db.templates[p].space = None => p \in DOMAIN db'.templates
<1> DEFINE Left3 == /\ Fewer("documents") /\ Fewer("templates") /\ Fewer("comments") /\ db'.notices = db.notices
                    /\ Grown
           Homes == \A k \in (DOMAIN db.collections) \cap DOMAIN db'.collections :
                      db'.collections[k].space = db.collections[k].space
           Wide == \A p \in DOMAIN db.templates : db.templates[p].space = None => p \in DOMAIN db'.templates
<1>1. /\ DOMAIN db = Numbered \cup {"members", "next"}
      /\ \A other \in Numbered : db.next[other] \in Nat
      /\ {"spaces", "collections", "documents", "templates", "comments", "notices"} \subseteq Numbered
      /\ None \notin DOMAIN db.spaces
  BY IdsTyped, NoneAssumption DEF Typed, Numbered, Id
<1>2. ASSUME NEW table \in {"spaces", "collections"}, NEW row, db' = Insert(db, table, row)
      PROVE  Left3 /\ Homes /\ Wide
  <2>1. /\ \A other \in Numbered \ {table} : db'[other] = db[other]
        /\ Grown /\ \A i \in DOMAIN db[table] : db'[table][i] = db[table][i]
    BY <1>1, <1>2, InsertGrows
  <2> QED BY <1>1, <2>1 DEF Fewer
<1>3. ASSUME NEW s, NEW slug, db' = UpdateSpace(db, s, slug) PROVE Left3 /\ Homes /\ Wide
  <2>1. PICK rows : rows = [db.spaces EXCEPT ![s].slug = slug]
    OBVIOUS
  <2>2. db' = [db EXCEPT !["spaces"] = rows] /\ DOMAIN rows \subseteq DOMAIN db.spaces
    BY <1>3, <2>1 DEF UpdateSpace
  <2>3. (\A other \in Numbered \ {"spaces"} : db'[other] = db[other]) /\ Grown
    BY <1>1, <2>2, TableGrows
  <2> QED BY <1>1, <2>3 DEF Fewer
<1>4. ASSUME NEW members, db' = [db EXCEPT !.members = members] PROVE Left3 /\ Homes /\ Wide
  <2>1. "members" \notin Numbered /\ "next" \notin Numbered
    BY DEF Numbered
  <2>2. (\A other \in Numbered : db'[other] = db[other]) /\ db'.next = db.next
    BY <1>1, <1>4, <2>1
  <2>3. Grown
    BY <1>1, <2>2 DEF Grown
  <2> QED BY <1>1, <2>2, <2>3 DEF Fewer
<1>5. ASSUME NEW k, NEW slug, NEW parent, db' = UpdateCollection(db, k, slug, parent)
      PROVE  Left3 /\ Homes /\ Wide
  <2>1. PICK rows : rows = [db.collections EXCEPT ![k].slug = slug, ![k].parent = parent]
    OBVIOUS
  <2>2. db' = [db EXCEPT !["collections"] = rows] /\ DOMAIN rows \subseteq DOMAIN db.collections
    BY <1>5, <2>1 DEF UpdateCollection
  <2>3. (\A other \in Numbered \ {"collections"} : db'[other] = db[other]) /\ Grown /\ db'.collections = rows
    BY <1>1, <2>2, TableGrows
  <2>4. \A j \in DOMAIN db.collections : db.collections[j] \in Collection
    BY DEF Typed
  <2>5. \A j \in DOMAIN db.collections : rows[j].space = db.collections[j].space
    BY <2>1, <2>4 DEF Collection
  <2> QED BY <1>1, <2>3, <2>5 DEF Fewer
<1>6. ASSUME NEW k, db' = DeleteCollection(db, k) PROVE Left3 /\ Homes /\ Wide
  <2>1. PICK rows : rows = Without(db.collections, {k})
    OBVIOUS
  <2>2. db' = [db EXCEPT !["collections"] = rows]
    BY <1>6, <2>1 DEF DeleteCollection
  <2>3. DOMAIN rows \subseteq DOMAIN db.collections /\ \A i \in DOMAIN rows : rows[i] = db.collections[i]
    BY <2>1 DEF Without, Restrict
  <2>4. (\A other \in Numbered \ {"collections"} : db'[other] = db[other]) /\ Grown /\ db'.collections = rows
    BY <1>1, <2>2, <2>3, TableGrows
  <2> QED BY <1>1, <2>3, <2>4 DEF Fewer
<1>7. ASSUME NEW spaces \in SUBSET DOMAIN db.spaces, NEW documents, db' = Cascade(db, spaces, documents)
      PROVE  Left3 /\ Homes /\ Wide
  <2>1. /\ db'.next = db.next /\ db'.notices = db.notices
        /\ \A table \in Numbered : \E ids : db'[table] = db[table] \/ db'[table] = Without(db[table], ids)
        /\ db'.templates = Without(db.templates, {p \in DOMAIN db.templates : db.templates[p].space \in spaces})
    BY <1>1, <1>7 DEF Cascade, Numbered
  <2>2. \A table \in Numbered : Fewer(table)
    BY <2>1 DEF Fewer, Without, Restrict
  <2>3. Grown
    BY <1>1, <2>1, <2>2 DEF Grown, Fewer
  <2>4. Wide
    BY <1>1, <2>1 DEF Without, Restrict
  <2> QED BY <1>1, <2>1, <2>2, <2>3, <2>4 DEF Fewer
<1> HIDE DEF Left3, Homes, Wide
<1>8. Left3 /\ Homes /\ Wide
  BY <1>2, <1>3, <1>4, <1>5, <1>6, <1>7 DEF PlacesWritten, CreateSpace, CreateCollection
<1> QED BY <1>8 DEF Left3, Homes, Wide

\* Templates: no other table, and of the system templates none that is there.
LEMMA TemplatesLeave ==
  ASSUME Typed(db), TemplatesWritten
  PROVE  /\ \A other \in Numbered \ {"templates"} : db'[other] = db[other]
         /\ db'.members = db.members /\ Grown
         /\ \A p \in DOMAIN db.templates : db.templates[p].system =>
              p \in DOMAIN db'.templates /\ db'.templates[p] = db.templates[p]
         /\ \A p \in DOMAIN db'.templates :
              \/ p \in DOMAIN db.templates /\ db'.templates[p].system = db.templates[p].system
              \/ ~db'.templates[p].system
              \/ /\ p = db.next.templates
                 /\ \E c \in Clients :
                      /\ MakeTemplate(c)
                      /\ db'.templates[p] = [space |-> None, name |-> requests[c].name, type |-> "runbook",
                                             system |-> TRUE, global |-> TRUE]
<1> DEFINE Alone == /\ \A other \in Numbered \ {"templates"} : db'[other] = db[other]
                    /\ db'.members = db.members /\ Grown
           Spared == \A p \in DOMAIN db.templates : db.templates[p].system =>
                       p \in DOMAIN db'.templates /\ db'.templates[p] = db.templates[p]
           Origin(p) == \/ p \in DOMAIN db.templates /\ db'.templates[p].system = db.templates[p].system
                        \/ ~db'.templates[p].system
                        \/ /\ p = db.next.templates
                           /\ \E c \in Clients :
                                /\ MakeTemplate(c)
                                /\ db'.templates[p] = [space |-> None, name |-> requests[c].name,
                                                       type |-> "runbook", system |-> TRUE, global |-> TRUE]
<1>1. "templates" \in Numbered /\ \A p \in DOMAIN db.templates : db.templates[p] \in Template
  BY DEF Numbered, Typed
<1>2. ASSUME NEW row, db' = CreateTemplate(db, row),
             \/ ~row.system
             \/ \E c \in Clients :
                  /\ MakeTemplate(c)
                  /\ row = [space |-> None, name |-> requests[c].name, type |-> "runbook",
                            system |-> TRUE, global |-> TRUE]
      PROVE  Alone /\ Spared /\ \A p \in DOMAIN db'.templates : Origin(p)
  <2>1. /\ Alone
        /\ DOMAIN db'.templates = DOMAIN db.templates \cup {db.next.templates}
        /\ db'.templates[db.next.templates] = row
        /\ \A p \in DOMAIN db.templates : db'.templates[p] = db.templates[p]
    BY <1>1, <1>2, InsertGrows DEF CreateTemplate
  <2> QED BY <1>2, <2>1
<1>3. ASSUME NEW p, NEW name, db' = UpdateTemplate(db, p, name)
      PROVE  Alone /\ Spared /\ \A q \in DOMAIN db'.templates : Origin(q)
  <2>1. PICK rows : rows = [q \in DOMAIN db.templates |->
                              IF q = p /\ ~db.templates[q].system
                                THEN [db.templates[q] EXCEPT !.name = name] ELSE db.templates[q]]
    OBVIOUS
  <2>2. db' = [db EXCEPT !["templates"] = rows]
    BY <1>3, <2>1 DEF UpdateTemplate
  <2>3. Alone /\ db'.templates = rows
    BY <1>1, <2>1, <2>2, TableGrows
  <2>4. \A q \in DOMAIN rows : /\ rows[q].system = db.templates[q].system
                              /\ db.templates[q].system => rows[q] = db.templates[q]
    BY <1>1, <2>1 DEF Template
  <2> QED BY <2>1, <2>3, <2>4
<1>4. ASSUME NEW p, db' = DeleteTemplate(db, p)
      PROVE  Alone /\ Spared /\ \A q \in DOMAIN db'.templates : Origin(q)
  <2>1. PICK rows : rows = Without(db.templates, {q \in (DOMAIN db.templates) \cap {p} : ~db.templates[q].system})
    OBVIOUS
  <2>2. db' = [db EXCEPT !["templates"] = rows]
    BY <1>4, <2>1 DEF DeleteTemplate
  <2>3. /\ DOMAIN rows \subseteq DOMAIN db.templates /\ \A q \in DOMAIN rows : rows[q] = db.templates[q]
        /\ \A q \in DOMAIN db.templates : db.templates[q].system => q \in DOMAIN rows
    BY <2>1 DEF Without, Restrict
  <2>4. Alone /\ db'.templates = rows
    BY <1>1, <2>2, <2>3, TableGrows
  <2> QED BY <2>3, <2>4
<1> HIDE DEF Alone, Spared, Origin
<1>5. Alone /\ Spared /\ \A q \in DOMAIN db'.templates : Origin(q)
  BY <1>2, <1>3, <1>4 DEF TemplatesWritten
<1> QED BY <1>5 DEF Alone, Spared, Origin

\* Comments and notifications: no other table.
LEMMA DiscussionLeaves ==
  ASSUME Typed(db), DiscussionWritten
  PROVE  /\ \A other \in Numbered \ {"comments", "notices"} : db'[other] = db[other]
         /\ db'.members = db.members /\ Grown
<1>1. "comments" \in Numbered /\ "notices" \in Numbered
  BY DEF Numbered
<1>2. ASSUME NEW table \in {"comments", "notices"}, NEW row, db' = Insert(db, table, row)
      PROVE  /\ \A other \in Numbered \ {"comments", "notices"} : db'[other] = db[other]
             /\ db'.members = db.members /\ Grown
  BY <1>1, <1>2, InsertGrows
<1>3. ASSUME NEW table \in {"comments", "notices"}, NEW rows, DOMAIN rows \subseteq DOMAIN db[table],
             db' = [db EXCEPT ![table] = rows]
      PROVE  /\ \A other \in Numbered \ {"comments", "notices"} : db'[other] = db[other]
             /\ db'.members = db.members /\ Grown
  BY <1>1, <1>3, TableGrows
<1>4. ASSUME NEW k \in DOMAIN db.comments,
             \/ \E body \in SUBSET Mentions : db' = UpdateCommentBody(db, k, body)
             \/ db' = SoftDeleteComment(db, k)
             \/ db' = ResolveComment(db, k)
             \/ db' = UnresolveComment(db, k)
             \/ Age(k)
      PROVE  \E rows : DOMAIN rows = DOMAIN db.comments /\ db' = [db EXCEPT !["comments"] = rows]
  BY <1>4 DEF UpdateCommentBody, SoftDeleteComment, ResolveComment, UnresolveComment, Age
<1>5. ASSUME NEW n, NEW u, db' = MarkNotificationRead(db, n, u) \/ db' = MarkAllNotificationsRead(db, u)
      PROVE  \E rows : DOMAIN rows = DOMAIN db.notices /\ db' = [db EXCEPT !["notices"] = rows]
  BY <1>5 DEF MarkNotificationRead, MarkAllNotificationsRead
<1>6. /\ \A d, parent, author, body : \E row : CreateComment(db, d, parent, author, body) = Insert(db, "comments", row)
      /\ \A row : CreateNotification(db, row) = Insert(db, "notices", row)
  BY DEF CreateComment, CreateNotification
<1> QED BY <1>2, <1>3, <1>4, <1>5, <1>6 DEF DiscussionWritten

\* Where a row of documents comes from: it is left as it was, or made, or written to.
DocumentOrigin(d) ==
  LET new == db'.documents[d]
      old == db.documents[d]
  IN \/ d \in DOMAIN db.documents /\ new = old
     \/ /\ d = db.next.documents
        /\ \/ Spend("documents")
           \/ \E c \in Clients :
                \/ PostMortemDocument(c) /\ new.alert = None /\ new.collection = None
                \/ /\ ImportCreate(c) /\ new.alert = Head(requests[c].page)
                   /\ new.space = requests[c].space /\ new.collection = requests[c].collection
                \/ /\ MakeDocument(c) /\ new.alert = None
                   /\ new.space = requests[c].space /\ new.collection = requests[c].collection
     \/ /\ d \in DOMAIN db.documents
        /\ \E c \in Clients :
             /\ requests[c].doc = d
             /\ \/ Update(c) /\ new.space = old.space
                \/ /\ MoveWrite(c) /\ new.alert = old.alert
                   /\ new.space = requests[c].to /\ new.collection = requests[c].place
                \/ /\ FileDocument(c) /\ new.alert = old.alert
                   /\ new.space = old.space /\ new.collection = requests[c].collection

\* Documents: no other table.
LEMMA DocumentsLeave ==
  ASSUME Typed(db), DocumentsWritten
  PROVE  /\ \A other \in Numbered \ {"documents"} : db'[other] = db[other]
         /\ db'.members = db.members /\ Grown
         /\ \A d \in DOMAIN db'.documents : DocumentOrigin(d)
<1> DEFINE Alone == /\ \A other \in Numbered \ {"documents"} : db'[other] = db[other]
                    /\ db'.members = db.members /\ Grown
<1>1. "documents" \in Numbered /\ "documents" \in DOMAIN db
      /\ \A d \in DOMAIN db.documents : db.documents[d] \in Document
  BY DEF Numbered, Typed
<1>2. ASSUME NEW row, db' = CreateDocument(db, row)
      PROVE  /\ Alone
             /\ \A d \in DOMAIN db'.documents :
                  \/ d \in DOMAIN db.documents /\ db'.documents[d] = db.documents[d]
                  \/ d = db.next.documents /\ db'.documents[d] = row
  BY <1>1, <1>2, InsertGrows DEF CreateDocument
<1>3. ASSUME NEW e \in DOMAIN db.documents, NEW row, db' = [db EXCEPT !.documents[e] = row]
      PROVE  /\ Alone
             /\ \A d \in DOMAIN db'.documents :
                  \/ d \in DOMAIN db.documents /\ db'.documents[d] = db.documents[d]
                  \/ d = e /\ db'.documents[d] = row
  <2>1. PICK rows : rows = [db.documents EXCEPT ![e] = row]
    OBVIOUS
  <2>2. db' = [db EXCEPT !["documents"] = rows] /\ DOMAIN rows = DOMAIN db.documents
    BY <1>3, <2>1
  <2>3. Alone /\ db'.documents = rows
    BY <1>1, <2>2, TableGrows
  <2> QED BY <2>1, <2>3
<1> HIDE DEF Alone
<1>4. ASSUME NEW row, Spend("documents"), db' = CreateDocument(db, row)
      PROVE  Alone /\ \A d \in DOMAIN db'.documents : DocumentOrigin(d)
  BY <1>2, <1>4 DEF DocumentOrigin
<1>5. ASSUME NEW c \in Clients, NEW row, db' = CreateDocument(db, row),
             \/ PostMortemDocument(c) /\ row.alert = None /\ row.collection = None
             \/ /\ ImportCreate(c) /\ row.alert = Head(requests[c].page)
                /\ row.space = requests[c].space /\ row.collection = requests[c].collection
             \/ /\ MakeDocument(c) /\ row.alert = None
                /\ row.space = requests[c].space /\ row.collection = requests[c].collection
      PROVE  Alone /\ \A d \in DOMAIN db'.documents : DocumentOrigin(d)
  BY <1>2, <1>5 DEF DocumentOrigin
<1>6. ASSUME NEW c \in Clients, Update(c), requests[c].doc \in DOMAIN db.documents,
             NEW new, db' = UpdateDocument(db, requests[c].doc, new), DOMAIN new = DOMAIN db.documents[requests[c].doc]
      PROVE  Alone /\ \A d \in DOMAIN db'.documents : DocumentOrigin(d)
  <2> PICK e \in DOMAIN db.documents : e = requests[c].doc
    BY <1>6
  <2> PICK old \in Document : old = db.documents[e]
    BY <1>1
  <2>1. PICK row : row = [new EXCEPT !.space = old.space]
    OBVIOUS
  <2>2. row.space = old.space
    BY <1>6, <2>1 DEF Document
  <2>3. db' = [db EXCEPT !.documents[e] = row]
    BY <1>6, <2>1 DEF UpdateDocument
  <2>4. /\ Alone
        /\ \A d \in DOMAIN db'.documents :
             \/ d \in DOMAIN db.documents /\ db'.documents[d] = db.documents[d]
             \/ d = e /\ db'.documents[d] = row
    BY <1>3, <2>3
  <2>5. Update(c) /\ requests[c].doc = e
    BY <1>6
  <2>6. ASSUME NEW d \in DOMAIN db'.documents, d = e, db'.documents[d] = row PROVE DocumentOrigin(d)
    BY <2>2, <2>5, <2>6 DEF DocumentOrigin
  <2>7. ASSUME NEW d \in DOMAIN db.documents, db'.documents[d] = db.documents[d] PROVE DocumentOrigin(d)
    BY <2>7 DEF DocumentOrigin
  <2> QED BY <2>4, <2>6, <2>7
<1>7. ASSUME NEW c \in Clients, MoveWrite(c),
             db' = MoveToSpace(db, requests[c].doc, requests[c].to, requests[c].place, Candidate(requests[c]))
      PROVE  Alone /\ \A d \in DOMAIN db'.documents : DocumentOrigin(d)
  <2>1. CASE requests[c].doc \in DOMAIN db.documents
    <3> PICK e \in DOMAIN db.documents : e = requests[c].doc
      BY <2>1
    <3> PICK old \in Document : old = db.documents[e]
      BY <1>1
    <3>1. PICK row : row = [old EXCEPT !.space = requests[c].to, !.collection = requests[c].place,
                                       !.slug = Candidate(requests[c])]
      OBVIOUS
    <3>2. row.alert = old.alert /\ row.space = requests[c].to /\ row.collection = requests[c].place
      BY <3>1 DEF Document
    <3>3. db' = [db EXCEPT !.documents[e] = row]
      BY <1>7, <2>1, <3>1 DEF MoveToSpace
    <3>4. /\ Alone
          /\ \A d \in DOMAIN db'.documents :
               \/ d \in DOMAIN db.documents /\ db'.documents[d] = db.documents[d]
               \/ d = e /\ db'.documents[d] = row
      BY <1>3, <3>3
    <3> QED BY <1>7, <3>2, <3>4 DEF DocumentOrigin
  <2>2. CASE requests[c].doc \notin DOMAIN db.documents
    <3>1. db' = db
      BY <1>7, <2>2 DEF MoveToSpace
    <3> QED BY <1>1, <3>1, IdsTyped DEF DocumentOrigin, Alone, Grown, Id
  <2> QED BY <2>1, <2>2
<1>8. ASSUME NEW c \in Clients, FileDocument(c),
             db' = MoveDocumentToCollection(db, requests[c].doc, requests[c].collection)
      PROVE  Alone /\ \A d \in DOMAIN db'.documents : DocumentOrigin(d)
  <2>1. CASE requests[c].doc \in DOMAIN db.documents
    <3> PICK e \in DOMAIN db.documents : e = requests[c].doc
      BY <2>1
    <3> PICK old \in Document : old = db.documents[e]
      BY <1>1
    <3>1. PICK row : row = [old EXCEPT !.collection = requests[c].collection]
      OBVIOUS
    <3>2. row.alert = old.alert /\ row.space = old.space /\ row.collection = requests[c].collection
      BY <3>1 DEF Document
    <3>3. db' = [db EXCEPT !.documents[e] = row]
      BY <1>8, <2>1, <3>1 DEF MoveDocumentToCollection
    <3>4. /\ Alone
          /\ \A d \in DOMAIN db'.documents :
               \/ d \in DOMAIN db.documents /\ db'.documents[d] = db.documents[d]
               \/ d = e /\ db'.documents[d] = row
      BY <1>3, <3>3
    <3> QED BY <1>8, <3>2, <3>4 DEF DocumentOrigin
  <2>2. CASE requests[c].doc \notin DOMAIN db.documents
    <3>1. db' = db
      BY <1>8, <2>2 DEF MoveDocumentToCollection
    <3> QED BY <1>1, <3>1, IdsTyped DEF DocumentOrigin, Alone, Grown, Id
  <2> QED BY <2>1, <2>2
<1>9. Alone /\ \A d \in DOMAIN db'.documents : DocumentOrigin(d)
  <2>1. CASE Spend("documents") /\ \E row : db' = CreateDocument(db, row)
    BY <1>4, <2>1
  <2>2. ASSUME NEW c \in Clients, PostMortemDocument(c),
               db' = CreateDocument(db, [space |-> requests[c].space, collection |-> None,
                                         slug |-> Slug(requests[c].name), type |-> "post-mortem",
                                         status |-> "published", alert |-> None])
        PROVE  Alone /\ \A d \in DOMAIN db'.documents : DocumentOrigin(d)
    BY <1>5, <2>2
  <2>3. ASSUME NEW c \in Clients, ImportCreate(c),
               db' = CreateDocument(db, [space |-> requests[c].space, collection |-> requests[c].collection,
                                         slug |-> Slug(Title[Head(requests[c].page)]), type |-> "runbook",
                                         status |-> "published", alert |-> Head(requests[c].page)])
        PROVE  Alone /\ \A d \in DOMAIN db'.documents : DocumentOrigin(d)
    BY <1>5, <2>3
  <2>4. ASSUME NEW c \in Clients, MakeDocument(c),
               db' = CreateDocument(db, [space |-> requests[c].space, collection |-> requests[c].collection,
                                         slug |-> Slug(requests[c].name), type |-> "runbook",
                                         status |-> "published", alert |-> None])
        PROVE  Alone /\ \A d \in DOMAIN db'.documents : DocumentOrigin(d)
    BY <1>5, <2>4
  <2>5. ASSUME NEW c \in Clients, NEW new, Update(c), requests[c].doc \in DOMAIN db.documents, SentBy(c, new),
               db' = UpdateDocument(db, requests[c].doc, new)
        PROVE  Alone /\ \A d \in DOMAIN db'.documents : DocumentOrigin(d)
    <3>1. DOMAIN new = DOMAIN db.documents[requests[c].doc]
      BY <2>5 DEF SentBy, Resent
    <3> QED BY <1>6, <2>5, <3>1
  <2> QED BY <1>7, <1>8, <2>1, <2>2, <2>3, <2>4, <2>5 DEF DocumentsWritten
<1> QED BY <1>9 DEF Alone

\* Every step: no id is used again, no collection changes its space, and each document is
\* what DocumentOrigin says.
LEMMA NextLeaves ==
  ASSUME Typed(db), Stands
  PROVE  /\ Grown
         /\ \A k \in (DOMAIN db.collections) \cap DOMAIN db'.collections :
              db'.collections[k].space = db.collections[k].space
         /\ \A d \in DOMAIN db'.documents : DocumentOrigin(d)
<1>1. \A table \in Numbered : db.next[table] \in Nat
  BY IdsTyped DEF Id
<1>2. {"documents", "collections", "templates", "comments", "notices"} \subseteq Numbered
  BY DEF Numbered
<1>3. CASE db' = db
  BY <1>1, <1>3 DEF Grown, DocumentOrigin
<1>4. CASE PlacesWritten
  BY <1>4, PlacesLeave DEF Fewer, DocumentOrigin
<1>5. CASE TemplatesWritten
  BY <1>2, <1>5, TemplatesLeave DEF DocumentOrigin
<1>6. CASE DocumentsWritten
  BY <1>2, <1>6, DocumentsLeave
<1>7. CASE DiscussionWritten
  BY <1>2, <1>7, DiscussionLeaves DEF DocumentOrigin
<1> QED BY <1>3, <1>4, <1>5, <1>6, <1>7 DEF Stands

\* What a request is after a step of its own says what the step was.
LEMMA KindOfActs ==
  ASSUME TypesInv, Typed(db'), NEW c \in Clients, Acts(c)
  PROVE  LET s == requests'[c]
         IN  /\ s.kind = "edit" => Get(c)
             /\ s.kind = "move" => MoveGet(c) \/ CheckSlug(c) \/ MoveWrite(c)
             /\ s.kind = "tree" => TreeCollections(c) \/ TreeDocuments(c)
             /\ s.kind = "list" => ListCount(c) \/ ListRows(c) \/ RunbooksCount(c) \/ RunbooksRows(c)
             /\ s.kind = "search" => SearchBegin(c) \/ SearchNext(c)
             /\ s.kind = "reply" => Reply(c)
             /\ s.kind = "post" => CreateOn(c) \/ ReplyStore(c) \/ Notify(c) \/ NotifyFails(c)
             /\ s.kind = "postmortem" => PostMortemBegin(c) \/ PostMortemSpace(c) \/ PostMortemDocument(c)
             /\ s.kind = "import" => \/ ImportBegin(c) \/ ImportSpace(c) \/ ImportCollection(c)
                                     \/ ImportFetch(c) \/ ImportLook(c) \/ ImportCreate(c) \/ ImportPage(c)
             /\ s.kind = "seed" => SeedActs(c)
<1> PICK s : s = requests'[c]
  OBVIOUS
<1>1. Typed(db) /\ RequestsProper /\ runbooks \in Seq(Alerts) /\ DOMAIN requests = Clients
  BY DEF TypesInv, RequestsProper
<1>2. /\ \A r \in Edits : r.kind = "edit"
      /\ \A r \in Moves : r.kind = "move"
      /\ \A r \in Trees : r.kind = "tree"
      /\ \A r \in Lists : r.kind = "list"
      /\ \A r \in Searches : r.kind = "search"
      /\ \A r \in Replies : r.kind = "reply"
      /\ \A r \in Posts : r.kind = "post"
      /\ \A r \in PostMortems : r.kind = "postmortem"
      /\ \A r \in Imports : r.kind = "import"
      /\ \A r \in Seeds : r.kind = "seed"
      /\ Idle.kind = "idle"
  BY DEF Edits, Moves, Trees, Lists, Searches, Replies, Posts, PostMortems, Imports, Seeds, Idle
<1>3. CASE WorkspaceActs(c)
  BY <1>1, <1>2, <1>3, WorkspaceProper DEF WorkspaceActs
<1>4. CASE DiscussionActs(c)
  BY <1>1, <1>2, <1>4, DiscussionProper DEF DiscussionActs
<1>5. CASE IntegrationActs(c)
  BY <1>1, <1>2, <1>5, IntegrationProper DEF IntegrationActs
<1>6. CASE SeedActs(c)
  BY <1>1, <1>2, <1>6, SeedProper
<1>7. CASE End(c)
  BY <1>1, <1>2, <1>7, GoesOn DEF End
<1> QED BY <1>3, <1>4, <1>5, <1>6, <1>7 DEF Acts

\* What a step of somebody else leaves of a request, field by field.
LEMMA LeftKinds ==
  ASSUME TypesInv, Typed(db'), NEW q \in Clients, Left(q)
  PROVE  LET r == requests[q]
             s == requests'[q]
         IN /\ s.kind = r.kind
            /\ r.kind # "idle" => s.news = r.news \cup Written(db')
            /\ r.kind = "edit" => s.doc = r.doc /\ s.space = r.space /\ s.slug = r.slug
            /\ r.kind = "move" => /\ s.pc = r.pc /\ s.doc = r.doc /\ s.from = r.from /\ s.slug = r.slug
                                  /\ s.to = r.to /\ s.place = r.place /\ s.tries = r.tries
            /\ r.kind = "tree" => /\ s.pc = r.pc /\ s.space = r.space /\ s.filed = r.filed
                                  /\ s.loose = r.loose
            /\ r.kind = "list" => /\ s.pc = r.pc /\ s.of = r.of /\ s.offset = r.offset
                                  /\ s.total = r.total /\ s.rows = r.rows
            /\ r.kind = "reply" => /\ s.doc = r.doc /\ s.parent = r.parent /\ s.author = r.author
                                   /\ s.body = r.body
            /\ r.kind = "post" => s.comment = r.comment /\ s.due = r.due /\ s.failed = r.failed
            /\ r.kind = "postmortem" => /\ s.pc = r.pc /\ s.into = r.into /\ s.name = r.name
                                        /\ s.space = r.space
            /\ r.kind = "import" => /\ s.pc = r.pc /\ s.into = r.into /\ s.filing = r.filing
                                    /\ s.space = r.space /\ s.collection = r.collection
                                    /\ s.offset = r.offset /\ s.total = r.total /\ s.page = r.page
                                    /\ s.imported = r.imported /\ s.skipped = r.skipped
                                    /\ s.failed = r.failed
                                    /\ s.changed \/ (s.changed = r.changed /\ runbooks' = runbooks)
            /\ r.kind = "seed" => /\ s.pc = r.pc /\ s.demo = r.demo /\ s.templates = r.templates
                                  /\ s.name = r.name /\ s.space = r.space /\ s.members = r.members
                                  /\ s.collection = r.collection /\ s.docs = r.docs /\ s.doc = r.doc
                                  /\ s.failed = r.failed
<1> PICK r : r = requests[q]
  OBVIOUS
<1> PICK s : s = requests'[q]
  OBVIOUS
<1>1. Proper(r) /\ Typed(db)
  BY DEF TypesInv, RequestsProper
<1>2. /\ DOMAIN s = DOMAIN r
      /\ \A f \in DOMAIN r \ {"news", "changed"} : s[f] = r[f]
      /\ r.kind # "idle" => s.news = r.news \cup Written(db')
      /\ r.kind = "import" => s.changed \/ (s.changed = r.changed /\ runbooks' = runbooks)
  BY <1>1, LeftFields
<1>3. s.kind = r.kind
  <2>1. "kind" \in DOMAIN r
    BY <1>1 DEF Proper, Idle, Edits, Moves, Trees, Lists, Searches, Replies, Posts, PostMortems, Imports, Seeds
  <2> QED BY <1>2, <2>1
<1>4. r.kind = "edit" => s.doc = r.doc /\ s.space = r.space /\ s.slug = r.slug
  BY <1>1, <1>2, KindTyped DEF Edits
<1>5. r.kind = "move" => /\ s.pc = r.pc /\ s.doc = r.doc /\ s.from = r.from /\ s.slug = r.slug
                         /\ s.to = r.to /\ s.place = r.place /\ s.tries = r.tries
  BY <1>1, <1>2, KindTyped DEF Moves
<1>6. r.kind = "tree" => s.pc = r.pc /\ s.space = r.space /\ s.filed = r.filed /\ s.loose = r.loose
  BY <1>1, <1>2, KindTyped DEF Trees
<1>7. r.kind = "list" => /\ s.pc = r.pc /\ s.of = r.of /\ s.offset = r.offset
                         /\ s.total = r.total /\ s.rows = r.rows
  BY <1>1, <1>2, KindTyped DEF Lists
<1>8. r.kind = "post" => s.comment = r.comment /\ s.due = r.due /\ s.failed = r.failed
  BY <1>1, <1>2, KindTyped DEF Posts
<1>9. r.kind = "postmortem" => s.pc = r.pc /\ s.into = r.into /\ s.name = r.name /\ s.space = r.space
  BY <1>1, <1>2, KindTyped DEF PostMortems
<1>10. r.kind = "import" => /\ s.pc = r.pc /\ s.into = r.into /\ s.filing = r.filing
                            /\ s.space = r.space /\ s.collection = r.collection
                            /\ s.offset = r.offset /\ s.total = r.total /\ s.page = r.page
                            /\ s.imported = r.imported /\ s.skipped = r.skipped /\ s.failed = r.failed
  BY <1>1, <1>2, KindTyped DEF Imports
<1>11. r.kind = "seed" => /\ s.pc = r.pc /\ s.demo = r.demo /\ s.templates = r.templates
                          /\ s.name = r.name /\ s.space = r.space /\ s.members = r.members
                          /\ s.collection = r.collection /\ s.docs = r.docs /\ s.doc = r.doc
                          /\ s.failed = r.failed
  BY <1>1, <1>2, KindTyped DEF Seeds
<1>12. r.kind = "reply" => s.doc = r.doc /\ s.parent = r.parent /\ s.author = r.author /\ s.body = r.body
  BY <1>1, <1>2, KindTyped DEF Replies
<1> QED BY <1>2, <1>3, <1>4, <1>5, <1>6, <1>7, <1>8, <1>9, <1>10, <1>11, <1>12

-----------------------------------------------------------------------------
(* Theorems *)

\* A step keeps TypesInv.
LEMMA NextTyped ==
  ASSUME TypesInv, [Next]_dvars
  PROVE  TypesInv'
<1>1. Typed(db) /\ Consistent(db) /\ RequestsProper /\ runbooks \in Seq(Alerts) /\ Shaped(db)
  BY TypedShaped DEF TypesInv
<1>2. Stands /\ Kept
  BY NextStands, NextKept
<1>3. Typed(db') /\ Consistent(db')
  <2>1. CASE db' = db
    BY <1>1, <2>1
  <2>2. CASE Consistent(db') /\ (PlacesWritten \/ TemplatesWritten \/ DocumentsWritten \/ DiscussionWritten)
    BY <1>1, <2>2, PlacesTyped, TemplatesTyped, DocumentsTyped, DiscussionTyped
  <2> QED BY <1>2, <2>1, <2>2 DEF Stands
<1>4. runbooks' \in Seq(Alerts)
  BY <1>1, RunbooksTyped
<1>5. /\ DOMAIN requests' = Clients
      /\ \/ \A q \in Clients : Left(q)
         \/ \E c \in Clients : Acts(c) /\ \A q \in Clients \ {c} : Left(q)
  BY <1>1, WhoActs DEF RequestsProper
<1>6. \A q \in Clients : Left(q) => Proper(requests'[q])
  BY <1>1, <1>3, LeftFields DEF RequestsProper
<1>7. ASSUME NEW c \in Clients, Acts(c) PROVE Proper(requests'[c])
  <2>1. CASE WorkspaceActs(c)
    BY <1>1, <2>1, WorkspaceProper DEF WorkspaceActs, Proper
  <2>2. CASE DiscussionActs(c)
    BY <1>1, <1>3, <2>2, DiscussionProper DEF DiscussionActs, Proper
  <2>3. CASE IntegrationActs(c)
    BY <1>1, <2>3, IntegrationProper DEF IntegrationActs, Proper
  <2>4. CASE SeedActs(c)
    BY <1>1, <2>4, SeedProper DEF Proper
  <2>5. CASE End(c)
    BY <1>1, <2>5, GoesOn DEF End, RequestsProper, Proper
  <2> QED BY <1>7, <2>1, <2>2, <2>3, <2>4, <2>5 DEF Acts
<1>8. \A q \in Clients : Proper(requests'[q])
  BY <1>5, <1>6, <1>7
<1>9. ASSUME NEW q \in Clients, requests'[q].kind = "reply", NEW parent, parent = requests'[q].parent
      PROVE  /\ parent \in 0 .. (db'.next.comments - 1)
             /\ parent \in DOMAIN db'.comments => db'.comments[parent].parent = None
  <2>1. "comments" \in Numbered /\ db.next.comments \in Nat /\ db'.next.comments \in Nat
        /\ DOMAIN db.comments \subseteq 0 .. (db.next.comments - 1)
    BY <1>1, <1>3 DEF Typed, Numbered, Id
  <2>2. CASE Left(q)
    <3>1. requests[q].kind = "reply" /\ requests[q].parent = parent
      BY <1>3, <1>9, <2>2, LeftKinds
    <3>2. /\ parent \in 0 .. (db.next.comments - 1)
          /\ parent \in DOMAIN db.comments => db.comments[parent].parent = None
      BY <3>1 DEF TypesInv, RepliesInv
    <3>3. /\ db.next.comments <= db'.next.comments
          /\ \A i \in DOMAIN db'.comments \ DOMAIN db.comments : db.next.comments <= i
      BY <1>1, <1>2, <2>1, NextLeaves DEF Grown
    <3>4. \A i \in (DOMAIN db.comments) \cap DOMAIN db'.comments : db'.comments[i].parent = db.comments[i].parent
      BY <1>2 DEF Kept, Follows, CommentsStayPut
    <3>5. parent \in DOMAIN db'.comments => parent \in DOMAIN db.comments
      BY <2>1, <3>2, <3>3
    <3> QED BY <2>1, <3>2, <3>3, <3>4, <3>5
  <2>3. CASE Acts(q)
    <3>1. Reply(q)
      BY <1>3, <1>9, <2>3, KindOfActs
    <3>2. parent \in DOMAIN db.comments /\ db.comments[parent].parent = None /\ db' = db
      BY <1>1, <1>9, <3>1, GoesOn DEF Reply, RequestsProper
    <3> QED BY <2>1, <3>2
  <2> QED BY <1>5, <2>2, <2>3
<1> QED BY <1>3, <1>4, <1>5, <1>8, <1>9 DEF TypesInv, RequestsProper, RepliesInv

\* At the start.
LEMMA InitTyped ==
  ASSUME Init
  PROVE  TypesInv
<1>1. PICK s \in Scenarios : db = s.db /\ runbooks = s.runbooks
  BY DEF Init
<1>2. RequestsProper
  BY DEF Init, RequestsProper, Proper
<1>3. RepliesInv
  BY DEF Init, RepliesInv, Idle
<1> QED BY <1>1, <1>2, <1>3, ScenarioAssumption, RunbooksAssumption DEF TypesInv

\* TypesInv holds throughout.
THEOREM TypesInvariant == Spec => []TypesInv
<1>1. Init => TypesInv
  BY InitTyped
<1>2. TypesInv /\ [Next]_dvars => TypesInv'
  BY NextTyped
<1> QED BY <1>1, <1>2, PTL DEF Spec

\* The tables are typed and meet the constraints of migrations/tenant, whatever requests,
\* imports and seeds write, each from what it has read at an earlier step.
THEOREM TablesAreSound == Spec => []TablesOK
<1>1. TypesInv => TablesOK
  BY DEF TypesInv, TablesOK
<1> QED BY <1>1, TypesInvariant, PTL

\* DataInv adds the threads.
DataInv == Typed(db) /\ Consistent(db) /\ Threaded(db)

\* With nothing but a comment's place to go by, threads stay as flat as they are.
LEMMA FollowsThreaded ==
  ASSUME NEW t, NEW u, Consistent(t), Threaded(t), Follows(t, u), Consistent(u)
  PROVE  Threaded(u)
<1> SUFFICES ASSUME NEW k \in DOMAIN u.comments, u.comments[k].parent # None
             PROVE  u.comments[u.comments[k].parent].parent = None /\ ~u.comments[k].resolved
  BY DEF Threaded
<1> PICK p : p = u.comments[k].parent
  OBVIOUS
<1>1. CommentsStayPut(t, u)
  BY DEF Follows
<1>2. p \in DOMAIN u.comments
  BY DEF Consistent, ReferencesResolve
<1>3. p \in DOMAIN t.comments => u.comments[p].parent = t.comments[p].parent
  BY <1>1, <1>2 DEF CommentsStayPut
<1>4. CASE k \in DOMAIN t.comments
  <2>1. t.comments[k].parent = p /\ u.comments[k].resolved = t.comments[k].resolved
    BY <1>1, <1>4 DEF CommentsStayPut
  <2>2. t.comments[p].parent = None /\ ~t.comments[k].resolved
    BY <1>4, <2>1 DEF Threaded
  <2>3. p \in DOMAIN t.comments
    BY <1>4, <2>1 DEF Consistent, ReferencesResolve
  <2> QED BY <1>3, <2>1, <2>2, <2>3
<1>5. CASE k \notin DOMAIN t.comments
  BY <1>1, <1>3, <1>5 DEF CommentsStayPut
<1> QED BY <1>4, <1>5

\* DataInv holds throughout, whatever requests, imports and seeds overlap or are cut short.
THEOREM DataInvariant == Spec => []DataInv
<1>1. Init => DataInv
  BY ScenarioAssumption, StartAssumption DEF Init, DataInv
<1>2. TypesInv /\ TypesInv' /\ DataInv /\ [Next]_dvars => DataInv'
  <2> SUFFICES ASSUME TypesInv, TypesInv', DataInv, [Next]_dvars PROVE DataInv'
    OBVIOUS
  <2>1. Typed(db') /\ Consistent(db')
    BY DEF TypesInv
  <2>2. Kept
    BY NextKept
  <2>3. CASE db' = db
    BY <2>3 DEF DataInv
  <2>4. CASE Consistent(db') /\ Follows(db, db')
    BY <2>1, <2>4, FollowsThreaded DEF DataInv
  <2> QED BY <2>2, <2>3, <2>4 DEF Kept
<1> QED BY <1>1, <1>2, TypesInvariant, PTL DEF Spec

\* Every document that is not archived is in the tree of exactly one space: that of its
\* collection, if it has one, and else its own.  Both exist, and no collection's id is NULL.
THEOREM NoDocumentIsLost == Spec => []ShownOnce
<1>1. DataInv => ShownOnce
  <2> SUFFICES ASSUME DataInv, NEW d \in Live(db)
               PROVE  \E s \in DOMAIN db.spaces :
                        /\ d \in Shown(db, s)
                        /\ \A other \in DOMAIN db.spaces \ {s} : d \notin Shown(db, other)
    BY DEF ShownOnce
  <2>1. None \notin DOMAIN db.collections
    BY NoneAssumption DEF DataInv, Typed, Numbered
  <2>2. /\ d \in DOMAIN db.documents
        /\ db.documents[d].space \in DOMAIN db.spaces
        /\ db.documents[d].collection \in DOMAIN db.collections \cup {None}
    BY DEF DataInv, Consistent, ReferencesResolve, Live
  <2>3. \A s : d \in Shown(db, s) <=>
          \/ /\ db.documents[d].collection \in DOMAIN db.collections
             /\ db.collections[db.documents[d].collection].space = s
          \/ db.documents[d].collection = None /\ db.documents[d].space = s
    BY DEF Shown, GetSpaceTree, GetUncollectedDocuments, ListCollectionsBySpace, OfSpace
  <2>4. CASE db.documents[d].collection = None
    BY <2>1, <2>2, <2>3, <2>4
  <2>5. CASE db.documents[d].collection \in DOMAIN db.collections
    <3>1. db.collections[db.documents[d].collection].space \in DOMAIN db.spaces
      BY <2>5 DEF DataInv, Consistent, ReferencesResolve
    <3> QED BY <2>1, <2>3, <2>5, <3>1
  <2> QED BY <2>2, <2>4, <2>5
<1> QED BY <1>1, DataInvariant, PTL

\* Every comment is in the list of a document, as a top-level comment or under one.
THEOREM NoCommentIsLost == Spec => []EveryCommentIsListed
<1>1. DataInv => EveryCommentIsListed
  <2> SUFFICES ASSUME DataInv, NEW k \in DOMAIN db.comments, NEW top,
                      top = IF db.comments[k].parent = None THEN k ELSE db.comments[k].parent
               PROVE  /\ \E d \in DOMAIN db.documents : top \in ListCommentsByDocument(db, d)
                      /\ k = top \/ (k \in ListCommentReplies(db, top) /\ ~db.comments[k].resolved)
    BY DEF EveryCommentIsListed
  <2>1. top \in DOMAIN db.comments
    BY DEF DataInv, Consistent, ReferencesResolve
  <2>2. db.comments[top].parent = None
    BY DEF DataInv, Threaded
  <2>3. db.comments[top].document \in DOMAIN db.documents
    BY <2>1 DEF DataInv, Consistent, ReferencesResolve
  <2>4. k = top \/ (db.comments[k].parent = top /\ ~db.comments[k].resolved)
    BY DEF DataInv, Threaded
  <2> QED BY <2>1, <2>2, <2>3, <2>4 DEF ListCommentsByDocument, ListCommentReplies
<1> QED BY <1>1, DataInvariant, PTL
=============================================================================
