---------------------------- MODULE TenantTables ----------------------------
(***************************************************************************)
(* The tables of one tenant's schema that hold its texts and what is said  *)
(* about them, and the SQL statements of internal/db/tenant on them.  A    *)
(* statement is an operator from the tables it finds to those it leaves,   *)
(* or to the ids it returns; it is one step.                               *)
(*                                                                         *)
(* A statement that would leave tables that are not Consistent fails and   *)
(* changes nothing: that is how the UNIQUE and REFERENCES constraints of   *)
(* migrations/tenant enter.  What refers with ON DELETE CASCADE is in      *)
(* Cascade; everything else that refers to a row keeps it from being       *)
(* deleted.                                                                *)
(*                                                                         *)
(* Of a row there is what statements look at.  Bodies of documents and     *)
(* templates, their versions, Yjs state and images are not here.           *)
(***************************************************************************)
EXTENDS Naturals, Sequences, Functions, FiniteSets

CONSTANTS
  Users,  \* the rows of users, which nothing deletes
  Names,  \* what slugs and names are made of
  Alerts, \* ids of NightOwl runbooks
  None,   \* NULL
  Words,  \* what mentionRe matches behind an @: letters, digits, dots, dashes
  Email,    \* Email[u]: the words of the address of u, which are separated by @
  Mentions  \* what texts say behind an @: words separated by @, as a whole address is

ASSUME NoneAssumption == None \notin Nat \cup Users \cup Alerts
ASSUME MailAssumption == Email \in [Users -> Seq(Words)] /\ Mentions \subseteq Seq(Words)

-----------------------------------------------------------------------------
(* Tables *)

\* A slug is a name, and the numbers that Move has appended to it.
Slugs == Names \X Seq(Nat)
Slug(name) == <<name, << >>>>
Suffixed(slug, i) == IF i = 0 THEN slug ELSE <<slug[1], Append(slug[2], i)>>

Types == {"document", "runbook", "post-mortem"}
Statuses == {"draft", "published", "archived"}
NoticeKinds == {"comment_reply", "comment_mention"}

\* Ids come from gen_random_uuid: numbers, none of them twice in a table.
Id == Nat
IdOrNull == Id \cup {None}

Space == [slug : Slugs]
Collection == [space : Id, slug : Slugs, parent : IdOrNull]
Document == [space : Id, collection : IdOrNull, slug : Slugs, type : Types,
             status : Statuses, alert : Alerts \cup {None}]
Template == [space : IdOrNull, name : Names, type : Types, system : BOOLEAN, global : BOOLEAN]
\* body: what the text says behind @.  aged: it is more than 15 minutes old.  posted, for
\* the properties only: the body as it was created.
Comment == [document : Id, parent : IdOrNull, author : Users, body : SUBSET Mentions, aged : BOOLEAN,
            posted : SUBSET Mentions, deleted : BOOLEAN, resolved : BOOLEAN]
Notice == [user : Users, kind : NoticeKinds, document : Id, comment : Id,
           actor : Users, read : BOOLEAN]

Numbered == {"spaces", "collections", "documents", "templates", "comments", "notices"}

\* The id that the next row of a table gets is in next.
Typed(t) ==
  /\ DOMAIN t = Numbered \cup {"members", "next"}
  /\ t.next \in [Numbered -> Id]
  /\ \A table \in Numbered : DOMAIN t[table] \subseteq 0 .. (t.next[table] - 1)
  /\ \A s \in DOMAIN t.spaces : t.spaces[s] \in Space
  /\ \A c \in DOMAIN t.collections : t.collections[c] \in Collection
  /\ \A d \in DOMAIN t.documents : t.documents[d] \in Document
  /\ \A p \in DOMAIN t.templates : t.templates[p] \in Template
  /\ \A k \in DOMAIN t.comments : t.comments[k] \in Comment
  /\ \A n \in DOMAIN t.notices : t.notices[n] \in Notice
  /\ t.members \subseteq Id \X Users

Put(table, id, row) == [i \in DOMAIN table \cup {id} |-> IF i = id THEN row ELSE table[i]]
Without(table, ids) == Restrict(table, DOMAIN table \ ids)

\* INSERT ... RETURNING: the new row's id is t.next[table].
Insert(t, table, row) ==
  [t EXCEPT ![table] = Put(@, t.next[table], row), !.next[table] = @ + 1]

-----------------------------------------------------------------------------
(* Constraints *)

\* UNIQUE(slug), UNIQUE(space_id, slug) of collections and of documents.
SlugsUnique(t) ==
  /\ \A s1, s2 \in DOMAIN t.spaces : t.spaces[s1].slug = t.spaces[s2].slug => s1 = s2
  /\ \A table \in {"collections", "documents"} : \A i, j \in DOMAIN t[table] :
       t[table][i].space = t[table][j].space /\ t[table][i].slug = t[table][j].slug => i = j

ReferencesResolve(t) ==
  /\ \A c \in DOMAIN t.collections :
       /\ t.collections[c].space \in DOMAIN t.spaces
       /\ t.collections[c].parent \in DOMAIN t.collections \cup {None}
  /\ \A d \in DOMAIN t.documents :
       /\ t.documents[d].space \in DOMAIN t.spaces
       /\ t.documents[d].collection \in DOMAIN t.collections \cup {None}
  /\ \A p \in DOMAIN t.templates : t.templates[p].space \in DOMAIN t.spaces \cup {None}
  /\ t.members \subseteq (DOMAIN t.spaces) \X Users
  /\ \A k \in DOMAIN t.comments :
       /\ t.comments[k].document \in DOMAIN t.documents
       /\ t.comments[k].parent \in DOMAIN t.comments \cup {None}
  /\ \A n \in DOMAIN t.notices :
       /\ t.notices[n].document \in DOMAIN t.documents
       /\ t.notices[n].comment \in DOMAIN t.comments

Consistent(t) == SlugsUnique(t) /\ ReferencesResolve(t)

\* Deleting spaces and documents takes along what refers to them ON DELETE CASCADE.
Cascade(t, spaces, documents) ==
  LET gone == documents \cup {d \in DOMAIN t.documents : t.documents[d].space \in spaces}
      said == {k \in DOMAIN t.comments : t.comments[k].document \in gone}
  IN [t EXCEPT
       !.spaces = Without(@, spaces),
       !.collections = Without(@, {c \in DOMAIN @ : @[c].space \in spaces}),
       !.templates = Without(@, {p \in DOMAIN @ : @[p].space \in spaces}),
       !.members = {m \in @ : m[1] \notin spaces},
       !.documents = Without(@, gone),
       !.comments = Without(@, said \cup {k \in DOMAIN @ : @[k].parent \in said})]

-----------------------------------------------------------------------------
(* spaces, space_members, collections *)

CreateSpace(t, slug) == Insert(t, "spaces", [slug |-> slug])
GetSpaceBySlug(t, slug) == {s \in DOMAIN t.spaces : t.spaces[s].slug = slug}
UpdateSpace(t, s, slug) == [t EXCEPT !.spaces[s].slug = slug]
DeleteSpace(t, s) == Cascade(t, {s}, {})

\* ON CONFLICT DO UPDATE SET role: adding a member again is no error.
AddSpaceMember(t, s, u) == [t EXCEPT !.members = @ \cup {<<s, u>>}]
RemoveSpaceMember(t, s, u) == [t EXCEPT !.members = @ \ {<<s, u>>}]
ListSpaceMembers(t, s) == {m[2] : m \in {n \in t.members : n[1] = s}}

CreateCollection(t, s, slug) ==
  Insert(t, "collections", [space |-> s, slug |-> slug, parent |-> None])
ListCollectionsBySpace(t, s) == {c \in DOMAIN t.collections : t.collections[c].space = s}
UpdateCollection(t, c, slug, parent) ==
  [t EXCEPT !.collections[c].slug = slug, !.collections[c].parent = parent]
DeleteCollection(t, c) == [t EXCEPT !.collections = Without(@, {c})]

-----------------------------------------------------------------------------
(* templates *)

CreateTemplate(t, row) == Insert(t, "templates", row)

\* Both writers spare the system templates.
UpdateTemplate(t, p, name) ==
  [t EXCEPT !.templates =
    [q \in DOMAIN @ |-> IF q = p /\ ~@[q].system THEN [@[q] EXCEPT !.name = name] ELSE @[q]]]
DeleteTemplate(t, p) ==
  [t EXCEPT !.templates = Without(@, {q \in (DOMAIN @) \cap {p} : ~@[q].system})]

GetSystemTemplateByName(t, name) ==
  {p \in DOMAIN t.templates : t.templates[p].system /\ t.templates[p].name = name}

-----------------------------------------------------------------------------
(* comments *)

CreateComment(t, d, parent, author, body) ==
  Insert(t, "comments", [document |-> d, parent |-> parent, author |-> author, body |-> body, aged |-> FALSE,
                         posted |-> body, deleted |-> FALSE, resolved |-> FALSE])
UpdateCommentBody(t, k, body) == [t EXCEPT !.comments[k].body = body]
\* The body becomes [deleted], which mentions nobody.
SoftDeleteComment(t, k) ==
  [t EXCEPT !.comments[k] = [@ EXCEPT !.deleted = TRUE, !.body = {}]]
ResolveComment(t, k) == [t EXCEPT !.comments[k].resolved = TRUE]
UnresolveComment(t, k) == [t EXCEPT !.comments[k].resolved = FALSE]
ListCommentsByDocument(t, d) ==
  {k \in DOMAIN t.comments : t.comments[k].document = d /\ t.comments[k].parent = None}
ListCommentReplies(t, k) == {r \in DOMAIN t.comments : t.comments[r].parent = k}

-----------------------------------------------------------------------------
(* notifications, and whom to notify *)

\* The users whose address is one of words: email = ANY($1) compares whole addresses.
GetUsersByEmails(words) == {u \in Users : \E word \in words : Email[u] = <<word>>}

CreateNotification(t, row) == Insert(t, "notices", row)
ListNotifications(t, u) == {n \in DOMAIN t.notices : t.notices[n].user = u}
MarkNotificationRead(t, n, u) ==
  [t EXCEPT !.notices =
    [m \in DOMAIN @ |-> IF m = n /\ @[m].user = u THEN [@[m] EXCEPT !.read = TRUE] ELSE @[m]]]
MarkAllNotificationsRead(t, u) ==
  [t EXCEPT !.notices =
    [m \in DOMAIN @ |-> IF @[m].user = u THEN [@[m] EXCEPT !.read = TRUE] ELSE @[m]]]

-----------------------------------------------------------------------------
(* documents *)

CreateDocument(t, row) == Insert(t, "documents", row)

\* Every column a PUT carries; the type and status are those Service.Update has resolved.
UpdateDocument(t, d, new) ==
  [t EXCEPT !.documents[d] = [new EXCEPT !.space = t.documents[d].space]]

\* Mutant: the document stays in its collection.
MoveToSpaceOnly(t, d, s, c, slug) ==
  IF d \in DOMAIN t.documents
    THEN [t EXCEPT !.documents[d] = [@ EXCEPT !.space = s, !.slug = slug]]
    ELSE t

\* UPDATE by id, which may match no row.
MoveToSpace(t, d, s, c, slug) ==
  IF d \in DOMAIN t.documents
    THEN [t EXCEPT !.documents[d] = [@ EXCEPT !.space = s, !.collection = c, !.slug = slug]]
    ELSE t

MoveDocumentToCollection(t, d, c) ==
  IF d \in DOMAIN t.documents THEN [t EXCEPT !.documents[d].collection = c] ELSE t

DeleteDocument(t, d) == Cascade(t, {}, {d})

GetDocumentBySlug(t, s, slug) ==
  {d \in DOMAIN t.documents : t.documents[d].space = s /\ t.documents[d].slug = slug}
SlugExistsInSpace(t, s, slug) == GetDocumentBySlug(t, s, slug) # {}
GetDocumentByNightOwlAlertID(t, a) == {d \in DOMAIN t.documents : t.documents[d].alert = a}

Live(t) == {d \in DOMAIN t.documents : t.documents[d].status # "archived"}
OfSpace(t, s) == {d \in Live(t) : t.documents[d].space = s}
OfType(t, type) == {d \in Live(t) : t.documents[d].type = type}

\* How many of n rows LIMIT limit OFFSET offset leaves.
PageSize(n, limit, offset) ==
  IF n <= offset THEN 0 ELSE IF n - offset < limit THEN n - offset ELSE limit

\* ORDER BY rank DESC LIMIT limit OFFSET offset: the sets of rows it may return.  There is
\* no tie-breaker, so rows of the same rank come in any order, and in another on the next page.
Pages(rank, rows, limit, offset) ==
  {page \in SUBSET rows :
    /\ Cardinality(page) = PageSize(Cardinality(rows), limit, offset)
    /\ page # {} => \E before \in SUBSET (rows \ page) :
         /\ Cardinality(before) = offset
         /\ \A d \in before, e \in rows \ before : rank[d] >= rank[e]
         /\ \A d \in page, e \in rows \ (before \cup page) : rank[d] >= rank[e]}

\* Rows come in the order of columns that are not here.
Unranked(rows) == [d \in rows |-> 0]

\* Mutant: archived documents are counted.
CountAllDocuments(t) == Cardinality(DOMAIN t.documents)

CountDocuments(t) == Cardinality(Live(t))
ListDocuments(t, limit, offset) == Pages(Unranked(Live(t)), Live(t), limit, offset)

PublishedRunbooks(t) ==
  {d \in DOMAIN t.documents : t.documents[d].type = "runbook" /\ t.documents[d].status = "published"}
\* The joins with spaces, which every document has.
WithSpace(t, ds) == {d \in ds : t.documents[d].space \in DOMAIN t.spaces}

CountRunbooks(t) == Cardinality(PublishedRunbooks(t))
ListRunbooksWithSpace(t, limit, offset) ==
  LET rows == WithSpace(t, PublishedRunbooks(t)) IN Pages(Unranked(rows), rows, limit, offset)
GetRunbookWithSpace(t, d) ==
  WithSpace(t, {e \in (DOMAIN t.documents) \cap {d} : t.documents[e].type = "runbook"})

\* Mutant: only documents of the space itself.
GetSpaceTreeOfOwn(t, s) ==
  {d \in OfSpace(t, s) : t.documents[d].collection \in ListCollectionsBySpace(t, s)}

\* What the tree of a space shows: its collections' documents, and its documents without a
\* collection.  The join looks at collections.space_id, not at documents.space_id.
GetSpaceTree(t, s) ==
  {d \in Live(t) : t.documents[d].collection \in ListCollectionsBySpace(t, s)}
GetUncollectedDocuments(t, s) == {d \in OfSpace(t, s) : t.documents[d].collection = None}

\* One page of a search, by the ranks of the documents that match the query exactly and of
\* those that are similar to it, among those that eligible leaves: a page of the exact
\* matches, and one of the similar ones without those that are on this page already.
SearchPages(exact, similar, eligible, limit, offset) ==
  UNION {{fts \cup fuzzy : fuzzy \in Pages(similar, ((DOMAIN similar) \cap eligible) \ fts, limit, offset)} :
           fts \in Pages(exact, (DOMAIN exact) \cap eligible, limit, offset)}

SearchDocuments(t, exact, similar, limit, offset) ==
  SearchPages(exact, similar, Live(t), limit, offset)
SearchDocumentsBySpace(t, exact, similar, s, limit, offset) ==
  SearchPages(exact, similar, OfSpace(t, s), limit, offset)
SearchDocumentsByType(t, exact, similar, type, limit, offset) ==
  SearchPages(exact, similar, OfType(t, type), limit, offset)
\* For NightOwl: published runbooks, exact matches only.
SearchRunbooks(t, exact, limit, offset) ==
  Pages(exact, (DOMAIN exact) \cap WithSpace(t, PublishedRunbooks(t)), limit, offset)
=============================================================================
