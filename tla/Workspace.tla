----------------------------- MODULE Workspace -----------------------------
(***************************************************************************)
(* Spaces, collections, documents and templates: pkg/space,                *)
(* pkg/collection, pkg/document and pkg/template, and how web/ uses them.  *)
(* What a document says, and its versions, are DocumentHistory's.          *)
(*                                                                         *)
(* Where a request runs several statements whose order others can come     *)
(* between, each is a step.  A browser that writes what it has read before *)
(* is under way from its read on.                                          *)
(***************************************************************************)
EXTENDS TenantRequests

CONSTANT Sent  \* what clients send with a document: its type, status and alert id, or not

ASSUME SentAssumption ==
  Sent \subseteq [type : Types \cup {None}, status : Statuses \cup {None}, alert : Alerts \cup {None}]

-----------------------------------------------------------------------------
(* Spaces and collections *)

SpaceRequest(statement) == Request("spaces", statement)

SpaceCreate == \E name \in Names : SpaceRequest(CreateSpace(db, Slug(name)))
SpaceUpdate ==
  \E s \in DOMAIN db.spaces, name \in Names : SpaceRequest(UpdateSpace(db, s, Slug(name)))
SpaceDelete == \E s \in DOMAIN db.spaces : Request("deletions", DeleteSpace(db, s))
AddMember == \E s \in DOMAIN db.spaces, u \in Users : SpaceRequest(AddSpaceMember(db, s, u))
RemoveMember == \E m \in db.members : SpaceRequest(RemoveSpaceMember(db, m[1], m[2]))

SpaceStep ==
  (May("spaces") /\ (SpaceCreate \/ SpaceUpdate \/ AddMember \/ RemoveMember)) \/ SpaceDelete

CollectionRequest(statement) == Request("collections", statement)

CollectionCreate ==
  \E s \in DOMAIN db.spaces, name \in Names :
    CollectionRequest(CreateCollection(db, s, Slug(name)))
\* Any collection will do as the parent: itself, one below it, one of another space.
CollectionUpdate ==
  \E c \in DOMAIN db.collections, parent \in DOMAIN db.collections \cup {None}, name \in Names :
    CollectionRequest(UpdateCollection(db, c, Slug(name), parent))
CollectionDelete ==
  \E c \in DOMAIN db.collections : Request("deletions", DeleteCollection(db, c))

CollectionStep ==
  (May("collections") /\ (CollectionCreate \/ CollectionUpdate)) \/ CollectionDelete

-----------------------------------------------------------------------------
(* Templates *)

TemplateRequest(statement) == Request("templates", statement)

TemplateCreate ==
  \E s \in DOMAIN db.spaces \cup {None}, name \in Names, type \in Types, global \in BOOLEAN :
    TemplateRequest(CreateTemplate(db,
      [space |-> s, name |-> name, type |-> type, system |-> FALSE, global |-> global]))

\* The template is looked up first, and a system template refused.
TemplateUpdate ==
  \E p \in DOMAIN db.templates, name \in Names :
    ~db.templates[p].system /\ TemplateRequest(UpdateTemplate(db, p, name))
TemplateDelete ==
  \E p \in DOMAIN db.templates :
    ~db.templates[p].system /\ TemplateRequest(DeleteTemplate(db, p))

\* The document is read first; nothing it says then is checked when the template is written.
SaveDocumentAsTemplate ==
  \E d \in DOMAIN db.documents, s \in DOMAIN db.spaces \cup {None}, name \in Names, global \in BOOLEAN :
    TemplateRequest(CreateTemplate(db,
      [space |-> s, name |-> name, type |-> db.documents[d].type, system |-> FALSE, global |-> global]))

TemplateStep ==
  May("templates") /\ (TemplateCreate \/ TemplateUpdate \/ TemplateDelete \/ SaveDocumentAsTemplate)

-----------------------------------------------------------------------------
(* Documents: creation, deletion, and a client's read and write *)

\* No handler asks whose space the collection is that a document is to be filed in.
AnyCollection == DOMAIN db.collections \cup {None}

Given(value, else) == IF value = None THEN else ELSE value

\* A template whose type is taken is as if the client had sent that type.
Create ==
  \E s \in DOMAIN db.spaces, place \in AnyCollection, name \in Names, sent \in Sent :
    Request("documents", CreateDocument(db,
      [space |-> s, collection |-> place, slug |-> Slug(name), alert |-> sent.alert,
       type |-> Given(sent.type, "document"), status |-> Given(sent.status, "draft")]))

Delete == \E d \in DOMAIN db.documents : Request("deletions", DeleteDocument(db, d))

\* GET of a document, by whom will write it: the editor, the sidebar when something is dropped.
Get(c) ==
  \E d \in DOMAIN db.documents :
    Begin(c, "edits", [kind |-> "edit", doc |-> d, space |-> db.documents[d].space,
                       slug |-> db.documents[d].slug, news |-> {}])

\* PUT: the slug as it was read, or another; whatever is left out is emptied, but for the type
\* and the status.  That the version snapshot before it goes wrong is End.
Update(c) ==
  /\ requests[c].kind = "edit"
  /\ requests[c].doc \in DOMAIN db.documents
  /\ \E place \in AnyCollection, slug \in {requests[c].slug} \cup {Slug(name) : name \in Names}, sent \in Sent :
       LET d == requests[c].doc
           new == [db.documents[d] EXCEPT
                     !.slug = slug, !.collection = place, !.alert = sent.alert,
                     !.type = Given(sent.type, @), !.status = Given(sent.status, @)]
       IN Execute(c, UpdateDocument(db, d, new), Idle, Idle)
  /\ UNCHANGED quota

-----------------------------------------------------------------------------
(* Documents: Move, statement by statement *)

\* GetByID.
MoveGet(c) ==
  \E d \in DOMAIN db.documents, to \in DOMAIN db.spaces, place \in AnyCollection :
    Begin(c, "moves", [kind |-> "move", pc |-> "check", doc |-> d, from |-> db.documents[d].space,
                       slug |-> db.documents[d].slug, to |-> to, place |-> place, tries |-> 0,
                       news |-> {}])

Candidate(r) == Suffixed(r.slug, r.tries)

\* Mutant: the slugs of the space that the document leaves are looked at.
CheckSlugWhereItIs(c) ==
  /\ requests[c].kind = "move" /\ requests[c].pc = "check"
  /\ Go(c, IF SlugExistsInSpace(db, requests[c].from, Candidate(requests[c]))
             THEN [requests[c] EXCEPT !.tries = @ + 1]
             ELSE [requests[c] EXCEPT !.pc = "write"])
  /\ UNCHANGED quota

\* One round of the loop.  The document itself counts: within its space it is renamed.
CheckSlug(c) ==
  /\ requests[c].kind = "move" /\ requests[c].pc = "check"
  /\ Go(c, IF SlugExistsInSpace(db, requests[c].to, Candidate(requests[c]))
             THEN [requests[c] EXCEPT !.tries = @ + 1]
             ELSE [requests[c] EXCEPT !.pc = "write"])
  /\ UNCHANGED quota

\* The UPDATE, and the read of what it left, which answers 404 when the document is gone.
MoveWrite(c) ==
  LET r == requests[c] IN
  /\ r.kind = "move" /\ r.pc = "write"
  /\ Execute(c, MoveToSpace(db, r.doc, r.to, r.place, Candidate(r)),
             [r EXCEPT !.pc = IF r.doc \in DOMAIN db.documents THEN "moved" ELSE "refused"],
             [r EXCEPT !.pc = "refused"])
  /\ UNCHANGED quota

-----------------------------------------------------------------------------
(* Reads of two statements, and of several pages *)

\* GetTree: the documents of the collections, then those without one.
TreeCollections(c) ==
  \E s \in DOMAIN db.spaces :
    Begin(c, "reads", [kind |-> "tree", pc |-> "half", space |-> s, filed |-> GetSpaceTree(db, s),
                       loose |-> {}, news |-> {}])

TreeDocuments(c) ==
  /\ requests[c].kind = "tree" /\ requests[c].pc = "half"
  /\ Go(c, [requests[c] EXCEPT !.pc = "done",
                               !.loose = GetUncollectedDocuments(db, requests[c].space)])
  /\ UNCHANGED quota

\* Service.List: the total, then the rows of a page.
ListCount(c) ==
  \E offset \in PageOffsets :
    Begin(c, "reads", [kind |-> "list", pc |-> "half", of |-> "documents", offset |-> offset,
                       total |-> CountDocuments(db), rows |-> {}, news |-> {}])

ListRows(c) ==
  /\ requests[c].kind = "list" /\ requests[c].pc = "half" /\ requests[c].of = "documents"
  /\ \E page \in ListDocuments(db, PageLimit, requests[c].offset) :
       Go(c, [requests[c] EXCEPT !.pc = "done", !.rows = page])
  /\ UNCHANGED quota

\* How documents may match a query: some of them do, each with a rank.
Rankings == UNION {[ds -> 1 .. Cardinality(ds)] : ds \in SUBSET DOMAIN db.documents}

\* A query, in a space when one is given, else among a type when one is given, else everywhere.
SearchBegin(c) ==
  MayBegin(c, "searches") /\
  \E exact, similar \in Rankings, in \in {"space", "type", "all"} :
    \E where \in CASE in = "space" -> DOMAIN db.spaces [] in = "type" -> Types [] in = "all" -> {None} :
      Begin(c, "searches", [kind |-> "search", pc |-> "more", exact |-> exact, similar |-> similar,
                            in |-> in, where |-> where, offset |-> 0, found |-> {}, news |-> {}])

SearchResults(r) ==
  CASE r.in = "space" -> SearchDocumentsBySpace(db, r.exact, r.similar, r.where, PageLimit, r.offset)
    [] r.in = "type"  -> SearchDocumentsByType(db, r.exact, r.similar, r.where, PageLimit, r.offset)
    [] r.in = "all"   -> SearchDocuments(db, r.exact, r.similar, PageLimit, r.offset)

\* The next page, until one is empty.
SearchNext(c) ==
  /\ requests[c].kind = "search" /\ requests[c].pc = "more"
  /\ \E page \in SearchResults(requests[c]) :
       Go(c, [requests[c] EXCEPT !.found = @ \cup page, !.offset = @ + PageLimit,
                                 !.pc = IF page = {} THEN "done" ELSE "more"])
  /\ UNCHANGED quota

DocumentStep ==
  \/ May("documents") /\ Create
  \/ Delete
  \/ \E c \in Clients :
       \/ Get(c) \/ Update(c)
       \/ MoveGet(c) \/ CheckSlug(c) \/ MoveWrite(c)
       \/ TreeCollections(c) \/ TreeDocuments(c)
       \/ ListCount(c) \/ ListRows(c)
       \/ SearchBegin(c) \/ SearchNext(c)

WorkspaceStep == SpaceStep \/ CollectionStep \/ TemplateStep \/ DocumentStep

-----------------------------------------------------------------------------
(* Properties *)

Shown(t, s) == GetSpaceTree(t, s) \cup GetUncollectedDocuments(t, s)

\* No document gets lost: whatever is moved, filed, deleted and renamed, each document that
\* is not archived is in the tree of exactly one space (search.sql.go, GetSpaceTree and
\* GetUncollectedDocuments), though it need not be the space it belongs to.
ShownOnce ==
  \A d \in Live(db) : \E s \in DOMAIN db.spaces :
    /\ d \in Shown(db, s)
    /\ \A other \in DOMAIN db.spaces \ {s} : d \notin Shown(db, other)

\* A tree is read in two statements (Service.GetTree); a document that is not written in
\* between is in it exactly once if it belongs there, and else not at all.
TreesShowTheUntouched ==
  \A c \in Clients : requests[c].kind = "tree" /\ requests[c].pc = "done" =>
    LET r == requests[c] IN
    /\ (r.filed \cup r.loose) \ r.news = Shown(db, r.space) \ r.news
    /\ r.filed \cap r.loose \subseteq r.news

\* The total tells how many rows each page has, unless documents were written in between
\* (Service.List; ListRunbooks of the integration).
TotalsMatchLists ==
  \A c \in Clients : requests[c].kind = "list" /\ requests[c].pc = "done" =>
    \/ requests[c].news # {}
    \/ Cardinality(requests[c].rows) = PageSize(requests[c].total, PageLimit, requests[c].offset)

\* Paging through a search to its end finds every document that matches exactly, unless
\* something was written meanwhile, or another match has the same rank: the order of two such
\* may change from page to page, which skips one of them (SearchDocuments and its variants).
PagingFindsExactMatches ==
  \A c \in Clients : requests[c].kind = "search" /\ requests[c].pc = "done" =>
    LET r == requests[c]
        eligible == CASE r.in = "space" -> OfSpace(db, r.where) [] r.in = "type" -> OfType(db, r.where)
                      [] r.in = "all" -> Live(db)
        matches == (DOMAIN r.exact) \cap eligible
    IN \/ r.news # {}
       \/ \A d \in matches : (\A e \in matches \ {d} : r.exact[e] # r.exact[d]) => d \in r.found

\* What reads of several statements may be relied on for.
ReadsAreWhole == TreesShowTheUntouched /\ TotalsMatchLists /\ PagingFindsExactMatches

\* "Handles slug collisions by appending -1, -2, etc." (Service.Move): a move that nothing
\* came between succeeds, and gives the first of these slugs that was free.
QuietMoves ==
  \A c \in Clients : requests[c].kind = "move" =>
    LET r == requests[c]
        mine == [space |-> r.to, collection |-> r.place, slug |-> Candidate(r)]
    IN /\ r.pc = "refused" => r.news # {}
       /\ r.pc = "moved" /\ r.news = {} =>
            /\ \A f \in DOMAIN mine : db.documents[r.doc][f] = mine[f]
            /\ \A i \in 0 .. r.tries - 1 :
                 SlugExistsInSpace(db, r.to, Suffixed(r.slug, i)) \/ (i = 0 /\ r.from = r.to)

\* A document whose collection is of another space is shown in the other space's tree only.
Stray(t, d) ==
  /\ t.documents[d].collection # None
  /\ t.collections[t.documents[d].collection].space # t.documents[d].space

\* Where a document of space s is no stray.
Places(t, s) == ListCollectionsBySpace(t, s) \cup {None}

\* No foreign key says that a document and its collection are of one space, and no handler
\* asks.  A document becomes a stray only because its client named such a place when it was
\* created, when it was moved (another collection than one of the space it was moved to) or
\* when it was edited (one of the space the client had read it in), or because somebody filed
\* it by what he had read before another wrote it.  Moving to a space takes it out of the
\* collection it is in, and no import, seed, post-mortem or deletion leaves a stray.
StraysHaveACause ==
  [][\A d \in DOMAIN db'.documents :
       Stray(db', d) /\ ~(d \in DOMAIN db.documents /\ Stray(db, d)) =>
         \/ d \notin DOMAIN db.documents /\ Spend("documents")
         \/ \E c \in Clients :
              LET r == requests[c] IN
              /\ requests'[c] # r
              /\ \/ r.kind = "move" /\ r.doc = d /\ r.place \notin Places(db, r.to)
                 \/ r.kind = "edit" /\ r.doc = d /\ db'.documents[d].collection \notin Places(db, r.space)
                 \/ r.kind \in {"edit", "seed"} /\ r.doc = d /\ d \in r.news]_<<db, requests, quota>>
=============================================================================
