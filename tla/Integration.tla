----------------------------- MODULE Integration -----------------------------
(***************************************************************************)
(* What NightOwl has to do with a tenant's documents: the endpoints it     *)
(* calls (internal/integration) and the command that imports its runbooks  *)
(* (internal/migrate).  Both write to the tables beside the document       *)
(* service, statement by statement, and neither takes back what it has     *)
(* done when a later statement fails.                                      *)
(*                                                                         *)
(* NightOwl itself is external: a list of runbooks, which it serves in     *)
(* pages and which may change between two of them.                         *)
(***************************************************************************)
EXTENDS TenantRequests

CONSTANTS
  Title,      \* Title[a]: the slug made from the title of runbook a
  BatchLimit  \* runbooks in a page (50)

ASSUME TitleAssumption == Title \in [Alerts -> Names]
ASSUME BatchAssumption == BatchLimit \in Nat \ {0}

VARIABLE runbooks  \* NightOwl's list of runbooks, in the order of its pages

-----------------------------------------------------------------------------
(* NightOwl *)

\* Somebody adds a runbook, anywhere in the order, or removes one.  For the properties,
\* imports under way take note.
NightOwlChanges ==
  /\ Spend("nightowl")
  /\ \/ \E a \in Alerts \ Range(runbooks), i \in 0 .. Len(runbooks) :
          runbooks' = SubSeq(runbooks, 1, i) \o <<a>> \o SubSeq(runbooks, i + 1, Len(runbooks))
     \/ \E i \in DOMAIN runbooks :
          runbooks' = SubSeq(runbooks, 1, i - 1) \o SubSeq(runbooks, i + 1, Len(runbooks))
  /\ requests' = [c \in Clients |->
       IF requests[c].kind = "import" THEN [requests[c] EXCEPT !.changed = TRUE] ELSE requests[c]]
  /\ UNCHANGED db

-----------------------------------------------------------------------------
(* CreatePostMortem: the space, made if need be, and the document *)

PostMortemBegin(c) ==
  \E into, name \in Names :
    \E s \in IF GetSpaceBySlug(db, Slug(into)) = {} THEN {None} ELSE GetSpaceBySlug(db, Slug(into)) :
      Begin(c, "postmortems", [kind |-> "postmortem", pc |-> IF s = None THEN "space" ELSE "document",
                               into |-> into, name |-> name, space |-> s, news |-> {}])

PostMortemSpace(c) ==
  LET r == requests[c] IN
  /\ r.kind = "postmortem" /\ r.pc = "space"
  /\ Execute(c, CreateSpace(db, Slug(r.into)),
             [r EXCEPT !.pc = "document", !.space = db.next.spaces], [r EXCEPT !.pc = "refused"])
  /\ UNCHANGED quota

\* The slug is made from the title; the incident is not asked after.
PostMortemDocument(c) ==
  LET r == requests[c] IN
  /\ r.kind = "postmortem" /\ r.pc = "document"
  /\ Execute(c, CreateDocument(db, [space |-> r.space, collection |-> None, slug |-> Slug(r.name),
                                    type |-> "post-mortem", status |-> "published", alert |-> None]),
             [r EXCEPT !.pc = "created"], [r EXCEPT !.pc = "refused"])
  /\ UNCHANGED quota

-----------------------------------------------------------------------------
(* ListRunbooks: the total, then the rows *)

RunbooksCount(c) ==
  \E offset \in PageOffsets :
    Begin(c, "reads", [kind |-> "list", pc |-> "half", of |-> "runbooks", offset |-> offset,
                       total |-> CountRunbooks(db), rows |-> {}, news |-> {}])

RunbooksRows(c) ==
  /\ requests[c].kind = "list" /\ requests[c].pc = "half" /\ requests[c].of = "runbooks"
  /\ \E page \in ListRunbooksWithSpace(db, PageLimit, requests[c].offset) :
       Go(c, [requests[c] EXCEPT !.pc = "done", !.rows = page])
  /\ UNCHANGED quota

-----------------------------------------------------------------------------
(* RunRunbookMigration *)

\* The command is started by hand, with a target space and perhaps a target collection.
ImportBegin(c) ==
  \E into \in Names, filing \in Names \cup {None} :
    \E s \in IF GetSpaceBySlug(db, Slug(into)) = {} THEN {None} ELSE GetSpaceBySlug(db, Slug(into)) :
      Begin(c, "imports",
        [kind |-> "import", pc |-> IF s = None THEN "space" ELSE "collection", into |-> into,
         filing |-> filing, space |-> s, collection |-> None, offset |-> 0, total |-> 0,
         page |-> << >>, imported |-> {}, skipped |-> {}, failed |-> {}, changed |-> FALSE,
         news |-> {}])

ImportSpace(c) ==
  LET r == requests[c] IN
  /\ r.kind = "import" /\ r.pc = "space"
  /\ Execute(c, CreateSpace(db, Slug(r.into)),
             [r EXCEPT !.pc = "collection", !.space = db.next.spaces], Idle)
  /\ UNCHANGED quota

\* A collection of that slug that is there already is not found again: what is imported then
\* goes into none.
ImportCollection(c) ==
  LET r == requests[c]
      filed == CreateCollection(db, r.space, Slug(r.filing))
  IN /\ r.kind = "import" /\ r.pc = "collection"
     /\ IF r.filing = None
          THEN Go(c, [r EXCEPT !.pc = "fetch"])
          ELSE Execute(c, filed,
                 [r EXCEPT !.pc = "fetch", !.collection = db.next.collections],
                 IF SlugsUnique(filed) THEN Idle ELSE [r EXCEPT !.pc = "fetch"])
     /\ UNCHANGED quota

\* Where the page of NightOwl's list ends that begins behind offset.
LastOfPage(offset) ==
  IF offset + BatchLimit < Len(runbooks) THEN offset + BatchLimit ELSE Len(runbooks)

ImportFetch(c) ==
  LET r == requests[c] IN
  /\ r.kind = "import" /\ r.pc = "fetch"
  /\ Go(c, [r EXCEPT !.pc = "look", !.total = Len(runbooks),
                     !.page = SubSeq(runbooks, r.offset + 1, LastOfPage(r.offset))])
  /\ UNCHANGED quota

\* Mutant: every runbook is created, known or not.
ImportLookForNone(c) ==
  LET r == requests[c] IN
  /\ r.kind = "import" /\ r.pc = "look" /\ r.page # << >>
  /\ Go(c, [r EXCEPT !.pc = "create"])
  /\ UNCHANGED quota

\* The next runbook of the page: is there a document with its id?
ImportLook(c) ==
  LET r == requests[c] IN
  /\ r.kind = "import" /\ r.pc = "look" /\ r.page # << >>
  /\ Go(c, IF GetDocumentByNightOwlAlertID(db, Head(r.page)) # {}
             THEN [r EXCEPT !.page = Tail(@), !.skipped = @ \cup {Head(r.page)}]
             ELSE [r EXCEPT !.pc = "create"])
  /\ UNCHANGED quota

\* There is none; a refused row is counted, and the next runbook's turn comes.
ImportCreate(c) ==
  LET r == requests[c]
      a == Head(r.page)
      rest == [r EXCEPT !.pc = "look", !.page = Tail(@)]
  IN /\ r.kind = "import" /\ r.pc = "create"
     /\ Execute(c, CreateDocument(db, [space |-> r.space, collection |-> r.collection,
                     slug |-> Slug(Title[a]), type |-> "runbook", status |-> "published", alert |-> a]),
                [rest EXCEPT !.imported = @ \cup {db.next.documents}],
                [rest EXCEPT !.failed = @ \cup {a}])
     /\ UNCHANGED quota

\* Mutant: the next page begins behind the first runbook of the one after it.
ImportPageSkipsOne(c) ==
  LET r == requests[c]
      offset == r.offset + BatchLimit + 1
  IN /\ r.kind = "import" /\ r.pc = "look" /\ r.page = << >>
     /\ Go(c, [r EXCEPT !.offset = offset, !.pc = IF offset >= r.total THEN "done" ELSE "fetch"])
     /\ UNCHANGED quota

\* The page is through.
ImportPage(c) ==
  LET r == requests[c]
      offset == r.offset + BatchLimit
  IN /\ r.kind = "import" /\ r.pc = "look" /\ r.page = << >>
     /\ Go(c, [r EXCEPT !.offset = offset, !.pc = IF offset >= r.total THEN "done" ELSE "fetch"])
     /\ UNCHANGED quota

PostMortemStep ==
  \E c \in Clients : PostMortemBegin(c) \/ PostMortemSpace(c) \/ PostMortemDocument(c)

ImportStep ==
  \E c \in Clients :
    \/ ImportBegin(c) \/ ImportSpace(c) \/ ImportCollection(c)
    \/ ImportFetch(c) \/ ImportLook(c) \/ ImportCreate(c) \/ ImportPage(c)

IntegrationStep ==
  \/ PostMortemStep
  \/ ImportStep
  \/ \E c \in Clients : RunbooksCount(c) \/ RunbooksRows(c)

-----------------------------------------------------------------------------
(* Properties *)

\* NightOwl is refused a post-mortem only for a document of the same slug in the space, as a
\* repeated call finds, or when something came between (CreatePostMortem).
RefusalsHaveAReason ==
  \A c \in Clients : requests[c].kind = "postmortem" /\ requests[c].pc = "refused" =>
    \/ requests[c].news # {}
    \/ \E s \in GetSpaceBySlug(db, Slug(requests[c].into)) : SlugExistsInSpace(db, s, Slug(requests[c].name))

\* "Idempotency check: use nightowl_alert_id to store original runbook ID" (runbooks.go):
\* whatever earlier imports have left, and wherever they were interrupted, what an import has
\* created is the only document with that runbook's id, but for those written since by a
\* client that sends the id, or by another import at the same time.  Nothing is UNIQUE here.
ImportsDoubleNothing ==
  \A c \in Clients : requests[c].kind = "import" =>
    LET r == requests[c] IN
    \A d \in (r.imported \cap DOMAIN db.documents) \ r.news :
      GetDocumentByNightOwlAlertID(db, db.documents[d].alert) \subseteq {d} \cup r.news

\* "Log migration summary" (docs/05, 251): unless NightOwl's list changed, or documents were
\* written meanwhile, an import that ends has counted every runbook once, each that it did
\* not count as failed has its document, and each that it did, a document in the way.
ImportsAccountForAll ==
  \A c \in Clients : requests[c].kind = "import" /\ requests[c].pc = "done" =>
    LET r == requests[c] IN
    \/ r.changed \/ r.news # {}
    \/ /\ Cardinality(r.imported) + Cardinality(r.skipped) + Cardinality(r.failed) = Len(runbooks)
       /\ \A a \in Range(runbooks) :
            IF a \in r.failed THEN SlugExistsInSpace(db, r.space, Slug(Title[a]))
            ELSE GetDocumentByNightOwlAlertID(db, a) # {}

\* "Migrated runbooks are tagged doc_type=runbook and appear in integration search"
\* (docs/05, 325): what an import has created, and nobody has written since, NightOwl is
\* given when it lists the runbooks it was told to be there, asks for one or searches for its
\* text.
ImportedAreListed ==
  \A c \in Clients : requests[c].kind = "import" =>
    \A d \in requests[c].imported \ requests[c].news :
      /\ \A page \in ListRunbooksWithSpace(db, CountRunbooks(db), 0) : d \in page
      /\ GetRunbookWithSpace(db, d) = {d}
      /\ \A page \in SearchRunbooks(db, [e \in {d} |-> 1], 1, 0) : d \in page

\* What may be relied on when an import is through.
ImportsDeliver == ImportsAccountForAll /\ ImportedAreListed
=============================================================================
