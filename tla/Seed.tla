-------------------------------- MODULE Seed --------------------------------
(***************************************************************************)
(* internal/seed, run before the server or by hand, as often as one likes: *)
(* the system templates and, in the mode seed-demo, a space, its           *)
(* collection and its documents.  Each piece is looked for, and made when  *)
(* it is not there; nothing says what an earlier run, which may have been  *)
(* killed anywhere, or another one at the same time has done.  All that is  *)
(* seeded is a runbook here: the files' types make no difference to it.    *)
(***************************************************************************)
EXTENDS TenantRequests

CONSTANTS
  SeededUsers,  \* the users it has made
  SystemNames,  \* the templates of internal/seed/templates
  DemoName,     \* the slug of the demo space, and of its collection
  DemoDocs      \* slugs of the demo documents

ASSUME SeedAssumption ==
  SystemNames \cup {DemoName} \cup DemoDocs \subseteq Names /\ SeededUsers \subseteq Users

\* The rest of Run comes first: the tenant, its schema and its users, which are there.  failed,
\* for the properties only: something went wrong that is only logged, or ignored.
SeedBegin(c) ==
  \E demo \in BOOLEAN :
    Begin(c, "seeds", [kind |-> "seed", pc |-> "templates", demo |-> demo, templates |-> SystemNames,
                       name |-> None, space |-> None, members |-> SeededUsers, collection |-> None,
                       docs |-> DemoDocs, doc |-> None, failed |-> FALSE, news |-> {}])

At(c, pc) == requests[c].kind = "seed" /\ requests[c].pc = pc

\* Mutant: templates are made without a look.
LookForTemplateAlways(c) ==
  /\ At(c, "templates")
  /\ \E name \in requests[c].templates :
       Go(c, [requests[c] EXCEPT !.templates = @ \ {name}, !.pc = "template", !.name = name])
  /\ UNCHANGED quota

\* Mutant: any template of this name will do, be it a system template or not.
LookForTemplateOfAnybody(c) ==
  /\ At(c, "templates")
  /\ \E name \in requests[c].templates :
       LET rest == [requests[c] EXCEPT !.templates = @ \ {name}] IN
       Go(c, IF \E p \in DOMAIN db.templates : db.templates[p].name = name
               THEN rest ELSE [rest EXCEPT !.pc = "template", !.name = name])
  /\ UNCHANGED quota

\* ensureSystemTemplates: is there one of this name?
LookForTemplate(c) ==
  /\ At(c, "templates")
  /\ \E name \in requests[c].templates :
       Go(c, IF GetSystemTemplateByName(db, name) # {}
               THEN [requests[c] EXCEPT !.templates = @ \ {name}]
               ELSE [requests[c] EXCEPT !.templates = @ \ {name}, !.pc = "template", !.name = name])
  /\ UNCHANGED quota

MakeTemplate(c) ==
  LET next == [requests[c] EXCEPT !.pc = "templates"] IN
  /\ At(c, "template")
  /\ Execute(c, CreateTemplate(db, [space |-> None, name |-> requests[c].name, type |-> "runbook",
                                    system |-> TRUE, global |-> TRUE]), next, next)
  /\ UNCHANGED quota

\* Run goes on behind the templates.
BehindTemplates(r) == [r EXCEPT !.pc = IF r.demo THEN "space" ELSE "done"]

TemplatesDone(c) ==
  /\ At(c, "templates")
  /\ requests[c].templates = {}
  /\ Go(c, BehindTemplates(requests[c]))
  /\ UNCHANGED quota

\* The directory, a file of it or an insert goes wrong: that is the end of the templates, of
\* which some may be there, but not of the seed.
TemplatesFail(c) ==
  /\ At(c, "templates") \/ At(c, "template")
  /\ Go(c, BehindTemplates([requests[c] EXCEPT !.templates = {}, !.failed = TRUE]))
  /\ UNCHANGED quota

\* findOrCreateSpace.
FindSpace(c) ==
  LET there == GetSpaceBySlug(db, Slug(DemoName)) IN
  /\ At(c, "space")
  /\ \E s \in IF there = {} THEN {None} ELSE there :
       Go(c, [requests[c] EXCEPT !.pc = IF s = None THEN "newspace" ELSE "members", !.space = s])
  /\ UNCHANGED quota

MakeSpace(c) ==
  /\ At(c, "newspace")
  /\ Execute(c, CreateSpace(db, Slug(DemoName)),
             [requests[c] EXCEPT !.pc = "members", !.space = db.next.spaces], Idle)
  /\ UNCHANGED quota

\* The next of the seeded users becomes a member; the error is ignored.
AddSeededMember(c) ==
  /\ At(c, "members")
  /\ \E u \in requests[c].members :
       LET next == [requests[c] EXCEPT !.members = @ \ {u}] IN
       \/ Execute(c, AddSpaceMember(db, next.space, u), next, next)
       \/ Go(c, [next EXCEPT !.failed = TRUE])
  /\ UNCHANGED quota

\* findOrCreateCollection: made, or found in the list when its slug is taken.
FindOrCreateCollection(c) ==
  LET r == requests[c]
      made == CreateCollection(db, r.space, Slug(DemoName))
      there == {k \in ListCollectionsBySpace(db, r.space) : db.collections[k].slug = Slug(DemoName)}
  IN /\ At(c, "members") /\ r.members = {}
     /\ \/ there = {} /\ Execute(c, made, [r EXCEPT !.pc = "docs", !.collection = db.next.collections], Idle)
        \/ \E k \in there : Go(c, [r EXCEPT !.pc = "docs", !.collection = k])
     /\ UNCHANGED quota

\* createDocIfNotExists: is there a document of this slug, and is it in a collection?
LookForDocument(c) ==
  /\ At(c, "docs")
  /\ \E name \in requests[c].docs :
       LET r == [requests[c] EXCEPT !.docs = @ \ {name}, !.name = name]
           there == GetDocumentBySlug(db, r.space, Slug(name))
       IN \/ there = {} /\ Go(c, [r EXCEPT !.pc = "create"])
          \/ \E d \in there :
               Go(c, IF db.documents[d].collection = None
                       THEN [r EXCEPT !.pc = "file", !.doc = d] ELSE r)
  /\ UNCHANGED quota

MakeDocument(c) ==
  LET r == requests[c] IN
  /\ At(c, "create")
  /\ Execute(c, CreateDocument(db, [space |-> r.space, collection |-> r.collection,
                  slug |-> Slug(r.name), type |-> "runbook", status |-> "published", alert |-> None]),
             [r EXCEPT !.pc = "docs"], Idle)
  /\ UNCHANGED quota

\* The error of MoveDocumentToCollection is ignored.
FileDocument(c) ==
  LET r == requests[c]
      next == [r EXCEPT !.pc = "docs", !.doc = None]
  IN /\ At(c, "file")
     /\ \/ Execute(c, MoveDocumentToCollection(db, r.doc, r.collection), next, next)
        \/ Go(c, [next EXCEPT !.failed = TRUE])
     /\ UNCHANGED quota

DocumentsDone(c) ==
  /\ At(c, "docs")
  /\ requests[c].docs = {}
  /\ Go(c, [requests[c] EXCEPT !.pc = "done"])
  /\ UNCHANGED quota

SeedStep ==
  \E c \in Clients :
    \/ SeedBegin(c) \/ LookForTemplate(c) \/ MakeTemplate(c)
    \/ TemplatesDone(c) \/ TemplatesFail(c)
    \/ FindSpace(c) \/ MakeSpace(c) \/ AddSeededMember(c) \/ FindOrCreateCollection(c)
    \/ LookForDocument(c) \/ MakeDocument(c) \/ FileDocument(c) \/ DocumentsDone(c)

-----------------------------------------------------------------------------
(* Properties *)

\* A seed that ends undisturbed, with nothing logged or ignored, has completed what is missing,
\* whatever earlier runs left: every system template, every seeded user a member, every demo
\* document in some collection.
SeedsComplete ==
  \A c \in Clients : At(c, "done") /\ requests[c].news = {} /\ ~requests[c].failed =>
    /\ \A name \in SystemNames : GetSystemTemplateByName(db, name) # {}
    /\ requests[c].demo =>
         /\ SeededUsers \subseteq ListSpaceMembers(db, requests[c].space)
         /\ \A name \in DemoDocs : \E d \in GetDocumentBySlug(db, requests[c].space, Slug(name)) :
              db.documents[d].collection # None

\* A system template is of no space.
SystemWide(t) == \A p \in DOMAIN t.templates : t.templates[p].system => t.templates[p].space = None

SystemTemplates(t) == {<<p, t.templates[p].name>> : p \in {q \in DOMAIN t.templates : t.templates[q].system}}

\* The system templates are what seeds have made: no request changes or deletes one.  No
\* UNIQUE keeps one from being there twice, but a seed that is killed and run again makes
\* none a second time: that takes two seeds at the same time.
SystemTemplatesAreSeeded ==
  [][SystemTemplates(db') # SystemTemplates(db) =>
       \E c \in Clients :
         /\ At(c, "template") /\ requests'[c] # requests[c]
         /\ SystemTemplates(db) \subseteq SystemTemplates(db')
         /\ \A p \in SystemTemplates(db') \ SystemTemplates(db) :
              GetSystemTemplateByName(db, p[2]) # {} => None \in requests[c].news
    ]_<<db, requests, quota>>
=============================================================================
