------------------------ MODULE TenantRequestsProofs ------------------------
(***************************************************************************)
(* Theorems about what is under way on the tables of TenantData: what a    *)
(* request may still rely on of what it has read before, and what follows  *)
(* of it for imports, seeds, moves, posts and reads of several statements. *)
(*                                                                         *)
(* The argument is the same throughout.  A step is that of one request, or *)
(* of none, and all the others hear of what it writes; so what a request   *)
(* has read is still there but for its news.                               *)
(***************************************************************************)
EXTENDS TenantDataProofs

-----------------------------------------------------------------------------
(* Imports double nothing *)

\* What is not written is there as it was.
LEMMA Unwritten ==
  /\ \A d : d \notin Written(db') =>
       /\ d \in DOMAIN db'.documents <=> d \in DOMAIN db.documents
       /\ d \in DOMAIN db.documents => db'.documents[d] = db.documents[d]
  /\ None \notin Written(db') =>
       /\ db'.spaces = db.spaces /\ db'.collections = db.collections
       /\ db'.templates = db.templates /\ db'.members = db.members
BY DEF Written

\* When nothing is written, no table that a request reads.
LEMMA NothingWritten ==
  ASSUME Written(db') = {}, Typed(db), Typed(db')
  PROVE  /\ db'.spaces = db.spaces /\ db'.collections = db.collections
         /\ db'.templates = db.templates /\ db'.members = db.members
         /\ DOMAIN db'.documents = DOMAIN db.documents
         /\ \A d \in DOMAIN db.documents : db'.documents[d] = db.documents[d]
BY Unwritten

\* What an import does in each of its steps.
LEMMA ImportGoes ==
  ASSUME TypesInv, NEW c \in Clients
  PROVE  LET r == requests[c]
             s == requests'[c]
             Same(fields) == \A f \in fields : s[f] = r[f]
         IN /\ ImportBegin(c) =>
                 /\ s.pc \in {"space", "collection"} /\ s.offset = 0 /\ s.page = << >>
                 /\ s.pc = "space" \/ s.space \in DOMAIN db.spaces
                 /\ s.collection = None
                 /\ s.imported = {} /\ s.skipped = {} /\ s.failed = {} /\ db' = db
            /\ ImportSpace(c) =>
                 \/ s = Idle
                 \/ /\ r.pc = "space" /\ s.pc = "collection" /\ s.space \in DOMAIN db'.spaces
                    /\ db'.documents = db.documents
                    /\ Same({"collection", "offset", "imported", "skipped", "failed", "changed", "news"})
            /\ ImportCollection(c) =>
                 \/ s = Idle
                 \/ /\ r.pc = "collection" /\ s.pc = "fetch" /\ db'.spaces = db.spaces
                    /\ db'.documents = db.documents
                    /\ \/ s.collection = r.collection
                       \/ /\ s.collection \in DOMAIN db'.collections
                          /\ db'.collections[s.collection].space = r.space
                    /\ Same({"space", "offset", "imported", "skipped", "failed", "changed", "news"})
            /\ ImportFetch(c) =>
                 /\ r.pc = "fetch" /\ s.pc = "look" /\ s.total = Len(runbooks) /\ db' = db
                 /\ s.page = SubSeq(runbooks, r.offset + 1, LastOfPage(r.offset))
                 /\ Same({"space", "collection", "offset", "imported", "skipped", "failed", "changed", "news"})
            /\ ImportLook(c) =>
                 /\ r.pc = "look" /\ r.page # << >> /\ db' = db
                 /\ Same({"space", "collection", "offset", "total", "imported", "failed", "changed", "news"})
                 /\ \/ /\ s.pc = "look" /\ GetDocumentByNightOwlAlertID(db, Head(r.page)) # {}
                       /\ s.page = Tail(r.page) /\ s.skipped = r.skipped \cup {Head(r.page)}
                    \/ /\ s.pc = "create" /\ GetDocumentByNightOwlAlertID(db, Head(r.page)) = {}
                       /\ s.page = r.page /\ s.skipped = r.skipped
            /\ ImportCreate(c) =>
                 LET new == CreateDocument(db, [space |-> r.space, collection |-> r.collection,
                              slug |-> Slug(Title[Head(r.page)]), type |-> "runbook",
                              status |-> "published", alert |-> Head(r.page)])
                 IN /\ r.pc = "create" /\ s.pc = "look" /\ s.page = Tail(r.page) /\ r.page # << >>
                    /\ Same({"space", "collection", "offset", "total", "skipped", "changed", "news"})
                    /\ \/ /\ Consistent(new) /\ db' = new /\ s.failed = r.failed
                          /\ s.imported = r.imported \cup {db.next.documents}
                       \/ /\ ~Consistent(new) /\ db' = db /\ s.imported = r.imported
                          /\ s.failed = r.failed \cup {Head(r.page)}
            /\ ImportPage(c) =>
                 /\ r.pc = "look" /\ r.page = << >> /\ s.offset = r.offset + BatchLimit /\ db' = db
                 /\ s.pc = IF s.offset >= r.total THEN "done" ELSE "fetch"
                 /\ Same({"space", "collection", "total", "imported", "skipped", "failed", "changed", "news"})
<1> DEFINE Fields == {"kind", "pc", "into", "filing", "space", "collection", "offset", "total", "page",
                      "imported", "skipped", "failed", "changed", "news"}
<1> PICK r : r = requests[c]
  OBVIOUS
<1> PICK s : s = requests'[c]
  OBVIOUS
<1>1. Typed(db) /\ RequestsProper /\ DOMAIN requests = Clients /\ Proper(r)
  BY DEF TypesInv, RequestsProper
<1>2. /\ r.kind = "import" => r \in Imports
      /\ r \in Imports => DOMAIN r = Fields
  BY <1>1, KindTyped DEF Imports
<1>3. r \in Imports /\ r.pc = "create" => r.page # << >>
  BY DEF Imports
<1>4. ASSUME ImportBegin(c)
      PROVE  /\ s.pc \in {"space", "collection"} /\ s.offset = 0 /\ s.page = << >>
             /\ s.pc = "space" \/ s.space \in DOMAIN db.spaces
             /\ s.collection = None
             /\ s.imported = {} /\ s.skipped = {} /\ s.failed = {} /\ db' = db
  <2>1. PICK into \in Names, filing \in Names \cup {None} :
          \E place \in IF GetSpaceBySlug(db, Slug(into)) = {} THEN {None} ELSE GetSpaceBySlug(db, Slug(into)) :
            Begin(c, "imports",
              [kind |-> "import", pc |-> IF place = None THEN "space" ELSE "collection", into |-> into,
               filing |-> filing, space |-> place, collection |-> None, offset |-> 0, total |-> 0,
               page |-> << >>, imported |-> {}, skipped |-> {}, failed |-> {}, changed |-> FALSE,
               news |-> {}])
    BY <1>4 DEF ImportBegin
  <2>2. PICK place \in (DOMAIN db.spaces) \cup {None} :
          /\ s = [kind |-> "import", pc |-> IF place = None THEN "space" ELSE "collection", into |-> into,
                  filing |-> filing, space |-> place, collection |-> None, offset |-> 0, total |-> 0,
                  page |-> << >>, imported |-> {}, skipped |-> {}, failed |-> {}, changed |-> FALSE,
                  news |-> {}]
          /\ db' = db
    BY <1>1, <2>1, GoesOn DEF GetSpaceBySlug
  <2> QED BY <2>2
<1>5. ASSUME ImportSpace(c)
      PROVE  \/ s = Idle
             \/ /\ r.pc = "space" /\ s.pc = "collection" /\ s.space \in DOMAIN db'.spaces
                /\ db'.documents = db.documents
                /\ \A f \in {"collection", "offset", "imported", "skipped", "failed", "changed", "news"} : s[f] = r[f]
  <2>1. DOMAIN r = Fields /\ r.pc = "space"
    BY <1>2, <1>5 DEF ImportSpace
  <2>2. \/ db' = CreateSpace(db, Slug(r.into)) /\ s = [r EXCEPT !.pc = "collection", !.space = db.next.spaces]
        \/ s = Idle
    BY <1>1, <1>5, GoesOn DEF ImportSpace
  <2>3. db' = CreateSpace(db, Slug(r.into)) =>
          db.next.spaces \in DOMAIN db'.spaces /\ db'.documents = db.documents
    <3>1. {"spaces", "documents"} \subseteq Numbered
      BY DEF Numbered
    <3> QED BY <1>1, <3>1, InsertGrows DEF CreateSpace
  <2> QED BY <2>1, <2>2, <2>3
<1>6. ASSUME ImportCollection(c)
      PROVE  \/ s = Idle
             \/ /\ r.pc = "collection" /\ s.pc = "fetch" /\ db'.spaces = db.spaces
                /\ db'.documents = db.documents
                /\ \/ s.collection = r.collection
                   \/ /\ s.collection \in DOMAIN db'.collections
                      /\ db'.collections[s.collection].space = r.space
                /\ \A f \in {"space", "offset", "imported", "skipped", "failed", "changed", "news"} : s[f] = r[f]
  <2>1. DOMAIN r = Fields /\ r.pc = "collection"
    BY <1>2, <1>6 DEF ImportCollection
  <2>2. \/ /\ db' = CreateCollection(db, r.space, Slug(r.filing))
           /\ s = [r EXCEPT !.pc = "fetch", !.collection = db.next.collections]
        \/ s = [r EXCEPT !.pc = "fetch"] /\ db' = db
        \/ s = Idle
    BY <1>1, <1>6, GoesOn DEF ImportCollection
  <2>3. db' = CreateCollection(db, r.space, Slug(r.filing)) =>
          /\ db.next.collections \in DOMAIN db'.collections
          /\ db'.collections[db.next.collections].space = r.space
          /\ db'.spaces = db.spaces /\ db'.documents = db.documents
    <3>1. {"collections", "spaces", "documents"} \subseteq Numbered
      BY DEF Numbered
    <3>2. PICK row : row = [space |-> r.space, slug |-> Slug(r.filing), parent |-> None]
      OBVIOUS
    <3>3. CreateCollection(db, r.space, Slug(r.filing)) = Insert(db, "collections", row) /\ row.space = r.space
      BY <3>2 DEF CreateCollection
    <3> QED BY <1>1, <3>1, <3>3, InsertGrows
  <2> QED BY <2>1, <2>2, <2>3
<1>7. ASSUME ImportFetch(c)
      PROVE  /\ r.pc = "fetch" /\ s.pc = "look" /\ s.total = Len(runbooks) /\ db' = db
             /\ s.page = SubSeq(runbooks, r.offset + 1, LastOfPage(r.offset))
             /\ \A f \in {"space", "collection", "offset", "imported", "skipped", "failed", "changed", "news"} :
                  s[f] = r[f]
  <2>1. DOMAIN r = Fields /\ r.pc = "fetch"
    BY <1>2, <1>7 DEF ImportFetch
  <2> PICK total : total = Len(runbooks)
    OBVIOUS
  <2> PICK page : page = SubSeq(runbooks, r.offset + 1, LastOfPage(r.offset))
    OBVIOUS
  <2>2. s = [r EXCEPT !.pc = "look", !.total = total, !.page = page] /\ db' = db
    BY <1>1, <1>7, GoesOn DEF ImportFetch
  <2> QED BY <2>1, <2>2
<1>8. ASSUME ImportLook(c)
      PROVE  /\ r.pc = "look" /\ r.page # << >> /\ db' = db
             /\ \A f \in {"space", "collection", "offset", "total", "imported", "failed", "changed", "news"} :
                  s[f] = r[f]
             /\ \/ /\ s.pc = "look" /\ GetDocumentByNightOwlAlertID(db, Head(r.page)) # {}
                   /\ s.page = Tail(r.page) /\ s.skipped = r.skipped \cup {Head(r.page)}
                \/ /\ s.pc = "create" /\ GetDocumentByNightOwlAlertID(db, Head(r.page)) = {}
                   /\ s.page = r.page /\ s.skipped = r.skipped
  <2>1. DOMAIN r = Fields /\ r.pc = "look" /\ r.page # << >>
    BY <1>2, <1>8 DEF ImportLook
  <2> PICK a, rest, there : a = Head(r.page) /\ rest = Tail(r.page) /\ there = GetDocumentByNightOwlAlertID(db, Head(r.page))
    OBVIOUS
  <2> PICK skipped : skipped = r.skipped \cup {a}
    OBVIOUS
  <2>2. /\ db' = db
        /\ \/ there # {} /\ s = [r EXCEPT !.page = rest, !.skipped = skipped]
           \/ there = {} /\ s = [r EXCEPT !.pc = "create"]
    BY <1>1, <1>8, <2>1, GoesOn DEF ImportLook
  <2> QED BY <2>1, <2>2
<1>9. ASSUME ImportCreate(c), NEW new,
             new = CreateDocument(db, [space |-> r.space, collection |-> r.collection,
                     slug |-> Slug(Title[Head(r.page)]), type |-> "runbook",
                     status |-> "published", alert |-> Head(r.page)])
      PROVE  /\ r.pc = "create" /\ s.pc = "look" /\ s.page = Tail(r.page) /\ r.page # << >>
             /\ \A f \in {"space", "collection", "offset", "total", "skipped", "changed", "news"} : s[f] = r[f]
             /\ \/ /\ Consistent(new) /\ db' = new /\ s.failed = r.failed
                   /\ s.imported = r.imported \cup {db.next.documents}
                \/ /\ ~Consistent(new) /\ db' = db /\ s.imported = r.imported
                   /\ s.failed = r.failed \cup {Head(r.page)}
  <2>1. DOMAIN r = Fields /\ r.pc = "create" /\ r.page # << >>
    BY <1>2, <1>3, <1>9 DEF ImportCreate
  <2> PICK a, rest : a = Head(r.page) /\ rest = Tail(r.page)
    OBVIOUS
  <2> PICK i : i = [r EXCEPT !.pc = "look", !.page = rest]
    OBVIOUS
  <2>2. /\ DOMAIN i = Fields /\ i.pc = "look" /\ i.page = rest
        /\ \A f \in Fields \ {"pc", "page"} : i[f] = r[f]
    BY <2>1
  <2>3. Execute(c, new, [i EXCEPT !.imported = @ \cup {db.next.documents}], [i EXCEPT !.failed = @ \cup {a}])
    BY <1>9 DEF ImportCreate
  <2> PICK imported, failed : imported = i.imported \cup {db.next.documents} /\ failed = i.failed \cup {a}
    OBVIOUS
  <2>4. \/ Consistent(new) /\ db' = new /\ s = [i EXCEPT !.imported = imported]
        \/ ~Consistent(new) /\ db' = db /\ s = [i EXCEPT !.failed = failed]
    BY <1>1, <2>3, GoesOn
  <2>5. i.imported = r.imported /\ i.failed = r.failed
    BY <2>2
  <2>6. \A f \in {"space", "collection", "offset", "total", "skipped", "changed", "news"} : i[f] = r[f]
    BY <2>2
  <2>7. s = [i EXCEPT !.imported = imported] =>
          /\ s.pc = "look" /\ s.page = rest /\ s.imported = r.imported \cup {db.next.documents} /\ s.failed = r.failed
          /\ \A f \in {"space", "collection", "offset", "total", "skipped", "changed", "news"} : s[f] = r[f]
    <3> HAVE s = [i EXCEPT !.imported = imported]
    <3>1. /\ s.pc = "look" /\ s.page = rest /\ s.imported = imported /\ s.failed = i.failed
          /\ \A f \in {"space", "collection", "offset", "total", "skipped", "changed", "news"} : s[f] = i[f]
      BY <2>2
    <3> QED BY <3>1, <2>5, <2>6
  <2>8. s = [i EXCEPT !.failed = failed] =>
          /\ s.pc = "look" /\ s.page = rest /\ s.failed = r.failed \cup {Head(r.page)} /\ s.imported = r.imported
          /\ \A f \in {"space", "collection", "offset", "total", "skipped", "changed", "news"} : s[f] = r[f]
    <3> HAVE s = [i EXCEPT !.failed = failed]
    <3>1. /\ s.pc = "look" /\ s.page = rest /\ s.failed = failed /\ s.imported = i.imported
          /\ \A f \in {"space", "collection", "offset", "total", "skipped", "changed", "news"} : s[f] = i[f]
      BY <2>2
    <3> QED BY <3>1, <2>5, <2>6
  <2> QED BY <2>1, <2>4, <2>7, <2>8
<1>10. ASSUME ImportPage(c)
       PROVE  /\ r.pc = "look" /\ r.page = << >> /\ s.offset = r.offset + BatchLimit /\ db' = db
              /\ s.pc = IF s.offset >= r.total THEN "done" ELSE "fetch"
              /\ \A f \in {"space", "collection", "total", "imported", "skipped", "failed", "changed", "news"} :
                   s[f] = r[f]
  <2>1. DOMAIN r = Fields /\ r.pc = "look" /\ r.page = << >>
    BY <1>2, <1>10 DEF ImportPage
  <2> PICK offset : offset = r.offset + BatchLimit
    OBVIOUS
  <2> PICK pc : pc = IF offset >= r.total THEN "done" ELSE "fetch"
    OBVIOUS
  <2>2. s = [r EXCEPT !.offset = offset, !.pc = pc] /\ db' = db
    BY <1>1, <1>10, GoesOn DEF ImportPage
  <2> QED BY <2>1, <2>2
<1> QED BY <1>4, <1>5, <1>6, <1>7, <1>8, <1>9, <1>10

\* What an import has created is alone with its runbook's id, and while it is about to create
\* a document there is none with the id: but for the news.
Single(t, r) ==
  r.kind = "import" =>
    /\ \A d \in (r.imported \cap DOMAIN t.documents) \ r.news :
         GetDocumentByNightOwlAlertID(t, t.documents[d].alert) \subseteq {d} \cup r.news
    /\ r.pc = "create" => GetDocumentByNightOwlAlertID(t, Head(r.page)) \subseteq r.news

SinglesInv == \A c \in Clients : Single(db, requests[c])

\* A document with a runbook's id after a step had it before, or has been written.
LEMMA NamedOn ==
  ASSUME NEW a
  PROVE  GetDocumentByNightOwlAlertID(db', a) \subseteq GetDocumentByNightOwlAlertID(db, a) \cup Written(db')
<1> SUFFICES ASSUME NEW d \in GetDocumentByNightOwlAlertID(db', a), d \notin Written(db')
             PROVE  d \in GetDocumentByNightOwlAlertID(db, a)
  OBVIOUS
<1>1. d \in DOMAIN db'.documents /\ db'.documents[d].alert = a
  BY DEF GetDocumentByNightOwlAlertID
<1>2. d \in DOMAIN db.documents /\ db'.documents[d] = db.documents[d]
  BY <1>1, Unwritten
<1> QED BY <1>1, <1>2 DEF GetDocumentByNightOwlAlertID

LEMMA NextSingles ==
  ASSUME TypesInv, TypesInv', SinglesInv, [Next]_dvars
  PROVE  SinglesInv'
<1>1. Typed(db) /\ Typed(db') /\ DOMAIN requests = Clients /\ Shaped(db)
  BY TypedShaped DEF TypesInv, RequestsProper
<1>2. \/ \A q \in Clients : Left(q)
      \/ \E c \in Clients : Acts(c) /\ \A q \in Clients \ {c} : Left(q)
  BY <1>1, WhoActs
<1>3. ASSUME NEW c \in Clients, Left(c), requests'[c].kind = "import"
      PROVE  Single(db', requests'[c])
  <2> PICK r : r = requests[c]
    OBVIOUS
  <2> PICK s : s = requests'[c]
    OBVIOUS
  <2>1. r.kind = "import"
    BY <1>1, <1>3, LeftKinds
  <2>2. /\ s.pc = r.pc /\ s.imported = r.imported /\ s.page = r.page
        /\ s.news = r.news \cup Written(db')
    BY <1>1, <1>3, <2>1, LeftKinds
  <2>3. Single(db, r)
    BY DEF SinglesInv
  <2>4. ASSUME NEW d \in (s.imported \cap DOMAIN db'.documents) \ s.news
        PROVE  GetDocumentByNightOwlAlertID(db', db'.documents[d].alert) \subseteq {d} \cup s.news
    <3>1. d \in DOMAIN db.documents /\ db'.documents[d] = db.documents[d]
      BY <2>2, Unwritten
    <3>2. GetDocumentByNightOwlAlertID(db, db.documents[d].alert) \subseteq {d} \cup r.news
      BY <2>1, <2>2, <2>3, <3>1 DEF Single
    <3> QED BY <2>2, <3>1, <3>2, NamedOn
  <2>5. ASSUME s.pc = "create"
        PROVE  GetDocumentByNightOwlAlertID(db', Head(s.page)) \subseteq s.news
    BY <2>1, <2>2, <2>3, <2>5, NamedOn DEF Single
  <2> QED BY <2>4, <2>5 DEF Single
<1>4. ASSUME NEW c \in Clients, Acts(c), requests'[c].kind = "import"
      PROVE  Single(db', requests'[c])
  <2> PICK r : r = requests[c]
    OBVIOUS
  <2> PICK s : s = requests'[c]
    OBVIOUS
  <2>1. Single(db, r) /\ s # Idle
    BY <1>4 DEF SinglesInv, Idle
  <2>2. CASE ImportBegin(c)
    <3>1. s.pc \in {"space", "collection"} /\ s.imported = {}
      BY <2>2, ImportGoes
    <3> QED BY <3>1 DEF Single
  <2>3. CASE ImportSpace(c) \/ ImportCollection(c)
    <3>1. r.kind = "import"
      BY <2>3 DEF ImportSpace, ImportCollection
    <3>2. s.imported = r.imported /\ s.news = r.news /\ s.pc # "create" /\ db'.documents = db.documents
      BY <2>1, <2>3, ImportGoes
    <3> QED BY <2>1, <3>1, <3>2 DEF Single, GetDocumentByNightOwlAlertID
  <2>4. CASE ImportFetch(c) \/ ImportPage(c)
    <3>1. r.kind = "import"
      BY <2>4 DEF ImportFetch, ImportPage
    <3>2. s.imported = r.imported /\ s.news = r.news /\ db' = db /\ s.pc # "create"
      BY <2>4, ImportGoes
    <3> QED BY <2>1, <3>1, <3>2 DEF Single
  <2>5. CASE ImportLook(c)
    <3>1. r.kind = "import"
      BY <2>5 DEF ImportLook
    <3>2. /\ s.imported = r.imported /\ s.news = r.news /\ db' = db
          /\ \/ s.pc = "look"
             \/ GetDocumentByNightOwlAlertID(db, Head(r.page)) = {} /\ s.page = r.page
      BY <2>5, ImportGoes
    <3> QED BY <2>1, <3>1, <3>2 DEF Single
  <2>6. CASE ImportCreate(c)
    <3>1. r.kind = "import" /\ r.pc = "create"
      BY <2>6 DEF ImportCreate
    <3>2. PICK row : row = [space |-> r.space, collection |-> r.collection,
                            slug |-> Slug(Title[Head(r.page)]), type |-> "runbook",
                            status |-> "published", alert |-> Head(r.page)]
      OBVIOUS
    <3>3. /\ s.news = r.news /\ s.pc = "look"
          /\ \/ /\ db' = Insert(db, "documents", row)
                /\ s.imported = r.imported \cup {db.next.documents}
             \/ db' = db /\ s.imported = r.imported
      BY <2>6, <3>2, ImportGoes DEF CreateDocument
    <3>4. CASE db' = db /\ s.imported = r.imported
      BY <2>1, <3>1, <3>3, <3>4 DEF Single
    <3>5. CASE db' = Insert(db, "documents", row) /\ s.imported = r.imported \cup {db.next.documents}
      <4> PICK new : new = db.next.documents
        OBVIOUS
      <4>1. "documents" \in Numbered
        BY DEF Numbered
      <4>2. /\ DOMAIN db'.documents = DOMAIN db.documents \cup {new} /\ new \notin DOMAIN db.documents
            /\ db'.documents[new] = row /\ row.alert = Head(r.page)
            /\ \A d \in DOMAIN db.documents : db'.documents[d] = db.documents[d]
        BY <1>1, <3>2, <3>5, <4>1, InsertGrows
      <4>3. GetDocumentByNightOwlAlertID(db, Head(r.page)) \subseteq r.news
        BY <2>1, <3>1 DEF Single
      <4>4. \A a : GetDocumentByNightOwlAlertID(db', a) =
                     GetDocumentByNightOwlAlertID(db, a) \cup {d \in {new} : a = Head(r.page)}
        BY <4>2 DEF GetDocumentByNightOwlAlertID
      <4>5. ASSUME NEW d \in (s.imported \cap DOMAIN db'.documents) \ s.news
            PROVE  GetDocumentByNightOwlAlertID(db', db'.documents[d].alert) \subseteq {d} \cup s.news
        <5>1. CASE d = new
          BY <3>3, <4>2, <4>3, <4>4, <5>1
        <5>2. CASE d # new
          <6>1. d \in (r.imported \cap DOMAIN db.documents) \ r.news /\ db'.documents[d] = db.documents[d]
            BY <3>3, <3>5, <4>2, <4>5, <5>2
          <6>2. GetDocumentByNightOwlAlertID(db, db.documents[d].alert) \subseteq {d} \cup r.news
            BY <2>1, <3>1, <6>1 DEF Single
          <6>3. db.documents[d].alert # Head(r.page)
            BY <4>3, <6>1 DEF GetDocumentByNightOwlAlertID
          <6> QED BY <3>3, <4>4, <6>1, <6>2, <6>3
        <5> QED BY <5>1, <5>2
      <4> QED BY <3>3, <4>5 DEF Single
    <3> QED BY <3>3, <3>4, <3>5
  <2> QED BY <1>1, <1>4, <2>2, <2>3, <2>4, <2>5, <2>6, KindOfActs
<1>5. \A c \in Clients : requests'[c].kind # "import" => Single(db', requests'[c])
  BY DEF Single
<1> QED BY <1>2, <1>3, <1>4, <1>5 DEF SinglesInv

\* What an import has created is, but for what others have written since, the only document
\* with its runbook's id, whatever earlier imports, however cut short, have left.
THEOREM RunbooksAreImportedOnce == Spec => []ImportsDoubleNothing
<1>1. Init => SinglesInv
  BY DEF Init, Idle, SinglesInv, Single
<1>2. TypesInv /\ TypesInv' /\ SinglesInv /\ [Next]_dvars => SinglesInv'
  BY NextSingles
<1>3. SinglesInv => ImportsDoubleNothing
  BY DEF SinglesInv, Single, ImportsDoubleNothing
<1> QED BY <1>1, <1>2, <1>3, TypesInvariant, PTL DEF Spec

-----------------------------------------------------------------------------
(* Posts notify whom they have to *)

\* What of a comment, and of a notification, is as it was written.
CommentFields == {"document", "parent", "author", "posted"}
NoticeKey == {"user", "kind", "document", "comment", "actor"}

\* A step leaves every comment that it does not delete, and every notification, as it was
\* written; a new notification is that of a post.
LEMMA DiscussionKeeps ==
  ASSUME Typed(db), Typed(db'), Stands
  PROVE  /\ \A k \in (DOMAIN db.comments) \cap DOMAIN db'.comments :
              \A f \in CommentFields : db'.comments[k][f] = db.comments[k][f]
         /\ \A n \in DOMAIN db.notices :
              n \in DOMAIN db'.notices /\ \A f \in NoticeKey : db'.notices[n][f] = db.notices[n][f]
         /\ \A n \in DOMAIN db'.notices \ DOMAIN db.notices :
              /\ n = db.next.notices /\ db'.comments = db.comments
              /\ \E c \in Clients : \E p \in requests[c].due :
                   /\ Notify(c) /\ requests[c].comment \in DOMAIN db.comments
                   /\ db' = CreateNotification(db, NoticeOf(requests[c].comment, p))
                   /\ db'.notices[n] = NoticeOf(requests[c].comment, p)
<1> DEFINE Said == \A k \in (DOMAIN db.comments) \cap DOMAIN db'.comments :
                     \A f \in CommentFields : db'.comments[k][f] = db.comments[k][f]
           Told == \A n \in DOMAIN db.notices :
                     n \in DOMAIN db'.notices /\ \A f \in NoticeKey : db'.notices[n][f] = db.notices[n][f]
           Made(n) == /\ n = db.next.notices /\ db'.comments = db.comments
                      /\ \E c \in Clients : \E p \in requests[c].due :
                           /\ Notify(c) /\ requests[c].comment \in DOMAIN db.comments
                           /\ db' = CreateNotification(db, NoticeOf(requests[c].comment, p))
                           /\ db'.notices[n] = NoticeOf(requests[c].comment, p)
           Good == Said /\ Told /\ \A n \in DOMAIN db'.notices \ DOMAIN db.notices : Made(n)
<1>1. /\ {"documents", "templates", "comments", "notices"} \subseteq Numbered
      /\ DOMAIN db = Numbered \cup {"members", "next"}
  BY DEF Numbered, Typed
<1>2. ASSUME db'.notices = db.notices,
             \A k \in (DOMAIN db.comments) \cap DOMAIN db'.comments : db'.comments[k] = db.comments[k]
      PROVE  Good
  BY <1>2
<1>3. ASSUME PlacesWritten PROVE Good
  BY <1>2, <1>3, PlacesLeave DEF Fewer
<1>4. ASSUME TemplatesWritten \/ DocumentsWritten PROVE Good
  <2>1. db'.notices = db.notices /\ db'.comments = db.comments
    BY <1>1, <1>4, TemplatesLeave, DocumentsLeave
  <2> QED BY <1>2, <2>1
<1>5. ASSUME DiscussionWritten PROVE Good
  <2>1. ASSUME NEW d, NEW parent, NEW author, NEW body, db' = CreateComment(db, d, parent, author, body)
        PROVE  Good
    <3>1. /\ db'.notices = db.notices
          /\ \A i \in DOMAIN db.comments : db'.comments[i] = db.comments[i]
      <4>1. PICK row : db' = Insert(db, "comments", row)
        BY <2>1 DEF CreateComment
      <4> QED BY <1>1, <4>1, InsertGrows
    <3> QED BY <1>2, <3>1
  <2>2. ASSUME NEW k \in DOMAIN db.comments,
               \/ \E body \in SUBSET Mentions : db' = UpdateCommentBody(db, k, body)
               \/ db' = SoftDeleteComment(db, k)
               \/ db' = ResolveComment(db, k)
               \/ db' = UnresolveComment(db, k)
               \/ Age(k)
        PROVE  Good
    <3>1. db.comments[k] \in Comment
      BY DEF Typed
    <3> PICK old : old = db.comments[k]
      OBVIOUS
    <3>2. \E row : /\ db' = [db EXCEPT !.comments[k] = row]
                   /\ \A f \in CommentFields : row[f] = old[f]
      <4>1. CASE \E body \in SUBSET Mentions : db' = UpdateCommentBody(db, k, body)
        <5>1. PICK body : db' = [db EXCEPT !.comments[k].body = body]
          BY <4>1 DEF UpdateCommentBody
        <5>2. PICK row : row = [old EXCEPT !.body = body]
          OBVIOUS
        <5>3. db' = [db EXCEPT !.comments[k] = row]
          BY <5>1, <5>2
        <5>4. \A f \in CommentFields : row[f] = old[f]
          BY <3>1, <5>2 DEF Comment, CommentFields
        <5> QED BY <5>3, <5>4
      <4>2. CASE db' = SoftDeleteComment(db, k)
        <5>1. PICK row : row = [old EXCEPT !.deleted = TRUE, !.body = {}]
          OBVIOUS
        <5>2. db' = [db EXCEPT !.comments[k] = row]
          BY <4>2, <5>1 DEF SoftDeleteComment
        <5>3. \A f \in CommentFields : row[f] = old[f]
          BY <3>1, <5>1 DEF Comment, CommentFields
        <5> QED BY <5>2, <5>3
      <4>3. CASE db' = ResolveComment(db, k) \/ db' = UnresolveComment(db, k)
        <5>1. PICK b : db' = [db EXCEPT !.comments[k].resolved = b]
          BY <4>3 DEF ResolveComment, UnresolveComment
        <5>2. PICK row : row = [old EXCEPT !.resolved = b]
          OBVIOUS
        <5>3. db' = [db EXCEPT !.comments[k] = row]
          BY <5>1, <5>2
        <5>4. \A f \in CommentFields : row[f] = old[f]
          BY <3>1, <5>2 DEF Comment, CommentFields
        <5> QED BY <5>3, <5>4
      <4>4. CASE Age(k)
        <5>1. PICK row : row = [old EXCEPT !.aged = TRUE]
          OBVIOUS
        <5>2. db' = [db EXCEPT !.comments[k] = row]
          BY <4>4, <5>1 DEF Age
        <5>3. \A f \in CommentFields : row[f] = old[f]
          BY <3>1, <5>1 DEF Comment, CommentFields
        <5> QED BY <5>2, <5>3
      <4> QED BY <2>2, <4>1, <4>2, <4>3, <4>4
    <3>3. PICK row : /\ db' = [db EXCEPT !.comments[k] = row]
                     /\ \A f \in CommentFields : row[f] = old[f]
      BY <3>2
    <3>4. db'.notices = db.notices /\ db'.comments = [db.comments EXCEPT ![k] = row]
      BY <1>1, <3>3
    <3> QED BY <3>3, <3>4
  <2>3. ASSUME NEW c \in Clients, NEW p \in requests[c].due, Notify(c),
               requests[c].comment \in DOMAIN db.comments,
               db' = CreateNotification(db, NoticeOf(requests[c].comment, p))
        PROVE  Good
    <3>1. /\ db'.comments = db.comments
          /\ DOMAIN db'.notices = DOMAIN db.notices \cup {db.next.notices}
          /\ db'.notices[db.next.notices] = NoticeOf(requests[c].comment, p)
          /\ \A i \in DOMAIN db.notices : db'.notices[i] = db.notices[i]
      BY <1>1, <2>3, InsertGrows DEF CreateNotification
    <3> QED BY <2>3, <3>1
  <2>4. ASSUME NEW n, NEW u, db' = MarkNotificationRead(db, n, u) \/ db' = MarkAllNotificationsRead(db, u)
        PROVE  Good
    <3>1. PICK rows : /\ db' = [db EXCEPT !.notices = rows] /\ DOMAIN rows = DOMAIN db.notices
                      /\ \A m \in DOMAIN rows : rows[m] = db.notices[m] \/ rows[m] = [db.notices[m] EXCEPT !.read = TRUE]
      BY <2>4 DEF MarkNotificationRead, MarkAllNotificationsRead
    <3>2. \A m \in DOMAIN db.notices : db.notices[m] \in Notice
      BY DEF Typed
    <3>3. ASSUME NEW m \in DOMAIN rows PROVE \A f \in NoticeKey : rows[m][f] = db.notices[m][f]
      <4>1. db.notices[m] \in Notice
        BY <3>1, <3>2
      <4> QED BY <3>1, <4>1 DEF Notice, NoticeKey
    <3>4. db'.notices = rows /\ db'.comments = db.comments
      BY <1>1, <3>1
    <3> QED BY <3>1, <3>3, <3>4
  <2> HIDE DEF Good
  <2> QED BY <1>5, <2>1, <2>2, <2>3, <2>4 DEF DiscussionWritten
<1>6. ASSUME db' = db PROVE Good
  BY <1>2, <1>6
<1>7. Good
  BY <1>3, <1>4, <1>5, <1>6 DEF Stands
<1> QED BY <1>7

\* What the posting of a comment does in each of its steps.
LEMMA PostGoes ==
  ASSUME TypesInv, NEW c \in Clients
  PROVE  LET r == requests[c]
             s == requests'[c]
             k == db.next.comments
         IN /\ CreateOn(c) \/ ReplyStore(c) =>
                 \/ s = Idle
                 \/ /\ s.comment = k /\ s.due = Recipients(db', k)
                    /\ k \notin DOMAIN db.comments /\ k < db'.next.comments /\ db'.notices = db.notices
            /\ Notify(c) =>
                 \E p \in r.due :
                   LET new == CreateNotification(db, NoticeOf(r.comment, p))
                   IN /\ r.kind = "post" /\ s.comment = r.comment /\ s.due = r.due \ {p} /\ s.failed = r.failed
                      /\ IF r.comment \in DOMAIN db.comments /\ Consistent(new) THEN db' = new ELSE db' = db
            /\ NotifyFails(c) =>
                 /\ r.kind = "post" /\ db' = db
                 /\ s.comment = r.comment /\ s.due \subseteq r.due /\ s.failed
<1> PICK r : r = requests[c]
  OBVIOUS
<1> PICK s : s = requests'[c]
  OBVIOUS
<1>1. Typed(db) /\ RequestsProper /\ DOMAIN requests = Clients /\ Proper(r)
  BY DEF TypesInv, RequestsProper
<1>2. r.kind = "post" => DOMAIN r = {"kind", "comment", "due", "failed", "news"}
  BY <1>1, KindTyped DEF Posts
<1>3. {"comments", "notices"} \subseteq Numbered
  BY DEF Numbered
<1>4. ASSUME CreateOn(c) \/ ReplyStore(c)
      PROVE  \/ s = Idle
             \/ /\ s.comment = db.next.comments /\ s.due = Recipients(db', db.next.comments)
                /\ db.next.comments \notin DOMAIN db.comments /\ db.next.comments < db'.next.comments
                /\ db'.notices = db.notices
  <2>1. PICK d, parent, author, body : Post(c, CreateComment(db, d, parent, author, body))
    BY <1>4 DEF CreateOn, ReplyStore
  <2>2. PICK stored : stored = CreateComment(db, d, parent, author, body)
    OBVIOUS
  <2>3. PICK k : k = db.next.comments
    OBVIOUS
  <2>4. \/ s = Idle
        \/ /\ db' = stored
           /\ s = [kind |-> "post", comment |-> k, due |-> Recipients(stored, k), failed |-> FALSE, news |-> {}]
    <3>1. Execute(c, stored,
            [kind |-> "post", comment |-> k, due |-> Recipients(stored, k), failed |-> FALSE, news |-> {}], Idle)
      BY <2>1, <2>2, <2>3 DEF Post
    <3> QED BY <1>1, <3>1, GoesOn
  <2>5. ASSUME db' = stored
        PROVE  k \notin DOMAIN db.comments /\ k < db'.next.comments /\ db'.notices = db.notices
    <3>1. PICK row : db' = Insert(db, "comments", row)
      BY <2>2, <2>5 DEF CreateComment
    <3>2. k \notin DOMAIN db.comments /\ db'.notices = db.notices
      BY <1>1, <1>3, <2>3, <3>1, InsertGrows
    <3>3. k \in Nat /\ "next" \in DOMAIN db /\ "comments" \in DOMAIN db.next
      BY <1>1, <1>3, <2>3 DEF Typed, Id
    <3>4. db'.next.comments = k + 1
      BY <2>3, <3>1, <3>3 DEF Insert
    <3> QED BY <3>2, <3>3, <3>4
  <2>6. CASE s = Idle
    BY <2>6
  <2>7. CASE /\ db' = stored
             /\ s = [kind |-> "post", comment |-> k, due |-> Recipients(stored, k), failed |-> FALSE, news |-> {}]
    BY <2>3, <2>5, <2>7
  <2> QED BY <2>4, <2>6, <2>7
<1>5. ASSUME Notify(c)
      PROVE  \E p \in r.due :
               LET new == CreateNotification(db, NoticeOf(r.comment, p))
               IN /\ r.kind = "post" /\ s.comment = r.comment /\ s.due = r.due \ {p} /\ s.failed = r.failed
                  /\ IF r.comment \in DOMAIN db.comments /\ Consistent(new) THEN db' = new ELSE db' = db
  <2>1. r.kind = "post"
    BY <1>5 DEF Notify
  <2>2. PICK p \in r.due :
          LET next == [r EXCEPT !.due = r.due \ {p}]
          IN IF r.comment \in DOMAIN db.comments
               THEN Execute(c, CreateNotification(db, NoticeOf(r.comment, p)), next, next)
               ELSE Go(c, next)
    BY <1>5 DEF Notify, NoticeOf
  <2>3. PICK due : due = r.due \ {p}
    OBVIOUS
  <2>4. s = [r EXCEPT !.due = due]
    BY <1>1, <2>2, <2>3, GoesOn
  <2>5. s.comment = r.comment /\ s.due = due /\ s.failed = r.failed
    BY <1>2, <2>1, <2>4
  <2>6. PICK new : new = CreateNotification(db, NoticeOf(r.comment, p))
    OBVIOUS
  <2>7. IF r.comment \in DOMAIN db.comments /\ Consistent(new) THEN db' = new ELSE db' = db
    BY <1>1, <2>2, <2>6, GoesOn
  <2> QED BY <2>1, <2>3, <2>5, <2>6, <2>7
<1>6. ASSUME NotifyFails(c)
      PROVE  r.kind = "post" /\ db' = db /\ s.comment = r.comment /\ s.due \subseteq r.due /\ s.failed
  <2>1. r.kind = "post"
    BY <1>6 DEF NotifyFails
  <2>2. PICK lost : Go(c, [r EXCEPT !.due = r.due \ lost, !.failed = TRUE])
    BY <1>6 DEF NotifyFails
  <2>3. PICK due : due = r.due \ lost
    OBVIOUS
  <2>4. s = [r EXCEPT !.due = due, !.failed = TRUE] /\ db' = db
    BY <1>1, <2>2, <2>3, GoesOn
  <2> QED BY <1>2, <2>1, <2>3, <2>4
<1> QED BY <1>4, <1>5, <1>6

\* A notification of a comment that is there meets the constraints.
LEMMA NotificationStands ==
  ASSUME Typed(db), Consistent(db), NEW k \in DOMAIN db.comments, NEW p
  PROVE  Consistent(CreateNotification(db, NoticeOf(k, p)))
<1> PICK t : t = CreateNotification(db, NoticeOf(k, p))
  OBVIOUS
<1>1. "notices" \in Numbered /\ {"spaces", "collections", "documents", "templates", "comments"} \subseteq Numbered
  BY DEF Numbered
<1>2. /\ \A other \in Numbered \ {"notices"} : t[other] = db[other]
      /\ DOMAIN t.notices = DOMAIN db.notices \cup {db.next.notices}
      /\ t.notices[db.next.notices] = NoticeOf(k, p)
      /\ \A i \in DOMAIN db.notices : t.notices[i] = db.notices[i]
  BY <1>1, InsertLeaves, TypedShaped DEF CreateNotification
<1>3. t.members = db.members
  <2>1. "members" \notin Numbered /\ "members" # "next" /\ "members" \in DOMAIN db
    BY DEF Typed, Numbered
  <2> QED BY <2>1 DEF CreateNotification, Insert
<1>4. /\ t.spaces = db.spaces /\ t.collections = db.collections /\ t.documents = db.documents
      /\ t.templates = db.templates /\ t.comments = db.comments
  BY <1>1, <1>2
<1>5. SlugsUnique(t)
  BY <1>4 DEF Consistent, SlugsUnique
<1>6. db.comments[k].document \in DOMAIN db.documents
  BY DEF Consistent, ReferencesResolve
<1>7. NoticeOf(k, p).document = db.comments[k].document /\ NoticeOf(k, p).comment = k
  BY DEF NoticeOf
<1>8. ReferencesResolve(t)
  <2>1. ASSUME NEW n \in DOMAIN t.notices
        PROVE  t.notices[n].document \in DOMAIN t.documents /\ t.notices[n].comment \in DOMAIN t.comments
    BY <1>2, <1>4, <1>6, <1>7 DEF Consistent, ReferencesResolve
  <2> QED BY <1>3, <1>4, <2>1 DEF Consistent, ReferencesResolve
<1> QED BY <1>5, <1>8 DEF Consistent

Tells(n, k, p) == n.comment = k /\ n.user = p[1] /\ n.kind = p[2]

\* What is left to say of a comment, and what has been said: who is due has no notification
\* yet, and unless an insert failed everyone else whom it concerns has one.
PostsInv ==
  /\ Earned(db)
  /\ \A c, q \in Clients :
       requests[c].kind = "post" /\ requests[q].kind = "post" /\ requests[c].comment = requests[q].comment
         => c = q
  /\ \A c \in Clients : requests[c].kind = "post" =>
       LET r == requests[c]
           k == r.comment
       IN /\ k < db.next.comments
          /\ k \in DOMAIN db.comments =>
               /\ r.due \subseteq Recipients(db, k)
               /\ \A n \in DOMAIN db.notices, p \in r.due : ~Tells(db.notices[n], k, p)
               /\ ~r.failed => \A p \in Recipients(db, k) :
                    p \in r.due \/ \E n \in DOMAIN db.notices : Tells(db.notices[n], k, p)

\* Recipients of a comment are the same as long as it is there.
LEMMA RecipientsKept ==
  ASSUME Typed(db), Typed(db'), Consistent(db), Consistent(db'), Stands,
         NEW k \in (DOMAIN db.comments) \cap DOMAIN db'.comments
  PROVE  Recipients(db', k) = Recipients(db, k)
<1>1. \A j \in (DOMAIN db.comments) \cap DOMAIN db'.comments :
         /\ db'.comments[j].parent = db.comments[j].parent /\ db'.comments[j].author = db.comments[j].author
         /\ db'.comments[j].posted = db.comments[j].posted
  BY DiscussionKeeps DEF CommentFields
<1>2. db.comments[k].parent # None =>
         db.comments[k].parent \in (DOMAIN db.comments) \cap DOMAIN db'.comments
  BY <1>1 DEF Consistent, ReferencesResolve
<1> QED BY <1>1, <1>2 DEF Recipients

\* What is notified was due, and is due no longer.
LEMMA NextEarned ==
  ASSUME TypesInv, TypesInv', PostsInv, [Next]_dvars
  PROVE  Earned(db')
<1>1. Typed(db) /\ Typed(db') /\ Stands /\ Consistent(db) /\ Consistent(db')
  BY NextStands, TypedShaped DEF TypesInv
<1> DEFINE Behind(t, n) ==
      LET notice == t.notices[n]
          k == t.comments[notice.comment]
      IN /\ notice.document = k.document /\ notice.actor = k.author /\ notice.user # k.author
         /\ IF notice.kind = "comment_reply"
              THEN k.parent # None /\ notice.user = t.comments[k.parent].author
              ELSE notice.user \in Mentioned(k.posted)
<1>2. \A n \in DOMAIN db.notices :
         /\ n \in DOMAIN db'.notices
         /\ db'.notices[n].user = db.notices[n].user /\ db'.notices[n].kind = db.notices[n].kind
         /\ db'.notices[n].comment = db.notices[n].comment /\ db'.notices[n].actor = db.notices[n].actor
         /\ db'.notices[n].document = db.notices[n].document
  BY <1>1, DiscussionKeeps DEF NoticeKey
<1>3. \A j \in (DOMAIN db.comments) \cap DOMAIN db'.comments :
         /\ db'.comments[j].parent = db.comments[j].parent /\ db'.comments[j].author = db.comments[j].author
         /\ db'.comments[j].posted = db.comments[j].posted /\ db'.comments[j].document = db.comments[j].document
  BY <1>1, DiscussionKeeps DEF CommentFields
<1>4. ASSUME NEW n \in DOMAIN db.notices PROVE Behind(db', n)
  <2>1. PICK k : k = db.notices[n].comment
    OBVIOUS
  <2>2. k \in (DOMAIN db.comments) \cap DOMAIN db'.comments
    BY <1>1, <1>2, <2>1 DEF Consistent, ReferencesResolve
  <2>3. db.comments[k].parent # None =>
          db.comments[k].parent \in (DOMAIN db.comments) \cap DOMAIN db'.comments
    BY <1>1, <1>3, <2>2 DEF Consistent, ReferencesResolve
  <2>4. Behind(db, n)
    BY DEF PostsInv, Earned
  <2> QED BY <1>2, <1>3, <2>1, <2>2, <2>3, <2>4
<1>5. ASSUME NEW n \in DOMAIN db'.notices \ DOMAIN db.notices
      PROVE  /\ n = db.next.notices /\ Behind(db', n)
             /\ \A m \in DOMAIN db.notices :
                  ~(/\ db'.notices[m].comment = db'.notices[n].comment
                    /\ db'.notices[m].user = db'.notices[n].user
                    /\ db'.notices[m].kind = db'.notices[n].kind)
  <2>1. PICK c \in Clients : \E p \in requests[c].due :
          /\ Notify(c) /\ requests[c].comment \in DOMAIN db.comments
          /\ db'.notices[n] = NoticeOf(requests[c].comment, p)
    BY <1>1, <1>5, DiscussionKeeps
  <2>2. PICK p \in requests[c].due : db'.notices[n] = NoticeOf(requests[c].comment, p)
    BY <2>1
  <2>3. PICK k : k = requests[c].comment
    OBVIOUS
  <2>4. n = db.next.notices /\ db'.comments = db.comments /\ k \in DOMAIN db.comments
    BY <1>1, <1>5, <2>1, <2>3, DiscussionKeeps
  <2>5. requests[c].kind = "post"
    BY <2>1 DEF Notify
  <2>6. p \in Recipients(db, k) /\ \A m \in DOMAIN db.notices : ~Tells(db.notices[m], k, p)
    BY <2>2, <2>3, <2>4, <2>5 DEF PostsInv
  <2>7. /\ db'.notices[n].user = p[1] /\ db'.notices[n].kind = p[2] /\ db'.notices[n].comment = k
        /\ db'.notices[n].document = db.comments[k].document /\ db'.notices[n].actor = db.comments[k].author
    BY <2>2, <2>3 DEF NoticeOf
  <2>8. Behind(db', n)
    BY <2>4, <2>6, <2>7 DEF Recipients
  <2> QED BY <1>2, <2>4, <2>6, <2>7, <2>8 DEF Tells
<1>6. \A n \in DOMAIN db'.notices : Behind(db', n)
  BY <1>4, <1>5
<1>7. ASSUME NEW n \in DOMAIN db'.notices, NEW m \in DOMAIN db'.notices,
             /\ db'.notices[m].comment = db'.notices[n].comment
             /\ db'.notices[m].user = db'.notices[n].user
             /\ db'.notices[m].kind = db'.notices[n].kind
      PROVE  m = n
  <2>1. CASE n \in DOMAIN db.notices /\ m \in DOMAIN db.notices
    BY <1>2, <1>7, <2>1 DEF PostsInv, Earned
  <2>2. CASE n \notin DOMAIN db.notices \/ m \notin DOMAIN db.notices
    BY <1>5, <1>7, <2>2
  <2> QED BY <2>1, <2>2
<1> QED BY <1>6, <1>7 DEF Earned

LEMMA NextPosts ==
  ASSUME TypesInv, TypesInv', PostsInv, [Next]_dvars
  PROVE  PostsInv'
<1>1. Typed(db) /\ Typed(db') /\ Stands /\ Consistent(db) /\ Consistent(db') /\ DOMAIN requests = Clients
  BY NextStands, TypedShaped DEF TypesInv, RequestsProper
<1>2. /\ db.next.comments <= db'.next.comments
      /\ \A k \in DOMAIN db'.comments \ DOMAIN db.comments : db.next.comments <= k
      /\ db.next.comments \in Nat /\ db'.next.comments \in Nat /\ DOMAIN db'.comments \subseteq Nat
  <2>1. "comments" \in Numbered
    BY DEF Numbered
  <2> QED BY <1>1, <2>1, NextLeaves, IdsTyped DEF Grown, Id
<1>3. /\ \A c \in Clients : requests[c].kind = "post" => requests[c].comment \in Nat
      /\ \A c \in Clients : requests'[c].kind = "post" => requests'[c].comment \in Nat
  BY KindTyped DEF TypesInv, RequestsProper, Posts, Id
<1>4. \/ \A q \in Clients : Left(q)
      \/ \E c \in Clients : Acts(c) /\ \A q \in Clients \ {c} : Left(q)
  BY <1>1, WhoActs, TypedShaped
<1>5. \A q \in Clients : Left(q) =>
         /\ requests'[q].kind = requests[q].kind
         /\ requests[q].kind = "post" =>
              /\ requests'[q].comment = requests[q].comment /\ requests'[q].due = requests[q].due
              /\ requests'[q].failed = requests[q].failed
  BY <1>1, LeftKinds
<1>6. Idle.kind = "idle"
  BY DEF Idle
\* What an actor goes on with: a comment of its own, or the one that it has made.
<1>7. ASSUME NEW c \in Clients, Acts(c), requests'[c].kind = "post"
      PROVE  \/ /\ requests[c].kind = "post" /\ requests'[c].comment = requests[c].comment
                /\ Notify(c) \/ NotifyFails(c)
             \/ /\ CreateOn(c) \/ ReplyStore(c)
                /\ requests'[c].comment = db.next.comments /\ requests'[c].due = Recipients(db', db.next.comments)
                /\ db.next.comments \notin DOMAIN db.comments /\ db.next.comments < db'.next.comments
                /\ db'.notices = db.notices
  <2>1. CreateOn(c) \/ ReplyStore(c) \/ Notify(c) \/ NotifyFails(c)
    BY <1>1, <1>7, KindOfActs
  <2>2. CASE Notify(c) \/ NotifyFails(c)
    BY <2>2, PostGoes
  <2>3. CASE CreateOn(c) \/ ReplyStore(c)
    BY <1>6, <1>7, <2>3, PostGoes
  <2> QED BY <2>1, <2>2, <2>3
<1>8. \A c, q \in Clients :
         requests'[c].kind = "post" /\ requests'[q].kind = "post" /\ requests'[c].comment = requests'[q].comment
           => c = q
  <2>1. \A c \in Clients : requests[c].kind = "post" => requests[c].comment < db.next.comments
    BY DEF PostsInv
  <2> SUFFICES ASSUME NEW c \in Clients, NEW q \in Clients,
                      requests'[c].kind = "post", requests'[q].kind = "post",
                      requests'[c].comment = requests'[q].comment, c # q
               PROVE  FALSE
    OBVIOUS
  <2>2. CASE Left(c) /\ Left(q)
    BY <1>5, <2>2 DEF PostsInv
  <2>3. CASE Acts(c) /\ Left(q)
    BY <1>2, <1>3, <1>5, <1>7, <2>1, <2>3 DEF PostsInv
  <2>4. CASE Left(c) /\ Acts(q)
    BY <1>2, <1>3, <1>5, <1>7, <2>1, <2>4 DEF PostsInv
  <2> QED BY <1>4, <2>2, <2>3, <2>4
<1>9. ASSUME NEW c \in Clients, requests'[c].kind = "post", NEW k, k = requests'[c].comment
      PROVE  /\ k < db'.next.comments
             /\ k \in DOMAIN db'.comments =>
                  /\ requests'[c].due \subseteq Recipients(db', k)
                  /\ \A n \in DOMAIN db'.notices, p \in requests'[c].due : ~Tells(db'.notices[n], k, p)
                  /\ ~requests'[c].failed => \A p \in Recipients(db', k) :
                       p \in requests'[c].due \/ \E n \in DOMAIN db'.notices : Tells(db'.notices[n], k, p)
  <2>1. CASE requests[c].kind = "post" /\ k = requests[c].comment /\ (Left(c) \/ Notify(c) \/ NotifyFails(c))
    <3> PICK r : r = requests[c]
      OBVIOUS
    <3> PICK s : s = requests'[c]
      OBVIOUS
    <3>1. k < db'.next.comments /\ k < db.next.comments /\ k \in Nat
      BY <1>2, <1>3, <2>1 DEF PostsInv
    <3> SUFFICES ASSUME k \in DOMAIN db'.comments
                 PROVE  /\ s.due \subseteq Recipients(db', k)
                        /\ \A n \in DOMAIN db'.notices, p \in s.due : ~Tells(db'.notices[n], k, p)
                        /\ ~s.failed => \A p \in Recipients(db', k) :
                             p \in s.due \/ \E n \in DOMAIN db'.notices : Tells(db'.notices[n], k, p)
      BY <3>1
    <3>2. k \in DOMAIN db.comments
      BY <1>2, <3>1
    <3>3. Recipients(db', k) = Recipients(db, k)
      BY <1>1, <3>2, RecipientsKept
    <3>4. /\ r.due \subseteq Recipients(db, k)
          /\ \A n \in DOMAIN db.notices, p \in r.due : ~Tells(db.notices[n], k, p)
          /\ ~r.failed => \A p \in Recipients(db, k) :
               p \in r.due \/ \E n \in DOMAIN db.notices : Tells(db.notices[n], k, p)
      BY <2>1, <3>2 DEF PostsInv
    <3>5. ASSUME NEW n \in DOMAIN db.notices
          PROVE  n \in DOMAIN db'.notices /\ \A p : Tells(db'.notices[n], k, p) <=> Tells(db.notices[n], k, p)
      BY <1>1, DiscussionKeeps DEF NoticeKey, Tells
    <3>6. \/ s.due = r.due /\ s.failed = r.failed
          \/ /\ Notify(c)
             /\ \E p \in r.due : /\ s.due = r.due \ {p} /\ s.failed = r.failed
                                 /\ db' = CreateNotification(db, NoticeOf(k, p))
          \/ db' = db /\ s.due \subseteq r.due /\ s.failed
      <4>1. CASE Left(c)
        BY <1>5, <2>1, <4>1
      <4>2. CASE Notify(c)
        BY <1>1, <2>1, <3>2, <4>2, PostGoes, NotificationStands
      <4>3. CASE NotifyFails(c)
        BY <4>3, PostGoes
      <4> QED BY <2>1, <4>1, <4>2, <4>3
    \* A new notification is its own, of one who is due no longer, or of another comment.
    <3>7. ASSUME NEW n \in DOMAIN db'.notices \ DOMAIN db.notices, NEW p \in s.due
          PROVE  ~Tells(db'.notices[n], k, p)
      <4>1. PICK q \in Clients : \E o \in requests[q].due :
              /\ Notify(q) /\ db' = CreateNotification(db, NoticeOf(requests[q].comment, o))
              /\ db'.notices[n] = NoticeOf(requests[q].comment, o)
        BY <1>1, <3>7, DiscussionKeeps
      <4>2. PICK o \in requests[q].due : /\ db' = CreateNotification(db, NoticeOf(requests[q].comment, o))
                                        /\ db'.notices[n] = NoticeOf(requests[q].comment, o)
        BY <4>1
      <4>3. requests[q].kind = "post"
        BY <4>1 DEF Notify
      <4>4. /\ db'.notices[n].comment = requests[q].comment /\ db'.notices[n].user = o[1]
            /\ db'.notices[n].kind = o[2]
        <5>1. db'.notices[n] = NoticeOf(requests[q].comment, o)
          BY <4>2
        <5> QED BY <5>1 DEF NoticeOf
      <4>5. CASE q # c
        BY <2>1, <4>3, <4>4, <4>5 DEF PostsInv, Tells
      <4>6. CASE q = c
        <5>1. PICK d \in r.due : s.due = r.due \ {d} /\ IF r.comment \in DOMAIN db.comments /\
                Consistent(CreateNotification(db, NoticeOf(r.comment, d)))
                  THEN db' = CreateNotification(db, NoticeOf(r.comment, d)) ELSE db' = db
          BY <4>1, <4>6, PostGoes
        <5>2. db' = CreateNotification(db, NoticeOf(k, d))
          BY <1>1, <2>1, <3>2, <5>1, NotificationStands
        <5>3. db'.notices[n] = NoticeOf(k, d)
          <6>1. "notices" \in Numbered
            BY DEF Numbered
          <6> QED BY <1>1, <3>7, <5>2, <6>1, InsertGrows DEF CreateNotification
        <5>4. d[1] # p[1] \/ d[2] # p[2]
          <6>1. d \in Users \X NoticeKinds /\ p \in Users \X NoticeKinds
            <7>1. r \in Posts
              BY <2>1, KindTyped DEF TypesInv, RequestsProper
            <7> QED BY <5>1, <7>1 DEF Posts
          <6>2. d # p
            BY <5>1
          <6> QED BY <6>1, <6>2
        <5> QED BY <5>3, <5>4 DEF Tells, NoticeOf
      <4> QED BY <4>5, <4>6
    <3>8. s.due \subseteq r.due
      BY <3>6
    <3>9. \A n \in DOMAIN db'.notices, p \in s.due : ~Tells(db'.notices[n], k, p)
      BY <3>4, <3>5, <3>7, <3>8
    <3>10. ASSUME ~s.failed, NEW p \in Recipients(db, k), p \notin s.due
           PROVE  \E n \in DOMAIN db'.notices : Tells(db'.notices[n], k, p)
      <4>1. CASE \E n \in DOMAIN db.notices : Tells(db.notices[n], k, p)
        BY <3>5, <4>1
      <4>2. CASE p \in r.due
        <5>1. db' = CreateNotification(db, NoticeOf(k, p))
          BY <3>6, <3>10, <4>2
        <5>2. db.next.notices \in DOMAIN db'.notices /\ db'.notices[db.next.notices] = NoticeOf(k, p)
          <6>1. "notices" \in Numbered
            BY DEF Numbered
          <6> QED BY <1>1, <5>1, <6>1, InsertGrows DEF CreateNotification
        <5> QED BY <5>2 DEF Tells, NoticeOf
      <4> QED BY <3>4, <3>6, <3>10, <4>1, <4>2
    <3> QED BY <3>3, <3>4, <3>8, <3>9, <3>10
  <2>2. CASE /\ requests'[c].comment = db.next.comments
             /\ requests'[c].due = Recipients(db', db.next.comments)
             /\ db.next.comments \notin DOMAIN db.comments /\ db.next.comments < db'.next.comments
             /\ db'.notices = db.notices
    <3>1. \A n \in DOMAIN db'.notices : db'.notices[n].comment # k
      BY <1>1, <1>9, <2>2 DEF Consistent, ReferencesResolve
    <3> QED BY <1>9, <2>2, <3>1 DEF Tells
  <2>3. Left(c) => requests[c].kind = "post" /\ k = requests[c].comment
    BY <1>5, <1>9
  <2> QED BY <1>4, <1>7, <1>9, <2>1, <2>2, <2>3
<1> QED BY <1>8, <1>9, NextEarned DEF PostsInv

\* PostsInv holds throughout.
THEOREM PostsInvariant == Spec => []PostsInv
<1>1. Init => PostsInv
  <2> SUFFICES ASSUME Init PROVE PostsInv
    OBVIOUS
  <2>1. Earned(db)
    BY StartAssumption DEF Init
  <2>2. \A c \in Clients : requests[c].kind = "idle"
    BY DEF Init, Idle
  <2> QED BY <2>1, <2>2 DEF PostsInv
<1>2. TypesInv /\ TypesInv' /\ PostsInv /\ [Next]_dvars => PostsInv'
  BY NextPosts
<1> QED BY <1>1, <1>2, TypesInvariant, PTL DEF Spec

\* Nobody is notified of anything but what mentioned him, when it was posted, or replied to
\* him, and never twice, however postings, edits and deletions overlap or are cut short.
THEOREM NotificationsAreEarned == Spec => []NoticesAreEarned
<1>1. PostsInv => NoticesAreEarned
  BY DEF PostsInv, NoticesAreEarned
<1> QED BY <1>1, PostsInvariant, PTL

\* A posting that is through without an error has notified the author whom the comment replies
\* to, and everyone else whose whole address is a word behind an @ in it.
THEOREM PostsReachAll == Spec => []PostsNotifyAll
<1>1. PostsInv => PostsNotifyAll
  <2> SUFFICES ASSUME PostsInv PROVE PostsNotifyAll
    OBVIOUS
  <2>1. ASSUME NEW c \in Clients, requests[c].kind = "post", requests[c].due = {}, ~requests[c].failed,
               NEW k, k = requests[c].comment, k \in DOMAIN db.comments, NEW p \in Recipients(db, k)
        PROVE  \E n \in ListNotifications(db, p[1]) :
                 db.notices[n].comment = k /\ db.notices[n].kind = p[2]
    <3>1. \E n \in DOMAIN db.notices : Tells(db.notices[n], k, p)
      BY <2>1 DEF PostsInv
    <3> QED BY <3>1 DEF Tells, ListNotifications
  <2>2. ASSUME NEW k
        PROVE  /\ \A u \in Mentioned(db.comments[k].posted) \ {db.comments[k].author} :
                    <<u, "comment_mention">> \in Recipients(db, k)
               /\ db.comments[k].parent # None /\ db.comments[db.comments[k].parent].author # db.comments[k].author =>
                    <<db.comments[db.comments[k].parent].author, "comment_reply">> \in Recipients(db, k)
    BY DEF Recipients
  <2>3. ASSUME NEW c \in Clients, requests[c].kind = "post", requests[c].due = {}, ~requests[c].failed,
               NEW k, k = requests[c].comment, k \in DOMAIN db.comments, NEW u, NEW kind,
               <<u, kind>> \in Recipients(db, k)
        PROVE  \E n \in ListNotifications(db, u) : db.notices[n].comment = k /\ db.notices[n].kind = kind
    BY <2>1, <2>3
  <2>4. ASSUME NEW c \in Clients, requests[c].kind = "post", requests[c].due = {}, ~requests[c].failed,
               requests[c].comment \in DOMAIN db.comments,
               NEW u \in Users, u # db.comments[requests[c].comment].author,
               \E said \in db.comments[requests[c].comment].posted : \E i \in DOMAIN said : Email[u] = <<said[i]>>
        PROVE  \E n \in ListNotifications(db, u) :
                 db.notices[n].comment = requests[c].comment /\ db.notices[n].kind = "comment_mention"
    <3>1. PICK k : k = requests[c].comment
      OBVIOUS
    <3>5. u \in Mentioned(db.comments[k].posted)
      BY <2>4, <3>1 DEF Mentioned, GetUsersByEmails, ExtractMentions, Range
    <3>2. <<u, "comment_mention">> \in Recipients(db, k)
      BY <2>2, <2>4, <3>1, <3>5
    <3>3. PICK kind : kind = "comment_mention"
      OBVIOUS
    <3>4. <<u, kind>> \in Recipients(db, k) =>
            \E n \in ListNotifications(db, u) : db.notices[n].comment = k /\ db.notices[n].kind = kind
      BY <2>3, <2>4, <3>1
    <3> QED BY <2>4, <3>1, <3>2, <3>3, <3>4
  <2>5. ASSUME NEW c \in Clients, requests[c].kind = "post", requests[c].due = {}, ~requests[c].failed,
               requests[c].comment \in DOMAIN db.comments,
               NEW u, u = db.comments[db.comments[requests[c].comment].parent].author,
               db.comments[requests[c].comment].parent # None
        PROVE  \/ u = db.comments[requests[c].comment].author
               \/ \E n \in ListNotifications(db, u) :
                    db.notices[n].comment = requests[c].comment /\ db.notices[n].kind = "comment_reply"
    <3>1. PICK k : k = requests[c].comment
      OBVIOUS
    <3>2. u = db.comments[k].author \/ <<u, "comment_reply">> \in Recipients(db, k)
      BY <2>2, <2>5, <3>1
    <3>3. PICK kind : kind = "comment_reply"
      OBVIOUS
    <3>4. <<u, kind>> \in Recipients(db, k) =>
            \E n \in ListNotifications(db, u) : db.notices[n].comment = k /\ db.notices[n].kind = kind
      BY <2>3, <2>5, <3>1
    <3> QED BY <2>5, <3>1, <3>2, <3>3, <3>4
  <2> QED BY <2>4, <2>5 DEF PostsNotifyAll
<1> QED BY <1>1, PostsInvariant, PTL

-----------------------------------------------------------------------------
(* Seeds: what they make, and that they complete what they find *)

\* What a seed does in each of its steps.
LEMMA SeedGoes ==
  ASSUME TypesInv, NEW c \in Clients
  PROVE  LET r == requests[c]
             s == requests'[c]
             Same(fields) == \A f \in fields : s[f] = r[f]
         IN /\ SeedBegin(c) =>
                 /\ s.kind = "seed" /\ s.pc = "templates" /\ s.templates = SystemNames
                 /\ s.docs = DemoDocs /\ s.members = SeededUsers /\ db' = db
            /\ LookForTemplate(c) =>
                 \E name \in r.templates :
                   /\ r.kind = "seed" /\ r.pc = "templates" /\ db' = db /\ s.templates = r.templates \ {name}
                   /\ \/ s.pc = "templates" /\ GetSystemTemplateByName(db, name) # {}
                      \/ s.pc = "template" /\ s.name = name /\ GetSystemTemplateByName(db, name) = {}
                   /\ Same({"demo", "space", "members", "collection", "docs", "doc", "failed", "news"})
            /\ MakeTemplate(c) =>
                 LET new == CreateTemplate(db, [space |-> None, name |-> r.name, type |-> "runbook",
                                                system |-> TRUE, global |-> TRUE])
                 IN /\ r.kind = "seed" /\ r.pc = "template" /\ s.pc = "templates"
                    /\ IF Consistent(new) THEN db' = new ELSE db' = db
                    /\ Same({"demo", "templates", "name", "space", "members", "collection",
                             "docs", "doc", "failed", "news"})
            /\ TemplatesDone(c) =>
                 /\ r.kind = "seed" /\ r.pc = "templates" /\ r.templates = {} /\ db' = db
                 /\ s.pc = IF r.demo THEN "space" ELSE "done"
                 /\ Same({"demo", "templates", "name", "space", "members", "collection",
                          "docs", "doc", "failed", "news"})
            /\ TemplatesFail(c) =>
                 /\ r.kind = "seed" /\ db' = db /\ s.failed /\ s.pc \in {"space", "done"}
                 /\ Same({"demo", "name", "space", "members", "collection", "docs", "doc", "news"})
            /\ FindSpace(c) =>
                 /\ r.kind = "seed" /\ r.pc = "space" /\ db' = db
                 /\ s.pc = "newspace" \/ (s.pc = "members" /\ s.space \in DOMAIN db.spaces)
                 /\ Same({"demo", "templates", "name", "members", "collection", "docs", "doc", "failed", "news"})
            /\ MakeSpace(c) =>
                 \/ s = Idle
                 \/ /\ r.kind = "seed" /\ r.pc = "newspace" /\ s.pc = "members" /\ s.space = db.next.spaces
                    /\ db' = CreateSpace(db, Slug(DemoName))
                    /\ Same({"demo", "templates", "name", "members", "collection", "docs", "doc", "failed", "news"})
            /\ AddSeededMember(c) =>
                 \E u \in r.members :
                   LET new == AddSpaceMember(db, r.space, u)
                   IN /\ r.kind = "seed" /\ r.pc = "members" /\ s.pc = "members"
                      /\ s.members = r.members \ {u}
                      /\ \/ s.failed /\ db' = db
                         \/ s.failed = r.failed /\ IF Consistent(new) THEN db' = new ELSE db' = db
                      /\ Same({"demo", "templates", "name", "space", "collection", "docs", "doc", "news"})
            /\ FindOrCreateCollection(c) =>
                 \/ s = Idle
                 \/ /\ r.kind = "seed" /\ r.pc = "members" /\ r.members = {} /\ s.pc = "docs"
                    /\ \/ db' = CreateCollection(db, r.space, Slug(DemoName)) /\ s.collection = db.next.collections
                       \/ db' = db /\ s.collection \in ListCollectionsBySpace(db, r.space)
                    /\ Same({"demo", "templates", "name", "space", "members", "docs", "doc", "failed", "news"})
            /\ LookForDocument(c) =>
                 \E name \in r.docs :
                   /\ r.kind = "seed" /\ r.pc = "docs" /\ db' = db
                   /\ s.docs = r.docs \ {name} /\ s.name = name
                   /\ \/ s.pc = "create"
                      \/ s.pc = "file" /\ s.doc \in GetDocumentBySlug(db, r.space, Slug(name))
                      \/ /\ s.pc = "docs"
                         /\ \E d \in GetDocumentBySlug(db, r.space, Slug(name)) : db.documents[d].collection # None
                   /\ Same({"demo", "templates", "space", "members", "collection", "failed", "news"})
            /\ MakeDocument(c) =>
                 \/ s = Idle
                 \/ /\ r.kind = "seed" /\ r.pc = "create" /\ s.pc = "docs"
                    /\ db' = CreateDocument(db, [space |-> r.space, collection |-> r.collection,
                               slug |-> Slug(r.name), type |-> "runbook", status |-> "published", alert |-> None])
                    /\ Same({"demo", "templates", "name", "space", "members", "collection",
                             "docs", "doc", "failed", "news"})
            /\ FileDocument(c) =>
                 LET new == MoveDocumentToCollection(db, r.doc, r.collection)
                 IN /\ r.kind = "seed" /\ r.pc = "file" /\ s.pc = "docs" /\ s.doc = None
                    /\ \/ s.failed /\ db' = db
                       \/ s.failed = r.failed /\ IF Consistent(new) THEN db' = new ELSE db' = db
                    /\ Same({"demo", "templates", "name", "space", "members", "collection", "docs", "news"})
            /\ DocumentsDone(c) =>
                 /\ r.kind = "seed" /\ r.pc = "docs" /\ r.docs = {} /\ s.pc = "done" /\ db' = db
                 /\ Same({"demo", "templates", "name", "space", "members", "collection",
                          "docs", "doc", "failed", "news"})
<1> DEFINE Fields == {"kind", "pc", "demo", "templates", "name", "space", "members", "collection",
                      "docs", "doc", "failed", "news"}
<1> PICK r : r = requests[c]
  OBVIOUS
<1> PICK s : s = requests'[c]
  OBVIOUS
<1>1. Typed(db) /\ RequestsProper /\ DOMAIN requests = Clients /\ Proper(r)
  BY DEF TypesInv, RequestsProper
<1>2. r.kind = "seed" => r \in Seeds /\ DOMAIN r = Fields
  BY <1>1, KindTyped DEF Seeds
<1>3. ASSUME SeedBegin(c)
      PROVE  /\ s.kind = "seed" /\ s.pc = "templates" /\ s.templates = SystemNames
                 /\ s.docs = DemoDocs /\ s.members = SeededUsers /\ db' = db
  <2>1. PICK demo \in BOOLEAN :
          /\ s = [kind |-> "seed", pc |-> "templates", demo |-> demo, templates |-> SystemNames,
                  name |-> None, space |-> None, members |-> SeededUsers, collection |-> None,
                  docs |-> DemoDocs, doc |-> None, failed |-> FALSE, news |-> {}]
          /\ db' = db
    BY <1>1, <1>3, GoesOn DEF SeedBegin
  <2> QED BY <2>1
<1>4. ASSUME LookForTemplate(c)
      PROVE  \E name \in r.templates :
               /\ r.kind = "seed" /\ r.pc = "templates" /\ db' = db /\ s.templates = r.templates \ {name}
               /\ \/ s.pc = "templates" /\ GetSystemTemplateByName(db, name) # {}
                  \/ s.pc = "template" /\ s.name = name /\ GetSystemTemplateByName(db, name) = {}
               /\ \A f \in {"demo", "space", "members", "collection", "docs", "doc", "failed", "news"} : s[f] = r[f]
  <2>1. DOMAIN r = Fields /\ r.kind = "seed" /\ r.pc = "templates"
    BY <1>2, <1>4 DEF LookForTemplate, At
  <2>2. PICK name \in r.templates :
          Go(c, IF GetSystemTemplateByName(db, name) # {}
                  THEN [r EXCEPT !.templates = r.templates \ {name}]
                  ELSE [r EXCEPT !.templates = r.templates \ {name}, !.pc = "template", !.name = name])
    BY <1>4 DEF LookForTemplate
  <2>3. PICK templates, there : templates = r.templates \ {name} /\ there = GetSystemTemplateByName(db, name)
    OBVIOUS
  <2>4. /\ db' = db
        /\ \/ there # {} /\ s = [r EXCEPT !.templates = templates]
           \/ there = {} /\ s = [r EXCEPT !.templates = templates, !.pc = "template", !.name = name]
    BY <1>1, <2>2, <2>3, GoesOn
  <2>5. /\ s.templates = templates
        /\ \/ there # {} /\ s.pc = "templates"
           \/ there = {} /\ s.pc = "template" /\ s.name = name
        /\ \A f \in {"demo", "space", "members", "collection", "docs", "doc", "failed", "news"} : s[f] = r[f]
    BY <2>1, <2>4
  <2> QED BY <2>1, <2>3, <2>4, <2>5
<1>5. ASSUME MakeTemplate(c), NEW new,
             new = CreateTemplate(db, [space |-> None, name |-> r.name, type |-> "runbook",
                                       system |-> TRUE, global |-> TRUE])
      PROVE  /\ r.kind = "seed" /\ r.pc = "template" /\ s.pc = "templates"
             /\ IF Consistent(new) THEN db' = new ELSE db' = db
             /\ \A f \in {"demo", "templates", "name", "space", "members", "collection",
                          "docs", "doc", "failed", "news"} : s[f] = r[f]
  <2>1. DOMAIN r = Fields /\ r.kind = "seed" /\ r.pc = "template"
    BY <1>2, <1>5 DEF MakeTemplate, At
  <2>2. /\ s = [r EXCEPT !.pc = "templates"]
        /\ IF Consistent(new) THEN db' = new ELSE db' = db
    BY <1>1, <1>5, GoesOn DEF MakeTemplate
  <2> QED BY <2>1, <2>2
<1>6. ASSUME TemplatesDone(c)
      PROVE  /\ r.kind = "seed" /\ r.pc = "templates" /\ r.templates = {} /\ db' = db
             /\ s.pc = IF r.demo THEN "space" ELSE "done"
             /\ \A f \in {"demo", "templates", "name", "space", "members", "collection",
                          "docs", "doc", "failed", "news"} : s[f] = r[f]
  <2>1. DOMAIN r = Fields /\ r.kind = "seed" /\ r.pc = "templates" /\ r.templates = {}
    BY <1>2, <1>6 DEF TemplatesDone, At
  <2>2. PICK pc : pc = IF r.demo THEN "space" ELSE "done"
    OBVIOUS
  <2>3. s = [r EXCEPT !.pc = pc] /\ db' = db
    BY <1>1, <1>6, <2>2, GoesOn DEF TemplatesDone, BehindTemplates
  <2> QED BY <2>1, <2>2, <2>3
<1>15. ASSUME TemplatesFail(c)
       PROVE  /\ r.kind = "seed" /\ db' = db /\ s.failed /\ s.pc \in {"space", "done"}
              /\ \A f \in {"demo", "name", "space", "members", "collection", "docs", "doc", "news"} : s[f] = r[f]
  <2>1. DOMAIN r = Fields /\ r.kind = "seed"
    BY <1>2, <1>15 DEF TemplatesFail, At
  <2>2. PICK l : l = [r EXCEPT !.templates = {}, !.failed = TRUE]
    OBVIOUS
  <2>3. /\ DOMAIN l = Fields /\ l.failed
        /\ \A f \in {"demo", "name", "space", "members", "collection", "docs", "doc", "news"} : l[f] = r[f]
    BY <2>1, <2>2
  <2>4. PICK pc : pc = IF l.demo THEN "space" ELSE "done"
    OBVIOUS
  <2>5. s = [l EXCEPT !.pc = pc] /\ db' = db
    BY <1>1, <1>15, <2>2, <2>4, GoesOn DEF TemplatesFail, BehindTemplates
  <2>6. s.failed /\ s.pc = pc /\ pc \in {"space", "done"}
    BY <2>3, <2>4, <2>5
  <2>7. \A f \in {"demo", "name", "space", "members", "collection", "docs", "doc", "news"} : s[f] = l[f]
    BY <2>3, <2>5
  <2> QED BY <2>1, <2>3, <2>5, <2>6, <2>7
<1>7. ASSUME FindSpace(c)
      PROVE  /\ r.kind = "seed" /\ r.pc = "space" /\ db' = db
             /\ s.pc = "newspace" \/ (s.pc = "members" /\ s.space \in DOMAIN db.spaces)
             /\ \A f \in {"demo", "templates", "name", "members", "collection",
                          "docs", "doc", "failed", "news"} : s[f] = r[f]
  <2>1. DOMAIN r = Fields /\ r.kind = "seed" /\ r.pc = "space"
    BY <1>2, <1>7 DEF FindSpace, At
  <2>2. PICK there \in SUBSET DOMAIN db.spaces : there = GetSpaceBySlug(db, Slug(DemoName))
    BY DEF GetSpaceBySlug
  <2>3. PICK place \in IF there = {} THEN {None} ELSE there :
          Go(c, [r EXCEPT !.pc = IF place = None THEN "newspace" ELSE "members", !.space = place])
    BY <1>7, <2>2 DEF FindSpace
  <2>4. PICK pc : pc = IF place = None THEN "newspace" ELSE "members"
    OBVIOUS
  <2>5. s = [r EXCEPT !.pc = pc, !.space = place] /\ db' = db
    BY <1>1, <2>3, <2>4, GoesOn
  <2>6. pc = "newspace" \/ (pc = "members" /\ place \in DOMAIN db.spaces)
    BY <2>3, <2>4
  <2> QED BY <2>1, <2>5, <2>6
<1>8. ASSUME MakeSpace(c)
      PROVE  \/ s = Idle
             \/ /\ r.kind = "seed" /\ r.pc = "newspace" /\ s.pc = "members" /\ s.space = db.next.spaces
                /\ db' = CreateSpace(db, Slug(DemoName))
                /\ \A f \in {"demo", "templates", "name", "members", "collection",
                             "docs", "doc", "failed", "news"} : s[f] = r[f]
  <2>1. DOMAIN r = Fields /\ r.kind = "seed" /\ r.pc = "newspace"
    BY <1>2, <1>8 DEF MakeSpace, At
  <2>2. PICK new, place : new = CreateSpace(db, Slug(DemoName)) /\ place = db.next.spaces
    OBVIOUS
  <2>3. s = Idle \/ (db' = new /\ s = [r EXCEPT !.pc = "members", !.space = place])
    BY <1>1, <1>8, <2>2, GoesOn DEF MakeSpace
  <2> QED BY <2>1, <2>2, <2>3
<1>9. ASSUME AddSeededMember(c)
      PROVE  \E u \in r.members :
               LET new == AddSpaceMember(db, r.space, u)
               IN /\ r.kind = "seed" /\ r.pc = "members" /\ s.pc = "members"
                  /\ s.members = r.members \ {u}
                  /\ \/ s.failed /\ db' = db
                     \/ s.failed = r.failed /\ IF Consistent(new) THEN db' = new ELSE db' = db
                  /\ \A f \in {"demo", "templates", "name", "space", "collection", "docs", "doc", "news"} : s[f] = r[f]
  <2>1. DOMAIN r = Fields /\ r.kind = "seed" /\ r.pc = "members"
    BY <1>2, <1>9 DEF AddSeededMember, At
  <2>2. PICK u \in r.members :
          LET next == [r EXCEPT !.members = r.members \ {u}]
          IN \/ Execute(c, AddSpaceMember(db, next.space, u), next, next)
             \/ Go(c, [next EXCEPT !.failed = TRUE])
    BY <1>9 DEF AddSeededMember
  <2>3. PICK members : members = r.members \ {u}
    OBVIOUS
  <2>4. PICK next : next = [r EXCEPT !.members = members]
    OBVIOUS
  <2>5. /\ DOMAIN next = Fields /\ next.members = members
        /\ \A f \in {"pc", "demo", "templates", "name", "space", "collection", "docs", "doc", "failed", "news"} :
             next[f] = r[f]
    BY <2>1, <2>4
  <2>6. PICK new : new = AddSpaceMember(db, r.space, u)
    OBVIOUS
  <2>7. Execute(c, new, next, next) \/ Go(c, [next EXCEPT !.failed = TRUE])
    BY <2>2, <2>3, <2>4, <2>5, <2>6
  <2>8. \/ s = next /\ IF Consistent(new) THEN db' = new ELSE db' = db
        \/ s = [next EXCEPT !.failed = TRUE] /\ db' = db
    BY <1>1, <2>7, GoesOn
  <2>9. /\ s.members = members
        /\ \/ s.failed /\ db' = db
           \/ s.failed = r.failed /\ IF Consistent(new) THEN db' = new ELSE db' = db
        /\ \A f \in {"pc", "demo", "templates", "name", "space", "collection", "docs", "doc", "news"} : s[f] = r[f]
    BY <2>5, <2>8
  <2> QED BY <2>1, <2>3, <2>6, <2>9
<1>10. ASSUME FindOrCreateCollection(c)
       PROVE  \/ s = Idle
              \/ /\ r.kind = "seed" /\ r.pc = "members" /\ r.members = {} /\ s.pc = "docs"
                 /\ \/ db' = CreateCollection(db, r.space, Slug(DemoName)) /\ s.collection = db.next.collections
                    \/ db' = db /\ s.collection \in ListCollectionsBySpace(db, r.space)
                 /\ \A f \in {"demo", "templates", "name", "space", "members",
                              "docs", "doc", "failed", "news"} : s[f] = r[f]
  <2>1. DOMAIN r = Fields /\ r.kind = "seed" /\ r.pc = "members" /\ r.members = {}
    BY <1>2, <1>10 DEF FindOrCreateCollection, At
  <2>2. PICK new, next : new = CreateCollection(db, r.space, Slug(DemoName)) /\ next = db.next.collections
    OBVIOUS
  <2>3. \/ Execute(c, new, [r EXCEPT !.pc = "docs", !.collection = next], Idle)
        \/ \E k \in ListCollectionsBySpace(db, r.space) : Go(c, [r EXCEPT !.pc = "docs", !.collection = k])
    BY <1>10, <2>2 DEF FindOrCreateCollection
  <2>4. ASSUME Execute(c, new, [r EXCEPT !.pc = "docs", !.collection = next], Idle)
        PROVE  s = Idle \/ (db' = new /\ s = [r EXCEPT !.pc = "docs", !.collection = next])
    BY <1>1, <2>4, GoesOn
  <2>5. ASSUME NEW k \in ListCollectionsBySpace(db, r.space), Go(c, [r EXCEPT !.pc = "docs", !.collection = k])
        PROVE  db' = db /\ s = [r EXCEPT !.pc = "docs", !.collection = k]
    BY <1>1, <2>5, GoesOn
  <2>6. \/ s = Idle
        \/ db' = new /\ s = [r EXCEPT !.pc = "docs", !.collection = next]
        \/ \E k \in ListCollectionsBySpace(db, r.space) : db' = db /\ s = [r EXCEPT !.pc = "docs", !.collection = k]
    BY <2>3, <2>4, <2>5
  <2>7. ASSUME NEW k, s = [r EXCEPT !.pc = "docs", !.collection = k]
        PROVE  /\ s.pc = "docs" /\ s.collection = k
               /\ \A f \in {"demo", "templates", "name", "space", "members",
                            "docs", "doc", "failed", "news"} : s[f] = r[f]
    BY <2>1, <2>7
  <2> QED BY <2>1, <2>2, <2>6, <2>7
<1>11. ASSUME LookForDocument(c)
       PROVE  \E name \in r.docs :
                /\ r.kind = "seed" /\ r.pc = "docs" /\ db' = db
                /\ s.docs = r.docs \ {name} /\ s.name = name
                /\ \/ s.pc = "create"
                   \/ s.pc = "file" /\ s.doc \in GetDocumentBySlug(db, r.space, Slug(name))
                   \/ /\ s.pc = "docs"
                      /\ \E d \in GetDocumentBySlug(db, r.space, Slug(name)) : db.documents[d].collection # None
                /\ \A f \in {"demo", "templates", "space", "members", "collection", "failed", "news"} : s[f] = r[f]
  <2>1. DOMAIN r = Fields /\ r.kind = "seed" /\ r.pc = "docs"
    BY <1>2, <1>11 DEF LookForDocument, At
  <2>2. PICK name \in r.docs :
          LET l == [r EXCEPT !.docs = r.docs \ {name}, !.name = name]
              there == GetDocumentBySlug(db, l.space, Slug(name))
          IN \/ there = {} /\ Go(c, [l EXCEPT !.pc = "create"])
             \/ \E d \in there :
                  Go(c, IF db.documents[d].collection = None THEN [l EXCEPT !.pc = "file", !.doc = d] ELSE l)
    BY <1>11 DEF LookForDocument
  <2>3. PICK docs : docs = r.docs \ {name}
    OBVIOUS
  <2>4. PICK l : l = [r EXCEPT !.docs = docs, !.name = name]
    OBVIOUS
  <2>5. /\ DOMAIN l = Fields /\ l.docs = docs /\ l.name = name /\ l.pc = "docs"
        /\ \A f \in {"demo", "templates", "space", "members", "collection", "failed", "news"} : l[f] = r[f]
    BY <2>1, <2>4
  <2>6. PICK there : there = GetDocumentBySlug(db, r.space, Slug(name))
    OBVIOUS
  <2>7. \/ Go(c, [l EXCEPT !.pc = "create"])
        \/ \E d \in there : Go(c, IF db.documents[d].collection = None THEN [l EXCEPT !.pc = "file", !.doc = d] ELSE l)
    <3>1. GetDocumentBySlug(db, l.space, Slug(name)) = there
      BY <2>5, <2>6
    <3> QED BY <2>2, <2>3, <2>4, <3>1
  <2>8. ASSUME Go(c, [l EXCEPT !.pc = "create"])
        PROVE  /\ db' = db /\ s.docs = docs /\ s.name = name /\ s.pc = "create"
               /\ \A f \in {"demo", "templates", "space", "members", "collection", "failed", "news"} : s[f] = r[f]
    <3>1. s = [l EXCEPT !.pc = "create"] /\ db' = db
      BY <1>1, <2>8, GoesOn
    <3> QED BY <2>5, <3>1
  <2>9. ASSUME NEW d \in there,
               Go(c, IF db.documents[d].collection = None THEN [l EXCEPT !.pc = "file", !.doc = d] ELSE l)
        PROVE  /\ db' = db /\ s.docs = docs /\ s.name = name
               /\ \/ s.pc = "file" /\ s.doc = d
                  \/ s.pc = "docs" /\ db.documents[d].collection # None
               /\ \A f \in {"demo", "templates", "space", "members", "collection", "failed", "news"} : s[f] = r[f]
    <3>1. db' = db /\ (s = [l EXCEPT !.pc = "file", !.doc = d] \/ (s = l /\ db.documents[d].collection # None))
      BY <1>1, <2>9, GoesOn
    <3> QED BY <2>5, <3>1
  <2> QED BY <2>1, <2>3, <2>6, <2>7, <2>8, <2>9
<1>12. ASSUME MakeDocument(c)
       PROVE  \/ s = Idle
              \/ /\ r.kind = "seed" /\ r.pc = "create" /\ s.pc = "docs"
                 /\ db' = CreateDocument(db, [space |-> r.space, collection |-> r.collection,
                            slug |-> Slug(r.name), type |-> "runbook", status |-> "published", alert |-> None])
                 /\ \A f \in {"demo", "templates", "name", "space", "members", "collection",
                              "docs", "doc", "failed", "news"} : s[f] = r[f]
  <2>1. DOMAIN r = Fields /\ r.kind = "seed" /\ r.pc = "create"
    BY <1>2, <1>12 DEF MakeDocument, At
  <2>2. PICK new : new = CreateDocument(db, [space |-> r.space, collection |-> r.collection,
                           slug |-> Slug(r.name), type |-> "runbook", status |-> "published", alert |-> None])
    OBVIOUS
  <2>3. s = Idle \/ (db' = new /\ s = [r EXCEPT !.pc = "docs"])
    BY <1>1, <1>12, <2>2, GoesOn DEF MakeDocument
  <2> QED BY <2>1, <2>2, <2>3
<1>13. ASSUME FileDocument(c), NEW new, new = MoveDocumentToCollection(db, r.doc, r.collection)
       PROVE  /\ r.kind = "seed" /\ r.pc = "file" /\ s.pc = "docs" /\ s.doc = None
              /\ \/ s.failed /\ db' = db
                 \/ s.failed = r.failed /\ IF Consistent(new) THEN db' = new ELSE db' = db
              /\ \A f \in {"demo", "templates", "name", "space", "members", "collection", "docs", "news"} : s[f] = r[f]
  <2>1. DOMAIN r = Fields /\ r.kind = "seed" /\ r.pc = "file"
    BY <1>2, <1>13 DEF FileDocument, At
  <2>2. PICK next : next = [r EXCEPT !.pc = "docs", !.doc = None]
    OBVIOUS
  <2>3. /\ DOMAIN next = Fields /\ next.pc = "docs" /\ next.doc = None
        /\ \A f \in {"demo", "templates", "name", "space", "members", "collection", "docs", "failed", "news"} :
             next[f] = r[f]
    BY <2>1, <2>2
  <2>4. Execute(c, new, next, next) \/ Go(c, [next EXCEPT !.failed = TRUE])
    BY <1>13, <2>2 DEF FileDocument
  <2>5. \/ s = next /\ IF Consistent(new) THEN db' = new ELSE db' = db
        \/ s = [next EXCEPT !.failed = TRUE] /\ db' = db
    BY <1>1, <2>4, GoesOn
  <2>6. /\ s.pc = "docs" /\ s.doc = None
        /\ \/ s.failed /\ db' = db
           \/ s.failed = r.failed /\ IF Consistent(new) THEN db' = new ELSE db' = db
        /\ \A f \in {"demo", "templates", "name", "space", "members", "collection", "docs", "news"} : s[f] = r[f]
    BY <2>3, <2>5
  <2> QED BY <2>1, <2>6
<1>14. ASSUME DocumentsDone(c)
       PROVE  /\ r.kind = "seed" /\ r.pc = "docs" /\ r.docs = {} /\ s.pc = "done" /\ db' = db
              /\ \A f \in {"demo", "templates", "name", "space", "members", "collection",
                           "docs", "doc", "failed", "news"} : s[f] = r[f]
  <2>1. DOMAIN r = Fields /\ r.kind = "seed" /\ r.pc = "docs" /\ r.docs = {}
    BY <1>2, <1>14 DEF DocumentsDone, At
  <2>2. s = [r EXCEPT !.pc = "done"] /\ db' = db
    BY <1>1, <1>14, GoesOn DEF DocumentsDone
  <2> QED BY <2>1, <2>2
<1> QED BY <1>3, <1>4, <1>5, <1>6, <1>7, <1>8, <1>9, <1>10, <1>11, <1>12, <1>13, <1>14,
           <1>15

\* An insert of a template of no space, and a new member of a space that is there, stand.
LEMMA SeededStands ==
  ASSUME Typed(db), Consistent(db)
  PROVE  /\ \A row : row.space = None => Consistent(CreateTemplate(db, row))
         /\ \A s \in DOMAIN db.spaces, u \in Users : Consistent(AddSpaceMember(db, s, u))
<1>1. DOMAIN db = Numbered \cup {"members", "next"}
      /\ {"spaces", "collections", "documents", "templates", "comments", "notices"} \subseteq Numbered
  BY DEF Typed, Numbered
<1>2. ASSUME NEW row, row.space = None PROVE Consistent(CreateTemplate(db, row))
  <2> PICK t : t = Insert(db, "templates", row)
    OBVIOUS
  <2>1. /\ \A other \in Numbered \ {"templates"} : t[other] = db[other]
        /\ DOMAIN t.templates = DOMAIN db.templates \cup {db.next.templates}
        /\ t.templates[db.next.templates] = row
        /\ \A i \in DOMAIN db.templates : t.templates[i] = db.templates[i]
    BY <1>1, InsertLeaves, TypedShaped
  <2>2. t.members = db.members
    <3>1. "members" \notin Numbered /\ "members" # "next"
      BY DEF Numbered
    <3> QED BY <1>1, <3>1 DEF Insert
  <2>3. /\ t.spaces = db.spaces /\ t.collections = db.collections /\ t.documents = db.documents
        /\ t.notices = db.notices /\ t.comments = db.comments
    BY <1>1, <2>1
  <2>4. SlugsUnique(t)
    BY <2>3 DEF Consistent, SlugsUnique
  <2>5. \A p \in DOMAIN t.templates : t.templates[p].space \in DOMAIN t.spaces \cup {None}
    BY <1>2, <2>1, <2>3 DEF Consistent, ReferencesResolve
  <2>6. ReferencesResolve(t)
    BY <2>2, <2>3, <2>5 DEF Consistent, ReferencesResolve
  <2> QED BY <2>4, <2>6 DEF Consistent, CreateTemplate
<1>3. ASSUME NEW s \in DOMAIN db.spaces, NEW u \in Users PROVE Consistent(AddSpaceMember(db, s, u))
  <2> PICK members : members = db.members \cup {<<s, u>>}
    OBVIOUS
  <2> PICK t : t = [db EXCEPT !.members = members]
    OBVIOUS
  <2>1. /\ t.members = members
        /\ t.spaces = db.spaces /\ t.collections = db.collections /\ t.documents = db.documents
        /\ t.templates = db.templates /\ t.notices = db.notices /\ t.comments = db.comments
    BY <1>1
  <2>2. members \subseteq (DOMAIN t.spaces) \X Users
    <3>1. db.members \subseteq (DOMAIN db.spaces) \X Users
      BY DEF Consistent, ReferencesResolve
    <3> QED BY <2>1, <3>1
  <2>3. SlugsUnique(t)
    BY <2>1 DEF Consistent, SlugsUnique
  <2>4. ReferencesResolve(t)
    BY <2>1, <2>2 DEF Consistent, ReferencesResolve
  <2> QED BY <2>3, <2>4 DEF Consistent, AddSpaceMember
<1> QED BY <1>2, <1>3

\* Filing a document in a collection that is there stands.
LEMMA FilingStands ==
  ASSUME Typed(db), Consistent(db), NEW d \in DOMAIN db.documents, NEW k \in DOMAIN db.collections, NEW t,
         t = MoveDocumentToCollection(db, d, k)
  PROVE  /\ Consistent(t)
         /\ t.spaces = db.spaces /\ t.collections = db.collections /\ t.templates = db.templates
         /\ t.members = db.members /\ DOMAIN t.documents = DOMAIN db.documents
         /\ \A e \in DOMAIN db.documents :
              /\ t.documents[e].space = db.documents[e].space /\ t.documents[e].slug = db.documents[e].slug
              /\ t.documents[e].collection = IF e = d THEN k ELSE db.documents[e].collection
<1>1. DOMAIN db = Numbered \cup {"members", "next"}
      /\ {"spaces", "collections", "documents", "templates", "comments", "notices"} \subseteq Numbered
  BY DEF Typed, Numbered
<1>2. db.documents[d] \in Document
  BY DEF Typed
<1>3. PICK row : row = [db.documents[d] EXCEPT !.collection = k]
  OBVIOUS
<1>4. row.space = db.documents[d].space /\ row.slug = db.documents[d].slug /\ row.collection = k
  BY <1>2, <1>3 DEF Document
<1>5. t = [db EXCEPT !.documents[d] = row]
  BY <1>3 DEF MoveDocumentToCollection
<1>6. PICK rows : rows = [db.documents EXCEPT ![d] = row]
  OBVIOUS
<1>7. t = [db EXCEPT !.documents = rows]
  BY <1>5, <1>6
<1>8. /\ t.spaces = db.spaces /\ t.collections = db.collections /\ t.templates = db.templates
      /\ t.members = db.members /\ t.documents = rows /\ t.comments = db.comments /\ t.notices = db.notices
  BY <1>1, <1>7
<1>9. /\ DOMAIN rows = DOMAIN db.documents
      /\ \A e \in DOMAIN db.documents :
           /\ rows[e].space = db.documents[e].space /\ rows[e].slug = db.documents[e].slug
           /\ rows[e].collection = IF e = d THEN k ELSE db.documents[e].collection
  BY <1>4, <1>6
<1>10. SlugsUnique(t)
  BY <1>8, <1>9 DEF Consistent, SlugsUnique
<1>11. ReferencesResolve(t)
  BY <1>8, <1>9 DEF Consistent, ReferencesResolve
<1> QED BY <1>8, <1>9, <1>10, <1>11 DEF Consistent

Filed(t, s, name) == \E d \in GetDocumentBySlug(t, s, Slug(name)) : t.documents[d].collection # None

\* What a seed has read, unless it has been written since; and whatever others do its
\* collection, as long as it is there, is of its space.
SeedHolds(t, r) ==
  /\ r.pc = "template" => None \in r.news \/ GetSystemTemplateByName(t, r.name) = {}
  /\ r.pc = "file" => r.doc \in r.news \/ (r.doc \in DOMAIN t.documents /\ t.documents[r.doc].space = r.space)
  /\ r.pc \in {"docs", "create", "file"} =>
       /\ r.collection \in Id /\ r.collection < t.next.collections
       /\ r.collection \in DOMAIN t.collections => t.collections[r.collection].space = r.space

\* What a seed has made or found by its pc, when nothing has been written meanwhile and
\* nothing has gone wrong.
SeedHas(t, r) ==
  /\ \A name \in SystemNames \ r.templates :
       GetSystemTemplateByName(t, name) # {} \/ (r.pc = "template" /\ name = r.name)
  /\ r.pc \notin {"templates", "template"} => r.templates = {}
  /\ r.pc \in {"templates", "template", "space", "newspace"} => r.docs = DemoDocs /\ r.members = SeededUsers
  /\ r.pc = "members" =>
       /\ r.docs = DemoDocs /\ r.space \in DOMAIN t.spaces
       /\ SeededUsers \ r.members \subseteq ListSpaceMembers(t, r.space)
  /\ r.pc \in {"docs", "create", "file"} \/ (r.pc = "done" /\ r.demo) =>
       SeededUsers \subseteq ListSpaceMembers(t, r.space)
  /\ r.pc \in {"docs", "create", "file"} => r.collection \in DOMAIN t.collections
  /\ r.pc \in {"docs", "create", "file"} \/ (r.pc = "done" /\ r.demo) =>
       \A name \in DemoDocs \ r.docs :
         Filed(t, r.space, name) \/ (r.pc \in {"create", "file"} /\ name = r.name)
  /\ r.pc = "file" => r.doc \in GetDocumentBySlug(t, r.space, Slug(r.name))
  /\ r.pc = "done" /\ r.demo => r.docs = {}

SeedsInv ==
  \A c \in Clients : requests[c].kind = "seed" =>
    SeedHolds(db, requests[c]) /\ (requests[c].news = {} /\ ~requests[c].failed => SeedHas(db, requests[c]))

\* Steps of others leave a seed what it has.
LEMMA SeedLeft ==
  ASSUME TypesInv, TypesInv', Stands, SeedsInv, NEW c \in Clients, Left(c), requests[c].kind = "seed"
  PROVE  /\ SeedHolds(db', requests'[c])
         /\ requests'[c].news = {} /\ ~requests'[c].failed => SeedHas(db', requests'[c])
<1> PICK r : r = requests[c]
  OBVIOUS
<1> PICK s : s = requests'[c]
  OBVIOUS
<1>1. Typed(db) /\ Typed(db')
  BY DEF TypesInv
<1>2. /\ s.news = r.news \cup Written(db')
      /\ s.pc = r.pc /\ s.demo = r.demo /\ s.templates = r.templates
      /\ s.name = r.name /\ s.space = r.space /\ s.collection = r.collection
      /\ s.docs = r.docs /\ s.doc = r.doc /\ s.members = r.members /\ s.failed = r.failed
  BY <1>1, LeftKinds
<1>3. SeedHolds(db, r) /\ (r.news = {} /\ ~r.failed => SeedHas(db, r))
  BY DEF SeedsInv
<1>4. s.pc = "template" => None \in s.news \/ GetSystemTemplateByName(db', s.name) = {}
  <2>1. None \notin s.news => db'.templates = db.templates /\ None \notin r.news
    BY <1>2, Unwritten
  <2> QED BY <1>2, <1>3, <2>1 DEF SeedHolds, GetSystemTemplateByName
<1>5. s.pc = "file" => s.doc \in s.news \/ (s.doc \in DOMAIN db'.documents /\ db'.documents[s.doc].space = s.space)
  <2>1. s.doc \notin s.news =>
          /\ s.doc \notin r.news
          /\ s.doc \in DOMAIN db'.documents <=> s.doc \in DOMAIN db.documents
          /\ s.doc \in DOMAIN db.documents => db'.documents[s.doc] = db.documents[s.doc]
    BY <1>2, Unwritten
  <2> QED BY <1>2, <1>3, <2>1 DEF SeedHolds
<1>6. s.pc \in {"docs", "create", "file"} =>
        /\ s.collection \in Id /\ s.collection < db'.next.collections
        /\ s.collection \in DOMAIN db'.collections => db'.collections[s.collection].space = s.space
  <2>1. "collections" \in Numbered
    BY DEF Numbered
  <2>2. /\ db.next.collections \in Nat /\ db'.next.collections \in Nat
        /\ db.next.collections <= db'.next.collections
        /\ \A k \in DOMAIN db'.collections : k \in Nat
        /\ \A k \in DOMAIN db'.collections \ DOMAIN db.collections : db.next.collections <= k
        /\ \A k \in (DOMAIN db.collections) \cap DOMAIN db'.collections :
             db'.collections[k].space = db.collections[k].space
    BY <1>1, <2>1, NextLeaves, IdsTyped DEF Grown, Id
  <2> QED BY <1>2, <1>3, <2>2 DEF SeedHolds, Id
<1>7. s.news = {} /\ ~s.failed => SeedHas(db', s)
  <2> SUFFICES ASSUME s.news = {}, ~s.failed PROVE SeedHas(db', s)
    OBVIOUS
  <2>1. SeedHas(db, r) /\ Written(db') = {}
    BY <1>2, <1>3
  <2>2. /\ db'.spaces = db.spaces /\ db'.collections = db.collections
        /\ db'.templates = db.templates /\ db'.members = db.members
        /\ DOMAIN db'.documents = DOMAIN db.documents
        /\ \A d \in DOMAIN db.documents : db'.documents[d] = db.documents[d]
    BY <1>1, <2>1, NothingWritten
  <2>3. /\ \A name : GetSystemTemplateByName(db', name) = GetSystemTemplateByName(db, name)
        /\ \A place : ListSpaceMembers(db', place) = ListSpaceMembers(db, place)
        /\ \A place, slug : GetDocumentBySlug(db', place, slug) = GetDocumentBySlug(db, place, slug)
        /\ \A place, name : Filed(db', place, name) = Filed(db, place, name)
    <3>1. \A place, slug : GetDocumentBySlug(db', place, slug) = GetDocumentBySlug(db, place, slug)
      BY <2>2 DEF GetDocumentBySlug
    <3>2. \A place, slug : GetDocumentBySlug(db, place, slug) \subseteq DOMAIN db.documents
      BY DEF GetDocumentBySlug
    <3> QED BY <2>2, <3>1, <3>2 DEF GetSystemTemplateByName, ListSpaceMembers, Filed
  <2> QED BY <1>2, <2>1, <2>2, <2>3 DEF SeedHas
<1> QED BY <1>4, <1>5, <1>6, <1>7 DEF SeedHolds

\* A seed has what it goes on with.
LEMMA SeedActed ==
  ASSUME TypesInv, TypesInv', SeedsInv, NEW c \in Clients, SeedActs(c), requests'[c].kind = "seed"
  PROVE  /\ SeedHolds(db', requests'[c])
         /\ requests'[c].news = {} /\ ~requests'[c].failed => SeedHas(db', requests'[c])
<1> PICK r : r = requests[c]
  OBVIOUS
<1> PICK s : s = requests'[c]
  OBVIOUS
<1>1. Typed(db) /\ Typed(db') /\ Consistent(db) /\ Proper(r) /\ Proper(s)
  BY DEF TypesInv, RequestsProper
<1>2. /\ s # Idle
      /\ r.kind = "seed" => r \in Seeds /\ SeedHolds(db, r) /\ (r.news = {} /\ ~r.failed => SeedHas(db, r))
      /\ s \in Seeds
  BY <1>1, KindTyped DEF Idle, SeedsInv
<1>3. {"spaces", "collections", "templates", "documents"} \subseteq Numbered
      /\ DOMAIN db = Numbered \cup {"members", "next"}
  BY <1>1 DEF Numbered, Typed
<1>4. /\ DOMAIN db.collections \subseteq Nat /\ \A k \in DOMAIN db.collections : k < db.next.collections
      /\ db.next.collections \in Nat
  BY <1>1, <1>3 DEF Typed, Id
<1>5. CASE SeedBegin(c)
  BY <1>5, SeedGoes DEF SeedHolds, SeedHas
<1>6. CASE LookForTemplate(c)
  <2>1. PICK name \in r.templates :
          /\ r.kind = "seed" /\ r.pc = "templates" /\ db' = db /\ s.templates = r.templates \ {name}
          /\ \/ s.pc = "templates" /\ GetSystemTemplateByName(db, name) # {}
             \/ s.pc = "template" /\ s.name = name /\ GetSystemTemplateByName(db, name) = {}
          /\ s.docs = r.docs /\ s.members = r.members /\ s.failed = r.failed /\ s.news = r.news
    BY <1>6, SeedGoes
  <2> QED BY <1>2, <2>1 DEF SeedHolds, SeedHas
<1>7. CASE MakeTemplate(c)
  <2>1. PICK row : row = [space |-> None, name |-> r.name, type |-> "runbook", system |-> TRUE, global |-> TRUE]
    OBVIOUS
  <2>2. PICK new : new = CreateTemplate(db, row)
    OBVIOUS
  <2>3. /\ r.kind = "seed" /\ r.pc = "template" /\ s.pc = "templates"
        /\ IF Consistent(new) THEN db' = new ELSE db' = db
        /\ s.templates = r.templates /\ s.docs = r.docs /\ s.members = r.members
        /\ s.failed = r.failed /\ s.news = r.news
    BY <1>7, <2>1, <2>2, SeedGoes
  <2>4. row.space = None /\ row.system /\ row.name = r.name
    BY <2>1
  <2>5. db' = Insert(db, "templates", row)
    BY <1>1, <2>2, <2>3, <2>4, SeededStands DEF CreateTemplate
  <2>6. /\ db.next.templates \in DOMAIN db'.templates /\ db'.templates[db.next.templates] = row
        /\ \A p \in DOMAIN db.templates : p \in DOMAIN db'.templates /\ db'.templates[p] = db.templates[p]
    BY <1>1, <1>3, <2>5, InsertGrows
  <2>7. /\ GetSystemTemplateByName(db', r.name) # {}
        /\ \A name : GetSystemTemplateByName(db, name) \subseteq GetSystemTemplateByName(db', name)
    BY <2>4, <2>6 DEF GetSystemTemplateByName
  <2>8. s.news = {} /\ ~s.failed => \A name \in SystemNames \ s.templates : GetSystemTemplateByName(db', name) # {}
    BY <1>2, <2>3, <2>7 DEF SeedHas
  <2>9. s.news = {} /\ ~s.failed => s.docs = DemoDocs /\ s.members = SeededUsers
    BY <1>2, <2>3 DEF SeedHas
  <2> QED BY <2>3, <2>8, <2>9 DEF SeedHolds, SeedHas
<1>8. CASE TemplatesDone(c)
  <2>1. /\ r.kind = "seed" /\ r.pc = "templates" /\ r.templates = {} /\ db' = db
        /\ s.pc = IF r.demo THEN "space" ELSE "done"
        /\ s.templates = r.templates /\ s.docs = r.docs /\ s.news = r.news /\ s.demo = r.demo
        /\ s.members = r.members /\ s.failed = r.failed
    BY <1>8, SeedGoes
  <2> QED BY <1>2, <2>1 DEF SeedHolds, SeedHas
<1>9. CASE FindSpace(c)
  <2>1. /\ r.kind = "seed" /\ r.pc = "space" /\ db' = db
        /\ s.pc = "newspace" \/ (s.pc = "members" /\ s.space \in DOMAIN db.spaces)
        /\ s.templates = r.templates /\ s.docs = r.docs /\ s.news = r.news
        /\ s.members = r.members /\ s.failed = r.failed
    BY <1>9, SeedGoes
  <2> QED BY <1>2, <2>1 DEF SeedHolds, SeedHas
<1>10. CASE MakeSpace(c)
  <2>1. /\ r.kind = "seed" /\ r.pc = "newspace" /\ s.pc = "members" /\ s.space = db.next.spaces
        /\ db' = CreateSpace(db, Slug(DemoName))
        /\ s.templates = r.templates /\ s.docs = r.docs /\ s.news = r.news
        /\ s.members = r.members /\ s.failed = r.failed
    BY <1>2, <1>10, SeedGoes
  <2>2. db'.templates = db.templates /\ s.space \in DOMAIN db'.spaces
    <3>1. PICK row : db' = Insert(db, "spaces", row)
      BY <2>1 DEF CreateSpace
    <3> QED BY <1>1, <1>3, <2>1, <3>1, InsertGrows
  <2> QED BY <1>2, <2>1, <2>2 DEF SeedHolds, SeedHas, GetSystemTemplateByName
<1>17. CASE TemplatesFail(c)
  <2>1. s.failed /\ s.pc \in {"space", "done"}
    BY <1>17, SeedGoes
  <2> QED BY <2>1 DEF SeedHolds
<1>11. CASE AddSeededMember(c)
  <2>1. PICK u \in r.members :
          /\ r.kind = "seed" /\ r.pc = "members" /\ s.pc = "members"
          /\ s.members = r.members \ {u}
          /\ \/ s.failed /\ db' = db
             \/ s.failed = r.failed /\ IF Consistent(AddSpaceMember(db, r.space, u))
                                          THEN db' = AddSpaceMember(db, r.space, u)
                             ELSE db' = db
          /\ s.templates = r.templates /\ s.docs = r.docs /\ s.news = r.news /\ s.space = r.space
    BY <1>11, SeedGoes
  <2>2. SeedHolds(db', s)
    BY <2>1 DEF SeedHolds
  <2>3. ASSUME s.news = {}, ~s.failed PROVE SeedHas(db', s)
    <3>1. SeedHas(db, r) /\ r.space \in DOMAIN db.spaces /\ u \in Users
      BY <1>2, <2>1, <2>3, SeedAssumption DEF SeedHas, Seeds
    <3>2. db' = AddSpaceMember(db, r.space, u)
      BY <1>1, <2>1, <2>3, <3>1, SeededStands
    <3>3. /\ db'.templates = db.templates /\ db'.spaces = db.spaces
          /\ db'.members = db.members \cup {<<r.space, u>>}
      <4>1. PICK members : members = db.members \cup {<<r.space, u>>}
        OBVIOUS
      <4>2. db' = [db EXCEPT !.members = members]
        BY <2>1, <3>2, <4>1 DEF AddSpaceMember
      <4> QED BY <1>3, <4>1, <4>2
    <3>4. ListSpaceMembers(db, r.space) \cup {u} \subseteq ListSpaceMembers(db', r.space)
      <4>1. PICK m : m = <<r.space, u>>
        OBVIOUS
      <4>2. m \in {n \in db'.members : n[1] = r.space} /\ m[2] = u
        BY <3>3, <4>1
      <4> QED BY <3>3, <4>2 DEF ListSpaceMembers
    <3>5. SeededUsers \ s.members \subseteq ListSpaceMembers(db', s.space)
      BY <2>1, <3>1, <3>4 DEF SeedHas
    <3>6. \A name : GetSystemTemplateByName(db', name) = GetSystemTemplateByName(db, name)
      BY <3>3 DEF GetSystemTemplateByName
    <3> QED BY <2>1, <3>1, <3>3, <3>5, <3>6 DEF SeedHas
  <2> QED BY <2>2, <2>3
<1>12. CASE FindOrCreateCollection(c)
  <2>1. /\ r.kind = "seed" /\ r.pc = "members" /\ r.members = {} /\ s.pc = "docs"
        /\ \/ db' = CreateCollection(db, r.space, Slug(DemoName)) /\ s.collection = db.next.collections
           \/ db' = db /\ s.collection \in ListCollectionsBySpace(db, r.space)
        /\ s.templates = r.templates /\ s.docs = r.docs /\ s.news = r.news /\ s.space = r.space
        /\ s.failed = r.failed
    BY <1>2, <1>12, SeedGoes
  <2>2. /\ db'.templates = db.templates /\ db'.members = db.members
        /\ s.collection \in DOMAIN db'.collections /\ db'.collections[s.collection].space = s.space
    <3>1. CASE db' = db /\ s.collection \in ListCollectionsBySpace(db, r.space)
      BY <2>1, <3>1 DEF ListCollectionsBySpace
    <3>2. CASE db' = CreateCollection(db, r.space, Slug(DemoName)) /\ s.collection = db.next.collections
      <4>1. PICK row : db' = Insert(db, "collections", row) /\ row.space = r.space
        BY <3>2 DEF CreateCollection
      <4> QED BY <1>1, <1>3, <2>1, <3>2, <4>1, InsertGrows
    <3> QED BY <2>1, <3>1, <3>2
  <2>3. DOMAIN db'.collections \subseteq Nat /\ \A k \in DOMAIN db'.collections : k < db'.next.collections
    BY <1>1, <1>3 DEF Typed, Id
  <2>4. SeedHolds(db', s)
    BY <2>1, <2>2, <2>3 DEF SeedHolds, Id
  <2>5. s.news = {} /\ ~s.failed => SeedHas(db', s)
    BY <1>2, <2>1, <2>2 DEF SeedHas, GetSystemTemplateByName, ListSpaceMembers
  <2> QED BY <2>4, <2>5
<1>13. CASE LookForDocument(c)
  <2>1. PICK name \in r.docs :
          /\ r.kind = "seed" /\ r.pc = "docs" /\ db' = db
          /\ s.docs = r.docs \ {name} /\ s.name = name
          /\ \/ s.pc = "create"
             \/ s.pc = "file" /\ s.doc \in GetDocumentBySlug(db, r.space, Slug(name))
             \/ /\ s.pc = "docs"
                /\ \E d \in GetDocumentBySlug(db, r.space, Slug(name)) : db.documents[d].collection # None
          /\ s.templates = r.templates /\ s.space = r.space /\ s.collection = r.collection
          /\ s.failed = r.failed /\ s.news = r.news
    BY <1>13, SeedGoes
  <2>2. SeedHolds(db', s)
    BY <1>2, <2>1 DEF SeedHolds, GetDocumentBySlug
  <2>3. s.news = {} /\ ~s.failed => SeedHas(db', s)
    BY <1>2, <2>1 DEF SeedHas, Filed
  <2> QED BY <2>2, <2>3
<1>14. CASE MakeDocument(c)
  <2>1. PICK row : row = [space |-> r.space, collection |-> r.collection, slug |-> Slug(r.name),
                          type |-> "runbook", status |-> "published", alert |-> None]
    OBVIOUS
  <2>2. /\ r.kind = "seed" /\ r.pc = "create" /\ s.pc = "docs" /\ db' = CreateDocument(db, row)
        /\ s.templates = r.templates /\ s.space = r.space /\ s.collection = r.collection
        /\ s.docs = r.docs /\ s.news = r.news /\ s.name = r.name /\ s.failed = r.failed
    BY <1>2, <1>14, <2>1, SeedGoes
  <2>3. row.space = r.space /\ row.collection = r.collection /\ row.slug = Slug(r.name)
    BY <2>1
  <2>4. /\ \A other \in Numbered \ {"documents"} : db'[other] = db[other]
        /\ db'.members = db.members
        /\ db.next.documents \in DOMAIN db'.documents /\ db'.documents[db.next.documents] = row
        /\ \A d \in DOMAIN db.documents : d \in DOMAIN db'.documents /\ db'.documents[d] = db.documents[d]
        /\ db.next.collections <= db'.next.collections
    BY <1>1, <1>3, <2>2, InsertGrows DEF CreateDocument, Grown
  <2>5. db'.collections = db.collections /\ db'.templates = db.templates
    BY <1>3, <2>4
  <2>6. db'.next.collections \in Nat
    BY <1>1, <1>3 DEF Typed, Id
  <2>7. SeedHolds(db', s)
    BY <1>2, <1>4, <2>2, <2>4, <2>5, <2>6 DEF SeedHolds, Id
  <2>8. ASSUME s.news = {}, ~s.failed PROVE SeedHas(db', s)
    <3>1. SeedHas(db, r) /\ SeedHolds(db, r)
      BY <1>2, <2>2, <2>8
    <3>2. \A place, name : Filed(db, place, name) => Filed(db', place, name)
      BY <2>4 DEF Filed, GetDocumentBySlug
    <3>3. r.collection # None
      BY <2>2, <3>1, NoneAssumption DEF SeedHolds, Id
    <3>4. Filed(db', r.space, r.name)
      BY <2>3, <2>4, <3>3 DEF Filed, GetDocumentBySlug
    <3>5. \A name : GetSystemTemplateByName(db', name) = GetSystemTemplateByName(db, name)
      BY <2>5 DEF GetSystemTemplateByName
    <3>6. \A place : ListSpaceMembers(db', place) = ListSpaceMembers(db, place)
      BY <2>4 DEF ListSpaceMembers
    <3> QED BY <2>2, <2>5, <3>1, <3>2, <3>4, <3>5, <3>6 DEF SeedHas
  <2> QED BY <2>7, <2>8
<1>15. CASE FileDocument(c)
  <2>1. PICK new : new = MoveDocumentToCollection(db, r.doc, r.collection)
    OBVIOUS
  <2>2. /\ r.kind = "seed" /\ r.pc = "file" /\ s.pc = "docs"
        /\ \/ s.failed /\ db' = db
           \/ s.failed = r.failed /\ IF Consistent(new) THEN db' = new ELSE db' = db
        /\ s.templates = r.templates /\ s.space = r.space /\ s.collection = r.collection
        /\ s.docs = r.docs /\ s.news = r.news /\ s.name = r.name
    BY <1>15, <2>1, SeedGoes
  <2>3. db'.collections = db.collections /\ db'.next = db.next
    <3>1. new = db \/ \E rows : new = [db EXCEPT !.documents = rows]
      BY <2>1 DEF MoveDocumentToCollection
    <3> QED BY <1>3, <2>2, <3>1
  <2>4. SeedHolds(db', s)
    BY <1>2, <2>2, <2>3 DEF SeedHolds
  <2>5. ASSUME s.news = {}, ~s.failed PROVE SeedHas(db', s)
    <3>1. SeedHas(db, r) /\ SeedHolds(db, r)
      BY <1>2, <2>2, <2>5
    <3>2. /\ r.doc \in DOMAIN db.documents /\ r.collection \in DOMAIN db.collections
          /\ r.doc \in GetDocumentBySlug(db, r.space, Slug(r.name))
      BY <2>2, <3>1 DEF SeedHas, GetDocumentBySlug
    <3>3. db' = new
      BY <1>1, <2>1, <2>2, <2>5, <3>2, FilingStands
    <3>4. /\ db'.templates = db.templates /\ db'.members = db.members
          /\ DOMAIN db'.documents = DOMAIN db.documents
          /\ \A e \in DOMAIN db.documents :
               /\ db'.documents[e].space = db.documents[e].space /\ db'.documents[e].slug = db.documents[e].slug
               /\ db'.documents[e].collection = IF e = r.doc THEN r.collection ELSE db.documents[e].collection
      BY <1>1, <2>1, <3>2, <3>3, FilingStands
    <3>5. r.collection # None
      BY <2>2, <3>1, NoneAssumption DEF SeedHolds, Id
    <3>6. /\ \A place, name : Filed(db, place, name) => Filed(db', place, name)
          /\ Filed(db', r.space, r.name)
      BY <3>2, <3>4, <3>5 DEF Filed, GetDocumentBySlug
    <3>7. \A name : GetSystemTemplateByName(db', name) = GetSystemTemplateByName(db, name)
      BY <3>4 DEF GetSystemTemplateByName
    <3>8. \A place : ListSpaceMembers(db', place) = ListSpaceMembers(db, place)
      BY <3>4 DEF ListSpaceMembers
    <3> QED BY <2>2, <2>3, <3>1, <3>6, <3>7, <3>8 DEF SeedHas
  <2> QED BY <2>4, <2>5
<1>16. CASE DocumentsDone(c)
  <2>1. /\ r.kind = "seed" /\ r.pc = "docs" /\ r.docs = {} /\ s.pc = "done" /\ db' = db
        /\ s.templates = r.templates /\ s.space = r.space /\ s.docs = r.docs /\ s.news = r.news
        /\ s.failed = r.failed /\ s.demo = r.demo
    BY <1>16, SeedGoes
  <2> QED BY <1>2, <2>1 DEF SeedHolds, SeedHas
<1> QED BY <1>5, <1>6, <1>7, <1>8, <1>9, <1>10, <1>11, <1>12, <1>13, <1>14, <1>15, <1>16,
           <1>17 DEF SeedActs

LEMMA NextSeeds ==
  ASSUME TypesInv, TypesInv', SeedsInv, [Next]_dvars
  PROVE  SeedsInv'
<1>1. Typed(db) /\ Typed(db') /\ Stands /\ DOMAIN requests = Clients /\ Shaped(db)
  BY NextStands, TypedShaped DEF TypesInv, RequestsProper
<1>2. \/ \A q \in Clients : Left(q)
      \/ \E c \in Clients : Acts(c) /\ \A q \in Clients \ {c} : Left(q)
  BY <1>1, WhoActs
<1>3. \A c \in Clients : Left(c) => requests'[c].kind = requests[c].kind
  BY <1>1, LeftKinds
<1>4. \A c \in Clients : Acts(c) /\ requests'[c].kind = "seed" => SeedActs(c)
  BY <1>1, KindOfActs
<1>5. ASSUME NEW c \in Clients, requests'[c].kind = "seed"
      PROVE  /\ SeedHolds(db', requests'[c])
             /\ requests'[c].news = {} /\ ~requests'[c].failed => SeedHas(db', requests'[c])
  <2>1. CASE Left(c)
    BY <1>1, <1>3, <1>5, <2>1, SeedLeft
  <2>2. CASE Acts(c)
    BY <1>4, <1>5, <2>2, SeedActed
  <2> QED BY <1>2, <2>1, <2>2
<1> QED BY <1>5 DEF SeedsInv

\* SeedsInv holds throughout.
THEOREM SeedsInvariant == Spec => []SeedsInv
<1>1. Init => SeedsInv
  BY DEF Init, Idle, SeedsInv
<1>2. TypesInv /\ TypesInv' /\ SeedsInv /\ [Next]_dvars => SeedsInv'
  BY NextSeeds
<1> QED BY <1>1, <1>2, TypesInvariant, PTL DEF Spec

\* A seed that ends undisturbed, none of its own errors logged or ignored, has completed what
\* is missing, whatever earlier runs, cut short anywhere, have left of templates, members and
\* documents.
THEOREM SeedsCompleteWhatIsMissing == Spec => []SeedsComplete
<1>1. TypesInv /\ SeedsInv => SeedsComplete
  <2> SUFFICES ASSUME SeedsInv, NEW c \in Clients, At(c, "done"), requests[c].news = {},
                      ~requests[c].failed
               PROVE  /\ \A name \in SystemNames : GetSystemTemplateByName(db, name) # {}
                      /\ requests[c].demo =>
                           /\ SeededUsers \subseteq ListSpaceMembers(db, requests[c].space)
                           /\ \A name \in DemoDocs : Filed(db, requests[c].space, name)
    BY DEF SeedsComplete, Filed
  <2> QED BY DEF SeedsInv, SeedHas, At
<1> QED BY <1>1, TypesInvariant, SeedsInvariant, PTL

\* Every step leaves the system templates as they are, and may add one, in MakeTemplate.
LEMMA SystemTemplatesLeft ==
  ASSUME Typed(db), Stands, SystemWide(db)
  PROVE  /\ SystemWide(db')
         /\ \A p \in DOMAIN db.templates : db.templates[p].system =>
              p \in DOMAIN db'.templates /\ db'.templates[p] = db.templates[p]
         /\ \A p \in DOMAIN db'.templates : db'.templates[p].system =>
              \/ p \in DOMAIN db.templates /\ db.templates[p].system
              \/ /\ p = db.next.templates
                 /\ \E c \in Clients : MakeTemplate(c) /\ db'.templates[p].name = requests[c].name
<1>1. {"documents", "templates", "comments", "notices"} \subseteq Numbered
  BY DEF Numbered
<1>2. CASE db'.templates = db.templates
  BY <1>2 DEF SystemWide
<1>3. CASE PlacesWritten
  <2>1. Fewer("templates") /\ \A p \in DOMAIN db.templates : db.templates[p].space = None => p \in DOMAIN db'.templates
    BY <1>3, PlacesLeave
  <2> QED BY <2>1 DEF Fewer, SystemWide
<1>4. CASE TemplatesWritten
  <2>1. /\ \A p \in DOMAIN db.templates : db.templates[p].system =>
             p \in DOMAIN db'.templates /\ db'.templates[p] = db.templates[p]
        /\ \A p \in DOMAIN db'.templates :
             \/ p \in DOMAIN db.templates /\ db'.templates[p].system = db.templates[p].system
             \/ ~db'.templates[p].system
             \/ /\ p = db.next.templates
                /\ \E c \in Clients :
                     /\ MakeTemplate(c)
                     /\ db'.templates[p] = [space |-> None, name |-> requests[c].name, type |-> "runbook",
                                            system |-> TRUE, global |-> TRUE]
    BY <1>4, TemplatesLeave
  <2>2. ASSUME NEW p \in DOMAIN db'.templates, db'.templates[p].system
        PROVE  /\ db'.templates[p].space = None
               /\ \/ p \in DOMAIN db.templates /\ db.templates[p].system
                  \/ /\ p = db.next.templates
                     /\ \E c \in Clients : MakeTemplate(c) /\ db'.templates[p].name = requests[c].name
    <3>1. CASE p \in DOMAIN db.templates /\ db'.templates[p].system = db.templates[p].system
      BY <2>1, <2>2, <3>1 DEF SystemWide
    <3>2. ASSUME p = db.next.templates, NEW c \in Clients, MakeTemplate(c),
                 db'.templates[p] = [space |-> None, name |-> requests[c].name, type |-> "runbook",
                                     system |-> TRUE, global |-> TRUE]
          PROVE  /\ db'.templates[p].space = None
                 /\ p = db.next.templates
                 /\ \E q \in Clients : MakeTemplate(q) /\ db'.templates[p].name = requests[q].name
      <4>1. db'.templates[p].space = None /\ db'.templates[p].name = requests[c].name
        BY <3>2
      <4> QED BY <3>2, <4>1
    <3> QED BY <2>1, <2>2, <3>1, <3>2
  <2> QED BY <2>1, <2>2 DEF SystemWide
<1>5. CASE DocumentsWritten
  BY <1>1, <1>2, <1>5, DocumentsLeave
<1>6. CASE DiscussionWritten
  BY <1>1, <1>2, <1>6, DiscussionLeaves
<1>7. CASE db' = db
  BY <1>2, <1>7
<1> QED BY <1>3, <1>4, <1>5, <1>6, <1>7 DEF Stands

TemplatesInv == SystemWide(db)

\* The system templates are what seeds have made, each after a look that found none of its
\* name unless something was written meanwhile; no request changes or deletes one, and
\* deleting a space takes none along.
THEOREM SystemTemplatesStay == Spec => SystemTemplatesAreSeeded
<1>1. Init => TemplatesInv
  BY StartAssumption DEF Init, TemplatesInv
<1>2. TypesInv /\ TemplatesInv /\ [Next]_dvars => TemplatesInv'
  BY NextStands, TypedShaped, SystemTemplatesLeft DEF TypesInv, TemplatesInv
<1>3. TypesInv /\ SeedsInv /\ TemplatesInv /\ [Next]_dvars =>
        [SystemTemplates(db') # SystemTemplates(db) =>
           \E c \in Clients :
             /\ At(c, "template") /\ requests'[c] # requests[c]
             /\ SystemTemplates(db) \subseteq SystemTemplates(db')
             /\ \A p \in SystemTemplates(db') \ SystemTemplates(db) :
                  GetSystemTemplateByName(db, p[2]) # {} => None \in requests[c].news]_<<db, requests, quota>>
  <2> SUFFICES ASSUME TypesInv, SeedsInv, TemplatesInv, [Next]_dvars,
                      SystemTemplates(db') # SystemTemplates(db)
               PROVE  \E c \in Clients :
                        /\ At(c, "template") /\ requests'[c] # requests[c]
                        /\ SystemTemplates(db) \subseteq SystemTemplates(db')
                        /\ \A p \in SystemTemplates(db') \ SystemTemplates(db) :
                             GetSystemTemplateByName(db, p[2]) # {} => None \in requests[c].news
    OBVIOUS
  <2>1. Typed(db) /\ Stands /\ SystemWide(db)
    BY NextStands, TypedShaped DEF TypesInv, TemplatesInv
  <2>2. /\ \A p \in DOMAIN db.templates : db.templates[p].system =>
             p \in DOMAIN db'.templates /\ db'.templates[p] = db.templates[p]
        /\ \A p \in DOMAIN db'.templates : db'.templates[p].system =>
             \/ p \in DOMAIN db.templates /\ db.templates[p].system
             \/ /\ p = db.next.templates
                /\ \E c \in Clients : MakeTemplate(c) /\ db'.templates[p].name = requests[c].name
    BY <2>1, SystemTemplatesLeft
  <2>3. SystemTemplates(db) \subseteq SystemTemplates(db')
    BY <2>2 DEF SystemTemplates
  <2>4. \A p \in SystemTemplates(db') \ SystemTemplates(db) :
          /\ p = <<db.next.templates, db'.templates[db.next.templates].name>>
          /\ \E c \in Clients : MakeTemplate(c) /\ db'.templates[db.next.templates].name = requests[c].name
    <3> SUFFICES ASSUME NEW i \in DOMAIN db'.templates, db'.templates[i].system,
                        <<i, db'.templates[i].name>> \notin SystemTemplates(db)
                 PROVE  /\ i = db.next.templates
                        /\ \E c \in Clients :
                             MakeTemplate(c) /\ db'.templates[db.next.templates].name = requests[c].name
      BY DEF SystemTemplates
    <3>1. ~(i \in DOMAIN db.templates /\ db.templates[i].system)
      BY <2>2 DEF SystemTemplates
    <3> QED BY <2>2, <3>1
  <2>5. PICK c \in Clients : MakeTemplate(c) /\ db'.templates[db.next.templates].name = requests[c].name
    BY <2>3, <2>4
  <2>6. requests[c].kind = "seed" /\ requests[c].pc = "template" /\ requests'[c].pc = "templates"
    BY <2>5, SeedGoes
  <2>7. None \in requests[c].news \/ GetSystemTemplateByName(db, requests[c].name) = {}
    BY <2>6 DEF SeedsInv, SeedHolds
  <2> QED BY <2>3, <2>4, <2>5, <2>6, <2>7 DEF At
<1> QED BY <1>1, <1>2, <1>3, TypesInvariant, SeedsInvariant, PTL DEF Spec, SystemTemplatesAreSeeded

-----------------------------------------------------------------------------
(* Moves, and where documents are filed *)

\* What a move does in each of its steps.
LEMMA MoveGoes ==
  ASSUME TypesInv, NEW c \in Clients
  PROVE  LET r == requests[c]
             s == requests'[c]
             Same(fields) == \A f \in fields : s[f] = r[f]
             new == MoveToSpace(db, r.doc, r.to, r.place, Candidate(r))
         IN /\ MoveGet(c) =>
                 /\ s.pc = "check" /\ s.doc \in DOMAIN db.documents /\ s.tries = 0 /\ s.news = {} /\ db' = db
                 /\ s.from = db.documents[s.doc].space /\ s.slug = db.documents[s.doc].slug
                 /\ s.to \in DOMAIN db.spaces /\ s.place \in AnyCollection
            /\ CheckSlug(c) =>
                 /\ r.kind = "move" /\ r.pc = "check" /\ db' = db
                 /\ Same({"doc", "from", "slug", "to", "place", "news"})
                 /\ \/ SlugExistsInSpace(db, r.to, Candidate(r)) /\ s.pc = "check" /\ s.tries = r.tries + 1
                    \/ ~SlugExistsInSpace(db, r.to, Candidate(r)) /\ s.pc = "write" /\ s.tries = r.tries
            /\ MoveWrite(c) =>
                 /\ r.kind = "move" /\ r.pc = "write"
                 /\ Same({"doc", "from", "slug", "to", "place", "tries", "news"})
                 /\ \/ Consistent(new) /\ db' = new /\ r.doc \in DOMAIN db.documents /\ s.pc = "moved"
                    \/ Consistent(new) /\ db' = new /\ r.doc \notin DOMAIN db.documents /\ s.pc = "refused"
                    \/ ~Consistent(new) /\ db' = db /\ s.pc = "refused"
<1> DEFINE Fields == {"kind", "pc", "doc", "from", "slug", "to", "place", "tries", "news"}
<1> PICK r : r = requests[c]
  OBVIOUS
<1> PICK s : s = requests'[c]
  OBVIOUS
<1>1. Typed(db) /\ RequestsProper /\ DOMAIN requests = Clients /\ Proper(r)
  BY DEF TypesInv, RequestsProper
<1>2. r.kind = "move" => r \in Moves /\ DOMAIN r = Fields
  BY <1>1, KindTyped DEF Moves
<1>3. ASSUME MoveGet(c)
      PROVE  /\ s.pc = "check" /\ s.doc \in DOMAIN db.documents /\ s.tries = 0 /\ s.news = {} /\ db' = db
             /\ s.from = db.documents[s.doc].space /\ s.slug = db.documents[s.doc].slug
             /\ s.to \in DOMAIN db.spaces /\ s.place \in AnyCollection
  <2>1. PICK d \in DOMAIN db.documents, to \in DOMAIN db.spaces, place \in AnyCollection :
          Begin(c, "moves", [kind |-> "move", pc |-> "check", doc |-> d, from |-> db.documents[d].space,
                             slug |-> db.documents[d].slug, to |-> to, place |-> place, tries |-> 0,
                             news |-> {}])
    BY <1>3 DEF MoveGet
  <2>2. /\ s = [kind |-> "move", pc |-> "check", doc |-> d, from |-> db.documents[d].space,
                  slug |-> db.documents[d].slug, to |-> to, place |-> place, tries |-> 0, news |-> {}]
        /\ db' = db
    BY <1>1, <2>1, GoesOn
  <2> QED BY <2>2
<1>4. ASSUME CheckSlug(c)
      PROVE  /\ r.kind = "move" /\ r.pc = "check" /\ db' = db
             /\ \A f \in {"doc", "from", "slug", "to", "place", "news"} : s[f] = r[f]
             /\ \/ SlugExistsInSpace(db, r.to, Candidate(r)) /\ s.pc = "check" /\ s.tries = r.tries + 1
                \/ ~SlugExistsInSpace(db, r.to, Candidate(r)) /\ s.pc = "write" /\ s.tries = r.tries
  <2>1. DOMAIN r = Fields /\ r.kind = "move" /\ r.pc = "check"
    BY <1>2, <1>4 DEF CheckSlug
  <2>2. PICK there : there = SlugExistsInSpace(db, r.to, Candidate(r))
    OBVIOUS
  <2>3. /\ s = IF SlugExistsInSpace(db, r.to, Candidate(r)) THEN [r EXCEPT !.tries = r.tries + 1]
               ELSE [r EXCEPT !.pc = "write"]
        /\ db' = db
    BY <1>1, <1>4, GoesOn DEF CheckSlug
  <2>4. CASE SlugExistsInSpace(db, r.to, Candidate(r))
    <3>1. s = [r EXCEPT !.tries = r.tries + 1]
      BY <2>3, <2>4
    <3>2. /\ \A f \in {"doc", "from", "slug", "to", "place", "news"} : s[f] = r[f]
          /\ s.pc = "check" /\ s.tries = r.tries + 1
      BY <2>1, <3>1
    <3> QED BY <2>1, <2>3, <2>4, <3>2
  <2>5. CASE ~SlugExistsInSpace(db, r.to, Candidate(r))
    <3>1. s = [r EXCEPT !.pc = "write"]
      BY <2>3, <2>5
    <3>2. /\ \A f \in {"doc", "from", "slug", "to", "place", "news"} : s[f] = r[f]
          /\ s.pc = "write" /\ s.tries = r.tries
      BY <2>1, <3>1
    <3> QED BY <2>1, <2>3, <2>5, <3>2
  <2> QED BY <2>4, <2>5
<1>5. ASSUME MoveWrite(c), NEW new, new = MoveToSpace(db, r.doc, r.to, r.place, Candidate(r))
      PROVE  /\ r.kind = "move" /\ r.pc = "write"
             /\ \A f \in {"doc", "from", "slug", "to", "place", "tries", "news"} : s[f] = r[f]
             /\ \/ Consistent(new) /\ db' = new /\ r.doc \in DOMAIN db.documents /\ s.pc = "moved"
                \/ Consistent(new) /\ db' = new /\ r.doc \notin DOMAIN db.documents /\ s.pc = "refused"
                \/ ~Consistent(new) /\ db' = db /\ s.pc = "refused"
  <2>1. DOMAIN r = Fields /\ r.kind = "move" /\ r.pc = "write"
    BY <1>2, <1>5 DEF MoveWrite
  <2>2. PICK pc : pc = IF r.doc \in DOMAIN db.documents THEN "moved" ELSE "refused"
    OBVIOUS
  <2>3. Execute(c, new, [r EXCEPT !.pc = pc], [r EXCEPT !.pc = "refused"])
    BY <1>5, <2>2 DEF MoveWrite
  <2>4. \/ Consistent(new) /\ db' = new /\ s = [r EXCEPT !.pc = pc]
        \/ ~Consistent(new) /\ db' = db /\ s = [r EXCEPT !.pc = "refused"]
    BY <1>1, <2>3, GoesOn
  <2>5. \A f \in {"doc", "from", "slug", "to", "place", "tries", "news"} : s[f] = r[f]
    BY <2>1, <2>4
  <2>6. \/ Consistent(new) /\ db' = new /\ s.pc = pc
        \/ ~Consistent(new) /\ db' = db /\ s.pc = "refused"
    BY <2>1, <2>4
  <2> QED BY <2>1, <2>2, <2>5, <2>6
<1> QED BY <1>3, <1>4, <1>5

\* A collection that is of a space as long as it is there.
Belongs(t, k, s) ==
  \/ k = None
  \/ k \in Id /\ k < t.next.collections /\ (k \in DOMAIN t.collections => t.collections[k].space = s)

\* What whoever files a document relies on: a browser, that the document is of the space it
\* has read, if nobody has written to it; an import, that the collection is of the space.  Of
\* a seed SeedHolds says both.
FilesHold(t, r) ==
  /\ r.kind = "edit" => r.doc \in r.news \/ (r.doc \in DOMAIN t.documents /\ t.documents[r.doc].space = r.space)
  /\ r.kind = "import" =>
       /\ Belongs(t, r.collection, r.space)
       /\ r.pc \in {"space", "collection"} => r.collection = None

FilesInv == \A c \in Clients : FilesHold(db, requests[c])

\* Belongs says what it says of every later state too.
LEMMA BelongsOn ==
  ASSUME TypesInv, TypesInv', Stands
  PROVE  /\ \A k, s : Belongs(db, k, s) => Belongs(db', k, s)
         /\ \A s : \A k \in Places(db, s) : Belongs(db, k, s)
         /\ \A s : \A k \in DOMAIN db'.collections : db'.collections[k].space = s => Belongs(db', k, s)
         /\ \A k, s : Belongs(db, k, s) /\ k \in DOMAIN db'.collections => db'.collections[k].space = s
<1>1. Typed(db) /\ Typed(db') /\ "collections" \in Numbered
  BY DEF TypesInv, Numbered
<1>2. /\ db.next.collections \in Nat /\ db'.next.collections \in Nat
      /\ db.next.collections <= db'.next.collections
      /\ \A k \in DOMAIN db'.collections : k \in Nat
      /\ \A k \in DOMAIN db'.collections \ DOMAIN db.collections : db.next.collections <= k
      /\ \A k \in (DOMAIN db.collections) \cap DOMAIN db'.collections :
           db'.collections[k].space = db.collections[k].space
  BY <1>1, NextLeaves, IdsTyped DEF Grown, Id
<1>3. /\ \A k \in DOMAIN db.collections : k \in Nat /\ k < db.next.collections
      /\ \A k \in DOMAIN db'.collections : k \in Nat /\ k < db'.next.collections
  <2>1. /\ db.next.collections \in Nat /\ DOMAIN db.collections \subseteq 0 .. (db.next.collections - 1)
        /\ db'.next.collections \in Nat /\ DOMAIN db'.collections \subseteq 0 .. (db'.next.collections - 1)
    BY <1>1, <1>2 DEF Typed
  <2> QED BY <2>1
<1>4. ASSUME NEW k, NEW s, Belongs(db, k, s)
      PROVE  Belongs(db', k, s) /\ (k \in DOMAIN db'.collections => db'.collections[k].space = s)
  <2>1. CASE k = None
    BY <2>1, <1>2, NoneAssumption DEF Belongs
  <2>2. CASE k \in Nat /\ k < db.next.collections /\ (k \in DOMAIN db.collections => db.collections[k].space = s)
    <3>1. k < db'.next.collections
      BY <1>2, <2>2
    <3>2. k \in DOMAIN db'.collections => db'.collections[k].space = s
      BY <1>2, <2>2
    <3> QED BY <2>2, <3>1, <3>2 DEF Belongs, Id
  <2> QED BY <1>4, <2>1, <2>2 DEF Belongs, Id
<1>5. \A s : \A k \in Places(db, s) : Belongs(db, k, s)
  BY <1>3 DEF Belongs, Places, ListCollectionsBySpace, Id
<1>6. \A s : \A k \in DOMAIN db'.collections : db'.collections[k].space = s => Belongs(db', k, s)
  BY <1>3 DEF Belongs, Id
<1> QED BY <1>4, <1>5, <1>6

LEMMA NextFiles ==
  ASSUME TypesInv, TypesInv', FilesInv, [Next]_dvars
  PROVE  FilesInv'
<1>1. Typed(db) /\ Typed(db') /\ Stands /\ DOMAIN requests = Clients /\ Shaped(db) /\ RequestsProper
  BY NextStands, TypedShaped DEF TypesInv, RequestsProper
<1>2. \/ \A q \in Clients : Left(q)
      \/ \E c \in Clients : Acts(c) /\ \A q \in Clients \ {c} : Left(q)
  BY <1>1, WhoActs
<1>3. ASSUME NEW c \in Clients, Left(c) PROVE FilesHold(db', requests'[c])
  <2> PICK r : r = requests[c]
    OBVIOUS
  <2> PICK s : s = requests'[c]
    OBVIOUS
  <2>1. FilesHold(db, r)
    BY DEF FilesInv
  <2>2. s.kind = "edit" => s.doc \in s.news \/ (s.doc \in DOMAIN db'.documents /\ db'.documents[s.doc].space = s.space)
    <3> SUFFICES ASSUME s.kind = "edit", s.doc \notin s.news
                 PROVE  s.doc \in DOMAIN db'.documents /\ db'.documents[s.doc].space = s.space
      OBVIOUS
    <3>1. /\ r.kind = "edit" /\ s.news = r.news \cup Written(db')
          /\ s.doc = r.doc /\ s.space = r.space
      BY <1>1, <1>3, LeftKinds
    <3>2. r.doc \in DOMAIN db.documents /\ db.documents[r.doc].space = r.space
      BY <2>1, <3>1 DEF FilesHold
    <3> QED BY <3>1, <3>2, Unwritten
  <2>4. s.kind = "import" =>
          /\ Belongs(db', s.collection, s.space)
          /\ s.pc \in {"space", "collection"} => s.collection = None
    <3> SUFFICES ASSUME s.kind = "import"
                 PROVE  /\ Belongs(db', s.collection, s.space)
                        /\ s.pc \in {"space", "collection"} => s.collection = None
      OBVIOUS
    <3>1. r.kind = "import" /\ s.pc = r.pc /\ s.collection = r.collection /\ s.space = r.space
      BY <1>1, <1>3, LeftKinds
    <3> QED BY <1>1, <2>1, <3>1, BelongsOn DEF FilesHold
  <2> QED BY <2>2, <2>4 DEF FilesHold
<1>4. ASSUME NEW c \in Clients, Acts(c) PROVE FilesHold(db', requests'[c])
  <2> PICK r : r = requests[c]
    OBVIOUS
  <2> PICK s : s = requests'[c]
    OBVIOUS
  <2>1. FilesHold(db, r)
    BY DEF FilesInv
  <2>2. s.kind = "edit" => s.doc \in s.news \/ (s.doc \in DOMAIN db'.documents /\ db'.documents[s.doc].space = s.space)
    <3> SUFFICES ASSUME Get(c)
                 PROVE  s.doc \in DOMAIN db'.documents /\ db'.documents[s.doc].space = s.space
      BY <1>1, <1>4, KindOfActs
    <3>1. PICK d \in DOMAIN db.documents :
            Begin(c, "edits", [kind |-> "edit", doc |-> d, space |-> db.documents[d].space,
                               slug |-> db.documents[d].slug, news |-> {}])
      BY DEF Get
    <3>2. s = [kind |-> "edit", doc |-> d, space |-> db.documents[d].space,
               slug |-> db.documents[d].slug, news |-> {}]
          /\ db' = db
      BY <1>1, <3>1, GoesOn
    <3>3. s.doc = d /\ s.space = db.documents[d].space
      BY <3>2
    <3> QED BY <3>2, <3>3
  <2>4. s.kind = "import" =>
          /\ Belongs(db', s.collection, s.space)
          /\ s.pc \in {"space", "collection"} => s.collection = None
    <3> SUFFICES ASSUME s.kind = "import"
                 PROVE  /\ Belongs(db', s.collection, s.space)
                        /\ s.pc \in {"space", "collection"} => s.collection = None
      OBVIOUS
    <3>0. s # Idle
      BY DEF Idle
    <3>1. CASE ImportBegin(c)
      <4>1. s.collection = None
        BY <3>1, ImportGoes
      <4> QED BY <4>1 DEF Belongs
    <3>2. CASE ImportSpace(c)
      <4>1. r.kind = "import"
        BY <3>2 DEF ImportSpace
      <4>2. r.pc = "space" /\ s.collection = r.collection
        BY <3>0, <3>2, ImportGoes
      <4> QED BY <2>1, <4>1, <4>2 DEF FilesHold, Belongs
    <3>3. CASE ImportCollection(c)
      <4>1. r.kind = "import"
        BY <3>3 DEF ImportCollection
      <4>2. /\ s.pc = "fetch" /\ s.space = r.space
            /\ \/ s.collection = r.collection
               \/ s.collection \in DOMAIN db'.collections /\ db'.collections[s.collection].space = r.space
        BY <3>0, <3>3, ImportGoes
      <4> QED BY <1>1, <2>1, <4>1, <4>2, BelongsOn DEF FilesHold
    <3>4. CASE ImportFetch(c) \/ ImportLook(c) \/ ImportCreate(c) \/ ImportPage(c)
      <4>1. r.kind = "import"
        BY <3>4 DEF ImportFetch, ImportLook, ImportCreate, ImportPage
      <4>2. s.pc \notin {"space", "collection"} /\ s.space = r.space /\ s.collection = r.collection
        <5>1. CASE ImportFetch(c)
          BY <5>1, ImportGoes
        <5>2. CASE ImportLook(c)
          BY <5>2, ImportGoes
        <5>3. CASE ImportCreate(c)
          BY <5>3, ImportGoes
        <5>4. CASE ImportPage(c)
          BY <5>4, ImportGoes
        <5> QED BY <3>4, <5>1, <5>2, <5>3, <5>4
      <4> QED BY <1>1, <2>1, <4>1, <4>2, BelongsOn DEF FilesHold
    <3> QED BY <1>1, <1>4, <3>1, <3>2, <3>3, <3>4, KindOfActs
  <2> QED BY <2>2, <2>4 DEF FilesHold
<1> QED BY <1>2, <1>3, <1>4 DEF FilesInv

\* FilesInv holds throughout.
THEOREM FilesInvariant == Spec => []FilesInv
<1>1. Init => FilesInv
  BY DEF Init, Idle, FilesInv, FilesHold
<1>2. TypesInv /\ TypesInv' /\ FilesInv /\ [Next]_dvars => FilesInv'
  BY NextFiles
<1> QED BY <1>1, <1>2, TypesInvariant, PTL DEF Spec

\* A document that nobody writes to becomes no stray.
LEMMA StraysStay ==
  ASSUME TypesInv, TypesInv', Stands, NEW d \in DOMAIN db.documents, d \in DOMAIN db'.documents,
         db'.documents[d] = db.documents[d], Stray(db', d)
  PROVE  Stray(db, d)
<1>1. Typed(db) /\ Consistent(db) /\ Consistent(db')
  BY DEF TypesInv
<1>2. \A k \in (DOMAIN db.collections) \cap DOMAIN db'.collections :
        db'.collections[k].space = db.collections[k].space
  BY <1>1, NextLeaves
<1>3. /\ db.documents[d].collection \in DOMAIN db.collections \cup {None}
      /\ db'.documents[d].collection \in DOMAIN db'.collections \cup {None}
  BY <1>1 DEF Consistent, ReferencesResolve
<1> QED BY <1>2, <1>3 DEF Stray

\* A document becomes a stray only because its client has named such a place for it, or
\* because somebody has filed it by what he had read before another moved it: a browser's PUT,
\* or a seed that files what it has found outside the collection.
THEOREM StraysAreTheClients == Spec => StraysHaveACause
<1>1. TypesInv /\ TypesInv' /\ SeedsInv /\ FilesInv /\ [Next]_dvars =>
        [\A d \in DOMAIN db'.documents :
           Stray(db', d) /\ ~(d \in DOMAIN db.documents /\ Stray(db, d)) =>
             \/ d \notin DOMAIN db.documents /\ Spend("documents")
             \/ \E c \in Clients :
                  LET r == requests[c] IN
                  /\ requests'[c] # r
                  /\ \/ r.kind = "move" /\ r.doc = d /\ r.place \notin Places(db, r.to)
                     \/ r.kind = "edit" /\ r.doc = d /\ db'.documents[d].collection \notin Places(db, r.space)
                     \/ r.kind \in {"edit", "seed"} /\ r.doc = d /\ d \in r.news]_<<db, requests, quota>>
  <2> SUFFICES ASSUME TypesInv, TypesInv', SeedsInv, FilesInv, [Next]_dvars,
                      NEW d \in DOMAIN db'.documents, Stray(db', d),
                      ~(d \in DOMAIN db.documents /\ Stray(db, d))
               PROVE  \/ d \notin DOMAIN db.documents /\ Spend("documents")
                      \/ \E c \in Clients :
                           LET r == requests[c] IN
                           /\ requests'[c] # r
                           /\ \/ r.kind = "move" /\ r.doc = d /\ r.place \notin Places(db, r.to)
                              \/ /\ r.kind = "edit" /\ r.doc = d
                                 /\ db'.documents[d].collection \notin Places(db, r.space)
                              \/ r.kind \in {"edit", "seed"} /\ r.doc = d /\ d \in r.news
    OBVIOUS
  <2>1. Typed(db) /\ Stands /\ Consistent(db') /\ DOMAIN requests = Clients /\ RequestsProper
    BY NextStands, TypedShaped DEF TypesInv, RequestsProper
  <2> PICK new : new = db'.documents[d]
    OBVIOUS
  <2>2. /\ new.collection \in DOMAIN db'.collections /\ new.collection # None
        /\ db'.collections[new.collection].space # new.space
    BY <2>1 DEF Stray, Consistent, ReferencesResolve
  \* So its collection is not one of its space.
  <2>3. ~Belongs(db, new.collection, new.space)
    BY <2>1, <2>2, BelongsOn
  <2>4. /\ new.collection \notin Places(db, new.space)
        /\ new.collection # None
    BY <2>1, <2>3, BelongsOn DEF Belongs
  <2>5. DocumentOrigin(d)
    BY <2>1, NextLeaves
  <2>6. ~(d \in DOMAIN db.documents /\ new = db.documents[d])
    BY <2>1, StraysStay
  <2>7. \A e \in DOMAIN db.documents : e # db.next.documents
    <3>1. "documents" \in Numbered /\ db.next.documents \in Nat
          /\ DOMAIN db.documents \subseteq 0 .. (db.next.documents - 1)
      BY <2>1 DEF Typed, Numbered, Id
    <3> QED BY <3>1
  <2>8. CASE d = db.next.documents
    <3>1. ASSUME NEW c \in Clients, ImportCreate(c), new.space = requests[c].space,
                 new.collection = requests[c].collection
          PROVE  FALSE
      BY <2>3, <3>1 DEF FilesInv, FilesHold, ImportCreate
    <3>2. ASSUME NEW c \in Clients, MakeDocument(c), new.space = requests[c].space,
                 new.collection = requests[c].collection
          PROVE  FALSE
      <4>1. requests[c].kind = "seed" /\ requests[c].pc = "create"
        BY <3>2 DEF MakeDocument, At
      <4>2. Belongs(db, requests[c].collection, requests[c].space)
        BY <4>1 DEF SeedsInv, SeedHolds, Belongs
      <4> QED BY <2>3, <3>2, <4>2
    <3>3. Spend("documents")
      BY <2>4, <2>5, <2>7, <2>8, <3>1, <3>2 DEF DocumentOrigin
    <3> QED BY <2>7, <2>8, <3>3
  <2>9. ASSUME NEW c \in Clients, requests[c].doc = d, d \in DOMAIN db.documents,
               Update(c), new.space = db.documents[d].space
        PROVE  LET r == requests[c] IN
               /\ requests'[c] # r /\ r.kind = "edit"
               /\ new.collection \notin Places(db, r.space) \/ d \in r.news
    <3>1. requests[c].kind = "edit" /\ requests'[c] = Idle
      BY <2>1, <2>9, WorkspaceProper DEF Update
    <3>2. d \in requests[c].news \/ new.space = requests[c].space
      BY <2>9, <3>1 DEF FilesInv, FilesHold
    <3> QED BY <2>4, <3>1, <3>2 DEF Idle
  <2>10. ASSUME NEW c \in Clients, requests[c].doc = d,
                MoveWrite(c), new.space = requests[c].to, new.collection = requests[c].place
         PROVE  LET r == requests[c] IN
                requests'[c] # r /\ r.kind = "move" /\ r.place \notin Places(db, r.to)
    <3>1. /\ requests[c].kind = "move" /\ requests[c].pc = "write"
          /\ requests'[c].pc \in {"moved", "refused"}
      BY <2>10, MoveGoes
    <3> QED BY <2>4, <2>10, <3>1
  <2>11. ASSUME NEW c \in Clients, requests[c].doc = d, d \in DOMAIN db.documents,
                FileDocument(c), new.space = db.documents[d].space, new.collection = requests[c].collection
         PROVE  LET r == requests[c] IN
                requests'[c] # r /\ r.kind = "seed" /\ d \in r.news
    <3> PICK r : r = requests[c]
      OBVIOUS
    <3>1. r.kind = "seed" /\ r.pc = "file" /\ requests'[c].pc = "docs"
      BY <2>11, SeedGoes
    <3>2. SeedHolds(db, r)
      BY <3>1 DEF SeedsInv
    <3>3. Belongs(db, r.collection, r.space)
      BY <3>1, <3>2 DEF SeedHolds, Belongs
    <3>4. d \in r.news
      BY <2>3, <2>11, <3>1, <3>2, <3>3 DEF SeedHolds
    <3> QED BY <3>1, <3>4
  <2>12. CASE d # db.next.documents
    <3>1. PICK c \in Clients :
            /\ requests[c].doc = d /\ d \in DOMAIN db.documents
            /\ \/ Update(c) /\ new.space = db.documents[d].space
               \/ MoveWrite(c) /\ new.space = requests[c].to /\ new.collection = requests[c].place
               \/ /\ FileDocument(c) /\ new.space = db.documents[d].space
                  /\ new.collection = requests[c].collection
      BY <2>5, <2>6, <2>12 DEF DocumentOrigin
    <3> QED BY <2>9, <2>10, <2>11, <3>1
  <2> QED BY <2>8, <2>12
<1> QED BY <1>1, TypesInvariant, SeedsInvariant, FilesInvariant, PTL DEF Spec, StraysHaveACause
-----------------------------------------------------------------------------
(* Reads of two statements *)

\* What a read has seen is still so, but for what has been written since.
ReadsHold(t, r) ==
  /\ r.kind = "tree" =>
       /\ r.filed \ r.news = GetSpaceTree(t, r.space) \ r.news
       /\ r.pc = "done" => r.loose \ r.news = GetUncollectedDocuments(t, r.space) \ r.news
  /\ r.kind = "list" /\ r.news = {} =>
       IF r.pc = "half" THEN r.total = IF r.of = "documents" THEN CountDocuments(t) ELSE CountRunbooks(t)
       ELSE Cardinality(r.rows) = PageSize(r.total, PageLimit, r.offset)

ReadsInv == \A c \in Clients : ReadsHold(db, requests[c])

\* A document that nobody writes to stays in the trees it is in, wherever collections go.
LEMMA ShownOn ==
  ASSUME TypesInv, TypesInv', Stands
  PROVE  \A d, s : d \notin Written(db') =>
           /\ d \in GetSpaceTree(db', s) <=> d \in GetSpaceTree(db, s)
           /\ d \in GetUncollectedDocuments(db', s) <=> d \in GetUncollectedDocuments(db, s)
<1>1. Typed(db) /\ Consistent(db) /\ Consistent(db')
  BY DEF TypesInv
<1>2. \A k \in (DOMAIN db.collections) \cap DOMAIN db'.collections :
        db'.collections[k].space = db.collections[k].space
  BY <1>1, NextLeaves
<1>3. ASSUME NEW d, NEW s, d \notin Written(db')
      PROVE  /\ d \in GetSpaceTree(db', s) <=> d \in GetSpaceTree(db, s)
             /\ d \in GetUncollectedDocuments(db', s) <=> d \in GetUncollectedDocuments(db, s)
  <2>1. /\ d \in DOMAIN db'.documents <=> d \in DOMAIN db.documents
        /\ d \in DOMAIN db.documents => db'.documents[d] = db.documents[d]
    BY <1>3, Unwritten
  <2>2. d \in DOMAIN db.documents =>
          /\ db.documents[d].collection \in DOMAIN db.collections \cup {None}
          /\ db'.documents[d].collection \in DOMAIN db'.collections \cup {None}
    BY <1>1, <2>1 DEF Consistent, ReferencesResolve
  <2>3. None \notin DOMAIN db.collections /\ None \notin DOMAIN db'.collections
    <3>1. Typed(db') /\ "collections" \in Numbered
      BY DEF TypesInv, Numbered
    <3>2. DOMAIN db.collections \subseteq Nat /\ DOMAIN db'.collections \subseteq Nat
      BY <1>1, <3>1, IdsTyped DEF Id
    <3> QED BY <3>2, NoneAssumption
  <2> QED BY <1>2, <2>1, <2>2, <2>3 DEF GetSpaceTree, GetUncollectedDocuments, OfSpace, Live, ListCollectionsBySpace
<1> QED BY <1>3

\* When nothing is written, the counts stay.
LEMMA CountsOn ==
  ASSUME TypesInv, TypesInv', Written(db') = {}
  PROVE  CountDocuments(db') = CountDocuments(db) /\ CountRunbooks(db') = CountRunbooks(db)
<1>1. DOMAIN db'.documents = DOMAIN db.documents /\ \A d \in DOMAIN db.documents : db'.documents[d] = db.documents[d]
  BY NothingWritten DEF TypesInv
<1>2. Live(db') = Live(db)
  BY <1>1 DEF Live
<1>3. PublishedRunbooks(db') = PublishedRunbooks(db)
  BY <1>1 DEF PublishedRunbooks
<1> QED BY <1>2, <1>3 DEF CountDocuments, CountRunbooks

\* The pages of what is counted have the rows that the count leaves them.
LEMMA CountsAreOfLists ==
  ASSUME TypesInv, NEW offset
  PROVE  /\ \A page \in ListDocuments(db, PageLimit, offset) :
              Cardinality(page) = PageSize(CountDocuments(db), PageLimit, offset)
         /\ \A page \in ListRunbooksWithSpace(db, PageLimit, offset) :
              Cardinality(page) = PageSize(CountRunbooks(db), PageLimit, offset)
<1>1. \A d \in DOMAIN db.documents : db.documents[d].space \in DOMAIN db.spaces
  BY DEF TypesInv, Consistent, ReferencesResolve
<1>2. WithSpace(db, PublishedRunbooks(db)) = PublishedRunbooks(db)
  BY <1>1 DEF WithSpace, PublishedRunbooks
<1> QED BY <1>2 DEF CountDocuments, ListDocuments, CountRunbooks, ListRunbooksWithSpace, Pages

LEMMA NextReads ==
  ASSUME TypesInv, TypesInv', ReadsInv, [Next]_dvars
  PROVE  ReadsInv'
<1>1. Typed(db) /\ Typed(db') /\ Stands /\ DOMAIN requests = Clients /\ Shaped(db) /\ RequestsProper
  BY NextStands, TypedShaped DEF TypesInv, RequestsProper
<1>2. \/ \A q \in Clients : Left(q)
      \/ \E c \in Clients : Acts(c) /\ \A q \in Clients \ {c} : Left(q)
  BY <1>1, WhoActs
<1>3. ASSUME NEW c \in Clients, Left(c) PROVE ReadsHold(db', requests'[c])
  <2> PICK r : r = requests[c]
    OBVIOUS
  <2> PICK s : s = requests'[c]
    OBVIOUS
  <2>1. ReadsHold(db, r)
    BY DEF ReadsInv
  <2>2. ASSUME s.kind = "tree"
        PROVE  /\ s.filed \ s.news = GetSpaceTree(db', s.space) \ s.news
               /\ s.pc = "done" => s.loose \ s.news = GetUncollectedDocuments(db', s.space) \ s.news
    <3>1. /\ r.kind = "tree" /\ s.news = r.news \cup Written(db')
          /\ s.pc = r.pc /\ s.space = r.space /\ s.filed = r.filed /\ s.loose = r.loose
      BY <1>1, <1>3, <2>2, LeftKinds
    <3>2. /\ r.filed \ r.news = GetSpaceTree(db, r.space) \ r.news
          /\ r.pc = "done" => r.loose \ r.news = GetUncollectedDocuments(db, r.space) \ r.news
      BY <2>1, <3>1 DEF ReadsHold
    <3>3. \A d : d \notin s.news =>
            /\ d \in GetSpaceTree(db', s.space) <=> d \in GetSpaceTree(db, r.space)
            /\ d \in GetUncollectedDocuments(db', s.space) <=> d \in GetUncollectedDocuments(db, r.space)
      BY <1>1, <3>1, ShownOn
    <3> QED BY <3>1, <3>2, <3>3
  <2>3. ASSUME s.kind = "list", s.news = {}
        PROVE  IF s.pc = "half" THEN s.total = IF s.of = "documents" THEN CountDocuments(db') ELSE CountRunbooks(db')
               ELSE Cardinality(s.rows) = PageSize(s.total, PageLimit, s.offset)
    <3>1. /\ r.kind = "list" /\ s.news = r.news \cup Written(db')
          /\ s.pc = r.pc /\ s.of = r.of /\ s.offset = r.offset /\ s.total = r.total /\ s.rows = r.rows
      BY <1>1, <1>3, <2>3, LeftKinds
    <3>2. Written(db') = {} /\ r.news = {}
      BY <2>3, <3>1
    <3> QED BY <2>1, <3>1, <3>2, CountsOn DEF ReadsHold
  <2> QED BY <2>2, <2>3 DEF ReadsHold
<1>4. ASSUME NEW c \in Clients, Acts(c) PROVE ReadsHold(db', requests'[c])
  <2> PICK r : r = requests[c]
    OBVIOUS
  <2> PICK s : s = requests'[c]
    OBVIOUS
  <2>1. ReadsHold(db, r) /\ Proper(r)
    BY <1>1 DEF ReadsInv, RequestsProper
  <2>2. ASSUME s.kind = "tree"
        PROVE  /\ s.filed \ s.news = GetSpaceTree(db', s.space) \ s.news
               /\ s.pc = "done" => s.loose \ s.news = GetUncollectedDocuments(db', s.space) \ s.news
    <3>1. CASE TreeCollections(c)
      <4>1. PICK place \in DOMAIN db.spaces :
              /\ s = [kind |-> "tree", pc |-> "half", space |-> place, filed |-> GetSpaceTree(db, place),
                      loose |-> {}, news |-> {}]
              /\ db' = db
        BY <1>1, <3>1, GoesOn DEF TreeCollections
      <4>2. s.filed = GetSpaceTree(db, place) /\ s.space = place /\ s.pc = "half"
        BY <4>1
      <4> QED BY <4>1, <4>2
    <3>2. CASE TreeDocuments(c)
      <4>1. r.kind = "tree" /\ DOMAIN r = {"kind", "pc", "space", "filed", "loose", "news"}
        BY <2>1, <3>2, KindTyped DEF TreeDocuments, Trees
      <4>2. PICK loose : loose = GetUncollectedDocuments(db, r.space)
        OBVIOUS
      <4>3. s = [r EXCEPT !.pc = "done", !.loose = loose] /\ db' = db
        BY <1>1, <3>2, <4>2, GoesOn DEF TreeDocuments
      <4>4. s.filed = r.filed /\ s.space = r.space /\ s.news = r.news /\ s.loose = loose
        BY <4>1, <4>3
      <4> QED BY <2>1, <4>1, <4>2, <4>3, <4>4 DEF ReadsHold
    <3> QED BY <1>1, <1>4, <2>2, <3>1, <3>2, KindOfActs
  <2>3. ASSUME s.kind = "list", s.news = {}
        PROVE  IF s.pc = "half" THEN s.total = IF s.of = "documents" THEN CountDocuments(db') ELSE CountRunbooks(db')
               ELSE Cardinality(s.rows) = PageSize(s.total, PageLimit, s.offset)
    <3>1. CASE ListCount(c)
      <4>1. PICK total : total = CountDocuments(db)
        OBVIOUS
      <4>2. /\ \E offset : s = [kind |-> "list", pc |-> "half", of |-> "documents", offset |-> offset, total |-> total,
                              rows |-> {}, news |-> {}]
            /\ db' = db
        BY <1>1, <3>1, <4>1, GoesOn DEF ListCount
      <4>3. s.pc = "half" /\ s.of = "documents" /\ s.total = total
        BY <4>2
      <4> QED BY <4>1, <4>2, <4>3
    <3>2. CASE RunbooksCount(c)
      <4>1. PICK total : total = CountRunbooks(db)
        OBVIOUS
      <4>2. /\ \E offset : s = [kind |-> "list", pc |-> "half", of |-> "runbooks", offset |-> offset, total |-> total,
                              rows |-> {}, news |-> {}]
            /\ db' = db
        BY <1>1, <3>2, <4>1, GoesOn DEF RunbooksCount
      <4>3. s.pc = "half" /\ s.of = "runbooks" /\ s.total = total
        BY <4>2
      <4> QED BY <4>1, <4>2, <4>3
    <3>3. CASE ListRows(c) \/ RunbooksRows(c)
      <4>1. /\ r.kind = "list" /\ r.pc = "half"
            /\ DOMAIN r = {"kind", "pc", "of", "offset", "total", "rows", "news"}
        <5>1. r.kind = "list" /\ r.pc = "half"
          BY <3>3 DEF ListRows, RunbooksRows
        <5>2. r \in Lists
          BY <2>1, <5>1, KindTyped
        <5> QED BY <5>1, <5>2 DEF Lists
      <4>2. PICK rows : /\ s = [r EXCEPT !.pc = "done", !.rows = rows]
                        /\ rows \in IF r.of = "documents" THEN ListDocuments(db, PageLimit, r.offset)
                                     ELSE ListRunbooksWithSpace(db, PageLimit, r.offset)
        <5>1. CASE ListRows(c)
          BY <1>1, <5>1, GoesOn DEF ListRows
        <5>2. CASE RunbooksRows(c)
          BY <1>1, <5>2, GoesOn DEF RunbooksRows
        <5> QED BY <3>3, <5>1, <5>2
      <4>3. s.pc = "done" /\ s.offset = r.offset /\ s.total = r.total /\ s.rows = rows /\ s.news = r.news
        BY <4>1, <4>2
      <4>4. r.total = IF r.of = "documents" THEN CountDocuments(db) ELSE CountRunbooks(db)
        BY <2>1, <2>3, <4>1, <4>3 DEF ReadsHold
      <4> QED BY <4>2, <4>3, <4>4, CountsAreOfLists
    <3> QED BY <1>1, <1>4, <2>3, <3>1, <3>2, <3>3, KindOfActs
  <2> QED BY <2>2, <2>3 DEF ReadsHold
<1> QED BY <1>2, <1>3, <1>4 DEF ReadsInv

\* ReadsInv holds throughout.
THEOREM ReadsInvariant == Spec => []ReadsInv
<1>1. Init => ReadsInv
  BY DEF Init, Idle, ReadsInv, ReadsHold
<1>2. TypesInv /\ TypesInv' /\ ReadsInv /\ [Next]_dvars => ReadsInv'
  BY NextReads
<1> QED BY <1>1, <1>2, TypesInvariant, PTL DEF Spec

\* A tree, though it is read in two statements, has every document that belongs in it and is
\* not written to in between, and has it once; and a total tells how many rows the page listed
\* with it has, unless something is written in between.
THEOREM TreesAndTotals == Spec => [](TreesShowTheUntouched /\ TotalsMatchLists)
<1>1. TypesInv /\ ReadsInv => TreesShowTheUntouched
  <2> SUFFICES ASSUME TypesInv, ReadsInv, NEW c \in Clients, requests[c].kind = "tree", requests[c].pc = "done"
               PROVE  /\ (requests[c].filed \cup requests[c].loose) \ requests[c].news
                           = Shown(db, requests[c].space) \ requests[c].news
                      /\ requests[c].filed \cap requests[c].loose \subseteq requests[c].news
    BY DEF TreesShowTheUntouched
  <2> PICK r : r = requests[c]
    OBVIOUS
  <2>1. /\ r.filed \ r.news = GetSpaceTree(db, r.space) \ r.news
        /\ r.loose \ r.news = GetUncollectedDocuments(db, r.space) \ r.news
    BY DEF ReadsInv, ReadsHold
  <2>2. GetSpaceTree(db, r.space) \cap GetUncollectedDocuments(db, r.space) = {}
    <3>1. "collections" \in Numbered /\ Typed(db)
      BY DEF Numbered, TypesInv
    <3>2. None \notin DOMAIN db.collections
      BY <3>1, IdsTyped, NoneAssumption DEF Id
    <3> QED BY <3>2 DEF GetSpaceTree, GetUncollectedDocuments, ListCollectionsBySpace
  <2> QED BY <2>1, <2>2 DEF Shown
<1>2. ReadsInv => TotalsMatchLists
  <2>1. ASSUME ReadsInv, NEW c \in Clients, requests[c].kind = "list", requests[c].pc = "done", requests[c].news = {}
        PROVE  Cardinality(requests[c].rows) = PageSize(requests[c].total, PageLimit, requests[c].offset)
    BY <2>1 DEF ReadsInv, ReadsHold
  <2> QED BY <2>1 DEF TotalsMatchLists
<1> QED BY <1>1, <1>2, TypesInvariant, ReadsInvariant, PTL

-----------------------------------------------------------------------------
(* Requests that nothing comes between *)

\* A document whose slug is free in a space that is there can be made, in any collection.
LEMMA CreatingStands ==
  ASSUME Typed(db), Consistent(db), NEW row, row.space \in DOMAIN db.spaces,
         row.collection \in DOMAIN db.collections \cup {None}, ~SlugExistsInSpace(db, row.space, row.slug)
  PROVE  Consistent(CreateDocument(db, row))
<1>1. DOMAIN db = Numbered \cup {"members", "next"}
      /\ {"spaces", "collections", "documents", "templates", "comments", "notices"} \subseteq Numbered
  BY DEF Typed, Numbered
<1>2. PICK t : t = Insert(db, "documents", row)
  OBVIOUS
<1>3. /\ \A other \in Numbered \ {"documents"} : t[other] = db[other]
      /\ DOMAIN t.documents = DOMAIN db.documents \cup {db.next.documents}
      /\ t.documents[db.next.documents] = row
      /\ \A i \in DOMAIN db.documents : t.documents[i] = db.documents[i]
  BY <1>1, <1>2, InsertLeaves, TypedShaped
<1>4. t.members = db.members
  <2>1. "members" \notin Numbered /\ "members" # "next"
    BY DEF Numbered
  <2> QED BY <1>1, <1>2, <2>1 DEF Insert
<1>5. /\ t.spaces = db.spaces /\ t.collections = db.collections /\ t.templates = db.templates
      /\ t.notices = db.notices /\ t.comments = db.comments
  BY <1>1, <1>3
<1>6. \A i, j \in DOMAIN t.documents :
        t.documents[i].space = t.documents[j].space /\ t.documents[i].slug = t.documents[j].slug => i = j
  <2>1. \A i \in DOMAIN db.documents : ~(db.documents[i].space = row.space /\ db.documents[i].slug = row.slug)
    BY DEF SlugExistsInSpace, GetDocumentBySlug
  <2>2. \A i, j \in DOMAIN db.documents :
          db.documents[i].space = db.documents[j].space /\ db.documents[i].slug = db.documents[j].slug => i = j
    BY DEF Consistent, SlugsUnique
  <2> QED BY <1>3, <2>1, <2>2
<1>7. SlugsUnique(t)
  BY <1>5, <1>6 DEF Consistent, SlugsUnique
<1>8. /\ \A d \in DOMAIN t.documents :
           /\ t.documents[d].space \in DOMAIN t.spaces
           /\ t.documents[d].collection \in DOMAIN t.collections \cup {None}
      /\ DOMAIN db.documents \subseteq DOMAIN t.documents
  BY <1>3, <1>5 DEF Consistent, ReferencesResolve
<1>9. ReferencesResolve(t)
  BY <1>4, <1>5, <1>8 DEF Consistent, ReferencesResolve
<1> QED BY <1>2, <1>7, <1>9 DEF Consistent, CreateDocument

\* And one can be moved there.
LEMMA MovingStands ==
  ASSUME Typed(db), Consistent(db), NEW d \in DOMAIN db.documents, NEW to \in DOMAIN db.spaces,
         NEW place \in DOMAIN db.collections \cup {None}, NEW slug, NEW t, t = MoveToSpace(db, d, to, place, slug)
  PROVE  /\ DOMAIN t.documents = DOMAIN db.documents
         /\ t.documents[d].space = to /\ t.documents[d].collection = place /\ t.documents[d].slug = slug
         /\ \A e \in DOMAIN db.documents \ {d} : t.documents[e] = db.documents[e]
         /\ ~SlugExistsInSpace(db, to, slug) => Consistent(t)
<1>1. DOMAIN db = Numbered \cup {"members", "next"}
      /\ {"spaces", "collections", "documents", "templates", "comments", "notices"} \subseteq Numbered
  BY DEF Typed, Numbered
<1>2. db.documents[d] \in Document
  BY DEF Typed
<1>3. PICK row : row = [db.documents[d] EXCEPT !.space = to, !.collection = place, !.slug = slug]
  OBVIOUS
<1>4. row.space = to /\ row.slug = slug /\ row.collection = place
  BY <1>2, <1>3 DEF Document
<1>5. PICK rows : rows = [db.documents EXCEPT ![d] = row]
  OBVIOUS
<1>6. t = [db EXCEPT !.documents = rows]
  BY <1>3, <1>5 DEF MoveToSpace
<1>7. /\ t.spaces = db.spaces /\ t.collections = db.collections /\ t.templates = db.templates
      /\ t.members = db.members /\ t.documents = rows /\ t.comments = db.comments /\ t.notices = db.notices
  BY <1>1, <1>6
<1>8. /\ DOMAIN rows = DOMAIN db.documents /\ rows[d] = row
      /\ \A e \in DOMAIN db.documents \ {d} : rows[e] = db.documents[e]
  BY <1>5
<1>9. ASSUME ~SlugExistsInSpace(db, to, slug) PROVE Consistent(t)
  <2>1. \A i, j \in DOMAIN rows : rows[i].space = rows[j].space /\ rows[i].slug = rows[j].slug => i = j
    <3>1. \A i \in DOMAIN db.documents : ~(db.documents[i].space = to /\ db.documents[i].slug = slug)
      BY <1>9 DEF SlugExistsInSpace, GetDocumentBySlug
    <3>2. \A i, j \in DOMAIN db.documents :
            db.documents[i].space = db.documents[j].space /\ db.documents[i].slug = db.documents[j].slug => i = j
      BY DEF Consistent, SlugsUnique
    <3> QED BY <1>4, <1>8, <3>1, <3>2
  <2>2. SlugsUnique(t)
    BY <1>7, <2>1 DEF Consistent, SlugsUnique
  <2>3. \A e \in DOMAIN rows :
          rows[e].space \in DOMAIN db.spaces /\ rows[e].collection \in DOMAIN db.collections \cup {None}
    BY <1>4, <1>8 DEF Consistent, ReferencesResolve
  <2>4. ReferencesResolve(t)
    BY <1>7, <1>8, <2>3 DEF Consistent, ReferencesResolve
  <2> QED BY <2>2, <2>4 DEF Consistent
<1> QED BY <1>4, <1>7, <1>8, <1>9

\* A space can be made whose slug no space has.
LEMMA SpaceStands ==
  ASSUME Typed(db), Consistent(db), NEW slug, GetSpaceBySlug(db, slug) = {}, NEW t, t = CreateSpace(db, slug)
  PROVE  Consistent(t) /\ db.next.spaces \in GetSpaceBySlug(t, slug)
<1>1. DOMAIN db = Numbered \cup {"members", "next"}
      /\ {"spaces", "collections", "documents", "templates", "comments", "notices"} \subseteq Numbered
  BY DEF Typed, Numbered
<1>2. PICK row : row = [slug |-> slug]
  OBVIOUS
<1>3. t = Insert(db, "spaces", row) /\ row.slug = slug
  BY <1>2 DEF CreateSpace
<1>4. /\ \A other \in Numbered \ {"spaces"} : t[other] = db[other]
      /\ DOMAIN t.spaces = DOMAIN db.spaces \cup {db.next.spaces}
      /\ t.spaces[db.next.spaces] = row
      /\ \A i \in DOMAIN db.spaces : t.spaces[i] = db.spaces[i]
  BY <1>1, <1>3, InsertLeaves, TypedShaped
<1>5. t.members = db.members
  <2>1. "members" \notin Numbered /\ "members" # "next"
    BY DEF Numbered
  <2> QED BY <1>1, <1>3, <2>1 DEF Insert
<1>6. /\ t.collections = db.collections /\ t.documents = db.documents /\ t.templates = db.templates
      /\ t.notices = db.notices /\ t.comments = db.comments
  BY <1>1, <1>4
<1>7. SlugsUnique(t)
  <2>1. \A s \in DOMAIN db.spaces : db.spaces[s].slug # slug
    BY DEF GetSpaceBySlug
  <2>2. \A s1, s2 \in DOMAIN db.spaces : db.spaces[s1].slug = db.spaces[s2].slug => s1 = s2
    BY DEF Consistent, SlugsUnique
  <2>3. \A s1, s2 \in DOMAIN t.spaces : t.spaces[s1].slug = t.spaces[s2].slug => s1 = s2
    BY <1>3, <1>4, <2>1, <2>2
  <2> QED BY <1>6, <2>3 DEF Consistent, SlugsUnique
<1>8. DOMAIN db.spaces \subseteq DOMAIN t.spaces
  BY <1>4
<1>9. t.members \subseteq (DOMAIN t.spaces) \X Users
  <2>1. db.members \subseteq (DOMAIN db.spaces) \X Users
    BY DEF Consistent, ReferencesResolve
  <2> QED BY <1>5, <1>8, <2>1
<1>10. ReferencesResolve(t)
  BY <1>6, <1>8, <1>9 DEF Consistent, ReferencesResolve
<1> QED BY <1>3, <1>4, <1>7, <1>10 DEF Consistent, GetSpaceBySlug

\* What the creation of a post-mortem does in each of its steps.
LEMMA PostMortemGoes ==
  ASSUME TypesInv, NEW c \in Clients
  PROVE  LET r == requests[c]
             s == requests'[c]
             Same(fields) == \A f \in fields : s[f] = r[f]
             new == CreateDocument(db, [space |-> r.space, collection |-> None, slug |-> Slug(r.name),
                                        type |-> "post-mortem", status |-> "published", alert |-> None])
         IN /\ PostMortemBegin(c) =>
                 /\ db' = db /\ s.news = {}
                 /\ \/ s.pc = "space" /\ GetSpaceBySlug(db, Slug(s.into)) = {}
                    \/ s.pc = "document" /\ s.space \in GetSpaceBySlug(db, Slug(s.into))
            /\ PostMortemSpace(c) =>
                 LET t == CreateSpace(db, Slug(r.into)) IN
                 /\ r.kind = "postmortem" /\ r.pc = "space" /\ Same({"into", "name", "news"})
                 /\ \/ Consistent(t) /\ db' = t /\ s.pc = "document" /\ s.space = db.next.spaces
                    \/ ~Consistent(t) /\ db' = db /\ s.pc = "refused"
            /\ PostMortemDocument(c) =>
                 /\ r.kind = "postmortem" /\ r.pc = "document" /\ Same({"into", "name", "space", "news"})
                 /\ \/ Consistent(new) /\ db' = new /\ s.pc = "created"
                    \/ ~Consistent(new) /\ db' = db /\ s.pc = "refused"
<1> DEFINE Fields == {"kind", "pc", "into", "name", "space", "news"}
<1> PICK r : r = requests[c]
  OBVIOUS
<1> PICK s : s = requests'[c]
  OBVIOUS
<1>1. Typed(db) /\ RequestsProper /\ DOMAIN requests = Clients /\ Proper(r)
  BY DEF TypesInv, RequestsProper
<1>2. r.kind = "postmortem" => DOMAIN r = Fields
  BY <1>1, KindTyped DEF PostMortems
<1>3. ASSUME PostMortemBegin(c)
      PROVE  /\ db' = db /\ s.news = {}
             /\ \/ s.pc = "space" /\ GetSpaceBySlug(db, Slug(s.into)) = {}
                \/ s.pc = "document" /\ s.space \in GetSpaceBySlug(db, Slug(s.into))
  <2>1. PICK into \in Names, name \in Names :
          \E place \in IF GetSpaceBySlug(db, Slug(into)) = {} THEN {None} ELSE GetSpaceBySlug(db, Slug(into)) :
            Begin(c, "postmortems", [kind |-> "postmortem", pc |-> IF place = None THEN "space" ELSE "document",
                                     into |-> into, name |-> name, space |-> place, news |-> {}])
    BY <1>3 DEF PostMortemBegin
  <2>2. PICK place \in IF GetSpaceBySlug(db, Slug(into)) = {} THEN {None} ELSE GetSpaceBySlug(db, Slug(into)) :
          /\ s = [kind |-> "postmortem", pc |-> IF place = None THEN "space" ELSE "document",
                  into |-> into, name |-> name, space |-> place, news |-> {}]
          /\ db' = db
    BY <1>1, <2>1, GoesOn
  <2>3. s.into = into /\ s.space = place /\ s.news = {} /\ s.pc = IF place = None THEN "space" ELSE "document"
    BY <2>2
  <2>4. None \notin GetSpaceBySlug(db, Slug(into))
    <3>1. "spaces" \in Numbered
      BY DEF Numbered
    <3> QED BY <1>1, <3>1, IdsTyped, NoneAssumption DEF GetSpaceBySlug, Id
  <2> QED BY <2>2, <2>3, <2>4
<1>4. ASSUME PostMortemSpace(c), NEW t, t = CreateSpace(db, Slug(r.into))
      PROVE  /\ r.kind = "postmortem" /\ r.pc = "space" /\ \A f \in {"into", "name", "news"} : s[f] = r[f]
             /\ \/ Consistent(t) /\ db' = t /\ s.pc = "document" /\ s.space = db.next.spaces
                \/ ~Consistent(t) /\ db' = db /\ s.pc = "refused"
  <2>1. DOMAIN r = Fields /\ r.kind = "postmortem" /\ r.pc = "space"
    BY <1>2, <1>4 DEF PostMortemSpace
  <2>2. PICK place : place = db.next.spaces
    OBVIOUS
  <2>3. Execute(c, t, [r EXCEPT !.pc = "document", !.space = place], [r EXCEPT !.pc = "refused"])
    BY <1>4, <2>2 DEF PostMortemSpace
  <2>4. \/ Consistent(t) /\ db' = t /\ s = [r EXCEPT !.pc = "document", !.space = place]
        \/ ~Consistent(t) /\ db' = db /\ s = [r EXCEPT !.pc = "refused"]
    BY <1>1, <2>3, GoesOn
  <2> QED BY <2>1, <2>2, <2>4
<1>5. ASSUME PostMortemDocument(c),
             NEW new, new = CreateDocument(db, [space |-> r.space, collection |-> None, slug |-> Slug(r.name),
                              type |-> "post-mortem", status |-> "published", alert |-> None])
      PROVE  /\ r.kind = "postmortem" /\ r.pc = "document" /\ \A f \in {"into", "name", "space", "news"} : s[f] = r[f]
             /\ \/ Consistent(new) /\ db' = new /\ s.pc = "created"
                \/ ~Consistent(new) /\ db' = db /\ s.pc = "refused"
  <2>1. DOMAIN r = Fields /\ r.kind = "postmortem" /\ r.pc = "document"
    BY <1>2, <1>5 DEF PostMortemDocument
  <2>2. Execute(c, new, [r EXCEPT !.pc = "created"], [r EXCEPT !.pc = "refused"])
    BY <1>5 DEF PostMortemDocument
  <2>3. \/ Consistent(new) /\ db' = new /\ s = [r EXCEPT !.pc = "created"]
        \/ ~Consistent(new) /\ db' = db /\ s = [r EXCEPT !.pc = "refused"]
    BY <1>1, <2>2, GoesOn
  <2> QED BY <2>1, <2>3
<1> QED BY <1>3, <1>4, <1>5

\* A move that has found its document and its place, and the slugs that it has passed over.
MoveReady(t, r) ==
  /\ r.doc \in DOMAIN t.documents /\ t.documents[r.doc].space = r.from /\ t.documents[r.doc].slug = r.slug
  /\ r.to \in DOMAIN t.spaces /\ r.place \in DOMAIN t.collections \cup {None}
  /\ \A i \in 0 .. r.tries - 1 : SlugExistsInSpace(t, r.to, Suffixed(r.slug, i))

\* One that has moved it there.
Moved(t, r) ==
  /\ t.documents[r.doc].space = r.to /\ t.documents[r.doc].collection = r.place
  /\ t.documents[r.doc].slug = Candidate(r)
  /\ \A i \in 0 .. r.tries - 1 :
       SlugExistsInSpace(t, r.to, Suffixed(r.slug, i)) \/ (i = 0 /\ r.from = r.to)

\* A move or a post-mortem that nothing has come between.
QuietHolds(t, r) ==
  /\ r.kind = "move" =>
       /\ r.pc # "refused"
       /\ r.pc \in {"check", "write"} => MoveReady(t, r)
       /\ r.pc = "write" => ~SlugExistsInSpace(t, r.to, Candidate(r))
       /\ r.pc = "moved" => r.doc \in DOMAIN t.documents /\ Moved(t, r)
  /\ r.kind = "postmortem" =>
       /\ r.pc = "space" => GetSpaceBySlug(t, Slug(r.into)) = {}
       /\ r.pc = "document" => r.space \in GetSpaceBySlug(t, Slug(r.into))
       /\ r.pc = "refused" =>
            \E s \in GetSpaceBySlug(t, Slug(r.into)) : SlugExistsInSpace(t, s, Slug(r.name))

QuietInv == \A c \in Clients : requests[c].news = {} => QuietHolds(db, requests[c])

\* As long as nothing is written, all that stays.
LEMMA QuietLeft ==
  ASSUME TypesInv, TypesInv', QuietInv, NEW c \in Clients, Left(c), requests'[c].news = {},
         requests'[c].kind \in {"move", "postmortem"}
  PROVE  QuietHolds(db', requests'[c])
<1> PICK r : r = requests[c]
  OBVIOUS
<1> PICK s : s = requests'[c]
  OBVIOUS
<1>1. Typed(db) /\ Typed(db')
  BY DEF TypesInv
<1>2. /\ s.kind = r.kind /\ s.news = r.news \cup Written(db')
      /\ r.kind = "move" => /\ s.pc = r.pc /\ s.doc = r.doc /\ s.from = r.from /\ s.slug = r.slug
                            /\ s.to = r.to /\ s.place = r.place /\ s.tries = r.tries
      /\ r.kind = "postmortem" => /\ s.pc = r.pc /\ s.into = r.into /\ s.name = r.name
                                  /\ s.space = r.space
  <2>1. s.kind = r.kind /\ r.kind # "idle"
    BY <1>1, LeftKinds
  <2> QED BY <1>1, <2>1, LeftKinds
<1>3. r.news = {} /\ Written(db') = {}
  BY <1>2
<1>4. /\ db'.spaces = db.spaces /\ db'.collections = db.collections
      /\ DOMAIN db'.documents = DOMAIN db.documents
      /\ \A d \in DOMAIN db.documents : db'.documents[d] = db.documents[d]
  BY <1>1, <1>3, NothingWritten
<1>5. /\ \A place, slug : SlugExistsInSpace(db', place, slug) = SlugExistsInSpace(db, place, slug)
      /\ \A slug : GetSpaceBySlug(db', slug) = GetSpaceBySlug(db, slug)
  <2>1. \A place, slug : GetDocumentBySlug(db', place, slug) = GetDocumentBySlug(db, place, slug)
    BY <1>4 DEF GetDocumentBySlug
  <2> QED BY <1>4, <2>1 DEF GetSpaceBySlug, SlugExistsInSpace
<1>6. QuietHolds(db, r)
  BY <1>3 DEF QuietInv
<1>7. CASE r.kind = "move"
  <2>1. Candidate(s) = Candidate(r)
    BY <1>2, <1>7 DEF Candidate
  <2>2. /\ r.pc # "refused"
        /\ r.pc \in {"check", "write"} => MoveReady(db, r)
        /\ r.pc = "write" => ~SlugExistsInSpace(db, r.to, Candidate(r))
        /\ r.pc = "moved" => r.doc \in DOMAIN db.documents /\ Moved(db, r)
    BY <1>6, <1>7 DEF QuietHolds
  <2>3. MoveReady(db, r) => MoveReady(db', s)
    BY <1>2, <1>4, <1>5, <1>7 DEF MoveReady
  <2>4. r.doc \in DOMAIN db.documents /\ Moved(db, r) => Moved(db', s)
    BY <1>2, <1>4, <1>5, <1>7, <2>1 DEF Moved
  <2> QED BY <1>2, <1>4, <1>5, <1>7, <2>1, <2>2, <2>3, <2>4 DEF QuietHolds
<1>8. CASE r.kind = "postmortem"
  BY <1>2, <1>5, <1>6, <1>8 DEF QuietHolds
<1> QED BY <1>2, <1>7, <1>8

\* A number appended makes another slug.
LEMMA SuffixedDiffers ==
  ASSUME NEW slug \in Slugs, NEW i \in Nat, Suffixed(slug, i) = slug
  PROVE  i = 0
<1> SUFFICES ASSUME i # 0 PROVE FALSE
  OBVIOUS
<1>1. slug[2] \in Seq(Nat)
  BY DEF Slugs
<1>2. <<slug[1], Append(slug[2], i)>> = slug
  BY DEF Suffixed
<1>3. Append(slug[2], i) = slug[2]
  BY <1>2
<1>4. Len(Append(slug[2], i)) = Len(slug[2]) + 1 /\ Len(slug[2]) \in Nat
  BY <1>1
<1> QED BY <1>3, <1>4

LEMMA QuietMoved ==
  ASSUME TypesInv, TypesInv', QuietInv, NEW c \in Clients, MoveGet(c) \/ CheckSlug(c) \/ MoveWrite(c),
         requests'[c].news = {}
  PROVE  QuietHolds(db', requests'[c])
<1> PICK r : r = requests[c]
  OBVIOUS
<1> PICK s : s = requests'[c]
  OBVIOUS
<1>1. Typed(db) /\ Consistent(db) /\ RequestsProper /\ Proper(r) /\ DOMAIN requests = Clients
  BY DEF TypesInv, RequestsProper
<1>2. s.kind = "move"
  <2>1. s \in Moves
    BY <1>1, WorkspaceProper
  <2> QED BY <2>1 DEF Moves
<1>3. r.kind = "move" => r.tries \in Nat /\ r.slug \in Slugs
  BY <1>1, KindTyped DEF Moves
<1>4. CASE MoveGet(c)
  <2>1. /\ s.pc = "check" /\ s.doc \in DOMAIN db.documents /\ s.tries = 0 /\ db' = db
        /\ s.from = db.documents[s.doc].space /\ s.slug = db.documents[s.doc].slug
        /\ s.to \in DOMAIN db.spaces /\ s.place \in AnyCollection
    BY <1>4, MoveGoes
  <2>2. MoveReady(db', s)
    BY <2>1 DEF MoveReady, AnyCollection
  <2> QED BY <1>2, <2>1, <2>2 DEF QuietHolds
<1>5. CASE CheckSlug(c)
  <2>1. /\ r.kind = "move" /\ r.pc = "check" /\ db' = db
        /\ s.doc = r.doc /\ s.from = r.from /\ s.slug = r.slug /\ s.to = r.to /\ s.place = r.place
        /\ s.news = r.news
        /\ \/ SlugExistsInSpace(db, r.to, Candidate(r)) /\ s.pc = "check" /\ s.tries = r.tries + 1
           \/ ~SlugExistsInSpace(db, r.to, Candidate(r)) /\ s.pc = "write" /\ s.tries = r.tries
    BY <1>5, MoveGoes
  <2>2. MoveReady(db, r)
    BY <2>1 DEF QuietInv, QuietHolds
  <2>3. MoveReady(db', s)
    <3>1. ASSUME NEW i \in 0 .. s.tries - 1 PROVE SlugExistsInSpace(db, r.to, Suffixed(r.slug, i))
      <4>1. CASE i \in 0 .. r.tries - 1
        BY <2>2, <4>1 DEF MoveReady
      <4>2. CASE i \notin 0 .. r.tries - 1
        <5>1. i = r.tries /\ SlugExistsInSpace(db, r.to, Candidate(r))
          BY <1>3, <2>1, <4>2
        <5> QED BY <5>1 DEF Candidate
      <4> QED BY <4>1, <4>2
    <3> QED BY <2>1, <2>2, <3>1 DEF MoveReady
  <2>4. s.pc = "write" => ~SlugExistsInSpace(db', s.to, Candidate(s))
    BY <2>1 DEF Candidate
  <2> QED BY <1>2, <2>1, <2>3, <2>4 DEF QuietHolds
<1>6. CASE MoveWrite(c)
  <2>1. PICK new : new = MoveToSpace(db, r.doc, r.to, r.place, Candidate(r))
    OBVIOUS
  <2>2. /\ r.kind = "move" /\ r.pc = "write"
        /\ s.doc = r.doc /\ s.from = r.from /\ s.slug = r.slug /\ s.to = r.to /\ s.place = r.place
        /\ s.tries = r.tries /\ s.news = r.news
        /\ \/ Consistent(new) /\ db' = new /\ r.doc \in DOMAIN db.documents /\ s.pc = "moved"
           \/ Consistent(new) /\ db' = new /\ r.doc \notin DOMAIN db.documents /\ s.pc = "refused"
           \/ ~Consistent(new) /\ db' = db /\ s.pc = "refused"
    BY <1>6, <2>1, MoveGoes
  <2>3. MoveReady(db, r) /\ ~SlugExistsInSpace(db, r.to, Candidate(r))
    BY <2>2 DEF QuietInv, QuietHolds
  <2>4. /\ r.doc \in DOMAIN db.documents
        /\ DOMAIN new.documents = DOMAIN db.documents
        /\ new.documents[r.doc].space = r.to /\ new.documents[r.doc].collection = r.place
        /\ new.documents[r.doc].slug = Candidate(r)
        /\ \A e \in DOMAIN db.documents \ {r.doc} : new.documents[e] = db.documents[e]
        /\ Consistent(new)
    <3>1. PICK slug : slug = Candidate(r)
      OBVIOUS
    <3>2. /\ r.doc \in DOMAIN db.documents /\ r.to \in DOMAIN db.spaces
          /\ r.place \in DOMAIN db.collections \cup {None}
          /\ new = MoveToSpace(db, r.doc, r.to, r.place, slug) /\ ~SlugExistsInSpace(db, r.to, slug)
      BY <2>1, <2>3, <3>1 DEF MoveReady
    <3>3. PICK d \in DOMAIN db.documents, to \in DOMAIN db.spaces, place \in DOMAIN db.collections \cup {None} :
            d = r.doc /\ to = r.to /\ place = r.place
      BY <3>2
    <3>4. new = MoveToSpace(db, d, to, place, slug)
      BY <3>2, <3>3
    <3>5. /\ DOMAIN new.documents = DOMAIN db.documents
          /\ new.documents[d].space = to /\ new.documents[d].collection = place /\ new.documents[d].slug = slug
          /\ \A e \in DOMAIN db.documents \ {d} : new.documents[e] = db.documents[e]
          /\ ~SlugExistsInSpace(db, to, slug) => Consistent(new)
      BY <1>1, <3>4, MovingStands
    <3> QED BY <3>1, <3>2, <3>3, <3>5
  <2>5. db' = new /\ s.pc = "moved"
    BY <2>2, <2>4
  <2>6. ASSUME NEW i \in 0 .. r.tries - 1
        PROVE  SlugExistsInSpace(new, r.to, Suffixed(r.slug, i)) \/ (i = 0 /\ r.from = r.to)
    <3>1. PICK e \in DOMAIN db.documents :
            db.documents[e].space = r.to /\ db.documents[e].slug = Suffixed(r.slug, i)
      BY <2>3 DEF MoveReady, SlugExistsInSpace, GetDocumentBySlug
    <3>2. CASE e = r.doc
      <4>1. Suffixed(r.slug, i) = r.slug /\ r.from = r.to
        BY <2>3, <3>1, <3>2 DEF MoveReady
      <4>2. i \in Nat
        BY <1>3, <2>2
      <4> QED BY <1>3, <2>2, <4>1, <4>2, SuffixedDiffers
    <3>3. CASE e # r.doc
      BY <2>4, <3>1, <3>3 DEF SlugExistsInSpace, GetDocumentBySlug
    <3> QED BY <3>2, <3>3
  <2>7. Moved(db', s) /\ s.doc \in DOMAIN db'.documents
    <3>1. Candidate(s) = Candidate(r)
      BY <2>2 DEF Candidate
    <3> QED BY <2>2, <2>4, <2>5, <2>6, <3>1 DEF Moved
  <2> QED BY <1>2, <2>5, <2>7 DEF QuietHolds
<1> QED BY <1>4, <1>5, <1>6

LEMMA QuietPosted ==
  ASSUME TypesInv, TypesInv', QuietInv, NEW c \in Clients,
         PostMortemBegin(c) \/ PostMortemSpace(c) \/ PostMortemDocument(c), requests'[c].news = {},
         requests'[c].kind = "postmortem"
  PROVE  QuietHolds(db', requests'[c])
<1> PICK r : r = requests[c]
  OBVIOUS
<1> PICK s : s = requests'[c]
  OBVIOUS
<1>1. Typed(db) /\ Consistent(db) /\ s.kind = "postmortem" /\ s.news = {}
  BY DEF TypesInv
<1>2. CASE PostMortemBegin(c)
  <2>1. /\ db' = db
        /\ \/ s.pc = "space" /\ GetSpaceBySlug(db, Slug(s.into)) = {}
           \/ s.pc = "document" /\ s.space \in GetSpaceBySlug(db, Slug(s.into))
    BY <1>2, PostMortemGoes
  <2> QED BY <1>1, <2>1 DEF QuietHolds
<1>3. CASE PostMortemSpace(c)
  <2>1. PICK t : t = CreateSpace(db, Slug(r.into))
    OBVIOUS
  <2>2. /\ r.kind = "postmortem" /\ r.pc = "space" /\ s.into = r.into /\ s.news = r.news
        /\ \/ Consistent(t) /\ db' = t /\ s.pc = "document" /\ s.space = db.next.spaces
           \/ ~Consistent(t) /\ db' = db /\ s.pc = "refused"
    BY <1>3, <2>1, PostMortemGoes
  <2>3. GetSpaceBySlug(db, Slug(r.into)) = {}
    BY <1>1, <2>2 DEF QuietInv, QuietHolds
  <2>4. Consistent(t) /\ db.next.spaces \in GetSpaceBySlug(t, Slug(r.into))
    BY <1>1, <2>1, <2>3, SpaceStands
  <2> QED BY <1>1, <2>2, <2>4 DEF QuietHolds
<1>4. CASE PostMortemDocument(c)
  <2>1. PICK row : row = [space |-> r.space, collection |-> None, slug |-> Slug(r.name),
                          type |-> "post-mortem", status |-> "published", alert |-> None]
    OBVIOUS
  <2>2. /\ r.kind = "postmortem" /\ r.pc = "document"
        /\ s.into = r.into /\ s.name = r.name /\ s.space = r.space /\ s.news = r.news
        /\ \/ Consistent(CreateDocument(db, row)) /\ s.pc = "created"
           \/ ~Consistent(CreateDocument(db, row)) /\ db' = db /\ s.pc = "refused"
    BY <1>4, <2>1, PostMortemGoes
  <2>3. r.space \in GetSpaceBySlug(db, Slug(r.into))
    BY <1>1, <2>2 DEF QuietInv, QuietHolds
  <2>4. ~Consistent(CreateDocument(db, row)) => SlugExistsInSpace(db, r.space, Slug(r.name))
    <3>1. row.space = r.space /\ row.collection = None /\ row.slug = Slug(r.name)
      BY <2>1
    <3>2. r.space \in DOMAIN db.spaces
      BY <2>3 DEF GetSpaceBySlug
    <3> QED BY <1>1, <3>1, <3>2, CreatingStands
  <2> QED BY <1>1, <2>2, <2>3, <2>4 DEF QuietHolds
<1> QED BY <1>2, <1>3, <1>4

LEMMA NextQuiet ==
  ASSUME TypesInv, TypesInv', QuietInv, [Next]_dvars
  PROVE  QuietInv'
<1>1. Typed(db) /\ Typed(db') /\ DOMAIN requests = Clients /\ Shaped(db)
  BY TypedShaped DEF TypesInv, RequestsProper
<1>2. \/ \A q \in Clients : Left(q)
      \/ \E c \in Clients : Acts(c) /\ \A q \in Clients \ {c} : Left(q)
  BY <1>1, WhoActs
<1>3. ASSUME NEW c \in Clients, requests'[c].news = {} PROVE QuietHolds(db', requests'[c])
  <2>1. CASE requests'[c].kind \notin {"move", "postmortem"}
    BY <2>1 DEF QuietHolds
  <2>2. CASE Left(c) /\ requests'[c].kind \in {"move", "postmortem"}
    BY <1>3, <2>2, QuietLeft
  <2>3. CASE Acts(c) /\ requests'[c].kind = "move"
    BY <1>1, <1>3, <2>3, KindOfActs, QuietMoved
  <2>4. CASE Acts(c) /\ requests'[c].kind = "postmortem"
    BY <1>1, <1>3, <2>4, KindOfActs, QuietPosted
  <2> QED BY <1>2, <2>1, <2>2, <2>3, <2>4
<1> QED BY <1>3 DEF QuietInv

\* QuietInv holds throughout.
THEOREM QuietInvariant == Spec => []QuietInv
<1>1. Init => QuietInv
  BY DEF Init, Idle, QuietInv, QuietHolds
<1>2. TypesInv /\ TypesInv' /\ QuietInv /\ [Next]_dvars => QuietInv'
  BY NextQuiet
<1> QED BY <1>1, <1>2, TypesInvariant, PTL DEF Spec

\* A move that nothing comes between succeeds, with the first of the slugs it tries that is
\* free, its own place in a space it stays in counting as taken; and a post-mortem that
\* nothing comes between is refused only for a document of its slug.
THEOREM QuietRequestsSucceed == Spec => []QuietRequests
<1>1. QuietInv => QuietMoves
  <2> SUFFICES ASSUME QuietInv, NEW c \in Clients, requests[c].kind = "move"
               PROVE  LET r == requests[c]
                          mine == [space |-> r.to, collection |-> r.place, slug |-> Candidate(r)]
                      IN /\ r.pc = "refused" => r.news # {}
                         /\ r.pc = "moved" /\ r.news = {} =>
                              /\ \A f \in DOMAIN mine : db.documents[r.doc][f] = mine[f]
                              /\ \A i \in 0 .. r.tries - 1 :
                                   SlugExistsInSpace(db, r.to, Suffixed(r.slug, i)) \/ (i = 0 /\ r.from = r.to)
    BY DEF QuietMoves
  <2> PICK r : r = requests[c]
    OBVIOUS
  <2>1. r.pc = "refused" => r.news # {}
    BY DEF QuietInv, QuietHolds
  <2>2. r.pc = "moved" /\ r.news = {} => Moved(db, r)
    BY DEF QuietInv, QuietHolds
  <2> QED BY <2>1, <2>2 DEF Moved
<1>2. QuietInv => RefusalsHaveAReason
  BY DEF QuietInv, QuietHolds, RefusalsHaveAReason
<1> QED BY <1>1, <1>2, QuietInvariant, PTL DEF QuietRequests

-----------------------------------------------------------------------------
(* Paging *)

\* The rows that are ranked before row d.
Ahead(rank, rows, d) == {e \in rows : rank[e] > rank[d]}

\* A row whose rank no other has, and that has a page before it or more, is on the page, or
\* has this page before it as well.
LEMMA PagePassesNoneOver ==
  ASSUME NEW rows, IsFiniteSet(rows), NEW rank, \A e \in rows : rank[e] \in Nat,
         NEW limit \in Nat \ {0}, NEW offset \in Nat, NEW page \in Pages(rank, rows, limit, offset),
         NEW d \in rows, \A e \in rows \ {d} : rank[e] # rank[d],
         offset <= Cardinality(Ahead(rank, rows, d))
  PROVE  /\ page # {}
         /\ d \in page \/ offset + limit <= Cardinality(Ahead(rank, rows, d))
<1> PICK ahead : ahead = Ahead(rank, rows, d)
  OBVIOUS
<1>1. /\ ahead \subseteq rows \ {d} /\ \A e \in rows : e \in ahead <=> rank[e] > rank[d]
      /\ \A e \in rows \ {d} : e \notin ahead => rank[d] > rank[e]
  BY DEF Ahead
<1>2. IsFiniteSet(ahead) /\ IsFiniteSet(rows \ {d}) /\ IsFiniteSet(page) /\ page \subseteq rows
  BY <1>1, FS_Subset DEF Pages
<1>3. PICK n, m, k \in Nat : n = Cardinality(rows) /\ m = Cardinality(ahead) /\ k = Cardinality(page)
  BY <1>2, FS_CardinalityType
<1>4. m + 1 <= n
  <2>1. Cardinality(rows \ {d}) = n - 1
    BY <1>3, FS_RemoveElement
  <2>2. m <= Cardinality(rows \ {d})
    BY <1>1, <1>2, <1>3, FS_Subset
  <2> QED BY <1>3, <2>1, <2>2
<1>5. offset <= m
  BY <1>3
<1>6. k = PageSize(n, limit, offset)
  BY <1>3 DEF Pages
<1>7. k > 0 /\ (k = limit \/ k = n - offset)
  BY <1>3, <1>4, <1>5, <1>6 DEF PageSize
<1>8. page # {}
  BY <1>3, <1>7, FS_EmptySet
<1>9. PICK before \in SUBSET (rows \ page) :
        /\ Cardinality(before) = offset
        /\ \A a \in before, e \in rows \ before : rank[a] >= rank[e]
        /\ \A a \in page, e \in rows \ (before \cup page) : rank[a] >= rank[e]
  BY <1>8 DEF Pages
<1>10. IsFiniteSet(before)
  BY FS_Subset
<1>11. ASSUME d \notin page PROVE offset + limit <= m
  <2>1. CASE d \in before
    <3>1. ahead \subseteq before \ {d}
      <4>1. ASSUME NEW e \in ahead, e \notin before PROVE FALSE
        <5>1. e \in rows /\ rank[e] > rank[d] /\ rank[e] \in Nat /\ rank[d] \in Nat
          BY <1>1
        <5>2. rank[d] >= rank[e]
          BY <1>9, <2>1, <4>1, <5>1
        <5> QED BY <5>1, <5>2
      <4> QED BY <1>1, <4>1
    <3>2. Cardinality(before \ {d}) = offset - 1 /\ IsFiniteSet(before \ {d})
      BY <1>9, <1>10, <2>1, FS_RemoveElement
    <3>3. m <= Cardinality(before \ {d})
      BY <1>3, <3>1, <3>2, FS_Subset
    <3> QED BY <1>3, <1>5, <3>2, <3>3
  <2>2. CASE d \notin before
    <3>1. before \cup page \subseteq ahead
      <4>1. ASSUME NEW e \in before \cup page PROVE e \in ahead
        <5>1. e \in rows \ {d} /\ rank[e] \in Nat /\ rank[d] \in Nat
          BY <1>2, <1>11, <2>2
        <5>2. rank[e] >= rank[d]
          BY <1>9, <1>11, <2>2, <4>1
        <5>3. rank[e] # rank[d]
          BY <5>1
        <5>4. rank[e] > rank[d]
          BY <5>1, <5>2, <5>3
        <5> QED BY <1>1, <5>1, <5>4
      <4> QED BY <4>1
    <3>2. Cardinality(before \cup page) = offset + k
      <4>1. before \cap page = {}
        OBVIOUS
      <4>2. Cardinality(before \cap page) = 0
        BY <4>1, FS_EmptySet
      <4>3. Cardinality(before \cup page) = Cardinality(before) + Cardinality(page) - 0
        BY <1>2, <1>10, <4>2, FS_Union
      <4> QED BY <1>3, <1>9, <4>3
    <3>3. offset + k <= m
      BY <1>2, <1>3, <3>1, <3>2, FS_Subset
    <3> QED BY <1>3, <1>4, <1>7, <3>3
  <2> QED BY <2>1, <2>2
<1> QED BY <1>3, <1>8, <1>11

\* The documents that a search looks at, and those of them that match exactly.
Eligible(t, r) ==
  CASE r.in = "space" -> OfSpace(t, r.where) [] r.in = "type" -> OfType(t, r.where) [] r.in = "all" -> Live(t)

Matches(t, r) == (DOMAIN r.exact) \cap Eligible(t, r)

\* While nothing is written, what a search has not found yet is on the pages to come.
SearchHolds(t, r) ==
  r.kind = "search" /\ r.news = {} =>
    \A d \in Matches(t, r) : (\A e \in Matches(t, r) \ {d} : r.exact[e] # r.exact[d]) =>
      \/ d \in r.found
      \/ r.pc = "more" /\ r.offset <= Cardinality(Ahead(r.exact, Matches(t, r), d))

SearchInv == \A c \in Clients : SearchHolds(db, requests[c])

\* The matches can be counted, and their ranks compared.
LEMMA MatchesCount ==
  ASSUME NEW t, Typed(t), NEW r \in Searches
  PROVE  /\ IsFiniteSet(Matches(t, r)) /\ \A d \in Matches(t, r) : r.exact[d] \in Nat
         /\ \A d : Cardinality(Ahead(r.exact, Matches(t, r), d)) \in Nat
<1>1. Matches(t, r) \subseteq DOMAIN t.documents
  BY DEF Matches, Eligible, OfSpace, OfType, Live, Searches
<1>2. IsFiniteSet(DOMAIN t.documents)
  <2>1. "documents" \in Numbered
    BY DEF Numbered
  <2>2. PICK n \in Nat : DOMAIN t.documents \subseteq 0 .. (n - 1)
    BY <2>1 DEF Typed, Id
  <2>3. n - 1 \in Int /\ 0 \in Int
    OBVIOUS
  <2>4. IsFiniteSet(0 .. (n - 1))
    BY <2>3, FS_Interval
  <2> QED BY <2>2, <2>4, FS_Subset
<1>3. IsFiniteSet(Matches(t, r))
  BY <1>1, <1>2, FS_Subset
<1>4. \A d : IsFiniteSet(Ahead(r.exact, Matches(t, r), d))
  BY <1>3, FS_Subset DEF Ahead
<1>5. \A d \in Matches(t, r) : r.exact[d] \in Nat
  BY DEF Matches, Searches, Ranks
<1> QED BY <1>3, <1>4, <1>5, FS_CardinalityType

\* What a search looks at stays when nothing is written.
LEMMA EligibleOn ==
  ASSUME TypesInv, TypesInv', Written(db') = {}, NEW r \in Searches, NEW s \in Searches,
         s.exact = r.exact, s.in = r.in, s.where = r.where
  PROVE  Matches(db', s) = Matches(db, r)
<1>1. DOMAIN db'.documents = DOMAIN db.documents /\ \A d \in DOMAIN db.documents : db'.documents[d] = db.documents[d]
  BY NothingWritten DEF TypesInv
<1>2. Live(db') = Live(db)
  BY <1>1 DEF Live
<1>3. OfSpace(db', s.where) = OfSpace(db, r.where) /\ OfType(db', s.where) = OfType(db, r.where)
  BY <1>1, <1>2 DEF OfSpace, OfType, Live
<1>4. Eligible(db', s) = Eligible(db, r)
  BY <1>2, <1>3 DEF Eligible, Searches
<1> QED BY <1>4 DEF Matches

\* What the next page of a search does.
LEMMA SearchGoes ==
  ASSUME TypesInv, NEW c \in Clients, SearchNext(c)
  PROVE  LET r == requests[c]
             s == requests'[c]
         IN /\ r \in Searches /\ r.pc = "more" /\ db' = db
            /\ s.exact = r.exact /\ s.in = r.in /\ s.where = r.where /\ s.news = r.news
            /\ s.offset = r.offset + PageLimit
            /\ \E fts \in Pages(r.exact, Matches(db, r), PageLimit, r.offset) :
                 /\ r.found \cup fts \subseteq s.found
                 /\ s.pc = "more" \/ (s.pc = "done" /\ fts = {})
<1> PICK r : r = requests[c]
  OBVIOUS
<1> PICK s : s = requests'[c]
  OBVIOUS
<1>1. DOMAIN requests = Clients /\ Proper(r)
  BY DEF TypesInv, RequestsProper
<1>2. r.kind = "search" /\ r.pc = "more"
  BY DEF SearchNext
<1>3. r \in Searches
  BY <1>1, <1>2, KindTyped
<1>4. DOMAIN r = {"kind", "pc", "exact", "similar", "in", "where", "offset", "found", "news"}
  BY <1>3 DEF Searches
<1>5. PICK page \in SearchResults(r) :
        Go(c, [r EXCEPT !.found = @ \cup page, !.offset = @ + PageLimit,
                        !.pc = IF page = {} THEN "done" ELSE "more"])
  BY DEF SearchNext
<1>6. page \in SearchPages(r.exact, r.similar, Eligible(db, r), PageLimit, r.offset)
  BY <1>3, <1>5 DEF Searches, SearchResults, SearchDocuments, SearchDocumentsBySpace, SearchDocumentsByType,
                    Eligible
<1>7. PICK fts \in Pages(r.exact, Matches(db, r), PageLimit, r.offset) : fts \subseteq page
  <2>1. PICK P : P = Pages(r.exact, Matches(db, r), PageLimit, r.offset)
    OBVIOUS
  <2>2. \E fts \in P : \E fuzzy : page = fts \cup fuzzy
    <3>1. page \in UNION {{fts \cup fuzzy : fuzzy \in Pages(r.similar, ((DOMAIN r.similar) \cap Eligible(db, r)) \ fts,
                                                            PageLimit, r.offset)} : fts \in P}
      BY <1>6, <2>1 DEF SearchPages, Matches
    <3>2. PICK fts \in P : page \in {fts \cup fuzzy :
                                       fuzzy \in Pages(r.similar, ((DOMAIN r.similar) \cap Eligible(db, r)) \ fts,
                                                       PageLimit, r.offset)}
      BY <3>1
    <3>3. \E fuzzy : page = fts \cup fuzzy
      BY <3>2
    <3> QED BY <3>3
  <2> QED BY <2>1, <2>2
<1> PICK found, offset, pc : /\ found = r.found \cup page /\ offset = r.offset + PageLimit
                             /\ pc = IF page = {} THEN "done" ELSE "more"
  OBVIOUS
<1>8. s = [r EXCEPT !.found = found, !.offset = offset, !.pc = pc] /\ db' = db
  BY <1>1, <1>5, GoesOn
<1>9. /\ s.exact = r.exact /\ s.in = r.in /\ s.where = r.where /\ s.news = r.news
      /\ s.offset = r.offset + PageLimit /\ s.found = found /\ s.pc = pc
  BY <1>4, <1>8
<1> QED BY <1>2, <1>3, <1>7, <1>8, <1>9

LEMMA NextSearches ==
  ASSUME TypesInv, TypesInv', SearchInv, [Next]_dvars
  PROVE  SearchInv'
<1>1. /\ Typed(db) /\ Typed(db') /\ Stands /\ DOMAIN requests = Clients /\ Shaped(db)
      /\ RequestsProper /\ RequestsProper'
  BY NextStands, TypedShaped DEF TypesInv, RequestsProper
<1>2. \/ \A q \in Clients : Left(q)
      \/ \E c \in Clients : Acts(c) /\ \A q \in Clients \ {c} : Left(q)
  BY <1>1, WhoActs
<1>3. ASSUME NEW c \in Clients, Left(c), requests'[c].kind = "search", requests'[c].news = {}
      PROVE  SearchHolds(db', requests'[c])
  <2> PICK r : r = requests[c]
    OBVIOUS
  <2> PICK s : s = requests'[c]
    OBVIOUS
  <2>1. SearchHolds(db, r) /\ Proper(r)
    BY <1>1 DEF SearchInv, RequestsProper
  <2>2. r.kind = "search"
    BY <1>1, <1>3, LeftKinds
  <2>3. r \in Searches
    BY <2>1, <2>2, KindTyped
  <2>4. DOMAIN r = {"kind", "pc", "exact", "similar", "in", "where", "offset", "found", "news"}
    BY <2>3 DEF Searches
  <2>5. Proper(s) /\ (\A f \in DOMAIN r \ {"news", "changed"} : s[f] = r[f]) /\ s.news = r.news \cup Written(db')
    BY <1>1, <1>3, <2>1, <2>2, LeftFields
  <2>6. s \in Searches
    BY <1>3, <2>5, KindTyped
  <2>7. /\ s.pc = r.pc /\ s.exact = r.exact /\ s.in = r.in /\ s.where = r.where
        /\ s.offset = r.offset /\ s.found = r.found
    BY <2>4, <2>5
  <2>8. r.news = {} /\ Written(db') = {}
    BY <1>3, <2>5
  <2>9. Matches(db', s) = Matches(db, r)
    BY <2>3, <2>6, <2>7, <2>8, EligibleOn
  <2> QED BY <2>1, <2>2, <2>7, <2>8, <2>9 DEF SearchHolds
<1>4. ASSUME NEW c \in Clients, Acts(c), requests'[c].kind = "search", requests'[c].news = {}
      PROVE  SearchHolds(db', requests'[c])
  <2> PICK r : r = requests[c]
    OBVIOUS
  <2> PICK s : s = requests'[c]
    OBVIOUS
  <2>1. SearchHolds(db, r) /\ Proper(s)
    BY <1>1 DEF SearchInv, RequestsProper
  <2>2. s \in Searches
    BY <1>4, <2>1, KindTyped
  <2>3. CASE SearchBegin(c)
    <3>1. s.pc = "more" /\ s.offset = 0
      <4>1. PICK exact, similar, in, where :
              s = [kind |-> "search", pc |-> "more", exact |-> exact, similar |-> similar,
                   in |-> in, where |-> where, offset |-> 0, found |-> {}, news |-> {}]
        BY <1>1, <2>3, GoesOn DEF SearchBegin
      <4> QED BY <4>1
    <3>2. \A d : 0 <= Cardinality(Ahead(s.exact, Matches(db', s), d))
      <4>1. \A d : Cardinality(Ahead(s.exact, Matches(db', s), d)) \in Nat
        BY <1>1, <2>2, MatchesCount
      <4> QED BY <4>1
    <3> QED BY <3>1, <3>2 DEF SearchHolds
  <2>4. CASE SearchNext(c)
    <3>1. /\ r \in Searches /\ r.pc = "more" /\ db' = db
          /\ s.exact = r.exact /\ s.in = r.in /\ s.where = r.where /\ s.news = r.news
          /\ s.offset = r.offset + PageLimit
      BY <2>4, SearchGoes
    <3>2. PICK fts \in Pages(r.exact, Matches(db, r), PageLimit, r.offset) :
            /\ r.found \cup fts \subseteq s.found
            /\ s.pc = "more" \/ (s.pc = "done" /\ fts = {})
      BY <2>4, SearchGoes
    <3> PICK rank, rows, offset : rank = r.exact /\ rows = Matches(db, r) /\ offset = r.offset
      OBVIOUS
    <3>3. Matches(db', s) = rows
      BY <3>1 DEF Matches, Eligible
    <3>4. /\ IsFiniteSet(rows) /\ \A e \in rows : rank[e] \in Nat
          /\ offset \in Nat /\ PageLimit \in Nat \ {0}
      BY <1>1, <3>1, MatchesCount, PageAssumption DEF Searches
    <3>5. ASSUME NEW d \in rows, \A e \in rows \ {d} : rank[e] # rank[d], d \notin s.found
          PROVE  s.pc = "more" /\ s.offset <= Cardinality(Ahead(rank, rows, d))
      <4>1. d \notin r.found /\ d \notin fts
        BY <3>2, <3>5
      <4>2. offset <= Cardinality(Ahead(rank, rows, d))
        BY <1>4, <2>1, <3>1, <3>5, <4>1 DEF SearchHolds, Searches
      <4>3. fts # {} /\ (d \in fts \/ offset + PageLimit <= Cardinality(Ahead(rank, rows, d)))
        BY <3>2, <3>4, <3>5, <4>2, PagePassesNoneOver
      <4> QED BY <3>1, <3>2, <4>1, <4>3
    <3> QED BY <3>1, <3>3, <3>5 DEF SearchHolds
  <2> QED BY <1>1, <1>4, <2>3, <2>4, KindOfActs
<1>5. \A c \in Clients : ~(requests'[c].kind = "search" /\ requests'[c].news = {}) => SearchHolds(db', requests'[c])
  BY DEF SearchHolds
<1> QED BY <1>2, <1>3, <1>4, <1>5 DEF SearchInv

\* SearchInv holds throughout.
THEOREM SearchInvariant == Spec => []SearchInv
<1>1. Init => SearchInv
  BY DEF Init, Idle, SearchInv, SearchHolds
<1>2. TypesInv /\ TypesInv' /\ SearchInv /\ [Next]_dvars => SearchInv'
  BY NextSearches
<1> QED BY <1>1, <1>2, TypesInvariant, PTL DEF Spec

\* And so paging through a search to its end finds every document that matches exactly and
\* shares its rank with no other, unless something was written meanwhile.  With TreesAndTotals:
\* what reads of several statements may be relied on for.
THEOREM ReadsCanBeReliedOn == Spec => []ReadsAreWhole
<1>1. SearchInv => PagingFindsExactMatches
  <2> SUFFICES ASSUME SearchInv, NEW c \in Clients, requests[c].kind = "search", requests[c].pc = "done",
                      requests[c].news = {}, NEW d \in Matches(db, requests[c]),
                      \A e \in Matches(db, requests[c]) \ {d} : requests[c].exact[e] # requests[c].exact[d]
               PROVE  d \in requests[c].found
    BY DEF PagingFindsExactMatches, Matches, Eligible
  <2> QED BY DEF SearchInv, SearchHolds
<1>2. TreesShowTheUntouched /\ TotalsMatchLists /\ PagingFindsExactMatches => ReadsAreWhole
  BY DEF ReadsAreWhole
<1> QED BY <1>1, <1>2, TreesAndTotals, SearchInvariant, PTL
-----------------------------------------------------------------------------
(* Imports deliver *)

\* The two parts of a list.
LEMMA PartsOfList ==
  ASSUME NEW list \in Seq(Alerts), NEW n \in Nat, n = Len(list), NEW i \in 0 .. n
  PROVE  /\ SubSeq(list, 1, i) \in Seq(Alerts) /\ Len(SubSeq(list, 1, i)) = i
         /\ \A k \in 1 .. i : SubSeq(list, 1, i)[k] = list[k]
         /\ SubSeq(list, i + 1, n) \in Seq(Alerts) /\ Len(SubSeq(list, i + 1, n)) = n - i
         /\ \A k \in 1 .. (n - i) : SubSeq(list, i + 1, n)[k] = list[i + k]
<1>1. \A k \in 1 .. n : list[k] \in Alerts
  OBVIOUS
<1>2. 1 \in Int /\ i \in Int /\ \A k \in 1 .. i : list[k] \in Alerts
  BY <1>1
<1>3. /\ SubSeq(list, 1, i) \in Seq(Alerts) /\ Len(SubSeq(list, 1, i)) = IF 1 <= i THEN i - 1 + 1 ELSE 0
      /\ \A k \in 1 .. (i - 1 + 1) : SubSeq(list, 1, i)[k] = list[1 + k - 1]
  BY <1>2, SubSeqProperties
<1>4. \A k \in 1 .. i : k \in 1 .. (i - 1 + 1) /\ 1 + k - 1 = k
  OBVIOUS
<1>5. PICK m \in Int : m = i + 1
  OBVIOUS
<1>6. n \in Int /\ \A k \in m .. n : list[k] \in Alerts
  BY <1>1, <1>5
<1>7. /\ SubSeq(list, m, n) \in Seq(Alerts) /\ Len(SubSeq(list, m, n)) = IF m <= n THEN n - m + 1 ELSE 0
      /\ \A k \in 1 .. (n - m + 1) : SubSeq(list, m, n)[k] = list[m + k - 1]
  BY <1>6, SubSeqProperties
<1>8. /\ \A k \in 1 .. (n - i) : k \in 1 .. (n - m + 1) /\ m + k - 1 = i + k
      /\ n - i = IF m <= n THEN n - m + 1 ELSE 0
  BY <1>5
<1>9. Len(SubSeq(list, 1, i)) = i /\ \A k \in 1 .. i : SubSeq(list, 1, i)[k] = list[k]
  BY <1>3, <1>4
<1>10. Len(SubSeq(list, m, n)) = n - i /\ \A k \in 1 .. (n - i) : SubSeq(list, m, n)[k] = list[i + k]
  BY <1>7, <1>8
<1> QED BY <1>3, <1>5, <1>7, <1>9, <1>10

\* To add what is not there yet, or to remove one, leaves a list without repetitions.
LEMMA DistinctWithOneMore ==
  ASSUME NEW n \in Nat, NEW i \in 0 .. n, NEW f, NEW g, NEW a,
         DOMAIN f = 1 .. n, IsInjective(f), \A k \in 1 .. n : f[k] # a, DOMAIN g = 1 .. (n + 1),
         \A k \in 1 .. i : g[k] = f[k], g[i + 1] = a, \A k \in (i + 2) .. (n + 1) : g[k] = f[k - 1]
  PROVE  IsInjective(g)
<1> DEFINE old == [k \in 1 .. (n + 1) |-> IF k <= i THEN k ELSE IF k = i + 1 THEN 0 ELSE k - 1]
<1>1. \A k \in 1 .. (n + 1) : g[k] = IF old[k] = 0 THEN a ELSE f[old[k]]
  OBVIOUS
<1>2. \A j, k \in 1 .. (n + 1) : old[j] = old[k] => j = k
  OBVIOUS
<1>3. \A j, k \in 1 .. n : f[j] = f[k] => j = k
  BY DEF IsInjective
<1>4. ASSUME NEW j \in 1 .. (n + 1), NEW k \in 1 .. (n + 1), g[j] = g[k] PROVE j = k
  <2>1. old[j] \in 0 .. n /\ old[k] \in 0 .. n
    OBVIOUS
  <2>2. old[j] = old[k]
    BY <1>1, <1>3, <1>4, <2>1
  <2> QED BY <1>2, <2>2
<1> QED BY <1>4 DEF IsInjective

LEMMA DistinctWithOneLess ==
  ASSUME NEW n \in Nat, NEW i \in 1 .. n, NEW f, NEW g, DOMAIN f = 1 .. n, IsInjective(f), DOMAIN g = 1 .. (n - 1),
         \A k \in 1 .. (n - 1) : g[k] = IF k < i THEN f[k] ELSE f[k + 1]
  PROVE  IsInjective(g)
<1>1. \A j, k \in 1 .. n : f[j] = f[k] => j = k
  BY DEF IsInjective
<1>2. ASSUME NEW j \in 1 .. (n - 1), NEW k \in 1 .. (n - 1), g[j] = g[k] PROVE j = k
  <2>1. PICK x \in 1 .. n, y \in 1 .. n :
          x = (IF j < i THEN j ELSE j + 1) /\ y = (IF k < i THEN k ELSE k + 1)
    OBVIOUS
  <2>2. g[j] = f[x] /\ g[k] = f[y]
    BY <2>1
  <2>3. x = y
    BY <1>1, <1>2, <2>2
  <2> QED BY <2>1, <2>3
<1> QED BY <1>2 DEF IsInjective

\* So NightOwl's list has no runbook twice.
LEMMA RunbooksStayDistinct ==
  ASSUME runbooks \in Seq(Alerts), IsInjective(runbooks), [Next]_dvars
  PROVE  IsInjective(runbooks')
<1>1. CASE runbooks' = runbooks
  BY <1>1
<1>2. PICK n \in Nat : n = Len(runbooks)
  OBVIOUS
<1>3. DOMAIN runbooks = 1 .. n
  BY <1>2
<1>4. ASSUME NEW a \in Alerts \ Range(runbooks), NEW i \in 0 .. n,
             runbooks' = SubSeq(runbooks, 1, i) \o <<a>> \o SubSeq(runbooks, i + 1, n)
      PROVE  IsInjective(runbooks')
  <2>1. PICK s, t : s = SubSeq(runbooks, 1, i) /\ t = SubSeq(runbooks, i + 1, n)
    OBVIOUS
  <2>2. /\ s \in Seq(Alerts) /\ Len(s) = i /\ \A k \in 1 .. i : s[k] = runbooks[k]
        /\ t \in Seq(Alerts) /\ Len(t) = n - i /\ \A k \in 1 .. (n - i) : t[k] = runbooks[i + k]
    BY <1>2, <2>1, PartsOfList
  <2>3. PICK one \in Seq(Alerts) : one = <<a>>
    <3>1. a \in Alerts
      OBVIOUS
    <3>2. <<a>> \in Seq(Alerts)
      BY <3>1
    <3> QED BY <3>2
  <2>4. Len(one) = 1 /\ one[1] = a
    BY <2>3
  <2>5. PICK u \in Seq(Alerts) : u = s \o one
    BY <2>2, ConcatProperties
  <2>6. Len(u) = i + 1 /\ \A k \in 1 .. (i + 1) : u[k] = IF k <= i THEN s[k] ELSE a
    <3>1. Len(u) = Len(s) + Len(one)
          /\ \A k \in 1 .. Len(s) + Len(one) : u[k] = IF k <= Len(s) THEN s[k] ELSE one[k - Len(s)]
      BY <2>2, <2>5, ConcatProperties
    <3>2. \A k \in 1 .. (i + 1) : ~(k <= i) => k - i = 1
      OBVIOUS
    <3> QED BY <2>2, <2>4, <3>1, <3>2
  <2>7. PICK g \in Seq(Alerts) : g = u \o t /\ runbooks' = g
    BY <1>4, <2>1, <2>2, <2>3, <2>5, ConcatProperties
  <2>8. Len(g) = n + 1 /\ \A k \in 1 .. (n + 1) : g[k] = IF k <= i + 1 THEN u[k] ELSE t[k - (i + 1)]
    <3>1. Len(g) = Len(u) + Len(t)
          /\ \A k \in 1 .. Len(u) + Len(t) : g[k] = IF k <= Len(u) THEN u[k] ELSE t[k - Len(u)]
      BY <2>2, <2>7, ConcatProperties
    <3> QED BY <2>2, <2>6, <3>1
  <2>9. /\ \A k \in 1 .. i : g[k] = runbooks[k]
        /\ g[i + 1] = a
        /\ \A k \in (i + 2) .. (n + 1) : g[k] = runbooks[k - 1]
    <3>1. \A k \in 1 .. i : g[k] = runbooks[k]
      BY <2>2, <2>6, <2>8
    <3>2. g[i + 1] = a
      BY <2>2, <2>6, <2>8
    <3>3. ASSUME NEW k \in (i + 2) .. (n + 1) PROVE g[k] = runbooks[k - 1]
      <4>1. k - (i + 1) \in 1 .. (n - i) /\ i + (k - (i + 1)) = k - 1
        OBVIOUS
      <4>2. g[k] = t[k - (i + 1)] /\ t[k - (i + 1)] = runbooks[i + (k - (i + 1))]
        BY <2>2, <2>8, <4>1
      <4> QED BY <4>1, <4>2
    <3> QED BY <3>1, <3>2, <3>3
  <2>10. \A k \in 1 .. n : runbooks[k] # a
    BY <1>3 DEF Range
  <2>11. DOMAIN g = 1 .. (n + 1)
    BY <2>8
  <2>12. ASSUME NEW f, DOMAIN f = 1 .. n, IsInjective(f), \A k \in 1 .. n : f[k] # a, DOMAIN g = 1 .. (n + 1),
                \A k \in 1 .. i : g[k] = f[k], g[i + 1] = a, \A k \in (i + 2) .. (n + 1) : g[k] = f[k - 1]
         PROVE  IsInjective(g)
    BY <2>12, DistinctWithOneMore
  <2>13. IsInjective(g)
    BY <1>3, <2>9, <2>10, <2>11, <2>12
  <2> QED BY <2>7, <2>13
<1>5. ASSUME NEW i \in 1 .. n, runbooks' = SubSeq(runbooks, 1, i - 1) \o SubSeq(runbooks, i + 1, n)
      PROVE  IsInjective(runbooks')
  <2>1. PICK s, t : s = SubSeq(runbooks, 1, i - 1) /\ t = SubSeq(runbooks, i + 1, n)
    OBVIOUS
  <2>2. /\ s \in Seq(Alerts) /\ Len(s) = i - 1 /\ \A k \in 1 .. (i - 1) : s[k] = runbooks[k]
        /\ t \in Seq(Alerts) /\ Len(t) = n - i /\ \A k \in 1 .. (n - i) : t[k] = runbooks[i + k]
    <3>1. PICK h \in 0 .. n : h = i - 1
      OBVIOUS
    <3>2. s = SubSeq(runbooks, 1, h) /\ i \in 0 .. n
      BY <2>1, <3>1
    <3>3. s \in Seq(Alerts) /\ Len(s) = h /\ \A k \in 1 .. h : s[k] = runbooks[k]
      BY <1>2, <3>2, PartsOfList
    <3>4. t \in Seq(Alerts) /\ Len(t) = n - i /\ \A k \in 1 .. (n - i) : t[k] = runbooks[i + k]
      BY <1>2, <2>1, <3>2, PartsOfList
    <3> QED BY <3>1, <3>3, <3>4
  <2>3. PICK g \in Seq(Alerts) : g = s \o t /\ runbooks' = g
    BY <1>5, <2>1, <2>2, ConcatProperties
  <2>4. Len(g) = n - 1 /\ \A k \in 1 .. (n - 1) : g[k] = IF k <= i - 1 THEN s[k] ELSE t[k - (i - 1)]
    <3>1. Len(g) = Len(s) + Len(t)
          /\ \A k \in 1 .. Len(s) + Len(t) : g[k] = IF k <= Len(s) THEN s[k] ELSE t[k - Len(s)]
      BY <2>2, <2>3, ConcatProperties
    <3> QED BY <2>2, <3>1
  <2>5. ASSUME NEW k \in 1 .. (n - 1)
        PROVE  g[k] = IF k < i THEN runbooks[k] ELSE runbooks[k + 1]
    <3>1. CASE k < i
      BY <2>2, <2>4, <3>1
    <3>2. CASE k >= i
      <4>1. k - (i - 1) \in 1 .. (n - i) /\ i + (k - (i - 1)) = k + 1
        BY <3>2
      <4>2. g[k] = t[k - (i - 1)] /\ t[k - (i - 1)] = runbooks[i + (k - (i - 1))]
        BY <2>2, <2>4, <3>2, <4>1
      <4> QED BY <3>2, <4>1, <4>2
    <3> QED BY <3>1, <3>2
  <2>6. DOMAIN g = 1 .. (n - 1)
    BY <2>4
  <2> QED BY <1>3, <2>3, <2>5, <2>6, DistinctWithOneLess
<1>6. CASE NightOwlChanges
  BY <1>2, <1>3, <1>4, <1>5, <1>6 DEF NightOwlChanges
<1> QED BY <1>1, <1>6 DEF Next, dvars

\* The documents that an import has made, and nobody has written to since, are published
\* runbooks.
Delivered(t, r) ==
  r.kind = "import" =>
    /\ \A d \in r.imported \ r.news :
         d \in DOMAIN t.documents /\ t.documents[d].type = "runbook" /\ t.documents[d].status = "published"
    /\ r.pc \in {"space", "collection"} =>
         r.imported = {} /\ r.skipped = {} /\ r.failed = {} /\ r.offset = 0 /\ r.collection = None

DeliveredInv == \A c \in Clients : Delivered(db, requests[c])

LEMMA NextDelivers ==
  ASSUME TypesInv, TypesInv', DeliveredInv, [Next]_dvars
  PROVE  DeliveredInv'
<1>1. Typed(db) /\ Typed(db') /\ Stands /\ DOMAIN requests = Clients /\ Shaped(db)
  BY NextStands, TypedShaped DEF TypesInv, RequestsProper
<1>2. \/ \A q \in Clients : Left(q)
      \/ \E c \in Clients : Acts(c) /\ \A q \in Clients \ {c} : Left(q)
  BY <1>1, WhoActs
<1>3. ASSUME NEW c \in Clients, Left(c), requests'[c].kind = "import"
      PROVE  Delivered(db', requests'[c])
  <2> PICK r : r = requests[c]
    OBVIOUS
  <2> PICK s : s = requests'[c]
    OBVIOUS
  <2>1. r.kind = "import"
    BY <1>1, <1>3, LeftKinds
  <2>2. /\ s.pc = r.pc /\ s.imported = r.imported /\ s.skipped = r.skipped /\ s.failed = r.failed
        /\ s.offset = r.offset /\ s.collection = r.collection /\ s.news = r.news \cup Written(db')
    BY <1>1, <1>3, <2>1, LeftKinds
  <2>3. Delivered(db, r)
    BY DEF DeliveredInv
  <2> QED BY <2>1, <2>2, <2>3, Unwritten DEF Delivered
<1>4. ASSUME NEW c \in Clients, Acts(c), requests'[c].kind = "import"
      PROVE  Delivered(db', requests'[c])
  <2> PICK r : r = requests[c]
    OBVIOUS
  <2> PICK s : s = requests'[c]
    OBVIOUS
  <2>1. Delivered(db, r) /\ s # Idle
    BY <1>4 DEF DeliveredInv, Idle
  <2>2. CASE ImportBegin(c)
    BY <2>2, ImportGoes DEF Delivered
  <2>3. CASE ImportSpace(c)
    <3>1. r.kind = "import" /\ r.pc = "space"
      BY <2>3 DEF ImportSpace
    <3>2. /\ s.imported = r.imported /\ s.skipped = r.skipped /\ s.failed = r.failed
          /\ s.offset = r.offset /\ s.collection = r.collection
      BY <2>1, <2>3, ImportGoes
    <3> QED BY <2>1, <3>1, <3>2 DEF Delivered
  <2>4. CASE ImportCollection(c)
    <3>1. r.kind = "import" /\ r.pc = "collection"
      BY <2>4 DEF ImportCollection
    <3>2. s.imported = r.imported /\ s.pc = "fetch"
      BY <2>1, <2>4, ImportGoes
    <3> QED BY <2>1, <3>1, <3>2 DEF Delivered
  <2>5. CASE ImportFetch(c) \/ ImportLook(c) \/ ImportPage(c)
    <3>1. r.kind = "import"
      BY <2>5 DEF ImportFetch, ImportLook, ImportPage
    <3>2. s.imported = r.imported /\ s.news = r.news /\ db' = db /\ s.pc \notin {"space", "collection"}
      BY <2>5, ImportGoes
    <3> QED BY <2>1, <3>1, <3>2 DEF Delivered
  <2>6. CASE ImportCreate(c)
    <3>1. r.kind = "import"
      BY <2>6 DEF ImportCreate
    <3>2. PICK row : row = [space |-> r.space, collection |-> r.collection,
                            slug |-> Slug(Title[Head(r.page)]), type |-> "runbook",
                            status |-> "published", alert |-> Head(r.page)]
      OBVIOUS
    <3>3. /\ s.news = r.news /\ s.pc = "look"
          /\ \/ /\ db' = Insert(db, "documents", row)
                /\ s.imported = r.imported \cup {db.next.documents}
             \/ db' = db /\ s.imported = r.imported
      BY <2>6, <3>2, ImportGoes DEF CreateDocument
    <3>4. row.type = "runbook" /\ row.status = "published"
      BY <3>2
    <3>5. CASE db' = db /\ s.imported = r.imported
      BY <2>1, <3>1, <3>3, <3>5 DEF Delivered
    <3>6. CASE db' = Insert(db, "documents", row) /\ s.imported = r.imported \cup {db.next.documents}
      <4>1. "documents" \in Numbered
        BY DEF Numbered
      <4>2. /\ DOMAIN db'.documents = DOMAIN db.documents \cup {db.next.documents}
            /\ db'.documents[db.next.documents] = row
            /\ \A d \in DOMAIN db.documents : db'.documents[d] = db.documents[d]
        BY <1>1, <3>6, <4>1, InsertGrows
      <4> QED BY <2>1, <3>1, <3>3, <3>4, <3>6, <4>2 DEF Delivered
    <3> QED BY <3>3, <3>5, <3>6
  <2> QED BY <1>1, <1>4, <2>2, <2>3, <2>4, <2>5, <2>6, KindOfActs
<1>5. \A c \in Clients : requests'[c].kind # "import" => Delivered(db', requests'[c])
  BY DEF Delivered
<1> QED BY <1>2, <1>3, <1>4, <1>5 DEF DeliveredInv

\* DeliveredInv holds throughout.
THEOREM DeliveredInvariant == Spec => []DeliveredInv
<1>1. Init => DeliveredInv
  BY DEF Init, Idle, DeliveredInv, Delivered
<1>2. TypesInv /\ TypesInv' /\ DeliveredInv /\ [Next]_dvars => DeliveredInv'
  BY NextDelivers
<1> QED BY <1>1, <1>2, TypesInvariant, PTL DEF Spec

\* A page as long as the rows are many has them all.
LEMMA PageOfAll ==
  ASSUME NEW rows, IsFiniteSet(rows), NEW n, n = Cardinality(rows), NEW rank, NEW page \in Pages(rank, rows, n, 0)
  PROVE  page = rows
<1>1. n \in Nat
  BY FS_CardinalityType
<1>2. page \in SUBSET rows /\ Cardinality(page) = PageSize(n, n, 0)
  BY DEF Pages
<1>3. PageSize(n, n, 0) = n
  BY <1>1 DEF PageSize
<1> QED BY <1>2, <1>3, FS_Subset

\* And NightOwl is given them in each way it asks.
LEMMA DeliveredAreListed ==
  ASSUME TypesInv, DeliveredInv
  PROVE  ImportedAreListed
<1> SUFFICES ASSUME NEW c \in Clients, requests[c].kind = "import", NEW d \in requests[c].imported \ requests[c].news
             PROVE  /\ \A page \in ListRunbooksWithSpace(db, CountRunbooks(db), 0) : d \in page
                    /\ GetRunbookWithSpace(db, d) = {d}
                    /\ \A page \in SearchRunbooks(db, [e \in {d} |-> 1], 1, 0) : d \in page
  BY DEF ImportedAreListed
<1>1. /\ d \in DOMAIN db.documents /\ db.documents[d].type = "runbook" /\ db.documents[d].status = "published"
      /\ \A e \in DOMAIN db.documents : db.documents[e].space \in DOMAIN db.spaces
  BY DEF DeliveredInv, Delivered, TypesInv, Consistent, ReferencesResolve
<1>2. PICK rows : rows = PublishedRunbooks(db)
  OBVIOUS
<1>3. WithSpace(db, rows) = rows /\ d \in rows /\ rows \subseteq DOMAIN db.documents
  BY <1>1, <1>2 DEF WithSpace, PublishedRunbooks
<1>4. IsFiniteSet(rows)
  <2>1. "documents" \in Numbered /\ Typed(db)
    BY DEF Numbered, TypesInv
  <2>2. PICK n \in Nat : DOMAIN db.documents \subseteq 0 .. (n - 1)
    BY <2>1 DEF Typed, Id
  <2>3. n - 1 \in Int /\ 0 \in Int
    OBVIOUS
  <2>4. IsFiniteSet(0 .. (n - 1))
    BY <2>3, FS_Interval
  <2> QED BY <1>3, <2>2, <2>4, FS_Subset
<1>5. ASSUME NEW page \in ListRunbooksWithSpace(db, CountRunbooks(db), 0) PROVE d \in page
  <2>1. page \in Pages(Unranked(rows), rows, Cardinality(rows), 0)
    BY <1>2, <1>3, <1>5 DEF ListRunbooksWithSpace, CountRunbooks
  <2>2. page = rows
    BY <1>4, <2>1, PageOfAll
  <2> QED BY <1>3, <2>2
<1>6. GetRunbookWithSpace(db, d) = {d}
  BY <1>1 DEF GetRunbookWithSpace, WithSpace
<1>7. ASSUME NEW page \in SearchRunbooks(db, [e \in {d} |-> 1], 1, 0) PROVE d \in page
  <2>1. PICK rank : rank = [e \in {d} |-> 1]
    OBVIOUS
  <2>2. (DOMAIN rank) \cap rows = {d}
    BY <1>3, <2>1
  <2>3. page \in Pages(rank, {d}, 1, 0)
    BY <1>2, <1>3, <1>7, <2>1, <2>2 DEF SearchRunbooks
  <2>4. IsFiniteSet({d}) /\ Cardinality({d}) = 1
    BY FS_Singleton
  <2>5. page = {d}
    BY <2>3, <2>4, PageOfAll
  <2> QED BY <2>5
<1> QED BY <1>5, <1>6, <1>7

\* An import has counted the first i of NightOwl's runbooks, each once: those it did not count as
\* failed have their documents, and those it did, a document in the way.
Counted(t, list, r, i) ==
  /\ IsFiniteSet(r.imported) /\ IsFiniteSet(r.skipped) /\ IsFiniteSet(r.failed)
  /\ Cardinality(r.imported) + Cardinality(r.skipped) + Cardinality(r.failed) = i
  /\ r.skipped \cup r.failed \subseteq {list[j] : j \in 1 .. i}
  /\ \A j \in 1 .. i : IF list[j] \in r.failed THEN SlugExistsInSpace(t, r.space, Slug(Title[list[j]]))
                       ELSE GetDocumentByNightOwlAlertID(t, list[j]) # {}

\* And it goes on behind them.
Behind(r, i) ==
  /\ r.pc \in {"space", "collection", "fetch"} => i = r.offset
  /\ r.pc \in {"look", "create"} =>
       /\ r.total = Len(runbooks) /\ i + Len(r.page) = LastOfPage(r.offset)
       /\ \A j \in 1 .. Len(r.page) : r.page[j] = runbooks[i + j]
  /\ r.pc = "done" => i = Len(runbooks)

Accounts(t, r) ==
  r.kind = "import" /\ ~r.changed /\ r.news = {} =>
    /\ r.pc # "space" => r.space \in DOMAIN t.spaces
    /\ r.collection \in DOMAIN t.collections \cup {None}
    /\ \E i \in 0 .. Len(runbooks) : Counted(t, runbooks, r, i) /\ Behind(r, i)

AccountsInv == IsInjective(runbooks) /\ \A c \in Clients : Accounts(db, requests[c])

\* What nobody writes to stays counted.
LEMMA AccountsLeft ==
  ASSUME TypesInv, TypesInv', AccountsInv, NEW c \in Clients, Left(c), requests'[c].kind = "import",
         ~requests'[c].changed, requests'[c].news = {}
  PROVE  Accounts(db, requests[c])'
<1> PICK r : r = requests[c]
  OBVIOUS
<1> PICK s : s = requests'[c]
  OBVIOUS
<1>1. Typed(db) /\ Typed(db')
  BY DEF TypesInv
<1>2. r.kind = "import"
  BY <1>1, LeftKinds
<1>3. /\ s.pc = r.pc /\ s.space = r.space /\ s.collection = r.collection /\ s.offset = r.offset
      /\ s.total = r.total /\ s.page = r.page /\ s.imported = r.imported /\ s.skipped = r.skipped
      /\ s.failed = r.failed /\ s.news = r.news \cup Written(db')
      /\ s.changed \/ (s.changed = r.changed /\ runbooks' = runbooks)
  BY <1>1, <1>2, LeftKinds
<1>4. runbooks' = runbooks /\ ~r.changed /\ r.news = {} /\ Written(db') = {}
  BY <1>3
<1>5. /\ db'.spaces = db.spaces /\ db'.collections = db.collections
      /\ DOMAIN db'.documents = DOMAIN db.documents
      /\ \A d \in DOMAIN db.documents : db'.documents[d] = db.documents[d]
  BY <1>1, <1>4, NothingWritten
<1>6. /\ \A place, slug : SlugExistsInSpace(db', place, slug) <=> SlugExistsInSpace(db, place, slug)
      /\ \A a : GetDocumentByNightOwlAlertID(db', a) = GetDocumentByNightOwlAlertID(db, a)
  <2>1. \A place, slug : GetDocumentBySlug(db', place, slug) = GetDocumentBySlug(db, place, slug)
    BY <1>5 DEF GetDocumentBySlug
  <2> QED BY <1>5, <2>1 DEF SlugExistsInSpace, GetDocumentByNightOwlAlertID
<1>7. /\ r.pc # "space" => r.space \in DOMAIN db.spaces
      /\ r.collection \in DOMAIN db.collections \cup {None}
      /\ \E i \in 0 .. Len(runbooks) : Counted(db, runbooks, r, i) /\ Behind(r, i)
  BY <1>2, <1>4 DEF AccountsInv, Accounts
<1>8. ASSUME NEW i, Counted(db, runbooks, r, i) PROVE Counted(db', runbooks, s, i)
  BY <1>3, <1>6, <1>8 DEF Counted
<1>9. ASSUME NEW i, Behind(r, i) PROVE Behind(s, i)'
  BY <1>3, <1>4, <1>9 DEF Behind, LastOfPage
<1>10. /\ s.pc # "space" => s.space \in DOMAIN db'.spaces
       /\ s.collection \in DOMAIN db'.collections \cup {None}
       /\ \E i \in 0 .. Len(runbooks') : Counted(db', runbooks', s, i) /\ Behind(s, i)'
  BY <1>3, <1>4, <1>5, <1>7, <1>8, <1>9
<1> QED BY <1>10 DEF Accounts

\* Nothing is counted yet.
LEMMA CountsNone ==
  ASSUME NEW t, NEW list, NEW r, r.imported = {}, r.skipped = {}, r.failed = {}
  PROVE  Counted(t, list, r, 0)
<1>1. IsFiniteSet({}) /\ Cardinality({}) = 0
  BY FS_EmptySet
<1> QED BY <1>1 DEF Counted

\* The next runbook is counted: as one that is there, as one in whose way a document is, or as
\* one that now has its document.
LEMMA CountsOneMore ==
  ASSUME NEW t, NEW u, NEW list \in Seq(Alerts), IsInjective(list), NEW r, NEW s, NEW i \in Nat, i < Len(list),
         NEW a, a = list[i + 1], Counted(t, list, r, i), s.space = r.space,
         \A slug : SlugExistsInSpace(t, r.space, slug) => SlugExistsInSpace(u, r.space, slug),
         \A b : GetDocumentByNightOwlAlertID(t, b) # {} => GetDocumentByNightOwlAlertID(u, b) # {},
         \/ /\ s.imported = r.imported /\ s.skipped = r.skipped \cup {a} /\ s.failed = r.failed
            /\ GetDocumentByNightOwlAlertID(u, a) # {}
         \/ /\ s.imported = r.imported /\ s.skipped = r.skipped /\ s.failed = r.failed \cup {a}
            /\ SlugExistsInSpace(u, r.space, Slug(Title[a]))
         \/ /\ \E d : d \notin r.imported /\ s.imported = r.imported \cup {d}
            /\ s.skipped = r.skipped /\ s.failed = r.failed
            /\ GetDocumentByNightOwlAlertID(u, a) # {}
  PROVE  Counted(u, list, s, i + 1)
<1>1. \A j \in 1 .. i : list[j] # a
  <2>1. \A j \in 1 .. i : j \in DOMAIN list /\ i + 1 \in DOMAIN list /\ j # i + 1
    OBVIOUS
  <2> QED BY <2>1 DEF IsInjective
<1>2. /\ IsFiniteSet(r.imported) /\ IsFiniteSet(r.skipped) /\ IsFiniteSet(r.failed)
      /\ Cardinality(r.imported) + Cardinality(r.skipped) + Cardinality(r.failed) = i
      /\ r.skipped \cup r.failed \subseteq {list[j] : j \in 1 .. i}
  BY DEF Counted
<1>3. Cardinality(r.imported) \in Nat /\ Cardinality(r.skipped) \in Nat /\ Cardinality(r.failed) \in Nat
  BY <1>2, FS_CardinalityType
<1>4. a \notin r.skipped /\ a \notin r.failed
  BY <1>1, <1>2
<1>5. /\ IsFiniteSet(s.imported) /\ IsFiniteSet(s.skipped) /\ IsFiniteSet(s.failed)
      /\ Cardinality(s.imported) + Cardinality(s.skipped) + Cardinality(s.failed) = i + 1
  <2>1. \A S, x : IsFiniteSet(S) /\ x \notin S =>
          IsFiniteSet(S \cup {x}) /\ Cardinality(S \cup {x}) = Cardinality(S) + 1
    BY FS_AddElement
  <2>2. CASE s.imported = r.imported /\ s.skipped = r.skipped \cup {a} /\ s.failed = r.failed
    <3>1. IsFiniteSet(s.skipped) /\ Cardinality(s.skipped) = Cardinality(r.skipped) + 1
      <4>1. s.skipped = r.skipped \cup {a} /\ IsFiniteSet(r.skipped) /\ a \notin r.skipped
        BY <1>2, <1>4, <2>2
      <4>2. IsFiniteSet(r.skipped \cup {a}) /\ Cardinality(r.skipped \cup {a}) = Cardinality(r.skipped) + 1
        BY <2>1, <4>1
      <4> QED BY <4>1, <4>2
    <3>2. s.imported = r.imported /\ s.failed = r.failed
      BY <2>2
    <3> QED BY <1>2, <1>3, <3>1, <3>2
  <2>3. CASE s.imported = r.imported /\ s.skipped = r.skipped /\ s.failed = r.failed \cup {a}
    <3>1. IsFiniteSet(s.failed) /\ Cardinality(s.failed) = Cardinality(r.failed) + 1
      <4>1. s.failed = r.failed \cup {a} /\ IsFiniteSet(r.failed) /\ a \notin r.failed
        BY <1>2, <1>4, <2>3
      <4>2. IsFiniteSet(r.failed \cup {a}) /\ Cardinality(r.failed \cup {a}) = Cardinality(r.failed) + 1
        BY <2>1, <4>1
      <4> QED BY <4>1, <4>2
    <3>2. s.imported = r.imported /\ s.skipped = r.skipped
      BY <2>3
    <3> QED BY <1>2, <1>3, <3>1, <3>2
  <2>4. CASE /\ \E d : d \notin r.imported /\ s.imported = r.imported \cup {d}
             /\ s.skipped = r.skipped /\ s.failed = r.failed
    <3>1. IsFiniteSet(s.imported) /\ Cardinality(s.imported) = Cardinality(r.imported) + 1
      BY <1>2, <1>4, <2>1, <2>4
    <3>2. s.skipped = r.skipped /\ s.failed = r.failed
      BY <2>4
    <3> QED BY <1>2, <1>3, <3>1, <3>2
  <2> QED BY <2>2, <2>3, <2>4
<1>6. s.skipped \cup s.failed \subseteq {list[j] : j \in 1 .. (i + 1)}
  <2>1. \A x \in r.skipped \cup r.failed : \E j \in 1 .. i : x = list[j]
    BY <1>2
  <2>2. \A j \in 1 .. i : j \in 1 .. (i + 1)
    OBVIOUS
  <2>3. i + 1 \in 1 .. (i + 1) /\ s.skipped \cup s.failed \subseteq r.skipped \cup r.failed \cup {a}
    OBVIOUS
  <2> QED BY <2>1, <2>2, <2>3
<1>7. ASSUME NEW j \in 1 .. (i + 1)
      PROVE  IF list[j] \in s.failed THEN SlugExistsInSpace(u, s.space, Slug(Title[list[j]]))
             ELSE GetDocumentByNightOwlAlertID(u, list[j]) # {}
  <2>1. CASE j = i + 1
    <3>1. a \in s.failed => s.failed = r.failed \cup {a} /\ SlugExistsInSpace(u, r.space, Slug(Title[a]))
      BY <1>4
    <3>2. a \notin s.failed => GetDocumentByNightOwlAlertID(u, a) # {}
      OBVIOUS
    <3> QED BY <2>1, <3>1, <3>2
  <2>2. CASE j \in 1 .. i
    <3>1. list[j] \in s.failed <=> list[j] \in r.failed
      BY <1>1, <2>2
    <3>2. IF list[j] \in r.failed THEN SlugExistsInSpace(t, r.space, Slug(Title[list[j]]))
          ELSE GetDocumentByNightOwlAlertID(t, list[j]) # {}
      BY <2>2 DEF Counted
    <3> QED BY <3>1, <3>2
  <2> QED BY <2>1, <2>2
<1> QED BY <1>5, <1>6, <1>7 DEF Counted

\* What an import does next, when nothing came between, it does to the next runbook.
LEMMA AccountsActed ==
  ASSUME TypesInv, TypesInv', AccountsInv, DeliveredInv, NEW c \in Clients, Acts(c),
         requests'[c].kind = "import", ~requests'[c].changed, requests'[c].news = {}
  PROVE  Accounts(db, requests[c])'
<1> PICK r : r = requests[c]
  OBVIOUS
<1> PICK s : s = requests'[c]
  OBVIOUS
<1> PICK list \in Seq(Alerts) : list = runbooks
  BY DEF TypesInv
<1> PICK n \in Nat : n = Len(list)
  OBVIOUS
<1>1. Typed(db) /\ Typed(db') /\ Consistent(db) /\ runbooks = list /\ runbooks' = list /\ IsInjective(list)
  BY DEF TypesInv, Acts, AccountsInv
<1>2. s # Idle /\ s.kind = "import" /\ ~s.changed /\ s.news = {}
  BY DEF Idle
<1>3. Proper(r) /\ s \in Imports
  BY <1>2, KindTyped DEF TypesInv, RequestsProper
<1>4. Delivered(db, r) /\ Accounts(db, r)
  BY DEF DeliveredInv, AccountsInv
<1>5. ASSUME s.pc # "space" => s.space \in DOMAIN db'.spaces, s.collection \in DOMAIN db'.collections \cup {None},
             NEW i \in 0 .. n, Counted(db', list, s, i), Behind(s, i)'
      PROVE  Accounts(db, requests[c])'
  <2>1. i \in 0 .. Len(runbooks') /\ Counted(db', runbooks', s, i) /\ Behind(s, i)'
    BY <1>1, <1>5
  <2> QED BY <1>5, <2>1 DEF Accounts
<1>6. 0 \in 0 .. n
  OBVIOUS
<1>7. CASE ImportBegin(c)
  <2>1. /\ s.pc \in {"space", "collection"} /\ s.offset = 0
        /\ s.pc = "space" \/ s.space \in DOMAIN db.spaces
        /\ s.collection = None /\ s.imported = {} /\ s.skipped = {} /\ s.failed = {} /\ db' = db
    BY <1>7, ImportGoes
  <2>2. Counted(db', list, s, 0)
    BY <2>1, CountsNone
  <2>3. Behind(s, 0)'
    BY <2>1 DEF Behind
  <2> QED BY <1>5, <1>6, <2>1, <2>2, <2>3
<1>8. CASE ImportSpace(c)
  <2>1. r.kind = "import" /\ r.pc = "space"
    BY <1>8 DEF ImportSpace
  <2>2. /\ s.pc = "collection" /\ s.space \in DOMAIN db'.spaces
        /\ s.collection = r.collection /\ s.offset = r.offset /\ s.imported = r.imported
        /\ s.skipped = r.skipped /\ s.failed = r.failed
    BY <1>2, <1>8, ImportGoes
  <2>3. s.imported = {} /\ s.skipped = {} /\ s.failed = {} /\ s.offset = 0 /\ s.collection = None
    BY <1>4, <2>1, <2>2 DEF Delivered
  <2>4. Counted(db', list, s, 0)
    BY <2>3, CountsNone
  <2>5. Behind(s, 0)'
    BY <2>2, <2>3 DEF Behind
  <2> QED BY <1>5, <1>6, <2>2, <2>3, <2>4, <2>5
<1>9. CASE ImportCollection(c)
  <2>1. r.kind = "import" /\ r.pc = "collection"
    BY <1>9 DEF ImportCollection
  <2>2. /\ s.pc = "fetch" /\ db'.spaces = db.spaces
        /\ s.collection = r.collection \/ s.collection \in DOMAIN db'.collections
        /\ s.space = r.space /\ s.offset = r.offset /\ s.imported = r.imported
        /\ s.skipped = r.skipped /\ s.failed = r.failed /\ s.changed = r.changed /\ s.news = r.news
    BY <1>2, <1>9, ImportGoes
  <2>3. s.imported = {} /\ s.skipped = {} /\ s.failed = {} /\ s.offset = 0 /\ r.collection = None
    BY <1>4, <2>1, <2>2 DEF Delivered
  <2>4. s.space \in DOMAIN db'.spaces
    BY <1>2, <1>4, <2>1, <2>2 DEF Accounts
  <2>5. Counted(db', list, s, 0)
    BY <2>3, CountsNone
  <2>6. Behind(s, 0)'
    BY <2>2, <2>3 DEF Behind
  <2> QED BY <1>5, <1>6, <2>2, <2>3, <2>4, <2>5, <2>6
<1>10. CASE ImportFetch(c) \/ ImportLook(c) \/ ImportCreate(c) \/ ImportPage(c)
  <2>1. /\ r.kind = "import" /\ r.pc \in {"fetch", "look", "create"}
    BY <1>10 DEF ImportFetch, ImportLook, ImportCreate, ImportPage
  <2>2. /\ s.space = r.space /\ s.collection = r.collection /\ s.changed = r.changed /\ s.news = r.news
    BY <1>10, ImportGoes
  <2>3. PICK i \in 0 .. n : Counted(db, list, r, i) /\ Behind(r, i)
    BY <1>1, <1>2, <1>4, <2>1, <2>2 DEF Accounts
  <2>4. r.space \in DOMAIN db.spaces /\ r.collection \in DOMAIN db.collections \cup {None}
    BY <1>2, <1>4, <2>1, <2>2 DEF Accounts
  <2>5. /\ r \in Imports /\ r.offset \in Nat /\ r.page \in Seq(Alerts) /\ Len(r.page) \in Nat
    <3>1. r \in Imports
      BY <1>3, <2>1, KindTyped
    <3> QED BY <3>1 DEF Imports
  <2>6. BatchLimit \in Nat \ {0} /\ LastOfPage(r.offset) = (IF r.offset + BatchLimit < n THEN r.offset + BatchLimit ELSE n)
    BY <1>1, BatchAssumption DEF LastOfPage
  <2>7. s.offset = r.offset => LastOfPage(s.offset)' = LastOfPage(r.offset)
    BY <1>1 DEF LastOfPage
  <2>8. CASE ImportFetch(c)
    <3>1. /\ r.pc = "fetch" /\ s.pc = "look" /\ s.total = n /\ db' = db
          /\ s.page = SubSeq(list, r.offset + 1, LastOfPage(r.offset))
          /\ s.offset = r.offset /\ s.imported = r.imported /\ s.skipped = r.skipped /\ s.failed = r.failed
      BY <1>1, <2>8, ImportGoes
    <3>2. i = r.offset
      BY <3>1, <2>3 DEF Behind
    <3>3. PICK last \in i .. n : last = LastOfPage(r.offset)
      BY <2>5, <2>6, <3>2
    <3>4. Len(s.page) = last - i /\ \A j \in 1 .. (last - i) : s.page[j] = list[i + j]
      <4>1. PICK m \in Int : m = i + 1
        OBVIOUS
      <4>2. last \in Int /\ \A j \in m .. last : list[j] \in Alerts
        BY <3>3, <4>1
      <4>3. /\ Len(SubSeq(list, m, last)) = IF m <= last THEN last - m + 1 ELSE 0
            /\ \A j \in 1 .. (last - m + 1) : SubSeq(list, m, last)[j] = list[m + j - 1]
        BY <4>2, SubSeqProperties
      <4>4. s.page = SubSeq(list, m, last)
        BY <3>1, <3>2, <3>3, <4>1
      <4>5. /\ last - i = IF m <= last THEN last - m + 1 ELSE 0
            /\ \A j \in 1 .. (last - i) : j \in 1 .. (last - m + 1) /\ m + j - 1 = i + j
        BY <3>3, <4>1
      <4> QED BY <4>3, <4>4, <4>5
    <3>5. Behind(s, i)'
      <4>1. i + Len(s.page) = LastOfPage(s.offset)'
        <5>1. i + Len(s.page) = LastOfPage(r.offset)
          BY <3>3, <3>4
        <5>2. LastOfPage(s.offset)' = LastOfPage(r.offset)
          BY <2>7, <3>1
        <5> QED BY <5>1, <5>2
      <4>2. s.pc = "look" /\ s.total = Len(runbooks') /\ \A j \in 1 .. Len(s.page) : s.page[j] = runbooks'[i + j]
        BY <1>1, <3>1, <3>4
      <4> QED BY <4>1, <4>2 DEF Behind
    <3>6. Counted(db', list, s, i)
      BY <2>2, <2>3, <3>1 DEF Counted
    <3> QED BY <1>5, <2>2, <2>4, <3>1, <3>5, <3>6
  <2>9. CASE ImportPage(c)
    <3>1. /\ r.pc = "look" /\ r.page = << >> /\ s.offset = r.offset + BatchLimit /\ db' = db
          /\ s.pc = IF s.offset >= r.total THEN "done" ELSE "fetch"
          /\ s.total = r.total /\ s.imported = r.imported /\ s.skipped = r.skipped /\ s.failed = r.failed
      BY <2>9, ImportGoes
    <3>2. r.total = n /\ i = LastOfPage(r.offset)
      <4>1. r.total = Len(runbooks) /\ i + Len(r.page) = LastOfPage(r.offset)
        BY <2>3, <3>1 DEF Behind
      <4>2. Len(r.page) = 0
        BY <3>1
      <4> QED BY <1>1, <4>1, <4>2
    <3>3. \/ s.pc = "done" /\ i = n
          \/ s.pc = "fetch" /\ i = s.offset
      BY <2>5, <2>6, <3>1, <3>2
    <3>4. Behind(s, i)'
      BY <1>1, <3>3 DEF Behind
    <3>5. Counted(db', list, s, i)
      BY <2>2, <2>3, <3>1 DEF Counted
    <3> QED BY <1>5, <2>2, <2>4, <3>1, <3>3, <3>4, <3>5
  <2>10. CASE ImportLook(c) \/ ImportCreate(c)
    <3>1. r.page # << >> /\ r.pc \in {"look", "create"} /\ s.offset = r.offset /\ s.total = r.total
      BY <2>10, ImportGoes
    <3>2. /\ r.total = n /\ i + Len(r.page) = LastOfPage(r.offset)
          /\ \A j \in 1 .. Len(r.page) : r.page[j] = list[i + j]
      BY <1>1, <2>3, <3>1 DEF Behind
    <3>3. PICK a : a = Head(r.page)
      OBVIOUS
    <3>4. /\ a \in Alerts /\ Tail(r.page) \in Seq(Alerts) /\ Len(Tail(r.page)) = Len(r.page) - 1
          /\ \A j \in 1 .. Len(Tail(r.page)) : Tail(r.page)[j] = r.page[j + 1]
      BY <2>5, <3>1, <3>3, HeadTailProperties
    <3>5. Len(r.page) \in Nat \ {0} /\ a = r.page[1]
      BY <2>5, <3>1, <3>3
    <3>6. i < n /\ a = list[i + 1] /\ i + 1 \in 0 .. n
      <4>1. LastOfPage(r.offset) <= n /\ LastOfPage(r.offset) \in Nat
        BY <2>5, <2>6
      <4> QED BY <3>2, <3>5, <4>1
    <3>7. ASSUME s.page = Tail(r.page), s.pc = "look" PROVE Behind(s, i + 1)'
      <4>1. i + 1 + Len(s.page) = LastOfPage(s.offset)'
        <5>1. i + 1 + Len(s.page) = LastOfPage(r.offset)
          <6> PICK l \in Nat \ {0} : l = Len(r.page)
            BY <3>5
          <6>1. Len(s.page) = l - 1 /\ i + l = LastOfPage(r.offset)
            BY <3>2, <3>4, <3>7
          <6>2. \A x, y \in Int : x + 1 + (y - 1) = x + y
            OBVIOUS
          <6>3. i \in Int /\ l \in Int
            OBVIOUS
          <6>4. i + 1 + (l - 1) = i + l
            BY <6>2, <6>3
          <6> QED BY <6>1, <6>4
        <5>2. LastOfPage(s.offset)' = LastOfPage(r.offset)
          BY <2>7, <3>1
        <5> QED BY <5>1, <5>2
      <4>2. ASSUME NEW j \in 1 .. Len(s.page) PROVE s.page[j] = list[i + 1 + j]
        <5>1. j \in 1 .. Len(Tail(r.page)) /\ j + 1 \in 1 .. Len(r.page) /\ i + (j + 1) = i + 1 + j
          BY <2>5, <3>4, <3>5, <3>7
        <5>2. s.page[j] = r.page[j + 1] /\ r.page[j + 1] = list[i + (j + 1)]
          BY <3>2, <3>4, <3>7, <5>1
        <5> QED BY <5>1, <5>2
      <4>3. s.total = Len(runbooks') /\ \A j \in 1 .. Len(s.page) : s.page[j] = runbooks'[i + 1 + j]
        BY <1>1, <3>1, <3>2, <4>2
      <4> QED BY <3>7, <4>1, <4>3 DEF Behind
    <3> PICK t : t = db
      OBVIOUS
    <3>8. ASSUME NEW u,
                 \A slug : SlugExistsInSpace(t, r.space, slug) => SlugExistsInSpace(u, r.space, slug),
                 \A b : GetDocumentByNightOwlAlertID(t, b) # {} => GetDocumentByNightOwlAlertID(u, b) # {},
                 \/ /\ s.imported = r.imported /\ s.skipped = r.skipped \cup {a} /\ s.failed = r.failed
                    /\ GetDocumentByNightOwlAlertID(u, a) # {}
                 \/ /\ s.imported = r.imported /\ s.skipped = r.skipped /\ s.failed = r.failed \cup {a}
                    /\ SlugExistsInSpace(u, r.space, Slug(Title[a]))
                 \/ /\ \E d : d \notin r.imported /\ s.imported = r.imported \cup {d}
                    /\ s.skipped = r.skipped /\ s.failed = r.failed
                    /\ GetDocumentByNightOwlAlertID(u, a) # {}
          PROVE  Counted(u, list, s, i + 1)
      <4>1. Counted(t, list, r, i) /\ i \in Nat /\ i < Len(list) /\ a = list[i + 1]
        BY <2>3, <3>6
      <4> QED BY <1>1, <2>2, <3>8, <4>1, CountsOneMore
    <3>9. CASE ImportLook(c)
      <4>1. /\ db' = db /\ s.imported = r.imported /\ s.failed = r.failed
            /\ \/ /\ s.pc = "look" /\ GetDocumentByNightOwlAlertID(db, a) # {}
                  /\ s.page = Tail(r.page) /\ s.skipped = r.skipped \cup {a}
               \/ s.pc = "create" /\ s.page = r.page /\ s.skipped = r.skipped
        BY <3>3, <3>9, ImportGoes
      <4>2. CASE /\ s.pc = "look" /\ GetDocumentByNightOwlAlertID(db, a) # {}
                 /\ s.page = Tail(r.page) /\ s.skipped = r.skipped \cup {a}
        <5>1. Counted(db, list, s, i + 1)
          BY <3>8, <4>1, <4>2
        <5> QED BY <1>5, <2>2, <2>4, <3>6, <3>7, <4>1, <4>2, <5>1
      <4>3. CASE s.pc = "create" /\ s.page = r.page /\ s.skipped = r.skipped
        <5>1. Counted(db', list, s, i)
          BY <2>2, <2>3, <4>1, <4>3 DEF Counted
        <5>2. Behind(s, i)'
          BY <1>1, <2>7, <3>1, <3>2, <4>3 DEF Behind
        <5> QED BY <1>5, <2>2, <2>4, <4>1, <4>3, <5>1, <5>2
      <4> QED BY <4>1, <4>2, <4>3
    <3>10. CASE ImportCreate(c)
      <4>1. PICK row : row = [space |-> r.space, collection |-> r.collection, slug |-> Slug(Title[a]),
                              type |-> "runbook", status |-> "published", alert |-> a]
        OBVIOUS
      <4>2. /\ s.pc = "look" /\ s.page = Tail(r.page) /\ s.skipped = r.skipped
            /\ \/ /\ Consistent(CreateDocument(db, row)) /\ db' = CreateDocument(db, row) /\ s.failed = r.failed
                  /\ s.imported = r.imported \cup {db.next.documents}
               \/ /\ ~Consistent(CreateDocument(db, row)) /\ db' = db /\ s.imported = r.imported
                  /\ s.failed = r.failed \cup {a}
        BY <3>3, <3>10, <4>1, ImportGoes
      <4>3. row.space = r.space /\ row.collection = r.collection /\ row.slug = Slug(Title[a]) /\ row.alert = a
        BY <4>1
      <4>4. CASE db' = CreateDocument(db, row) /\ s.failed = r.failed /\ s.imported = r.imported \cup {db.next.documents}
        <5>1. {"documents", "spaces", "collections"} \subseteq Numbered
          BY DEF Numbered
        <5>2. /\ DOMAIN db'.documents = DOMAIN db.documents \cup {db.next.documents}
              /\ db'.documents[db.next.documents] = row /\ db.next.documents \notin DOMAIN db.documents
              /\ \A d \in DOMAIN db.documents : db'.documents[d] = db.documents[d]
              /\ db'.spaces = db.spaces /\ db'.collections = db.collections
          BY <1>1, <4>4, <5>1, InsertGrows DEF CreateDocument
        <5>3. db.next.documents \notin r.imported
          BY <1>2, <1>4, <2>1, <2>2, <5>2 DEF Delivered
        <5>4. /\ \A slug : SlugExistsInSpace(db, r.space, slug) => SlugExistsInSpace(db', r.space, slug)
              /\ \A b : GetDocumentByNightOwlAlertID(db, b) # {} => GetDocumentByNightOwlAlertID(db', b) # {}
              /\ GetDocumentByNightOwlAlertID(db', a) # {}
          BY <4>3, <5>2 DEF SlugExistsInSpace, GetDocumentBySlug, GetDocumentByNightOwlAlertID
        <5>5. Counted(db', list, s, i + 1)
          BY <3>8, <4>2, <4>4, <5>3, <5>4
        <5> QED BY <1>5, <2>2, <2>4, <3>6, <3>7, <4>2, <5>2, <5>5
      <4>5. CASE ~Consistent(CreateDocument(db, row)) /\ db' = db /\ s.imported = r.imported /\ s.failed = r.failed \cup {a}
        <5>1. SlugExistsInSpace(db, r.space, Slug(Title[a]))
          BY <1>1, <2>4, <4>3, <4>5, CreatingStands
        <5>2. Counted(db, list, s, i + 1)
          BY <3>8, <4>2, <4>5, <5>1
        <5> QED BY <1>5, <2>2, <2>4, <3>6, <3>7, <4>2, <4>5, <5>2
      <4> QED BY <4>2, <4>4, <4>5
    <3> QED BY <2>10, <3>9, <3>10
  <2> QED BY <1>10, <2>8, <2>9, <2>10
<1> QED BY <1>1, <1>2, <1>7, <1>8, <1>9, <1>10, KindOfActs

LEMMA NextAccounts ==
  ASSUME TypesInv, TypesInv', AccountsInv, DeliveredInv, [Next]_dvars
  PROVE  AccountsInv'
<1>1. Shaped(db) /\ DOMAIN requests = Clients
  BY TypedShaped DEF TypesInv, RequestsProper
<1>2. \/ \A q \in Clients : Left(q)
      \/ \E c \in Clients : Acts(c) /\ \A q \in Clients \ {c} : Left(q)
  BY <1>1, WhoActs
<1>3. IsInjective(runbooks')
  BY RunbooksStayDistinct DEF TypesInv, AccountsInv
<1>4. ASSUME NEW c \in Clients PROVE Accounts(db, requests[c])'
  <2>1. CASE requests'[c].kind = "import" /\ ~requests'[c].changed /\ requests'[c].news = {}
    BY <1>2, <2>1, AccountsLeft, AccountsActed
  <2>2. CASE ~(requests'[c].kind = "import" /\ ~requests'[c].changed /\ requests'[c].news = {})
    BY <2>2 DEF Accounts
  <2> QED BY <2>1, <2>2
<1> QED BY <1>3, <1>4 DEF AccountsInv

\* AccountsInv holds throughout, and so: unless NightOwl's list changed, or documents were
\* written meanwhile, an import that ends has counted every runbook once, each that it did not
\* count as failed has its document, and each that it did, a document in the way; and in any
\* case what it made and nobody has written to is among the runbooks NightOwl is given.
THEOREM ImportsDeliverAll == Spec => []ImportsDeliver
<1>1. Init => AccountsInv
  <2> SUFFICES ASSUME Init PROVE AccountsInv
    OBVIOUS
  <2>1. PICK s \in Scenarios : runbooks = s.runbooks
    BY DEF Init
  <2>2. IsInjective(runbooks)
    BY <2>1, RunbooksAssumption
  <2>3. \A c \in Clients : requests[c].kind = "idle"
    BY DEF Init, Idle
  <2> QED BY <2>2, <2>3 DEF AccountsInv, Accounts
<1>2. TypesInv /\ TypesInv' /\ AccountsInv /\ DeliveredInv /\ [Next]_dvars => AccountsInv'
  BY NextAccounts
<1>3. ASSUME TypesInv, AccountsInv PROVE ImportsAccountForAll
  <2> SUFFICES ASSUME NEW c \in Clients, requests[c].kind = "import", requests[c].pc = "done",
                      ~requests[c].changed, requests[c].news = {}
               PROVE  LET r == requests[c]
                      IN /\ Cardinality(r.imported) + Cardinality(r.skipped) + Cardinality(r.failed) = Len(runbooks)
                         /\ \A a \in Range(runbooks) :
                              IF a \in r.failed THEN SlugExistsInSpace(db, r.space, Slug(Title[a]))
                              ELSE GetDocumentByNightOwlAlertID(db, a) # {}
    BY DEF ImportsAccountForAll
  <2> PICK r : r = requests[c]
    OBVIOUS
  <2>1. Counted(db, runbooks, r, Len(runbooks))
    BY <1>3 DEF AccountsInv, Accounts, Behind
  <2>2. \A a \in Range(runbooks) : \E j \in 1 .. Len(runbooks) : a = runbooks[j]
    BY <1>3 DEF TypesInv, Range
  <2> QED BY <2>1, <2>2 DEF Counted
<1>4. TypesInv /\ AccountsInv /\ DeliveredInv => ImportsDeliver
  BY <1>3, DeliveredAreListed DEF ImportsDeliver
<1> QED BY <1>1, <1>2, <1>4, TypesInvariant, DeliveredInvariant, PTL DEF Spec

=============================================================================
