# BookOwl: a verification project in TLA+

BookOwl is a multi-tenant knowledge base: a Go API over PostgreSQL (a schema per tenant) and
Redis, a Hocuspocus collaboration server in TypeScript, and a React front end with a Tiptap
editor. These modules model the parts of it where several actors change the same state, the
TLC configurations check them on small instances, and the `*Proofs` modules hold theorems
about them, with proofs checked by TLAPS, for every value of the constants.

`PROJECT.json` maps each definition to the source lines it stands for and lists the runs, the
mutants that each checked property catches, the hazards of the code and the theorems.

## 1. Inventory

Paths are relative to the repository.

| Component | State | Operations | Interacts with | What is hard about it |
|---|---|---|---|---|
| Document service, `pkg/document` | `documents`, `document_versions` | Create, Update, Restore, Delete, Move, Search | image sync after saves; the collaboration server writes the same rows | no transaction anywhere: read, snapshot and update are three autocommitted statements; only UNIQUE constraints stand between concurrent requests |
| Collaboration server, `collab/src/server.ts` | Yjs documents in memory, `document_yjs_state` | authenticate, fetch, store | writes `documents` and `document_versions` on its own pool | second writer with its own numbering; three statements; crashes with unstored edits |
| Live context proxy, `pkg/livecontext` | entries in Redis | four GETs, all through `proxyWithCache` | NightOwl over HTTP | check-then-fetch-then-store without a lock; stale fallback; two clocks' worth of stamps around a slow Redis |
| Images, `pkg/image`, `pkg/storage` | files, `storage_objects`, `document_images` | Upload, Serve, Delete, SyncDocumentImages, CleanupOrphans | every document save; a weekly job | file and row change separately; references are derived; the cleanup acts on an old list |
| Tenant middleware and pool, `pkg/tenant`, `internal/app` | connections and their `search_path` | Resolve, the job loops, the request timeout | every handler | connections return to the pool as they are; handlers ask for a second one |
| Tenant configuration, `internal/admin` | `public.tenants.config` (JSON) | UpdateConfig, UpdateOIDCConfig, TestOIDCConfig | middleware reads it | read, merge in Go, write back |
| Editor autosave, `web/src/components/editor`, `web/src/routes` | unsaved text, a debounce timer, requests in flight | type, save, leave | document service | overlapping PUTs, no retry |
| Spaces and collections, `pkg/space`, `pkg/collection` | `spaces`, `space_members`, `collections`, `documents.collection_id` | CRUD, members, the tree | document service | the tree joins documents by their collection's space and is read in two statements; nothing ties a document's collection to its space, and no handler asks |
| Comments and notifications, `pkg/comment`, `pkg/notification` | threads, mentions, notifications | add, reply, edit, delete, resolve, read | users, documents | a comment and its notifications are separate statements; mentions are words, users have addresses; notifications refer to documents without ON DELETE |
| Templates, `pkg/template` | templates | CRUD, save a document as one | document service, seed | single statements, but no constraint on names, so that seeds can double them |
| Users, roles, OIDC groups, `pkg/user`, `internal/authadapter` | users and their role | provision on first request, on login, map groups | middleware, tenant configuration | first requests and logins race for the row; the mapping changes meanwhile; tokens keep a role |
| API keys and tokens, `pkg/apikey`, `internal/admin/apikeys.go` | `public.api_keys` | create, list, delete, use | second connection | a key is a role that outlives what it was made from |
| Integration endpoints, `internal/integration` | documents they create | post-mortem, runbook list, lookup and search | document service | a space and a document in separate statements, caller's retries |
| Runbook migration, `internal/migrate` | documents created so far | one command | NightOwl | pages that shift while they are fetched; reruns after a partial failure |
| Seed, `internal/seed` | system templates, demo rows | look, then make | all tables | killed and run again, or run by two replicas at once |
| Provisioning and start-up | schemas | once | migrations | sequential, before serving |
| Web interface | forms | – | API | rendering; its only hard state is the autosave |

What makes each correct, in a sentence: *document service* – the history is truthful and
complete, no update is silently lost, a failed request does not harm the next; *collaboration
server* – its versions and those of the API tell one story, and content and Yjs state agree;
*live context* – data shown answers the query, and is no older than its label and the timeouts admit;
*images* – what documents show is there, what nobody shows is reclaimed; *tenancy* – no
statement ever runs in another tenant's schema, and requests do not starve each other of
connections; *access* – a role in force is one that somebody was given, and settings are lost
to overlaps only; *spaces and documents* – no document drops out of every tree, no slug is
twice in a space, moves and imports do what they say; *comments* – every comment is in a
thread, and notifications say what was posted; *seed and migration* – running them again
completes what is missing, and by itself doubles nothing.

## 2. Modules

| Module | Models | Composes |
|---|---|---|
| `VersionedDocuments` | abstract specification: an edit archives the body it replaces and installs the next in one step | |
| `DocumentHistory` | the document service's history, one action per SQL statement | implements `VersionedDocuments` |
| `CollabDocuments` | the collaboration server beside the document service | extends `DocumentHistory` |
| `LiveContextCache` | `proxyWithCache`, Redis and NightOwl with time | |
| `ImageStore` | files, rows, references, cleanup | |
| `TenantConnections` | requests, the connection pool, `search_path`, the cleanup job | |
| `TenantConfig` | the config column of a tenant and the three handlers that write it | |
| `TenantAccess` | provisioning, logins, group mapping, keys and tokens | extends `TenantConfig` |
| `TenantTables` | a tenant's tables as a value: constraints, and an operator per statement | |
| `TenantRequests` | what is under way on them, statement by statement | extends `TenantTables` |
| `Workspace` | spaces, collections, documents and their placement, templates, tree, lists, search | extends `TenantRequests` |
| `Discussion` | comments and notifications | extends `TenantRequests` |
| `Integration` | post-mortems, runbook endpoints, the runbook migration, NightOwl's list | extends `TenantRequests` |
| `Seed` | the system templates and the demo data | extends `TenantRequests` |
| `TenantData` | all four at once, on the same tables | extends them |
| `*Proofs` | theorems about `DocumentHistory`, `CollabDocuments`, `LiveContextCache`, `ImageStore`, `TenantConnections`, `TenantAccess` (with `TenantConfig`) and `TenantData` | each extends its module |
| `TenantRequestsProofs` | theorems about the requests, imports and seeds of `TenantData` | extends `TenantDataProofs` |
| `MC*` | the modules instantiated for TLC | |

A definition called "Mutant" is a plausible bug in the definition that follows it; no
specification uses it. `PROJECT.json` says which property each one breaks.

### DocumentHistory

`documents[d]` and `document_versions` are the tables, `requests[r]` the local variables of a
handler in flight, and `was` a history variable: every `(document, version, body)` the table
has held. A body is what a snapshot copies: content, and as one value title, type and tags.
All documents share a space, so a slug is unique among live documents.

`UpdateRead`, `Snapshot`, `Save` are the three statements of `Service.Update`
(`service.go:112-183`); `RestorePick` and `RestoreRead` precede the same two in `Restore`.
`SnapshotFails` and `SaveFails` are the error paths (the unique constraints, the foreign key,
a row no longer there), `Abort` the end of a request at any point, a restart included. The
API never retries. `Create` and `Delete` are one statement each; `Delete` cascades.

### CollabDocuments

Adds `yjs` (`document_yjs_state`), `sessions` (what Hocuspocus has in memory) and `stores`
(the running store hook of a document). `StoreYjs`, `StoreBody`, `StoreVersion` are the three
statements of the hook, `StoreStops` its early exits, `Crash` a stop of the process. Yjs's
merge of concurrent edits is a library's: an `Edit` puts any convertible content in memory.
Hocuspocus runs one store per document at a time; when it calls it is left open.

### LiveContextCache

Time is `now`; an entry carries the query it answers, when NightOwl computed it (`seen`), its
stamp `cached_at` and when Redis took it in (`written`), which is when its time to live begins.
`Get`, `ServeFresh`, `Call`, `NightOwlAnswers`, `FetchFails`, `Stamp`, `Write`, `Respond` are the
steps of `proxyWithCache`: the GET and the SET take time as the call of NightOwl does, either may
fail, and the SET may take effect more than once, as the client repeats commands. The entry is
stamped before the SET (`Stamp`), the envelope of a live answer after it (`Respond`), each with a
reading of the clock of its own. The limits of the HTTP and the Redis client appear in `Tick`:
time does not pass while a call or a command is at its limit. A handler fetches its own query,
so two requests race only through the entry they share.

### ImageStore

`files` is the backend, `storage_objects` and `document_images` the tables, `content[d]` the
image links in a document. An upload writes the file, then the row; a save writes the content,
then runs `SyncDocumentImages` statement by statement; a deletion and the cleanup remove the
file, then the row. `LinkKinds` says how contents link to images. A behaviour begins with one
of `Modes`: which documents there are, which savers work, and which hazards (collaboration,
users' deletions, failures) may strike. `drifted` is a history variable: the documents whose
references nobody can be expected to have right, because saves of them overlapped, one was cut
short, or the collaboration server wrote their content; the next save that has a document to
itself repairs it.

### TenantConnections

A request looks its tenant up over a connection it gives back (`TakeExtra`, `GiveExtraBack`),
takes another (`AcquireConn`), points it (`SetSearchPath`) and keeps it until `Respond` or
`RunOutOfTime`; `AskGlobal` is a handler's query of the global tables over the pool, for which
`TakeExtra` has to find a second connection. `BeginCleanup` and `FinishCleanup` are the weekly
job, which takes a connection as it is. The pool is a library's: any free connection may be
handed out, and a free one may be replaced by a new one.

### TenantConfig

`config` is the column, by field: the two NightOwl settings, and of the OIDC section the
settings that an update replaces together, the client secret and the last test. `Resolve` is
the middleware's read; `UpdateConfig`, `UpdateOIDCConfig` and `TestOIDCConfig` write back what
was read then with their own change, and `End` stands for their returns without a write.
`agreed` and `lost` are history variables: what each field was last meant to hold, and the
fields for which that may not be so, because they were set while the last writer was already
under way.

### TenantAccess

`visits[r]` follows a request behind `TenantConfig`'s `Resolve` through the rest of the
middleware: `PersonEnters` maps groups to a role with the settings the request was resolved
with, `Lookup` and `Upsert` are its two statements on `users`, then it is served. `LoginLookup`
and `LoginUpsert` are the callback of a login, which provisions with a role of core's own;
`KeyEnters` is a request with a key. The handlers of `TenantConfig` and the ones for keys run
only for those served as admins. `granted` is a history variable: which roles a login or the
mapping gave to whom. The identity itself, checked by an imported module, may carry any groups.

### TenantTables and TenantRequests

The state of a tenant's data is one record `db`: tables are functions from ids to rows, and
ids are counted up because UUIDs are never reused. Each SQL statement is an operator on `db`,
named after its query: `Cascade` is what ON DELETE makes of a removal, and `Consistent` what
UNIQUE and foreign keys demand; a statement whose result is not `Consistent` is refused and
changes nothing (`Execute`). Slugs are a name and the suffix that `Move` puts behind it. A query
with LIMIT and OFFSET is the set of pages it may return (`Pages`): all that an order by its rank
allows, in which rows of one rank come as they like, on each page anew. An address is the words
between its @s (`Email`), a mention likewise (`Mentions`), and what `mentionRe` finds are words.

`requests[c]` is what client `c` has under way: a request of several statements, a browser
between its read and the PUT it sends later, an import or a seed. Everything may end after any
statement (`End`). Requests of a single statement are one action (`Request`). In a record,
`news` is for the properties only: the documents (and `None` for another table) written by
others since the request began. A behaviour begins with the tables of a scenario, which
`StartAssumption` has as such requests leave them: replies answer comments, notifications are
earned, and a template with the mark of the system is of no space.

### Workspace, Discussion, Integration, Seed

`Workspace`: `MoveGet`, `CheckSlug` (one per candidate) and `MoveWrite` are `Service.Move`;
`Get` and `Update` are a page load and the PUT that follows. What the handlers do not look at is
the client's choice in `Create`, `Update` and `MoveGet`: any collection (`AnyCollection`), and the
type, status and NightOwl id of `Sent`. The tree and the lists are read in their two statements,
lists from any page, the search page by page. The version history of the same saves is
`DocumentHistory`'s. `Discussion`: `Reply` looks at the comment replied to and `ReplyStore` stores
the answer; `Post` stores a comment, `Notify` and `NotifyFails` the notifications of whom
`Mentioned` finds, one by one. `Integration`:
the post-mortem looks up the space, makes it if need be and makes the document; the import
fetches a page of NightOwl's list, looks each runbook up by its id and creates it, and goes on
by offset, while `NightOwlChanges` adds and removes runbooks. `Seed`: each lookup and each row a
step, for one space with one collection; `TemplatesFail` is the error that ends the templates and
is only logged, after which the seed goes on.

## 3. Runs

| Run | Checks | Shows |
|---|---|---|
| `DocumentHistory` | `TypeOK`, `HistoryTruthful`, `HistoryComplete`, `SaveSupersedesWhatItRead`, `HistoryInv`, `ImplementsVersionedDocuments` | with two racing requests that may stop anywhere, UNIQUE(document_id, version) is enough to keep the history truthful and complete and to lose no update, and the three statements implement one atomic edit |
| `CollabDocuments` | `HistoryTruthful`, `VersionNamesOneBody`, `RefusedAutosaveIsKept`, `CollabInv` | what survives beside the collaboration server: no snapshot lies, a number names one body, and a refused snapshot of the hook was already there |
| `CollabStuckDocument` | violation of `NoStuckDocument` | the hook files its snapshot under the current version; from then on every update and restore through the API is a 500, until the next autosave |
| `CollabStaleYjs` | violation of `ContentInSync` | an update through the API leaves the Yjs state behind; the next session starts from the old content |
| `LiveContextCache` | `TypeOK`, `AnswersAreRecent`, `CachedAtIsHonest`, `AgeInv`, `KeyInv` | how old data may be by its label, that races and a slow Redis cannot stretch this, and that data only reaches queries of its key |
| `ImageStore` | `TypeOK`, `ReferencesFollowContent`, `YoungImagesHaveFiles`, `ListedOrphansAreReclaimed` | references match contents under uploads, deletions and cleanups, and after overlapping or failed saves from the next undisturbed one on; the cleanup spares what is young, and reclaims every orphan that it has listed, unless it is referenced by then or calls fail |
| `ImageCleanupRace` | violation of `ReferencedImagesHaveFiles` | a save between the cleanup's query and its deletions loses the file of an image it references |
| `ImageUploadedLinks` | violation of `OrphansAreUnlinked` | an image linked by the url its upload returned is never referenced, and counts as an orphan after a day |
| `TenantConnections` | `TypeOK`, `OwnSchema`, `IsolationInv`, `EveryRequestEnds` | no handler's statement leaves its tenant's schema; with a connection to spare requests do not lock each other out, and every one ends without the help of the timeout |
| `TenantCleanupPath` | violation of `EveryTenantIsCleaned` | the cleanup works in whatever schema its connection was left in |
| `TenantAccess` | `OnlyOverlapLoses`, `RolesFollowConfig`, `RolesWereGranted`, `AccessInv` | what an admin sets stays but for writes that overlap; requests are served under the role their groups have in the settings as they are, where these map groups, or their row's; no row and no token has a role its owner was not given |
| `TenantData` | the twelve below | what the tables promise while two or three requests, imports or seeds interleave and end anywhere |

`TenantData` in particular:

| Property | Hazard |
|---|---|
| `TablesOK` | a move, import or seed puts a slug twice in a space or leaves a row that refers to nothing |
| `ShownOnce` | a document is in the tree of two spaces, or of none |
| `ReadsAreWhole` | trees and totals of two statements and the pages of a search, with and without writes in between |
| `QuietRequests` | a move or post-mortem is refused, or takes the wrong slug, with nobody in the way |
| `StraysHaveACause` | a document and its collection end up in different spaces though no client said so and no two requests overlapped |
| `EveryCommentIsListed` | a reply to what was deleted, resolved or moved on between its look and its insert is in no thread |
| `NoticesAreEarned`, `PostsNotifyAll` | notifications about what nobody said, twice, or missing |
| `ImportsDoubleNothing` | an interrupted and repeated import doubles a runbook |
| `ImportsDeliver` | an import that ends has skipped a runbook, or what it made is not found by NightOwl |
| `SeedsComplete`, `SystemTemplatesAreSeeded` | a killed and repeated seed leaves a gap though nothing went wrong, or doubles a template |

### Bounds

*Documents*: two requests are what a race needs; a third would meet the same constraint. Two
documents let slugs collide (`DocumentHistory`); beside the collaboration server one document
is enough, since the hook touches no other. `MaxVersion` 3 is two saves after the creation:
the second finds the leftovers of the first. It bounds `Save` and `StoreBody` in their guards,
so a request at the bound waits until it is aborted. Of three contents two convert to Yjs.

*Live context*: freshness 2, retention 3, both timeouts 1, clock up to 6: an entry can become
stale, expire, be overwritten by a slower call and be used by a call that fails, in the same
behaviour. Two queries that share a key, as active-alerts queries with different limits do, and
a key of neither.

*Images*: two images, so that a batch can be partial, and three modes: two documents that share
images while users delete some; one document with every hazard and one save at a time; one
document with two savers and failures. `CleanupLimit` stands for 100.

*Tenants*: two tenants and two requests on three connections, so that each connection passes
from tenant to tenant; the cleanup may be the third user.

*Access*: one person, with every kind of group set, two requests at a time and five requests
and logins in all (`MaxVisits`, the only bound): enough for a first request, a login, an
admin's change and a token made before it. A field of the config is unset or has one value, so
that a stale write shows wherever it takes a value away.

*Tables*: all kinds of requests at once are too many, so a behaviour begins with one of
twenty-three scenarios (`MCScenarios`), each with its tables and a quota for every kind of thing
that may happen: moves against moves, edits, creations and deletions; searches beside edits; new
spaces against post-mortems; two seeds, also beside edits, moves and templates of users; comments
and replies on a thread while it is moderated or its document deleted; two imports while
NightOwl's list changes or documents are edited. Three clients, pages of one, two names: two
requests always compete for a slug, and a list of two has a page boundary. Clients send nothing
beside the collection, or a type, `archived` and the id of a runbook; one user has an address
with an @, as users have, the other one that is a single word. What two scenarios have apart is
never together; the theorems are about any scenario.

Symmetry is used for model values only, in runs without liveness properties.

`CHECK_DEADLOCK FALSE` in every run: users may stop acting, clocks and versions reach their
bounds, and all images may be uploaded.

### Fairness

Only two specifications have it. `ImageStore!FairSpec`: a cleanup that has listed a batch goes
through it in one goroutine and over one connection, so `CleanupGoesOn` is weakly fair. That it
ever comes round to list this tenant's images is not assumed, and is false (`TenantCleanupPath`).
`TenantConnections!FairSpec`: pgxpool serves those who wait in order, so a
request to which connections come free again and again gets one (`Step` is strongly fair, and
so is `BeginCleanup`, which takes its connection like a request); a handler returns after
finitely many queries (`Respond` is strongly fair, because a handler may ask the global tables
before it returns); the job's goroutine finishes. That `chimw.Timeout` fires is not assumed, so
`EveryRequestEnds` says that it is not needed. Users, requests, NightOwl and the database owe
nothing.

### Conditions on what holds

- `ReferencesFollowContent` exempts `drifted` documents. When two saves of a document overlap,
  the statements of their syncs interleave and the older set may win; the store hook writes
  `content` and never `document_images`. Nothing but the next undisturbed save repairs either.
  Contents of that run link by row id, which API clients can do; the editor inserts the
  upload's url (see `ImageUploadedLinks`).
- `ListedOrphansAreReclaimed` is about what a cleanup has listed. That every orphan is listed in
  the end does not hold: the job may never see this tenant (`TenantCleanupPath`), and with more
  orphans than `CleanupLimit` those that it takes first, and cannot delete, keep the others from
  their turn. It is also about calls that do not fail.
- `AnswersAreRecent` and `CachedAtIsHonest` count on the clients giving up in time, the one of
  NightOwl after 10 seconds, the one of Redis after its timeouts and retries (`RedisTimeout`), and
  on a SET not taking effect later than that. The `cached_at` of a live answer may be later than
  the one that the same data is cached under, by as long as the SET takes.
- `EveryRequestEnds` has more connections than requests as a condition. With as many handlers that
  ask for a second connection as there are connections all of them can wait, and only the
  timeout of 30 seconds ends that; `GridlockTakesAskers` (proved, and in no run) says that
  nothing less does it.
- `OnlyOverlapLoses` exempts the fields that overlapping requests may have undone. They do undo
  them (see below); what the property excludes is any other loss.
- `RolesFollowConfig` is about the settings as they are only while nobody has written them
  since the request was resolved: a request keeps the role it came with. It leaves out users with
  groups where the settings map none, on which code and documents disagree (see below).
- `RolesWereGranted` says nothing of keys that admins make, which may have any role, and does not
  say that a token ends with its owner's role: it does not.
- `ShownOnce` leaves archived documents out, and does not say that the tree is of the document's
  own space: a stray (`StraysHaveACause`) is shown in the space of its collection.
- `StraysHaveACause`: no handler checks that a collection is of the document's space, so any client
  makes a stray with one POST, PUT or move. What the property excludes is that one comes about
  without that. It takes a PUT to be right by the space its client has read the document in.
- `ReadsAreWhole`, `QuietRequests` and `ImportsDeliver` exempt what others wrote (`news`) or
  NightOwl changed meanwhile; `PagingFindsExactMatches` is about exact matches that share their
  rank with no other. Rows of equal rank are in no order that the next page could go on with, so
  one of them can be skipped with nobody writing; a document that is only similar can be too, and
  an exact match repeated, as both halves of the search apply LIMIT and OFFSET for themselves.
- `PostsNotifyAll` is about posts that went through without an error: one is only logged. And it
  is about users whose whole address is a word behind an @, which no address with an @ is.
- `NoticesAreEarned` is about the text as it was posted; an edit notifies nobody. A user who is
  both answered and mentioned is told of each: the property excludes a second time for the same
  reason.
- `SeedsComplete` is about seeds in which nothing went wrong. An error in the templates ends them
  with a warning and the seed completes without; errors of adding members and filing documents
  are ignored. The next run makes up for all of them.
- `ImportsDoubleNothing` exempts documents that were written meanwhile: nothing is UNIQUE about
  `nightowl_alert_id`, so any client doubles an id by sending it, and two imports at the same time,
  into different spaces, make a runbook twice. It needs lookups that do not fail: the import takes
  any error for "not found" (`runbooks.go:142`), and into another space it would then import a
  runbook twice.
- `AnswersTheQuery` (in `LiveContextCache`) holds of queries that share their key with no other,
  which is the theorem `OwnKeyOwnData`. Not all do: `ActiveAlertsKey` leaves the limit out
  (`cache.go:74`), so a block may be shown the answer to another limit for 30 seconds. `KeyInv`
  is what is left.

### Other disagreements seen while modelling

They follow from the modules but have no run of their own.

- A save that fails after its snapshot (409, cancelled request) leaves the document stuck like
  an autosave does, without a collaboration server (`NoStuckDocument` under
  `DocumentHistory!Spec`), and no autosave comes to free it.
- The store hook overwrites versions of which there is no snapshot, so `HistoryComplete`
  fails under `CSpec`.
- `docs/08-tasks.md:64` has DELETE set the status to archived, and :47 has it archive a space; the
  code deletes the row, and with it the history (`store.go:112`).
- What is deleted so is refused for good after the first notification about it: `notifications`
  refers to documents and comments without ON DELETE, and nothing deletes a notification, while
  `docs/14-comments.md:23` has comments go with their document. `DELETE` of such a document, or of
  its space, is a 500 each time.
- `docs/14-comments.md:224` says "When a user is @mentioned in a comment, or when someone replies to
  their comment, a notification is created", and :328 that "Usernames are resolved against
  `users.username`". The code takes the words behind an @ (`renderer.go:14`), which never hold
  another @, and looks for users whose whole e-mail address is such a word (`users.sql.go:76`),
  though `comment/service.go:235` speaks of "emails or partial emails": nobody with an address
  such as `bob@example.org` is ever notified of a mention.
- Deleting a referenced image removes its file and then fails on the row with a 500, since
  `document_images.storage_id` has no ON DELETE; `handler.go:222` says it cascades.
- With a public bucket `URL` returns a link that `extractIDFromImageURL` does not recognise:
  `OrphansAreUnlinked` fails with `LinkKinds = {"public"}` too, there for images that show.
- Overlapping writes of the configuration undo each other. The test of an OIDC connection calls
  the provider for up to tens of seconds and then writes back the whole config it was resolved
  with, although `docs/11-oidc-admin.md:392` has it test "without saving": an admin who
  saves meanwhile loses what was saved, with a 200 in hand.
- `docs/11-oidc-admin.md:32` gives users `viewer` when no groups are configured; the middleware
  gives `editor` (`middleware.go:87`), and to a user whose token carries groups it does so
  whatever role the row holds, though the comment above has it "sync from DB" when there is no
  mapped role (`middleware.go:130`).
- In this build no identity carries groups: the vendored `wisbric/core` maps them to a role of
  its own and does not keep them (`core/pkg/auth/oidc.go:141`), so the tenant's mapping and its
  allowed groups never take effect. The model lets identities carry them, which is what
  the middleware is written for.
- A row made by the callback of a login gets one of core's roles, such as `engineer`, which no
  CHECK refuses and the documents do not list.
- No code changes the role of an existing row, `UpdateUserRole` and `DeactivateUser` have no
  caller, and only mentions ask for `is_active`. A personal token keeps the role it was made with,
  while `docs/12-login-and-profile.md:246` says tokens "cannot exceed the user's own permissions".
- A move of a document within its own space finds its own slug taken and renames it.
- A PUT sends collection and NightOwl ids or clears them, and nothing looks at either: a client
  files a document in a collection of another space, or gives two documents one runbook's id; a
  browser that read the document before a move files it in a collection of its old space; and a
  saved runbook loses the id by which the next import would know it, which then fails on the slug
  or imports it again.
- The pages of a list or a search have no order beyond their columns: equal ranks may come in
  another order on the next page, which repeats one row and skips another.
- Editing a deleted comment restores its text under the mark of deletion.
- The post-mortem made from the system template has no root cause and no solution
  (`postmortem.go:41-54`); the one made without it has both.
- Import and seed take any error of a lookup for "not there" (`runbooks.go:142`, `seed.go:347`); two
  seeds that start together make a system template twice, as no constraint speaks against it.
- A seed that cannot read its templates, or is refused one, logs it as non-fatal (`seed.go:79`)
  and reports that it is complete.
- A request that found no entry in Redis answers "unavailable" when its call fails, also when
  another request has filled the cache meanwhile (`docs/05-nightowl-integration.md:219`:
  "return last cached value if available").

## 4. Proofs

Each holds for any sets of documents, requests, bodies, readers, queries, keys, tenants and
connections, from the named assumptions of the module. The module names are those of the
table above.

**DocumentHistory.** `TypeCorrect` by induction over the actions. `HistoryInvariant` proves
`HistoryInv`, the strengthening that all the others follow from. Neither `HistoryTruthful` nor
`HistoryComplete` is inductive: a snapshot is truthful because what a request has read was
true when it read it (`RequestsReadThePast`, with `WasUpToDate` tying the history variable to
the table), and the history has no gap because a `Save` always has its own snapshot behind
it (`SnapshotTaken`) and the row it overwrites is still the one it read
(`SaveSupersedesWhatItRead`). The latter is inductive only with `SoleSaver`: two requests past
their snapshots on one live document would hold the same `(document, version)`, which UNIQUE
excludes. The argument for a late snapshot, `SnapshotIsOfCurrentRow`, is a lemma: if the
version read has been superseded, `HistoryComplete` says its number is taken, so `Snapshot` is
refused. `SnapshotsTellTheTruth`, `NoVersionIsMissing` and `NoUpdateIsLost` are corollaries.
`Refinement` shows `Spec => ImplementsVersionedDocuments`, with `past` mapped to the snapshots
below the current version: a snapshot is a stutter, and `Save` is the edit.

**LiveContextCache.** `DataIsRecent` proves `AgeInv`: an entry is stamped within one call of its
data and written within one command of its stamp (`CacheInv`), and calls and commands in flight
are within their limits and hold an entry that Redis had when it was asked (`FlightInv`).
`AnswersRecent` and `CachedAtHonest` follow. `DataKeepsItsKey` proves `KeyInv`, and
`OwnKeyOwnData` concludes of each query with a key of its own that who asks it is shown its
answer, whichever others share theirs.

**TenantConnections.** `Isolation` proves `IsolationInv`: `OwnSchema` needs that a kept
connection has one user (`SoleUser`), that is that the pool hands out free ones only, and that
a request has one exactly between Acquire and its end (`Equipped`). `TenantIsolation` is its
corollary. `AskersMakeGridlock`, for pools of any size: when all that use the pool wait, each
connection is held by a request that waits, and of these only a handler that asks for a second
one holds any, and holds one; so there are as many as connections. This counts, with the
library's facts on cardinalities, and needs finitely many requests. That nothing less than that
uses the pool up says what makes it happen; that it does happen is no theorem's to exclude.

**CollabDocuments.** `CollabInvariant` proves `CollabInv`. Beside the store hook half of
`HistoryInv` is gone: there are versions without a snapshot, and a request that is about to
save may overwrite what it never read. What stays needs no uniqueness at all. Both writers
count the number up from what the row holds, so a number is never given twice
(`NextVersionIsNew`, `RowWritten`), and whatever is inserted as a snapshot was once current
(`RequestsReadThePast`, `StoresWerePast`). `SnapshotsStillTellTheTruth` and
`NumbersNameOneBody` are conjuncts; for `NoAutosaveIsLost`, the row in the way of a refused
snapshot was current under the same number, hence is the same.

**ImageStore.** `ImageInvariant` proves `ImageInv`. `YoungImagesHaveFiles` needs that the
cleanup's batch, though it is old news by the time it is worked on, holds no young image: an
image is uploaded once, and what is aged stays so (`UploadsInOrder`). `ReferencesFollowContent` needs
to know how far a running sync has come (`InSync`): a document that has not drifted has at most
one save under way, which holds the images of the content that is there, and of these all but
the ones still to do are referenced as far as they have rows; the last statement removes the
rest. `TypeCorrect`, `YoungImagesAreSafe` and `ReferencesAreKept` are the corollaries. They are
about `Spec`, and so about the behaviours of `FairSpec` too.

**TenantConfig and TenantAccess.** `ConfigInvariant` proves `ConfigInv` for the three handlers
alone. `OnlyOverlapLoses` is not inductive: what a write leaves behind is right because what
the request was resolved with is right but for the fields set since then (`NewsComplete`), and
those are the ones the write adds to `lost`. `WriteKeepsInv` is the step for a write of any
fields, provided it merges its change into what was read, and `HandlersMerge` says that each of
the three handlers does. `ConfigKept` carries this over to `AccessSpec`, each of whose steps is
a step of `TenantConfig` or leaves the config alone, and `AccessInvariant` proves `AccessInv`
on top: a role under way has been granted (`VisitsGranted`), and until it is served a request
has the role of its groups in the settings it was resolved with (`RolesAsResolved`).
`AccessLosesNoChange`, `NoRoleOutOfNothing` and `ServedAsConfigured` are corollaries.

**TenantData.** `DataInvariant` proves that rows have their types, that UNIQUE and foreign keys
hold, and that threads are two levels deep (`Threaded`), for any scenario that begins so. That
a statement which would break a constraint is refused is assumed of PostgreSQL, so `Consistent`
is the induction's hypothesis and not its point; the theorems are what it is good for.
`NoDocumentIsLost`: because its collection exists, and is in one space, a document is in one
tree. `NoCommentIsLost`: a reply's parent is read at one step and the reply stored at a later one
(`RepliesInv`), and it matters that nothing turns a comment into a reply, or deletes one for good
but with its document.

`TablesAreSound` adds the types of every column (`TablesOK`). What a statement writes comes from
what the request has read at earlier steps, so rows are typed only because requests are, and
these only because rows are: `TypesInvariant` proves both at once, with a set of records for each
kind of request (`Edits`, `Moves`, ... `Seeds`). Its proof has a lemma per group of statements
(`PlacesTyped`, ... `DiscussionTyped`) and one per component (`WorkspaceProper`, ...
`SeedProper`), and two lemmas carry all the proofs below: `WhoActs`, a step is that of
one client or of none, and every other request stays or hears of what was written;
`NextLeaves`, which tables a step may have changed, row by row.

**TenantRequests.** What a request has read is still so, but for its `news`: each theorem rests
on an invariant that says this of what the request will rely on.

- `NotificationsAreEarned`, `PostsReachAll`: `PostsInv` splits the recipients of a comment between
  those who are still due, and have no notification, and those who have had theirs or whose insert
  failed. It needs that only one posting is about a comment, as a comment's id is new when it is
  posted, and that the author and the mentions of a comment stay as they were posted. What a word
  behind an @ finds plays no part but in `PostsReachAll`, which is about whole addresses.
- `RunbooksAreImportedOnce`: `SinglesInv`, between the look for a runbook and the INSERT the only
  documents with its id are those written since the import began, and what it has made so far is
  alone with its id but for those.
- `StraysAreTheClients`: `FilesInv` and `SeedsInv`. A browser that nobody came before writes to a
  document of the space it has read it in; an import and a seed have a collection of the space they
  file in, which is kept as "as long as it is there", for it may be deleted; a post-mortem files
  nothing; and a collection never changes its space.
- `SeedsCompleteWhatIsMissing`, `SystemTemplatesStay`: `SeedsInv` says for each position of a
  seed what is there for good so far; the part in `SeedHolds` does not depend on `news`, the part
  in `SeedHas` does.
- `TreesAndTotals`: `ReadsInv`, the half of a tree that is read is that of the tables as they are,
  apart from `news`; then disjointness. Of a list's page only its size is known (`PageSize`), which
  is what its total has to agree with.
- `QuietRequestsSucceed`: `QuietInv`, a move that nobody disturbed has passed over slugs that are
  taken (`MoveReady`). It matters that a write is a change: an UPDATE that leaves a row as it was
  is no news.
- `ReadsCanBeReliedOn`: `SearchInv`, an exact match that is not found yet, and shares its rank with
  no other, has at least as many matches ranked before it as the offset of the next page says
  (`Ahead`). A page may order its ties as it likes; `PagePassesNoneOver` counts that it still
  either has the match or ends before it, and is not empty, so that the search goes on.
- `ImportsDeliverAll`: `DeliveredInv`, what an import made and nobody wrote to is a published runbook;
  and `AccountsInv`, an undisturbed import has counted the first i of NightOwl's runbooks, each
  once, with i between its offset and the end of its page. Counting needs that what it imported
  was new, and that NightOwl's list names a runbook once (`RunbooksStayDistinct`).

The sets of what is under way are read off the code's local variables; no invariant bounds the
number of clients, rows, names, runbooks or pages. What the theorems assume is `ScenarioAssumption`,
`RunbooksAssumption` and `StartAssumption` of the start, that pages and batches are not empty
(`PageAssumption`, `BatchAssumption`), and that constants are of their kind (`NoneAssumption`,
`ClientAssumption`, `PeopleAssumption`, `TitleAssumption`, `SeedAssumption`).

**Only model-checked**: liveness (`ListedOrphansAreReclaimed`, `EveryRequestEnds`), which the prover
does not reach. Every other property of a passing run is a theorem.

## 5. Not modelled

- Provisioning and start-up: they run once, in one process, before the system serves.
- The web interface, and of the editor its debounce timer: what its requests do is modelled,
  in any order; what the browser keeps of a refused save is nobody's promise.
- Authentication: sessions, tokens, the providers and Redis sessions are the imported module
  `wisbric/core`, as is the authentication of collaborators, which asks it.
- Of the seed, the tenant, the local admin and the demo users, which are there at the start;
  positions, icons, names and descriptions everywhere; expiry of keys; profile fields.
- Rendering, export to HTML and Markdown, conversion of Markdown, input validation and the
  ranking of full-text search: pure functions or formatting. Ranking is any, with any ties. Pages
  of the tables have one size (`PageLimit`) throughout a behaviour.
- A lookup that fails for reasons of its own, in imports and seeds (see above); a request for a
  row that is not there, which changes nothing, such as a collection id that no row has; the
  write of the placement a document has already that is part of `Restore`; `is_active`, which
  nothing ever clears.
- Statements that nothing calls: the audit log, role changes, lists of runbooks by space.

PostgreSQL's statements are taken to be atomic (autocommit, READ COMMITTED), and calls to the
storage backend likewise.

## 6. Plan

Done, in this order: documents and their history; the collaboration server; live context;
images; tenants and connections; configuration; access; the tenant's tables with the
workspace, discussions, the integration and the seed. Each has its proofs.

Worth doing next:

1. An abstract specification of the tables' operations of several statements (a move and a
   posting as one step each), and the proof that undisturbed ones implement it.
2. `GridlockTakesAskers` as a step towards `EveryRequestEnds`: what the prover can say of progress.
3. Larger scenarios: three requests of different kinds on one space.
