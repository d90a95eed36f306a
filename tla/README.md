# A TLA+ model of quire-server

quire-server is a self-hosted server, in Go with one SQLite database, for readers
of books and comics. It synchronises reading state between the devices of an
account, stores and watches book files, shares libraries between accounts, and
manages the accounts themselves. This directory holds TLA+ modules for the parts
of it that are hard to test, the TLC configurations that check them on small
instances, and proofs, checked by TLAPS, that their safety properties hold for every
instance.

Paths below are relative to the root of the repository. `PROJECT.json` maps every
definition to the lines it models and lists the runs, mutants, hazards and
theorems.

## 1. The system

Everything runs in one process, `cmd/quire-server/main.go`, which opens **one**
database connection (`SetMaxOpenConns(1)`): a transaction is atomic with respect
to every other statement of the process, and a handler that uses several
transactions or a query outside one can be interleaved between them. Besides the
connection two mutexes matter: `Store.fileMu` around whatever changes or reads
snapshot objects on disk, and `Store.trackingMu` around each handler that deals
with tracking, of whichever account, calls to the tracking service included. Owner's commands (`user-add`, `watch-add`, `scan`, `backup`, ...) are
processes of their own on the same data directory: they share the database, not
the mutexes.

| component | state | operations | what is hard | what makes it correct |
|---|---|---|---|---|
| Record synchronisation: `sync.go`, `folders.go` | records with candidates, the change log and cursor of each account, accepted operations | `Store.Sync`: a batch of operations and a page of changes in one transaction | retries, lost answers, late requests, conflicting edits from stale revisions, limits on candidates and pages | exactly one effect per operation, no edit lost, a log without gaps, convergence |
| Shared libraries: `libraries.go`, `files.go` | members, grants, seeds in the members' records | seeding and migrating a member's record before its request, scans seeding the owner's record, the administrator's metadata edit of every member | queries before a transaction, used inside it; several writers of one record by different code | no person's edit replaced by a seed, seeds only for who has the book, a migration that changes nothing else |
| Book files: `files.go`, `library_management.go` | rows of `files`, `watch_roots`, `scan_status`; objects on disk | upload, delete, scan, watch-add, watch-remove, deleting a library | a row and its object change in different steps, any of which can fail; stale queries; long walks under a lock | a listed book has its object, a catalogue is replaced as a whole, every handler ends |
| Backup: `backup.go` | a snapshot of the database and copies of objects | create, status, restore | files change while they are copied | every object a snapshot refers to is there |
| Accounts: `auth.go`, `admin.go`, `browser_session.go` | users, sessions, invitations, the setup code | login, browser login, registration, setup, changing roles and passwords, invitations, membership | authorisation is a step of its own before the route's transaction | an active administrator remains, revocation is complete, codes make one account |
| Settings: `privacy.go`, `folder_catalog.go`, `opds_sources.go` | one versioned document each, with stored credentials for OPDS sources | compare-and-swap of a whole document, idempotent source operations | lost, late and repeated requests and answers | nothing unseen is overwritten, an answer shows history, credentials stay with their origin |
| Reading statistics: `statistics.go` | activities and their change log | a batch of activities, a page | as record synchronisation | each activity counts once |
| Tracking: `tracking*.go` | links of books to the service's entries with what is acknowledged of each, the connected account and its token | passes that report what devices have read, edits of entries by hand, linking and connecting, OAuth login | entries change at the service, positions and the shelf in the database, during a handler's calls; a pass that finds the mutex taken gives up; failures rest for a minute | what is acknowledged was reported, progress never goes backwards and arrives in the end |
| HTTP layer: `http.go` | windows of login attempts, slots for expensive requests | authorisation, limits | windows that end while attempts arrive, a full table | limits hold, slots are given back |
| Metadata cache: `metadata_cache.go` | decoded metadata, most recent first, their size, and decodings under way | a hit, waiting for another's decoding, decoding and inserting | objects are deleted and stored again meanwhile; eviction by elements and by bytes | one decoding at a time, true answers, counts that agree, nobody waits for ever |
| OPDS: `opds.go`, `opds_auth.go`, `opds_proxy.go` | feed passwords | feeds, a proxy to a source | none but the passwords' revocation | a password opens one account's feeds |
| Settings of the server, update check, scheduler | one row; a cached answer; a timer | last writer wins; a request every six hours; rescans | overlap of a scan and shutdown | one scan at a time |
| Formats and metadata parsing, schema, web files, platform | none at run time | pure functions, migrations at start | input, not order | outside the reach of these models |

How they interact: a request of a device goes through the HTTP layer
(authorisation) to `Store.Sync`, which first calls `sharedSeeds` and
`migrateSharedMembership` when the account is a member of a library. A scan
changes `files` and calls `seedBook` on the owner's record in the same
transaction. The administrator's metadata edit calls `Sync` for the owner and then
for every member. Deleting a library cascades through users, grants, memberships
and files and then sweeps objects under `fileMu`; a backup holds `fileMu` too.

## 2. The modules

    BookValues ── AccountStore ──┬── RecordSync ──── DeviceSync ──> PullLog (refines)
                        │        └── LibrarySync
               AccountStoreProofs ── RecordSyncProofs (of RecordSync and DeviceSync)
                                 └── LibrarySyncProofs (of LibrarySync)

    FileStore ── FileStoreProofs            AccountSettings ── AccountSettingsProofs
    Accounts ── AccountsProofs              MetadataCache ── MetadataCacheProofs
    Tracking ── TrackingProofs

| module | models | in the code |
|---|---|---|
| `BookValues` | values of book records and how clients with one folder and clients with a list of folders share them | `canonicalBookFolders`, `metadataFolders` of `folders.go` |
| `AccountStore` | the tables of one account and what one operation does to them, as operators on a record `d` of type `DB` | the loop over operations, `load`, `save` and the page of `Store.Sync` |
| `RecordSync` | `Store.Sync` as transactions: `Begin`, `Apply` (one turn of the loop), `Commit`, `CommitUnanswered`, `Rollback` | `Store.Sync` |
| `PullLog` | the abstract promise of a change log: published at the end, taken in order, without gaps | what `docs/API.md` tells clients of cursors |
| `DeviceSync` | devices with an outbox and a cursor against RecordSync, and the messages between them | devices are outside the repository; they do what `docs/API.md` asks of a client |
| `LibrarySync` | AccountStore tables of a library's owner and its members with every writer of the book's record | `sharedSeeds`, `migrateSharedMembership`, `seedBook`, the route `PUT /v1/admin/libraries/{library}/books/{id}/metadata`, and `Sync` between them |
| `FileStore` | file rows, objects, watches, `fileMu`, each handler step by step, each able to stop between two steps | uploads, deletions, scans, watches, `deleteLibrary`, `Backup` |
| `Accounts` | users, sessions, invitations, grants, members; handlers between authorisation and their transaction | `auth.go`, `admin.go`, `browser_session.go`, the membership routes |
| `Tracking` | one account's links, passes and edits by hand, each call to the service a step; the service's entries; devices, other changes at the service, time and crashes around them | `runTracking`, `trackingPatch`, the routes of `tracking.go`, `tracking_series.go` and `tracking_entries.go`, `trackingAccessToken` |
| `MetadataCache` | requests for a book's metadata, each between two sections under the cache's mutex, and the cache itself | `objectMetadata` and `metadataCache.get` |
| `AccountSettings` | the privacy settings, the folder catalogue and OPDS sources, with every message that was ever sent able to arrive | `SyncPrivacy`, `SyncFolderCatalog`, `writeCatalogSource` |

The level of detail is the transaction, or the single query outside one, or the
single file operation: these are the units the database connection, the mutexes
and the file system make atomic. Titles, folders and payloads are model values. An
operation's digest is modelled by the contents it is computed from; random ids
are ids that were not drawn before.

In `Tracking` a title is its rank, a position is how far the book is (not begun, begun,
finished) and a chapter, and an entry's state is one of four that the code treats
differently. A refresh of the token is one step of the handler that needs it: it
succeeds, fails for a time (the handler does not begin) or is refused for good.

History variables (`acked`, `origin`, `log` and `basis` of AccountSettings, `told`, `waived`
and a pass's `touched` in Tracking, `gone` in MetadataCache) are not in the code; they
remember what a property needs, and no guard reads them. `edits` of DeviceSync is what a
device's user has done so far; the device itself acts on its outbox, its cursor and the
changes it has applied.

A definition below a comment "Mutant:" is not part of the system. It is the action
or operator that follows it with a plausible bug, and `PROJECT.json` names the
property that detects it.

## 3. What the runs check

| run | states | shows |
|---|---|---|
| `sync` | 495 000 | every batch of up to two operations on a book and a note, current, stale and future bases, reused ids, folder lists and primary folders, rollbacks and lost answers: the log agrees with the records, an operation has one effect, no edit is lost, candidates stay within the limit, answers are durable, a primary-folder client loses nobody's folders |
| `devices` | 152 000 | two devices, three edits, two losses (a lost answer, a failed transaction, a request that arrives after its device has given up): nothing unseen is replaced, a well-behaved device is never refused, `PullLog` is refined, the devices converge |
| `library` | 1 630 000 | two handlers, scans, seeds, a migration, the administrator's edit and an edit by a device on one shared book, up to an edit that finds the record full: logs and records agree, an accepted operation has one effect, seeds and migrations replace no person's edit |
| `files` | 211 000 | two handlers of the server on one book, one path and one watch, each stopped anywhere |
| `accounts` | 20 000 | two people, two requests past their authorisation, three sessions with a limit of two, role and password changes: no step leaves the server without an active administrator once it has one |
| `invitations` | 271 000 | three people, one library, one invitation with a grant; library and account creation and deletion |
| `settings` | 419 000 | two devices, three writes, each delivered any number of times and in any order |
| `tracking` | 229 000 | two books of one series, one of them a volume, two entries and two accounts: what is acknowledged was shown by the entry or settled by an edit of it, an undisturbed pass never lowers an entry, and progress is reported in the end |
| `metadata` | 59 000 | three requests, three objects of which two fit the cache, not at the same time, and one does not: one decoding at a time, a consistent cache, true answers for everyone |
| `seed_overwrite`, `shared_book`, `command_scan` | | the disagreements with the documentation of section 6 |

State counts are after symmetry. Every property of a passing run has a mutant that violates it.

Bounds, and why they are enough:

- `MaxBatch` is 2 of 50, `MaxCandidates` 2 of 16 in `sync` and `library`, `PageSize` 2 of 100 (1 in
  `devices`). One operation before and one after is what distinguishes a batch
  from a single operation; the limit and the end of a page are reached, which is
  where their code differs from the rest. In `library` a full record
  refuses a stale edit of a device's or the administrator's between seeds and migrations. `devices` keeps the limit
  of 16 candidates, which its three edits cannot reach: a refusal at the limit is nobody's
  breach of the protocol, and `NeverRefused` is about the other reasons for one.
- `MaxLosses = 2`, so that a retry can itself be lost, and a late request can arrive
  after a retry. `MaxWrites = 3`, so that a document can be changed, changed back and
  hit by the first write again.
- Two requests in `library`, `files` and `accounts`: each hazard there is a step of
  one handler between two steps of another. `invitations` runs one request beside
  actions that are single transactions (sign-in, registration, commands), because
  invitation and library transactions re-check everything but the role of their
  caller, and the races about roles are the subject of `accounts`.
- One book, one path and one watch suffice in `files`, as rows of different books share
  no object, but both an upload and a watch of the same book do. `library` has one
  member: members share no table.
- `tracking` has two requests of the person (link and edit, link and restore, ...), one
  failure, crash or change at the service, and one synchronised position after the
  one a book starts with. Of its positions one lies beyond the chapter limit, so a
  pass meets a book it cannot report before one it can. The two entries, and the two
  accounts, are for links and connections that move. Passes, minutes and connections are
  not bounded.
- `metadata` has two deletions or uploads, which is an object that goes and comes back,
  and three requests: one that decodes, one that waits, one that evicts.
- Symmetry is over ids that the specification only compares (requests, sessions,
  names, passwords, operation ids drawn at random). Neither liveness nor refinement
  runs use symmetry.

`CHECK_DEADLOCK FALSE` stands where a run really ends: plans and bounded writes are
used up (`devices`, `settings`, `tracking`), or ids that are drawn once (`library`, `files`).

Fairness. `DeviceSync`: weak fairness of the server's steps and of receiving (a handler
runs to its end), strong fairness of sending for each device, since a request that waits
for the database connection gets it in the end: `database/sql` hands a free connection to any
of the waiting requests and prefers none. Losses are
bounded, as a device that never gets an answer cannot converge. `FileStore`: weak
fairness of a handler's steps, where a scan may fail instead of going on, and strong
fairness of taking `fileMu`: a `sync.Mutex` starves nobody. A handler may also stop
at any time; that is never required. `Tracking`: weak fairness of a handler's steps (each
call to the service has a time limit) and of `Minute`; strong fairness of `BeginPass`,
because clients ask for a pass after every synchronisation (`docs/tracking.md`) and
handlers always release the mutex. Failures are bounded in that a service that never
answers cannot be told anything. `MetadataCache`: weak fairness of each request's steps.

## 4. What is proved

Theorems hold for every value of the constants that satisfies the assumptions named in
the modules (`StoreAssumption`, `SyncAssumption`, `PlanAssumption`, `SettingsAssumption`,
`LibraryAssumption`, `FileAssumption`, `AccountAssumption`, `CacheAssumption`,
`TrackingAssumption` and those they build on): any
number of keys, devices, accounts, books, handlers and operations, any limits and bounds.
The assumptions say what kind of thing a constant is, that `None` and the like are none of
them, for `DeviceSync` that every edit has an id of its own, and for `LibrarySync` that the ids of legacy seeds, devices and drawn ids are apart.

No property is inductive by itself. Each proof module states the invariant that is:

**RecordSyncProofs**, of RecordSync, with **AccountStoreProofs**. `TypeCorrect`, `LogAgreement`,
`ExactlyOnce`, `NoLostEdits`, `BoundedConflicts`, `DurableAnswers`, `AppendOnly`. `Inv` adds to the type
invariant that the committed tables and the open copy satisfy `StoreInv`, that the copy
extends the tables, and that collected answers are entries of the copy (`TxInv`).
`StoreInv` relates the tables to each other: cursors count the log, the newest change of
a key is its record, an accepted operation is at its revision in the log, and it is a
candidate of its record or was resolved by an operation with a revision between. That
one operation preserves `StoreInv` is the work, and `AccountStoreProofs` does it one
conjunct at a time, on operators and not on behaviours. `LegacyEditsAreSafe` needs more: that the
value a book's record is settled on always has a folder list whose first entry is its primary
folder. An operation in conflict may be stored without (`Settled`), so this is an invariant of its own
(`FoldersInv`, `CanonicalFolders`): a conflict leaves at least two candidates, because a record that
was ever written has one and a base revision never lies beyond the record's.

**RecordSyncProofs**, of DeviceSync. `NothingReplacedUnseen`, `NoRefusals`, `RefusedForRoom`,
`EditsAreKept`, `DevicesReadTheLog` and `DevicesKeepStore`, for any number of devices and edits, any
page, batch and loss bound. `DeviceInv` is the inductive invariant. Its parts are operators of the state
they speak about, so that what is shown of tables holds of the committed ones and of the copy in a
transaction alike:

- The outbox is the end of the list of edits (`Queues`), what was dropped from it is recorded
  (`DoneKnown`), and a device that has read its own change has dropped the edit (`OwnRead`): the page
  and the acknowledgements are applied in one step.
- What a device has applied is the log up to its cursor (`LogRead`).
- A request, in time or late, is a part of the list that starts among recorded edits (`ReqFits`,
  `LateFits`). An answer goes on in the log where its device's cursor is and names the first edits of
  the outbox, among them each one whose change is on its page (`RepliesFit`). That holds because one
  request per device is waited for, and it has at most one batch recorded that the device does
  not know of (`InReach`).
- Every edit was based on a revision the device had read up to plus the number of its own edits of the
  record still queued (`Based`).

The step that needs an idea is `BaseCovers`. An edit whose base is the record's current revision is the
one that replaces candidates. Between the revision its device knew and that base lie exactly as many
revisions as it had queued edits of the record; each of those edits is recorded, in that interval, and no two at the
same revision (`OneRevision`), so they fill the interval (`Pigeons`) and nobody else's edit is in it. The
same counting shows that no base lies in the future. `NoRefusals` has a hypothesis the other theorems do
without, `EditsFit`: no record has more edits planned than it has room for candidates, which
devices that never meet cannot see to on their own. `RefusedForRoom` says without it that
a full record is the only reason for a refusal. `DevicesReadTheLog` is the safety part of
`PullsLog`: the initial state maps to that of `PullLog` and every step to a step of it or to none. It rests on
`PageIs` (AccountStoreProofs): selecting the rows after a cursor, in a log whose cursors count up, gives
the rest of the log.

**LibrarySyncProofs.** `TablesStayConsistent`, `SeedsReplaceNoEdit`, `SeedsNeedAvailability`,
`MigrationsKeepContent`. `AccountInv` is what every writer of an account's tables keeps: one
lemma for each of scan, seed, migration and operation. It holds that an accepted operation's id
stands under one change (`OneEffect`), which says nothing of seeds: their ids are no
operations', and a migration writes a seed again under its id. `HandlerInv` is what a handler may
rely on between its steps: the record it found is either the current one or has an older
revision, and the id of its operation is nobody's candidate and under no change yet
(`KnownIds`). It is why a migration that compares revisions and looks up the operation's id
inside its transaction changes what it has read and nothing else.

**AccountsProofs.** `AlwaysAdministered`, `AdministeredForEver`, `SetupSucceedsOnce`, `SessionsEndInTime`,
`InvitesMakeOneAccount`, `LibrariesAreSafe`, `GrantsNameLibraries`. A handler past its role check may act for
an administrator who is none any more, but never while nobody is one (`RolesHeld`): that
and the count in the transaction keep an active administrator. `AlwaysAdministered` is an action property,
since a server has no administrator before setup: a step from or to a state with an administrator
leads to an active one (`AdminsRemain`: while there are any, a step leaves one).
`AdministeredForEver` says the same from the first state with an administrator on. `SetupKept` and `InvitesKept`
tie every account to the row it came from.

**FileStoreProofs.** `ListedBooksAreThere`, `RowsAreWatched`, `RowsAreOwned`,
`BackupsAreComplete`, `ScansReplaceWhole`, under the hypothesis `Commands = {}`: nobody runs owner's commands beside the
server. What the holder of `fileMu` has found stays true until it releases it (`Holding`,
one clause per step), because the others cannot change rows or objects. The hypothesis
is needed: with a command the run `command_scan` violates the first of them.

**AccountSettingsProofs.** `NoBlindWrites`, `WritesOnce`, `TrueAnswers`, `PasscodeStays`,
`SecretOrigin`. What devices know and what messages say of a document is its history at
the revision they name (`AnswersTrue`, `RequestsTrue`), and accepted writes follow one
another revision by revision (`LogFromRequests`). So a write that names the current revision
was made from the current state, and one that is stored again would have to name a
revision that is past.

**MetadataCacheProofs.** `MapAndListAgree`, `CacheKeepsBooks`, `RoomAlways`, `DecodedOnce`,
`AnswersAreTrue`. Each flight has exactly
one request that decodes for it (`FlightsFlown`), no key is cached and decoded at once
(`Apart`), and every value in the cache or in a request's hands is its key's metadata, or
nothing if the object has been missing (`ValuesTrue`). `CacheKeepsBooks` adds that the counted bytes
are the sum of the sizes in the list, whatever is moved, replaced or evicted: `Total` is a recursive
function, and what an append, a removal and a move do to it are lemmas. `RoomAlways` follows: evicting
everything makes room, so the loop that evicts ends before the list does.

**TrackingProofs.** `AcknowledgementsTrue`, `ProgressNeverLowered`. The holder of `trackingMu`
works for the connected account, on links that nobody changes but for their waiting.
A pass that is about to write holds a patch that, with what the entry has shown before, covers
what it will acknowledge (`PassInv`, `Shows`), whether or not the entry changes at the service;
only that the patch raises the entry needs a pass nobody disturbed. An edit by hand
acknowledges no more than it read under the mutex and, after its write, than is waived:
an edit that fails before it is made waives nothing (`HandInv`); and without a connected account no
automatic link has anything acknowledged (`Unconnected`).

The library's induction theorems cannot be instantiated by the provers at hand. Where a
definition recurses over a sequence (`Selected`, `Total`) the proofs use a form of induction without an
operator parameter: a set of numbers that holds 0 and n + 1 for each n it holds is all of them
(`Induction`, from the well-foundedness of `<`).

Only model-checked: liveness (`Converges`, `HandlersFinish`, `ProgressArrives`,
`EveryoneAnswered`), and of `PullsLog` that each device catches up, as the prover handles neither fairness nor
ENABLED. Every other property of a passing run is a theorem. None of the modules has a RECURSIVE operator.

## 5. Not modelled

- Pure code: archive formats and metadata parsing, feeds, JSON shapes. A book is
  the metadata it states, a request what its validator lets through.
- The OPDS proxy and the update check: a read and an HTTP call.
- Schema migrations: each is one transaction before the server starts.
- Password hashing and token derivation. A session keeps the password it was opened with.
- Reading statistics: one transaction with the log discipline of `Store.Sync` and entries
  that never change.
- Of tracking, the table of OAuth logins under way and the search proxy.
- Rate limits, restoring backups as such (`Tracking` and `Accounts` have no step that
  replaces the whole database; the effect of a restored backup on links is there), the
  scheduler and OPDS passwords.
- A second serving process on one data directory; the compose files and the documentation start one.

## 6. Where code and documentation disagree

- `seed_overwrite`. `seedBook` recognises its own earlier seed by its form and not by
  the operations table. An administrator's metadata edit that keeps the title and
  states no author has that form and is replaced by the next scan, while
  `docs/OPERATIONS.md` says that manual metadata is preserved. `migrateSharedMembership`
  does look into the table.
- `shared_book`. The administrator's edit takes a member's revision before `Sync` seeds or
  migrates that member, becomes a second candidate, and the next edit resolves the
  two without the membership field: a shared book kept out of the personal
  library appears there, while `docs/API.md` says an omitted field preserves
  membership.
- `command_scan`. `fileMu` does not reach command-line processes: a scan by `watch-add` and
  a deletion by the server can leave a row without an object, while
  `docs/OPERATIONS.md` tells owners to run `watch-add` beside the server.

Met while modelling, and not a contradiction of anything written, so there is no run:

- `migrateSharedMembership` looks for members that have a book only through the library, and
  its transaction looks again at the record's revision and the operation's id, not at that. If the member
  uploads the book or leaves the library between the two, the seed is still marked as
  outside the personal library. The comment in `libraries.go` speaks of retaining personal
  files; the file stays, only the mark is that of a shared book. `MigrationKeepsContent` is
  therefore about what is replaced and by what, not about who has the book.
- Deleting a library removes the objects that rows name at that moment. Snapshots of
  books that fell off a list earlier stay on disk.
- A change made at the tracking service between a pass's read and its write can be
  overwritten with a lower value; `NeverLowered` exempts it. Only the service could
  prevent it.
- A pass works on one book, by title. If passes are more than a minute apart, a book
  whose update keeps failing is due again each time, and books behind it wait.
- Saving the tracker of a series relinks the books that are settled and not deleted;
  others keep their link to the old entry.
- The metadata cache takes keys for immutable. If an object is deleted between the look at
  the disk and the decoding, empty metadata is cached, and it is what a later upload of the
  same book gets until it is evicted. `AnswersTrue` therefore allows nothing for an object
  that has been missing.
- A decoding that panicked would leave its flight, and whoever waits for it, for ever;
  `MetadataCache` has decodings that end.

## 7. Plan

Done: record synchronisation, since every client's data goes through it; the devices;
shared libraries, where several writers meet; files and backups; accounts; settings;
tracking; the metadata cache; and the proofs of section 4. What a next step would add:

1. `StatisticsSync`: `statistics.go`, with `PullLog` as its abstract specification again.
2. The table of OAuth logins (`tracking_oauth.go`): states that expire, are claimed by the
   session that began them and used once.
3. `LoginLimiter` (`http.go`), OPDS passwords in `Accounts`, a module `BackupRestore`, and
   `ScanScheduler`.
4. `PullLog` as what the accounts of LibrarySync promise their devices too.
