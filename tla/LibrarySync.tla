---------------------------- MODULE LibrarySync ----------------------------
(***************************************************************************)
(* One shared library with one book, its owning account and its members.   *)
(* Every account has its own AccountStore tables; besides the operations   *)
(* of devices, the server itself writes them: a scan seeds the owner's     *)
(* record, Store.Sync seeds and migrates a member's before it looks at the *)
(* request, and an administrator's metadata edit is synchronised into the  *)
(* owner's account and then, one by one, into every member's.              *)
(*                                                                         *)
(* A handler is a process that runs one committed transaction, or one      *)
(* query outside a transaction, per step: the single database connection   *)
(* makes those atomic and nothing else.  A failed transaction has no       *)
(* effect, so it is the same as the handler stopping there (Stop).         *)
(***************************************************************************)
EXTENDS AccountStore, FiniteSets

CONSTANTS Owner, Members,  \* accounts
          Book,            \* the record (book, "book", "default")
          LongIds,         \* ids of 64 characters, the form of randomID
          Edits,           \* what devices submit: [id, deleted, value]
          AdminValues,     \* values of the administrator's metadata edits
          FileTitle,       \* the watched file's name, a scan's default title
          Untitled,        \* sharedSeeds' default title
          NoText,          \* the empty title or author
          Parsed,          \* title and author the book itself states
          ScanFolders,     \* folders the watched file may lie in
          LegacySeeds,     \* member records written before shared membership
          Requests,        \* handlers that run at the same time
          None             \* no handler, no operation, nothing found

Accounts == {Owner} \cup Members

ASSUME LibraryAssumption ==
  /\ Owner \notin Members
  /\ Book \in BookKeys
  /\ LongIds \subseteq OpIds
  /\ Parsed \in Bodies
  /\ \A b \in Bodies, t \in {FileTitle, Untitled} :
       b.title = NoText => [b EXCEPT !.title = t] \in Bodies
  /\ Edits \subseteq [id : OpIds, deleted : BOOLEAN, value : Values]
  /\ AdminValues \subseteq Values
  /\ ScanFolders \subseteq Folders \cup {NoFolder}
  /\ LegacySeeds \subseteq Candidate
  /\ None \notin Operation

VARIABLES db,       \* the tables of each account
          files,    \* accounts with a file row for the book
          members,  \* accounts in library_members
          used,     \* ids handed out so far: none is handed out twice
          proc      \* the running handlers

vars == <<db, files, members, used, proc>>

(* A running handler: where it is, the account it synchronises now, the    *)
(* operation it carries (None for a pull), what its last query returned,   *)
(* and the accounts an administrator's edit has still to reach.            *)
Call(u, op, todo) ==
  [pc |-> "migrate", user |-> u, op |-> op, found |-> None, todo |-> todo]

Goto(p, pc, found) == proc' = [proc EXCEPT ![p].pc = pc, ![p].found = found]

Handler == [pc : {"migrate", "migrateTx", "seed", "seedTx", "sync", "members", "next"},
            user : Accounts, op : Operation \cup {None}, found : Record \cup {None},
            todo : SUBSET Members]

TypeOK ==
  /\ db \in [Accounts -> DB]
  /\ files \subseteq Accounts /\ members \subseteq Members /\ used \subseteq OpIds
  /\ proc \in [Requests -> Handler \cup {None}]

Rec(u) == db[u].records[Book]

Shared(u) == u \in members /\ Owner \in files

Init ==
  /\ \E seeds \in [Members -> LegacySeeds \cup {None}] :
       LET legacy(u) == u # Owner /\ seeds[u] # None
           old(u) == [revision |-> 1, candidates |-> <<seeds[u]>>]
       IN  /\ db = [u \in Accounts |-> IF legacy(u) THEN Write(EmptyDB, Book, old(u))
                                       ELSE EmptyDB]
           /\ used = {seeds[u].op : u \in {m \in Members : seeds[m] # None}}
  /\ files = {}
  /\ members = {}
  /\ proc = [p \in Requests |-> None]

-----------------------------------------------------------------------------
(* Seeds                                                                   *)

(* A sole candidate that looks like an automatic seed with this title. *)
LooksSeeded(r, title) ==
  /\ Sole(r)
  /\ r.candidates[1].op \in LongIds
  /\ r.candidates[1].value.body.title = title
  /\ r.candidates[1].value.body.author = NoText

(* The value seeded from metadata; folder None where no scan names one. *)
SeedValue(title, meta, folder) ==
  LET named == IF meta.body.title = NoText THEN [meta.body EXCEPT !.title = title]
               ELSE meta.body
      base == [meta EXCEPT !.body = named,
                 !.folder = IF meta.folder \in Folders THEN meta.folder ELSE Absent]
      placed == IF folder = None THEN base
                ELSE [base EXCEPT !.folders = Absent,
                                  !.folder = IF folder = NoFolder THEN @ ELSE folder]
  IN  canonicalBookFolders(placed, Blank(named))

seedBook(d, id, title, meta, folder) ==
  LET r == d.records[Book]
      value == SeedValue(title, meta, folder)
      blocked == /\ r.revision > 0
                 /\ \/ ~LooksSeeded(r, title)
                    \/ meta.body.title = NoText /\ meta.body.author = NoText
                    \/ r.candidates[1].value = value
  IN  IF blocked THEN d
      ELSE Write(d, Book, [revision |-> r.revision + 1,
                           candidates |-> <<[op |-> id, deleted |-> FALSE,
                                             value |-> value]>>])

(* ScanWatch finds the book in a folder of the owner's watch: the file row *)
(* and the seed are one transaction.                                       *)
Scan(folder, id) ==
  /\ files' = files \cup {Owner}
  /\ db' = [db EXCEPT ![Owner] = seedBook(@, id, FileTitle, Blank(Parsed), folder)]
  /\ used' = used \cup {id}
  /\ UNCHANGED <<members, proc>>

(* A scan that no longer finds it, or a deleted upload; a member's upload. *)
Gone(u) ==
  /\ files' = files \ {u}
  /\ UNCHANGED <<db, members, used, proc>>

Upload(u) ==
  /\ files' = files \cup {u}
  /\ UNCHANGED <<db, members, used, proc>>

Join(u) ==
  /\ members' = members \cup {u}
  /\ UNCHANGED <<db, files, used, proc>>

Leave(u) ==
  /\ members' = members \ {u}
  /\ UNCHANGED <<db, files, used, proc>>

-----------------------------------------------------------------------------
(* Store.Sync of account u, with the steps of sharedSeeds before it        *)

(* A device of u pulls, or submits an edit based on any revision so far. *)
Pull(p, u) ==
  /\ proc[p] = None
  /\ proc' = [proc EXCEPT ![p] = Call(u, None, {})]
  /\ UNCHANGED <<db, files, members, used>>

Submit(p, u, e, base) ==
  /\ proc[p] = None
  /\ e.id \notin used
  /\ used' = used \cup {e.id}
  /\ proc' = [proc EXCEPT ![p] = Call(u, [id |-> e.id, key |-> Book, base |-> base,
                                          deleted |-> e.deleted, value |-> e.value], {})]
  /\ UNCHANGED <<db, files, members>>

(* Mutant: the query takes any automatic seed, migrated or not. *)
MigrateQueryAny(p) ==
  /\ proc[p] # None /\ proc[p].pc = "migrate"
  /\ LET u == proc[p].user
         old == /\ Rec(u).revision > 0 /\ u \notin files /\ Shared(u)
                /\ Sole(Rec(u)) /\ Rec(u).candidates[1].op \in LongIds
     IN  Goto(p, "migrateTx", IF old THEN Rec(u) ELSE None)
  /\ UNCHANGED <<db, files, members, used>>

(* migrateSharedMembership's query: the record of a book the account has   *)
(* only through the library, if it is an old seed without membership.      *)
MigrateQuery(p) ==
  /\ proc[p] # None /\ proc[p].pc = "migrate"
  /\ LET u == proc[p].user
         r == Rec(u)
         old == /\ r.revision > 0 /\ u \notin files /\ Shared(u)
                /\ Sole(r) /\ r.candidates[1].op \in LongIds
                /\ r.candidates[1].value.inLibrary = Absent
     IN  Goto(p, "migrateTx", IF old THEN r ELSE None)
  /\ UNCHANGED <<db, files, members, used>>

(* Mutant: the migrated record keeps its revision. *)
MigratedInPlace(r) ==
  [r EXCEPT !.candidates = <<[r.candidates[1] EXCEPT !.value.inLibrary = FALSE]>>]

Migrated(r) ==
  [revision |-> r.revision + 1,
   candidates |-> <<[r.candidates[1] EXCEPT !.value.inLibrary = FALSE]>>]

(* Mutant: written whatever happened to the record since. *)
MigrateTxBlind(p) ==
  /\ proc[p] # None /\ proc[p].pc = "migrateTx"
  /\ LET u == proc[p].user
         r == proc[p].found
     IN  db' = IF r # None /\ Recorded(db[u], r.candidates[1].op) = {}
               THEN [db EXCEPT ![u] = Write(@, Book, Migrated(r))] ELSE db
  /\ Goto(p, "seed", None)
  /\ UNCHANGED <<files, members, used>>

(* Mutant: whether the id is that of an operation is not looked up. *)
MigrateTxAnyId(p) ==
  /\ proc[p] # None /\ proc[p].pc = "migrateTx"
  /\ LET u == proc[p].user
         r == proc[p].found
     IN  db' = IF r # None /\ Rec(u).revision = r.revision
               THEN [db EXCEPT ![u] = Write(@, Book, Migrated(r))] ELSE db
  /\ Goto(p, "seed", None)
  /\ UNCHANGED <<files, members, used>>

(* Its transaction: skipped if a client's operation has that id, or if the *)
(* record is no longer at the revision the query saw.                      *)
MigrateTx(p) ==
  /\ proc[p] # None /\ proc[p].pc = "migrateTx"
  /\ LET u == proc[p].user
         r == proc[p].found
     IN  db' = IF /\ r # None
                  /\ Recorded(db[u], r.candidates[1].op) = {}
                  /\ Rec(u).revision = r.revision
               THEN [db EXCEPT ![u] = Write(@, Book, Migrated(r))] ELSE db
  /\ Goto(p, "seed", None)
  /\ UNCHANGED <<files, members, used>>

(* sharedSeeds' query: the book is shared with the account, which has no   *)
(* record of it.  The book's metadata is decoded after it, without a lock. *)
SeedQuery(p) ==
  /\ proc[p] # None /\ proc[p].pc = "seed"
  /\ LET u == proc[p].user
     IN  Goto(p, "seedTx", IF Shared(u) /\ Rec(u).revision = 0 THEN Rec(u) ELSE None)
  /\ UNCHANGED <<db, files, members, used>>

(* What a member's seed says: the owner's settled value over the parsed    *)
(* metadata, and out of the personal library.                              *)
SharedMeta ==
  [IF Sole(Rec(Owner)) THEN Rec(Owner).candidates[1].value ELSE Blank(Parsed)
     EXCEPT !.inLibrary = FALSE]

(* Mutant: seeded although the book may no longer be shared. *)
SeedTxUnchecked(p, id) ==
  /\ proc[p] # None /\ proc[p].pc = "seedTx" /\ proc[p].found # None
  /\ db' = [db EXCEPT ![proc[p].user] = seedBook(@, id, Untitled, SharedMeta, None)]
  /\ used' = used \cup {id}
  /\ Goto(p, "sync", None)
  /\ UNCHANGED <<files, members>>

SeedTx(p, id) ==
  /\ proc[p] # None /\ proc[p].pc = "seedTx"
  /\ LET u == proc[p].user
     IN  IF proc[p].found # None /\ Shared(u)
         THEN /\ db' = [db EXCEPT ![u] = seedBook(@, id, Untitled, SharedMeta, None)]
              /\ used' = used \cup {id}
         ELSE UNCHANGED <<db, used>>
  /\ Goto(p, "sync", None)
  /\ UNCHANGED <<files, members>>

(* The transaction of Store.Sync proper.  An administrator's edit goes on  *)
(* from the owner to the members unless the operation was refused.         *)
SyncTx(p) ==
  /\ proc[p] # None /\ proc[p].pc = "sync"
  /\ LET u == proc[p].user
         op == proc[p].op
         refused == op # None /\ Refused(db[u], op)
     IN  /\ db' = IF op = None \/ refused THEN db
                  ELSE [db EXCEPT ![u] = Applied(@, op)]
         /\ proc' = [proc EXCEPT ![p] =
                       IF refused \/ proc[p].todo = {} THEN None
                       ELSE [@ EXCEPT !.pc = IF u = Owner THEN "members" ELSE "next"]]
  /\ UNCHANGED <<files, members, used>>

-----------------------------------------------------------------------------
(* PUT /v1/admin/libraries/{library}/books/{id}/metadata                   *)

(* The owner's revision is read, then the edit is synchronised.  Accounts  *)
(* that are to follow are only known later; Members stands for them here.  *)
AdminEdit(p, id, value) ==
  /\ proc[p] = None
  /\ Owner \in files
  /\ used' = used \cup {id}
  /\ proc' = [proc EXCEPT ![p] =
                Call(Owner, [id |-> id, key |-> Book, base |-> Rec(Owner).revision,
                             deleted |-> FALSE, value |-> value], Members)]
  /\ UNCHANGED <<db, files, members>>

AdminMembers(p) ==
  /\ proc[p] # None /\ proc[p].pc = "members"
  /\ proc' = [proc EXCEPT ![p] = IF members = {} THEN None
                                 ELSE [@ EXCEPT !.todo = members, !.pc = "next"]]
  /\ UNCHANGED <<db, files, members, used>>

(* The next member: its revision is read, the membership field dropped and *)
(* a new id drawn.                                                         *)
AdminNext(p, u, id) ==
  /\ proc[p] # None /\ proc[p].pc = "next"
  /\ u \in proc[p].todo
  /\ used' = used \cup {id}
  /\ proc' = [proc EXCEPT ![p] =
                Call(u, [proc[p].op EXCEPT !.id = id, !.base = Rec(u).revision,
                                           !.value.inLibrary = Absent],
                     proc[p].todo \ {u})]
  /\ UNCHANGED <<db, files, members>>

(* The client hangs up, a statement fails, the process is restarted. *)
Stop(p) ==
  /\ proc[p] # None
  /\ proc' = [proc EXCEPT ![p] = None]
  /\ UNCHANGED <<db, files, members, used>>

(* randomID never repeats; which new id it draws makes no difference. *)
NewIds == IF LongIds \subseteq used THEN {} ELSE {CHOOSE id \in LongIds : id \notin used}

Next ==
  \/ \E id \in NewIds : \/ \E folder \in ScanFolders : Scan(folder, id)
                        \/ \E p \in Requests : SeedTx(p, id)
                        \/ \E p \in Requests, v \in AdminValues : AdminEdit(p, id, v)
                        \/ \E p \in Requests, u \in Members : AdminNext(p, u, id)
  \/ \E u \in Accounts : Gone(u)
  \/ \E u \in Members : Upload(u) \/ Join(u) \/ Leave(u)
  \/ \E p \in Requests :
       \/ \E u \in Accounts : Pull(p, u)
       \/ \E u \in Accounts, e \in Edits : \E base \in 0 .. Rec(u).revision :
            Submit(p, u, e, base)
       \/ MigrateQuery(p) \/ MigrateTx(p) \/ SeedQuery(p) \/ SyncTx(p)
       \/ AdminMembers(p) \/ Stop(p)

Spec == Init /\ [][Next]_vars

-----------------------------------------------------------------------------
(* Properties                                                              *)

(* Devices, the administrator, seeds and migrations write the same tables  *)
(* by different code, and a migration writes under an id that is already   *)
(* in the log.  In every account the change log still agrees with the      *)
(* records, no record exceeds the candidate limit, and the id of an        *)
(* accepted operation has made exactly one change: only what is no         *)
(* operation, an automatic seed, is written again under its id, although   *)
(* an administrator's edit of a member's record may have the form of one   *)
(* (64 characters, no membership field).                                   *)
StoresConsistent ==
  \A u \in Accounts : LogMatchesRecords(db[u]) /\ Capacity(db[u]) /\ OneEffect(db[u])

(* An edit that has the form of an automatic seed: a long id, a default    *)
(* title and no author.                                                    *)
LooksLikeSeed(op) ==
  /\ op.id \in LongIds /\ ~op.deleted
  /\ op.value.body.title \in {FileTitle, Untitled}
  /\ op.value.body.author = NoText

(* Seeding and migration use what earlier queries returned, while devices  *)
(* and the administrator edit the same record.  An edit that a person made *)
(* is never replaced by them unless it looks like a seed itself.           *)
EditsSurviveSeeds ==
  \A u \in Accounts : \A e \in db[u].operations :
    ~LooksLikeSeed(e.op) => Present(db[u], e) \/ Resolved(db[u], e)

(* OPERATIONS.md on scans: later user organization, manual metadata and    *)
(* deletion records are preserved.  So no accepted edit of the owner is    *)
(* replaced by a later scan, whatever its id and title.                    *)
ScansKeepManualMetadata ==
  \A e \in db[Owner].operations : Present(db[Owner], e) \/ Resolved(db[Owner], e)

(* Membership or availability may change while metadata is decoded: an     *)
(* account gets a seed only while the library gives it the book.           *)
SeedsOnlyAvailable ==
  [][\A u \in Members :
       /\ Rec(u).revision = 0 /\ db'[u].records[Book].revision > 0
       /\ db'[u].operations = db[u].operations
       => Shared(u)]_db

(* API.md on inLibrary: shared-library seeds set it to false, adding a     *)
(* shared book sets it to true, and an omitted field preserves existing    *)
(* membership.  So a book that is kept out of a member's personal library  *)
(* stays out while nobody sets the field or deletes the record.            *)
KeptOut(r) ==
  /\ r.candidates # <<>>
  /\ \A i \in 1 .. Len(r.candidates) :
       ~r.candidates[i].deleted /\ r.candidates[i].value.inLibrary = FALSE

SharedBookStaysOut ==
  [][\A u \in Members :
       LET made == db'[u].operations \ db[u].operations
       IN  /\ KeptOut(Rec(u))
           /\ \A e \in made : ~e.op.deleted /\ e.op.value.inLibrary = Absent
           => KeptOut(db'[u].records[Book])]_db

(* migrateSharedMembership: untouched automatic seeds are upgraded, user   *)
(* edits retained.  Its query may be out of date when it writes; whatever  *)
(* it then replaces by a candidate of the same id is still a seed that is  *)
(* no operation's and says nothing of membership, and only gains the       *)
(* field.                                                                  *)
MigrationKeepsContent ==
  [][\A u \in Members :
       LET old == Rec(u)
           new == db'[u].records[Book]
       IN  /\ new # old /\ Len(new.candidates) = 1
           /\ Sole(old) /\ new.candidates[1].op = old.candidates[1].op
           => /\ old.candidates[1].value.inLibrary = Absent
              /\ Recorded(db[u], old.candidates[1].op) = {}
              /\ new.candidates[1].value
                   = [old.candidates[1].value EXCEPT !.inLibrary = FALSE]]_db
=============================================================================
