----------------------------- MODULE FileStore -----------------------------
(***************************************************************************)
(* The book files the server manages: rows of the files table, which make  *)
(* a book available, and the snapshot objects on disk they stand for.      *)
(* Uploads, deletions, scans of watched folders, removal of a watch or a   *)
(* library and backups change or read both; they hold fileMu while they    *)
(* do.  A row and its object are changed by different steps, each step is  *)
(* one database transaction or one file operation, and a handler can stop  *)
(* between any two of them (an error, a client that hangs up, a crash).    *)
(*                                                                         *)
(* Commands are handlers that run in a command-line process beside the     *)
(* server: they use the same database and directory, and a mutex of their  *)
(* own.  What a scan seeds into records is LibrarySync's subject.          *)
(***************************************************************************)
EXTENDS Integers, FiniteSets

CONSTANTS Users,      \* accounts that own files
          Libraries,  \* those that stand for a shared library
          Books,      \* content hashes
          Paths,      \* places of a book in a watched folder
          Watches,    \* ids of watched folders, each drawn once
          Requests,   \* handlers that run at the same time
          Commands,   \* those that run in a command-line process
          Gone,       \* a watch that was removed
          None        \* nothing: no handler, no watch yet, no file

ASSUME FileAssumption ==
  /\ Libraries \subseteq Users
  /\ Commands \subseteq Requests
  /\ None \notin Users \cup Books \cup Requests
  /\ Gone \notin Users \cup {None}

VARIABLES users,     \* accounts with a row in users
          uploads,   \* files rows of kind "upload"
          watched,   \* files rows of kind "watch"
          watches,   \* the account of each watch_roots row
          statuses,  \* watches with a row in scan_status
          objects,   \* snapshots on disk
          source,    \* each watched folder now, None while it is missing
          mu,        \* the holder of the server's fileMu
          proc       \* the running handlers

tables == <<users, uploads, watched, watches, statuses>>
vars == <<tables, objects, source, mu, proc>>

Object == [user : Users, book : Books]
WatchRow == [user : Users, book : Books, watch : Watches, path : Paths]
Item == [path : Paths, book : Books]

Obj(u, b) == [user |-> u, book |-> b]

(* A handler: what it does for whom, how far it is, what it has collected  *)
(* (the files of a scan) and what it has still to visit.                   *)
Call(op, u, b, w) ==
  [op |-> op, pc |-> "lock", user |-> u, book |-> b, watch |-> w,
   items |-> {}, todo |-> {}]

Handler ==
  [op : {"upload", "delete", "scan", "unwatch", "unlist", "backup"},
   pc : {"lock", "locked", "write", "remove", "walk", "commit", "report"},
   user : Users \cup {None}, book : Books \cup {None}, watch : Watches \cup {None},
   items : SUBSET Item, todo : SUBSET (Paths \cup Object)]

TypeOK ==
  /\ users \subseteq Users
  /\ uploads \subseteq Object
  /\ watched \subseteq WatchRow
  /\ watches \in [Watches -> Users \cup {None, Gone}]
  /\ statuses \subseteq Watches
  /\ objects \subseteq Object
  /\ source \in [Watches -> [Paths -> Books \cup {None}] \cup {None}]
  /\ mu \in Requests \cup {None}
  /\ proc \in [Requests -> Handler \cup {None}]

Init ==
  /\ users = Users
  /\ uploads = {} /\ watched = {} /\ statuses = {} /\ objects = {}
  /\ watches = [w \in Watches |-> None]
  /\ source \in [Watches -> [Paths -> Books \cup {None}]]
  /\ mu = None
  /\ proc = [p \in Requests |-> None]

(* The files rows name these objects. *)
Referenced == uploads \cup {Obj(r.user, r.book) : r \in watched}

-----------------------------------------------------------------------------
(* Handlers and the mutex                                                  *)

At(p, op, pc) == proc[p] # None /\ proc[p].op = op /\ proc[p].pc = pc

Goto(p, pc) == proc' = [proc EXCEPT ![p].pc = pc] /\ UNCHANGED mu

Release(p) == mu' = IF mu = p THEN None ELSE mu

(* The handler returns; its deferred Unlock runs. *)
Return(p) == proc' = [proc EXCEPT ![p] = None] /\ Release(p)

(* A failed scan is still reported, after the mutex is released. *)
Report(p) == proc' = [proc EXCEPT ![p].pc = "report"] /\ Release(p)

Start(p, call) ==
  /\ proc[p] = None
  /\ proc' = [proc EXCEPT ![p] = call]
  /\ UNCHANGED <<objects, source, mu>>

(* Mutant: nothing is excluded. *)
LockShared(p) ==
  /\ proc[p] # None /\ proc[p].pc = "lock"
  /\ proc' = [proc EXCEPT ![p].pc = "locked"]
  /\ UNCHANGED <<tables, objects, source, mu>>

Lock(p) ==
  /\ proc[p] # None /\ proc[p].pc = "lock"
  /\ p \notin Commands => mu = None
  /\ mu' = IF p \in Commands THEN mu ELSE p
  /\ proc' = [proc EXCEPT ![p].pc = "locked"]
  /\ UNCHANGED <<tables, objects, source>>

(* The body ends early, a statement fails or the process dies. *)
Stop(p) ==
  /\ proc[p] # None
  /\ Return(p)
  /\ UNCHANGED <<tables, objects, source>>

-----------------------------------------------------------------------------
(* Uploads                                                                 *)

Upload(p, u, b) ==
  /\ u \in users
  /\ Start(p, Call("upload", u, b, None))
  /\ UNCHANGED tables

(* The whole body arrived and has the promised hash. *)
Stage(p) ==
  /\ At(p, "upload", "locked")
  /\ objects' = objects \cup {Obj(proc[p].user, proc[p].book)}
  /\ Goto(p, "write")
  /\ UNCHANGED <<tables, source>>

(* Mutant: the row does not refer to users. *)
UploadRowUnchecked(p) ==
  /\ At(p, "upload", "write")
  /\ uploads' = uploads \cup {Obj(proc[p].user, proc[p].book)}
  /\ Return(p)
  /\ UNCHANGED <<users, watched, watches, statuses, objects, source>>

(* The row refers to users: it is refused if the account is gone. *)
UploadRow(p) ==
  /\ At(p, "upload", "write")
  /\ uploads' = IF proc[p].user \in users
                THEN uploads \cup {Obj(proc[p].user, proc[p].book)} ELSE uploads
  /\ Return(p)
  /\ UNCHANGED <<users, watched, watches, statuses, objects, source>>

Delete(p, u, b) ==
  /\ u \in users
  /\ Start(p, Call("delete", u, b, None))
  /\ UNCHANGED tables

WatchedBook(u, b) == \E r \in watched : r.user = u /\ r.book = b

(* Mutants: the object goes although a watch has it too; the early return  *)
(* leaves the mutex locked.                                                *)
DeleteQueryUploads(p) ==
  /\ At(p, "delete", "locked")
  /\ LET o == Obj(proc[p].user, proc[p].book)
     IN  IF o \notin uploads THEN Return(p)
         ELSE proc' = [proc EXCEPT ![p].pc = "write", ![p].todo = {o}] /\ UNCHANGED mu
  /\ UNCHANGED <<tables, objects, source>>

DeleteQueryLocked(p) ==
  /\ At(p, "delete", "locked")
  /\ LET o == Obj(proc[p].user, proc[p].book)
     IN  IF o \notin uploads THEN proc' = [proc EXCEPT ![p] = None]
         ELSE proc' = [proc EXCEPT ![p].pc = "write",
                         ![p].todo = IF WatchedBook(o.user, o.book) THEN {} ELSE {o}]
  /\ UNCHANGED <<tables, objects, source, mu>>

(* deleteUpload counts the rows.  Without an upload there is nothing to    *)
(* delete, and a watched copy keeps the object.                            *)
DeleteQuery(p) ==
  /\ At(p, "delete", "locked")
  /\ LET o == Obj(proc[p].user, proc[p].book)
     IN  IF o \notin uploads THEN Return(p)
         ELSE /\ proc' = [proc EXCEPT ![p].pc = "write",
                            ![p].todo = IF WatchedBook(o.user, o.book) THEN {} ELSE {o}]
              /\ UNCHANGED mu
  /\ UNCHANGED <<tables, objects, source>>

DeleteRow(p) ==
  /\ At(p, "delete", "write")
  /\ uploads' = uploads \ {Obj(proc[p].user, proc[p].book)}
  /\ Goto(p, "remove")
  /\ UNCHANGED <<users, watched, watches, statuses, objects, source>>

(* Objects on the list are removed one by one, errors ignored. *)
Remove(p, o) ==
  /\ proc[p] # None /\ proc[p].pc = "remove" /\ o \in proc[p].todo
  /\ objects' = objects \ {o}
  /\ proc' = [proc EXCEPT ![p].todo = @ \ {o}]
  /\ UNCHANGED <<tables, source, mu>>

RemoveDone(p) ==
  /\ proc[p] # None /\ proc[p].pc = "remove" /\ proc[p].todo = {}
  /\ Return(p)
  /\ UNCHANGED <<tables, objects, source>>

-----------------------------------------------------------------------------
(* Watched folders                                                         *)

(* watch-add and POST /v1/admin/watches: the folder is registered without  *)
(* the mutex, then scanned.                                                *)
AddWatch(p, w, u) ==
  /\ watches[w] = None /\ u \in users /\ source[w] # None
  /\ watches' = [watches EXCEPT ![w] = u]
  /\ Start(p, Call("scan", None, None, w))
  /\ UNCHANGED <<users, uploads, watched, statuses>>

(* The scheduler, the scan command or an administrator; the list of ids    *)
(* may be older than the removal of the watch.                             *)
Scan(p, w) ==
  /\ watches[w] # None
  /\ Start(p, Call("scan", None, None, w))
  /\ UNCHANGED tables

(* Under the mutex: the registration is read, its root must be the folder  *)
(* that was registered.                                                    *)
ScanBegin(p) ==
  /\ At(p, "scan", "locked")
  /\ LET w == proc[p].watch
     IN  IF watches[w] \in Users /\ source[w] # None
         THEN /\ proc' = [proc EXCEPT ![p].pc = "walk", ![p].user = watches[w],
                                      ![p].todo = Paths]
              /\ UNCHANGED mu
         ELSE Report(p)
  /\ UNCHANGED <<tables, objects, source>>

(* One file of the walk is copied into a snapshot.  Comparing the file     *)
(* before and after makes the copy one step: a file that changed under it  *)
(* fails the scan.                                                         *)
ScanFile(p, path) ==
  /\ At(p, "scan", "walk") /\ path \in proc[p].todo
  /\ LET w == proc[p].watch
         u == proc[p].user
     IN  /\ source[w] # None
         /\ LET found == {b \in Books : b = source[w][path]}
            IN  /\ objects' = objects \cup {Obj(u, b) : b \in found}
                /\ proc' = [proc EXCEPT ![p].todo = @ \ {path},
                      ![p].items = @ \cup {[path |-> path, book |-> b] : b \in found}]
  /\ UNCHANGED <<tables, source, mu>>

(* The root is still the registered one after the walk. *)
ScanVerify(p) ==
  /\ At(p, "scan", "walk") /\ proc[p].todo = {}
  /\ source[proc[p].watch] # None
  /\ Goto(p, "commit")
  /\ UNCHANGED <<tables, objects, source>>

(* Mutant: a failed scan commits what it has found so far. *)
ScanFailPartial(p) ==
  /\ \E pc \in {"walk", "commit"} : At(p, "scan", pc)
  /\ LET w == proc[p].watch
         u == proc[p].user
     IN  watched' = {r \in watched : r.watch # w}
                      \cup {[user |-> u, book |-> i.book, watch |-> w, path |-> i.path] :
                              i \in proc[p].items}
  /\ Report(p)
  /\ UNCHANGED <<users, uploads, watches, statuses, objects, source>>

(* A file that cannot be read, the missing folder, or a failed statement. *)
ScanFail(p) ==
  /\ \E pc \in {"walk", "commit"} : At(p, "scan", pc)
  /\ Report(p)
  /\ UNCHANGED <<tables, objects, source>>

RowsOf(w, u) == {r \in watched : r.watch = w /\ r.user = u}

(* One transaction replaces the rows of the watch by the files found. *)
ScanCommit(p) ==
  /\ At(p, "scan", "commit")
  /\ proc[p].items # {} => proc[p].user \in users
  /\ LET w == proc[p].watch
         u == proc[p].user
     IN  watched' = (watched \ RowsOf(w, u))
                      \cup {[user |-> u, book |-> i.book, watch |-> w, path |-> i.path] :
                              i \in proc[p].items}
  /\ Report(p)
  /\ UNCHANGED <<users, uploads, watches, statuses, objects, source>>

ScanReport(p) ==
  /\ At(p, "scan", "report")
  /\ statuses' = statuses \cup {proc[p].watch}
  /\ Return(p)
  /\ UNCHANGED <<users, uploads, watched, watches, objects, source>>

Unwatch(p, w) ==
  /\ watches[w] # None
  /\ Start(p, Call("unwatch", None, None, w))
  /\ UNCHANGED tables

(* RemoveWatch's transaction; the snapshots stay. *)
UnwatchTx(p) ==
  /\ At(p, "unwatch", "locked")
  /\ LET w == proc[p].watch
     IN  IF watches[w] \in Users
         THEN /\ watched' = watched \ RowsOf(w, watches[w])
              /\ statuses' = statuses \ {w}
              /\ watches' = [watches EXCEPT ![w] = Gone]
         ELSE UNCHANGED <<watched, statuses, watches>>
  /\ Return(p)
  /\ UNCHANGED <<users, uploads, objects, source>>

-----------------------------------------------------------------------------
(* Deleting a library                                                      *)

Unlist(p, u) ==
  /\ u \in users
  /\ Start(p, Call("unlist", u, None, None))
  /\ UNCHANGED tables

(* deleteLibrary's transaction: everything of the owner goes, then the     *)
(* objects the rows named.                                                 *)
UnlistTx(p) ==
  /\ At(p, "unlist", "locked")
  /\ LET u == proc[p].user
     IN  IF u \in users
         THEN /\ users' = users \ {u}
              /\ uploads' = {o \in uploads : o.user # u}
              /\ watched' = {r \in watched : r.user # u}
              /\ statuses' = {w \in statuses : watches[w] # u}
              /\ watches' = [w \in Watches |-> IF watches[w] = u THEN Gone ELSE watches[w]]
              /\ proc' = [proc EXCEPT ![p].pc = "remove",
                                      ![p].todo = {o \in Referenced : o.user = u}]
              /\ UNCHANGED mu
         ELSE Return(p) /\ UNCHANGED tables
  /\ UNCHANGED <<objects, source>>

-----------------------------------------------------------------------------
(* Backup                                                                  *)

Backup(p) ==
  /\ \A q \in Requests : proc[q] # None => proc[q].op # "backup"
  /\ Start(p, Call("backup", None, None, None))
  /\ UNCHANGED tables

(* Mutant: file mutations go on while the objects are copied. *)
SnapshotUnlocked(p) ==
  /\ At(p, "backup", "locked")
  /\ proc' = [proc EXCEPT ![p].pc = "write", ![p].todo = Referenced]
  /\ Release(p)
  /\ UNCHANGED <<tables, objects, source>>

(* VACUUM INTO a snapshot; the objects it refers to are copied after it. *)
Snapshot(p) ==
  /\ At(p, "backup", "locked")
  /\ proc' = [proc EXCEPT ![p].pc = "write", ![p].todo = Referenced]
  /\ UNCHANGED <<tables, objects, source, mu>>

CopyObject(p, o) ==
  /\ At(p, "backup", "write") /\ o \in proc[p].todo
  /\ IF o \in objects THEN proc' = [proc EXCEPT ![p].todo = @ \ {o}] /\ UNCHANGED mu
     ELSE Return(p)
  /\ UNCHANGED <<tables, objects, source>>

BackupDone(p) ==
  /\ At(p, "backup", "write") /\ proc[p].todo = {}
  /\ Return(p)
  /\ UNCHANGED <<tables, objects, source>>

-----------------------------------------------------------------------------

(* Somebody changes, unmounts or mounts a watched folder. *)
SourceChanges(w) ==
  /\ source' \in {[source EXCEPT ![w] = s] : s \in [Paths -> Books \cup {None}] \cup {None}}
  /\ source' # source
  /\ UNCHANGED <<tables, objects, mu, proc>>

(* What a handler does once it runs and nothing goes wrong. *)
Progress(p) ==
  \/ Stage(p) \/ UploadRow(p)
  \/ DeleteQuery(p) \/ DeleteRow(p)
  \/ (\E o \in Object : Remove(p, o)) \/ RemoveDone(p)
  \/ ScanBegin(p) \/ (\E path \in Paths : ScanFile(p, path)) \/ ScanVerify(p)
  \/ ScanCommit(p) \/ ScanReport(p)
  \/ UnwatchTx(p) \/ UnlistTx(p)
  \/ Snapshot(p) \/ (\E o \in Object : CopyObject(p, o)) \/ BackupDone(p)

Step(p) == Progress(p) \/ ScanFail(p)

Arrive(p) ==
  \/ \E w \in Watches : \/ \E u \in Users : AddWatch(p, w, u)
                        \/ Scan(p, w) \/ Unwatch(p, w)
  \/ /\ p \notin Commands
     /\ \/ \E u \in Users, b \in Books : Upload(p, u, b) \/ Delete(p, u, b)
        \/ \E u \in Libraries : Unlist(p, u)
        \/ Backup(p)

Next ==
  \/ \E p \in Requests : Arrive(p) \/ Lock(p) \/ Step(p) \/ Stop(p)
  \/ \E w \in Watches : SourceChanges(w)

Spec == Init /\ [][Next]_vars

(* A handler that runs goes on, and sync.Mutex starves nobody. *)
Fairness == \A p \in Requests : WF_vars(Step(p)) /\ SF_vars(Lock(p))

FairSpec == Spec /\ Fairness

-----------------------------------------------------------------------------
(* Properties                                                              *)

(* A listed book can be downloaded: every row of files has its object, at  *)
(* every moment, however uploads, deletions, scans and stops interleave.   *)
RowsHaveObjects == Referenced \subseteq objects

(* A row of a watch belongs to a registered watch of the same account.     *)
(* Otherwise nobody could take the book off the list: it is no upload, and *)
(* no scan or removal of a watch reaches it.                               *)
RowsHaveWatch == \A r \in watched : watches[r.watch] = r.user

(* No row outlives its account. *)
RowsHaveUser == \A o \in Referenced : o.user \in users

(* A backup that has taken its database snapshot finds every object the    *)
(* snapshot refers to.                                                     *)
BackupComplete ==
  \A p \in Requests : At(p, "backup", "write") => proc[p].todo \subseteq objects

(* The catalogue of a watch changes all at once: it is emptied with the    *)
(* registration, or replaced by files that were all snapshotted before.    *)
(* Failed scans keep the previous one.                                     *)
CatalogueReplacedWhole ==
  [][\A w \in Watches :
       LET now == {r \in watched : r.watch = w}
           next == {r \in watched' : r.watch = w}
       IN  next # now =>
             \/ next = {} /\ watches'[w] = Gone
             \/ \E p \in Requests :
                  /\ At(p, "scan", "commit") /\ proc[p].watch = w
                  /\ proc'[p].pc = "report"
                  /\ {[path |-> r.path, book |-> r.book] : r \in next} = proc[p].items
                  /\ \A r \in next : Obj(r.user, r.book) \in objects]_watched

(* Every handler comes to its end: no path leaves fileMu locked.           *)
HandlersFinish == \A p \in Requests : proc[p] # None ~> proc[p] = None
=============================================================================
