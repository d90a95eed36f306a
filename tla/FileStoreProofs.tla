--------------------------- MODULE FileStoreProofs ---------------------------
(***************************************************************************)
(* For any accounts, books, watched folders and requests, when no command  *)
(* runs beside the server: listed books have their objects, their accounts *)
(* and their watches, backups are complete, and the catalogue of a watch   *)
(* changes all at once.                                                    *)
(*                                                                         *)
(* The argument is the mutex: what a handler has found while it holds      *)
(* fileMu stays true until it releases it, because only the holder changes *)
(* rows and objects.  A command holds a mutex of its own, so that with one *)
(* the first property fails, as the run command_scan shows.                *)
(***************************************************************************)
EXTENDS FileStore, TLAPS

Rows ==
  /\ RowsHaveObjects /\ RowsHaveWatch /\ RowsHaveUser
  /\ \A w \in Watches : watches[w] \in Users => watches[w] \in users

WatchedObjects == {Obj(r.user, r.book) : r \in watched}

(* What the holder of the mutex may rely on, at each of its steps. *)
Holding(p) ==
  /\ mu = p
  /\ At(p, "upload", "write") => Obj(proc[p].user, proc[p].book) \in objects
  /\ At(p, "delete", "write") =>
       /\ proc[p].todo \subseteq {Obj(proc[p].user, proc[p].book)}
       /\ proc[p].todo \cap WatchedObjects = {}
  /\ proc[p].pc = "remove" => proc[p].todo \cap Referenced = {}
  /\ (At(p, "scan", "walk") \/ At(p, "scan", "commit")) =>
       /\ proc[p].user \in Users /\ watches[proc[p].watch] = proc[p].user
       /\ \A i \in proc[p].items : Obj(proc[p].user, i.book) \in objects
  /\ At(p, "backup", "write") => proc[p].todo \subseteq objects

HandlerTrue(p) ==
  proc[p] # None =>
    /\ proc[p].op \in {"upload", "delete"} => proc[p].user \in Users /\ proc[p].book \in Books
    /\ proc[p].op \in {"scan", "unwatch"} => proc[p].watch \in Watches
    /\ proc[p].pc \in {"lock", "locked"} => proc[p].items = {}
    /\ proc[p].pc \notin {"lock", "report"} => Holding(p)

Inv == TypeOK /\ Rows /\ \A p \in Requests : HandlerTrue(p)

-----------------------------------------------------------------------------
(* What the steps have in common                                           *)

LEMMA InitInv == Init => Inv
<1> SUFFICES ASSUME Init PROVE Inv
  OBVIOUS
<1>1. TypeOK
  BY DEF Init, TypeOK
<1>2. Rows
  BY FileAssumption DEF Init, Rows, RowsHaveObjects, RowsHaveWatch, RowsHaveUser, Referenced
<1>3. \A p \in Requests : HandlerTrue(p)
  BY DEF Init, HandlerTrue
<1> QED BY <1>1, <1>2, <1>3 DEF Inv

Tables ==
  /\ users \subseteq Users /\ uploads \subseteq Object /\ watched \subseteq WatchRow
  /\ watches \in [Watches -> Users \cup {None, Gone}]
  /\ statuses \subseteq Watches /\ objects \subseteq Object
  /\ source \in [Watches -> [Paths -> Books \cup {None}] \cup {None}]

(* The handler that holds the mutex takes a step: nobody else relies on    *)
(* anything.                                                               *)
LEMMA HolderStep ==
  ASSUME Inv, NEW p \in Requests, proc[p] # None, mu = p,
         NEW h \in Handler \cup {None}, proc' = [proc EXCEPT ![p] = h],
         mu' \in {p, None}, Tables', Rows', h # None => HandlerTrue(p)'
  PROVE  Inv'
<1>1. TypeOK'
  BY DEF Inv, TypeOK, Tables
<1>2. ASSUME NEW q \in Requests, q # p PROVE HandlerTrue(q)'
  <2>1. proc'[q] = proc[q]
    BY <1>2 DEF Inv, TypeOK
  <2>2. HandlerTrue(q) /\ ~Holding(q)
    BY <1>2 DEF Inv, Holding
  <2> QED BY <2>1, <2>2 DEF HandlerTrue
<1>3. HandlerTrue(p)'
  <2>1. proc'[p] = h
    BY DEF Inv, TypeOK
  <2> QED BY <2>1 DEF HandlerTrue
<1> QED BY <1>1, <1>2, <1>3 DEF Inv

(* A step that leaves rows and objects alone, and registers at most a      *)
(* watch that was not there.                                               *)
LEMMA FreeStep ==
  ASSUME Inv, NEW p \in Requests,
         NEW h \in Handler \cup {None}, proc' = [proc EXCEPT ![p] = h],
         UNCHANGED <<users, uploads, watched, objects>>, Tables',
         \A w \in Watches : watches'[w] # watches[w] =>
                              watches[w] = None /\ watches'[w] \in users,
         mu' \in Requests \cup {None},
         \A q \in Requests : q # p /\ mu = q => mu' = q,
         h # None => HandlerTrue(p)'
  PROVE  Inv'
<1>1. TypeOK'
  BY DEF Inv, TypeOK, Tables
<1>2. \A w \in Watches : watches[w] \in Users => watches'[w] = watches[w]
  BY FileAssumption DEF Inv, TypeOK
<1>3. Rows'
  <2>1. \A r \in watched : r.watch \in Watches /\ r.user \in Users
    BY DEF Inv, TypeOK, WatchRow
  <2> QED BY <1>2, <2>1 DEF Inv, Rows, RowsHaveObjects, RowsHaveWatch, RowsHaveUser, Referenced
<1>4. ASSUME NEW q \in Requests, q # p PROVE HandlerTrue(q)'
  <2>1. proc'[q] = proc[q] /\ HandlerTrue(q)
    BY <1>4 DEF Inv, TypeOK
  <2>2. Referenced' = Referenced /\ WatchedObjects' = WatchedObjects
    BY DEF Referenced, WatchedObjects
  <2>3. ASSUME Holding(q), HandlerTrue(q), proc[q] # None PROVE Holding(q)'
    <3>1. mu' = q
      BY <1>4, <2>3 DEF Holding
    <3>2. (At(q, "scan", "walk") \/ At(q, "scan", "commit")) =>
            watches'[proc[q].watch] = proc[q].user
      BY <1>2, <2>3 DEF Holding, HandlerTrue, At
    <3>3. \A op, pc : At(q, op, pc)' <=> At(q, op, pc)
      BY <2>1 DEF At
    <3> QED BY <2>1, <2>2, <2>3, <3>1, <3>2, <3>3 DEF Holding
  <2> QED BY <2>1, <2>3 DEF HandlerTrue
<1>5. HandlerTrue(p)'
  <2>1. proc'[p] = h
    BY DEF Inv, TypeOK
  <2> QED BY <2>1 DEF HandlerTrue
<1> QED BY <1>1, <1>3, <1>4, <1>5 DEF Inv

LEMMA TablesTrue == TypeOK => Tables
BY DEF TypeOK, Tables

LEMMA RowsKept == Rows /\ UNCHANGED <<users, uploads, watched, watches, objects>> => Rows'
BY DEF Rows, RowsHaveObjects, RowsHaveWatch, RowsHaveUser, Referenced

(* What the invariant says of a handler that has the mutex. *)
LEMMA Holder ==
  ASSUME Inv, NEW p \in Requests, NEW op, NEW pc, At(p, op, pc), pc \notin {"lock", "report"}
  PROVE  /\ proc[p] # None /\ proc[p] \in Handler /\ proc[p].op = op /\ proc[p].pc = pc
         /\ mu = p /\ Holding(p) /\ HandlerTrue(p) /\ Tables /\ Rows
BY TablesTrue DEF Inv, At, HandlerTrue, Holding, TypeOK

-----------------------------------------------------------------------------
(* Requests arrive and take the mutex                                      *)

LEMMA StartInv ==
  ASSUME Inv, NEW p \in Requests, NEW h \in Handler, Start(p, h), h.pc = "lock", h.items = {},
         h.op \in {"upload", "delete"} => h.user \in Users /\ h.book \in Books,
         h.op \in {"scan", "unwatch"} => h.watch \in Watches,
         UNCHANGED <<users, uploads, watched>>, Tables',
         \A w \in Watches : watches'[w] # watches[w] =>
                              watches[w] = None /\ watches'[w] \in users
  PROVE  Inv'
<1>1. proc' = [proc EXCEPT ![p] = h] /\ UNCHANGED <<objects, source, mu>>
  BY DEF Start
<1>2. proc'[p] = h
  BY <1>1 DEF Inv, TypeOK
<1>3. HandlerTrue(p)'
  BY <1>2 DEF HandlerTrue
<1> QED BY <1>1, <1>3, FreeStep DEF Inv, TypeOK

LEMMA ArriveInv ==
  ASSUME Inv, NEW p \in Requests, Arrive(p)
  PROVE  Inv'
<1>1. ASSUME NEW w \in Watches, NEW u \in Users, AddWatch(p, w, u) PROVE Inv'
  <2> DEFINE h == Call("scan", None, None, w)
  <2>1. /\ watches[w] = None /\ u \in users /\ watches' = [watches EXCEPT ![w] = u]
        /\ Start(p, h) /\ UNCHANGED <<users, uploads, watched, statuses>>
    BY <1>1 DEF AddWatch
  <2>2. h \in Handler /\ h.pc = "lock" /\ h.op = "scan" /\ h.watch = w /\ h.items = {}
    BY DEF Call, Handler
  <2>3. Tables'
    BY <2>1 DEF Inv, TypeOK, Tables, Start
  <2>4. \A v \in Watches : watches'[v] # watches[v] =>
                             watches[v] = None /\ watches'[v] \in users
    BY <2>1 DEF Inv, TypeOK
  <2> HIDE DEF h
  <2> QED BY <2>1, <2>2, <2>3, <2>4, StartInv
<1>2. ASSUME NEW h \in Handler, Start(p, h), UNCHANGED tables, h.pc = "lock", h.items = {},
             h.op \in {"upload", "delete"} => h.user \in Users /\ h.book \in Books,
             h.op \in {"scan", "unwatch"} => h.watch \in Watches
      PROVE  Inv'
  <2>1. Tables'
    BY <1>2 DEF Inv, TypeOK, Tables, Start, tables
  <2> QED BY <1>2, <2>1, StartInv DEF tables
<1>3. ASSUME NEW w \in Watches, Scan(p, w) \/ Unwatch(p, w) PROVE Inv'
  <2>1. ASSUME NEW op \in {"scan", "unwatch"}
        PROVE  /\ Call(op, None, None, w) \in Handler
               /\ Call(op, None, None, w).pc = "lock" /\ Call(op, None, None, w).items = {}
               /\ Call(op, None, None, w).op = op /\ Call(op, None, None, w).watch = w
    BY DEF Call, Handler
  <2> QED BY <1>2, <1>3, <2>1 DEF Scan, Unwatch
<1>4. ASSUME NEW u \in Users, NEW b \in Books, Upload(p, u, b) \/ Delete(p, u, b) PROVE Inv'
  <2>1. ASSUME NEW op \in {"upload", "delete"}
        PROVE  /\ Call(op, u, b, None) \in Handler /\ Call(op, u, b, None).pc = "lock"
               /\ Call(op, u, b, None).op = op /\ Call(op, u, b, None).items = {}
               /\ Call(op, u, b, None).user = u /\ Call(op, u, b, None).book = b
    BY DEF Call, Handler
  <2> QED BY <1>2, <1>4, <2>1 DEF Upload, Delete
<1>5. ASSUME NEW u \in Libraries, Unlist(p, u) PROVE Inv'
  <2>1. /\ Call("unlist", u, None, None) \in Handler
        /\ Call("unlist", u, None, None).pc = "lock"
        /\ Call("unlist", u, None, None).op = "unlist"
        /\ Call("unlist", u, None, None).items = {}
    BY FileAssumption DEF Call, Handler
  <2> QED BY <1>2, <1>5, <2>1 DEF Unlist
<1>6. ASSUME Backup(p) PROVE Inv'
  <2>1. /\ Call("backup", None, None, None) \in Handler
        /\ Call("backup", None, None, None).pc = "lock"
        /\ Call("backup", None, None, None).op = "backup"
        /\ Call("backup", None, None, None).items = {}
    BY DEF Call, Handler
  <2> QED BY <1>2, <1>6, <2>1 DEF Backup
<1> QED BY <1>1, <1>3, <1>4, <1>5, <1>6 DEF Arrive

LEMMA LockInv ==
  ASSUME Inv, Commands = {}, NEW p \in Requests, Lock(p)
  PROVE  Inv'
<1> DEFINE h == [proc[p] EXCEPT !.pc = "locked"]
<1>1. /\ proc[p] # None /\ proc[p].pc = "lock" /\ mu = None /\ mu' = p
      /\ UNCHANGED <<users, uploads, watched, watches, statuses, objects, source>>
      /\ proc' = [proc EXCEPT ![p].pc = "locked"]
  BY DEF Lock, tables
<1>2. proc[p] \in Handler /\ HandlerTrue(p)
  BY <1>1 DEF Inv, TypeOK
<1>3. /\ h \in Handler /\ proc' = [proc EXCEPT ![p] = h] /\ h.pc = "locked"
      /\ h.op = proc[p].op /\ h.user = proc[p].user /\ h.book = proc[p].book
      /\ h.watch = proc[p].watch /\ h.items = proc[p].items
  BY <1>1, <1>2 DEF Inv, TypeOK, Handler
<1> HIDE DEF h
<1>4. proc'[p] = h
  BY <1>3 DEF Inv, TypeOK
<1>5. HandlerTrue(p)'
  BY <1>1, <1>2, <1>3, <1>4 DEF HandlerTrue, Holding, At
<1>6. Tables'
  BY <1>1, TablesTrue DEF Inv, Tables
<1>7. \A q \in Requests : mu # q
  BY <1>1, FileAssumption
<1> QED BY <1>1, <1>3, <1>5, <1>6, <1>7, FreeStep

(* A handler that returns or fails, whatever it was doing. *)
LEMMA ReturnInv ==
  ASSUME Inv, NEW p \in Requests, Return(p),
         UNCHANGED <<users, uploads, watched, watches, objects, source>>,
         statuses' \subseteq Watches
  PROVE  Inv'
<1>1. proc' = [proc EXCEPT ![p] = None] /\ mu' = IF mu = p THEN None ELSE mu
  BY DEF Return, Release
<1>2. Tables'
  BY TablesTrue DEF Inv, Tables
<1> QED BY <1>1, <1>2, FreeStep DEF Inv, TypeOK

LEMMA ReportInv ==
  ASSUME Inv, NEW p \in Requests, NEW pc \in {"locked", "walk", "commit"}, At(p, "scan", pc),
         Report(p), Tables', Rows'
  PROVE  Inv'
<1> DEFINE h == [proc[p] EXCEPT !.pc = "report"]
<1>1. /\ proc[p] # None /\ proc[p] \in Handler /\ proc[p].op = "scan" /\ mu = p
      /\ HandlerTrue(p)
  BY Holder
<1>2. /\ h \in Handler /\ proc' = [proc EXCEPT ![p] = h] /\ mu' = None
      /\ h.op = "scan" /\ h.pc = "report" /\ h.watch = proc[p].watch
  BY <1>1 DEF Report, Release, Inv, TypeOK, Handler
<1> HIDE DEF h
<1>3. proc'[p] = h
  BY <1>2 DEF Inv, TypeOK
<1>4. HandlerTrue(p)'
  BY <1>1, <1>2, <1>3 DEF HandlerTrue
<1> QED BY <1>1, <1>2, <1>4, HolderStep

-----------------------------------------------------------------------------
(* Uploads and deletions                                                   *)

LEMMA StageInv ==
  ASSUME Inv, NEW p \in Requests, Stage(p)
  PROVE  Inv'
<1> DEFINE o == Obj(proc[p].user, proc[p].book)
           h == [proc[p] EXCEPT !.pc = "write"]
<1>1. /\ At(p, "upload", "locked") /\ objects' = objects \cup {o} /\ mu' = mu
      /\ proc' = [proc EXCEPT ![p].pc = "write"]
      /\ UNCHANGED <<users, uploads, watched, watches, statuses, source>>
  BY DEF Stage, Goto, tables
<1>2. /\ proc[p] # None /\ proc[p] \in Handler /\ proc[p].op = "upload" /\ mu = p
      /\ HandlerTrue(p) /\ Tables /\ Rows
  BY <1>1, Holder
<1>3. o \in Object
  BY <1>2 DEF HandlerTrue, Obj, Object
<1>4. /\ h \in Handler /\ proc' = [proc EXCEPT ![p] = h] /\ h.pc = "write" /\ h.op = "upload"
      /\ h.user = proc[p].user /\ h.book = proc[p].book
  BY <1>1, <1>2 DEF Inv, TypeOK, Handler
<1>5. o = Obj(h.user, h.book)
  BY <1>4
<1> HIDE DEF h, o
<1>6. proc'[p] = h
  BY <1>4 DEF Inv, TypeOK
<1>7. HandlerTrue(p)'
  BY <1>1, <1>2, <1>4, <1>5, <1>6 DEF HandlerTrue, Holding, At
<1>8. Tables' /\ Rows'
  BY <1>1, <1>2, <1>3 DEF Tables, Rows, RowsHaveObjects, RowsHaveWatch, RowsHaveUser, Referenced
<1> QED BY <1>1, <1>2, <1>4, <1>7, <1>8, HolderStep

LEMMA UploadRowInv ==
  ASSUME Inv, NEW p \in Requests, UploadRow(p)
  PROVE  Inv'
<1> DEFINE o == Obj(proc[p].user, proc[p].book)
<1>1. /\ At(p, "upload", "write") /\ Return(p)
      /\ uploads' = IF proc[p].user \in users THEN uploads \cup {o} ELSE uploads
      /\ UNCHANGED <<users, watched, watches, statuses, objects, source>>
  BY DEF UploadRow
<1>2. /\ proc[p] # None /\ mu = p /\ Holding(p) /\ HandlerTrue(p) /\ Tables /\ Rows
      /\ proc[p].op = "upload"
  BY <1>1, Holder
<1>3. o \in Object /\ o \in objects /\ o.user = proc[p].user
  BY <1>1, <1>2 DEF HandlerTrue, Holding, Obj, Object
<1>4. proc' = [proc EXCEPT ![p] = None] /\ mu' = None
  BY <1>1, <1>2 DEF Return, Release
<1> HIDE DEF o
<1>5. Tables' /\ Rows'
  BY <1>1, <1>2, <1>3 DEF Tables, Rows, RowsHaveObjects, RowsHaveWatch, RowsHaveUser, Referenced
<1> QED BY <1>1, <1>2, <1>4, <1>5, HolderStep

LEMMA DeleteQueryInv ==
  ASSUME Inv, NEW p \in Requests, DeleteQuery(p)
  PROVE  Inv'
<1> DEFINE o == Obj(proc[p].user, proc[p].book)
           todo == IF WatchedBook(proc[p].user, proc[p].book) THEN {} ELSE {o}
           h == [proc[p] EXCEPT !.pc = "write", !.todo = todo]
<1>1. At(p, "delete", "locked")
      /\ UNCHANGED <<users, uploads, watched, watches, statuses, objects, source>>
  BY DEF DeleteQuery, tables
<1>2. /\ proc[p] # None /\ proc[p] \in Handler /\ proc[p].op = "delete" /\ mu = p
      /\ HandlerTrue(p) /\ Tables /\ Rows
  BY <1>1, Holder
<1>3. CASE o \notin uploads
  BY <1>1, <1>3, ReturnInv DEF DeleteQuery, Inv, TypeOK
<1>4. CASE o \in uploads
  <2>1. proc' = [proc EXCEPT ![p].pc = "write", ![p].todo = todo] /\ mu' = mu
    BY <1>4 DEF DeleteQuery, Obj
  <2>2. o \in Object
    BY <1>2 DEF HandlerTrue, Obj, Object
  <2>3. todo \in SUBSET {o} /\ todo \in SUBSET (Paths \cup Object) /\ todo \cap WatchedObjects = {}
    BY <2>2 DEF WatchedObjects, WatchedBook, Obj
  <2>4. /\ h \in Handler /\ proc' = [proc EXCEPT ![p] = h] /\ h.pc = "write"
        /\ h.op = "delete" /\ h.user = proc[p].user /\ h.book = proc[p].book
        /\ h.todo = todo
    BY <2>1, <2>3, <1>2 DEF Inv, TypeOK, Handler
  <2>5. o = Obj(h.user, h.book)
    BY <2>4
  <2> HIDE DEF h, o, todo
  <2>6. proc'[p] = h
    BY <2>4 DEF Inv, TypeOK
  <2>7. WatchedObjects' = WatchedObjects
    BY <1>1 DEF WatchedObjects
  <2>8. HandlerTrue(p)'
    BY <1>2, <2>1, <2>3, <2>4, <2>5, <2>6, <2>7 DEF HandlerTrue, Holding, At
  <2>9. Tables' /\ Rows'
    BY <1>1, <1>2, RowsKept DEF Tables
  <2> QED BY <1>2, <2>1, <2>4, <2>8, <2>9, HolderStep
<1> QED BY <1>3, <1>4

LEMMA DeleteRowInv ==
  ASSUME Inv, NEW p \in Requests, DeleteRow(p)
  PROVE  Inv'
<1> DEFINE o == Obj(proc[p].user, proc[p].book)
           h == [proc[p] EXCEPT !.pc = "remove"]
<1>1. /\ At(p, "delete", "write") /\ uploads' = uploads \ {o} /\ mu' = mu
      /\ proc' = [proc EXCEPT ![p].pc = "remove"]
      /\ UNCHANGED <<users, watched, watches, statuses, objects, source>>
  BY DEF DeleteRow, Goto
<1>2. /\ proc[p] # None /\ proc[p] \in Handler /\ proc[p].op = "delete" /\ mu = p
      /\ HandlerTrue(p) /\ Holding(p) /\ Tables /\ Rows
  BY <1>1, Holder
<1>3. proc[p].todo \subseteq {o} /\ proc[p].todo \cap WatchedObjects = {}
  BY <1>1, <1>2 DEF Holding
<1>4. /\ h \in Handler /\ proc' = [proc EXCEPT ![p] = h] /\ h.pc = "remove"
      /\ h.op = "delete" /\ h.user = proc[p].user /\ h.book = proc[p].book
      /\ h.todo = proc[p].todo
  BY <1>1, <1>2 DEF Inv, TypeOK, Handler
<1> HIDE DEF h, o
<1>5. proc'[p] = h
  BY <1>4 DEF Inv, TypeOK
<1>6. Referenced' = (uploads \ {o}) \cup WatchedObjects
  BY <1>1 DEF Referenced, WatchedObjects
<1>7. h.todo \cap Referenced' = {}
  BY <1>3, <1>4, <1>6
<1>8. HandlerTrue(p)'
  BY <1>1, <1>2, <1>4, <1>5, <1>7 DEF HandlerTrue, Holding, At
<1>9. Tables' /\ Rows'
  BY <1>1, <1>2 DEF Tables, Rows, RowsHaveObjects, RowsHaveWatch, RowsHaveUser, Referenced
<1> QED BY <1>1, <1>2, <1>4, <1>8, <1>9, HolderStep

LEMMA RemoveInv ==
  ASSUME Inv, NEW p \in Requests, NEW o \in Object, Remove(p, o)
  PROVE  Inv'
<1> DEFINE h == [proc[p] EXCEPT !.todo = @ \ {o}]
<1>1. /\ proc[p] # None /\ proc[p].pc = "remove" /\ o \in proc[p].todo
      /\ objects' = objects \ {o} /\ mu' = mu
      /\ proc' = [proc EXCEPT ![p].todo = @ \ {o}]
      /\ UNCHANGED <<users, uploads, watched, watches, statuses, source>>
  BY DEF Remove, tables
<1>2. /\ proc[p] \in Handler /\ mu = p /\ Holding(p) /\ HandlerTrue(p) /\ Tables /\ Rows
  BY <1>1, TablesTrue DEF Inv, TypeOK, HandlerTrue, Holding
<1>3. proc[p].todo \cap Referenced = {}
  BY <1>1, <1>2 DEF Holding
<1>4. /\ h \in Handler /\ proc' = [proc EXCEPT ![p] = h] /\ h.pc = "remove"
      /\ h.op = proc[p].op /\ h.user = proc[p].user /\ h.book = proc[p].book
      /\ h.watch = proc[p].watch /\ h.todo = proc[p].todo \ {o}
  BY <1>1, <1>2 DEF Inv, TypeOK, Handler
<1> HIDE DEF h
<1>5. proc'[p] = h
  BY <1>4 DEF Inv, TypeOK
<1>6. Referenced' = Referenced
  BY <1>1 DEF Referenced
<1>7. HandlerTrue(p)'
  BY <1>1, <1>2, <1>3, <1>4, <1>5, <1>6 DEF HandlerTrue, Holding, At
<1>8. Tables' /\ Rows'
  <2>1. Referenced \subseteq objects'
    BY <1>1, <1>2, <1>3 DEF Rows, RowsHaveObjects
  <2> QED BY <1>1, <1>2, <1>6, <2>1
          DEF Tables, Rows, RowsHaveObjects, RowsHaveWatch, RowsHaveUser
<1> QED BY <1>1, <1>2, <1>4, <1>7, <1>8, HolderStep

-----------------------------------------------------------------------------
(* Watched folders                                                         *)

(* A step of a scan that has the mutex, from one place to another. *)
LEMMA ScanStep ==
  ASSUME Inv, NEW p \in Requests, At(p, "scan", "locked") \/ At(p, "scan", "walk"),
         NEW h \in Handler, h.op = "scan", h.pc \in {"walk", "commit"}, h.watch = proc[p].watch,
         h.user \in Users, watches[h.watch] = h.user,
         \A i \in h.items : Obj(h.user, i.book) \in objects',
         proc' = [proc EXCEPT ![p] = h], mu' = mu,
         objects \subseteq objects', objects' \subseteq Object,
         UNCHANGED <<users, uploads, watched, watches, statuses, source>>
  PROVE  Inv'
<1>1. /\ proc[p] # None /\ proc[p].op = "scan" /\ mu = p
      /\ HandlerTrue(p) /\ Tables /\ Rows
  BY Holder
<1>2. proc'[p] = h
  BY DEF Inv, TypeOK
<1>3. HandlerTrue(p)'
  BY <1>1, <1>2 DEF HandlerTrue, Holding, At
<1>4. Tables' /\ Rows'
  BY <1>1 DEF Tables, Rows, RowsHaveObjects, RowsHaveWatch, RowsHaveUser, Referenced
<1> QED BY <1>1, <1>3, <1>4, HolderStep

LEMMA ScanBeginInv ==
  ASSUME Inv, NEW p \in Requests, ScanBegin(p)
  PROVE  Inv'
<1> DEFINE w == proc[p].watch
           h == [proc[p] EXCEPT !.pc = "walk", !.user = watches[w], !.todo = Paths]
<1>1. At(p, "scan", "locked")
      /\ UNCHANGED <<users, uploads, watched, watches, statuses, objects, source>>
  BY DEF ScanBegin, tables
<1>2. /\ proc[p] # None /\ proc[p] \in Handler /\ proc[p].op = "scan" /\ mu = p
      /\ proc[p].pc = "locked" /\ HandlerTrue(p) /\ Tables /\ Rows
  BY <1>1, Holder
<1>3. CASE watches[w] \in Users /\ source[w] # None
  <2>1. proc' = [proc EXCEPT ![p].pc = "walk", ![p].user = watches[w], ![p].todo = Paths]
        /\ mu' = mu
    BY <1>3 DEF ScanBegin
  <2>2. /\ h \in Handler /\ proc' = [proc EXCEPT ![p] = h] /\ h.op = "scan" /\ h.pc = "walk"
        /\ h.watch = w /\ h.user = watches[w] /\ h.items = {}
    BY <1>2, <1>3, <2>1 DEF HandlerTrue, Inv, TypeOK, Handler
  <2> HIDE DEF h
  <2>3. objects \subseteq objects' /\ objects' \subseteq Object
    BY <1>1, <1>2 DEF Tables
  <2>4. /\ h.user \in Users /\ watches[h.watch] = h.user
        /\ \A i \in h.items : Obj(h.user, i.book) \in objects'
    BY <1>3, <2>2
  <2> QED BY <1>1, <2>1, <2>2, <2>3, <2>4, ScanStep
<1>4. CASE ~(watches[w] \in Users /\ source[w] # None)
  <2>1. Report(p)
    BY <1>4 DEF ScanBegin
  <2>2. Tables' /\ Rows'
    BY <1>1, <1>2, RowsKept DEF Tables
  <2> QED BY <1>1, <2>1, <2>2, ReportInv
<1> QED BY <1>3, <1>4

LEMMA ScanFileInv ==
  ASSUME Inv, NEW p \in Requests, NEW path \in Paths, ScanFile(p, path)
  PROVE  Inv'
<1> DEFINE w == proc[p].watch
           u == proc[p].user
           found == {b \in Books : b = source[w][path]}
           more == {[path |-> path, book |-> b] : b \in found}
           h == [proc[p] EXCEPT !.todo = @ \ {path}, !.items = @ \cup more]
<1>1. /\ At(p, "scan", "walk")
      /\ objects' = objects \cup {Obj(u, b) : b \in found} /\ mu' = mu
      /\ proc' = [proc EXCEPT ![p].todo = @ \ {path}, ![p].items = @ \cup more]
      /\ UNCHANGED <<users, uploads, watched, watches, statuses, source>>
  BY DEF ScanFile, tables
<1>2. /\ proc[p] # None /\ proc[p] \in Handler /\ proc[p].op = "scan" /\ mu = p
      /\ proc[p].pc = "walk" /\ Holding(p) /\ Tables
  BY <1>1, Holder
<1>3. /\ u \in Users /\ watches[w] = u /\ \A i \in proc[p].items : Obj(u, i.book) \in objects
  BY <1>1, <1>2 DEF Holding
<1>4. more \subseteq Item /\ \A b \in found : Obj(u, b) \in Object
  BY <1>3 DEF Item, Obj, Object
<1>5. \A i \in more : Obj(u, i.book) \in objects'
  BY <1>1
<1> HIDE DEF more, found
<1>6. /\ h \in Handler /\ proc' = [proc EXCEPT ![p] = h] /\ h.op = "scan" /\ h.pc = "walk"
      /\ h.watch = w /\ h.user = u /\ h.items = proc[p].items \cup more
  BY <1>1, <1>2, <1>4 DEF Inv, TypeOK, Handler
<1>7. \A i \in h.items : Obj(h.user, i.book) \in objects'
  BY <1>1, <1>3, <1>5, <1>6
<1>8. objects \subseteq objects' /\ objects' \subseteq Object
  BY <1>1, <1>2, <1>4 DEF Tables
<1>9. h.user \in Users /\ watches[h.watch] = h.user
  BY <1>3, <1>6
<1> HIDE DEF h
<1> QED BY <1>1, <1>6, <1>7, <1>8, <1>9, ScanStep

LEMMA ScanVerifyInv ==
  ASSUME Inv, NEW p \in Requests, ScanVerify(p)
  PROVE  Inv'
<1> DEFINE h == [proc[p] EXCEPT !.pc = "commit"]
<1>1. /\ At(p, "scan", "walk") /\ mu' = mu /\ proc' = [proc EXCEPT ![p].pc = "commit"]
      /\ UNCHANGED <<users, uploads, watched, watches, statuses, objects, source>>
  BY DEF ScanVerify, Goto, tables
<1>2. /\ proc[p] # None /\ proc[p] \in Handler /\ proc[p].op = "scan"
      /\ Holding(p) /\ Tables
  BY <1>1, Holder
<1>3. /\ h \in Handler /\ proc' = [proc EXCEPT ![p] = h] /\ h.op = "scan" /\ h.pc = "commit"
      /\ h.watch = proc[p].watch /\ h.user = proc[p].user /\ h.items = proc[p].items
  BY <1>1, <1>2 DEF Inv, TypeOK, Handler
<1>4. /\ h.user \in Users /\ watches[h.watch] = h.user
      /\ \A i \in h.items : Obj(h.user, i.book) \in objects'
  BY <1>1, <1>2, <1>3 DEF Holding
<1>5. objects \subseteq objects' /\ objects' \subseteq Object
  BY <1>1, <1>2 DEF Tables
<1> HIDE DEF h
<1> QED BY <1>1, <1>3, <1>4, <1>5, ScanStep

LEMMA ScanFailInv ==
  ASSUME Inv, NEW p \in Requests, ScanFail(p)
  PROVE  Inv'
<1>1. PICK pc \in {"walk", "commit"} : At(p, "scan", pc)
  BY DEF ScanFail
<1>2. Report(p) /\ UNCHANGED <<users, uploads, watched, watches, statuses, objects, source>>
  BY DEF ScanFail, tables
<1>3. Tables' /\ Rows'
  BY <1>2, TablesTrue, RowsKept DEF Inv, Tables
<1> QED BY <1>1, <1>2, <1>3, ReportInv

(* The rows a scan leaves of its watch are those of the files it found.    *)
LEMMA ScanCommitRows ==
  ASSUME Inv, NEW p \in Requests, ScanCommit(p)
  PROVE  LET w == proc[p].watch
             u == proc[p].user
             rows == {[user |-> u, book |-> i.book, watch |-> w, path |-> i.path] :
                        i \in proc[p].items}
         IN  /\ watched' = {r \in watched : r.watch # w} \cup rows
             /\ u \in Users /\ w \in Watches /\ watches[w] = u /\ rows \subseteq WatchRow
             /\ \A i \in proc[p].items : Obj(u, i.book) \in objects
             /\ \A r \in rows : r.user = u /\ r.watch = w /\ Obj(u, r.book) \in objects
<1> DEFINE w == proc[p].watch
           u == proc[p].user
           rows == {[user |-> u, book |-> i.book, watch |-> w, path |-> i.path] :
                      i \in proc[p].items}
<1>1. At(p, "scan", "commit") /\ watched' = (watched \ RowsOf(w, u)) \cup rows
  BY DEF ScanCommit
<1>2. /\ proc[p] # None /\ proc[p] \in Handler /\ proc[p].op = "scan"
      /\ Holding(p) /\ HandlerTrue(p) /\ Rows
  BY <1>1, Holder
<1>3. /\ u \in Users /\ w \in Watches /\ watches[w] = u
      /\ \A i \in proc[p].items : Obj(u, i.book) \in objects
  BY <1>1, <1>2 DEF Holding, HandlerTrue
<1>4. rows \subseteq WatchRow
  BY <1>2, <1>3 DEF Handler, Item, WatchRow
<1>5. watched \ RowsOf(w, u) = {r \in watched : r.watch # w}
  BY <1>2, <1>3 DEF RowsOf, Rows, RowsHaveWatch
<1> QED BY <1>1, <1>3, <1>4, <1>5

LEMMA ScanCommitInv ==
  ASSUME Inv, NEW p \in Requests, ScanCommit(p)
  PROVE  Inv'
<1> DEFINE w == proc[p].watch
           u == proc[p].user
           rows == {[user |-> u, book |-> i.book, watch |-> w, path |-> i.path] :
                      i \in proc[p].items}
<1>1. /\ At(p, "scan", "commit") /\ Report(p)
      /\ UNCHANGED <<users, uploads, watches, statuses, objects, source>>
  BY DEF ScanCommit
<1>2. /\ watched' = {r \in watched : r.watch # w} \cup rows
      /\ u \in Users /\ w \in Watches /\ watches[w] = u /\ rows \subseteq WatchRow
      /\ \A r \in rows : r.user = u /\ r.watch = w /\ Obj(u, r.book) \in objects
  BY ScanCommitRows
<1> HIDE DEF rows
<1>3. Tables /\ Rows
  BY TablesTrue DEF Inv
<1>4. u \in users
  BY <1>2, <1>3 DEF Rows
<1>5. \A r \in watched' : \/ r \in watched
                          \/ r.user = u /\ r.watch = w /\ Obj(r.user, r.book) \in objects
  BY <1>2
<1>6. RowsHaveWatch'
  BY <1>1, <1>2, <1>3, <1>5 DEF Rows, RowsHaveWatch
<1>7. \A o \in Referenced' : \/ o \in Referenced
                             \/ o \in objects /\ o.user = u
  <2>1. ASSUME NEW r \in watched'
        PROVE  Obj(r.user, r.book) \in Referenced
               \/ (Obj(r.user, r.book) \in objects /\ Obj(r.user, r.book).user = u)
    BY <1>5 DEF Referenced, Obj
  <2> QED BY <1>1, <2>1 DEF Referenced
<1>8. Tables' /\ Rows'
  BY <1>1, <1>2, <1>3, <1>4, <1>6, <1>7 DEF Tables, Rows, RowsHaveObjects, RowsHaveUser
<1> QED BY <1>1, <1>8, ReportInv

LEMMA ScanReportInv ==
  ASSUME Inv, NEW p \in Requests, ScanReport(p)
  PROVE  Inv'
<1>1. proc[p].watch \in Watches
  BY DEF ScanReport, At, Inv, HandlerTrue
<1> QED BY <1>1, ReturnInv DEF ScanReport, Inv, TypeOK

LEMMA UnwatchTxInv ==
  ASSUME Inv, NEW p \in Requests, UnwatchTx(p)
  PROVE  Inv'
<1> DEFINE w == proc[p].watch
<1>1. /\ At(p, "unwatch", "locked") /\ Return(p)
      /\ UNCHANGED <<users, uploads, objects, source>>
      /\ IF watches[w] \in Users
         THEN /\ watched' = watched \ RowsOf(w, watches[w])
              /\ statuses' = statuses \ {w}
              /\ watches' = [watches EXCEPT ![w] = Gone]
         ELSE UNCHANGED <<watched, statuses, watches>>
  BY DEF UnwatchTx
<1>2. /\ proc[p] # None /\ proc[p].op = "unwatch" /\ mu = p /\ HandlerTrue(p) /\ Tables /\ Rows
  BY <1>1, Holder
<1>3. w \in Watches
  BY <1>2 DEF HandlerTrue
<1>4. proc' = [proc EXCEPT ![p] = None] /\ mu' = None
  BY <1>1, <1>2 DEF Return, Release
<1>5. CASE watches[w] \in Users
  <2>1. \A r \in watched : r.watch = w => r \in RowsOf(w, watches[w])
    BY <1>2 DEF RowsOf, Rows, RowsHaveWatch
  <2>2. \A r \in watched' : r \in watched /\ r.watch # w
    BY <1>1, <1>5, <2>1
  <2>3. \A v \in Watches : v # w => watches'[v] = watches[v]
    BY <1>1, <1>2, <1>5 DEF Tables
  <2>4. watches' \in [Watches -> Users \cup {None, Gone}] /\ watches'[w] = Gone
    BY <1>1, <1>2, <1>3, <1>5 DEF Tables
  <2>5. Tables'
    BY <1>1, <1>2, <1>5, <2>4 DEF Tables
  <2>6. RowsHaveWatch'
    BY <1>2, <2>2, <2>3 DEF Rows, RowsHaveWatch, Tables, WatchRow
  <2>7. Referenced' \subseteq Referenced
    BY <1>1, <2>2 DEF Referenced
  <2>8. Rows'
    BY <1>1, <1>2, <2>3, <2>4, <2>6, <2>7, FileAssumption
       DEF Rows, RowsHaveObjects, RowsHaveUser
  <2> QED BY <1>2, <1>4, <2>5, <2>8, HolderStep
<1>6. CASE watches[w] \notin Users
  <2>1. Tables' /\ Rows'
    BY <1>1, <1>2, <1>6, RowsKept DEF Tables
  <2> QED BY <1>2, <1>4, <2>1, HolderStep
<1> QED BY <1>5, <1>6

LEMMA UnlistTxInv ==
  ASSUME Inv, NEW p \in Requests, UnlistTx(p)
  PROVE  Inv'
<1> DEFINE u == proc[p].user
           todo == {o \in Referenced : o.user = u}
           h == [proc[p] EXCEPT !.pc = "remove", !.todo = todo]
<1>1. At(p, "unlist", "locked") /\ UNCHANGED <<objects, source>>
  BY DEF UnlistTx
<1>2. /\ proc[p] # None /\ proc[p] \in Handler /\ proc[p].op = "unlist" /\ mu = p
      /\ Tables /\ Rows
  BY <1>1, Holder
<1>3. CASE u \notin users
  <2>1. Return(p) /\ UNCHANGED tables
    BY <1>3 DEF UnlistTx
  <2> QED BY <1>1, <1>2, <2>1, ReturnInv DEF tables, Tables
<1>4. CASE u \in users
  <2>1. /\ users' = users \ {u}
        /\ uploads' = {o \in uploads : o.user # u}
        /\ watched' = {r \in watched : r.user # u}
        /\ statuses' = {w \in statuses : watches[w] # u}
        /\ watches' = [w \in Watches |-> IF watches[w] = u THEN Gone ELSE watches[w]]
        /\ proc' = [proc EXCEPT ![p].pc = "remove", ![p].todo = todo] /\ mu' = mu
    BY <1>4 DEF UnlistTx
  <2>2. todo \in SUBSET Object
    BY <1>2 DEF Referenced, Tables, WatchRow, Obj, Object
  <2>3. \A o \in Referenced' : o \in Referenced /\ o.user # u
    <3>1. ASSUME NEW r \in watched' PROVE Obj(r.user, r.book).user # u
      BY <2>1 DEF Obj
    <3> QED BY <2>1, <3>1 DEF Referenced
  <2>4. todo \cap Referenced' = {}
    BY <2>3
  <2> HIDE DEF todo
  <2>5. /\ h \in Handler /\ proc' = [proc EXCEPT ![p] = h] /\ h.pc = "remove"
        /\ h.op = "unlist" /\ h.todo = todo
    BY <1>2, <2>1, <2>2 DEF Inv, TypeOK, Handler
  <2> HIDE DEF h
  <2>6. proc'[p] = h
    BY <2>5 DEF Inv, TypeOK
  <2>7. HandlerTrue(p)'
    BY <1>2, <2>1, <2>4, <2>5, <2>6 DEF HandlerTrue, Holding, At
  <2>8. watches' \in [Watches -> Users \cup {None, Gone}]
        /\ \A w \in Watches : watches[w] # u => watches'[w] = watches[w]
    BY <1>2, <2>1 DEF Tables
  <2>9. Tables'
    BY <1>1, <1>2, <2>1, <2>8 DEF Tables
  <2>10. RowsHaveWatch'
    BY <1>2, <2>1, <2>8 DEF Rows, RowsHaveWatch, Tables, WatchRow
  <2>11. RowsHaveObjects' /\ RowsHaveUser'
    BY <1>1, <1>2, <2>1, <2>3 DEF Rows, RowsHaveObjects, RowsHaveUser
  <2>12. \A w \in Watches : watches'[w] \in Users => watches'[w] \in users'
    BY <1>2, <2>1, FileAssumption DEF Rows
  <2>13. Rows'
    BY <2>10, <2>11, <2>12 DEF Rows
  <2> QED BY <1>2, <2>1, <2>5, <2>7, <2>9, <2>13, HolderStep
<1> QED BY <1>3, <1>4

-----------------------------------------------------------------------------
(* Backup                                                                  *)

(* A backup that has the mutex copies objects that are there. *)
LEMMA BackupStep ==
  ASSUME Inv, NEW p \in Requests, At(p, "backup", "locked") \/ At(p, "backup", "write"),
         NEW todo \in SUBSET objects, proc' = [proc EXCEPT ![p].pc = "write", ![p].todo = todo],
         mu' = mu, UNCHANGED <<users, uploads, watched, watches, statuses, objects, source>>
  PROVE  Inv'
<1> DEFINE h == [proc[p] EXCEPT !.pc = "write", !.todo = todo]
<1>1. /\ proc[p] # None /\ proc[p] \in Handler /\ proc[p].op = "backup" /\ mu = p
      /\ Tables /\ Rows
  BY Holder
<1>2. /\ h \in Handler /\ proc' = [proc EXCEPT ![p] = h] /\ h.pc = "write"
      /\ h.op = "backup" /\ h.todo = todo
  BY <1>1 DEF Inv, TypeOK, Handler, Tables
<1> HIDE DEF h
<1>3. proc'[p] = h
  BY <1>2 DEF Inv, TypeOK
<1>4. HandlerTrue(p)'
  BY <1>1, <1>2, <1>3 DEF HandlerTrue, Holding, At
<1>5. Tables' /\ Rows'
  BY <1>1, RowsKept DEF Tables
<1> QED BY <1>1, <1>2, <1>4, <1>5, HolderStep

LEMMA SnapshotInv ==
  ASSUME Inv, NEW p \in Requests, Snapshot(p)
  PROVE  Inv'
<1>1. Referenced \in SUBSET objects
  BY DEF Inv, Rows, RowsHaveObjects
<1> QED BY <1>1, BackupStep DEF Snapshot, tables

LEMMA CopyObjectInv ==
  ASSUME Inv, NEW p \in Requests, NEW o \in Object, CopyObject(p, o)
  PROVE  Inv'
<1>1. /\ At(p, "backup", "write") /\ o \in proc[p].todo
      /\ UNCHANGED <<users, uploads, watched, watches, statuses, objects, source>>
      /\ IF o \in objects THEN proc' = [proc EXCEPT ![p].todo = @ \ {o}] /\ mu' = mu
         ELSE Return(p)
  BY DEF CopyObject, tables
<1>2. /\ proc[p] \in Handler /\ proc[p].pc = "write" /\ proc[p].todo \subseteq objects
  BY <1>1, Holder DEF Holding
<1>3. o \in objects
  BY <1>1, <1>2
<1>4. proc' = [proc EXCEPT ![p].pc = "write", ![p].todo = proc[p].todo \ {o}]
  BY <1>1, <1>2, <1>3 DEF Inv, TypeOK, Handler
<1>5. proc[p].todo \ {o} \in SUBSET objects
  BY <1>2
<1> QED BY <1>1, <1>3, <1>4, <1>5, BackupStep

-----------------------------------------------------------------------------

LEMMA ProgressInv ==
  ASSUME Inv, NEW p \in Requests, Progress(p)
  PROVE  Inv'
<1>1. ASSUME RemoveDone(p) \/ BackupDone(p) PROVE Inv'
  BY <1>1, ReturnInv DEF RemoveDone, BackupDone, tables, Inv, TypeOK
<1> QED BY <1>1, StageInv, UploadRowInv, DeleteQueryInv, DeleteRowInv, RemoveInv,
           ScanBeginInv, ScanFileInv, ScanVerifyInv, ScanCommitInv, ScanReportInv,
           UnwatchTxInv, UnlistTxInv, SnapshotInv, CopyObjectInv DEF Progress

LEMMA NextInv ==
  ASSUME Commands = {}, Inv, [Next]_vars
  PROVE  Inv'
<1>1. ASSUME NEW p \in Requests, Arrive(p) \/ Lock(p) \/ Step(p) \/ Stop(p) PROVE Inv'
  <2>1. CASE Arrive(p)
    BY <2>1, ArriveInv
  <2>2. CASE Lock(p)
    BY <2>2, LockInv
  <2>3. CASE Step(p)
    BY <2>3, ProgressInv, ScanFailInv DEF Step
  <2>4. CASE Stop(p)
    BY <2>4, ReturnInv DEF Stop, tables, Inv, TypeOK
  <2> QED BY <1>1, <2>1, <2>2, <2>3, <2>4
<1>2. ASSUME UNCHANGED <<tables, objects, mu, proc>>,
             source' \in [Watches -> [Paths -> Books \cup {None}] \cup {None}]
      PROVE  Inv'
  <2>1. UNCHANGED <<users, uploads, watched, watches, statuses, objects, mu, proc>>
    BY <1>2 DEF tables
  <2>2. TypeOK'
    BY <1>2, <2>1 DEF Inv, TypeOK
  <2>3. Rows'
    BY <2>1, RowsKept DEF Inv
  <2>4. Referenced' = Referenced /\ WatchedObjects' = WatchedObjects
        /\ \A p, op, pc : At(p, op, pc)' <=> At(p, op, pc)
    BY <2>1 DEF Referenced, WatchedObjects, At
  <2>5. \A p \in Requests : HandlerTrue(p)'
    BY <2>1, <2>4 DEF Inv, HandlerTrue, Holding
  <2> QED BY <2>2, <2>3, <2>5 DEF Inv
<1>3. ASSUME NEW w \in Watches, SourceChanges(w) PROVE Inv'
  BY <1>2, <1>3 DEF SourceChanges, Inv, TypeOK
<1>4. CASE UNCHANGED vars
  BY <1>2, <1>4 DEF vars, Inv, TypeOK
<1> QED BY <1>1, <1>3, <1>4 DEF Next

-----------------------------------------------------------------------------

(* The invariant that the theorems follow from. *)
THEOREM FilesInvariant == ASSUME Commands = {} PROVE Spec => []Inv
<1>1. Init => Inv
  BY InitInv
<1>2. Inv /\ [Next]_vars => Inv'
  BY NextInv
<1> QED BY <1>1, <1>2, PTL DEF Spec

(* However uploads, deletions, scans, stops and the removal of watches and *)
(* libraries interleave, a listed book can be downloaded (fileMu).         *)
THEOREM ListedBooksAreThere == ASSUME Commands = {} PROVE Spec => []RowsHaveObjects
<1>1. Inv => RowsHaveObjects
  BY DEF Inv, Rows
<1> QED BY <1>1, FilesInvariant, PTL

(* A row of a watch belongs to a registered watch of the same account      *)
(* (ScanWatch and RemoveWatch, each in its transaction).                   *)
THEOREM RowsAreWatched == ASSUME Commands = {} PROVE Spec => []RowsHaveWatch
<1>1. Inv => RowsHaveWatch
  BY DEF Inv, Rows
<1> QED BY <1>1, FilesInvariant, PTL

(* No row outlives its account: deleteLibrary takes the rows of a library  *)
(* in the transaction that takes its account, and an upload or a scan that *)
(* was under way meanwhile brings none back.                               *)
THEOREM RowsAreOwned == ASSUME Commands = {} PROVE Spec => []RowsHaveUser
<1>1. Inv => RowsHaveUser
  BY DEF Inv, Rows
<1> QED BY <1>1, FilesInvariant, PTL

(* A backup finds every object that its database snapshot refers to.       *)
THEOREM BackupsAreComplete == ASSUME Commands = {} PROVE Spec => []BackupComplete
<1>1. Inv => BackupComplete
  BY DEF Inv, HandlerTrue, Holding, BackupComplete, At
<1> QED BY <1>1, FilesInvariant, PTL

-----------------------------------------------------------------------------
(* How the catalogue of a watch changes                                    *)

RowsOfWatch(w) == {r \in watched : r.watch = w}

ReplacedWhole(w) ==
  \/ RowsOfWatch(w)' = {} /\ watches'[w] = Gone
  \/ \E p \in Requests :
       /\ At(p, "scan", "commit") /\ proc[p].watch = w
       /\ proc'[p].pc = "report"
       /\ {[path |-> r.path, book |-> r.book] : r \in RowsOfWatch(w)'} = proc[p].items
       /\ \A r \in RowsOfWatch(w)' : Obj(r.user, r.book) \in objects

LEMMA CommitReplaces ==
  ASSUME Inv, NEW p \in Requests, ScanCommit(p), NEW w \in Watches,
         RowsOfWatch(w)' # RowsOfWatch(w)
  PROVE  ReplacedWhole(w)
<1> DEFINE u == proc[p].user
           row(i) == [user |-> u, book |-> i.book, watch |-> proc[p].watch, path |-> i.path]
           rows == {row(i) : i \in proc[p].items}
<1>1. /\ watched' = {r \in watched : r.watch # proc[p].watch} \cup rows
      /\ \A r \in rows : r.watch = proc[p].watch /\ r.user = u /\ Obj(u, r.book) \in objects
  BY ScanCommitRows
<1>2. w = proc[p].watch
  BY <1>1 DEF RowsOfWatch
<1>3. RowsOfWatch(w)' = rows
  BY <1>1, <1>2 DEF RowsOfWatch
<1>4. At(p, "scan", "commit") /\ Report(p)
  BY DEF ScanCommit
<1>5. proc[p] \in Handler
  BY <1>4, Holder
<1>6. proc'[p].pc = "report"
  BY <1>4, <1>5 DEF Report, Inv, TypeOK, Handler
<1>7. {[path |-> r.path, book |-> r.book] : r \in rows} = proc[p].items
  <2>1. \A i \in proc[p].items : [path |-> row(i).path, book |-> row(i).book] = i
    BY <1>5 DEF Handler, Item
  <2>2. ASSUME NEW r \in rows PROVE [path |-> r.path, book |-> r.book] \in proc[p].items
    <3>1. PICK i \in proc[p].items : r = row(i)
      OBVIOUS
    <3> QED BY <2>1, <3>1
  <2>3. ASSUME NEW i \in proc[p].items PROVE \E r \in rows : i = [path |-> r.path, book |-> r.book]
    BY <2>1
  <2> QED BY <2>2, <2>3
<1> QED BY <1>1, <1>2, <1>3, <1>4, <1>6, <1>7 DEF ReplacedWhole

LEMMA UnwatchReplaces ==
  ASSUME Inv, NEW p \in Requests, UnwatchTx(p), NEW w \in Watches,
         RowsOfWatch(w)' # RowsOfWatch(w)
  PROVE  ReplacedWhole(w)
<1>1. At(p, "unwatch", "locked")
  BY DEF UnwatchTx
<1>2. Rows /\ Tables
  BY <1>1, Holder
<1>3. /\ watched' = watched \ RowsOf(proc[p].watch, watches[proc[p].watch])
      /\ watches' = [watches EXCEPT ![proc[p].watch] = Gone]
  BY DEF UnwatchTx, RowsOfWatch
<1>4. w = proc[p].watch
  BY <1>3 DEF RowsOfWatch, RowsOf
<1>5. \A r \in watched : r.watch = w => r \in RowsOf(w, watches[w])
  BY <1>2 DEF RowsOf, Rows, RowsHaveWatch
<1>6. RowsOfWatch(w)' = {}
  BY <1>3, <1>4, <1>5 DEF RowsOfWatch
<1>7. watches'[w] = Gone
  BY <1>2, <1>3, <1>4 DEF Tables
<1> QED BY <1>6, <1>7 DEF ReplacedWhole

LEMMA UnlistReplaces ==
  ASSUME Inv, NEW p \in Requests, UnlistTx(p), NEW w \in Watches,
         RowsOfWatch(w)' # RowsOfWatch(w)
  PROVE  ReplacedWhole(w)
<1> DEFINE u == proc[p].user
<1>1. At(p, "unlist", "locked")
  BY DEF UnlistTx
<1>2. Rows /\ Tables
  BY <1>1, Holder
<1>3. /\ watched' = {r \in watched : r.user # u}
      /\ watches' = [v \in Watches |-> IF watches[v] = u THEN Gone ELSE watches[v]]
  BY DEF UnlistTx, RowsOfWatch, tables
<1>4. \A r \in RowsOfWatch(w) : r.user = watches[w]
  BY <1>2 DEF RowsOfWatch, Rows, RowsHaveWatch
<1>5. watches[w] = u
  BY <1>3, <1>4 DEF RowsOfWatch
<1>6. RowsOfWatch(w)' = {} /\ watches'[w] = Gone
  BY <1>3, <1>4, <1>5 DEF RowsOfWatch
<1> QED BY <1>6 DEF ReplacedWhole

(* Only three steps write rows of watches. *)
LEMMA WatchedWriters ==
  ASSUME [Next]_vars, watched' # watched
  PROVE  \E p \in Requests : ScanCommit(p) \/ UnwatchTx(p) \/ UnlistTx(p)
<1>1. ASSUME NEW p \in Requests, Arrive(p) PROVE FALSE
  BY <1>1 DEF Arrive, AddWatch, Scan, Unwatch, Upload, Delete, Unlist, Backup, tables
<1>2. ASSUME NEW p \in Requests, Lock(p) \/ Stop(p) \/ ScanFail(p) PROVE FALSE
  BY <1>2 DEF Lock, Stop, ScanFail, tables
<1>3. ASSUME NEW p \in Requests, Progress(p)
      PROVE  ScanCommit(p) \/ UnwatchTx(p) \/ UnlistTx(p)
  BY <1>3 DEF Progress, Stage, UploadRow, DeleteQuery, DeleteRow, Remove, RemoveDone,
              ScanBegin, ScanFile, ScanVerify, ScanReport, Snapshot, CopyObject, BackupDone,
              tables
<1>4. ASSUME NEW w \in Watches, SourceChanges(w) PROVE FALSE
  BY <1>4 DEF SourceChanges, tables
<1>5. ~UNCHANGED vars
  BY DEF vars, tables
<1> QED BY <1>1, <1>2, <1>3, <1>4, <1>5 DEF Next, Step

(* A reader of the catalogue never sees a scan half done: the rows of a    *)
(* watch change with its registration or to all the files of one walk      *)
(* (ScanWatch's transaction).                                              *)
THEOREM ScansReplaceWhole == ASSUME Commands = {} PROVE Spec => CatalogueReplacedWhole
<1>1. ASSUME Inv, [Next]_vars, watched' # watched, NEW w \in Watches,
             RowsOfWatch(w)' # RowsOfWatch(w)
      PROVE  ReplacedWhole(w)
  BY <1>1, WatchedWriters, CommitReplaces, UnwatchReplaces, UnlistReplaces
<1>2. Inv /\ [Next]_vars =>
        [\A w \in Watches :
           LET now == {r \in watched : r.watch = w}
               next == {r \in watched' : r.watch = w}
           IN  next # now =>
                 \/ next = {} /\ watches'[w] = Gone
                 \/ \E p \in Requests :
                      /\ At(p, "scan", "commit") /\ proc[p].watch = w
                      /\ proc'[p].pc = "report"
                      /\ {[path |-> r.path, book |-> r.book] : r \in next} = proc[p].items
                      /\ \A r \in next : Obj(r.user, r.book) \in objects]_watched
  BY <1>1 DEF RowsOfWatch, ReplacedWhole
<1> QED BY <1>2, FilesInvariant, PTL DEF Spec, CatalogueReplacedWhole
=============================================================================
