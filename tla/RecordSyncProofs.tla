-------------------------- MODULE RecordSyncProofs --------------------------
(***************************************************************************)
(* The properties of RecordSync that TLC checks on MCRecordSync, for every *)
(* account, every batch size and every limit.  Inv of RecordSync is the    *)
(* inductive invariant; AccountStoreProofs shows what one operation keeps. *)
(*                                                                         *)
(* Then the safety properties of DeviceSync, for all devices, plans, page  *)
(* and batch sizes and however much is lost or late.  Their invariant is   *)
(* DeviceInv below, stated with operators of the state they are about, so  *)
(* that most lemmas are about constants and serve the committed tables and *)
(* the copy in a transaction alike.                                        *)
(***************************************************************************)
EXTENDS DeviceSync, AccountStoreProofs, FiniteSetTheorems

(* The empty account satisfies everything. *)
LEMMA EmptyStore == EmptyDB \in DB /\ StoreInv(EmptyDB)
<1>1. EmptyRecord \in Record
  BY DEF EmptyRecord, Record
<1>2. EmptyDB \in DB
  BY <1>1 DEF EmptyDB, DB
<1>3. Len(EmptyDB.changes) = 0 /\ EmptyDB.operations = {} /\ EmptyDB.cursor = 0
      /\ EmptyDB.records = [k \in Keys |-> EmptyRecord]
  BY DEF EmptyDB
<1>4. LogMatchesRecords(EmptyDB)
  BY <1>3 DEF LogMatchesRecords, CursorsContiguous, NewestChangeIsRecord,
              RevisionsIncrease, EmptyRecord
<1>5. OneEffect(EmptyDB) /\ NothingLost(EmptyDB) /\ AnswersWithinRecords(EmptyDB)
      /\ ChangesFromOperations(EmptyDB)
  BY <1>3 DEF OneEffect, NothingLost, AnswersWithinRecords, ChangesFromOperations
<1>6. Capacity(EmptyDB)
  BY <1>3, StoreAssumption DEF Capacity, EmptyRecord
<1> QED BY <1>2, <1>4, <1>5, <1>6 DEF StoreInv

(* One turn of the loop of Store.Sync. *)
LEMMA AppliedKeepsStore ==
  ASSUME NEW d \in DB, NEW op \in Operation, ~Refused(d, op), StoreInv(d)
  PROVE  LET a == Applied(d, op)
         IN  /\ a \in DB /\ StoreInv(a)
             /\ d.operations \subseteq a.operations
             /\ [op |-> op, result |-> Result(d, op)] \in a.operations
             /\ Len(d.changes) <= Len(a.changes)
             /\ \A i \in 1 .. Len(d.changes) : a.changes[i] = d.changes[i]
<1>0. Len(d.changes) \in Nat
  BY DEF DB
<1>1. CASE Replayed(d, op)
  <2>1. Applied(d, op) = d
    BY <1>1 DEF Applied
  <2> DEFINE e == CHOOSE f \in d.operations : f.op = op
  <2>2. e \in d.operations /\ e.op = op
    BY <1>1 DEF Replayed
  <2>3. Result(d, op) = e.result
    BY <1>1 DEF Result
  <2> HIDE DEF e
  <2>4. d.operations \subseteq Entry
    BY DEF DB
  <2>5. [op |-> op, result |-> Result(d, op)] = e
    BY <2>2, <2>3, <2>4 DEF Entry
  <2> QED BY <1>0, <2>1, <2>2, <2>5
<1>2. CASE ~Replayed(d, op)
  <2> DEFINE a == Applied(d, op)
             q == NextRecord(op, d.records[op.key])
             w == Write(d, op.key, q)
  <2>1. d.records[op.key] \in Record /\ op.key \in Keys
    BY DEF DB, Operation
  <2>2. q \in Record /\ q.revision = d.records[op.key].revision + 1
    BY <2>1, NextRecordType
  <2>3. LogMatchesRecords(w)
    BY <2>1, <2>2, WriteKeepsLog DEF StoreInv
  <2>4. /\ a \in DB /\ a.cursor = w.cursor /\ a.records = w.records
        /\ a.changes = w.changes
        /\ a.operations = d.operations \cup {[op |-> op, result |-> Result(d, op)]}
    BY <1>2, AppliedNew
  <2>5. Len(a.changes) = Len(d.changes) + 1
        /\ \A i \in 1 .. Len(d.changes) : a.changes[i] = d.changes[i]
    <3>1. /\ w \in DB
          /\ w.cursor = d.cursor + 1
          /\ w.records = [d.records EXCEPT ![op.key] = q]
          /\ w.changes = Append(d.changes, [cursor |-> d.cursor + 1, key |-> op.key,
                                            record |-> q])
          /\ w.operations = d.operations
          /\ Len(w.changes) = Len(d.changes) + 1
          /\ \A i \in 1 .. Len(d.changes) : w.changes[i] = d.changes[i]
          /\ w.changes[Len(d.changes) + 1]
               = [cursor |-> d.cursor + 1, key |-> op.key, record |-> q]
      BY <2>1, <2>2, WriteType
    <3> HIDE DEF a, w
    <3> QED BY <3>1, <2>4
  <2>6. OneEffect(a) /\ ChangesFromOperations(a)
    BY <1>2, AppliedKeepsOneEffect DEF StoreInv
  <2>7. NothingLost(a) /\ AnswersWithinRecords(a) /\ Capacity(a)
    BY <1>2, AppliedLosesNothing, AppliedKeepsCapacity DEF StoreInv
  <2> HIDE DEF a, w, q
  <2>8. LogMatchesRecords(a)
    BY <2>3, <2>4 DEF LogMatchesRecords, CursorsContiguous, NewestChangeIsRecord,
                      RevisionsIncrease
  <2> QED BY <1>0, <2>4, <2>5, <2>6, <2>7, <2>8 DEF StoreInv, a
<1> QED BY <1>1, <1>2

-----------------------------------------------------------------------------

(* The empty account starts the induction. *)
LEMMA InitInv == Init => Inv
BY EmptyStore DEF Init, Inv, TypeOK, TxInv, AnswersDurable

(* A fresh transaction works on a copy of consistent tables. *)
LEMMA BeginInv ==
  ASSUME Inv, NEW since \in 0 .. db.cursor, Begin(since)
  PROVE  Inv'
<1>1. db' = db /\ acked' = acked /\ tx' = [since |-> since, db |-> db, results |-> <<>>]
  BY DEF Begin
<1>2. db \in DB /\ StoreInv(db) /\ Len(db.changes) \in Nat /\ since \in Nat
  BY DEF Inv, TypeOK, DB
<1>3. tx' \in Tx
  BY <1>1, <1>2 DEF Tx
<1>4. TypeOK' /\ AnswersDurable'
  BY <1>1, <1>3 DEF Inv, TypeOK, AnswersDurable
<1>5. tx'.db = db /\ Len(tx'.results) = 0
  BY <1>1
<1>6. TxInv'
  BY <1>1, <1>2, <1>5 DEF TxInv
<1> QED BY <1>1, <1>2, <1>4, <1>6 DEF Inv

(* One operation in the open transaction. *)
LEMMA ApplyInv ==
  ASSUME Inv, NEW op \in Operation, Apply(op)
  PROVE  Inv'
<1> DEFINE a == Applied(tx.db, op)
           e == [op |-> op, result |-> Result(tx.db, op)]
<1>1. /\ tx # NoTx /\ ~Refused(tx.db, op)
      /\ db' = db /\ acked' = acked
      /\ tx' = [tx EXCEPT !.db = a, !.results = Append(tx.results, e)]
  BY DEF Apply
<1>2. op \in Operation /\ tx \in Tx /\ tx.db \in DB /\ tx.results \in Seq(Entry)
  BY <1>1 DEF Inv, TypeOK, Tx
<1>3. /\ StoreInv(tx.db) /\ db.operations \subseteq tx.db.operations
      /\ Len(db.changes) <= Len(tx.db.changes)
      /\ \A i \in 1 .. Len(db.changes) : tx.db.changes[i] = db.changes[i]
      /\ \A i \in 1 .. Len(tx.results) : tx.results[i] \in tx.db.operations
  BY <1>1 DEF Inv, TxInv
<1>4. /\ a \in DB /\ StoreInv(a) /\ tx.db.operations \subseteq a.operations
      /\ e \in a.operations
      /\ Len(tx.db.changes) <= Len(a.changes)
      /\ \A i \in 1 .. Len(tx.db.changes) : a.changes[i] = tx.db.changes[i]
  BY <1>1, <1>2, <1>3, AppliedKeepsStore
<1>5. e \in Entry
  BY <1>2, ResultType DEF Entry
<1> HIDE DEF a, e
<1>6. tx' \in Tx /\ tx'.db = a /\ tx'.results = Append(tx.results, e)
  <2>1. Append(tx.results, e) \in Seq(Entry)
    BY <1>2, <1>5
  <2>2. tx' = [since |-> tx.since, db |-> a, results |-> Append(tx.results, e)]
    BY <1>1, <1>2 DEF Tx
  <2> QED BY <1>2, <1>4, <2>1, <2>2 DEF Tx
<1>7. \A i \in 1 .. Len(tx'.results) : tx'.results[i] \in a.operations
  BY <1>2, <1>3, <1>4, <1>5, <1>6
<1>8. Len(db.changes) \in Nat /\ Len(tx.db.changes) \in Nat /\ Len(a.changes) \in Nat
  BY <1>2, <1>4 DEF Inv, TypeOK, DB
<1>9. TxInv'
  <2>1. db'.operations \subseteq tx'.db.operations
    BY <1>1, <1>3, <1>4, <1>6
  <2>2. Len(db'.changes) <= Len(tx'.db.changes)
    BY <1>1, <1>3, <1>4, <1>6, <1>8
  <2>3. \A i \in 1 .. Len(db'.changes) : tx'.db.changes[i] = db'.changes[i]
    BY <1>1, <1>3, <1>4, <1>6, <1>8
  <2> QED BY <1>4, <1>6, <1>7, <2>1, <2>2, <2>3 DEF TxInv
<1>10. TypeOK' /\ AnswersDurable'
  BY <1>1, <1>6 DEF Inv, TypeOK, AnswersDurable
<1>11. StoreInv(db)'
  BY <1>1 DEF Inv
<1> QED BY <1>9, <1>10, <1>11 DEF Inv

(* Both ways a commit can end: the copy becomes the tables, and only the   *)
(* results collected in it are answered.                                   *)
LEMMA CommitInv ==
  ASSUME Inv, tx # NoTx, db' = tx.db, tx' = NoTx,
         acked' \subseteq acked \cup {tx.results[i] : i \in 1 .. Len(tx.results)}
  PROVE  Inv'
<1>1. /\ StoreInv(tx.db) /\ db.operations \subseteq tx.db.operations
      /\ \A i \in 1 .. Len(tx.results) : tx.results[i] \in tx.db.operations
  BY DEF Inv, TxInv
<1>2. tx.db \in DB /\ acked \subseteq db.operations
  BY DEF Inv, TypeOK, Tx, AnswersDurable
<1>3. acked' \subseteq db'.operations
  BY <1>1, <1>2
<1>4. TypeOK' /\ AnswersDurable'
  BY <1>2, <1>3 DEF TypeOK, AnswersDurable, DB
<1>5. StoreInv(db)' /\ TxInv'
  BY <1>1 DEF TxInv
<1> QED BY <1>4, <1>5 DEF Inv

(* A transaction that is undone leaves the tables as they were. *)
LEMMA RollbackInv ==
  ASSUME Inv, Rollback
  PROVE  Inv'
BY DEF Inv, Rollback, TypeOK, TxInv, AnswersDurable

(* Every step of RecordSync keeps Inv. *)
LEMMA NextInv == Inv /\ [Next]_vars => Inv'
<1> SUFFICES ASSUME Inv, [Next]_vars PROVE Inv'
  OBVIOUS
<1>1. CASE \E since \in 0 .. db.cursor : Begin(since)
  BY <1>1, BeginInv
<1>2. CASE \E op \in Operations : Apply(op)
  BY <1>2, ApplyInv, SyncAssumption
<1>3. CASE Commit
  BY <1>3, CommitInv DEF Commit
<1>4. CASE CommitUnanswered
  BY <1>4, CommitInv DEF CommitUnanswered
<1>5. CASE Rollback
  BY <1>5, RollbackInv
<1>6. CASE UNCHANGED vars
  BY <1>6 DEF vars, Inv, TypeOK, TxInv, AnswersDurable
<1> QED BY <1>1, <1>2, <1>3, <1>4, <1>5, <1>6 DEF Next

(* So Inv holds throughout. *)
LEMMA Invariance == Spec => []Inv
BY InitInv, NextInv, PTL DEF Spec

-----------------------------------------------------------------------------

(* The tables, the open transaction and the answers stay well typed: in    *)
(* particular every stored folder list names a folder once and is within   *)
(* the limit, whatever mix of old and new clients wrote it.                *)
THEOREM TypeCorrect == Spec => []TypeOK
<1>1. Inv => TypeOK
  BY DEF Inv
<1> QED BY <1>1, Invariance, PTL

(* The log and the records agree, inside a transaction too. *)
THEOREM LogAgreement == Spec => []LogAgrees
<1>1. Inv => LogAgrees
  BY DEF Inv, TxInv, StoreInv, LogAgrees
<1> QED BY <1>1, Invariance, PTL

(* Retried, repeated and reordered batches have one effect per operation. *)
THEOREM ExactlyOnce == Spec => []OneEffectPerOperation
<1>1. Inv => OneEffectPerOperation
  BY DEF Inv, StoreInv, OneEffectPerOperation
<1> QED BY <1>1, Invariance, PTL

(* No accepted edit disappears but by an operation that was based on it. *)
THEOREM NoLostEdits == Spec => []NoEditLost
<1>1. Inv => NoEditLost
  BY DEF Inv, StoreInv, NoEditLost
<1> QED BY <1>1, Invariance, PTL

(* No record outgrows the candidate limit. *)
THEOREM BoundedConflicts == Spec => []WithinCapacity
<1>1. Inv => WithinCapacity
  BY DEF Inv, TxInv, StoreInv, WithinCapacity
<1> QED BY <1>1, Invariance, PTL

(* What a client was told survives every crash and failed batch. *)
THEOREM DurableAnswers == Spec => []AnswersDurable
<1>1. Inv => AnswersDurable
  BY DEF Inv
<1> QED BY <1>1, Invariance, PTL

(* Devices never see a change rewritten: the log only grows. *)
THEOREM AppendOnly == Spec => LogAppendOnly
<1>1. Inv /\ [Next]_vars
      => [/\ Len(db.changes) <= Len(db'.changes)
          /\ \A i \in 1 .. Len(db.changes) : db'.changes[i] = db.changes[i]]_db
  <2> SUFFICES ASSUME Inv, [Next]_vars, db' # db
               PROVE  /\ Len(db.changes) <= Len(db'.changes)
                      /\ \A i \in 1 .. Len(db.changes) : db'.changes[i] = db.changes[i]
    OBVIOUS
  <2>1. tx # NoTx /\ db' = tx.db
    BY DEF Next, vars, Begin, Apply, Commit, CommitUnanswered, Rollback
  <2> QED BY <2>1 DEF Inv, TxInv
<1> QED BY <1>1, Invariance, PTL DEF Spec, LogAppendOnly

-----------------------------------------------------------------------------
(* Folders                                                                 *)

(* A canonical value has a list, and its single field names the first.     *)
Canonical(v) == v.folders # Absent /\ v.folder = Primary(v.folders)

(* A record without conflict is settled on a canonical value, and a record *)
(* that was ever written has a candidate.                                  *)
FoldersSettled(d) ==
  \A k \in Keys :
    /\ d.records[k].candidates = <<>> => d.records[k].revision = 0
    /\ k \in BookKeys /\ Sole(d.records[k]) => Canonical(d.records[k].candidates[1].value)

(* In the tables and inside a transaction. *)
FoldersInv == FoldersSettled(db) /\ (tx # NoTx => FoldersSettled(tx.db))

(* What an operation settles a record on is made from two values. *)
LEMMA SettledFrom ==
  ASSUME NEW op \in Operation, NEW r \in Record
  PROVE  LET v == WithMembership(op.value, r)
         IN  /\ v \in Values /\ v.folder = op.value.folder /\ v.folders = op.value.folders
             /\ (IF Sole(r) THEN r.candidates[1].value ELSE Blank(v.body)) \in Values
<1> DEFINE v == WithMembership(op.value, r)
<1>1. op.value \in Values /\ r.candidates \in Seq(Candidate)
  BY DEF Operation, Record
<1>2. Sole(r) => r.candidates[1].value \in Values
  <2>1. Sole(r) => r.candidates[1] \in Candidate
    BY <1>1 DEF Sole
  <2> QED BY <2>1 DEF Candidate
<1>3. v \in Values /\ v.folder = op.value.folder /\ v.folders = op.value.folders
  BY <1>1, <1>2 DEF WithMembership, Values
<1>4. \A b \in Bodies : Blank(b) \in Values
  BY DEF Blank, Values
<1>5. v.body \in Bodies
  BY <1>3 DEF Values
<1> QED BY <1>2, <1>3, <1>4, <1>5

(* The value that was stored has a list, and its single field names the    *)
(* first entry.                                                            *)
LEMMA CanonicalSettles ==
  ASSUME NEW v \in Values, NEW p \in Values
  PROVE  LET w == canonicalBookFolders(v, p)
         IN  /\ Canonical(w) /\ w.folders = NextFolders(v, p)
             /\ w.folder = Primary(NextFolders(v, p))
<1> DEFINE w == canonicalBookFolders(v, p)
           fs == NextFolders(v, p)
<1>1. w = [v EXCEPT !.folders = fs, !.folder = Primary(fs),
                    !.format = IF v.format = Absent THEN p.format ELSE v.format]
  BY DEF canonicalBookFolders
<1>2. w \in Values
  BY CanonicalType
<1> HIDE DEF fs
<1>3. w.folders = fs /\ w.folder = Primary(fs)
  BY <1>1 DEF Values
<1>4. fs # Absent
  <2>1. fs \in FolderLists
    BY NextFoldersType DEF fs
  <2> QED BY <2>1, FolderAssumption DEF FolderLists
<1> QED BY <1>3, <1>4 DEF Canonical, fs

(* The record an operation leaves behind: unless it is in conflict, its    *)
(* own value is the only candidate.                                        *)
LEMMA NextCandidates ==
  ASSUME NEW op \in Operation, NEW r \in Record, r.candidates = <<>> => ~Conflicts(op, r)
  PROVE  LET n == NextRecord(op, r)
         IN  /\ n.candidates # <<>> /\ n.revision = r.revision + 1
             /\ ~Conflicts(op, r) => /\ Len(n.candidates) = 1
                                     /\ n.candidates[1] = [op |-> op.id, deleted |-> op.deleted,
                                                           value |-> Settled(op, r)]
             /\ Len(n.candidates) = 1 => ~Conflicts(op, r)
<1> DEFINE c == [op |-> op.id, deleted |-> op.deleted, value |-> Settled(op, r)]
           kept == Kept(op, r)
           n == NextRecord(op, r)
<1>1. n.candidates = Append(kept, c) /\ n.revision = r.revision + 1
  BY DEF NextRecord
<1>3. ~Conflicts(op, r) => kept = <<>>
  BY DEF Kept
<1>4. r.candidates \in Seq(Candidate) /\ (kept = <<>> \/ kept = r.candidates)
  BY DEF Kept, Record
<1> HIDE DEF c, kept, n
<1>5. kept \in Seq(Candidate) /\ (Len(kept) = 0 <=> kept = <<>>) /\ Len(kept) \in Nat
  <2>1. <<>> \in Seq(Candidate)
    OBVIOUS
  <2>2. kept \in Seq(Candidate)
    BY ONLY <1>4, <2>1
  <2> QED BY ONLY <2>2
<1>6. Len(Append(kept, c)) = Len(kept) + 1 /\ Append(kept, c) # <<>>
  BY <1>5
<1>7. ASSUME ~Conflicts(op, r) PROVE Len(n.candidates) = 1 /\ n.candidates[1] = c
  <2>1. n.candidates = Append(<<>>, c)
    BY <1>1, <1>3, <1>7
  <2> QED BY <2>1
<1>8. ASSUME Conflicts(op, r) PROVE Len(n.candidates) # 1
  <2>1. kept # <<>>
    BY <1>8 DEF Kept, kept
  <2>2. Len(kept) # 0
    BY <1>5, <2>1
  <2> QED BY <1>1, <1>5, <1>6, <2>2
<1> QED BY <1>1, <1>6, <1>7, <1>8 DEF c, n

(* An operation settles its record on canonical folders or leaves it in    *)
(* conflict.                                                               *)
LEMMA AppliedSettles ==
  ASSUME NEW d \in DB, NEW op \in Operation, ~Refused(d, op), FoldersSettled(d)
  PROVE  FoldersSettled(Applied(d, op))
<1> DEFINE a == Applied(d, op)
           r == d.records[op.key]
           n == NextRecord(op, r)
<1>1. CASE Replayed(d, op)
  BY <1>1 DEF Applied
<1>2. CASE ~Replayed(d, op)
  <2>1. op.key \in Keys /\ r \in Record /\ d.records \in [Keys -> Record]
    BY DEF Operation, DB
  <2>2. a.records = [d.records EXCEPT ![op.key] = n]
    BY <1>2, AppliedNew DEF Write
  <2>3. /\ a.records[op.key] = n
        /\ \A k \in Keys : k # op.key => a.records[k] = d.records[k]
    BY <2>1, <2>2
  <2>4. op.base <= r.revision
    <3>1. Recorded(d, op.id) = {}
      BY <1>2 DEF Refused
    <3>2. ~(op.base > r.revision)
      BY <3>1 DEF Refused
    <3> QED BY <2>1, <3>2 DEF Operation, Record
  <2>5. ASSUME r.candidates = <<>> PROVE ~Conflicts(op, r)
    <3>1. r.revision = 0 /\ op.base \in Nat
      BY <2>1, <2>5 DEF FoldersSettled, Operation
    <3> QED BY <2>4, <3>1 DEF Conflicts
  <2>6. /\ n.candidates # <<>>
        /\ ~Conflicts(op, r) => n.candidates[1] = [op |-> op.id, deleted |-> op.deleted,
                                                   value |-> Settled(op, r)]
        /\ Len(n.candidates) = 1 => ~Conflicts(op, r)
    BY <2>1, <2>5, NextCandidates
  <2>7. ASSUME op.key \in BookKeys, Sole(n) PROVE Canonical(n.candidates[1].value)
    <3>1. ~Conflicts(op, r)
      BY <2>6, <2>7 DEF Sole
    <3>2. n.candidates[1].value = Settled(op, r) /\ ~op.deleted
      BY <2>6, <2>7, <3>1 DEF Sole
    <3> DEFINE v == WithMembership(op.value, r)
               p == IF Sole(r) THEN r.candidates[1].value ELSE Blank(v.body)
    <3>3. Settled(op, r) = canonicalBookFolders(v, p)
      BY <2>7, <3>1, <3>2 DEF Settled
    <3>4. v \in Values /\ p \in Values
      BY <2>1, SettledFrom
    <3> HIDE DEF v, p
    <3> QED BY <3>2, <3>3, <3>4, CanonicalSettles
  <2> QED BY <2>3, <2>6, <2>7 DEF FoldersSettled
<1> QED BY <1>1, <1>2

(* An edit in the old form keeps the folders, whatever value it replaces.  *)
LEMMA LegacyKeeps ==
  ASSUME NEW v \in Values, NEW p \in Values, Canonical(p), v.folders = Absent
  PROVE  LET w == canonicalBookFolders(v, p)
         IN  /\ FoldersOf(p) \ {p.folder} \subseteq FoldersOf(w)
             /\ v.folder = Absent => w.folders = p.folders
             /\ v.folder # Absent => w.folder = v.folder \/ v.folder = NoFolder
<1> DEFINE w == canonicalBookFolders(v, p)
           fs == NextFolders(v, p)
<1>1. w.folders = fs /\ w.folder = Primary(fs)
  BY CanonicalSettles
<1>2. p.folders # Absent /\ p.folder = Primary(p.folders) /\ p.folders \in FolderLists
  BY DEF Canonical, Values
<1>3. metadataFolders(p) = p.folders
  BY <1>2 DEF metadataFolders
<1>4. fs = IF v.folder \in {Absent, p.folder} THEN p.folders ELSE MovedTo(v.folder, p.folders)
  BY <1>2, <1>3 DEF NextFolders
<1> HIDE DEF w, fs
<1>5. CASE v.folder \in {Absent, p.folder}
  <2>1. fs = p.folders
    BY <1>4, <1>5
  <2> QED BY <1>1, <1>2, <1>5, <2>1 DEF FoldersOf, w
<1>6. CASE v.folder \notin {Absent, p.folder}
  <2>1. v.folder \in Folders \cup {NoFolder}
    BY <1>6 DEF Values
  <2>2. fs = MovedTo(v.folder, p.folders)
    BY <1>4, <1>6
  <2>3. /\ \A i \in 1 .. Len(p.folders) : p.folders[i] # p.folder
             => \E j \in 1 .. Len(fs) : fs[j] = p.folders[i]
        /\ Primary(fs) = v.folder \/ v.folder = NoFolder
    BY <1>2, <2>1, <2>2, MovedToKeeps
  <2>4. FoldersOf(p) \ {p.folder} \subseteq FoldersOf(w)
    BY <1>1, <2>3 DEF FoldersOf
  <2> QED BY <1>1, <1>6, <2>3, <2>4 DEF w
<1> QED BY <1>5, <1>6

(* No record is settled in the empty account. *)
LEMMA FoldersInit == Init => FoldersInv
BY DEF Init, FoldersInv, FoldersSettled, EmptyDB, EmptyRecord, Sole

(* Every operation keeps settled records canonical. *)
LEMMA FoldersNext == Inv /\ FoldersInv /\ [Next]_vars => FoldersInv'
<1> SUFFICES ASSUME Inv, FoldersInv, [Next]_vars PROVE FoldersInv'
  OBVIOUS
<1>1. ASSUME NEW since \in 0 .. db.cursor, Begin(since) PROVE FoldersInv'
  BY <1>1 DEF FoldersInv, Begin
<1>2. ASSUME NEW op \in Operations, Apply(op) PROVE FoldersInv'
  <2>1. /\ tx # NoTx /\ ~Refused(tx.db, op) /\ db' = db
        /\ tx' = [tx EXCEPT !.db = Applied(tx.db, op),
                            !.results = Append(tx.results,
                                               [op |-> op, result |-> Result(tx.db, op)])]
    BY <1>2 DEF Apply
  <2>2. tx \in Tx /\ tx.db \in DB /\ op \in Operation
    BY <2>1, SyncAssumption DEF Inv, TypeOK, Tx
  <2>3. tx'.db = Applied(tx.db, op)
    BY <2>1, <2>2 DEF Tx
  <2> QED BY <2>1, <2>2, <2>3, AppliedSettles DEF FoldersInv
<1>3. CASE Commit \/ CommitUnanswered \/ Rollback
  BY <1>3 DEF FoldersInv, Commit, CommitUnanswered, Rollback
<1>4. CASE UNCHANGED vars
  BY <1>4 DEF FoldersInv, vars
<1> QED BY <1>1, <1>2, <1>3, <1>4 DEF Next

(* Wherever a book's record is not in conflict, its two folder fields      *)
(* agree, whatever mix of clients wrote it (canonicalBookFolders).         *)
THEOREM CanonicalFolders == Spec => []FoldersInv
<1>1. Inv /\ FoldersInv /\ [Next]_vars => FoldersInv'
  BY FoldersNext
<1> QED BY <1>1, FoldersInit, Invariance, PTL DEF Spec

(* An up-to-date edit of a client that knows only the primary folder keeps *)
(* the other memberships (canonicalBookFolders).                           *)
THEOREM LegacyEditsAreSafe == Spec => LegacyEditKeepsFolders
<1>1. ASSUME Inv, FoldersInv, [Next]_vars, tx' # tx,
             NEW e \in IF tx = NoTx \/ tx' = NoTx THEN {}
                       ELSE tx'.db.operations \ tx.db.operations,
             e.op.key \in BookKeys, ~e.op.deleted, ~e.result.conflict,
             e.op.value.folders = Absent, Sole(tx.db.records[e.op.key])
      PROVE  LET before == tx.db.records[e.op.key].candidates[1].value
                 after == tx'.db.records[e.op.key].candidates[1].value
             IN  /\ FoldersOf(before) \ {before.folder} \subseteq FoldersOf(after)
                 /\ e.op.value.folder = Absent => after.folders = before.folders
                 /\ e.op.value.folder # Absent => after.folder = e.op.value.folder
                                                 \/ e.op.value.folder = NoFolder
  <2>1. tx # NoTx /\ tx' # NoTx /\ e \in tx'.db.operations /\ e \notin tx.db.operations
    BY <1>1
  <2>2. PICK op \in Operations : Apply(op)
    BY <1>1, <2>1 DEF Next, vars, Begin, Commit, CommitUnanswered, Rollback
  <2>3. /\ ~Refused(tx.db, op)
        /\ tx' = [tx EXCEPT !.db = Applied(tx.db, op),
                            !.results = Append(tx.results,
                                               [op |-> op, result |-> Result(tx.db, op)])]
    BY <2>2 DEF Apply
  <2>4. tx \in Tx /\ tx.db \in DB /\ op \in Operation
    BY <1>1, <2>1, SyncAssumption DEF Inv, TypeOK, Tx
  <2>5. tx'.db = Applied(tx.db, op)
    BY <2>3, <2>4 DEF Tx
  <2>6. ~Replayed(tx.db, op)
    BY <2>1, <2>5 DEF Applied
  <2> DEFINE r == tx.db.records[op.key]
             n == NextRecord(op, r)
             v == WithMembership(op.value, r)
             p == r.candidates[1].value
  <2>7. /\ tx'.db.operations = tx.db.operations \cup {[op |-> op, result |-> Result(tx.db, op)]}
        /\ tx'.db.records = [tx.db.records EXCEPT ![op.key] = n]
    <3> DEFINE d == tx.db
    <3>1. d \in DB /\ ~Replayed(d, op)
      BY <2>4, <2>6
    <3> HIDE DEF d
    <3>2. Applied(d, op).operations = d.operations \cup {[op |-> op, result |-> Result(d, op)]}
      BY <2>4, <3>1, AppliedNew
    <3>3. Applied(d, op).records = [d.records EXCEPT ![op.key] = NextRecord(op, d.records[op.key])]
      BY <2>4, <3>1, AppliedNew DEF Write
    <3> QED BY <2>5, <3>2, <3>3 DEF d
  <2>8. e.op = op /\ e.result = Result(tx.db, op)
    BY <2>1, <2>7
  <2>9. op.key \in Keys /\ r \in Record /\ tx.db.records \in [Keys -> Record]
    BY <2>4 DEF Operation, DB
  <2>10. ~Conflicts(op, r)
    BY <1>1, <2>6, <2>8 DEF Result
  <2>11. Sole(r) /\ op.key \in BookKeys /\ ~op.deleted /\ op.value.folders = Absent
    BY <1>1, <2>8
  <2>12. r.candidates # <<>>
    BY <2>9, <2>11 DEF Sole, Record
  <2>13. tx'.db.records[op.key] = n /\ n.candidates[1].value = Settled(op, r)
    <3>1. tx'.db.records[op.key] = n
      BY <2>7, <2>9
    <3>2. n.candidates[1] = [op |-> op.id, deleted |-> op.deleted, value |-> Settled(op, r)]
      BY <2>4, <2>9, <2>10, <2>12, NextCandidates
    <3> QED BY <3>1, <3>2
  <2>14. Settled(op, r) = canonicalBookFolders(v, p)
    BY <2>10, <2>11 DEF Settled
  <2>15. v \in Values /\ p \in Values /\ v.folder = op.value.folder /\ v.folders = Absent
    BY <2>4, <2>9, <2>11, SettledFrom
  <2>16. Canonical(p)
    BY <1>1, <2>1, <2>9, <2>11 DEF FoldersInv, FoldersSettled
  <2>17. tx'.db.records[e.op.key].candidates[1].value = canonicalBookFolders(v, p)
         /\ tx.db.records[e.op.key].candidates[1].value = p
    BY <2>8, <2>13, <2>14
  <2> HIDE DEF v, p
  <2> QED BY <2>8, <2>15, <2>16, <2>17, LegacyKeeps
<1>2. Inv /\ FoldersInv /\ [Next]_vars
      => [\A e \in IF tx = NoTx \/ tx' = NoTx THEN {}
                   ELSE tx'.db.operations \ tx.db.operations :
            LET old == tx.db.records[e.op.key]
                new == tx'.db.records[e.op.key].candidates
            IN  /\ e.op.key \in BookKeys /\ ~e.op.deleted /\ ~e.result.conflict
                /\ e.op.value.folders = Absent
                /\ Sole(old)
                => LET before == old.candidates[1].value
                       after == new[1].value
                   IN  /\ FoldersOf(before) \ {before.folder} \subseteq FoldersOf(after)
                       /\ e.op.value.folder = Absent => after.folders = before.folders
                       /\ e.op.value.folder # Absent => after.folder = e.op.value.folder
                                                       \/ e.op.value.folder = NoFolder]_tx
  BY <1>1
<1> QED BY <1>2, CanonicalFolders, Invariance, PTL DEF Spec, LegacyEditKeepsFolders

-----------------------------------------------------------------------------
(* Devices: the invariant                                                  *)
(*                                                                         *)
(* E, O, C, G, P and L stand for edits, outbox, cursor, got, reply and     *)
(* late, R for req, T for tx and D for tables: the committed ones or the   *)
(* copy of the open transaction. An edit is known by its place in E[d].    *)

(* The number of edits of device d that were acknowledged.                 *)
Done(E, O, d) == Len(E[d]) - Len(O[d])

(* The operation that made a change. *)
LastOp(c) == c.record.candidates[Len(c.record.candidates)].op

(* Id is recorded in tables D. *)
Known(D, id) == Recorded(D, id) # {}

(* The outbox is the end of the list of edits, which follows the plan. *)
Queues(E, O) ==
  /\ E \in [Devices -> Seq(Operation)]
  /\ O \in [Devices -> Seq(Operation)]
  /\ \A d \in Devices :
       /\ Len(E[d]) <= Len(Plans[d])
       /\ Len(O[d]) <= Len(E[d])
       /\ \A n \in 1 .. Len(E[d]) :
            E[d][n].id = Plans[d][n].id /\ E[d][n].key = Plans[d][n].key
       /\ \A i \in 1 .. Len(O[d]) : O[d][i] = E[d][Done(E, O, d) + i]

(* What a device has applied is the log up to its cursor. *)
LogRead(D, C, G) ==
  /\ C \in [Devices -> Nat]
  /\ G \in [Devices -> Seq(Change)]
  /\ \A d \in Devices :
       /\ C[d] <= Len(D.changes)
       /\ Len(G[d]) = C[d]
       /\ \A i \in 1 .. C[d] : G[d][i] = D.changes[i]

(* A device that has read its own change has the answer to it too. *)
OwnRead(E, O, G) ==
  \A d \in Devices : \A n \in 1 .. Len(E[d]), i \in 1 .. Len(G[d]) :
    LastOp(G[d][i]) = E[d][n].id => n <= Done(E, O, d)

(* What was acknowledged is recorded. *)
DoneKnown(D, E, O) ==
  \A d \in Devices : \A n \in 1 .. Done(E, O, d) : Known(D, E[d][n].id)

(* The revisions of a record are answered one by one. *)
Counted(D) ==
  /\ \A e \in D.operations : e.result.id = e.op.id /\ e.result.revision >= 1
  /\ \A k \in Keys :
       /\ Len(D.records[k].candidates) <= D.records[k].revision
       /\ \A r \in 1 .. D.records[k].revision :
            \E e \in D.operations : e.op.key = k /\ e.result.revision = r

(* Nobody but the devices writes to the account. *)
FromEdits(D, E) ==
  \A e \in D.operations : \E d \in Devices : \E n \in 1 .. Len(E[d]) : e.op = E[d][n]

(* A device has at most one batch recorded that it does not know of. *)
InReach(D, E, O) ==
  \A d \in Devices : \A n \in 1 .. Len(E[d]) :
    Known(D, E[d][n].id) => n <= Done(E, O, d) + MaxBatch

(* Device d applied the change that entry f made. *)
Seen(G, d, f) ==
  \E i \in 1 .. Len(G[d]) : /\ G[d][i].key = f.op.key
                            /\ G[d][i].record.revision = f.result.revision

(* Edits of the key of edit n, after edit m and before n. *)
Pending(E, d, m, n) == {j \in m + 1 .. n - 1 : E[d][j].key = E[d][n].key}

(* Edit n was made when the device knew revision s and had acknowledged m. *)
BasedOn(D, E, G, d, n, s, m) ==
  /\ E[d][n].base = s + Cardinality(Pending(E, d, m, n))
  /\ s <= D.records[E[d][n].key].revision
  /\ \A f \in D.operations :
       f.op.key = E[d][n].key /\ f.result.revision <= s
       => /\ Seen(G, d, f)
          /\ \A j \in Pending(E, d, m, n) : f.op.id # E[d][j].id

(* Every edit was made that way. *)
Based(D, E, G) ==
  \A d \in Devices : \A n \in 1 .. Len(E[d]) :
    \E s \in 0 .. E[d][n].base, m \in 0 .. n - 1 : BasedOn(D, E, G, d, n, s, m)

(* NothingUnseenReplaced, of any tables. *)
Mine(E, d, f) == \E n \in 1 .. Len(E[d]) : E[d][n].id = f.op.id

(* What an edit without conflict replaced was its own device's or seen. *)
ReplacedSeen(D, E, G) ==
  \A d \in Devices, e, f \in D.operations :
    /\ Mine(E, d, e) /\ ~e.result.conflict
    /\ f.op.key = e.op.key /\ f.result.revision < e.result.revision
    => Mine(E, d, f) \/ Seen(G, d, f)

(* What holds of the committed tables and inside a transaction. *)
TablesOf(D, E, O, G) ==
  /\ Counted(D)
  /\ FromEdits(D, E)
  /\ InReach(D, E, O)
  /\ Based(D, E, G)
  /\ ReplacedSeen(D, E, G)

(* ops are the edits of d that follow its edit b. *)
Segment(E, d, b, ops) ==
  /\ ops \in Seq(Operation)
  /\ b + Len(ops) <= Len(E[d])
  /\ \A i \in 1 .. Len(ops) : ops[i] = E[d][b + i]

(* A late request starts among the edits acknowledged by now. *)
LateFits(L, E, O) ==
  \A q \in L : \E d \in Devices : \E b \in 0 .. Done(E, O, d) :
    Segment(E, d, b, q.ops) /\ Len(q.ops) <= MaxBatch

(* Request R of device d in transaction T stands after edit b.  An answer  *)
(* will name exactly the edits that were taken from the outbox.            *)
Own(R, T, E, O, C, P, d, b) ==
  /\ d = R.from
  /\ b = Done(E, O, d) + Len(T.results)
  /\ T.since = C[d]
  /\ P[d] = None
  /\ \A i \in 1 .. Len(T.results) : T.results[i].result.id = E[d][Done(E, O, d) + i].id
  /\ \A n \in 1 .. Len(E[d]) : Known(T.db, E[d][n].id) => n <= b + Len(R.ops)

(* Request R goes on with the edits of d after edit b. *)
Stands(R, T, E, O, d, b) ==
  /\ Segment(E, d, b, R.ops)
  /\ b + Len(R.ops) <= Done(E, O, d) + MaxBatch
  /\ \A n \in 1 .. b : Known(T.db, E[d][n].id)

(* The open request. *)
ReqFits(R, T, E, O, C, P) ==
  \E d \in Devices : \E b \in 0 .. Len(E[d]) :
    /\ Stands(R, T, E, O, d, b)
    /\ R.from # None => Own(R, T, E, O, C, P, d, b)

(* An answer under way continues the log at the cursor and names a part of *)
(* the outbox that includes whatever own change it carries.                *)
ReplyFits(D, E, O, C, d, p) ==
  /\ p.page \in Seq(Change)
  /\ p.cursor = C[d] + Len(p.page)
  /\ p.cursor <= Len(D.changes)
  /\ \A i \in 1 .. Len(p.page) : p.page[i] = D.changes[C[d] + i]
  /\ \E m \in 0 .. Len(O[d]) :
       /\ p.answered = {E[d][Done(E, O, d) + i].id : i \in 1 .. m}
       /\ \A i \in 1 .. m : Known(D, E[d][Done(E, O, d) + i].id)
       /\ \A n \in 1 .. Len(E[d]), j \in 1 .. Len(p.page) :
            LastOp(p.page[j]) = E[d][n].id => n <= Done(E, O, d) + m

(* The answers under way. *)
RepliesFit(P, D, E, O, C) ==
  /\ P = [d \in Devices |-> P[d]]
  /\ \A d \in Devices : P[d] # None => ReplyFits(D, E, O, C, d, P[d])

(* The inductive invariant of DeviceSync. *)
DeviceInv ==
  /\ Inv
  /\ Queues(edits, outbox)
  /\ LogRead(db, cursor, got)
  /\ OwnRead(edits, outbox, got)
  /\ DoneKnown(db, edits, outbox)
  /\ TablesOf(db, edits, outbox, got)
  /\ tx # NoTx => TablesOf(tx.db, edits, outbox, got)
  /\ LateFits(late, edits, outbox)
  /\ \A q \in late : q.since \in Nat
  /\ req # None => /\ tx # NoTx
                   /\ req = [from |-> req.from, ops |-> req.ops]
                   /\ ReqFits(req, tx, edits, outbox, cursor, reply)
  /\ RepliesFit(reply, db, edits, outbox, cursor)

-----------------------------------------------------------------------------
(* Devices: what the tables say of an edit                                 *)

(* Ids tell edits apart, whoever made them. *)
LEMMA EditOfId ==
  ASSUME NEW E, NEW O, Queues(E, O), NEW c \in Devices, NEW d \in Devices,
         NEW m \in 1 .. Len(E[c]), NEW n \in 1 .. Len(E[d]), E[c][m].id = E[d][n].id
  PROVE  c = d /\ m = n
<1>1. /\ Len(E[c]) \in Nat /\ Len(E[d]) \in Nat /\ Len(Plans[c]) \in Nat /\ Len(Plans[d]) \in Nat
  BY PlanAssumption DEF Queues
<1>2. m \in 1 .. Len(Plans[c]) /\ n \in 1 .. Len(Plans[d])
  BY <1>1 DEF Queues
<1>3. Plans[c][m].id = Plans[d][n].id
  BY DEF Queues
<1> QED BY <1>2, <1>3, PlanAssumption

(* The entry of a recorded edit is for that edit. *)
LEMMA EntryOfEdit ==
  ASSUME NEW E, NEW O, Queues(E, O), NEW D, FromEdits(D, E),
         NEW d \in Devices, NEW n \in 1 .. Len(E[d]),
         NEW e \in D.operations, e.op.id = E[d][n].id
  PROVE  e.op = E[d][n]
<1>1. PICK c \in Devices : \E m \in 1 .. Len(E[c]) : e.op = E[c][m]
  BY DEF FromEdits
<1>2. PICK m \in 1 .. Len(E[c]) : e.op = E[c][m]
  BY <1>1
<1> QED BY <1>2, EditOfId

(* A revision of a record was answered to one operation. *)
LEMMA OneRevision ==
  ASSUME NEW D \in DB, StoreInv(D), NEW e \in D.operations, NEW f \in D.operations,
         e.op.key = f.op.key, e.result.revision = f.result.revision
  PROVE  e = f
<1> DEFINE n == Len(D.changes)
<1>1. OneEffect(D) /\ RevisionsIncrease(D)
  BY DEF StoreInv, LogMatchesRecords
<1>2. PICK i \in 1 .. n : /\ D.changes[i].key = e.op.key
                          /\ D.changes[i].record.revision = e.result.revision
                          /\ LastOp(D.changes[i]) = e.op.id
  BY <1>1 DEF OneEffect, LastOp
<1>3. PICK j \in 1 .. n : /\ D.changes[j].key = f.op.key
                          /\ D.changes[j].record.revision = f.result.revision
                          /\ LastOp(D.changes[j]) = f.op.id
  BY <1>1 DEF OneEffect, LastOp
<1>4. D.changes \in Seq(Change) /\ n \in Nat
  BY DEF DB
<1>5. D.changes[i].record.revision \in Nat /\ D.changes[j].record.revision \in Nat
  <2>1. \A c \in Change : c.record.revision \in Nat
    BY DEF Change, Record
  <2>2. D.changes[i] \in Change /\ D.changes[j] \in Change
    BY <1>4
  <2> QED BY <2>1, <2>2
<1>6. i = j
  BY <1>1, <1>2, <1>3, <1>4, <1>5 DEF RevisionsIncrease
<1> QED BY <1>1, <1>2, <1>3, <1>6 DEF OneEffect

(* Numbers one to one into an interval: no more than it has, and all of it *)
(* when as many.                                                           *)
LEMMA Pigeons ==
  ASSUME NEW a \in Nat, NEW b \in Nat, a <= b, NEW M, NEW f \in [M -> a + 1 .. b],
         \A x, y \in M : f[x] = f[y] => x = y
  PROVE  /\ Cardinality(M) \in Nat
         /\ a + Cardinality(M) <= b
         /\ a + Cardinality(M) = b => \A r \in a + 1 .. b : \E x \in M : f[x] = r
<1> DEFINE T == a + 1 .. b
<1>1. f \in Injection(M, T)
  BY DEF Injection, IsInjective
<1>2. a + 1 \in Int /\ b \in Int /\ IsFiniteSet(T)
      /\ Cardinality(T) = IF a + 1 > b THEN 0 ELSE b - (a + 1) + 1
  BY FS_Interval
<1>3. Cardinality(T) = b - a
  BY <1>2
<1> HIDE DEF T
<1>4. /\ IsFiniteSet(M) /\ Cardinality(M) <= Cardinality(T)
      /\ Cardinality(M) = Cardinality(T) => f \in Surjection(M, T)
  BY <1>1, <1>2, FS_Injection
<1>5. Cardinality(M) \in Nat
  BY <1>4, FS_CardinalityType
<1>6. a + Cardinality(M) = b => \A r \in T : \E x \in M : f[x] = r
  BY <1>3, <1>4, <1>5 DEF Surjection
<1> QED BY <1>3, <1>4, <1>5, <1>6 DEF T

(* The base of an edit whose predecessors are recorded is a revision its   *)
(* record has reached, and if it is the last one, then the device made or  *)
(* read every operation of that record.                                    *)
LEMMA BaseCovers ==
  ASSUME NEW D \in DB, StoreInv(D), NEW E, NEW O, NEW G, Queues(E, O), TablesOf(D, E, O, G),
         NEW d \in Devices, NEW n \in 1 .. Len(E[d]),
         \A m \in 1 .. n - 1 : Known(D, E[d][m].id)
  PROVE  LET k == E[d][n].key
         IN  /\ E[d][n].base <= D.records[k].revision
             /\ E[d][n].base = D.records[k].revision
                => \A f \in D.operations : f.op.key = k => Mine(E, d, f) \/ Seen(G, d, f)
<1> DEFINE k == E[d][n].key
           rev == D.records[k].revision
<1>1. FromEdits(D, E) /\ Counted(D) /\ AnswersWithinRecords(D)
  BY DEF TablesOf, StoreInv
<1>2. PICK s \in 0 .. E[d][n].base, m \in 0 .. n - 1 : BasedOn(D, E, G, d, n, s, m)
  BY DEF TablesOf, Based
<1>3. /\ E[d] \in Seq(Operation) /\ Len(E[d]) \in Nat /\ E[d][n] \in Operation
  BY DEF Queues
<1>4. k \in Keys /\ rev \in Nat /\ s \in Nat /\ m \in Nat /\ E[d][n].base \in Nat
  <2>1. k \in Keys /\ E[d][n].base \in Nat
    BY <1>3 DEF Operation
  <2>2. D.records[k] \in Record
    BY <2>1 DEF DB
  <2> QED BY <2>1, <2>2 DEF Record
<1>5. D.operations \subseteq Entry /\ \A e \in D.operations : e.result.revision \in Nat
  BY DEF DB, Entry, OperationResult
<1> DEFINE M == Pending(E, d, m, n)
           entry(j) == CHOOSE e \in D.operations : e.op.id = E[d][j].id
           g == [j \in M |-> entry(j).result.revision]
<1>6. \A j \in M : j \in 1 .. n - 1 /\ j \in 1 .. Len(E[d]) /\ E[d][j].key = k
  BY <1>3, <1>4 DEF Pending
<1>7. \A j \in M : entry(j) \in D.operations /\ entry(j).op.id = E[d][j].id
  BY <1>6 DEF Known, Recorded
<1> HIDE DEF M, entry
<1>8. \A j \in M : entry(j).op = E[d][j]
  BY <1>1, <1>6, <1>7, EntryOfEdit
<1>9. \A j \in M : entry(j).op.key = k /\ entry(j).result.revision \in s + 1 .. rev
  <2> TAKE j \in M
  <2>1. entry(j).op.key = k
    BY <1>6, <1>8
  <2>2. entry(j).result.revision <= rev
    BY <1>1, <1>7, <2>1 DEF AnswersWithinRecords
  <2>3. ~(entry(j).result.revision <= s)
    BY <1>2, <1>7, <2>1 DEF BasedOn, M
  <2>4. entry(j).result.revision \in Nat
    BY <1>5, <1>7
  <2> QED BY <1>4, <2>1, <2>2, <2>3, <2>4
<1>10. \A x, y \in M : g[x] = g[y] => x = y
  <2> SUFFICES ASSUME NEW x \in M, NEW y \in M, g[x] = g[y] PROVE x = y
    OBVIOUS
  <2>1. entry(x) = entry(y)
    BY <1>7, <1>9, OneRevision
  <2>2. E[d][x].id = E[d][y].id
    BY <1>7, <2>1
  <2> QED BY <1>6, <2>2, EditOfId
<1>11. g \in [M -> s + 1 .. rev]
  BY <1>9
<1>12. s <= rev /\ E[d][n].base = s + Cardinality(M)
  BY <1>2 DEF BasedOn, M
<1>13. /\ Cardinality(M) \in Nat
       /\ s + Cardinality(M) <= rev
       /\ s + Cardinality(M) = rev => \A r \in s + 1 .. rev : \E x \in M : g[x] = r
  <2> HIDE DEF g, rev
  <2> QED BY <1>4, <1>10, <1>11, <1>12, Pigeons
<1>14. ASSUME E[d][n].base = rev, NEW f \in D.operations, f.op.key = k
       PROVE  Mine(E, d, f) \/ Seen(G, d, f)
  <2>1. f.result.revision \in Nat /\ f.result.revision <= rev
    BY <1>1, <1>5, <1>14 DEF AnswersWithinRecords
  <2>2. CASE f.result.revision <= s
    BY <1>2, <1>14, <2>2 DEF BasedOn
  <2>3. CASE ~(f.result.revision <= s)
    <3>1. f.result.revision \in s + 1 .. rev
      BY <1>4, <2>1, <2>3
    <3>2. PICK x \in M : g[x] = f.result.revision
      BY <1>12, <1>13, <1>14, <3>1
    <3>3. entry(x) = f
      BY <1>7, <1>9, <1>14, <3>2, OneRevision
    <3>4. f.op.id = E[d][x].id
      BY <1>7, <3>3
    <3> QED BY <1>6, <3>4 DEF Mine
  <2> QED BY <2>2, <2>3
<1> QED BY <1>12, <1>13, <1>14

-----------------------------------------------------------------------------
(* What a new operation leaves known of the entries. *)
LEMMA NewEntry ==
  ASSUME NEW D \in DB, StoreInv(D), NEW op \in Operation, ~Replayed(D, op), ~Refused(D, op)
  PROVE  LET a == Applied(D, op)
             e == [op |-> op, result |-> Result(D, op)]
         IN  /\ a.operations = D.operations \cup {e}
             /\ e.op = op /\ e.result.id = op.id
             /\ e.result.revision = D.records[op.key].revision + 1
             /\ e.result.conflict = (op.base # D.records[op.key].revision)
             /\ op.key \in Keys /\ D.records[op.key].revision \in Nat
             /\ a.records[op.key].revision = D.records[op.key].revision + 1
             /\ Len(D.records[op.key].candidates) <= D.records[op.key].revision
                => Len(a.records[op.key].candidates) <= a.records[op.key].revision
             /\ \A k \in Keys : k # op.key => a.records[k] = D.records[k]
<1> DEFINE a == Applied(D, op)
           n == Len(D.changes)
           r == D.records[op.key]
           q == NextRecord(op, r)
           e == [op |-> op, result |-> Result(D, op)]
<1>1. /\ a \in DB /\ a.records = [D.records EXCEPT ![op.key] = q]
      /\ a.operations = D.operations \cup {e}
      /\ n \in Nat /\ Len(a.changes) = n + 1
      /\ \A i \in 1 .. n : a.changes[i] = D.changes[i]
      /\ a.changes[n + 1].key = op.key /\ a.changes[n + 1].record = q
      /\ op.key \in Keys /\ r \in Record /\ q \in Record
      /\ q.revision = r.revision + 1
      /\ e \in Entry /\ e.op = op /\ e.result.revision = r.revision + 1
      /\ e.result.conflict = Conflicts(op, r)
      /\ \A f \in D.operations : f.op.id # op.id
      /\ op.base <= r.revision /\ Len(Kept(op, r)) < MaxCandidates
  BY NewOperationFacts, Zenon
<1>2. e.result.id = op.id
  BY DEF Result
<1>3. /\ Kept(op, r) \in Seq(Candidate)
      /\ Len(q.candidates) = Len(Kept(op, r)) + 1
  BY <1>1, NextRecordType
<1>4. Kept(op, r) = r.candidates \/ Len(Kept(op, r)) = 0
  BY DEF Kept
<1>5. r.revision \in Nat /\ r.candidates \in Seq(Candidate) /\ Len(r.candidates) \in Nat
  BY <1>1 DEF Record
<1>6. a.records[op.key] = q /\ \A k \in Keys : k # op.key => a.records[k] = D.records[k]
  <2>1. D.records \in [Keys -> Record]
    BY DEF DB
  <2> QED BY <1>1, <2>1
<1> HIDE DEF a, q, e, r
<1>7. Len(r.candidates) <= r.revision => Len(q.candidates) <= q.revision
  BY <1>1, <1>3, <1>4, <1>5
<1>8. e.result.conflict = (op.base # r.revision)
  BY <1>1 DEF Conflicts
<1> QED BY <1>1, <1>2, <1>5, <1>6, <1>7, <1>8 DEF a, e, r

(* Executing the next edit of a device keeps the tables in order. *)
LEMMA AppliedTables ==
  ASSUME NEW D \in DB, StoreInv(D), NEW E, NEW O, NEW G, Queues(E, O), TablesOf(D, E, O, G),
         NEW d \in Devices, NEW n \in 1 .. Len(E[d]),
         \A m \in 1 .. n - 1 : Known(D, E[d][m].id),
         n <= Done(E, O, d) + MaxBatch, ~Refused(D, E[d][n])
  PROVE  TablesOf(Applied(D, E[d][n]), E, O, G)
<1> DEFINE op == E[d][n]
           a == Applied(D, op)
           e == [op |-> op, result |-> Result(D, op)]
           rev == D.records[op.key].revision
<1>0. op \in Operation
  BY DEF Queues
<1>1. CASE Replayed(D, op)
  BY <1>1 DEF Applied
<1>2. CASE ~Replayed(D, op)
  <2>1. /\ a.operations = D.operations \cup {e}
        /\ e.op = op /\ e.result.id = op.id
        /\ e.result.revision = rev + 1
        /\ e.result.conflict = (op.base # rev)
        /\ op.key \in Keys /\ rev \in Nat
        /\ a.records[op.key].revision = rev + 1
        /\ Len(D.records[op.key].candidates) <= rev
           => Len(a.records[op.key].candidates) <= a.records[op.key].revision
        /\ \A k \in Keys : k # op.key => a.records[k] = D.records[k]
    BY <1>0, <1>2, NewEntry, Zenon
  <2>2. /\ Counted(D) /\ FromEdits(D, E) /\ InReach(D, E, O) /\ Based(D, E, G)
        /\ ReplacedSeen(D, E, G) /\ AnswersWithinRecords(D)
    BY DEF TablesOf, StoreInv
  <2>3. /\ op.base <= rev
        /\ op.base = rev => \A f \in D.operations : f.op.key = op.key
                                                   => Mine(E, d, f) \/ Seen(G, d, f)
    BY BaseCovers
  <2>4. \A f \in D.operations : f.result.revision \in Nat /\ f.op.key \in Keys
    BY DEF DB, Entry, OperationResult, Operation
  <2>5. \A f \in D.operations : f.op.key = op.key => f.result.revision <= rev
    BY <2>2 DEF AnswersWithinRecords
  <2> HIDE DEF a, e, rev
  <2>6. Counted(a)
    <3>1. \A f \in a.operations : f.result.id = f.op.id /\ f.result.revision >= 1
      BY <2>1, <2>2 DEF Counted
    <3>2. \A k \in Keys : Len(a.records[k].candidates) <= a.records[k].revision
      BY <2>1, <2>2 DEF Counted, rev
    <3>3. ASSUME NEW k \in Keys, NEW r \in 1 .. a.records[k].revision
          PROVE  \E f \in a.operations : f.op.key = k /\ f.result.revision = r
      <4>1. CASE k = op.key /\ r = rev + 1
        BY <4>1, <2>1
      <4>2. CASE k = op.key /\ r # rev + 1
        <5>1. r \in 1 .. rev
          BY <4>2, <3>3, <2>1
        <5>2. \E f \in D.operations : f.op.key = k /\ f.result.revision = r
          BY <4>2, <5>1, <2>2 DEF Counted, rev
        <5> QED BY <5>2, <2>1
      <4>3. CASE k # op.key
        <5>1. a.records[k] = D.records[k]
          BY <4>3, <2>1
        <5>2. \E f \in D.operations : f.op.key = k /\ f.result.revision = r
          BY <3>3, <5>1, <2>2 DEF Counted
        <5> QED BY <5>2, <2>1
      <4> QED BY <4>1, <4>2, <4>3
    <3> QED BY <3>1, <3>2, <3>3 DEF Counted
  <2>7. FromEdits(a, E)
    BY <2>1, <2>2 DEF FromEdits
  <2>8. InReach(a, E, O)
    <3> SUFFICES ASSUME NEW c \in Devices, NEW m \in 1 .. Len(E[c]), Known(a, E[c][m].id)
                 PROVE  m <= Done(E, O, c) + MaxBatch
      BY DEF InReach
    <3>1. CASE E[c][m].id = op.id
      <4>1. c = d /\ m = n
        BY <3>1, EditOfId
      <4> QED BY <4>1
    <3>2. CASE E[c][m].id # op.id
      <4>1. Known(D, E[c][m].id)
        BY <3>2, <2>1 DEF Known, Recorded
      <4> QED BY <4>1, <2>2 DEF InReach
    <3> QED BY <3>1, <3>2
  <2>9. Based(a, E, G)
    <3> SUFFICES ASSUME NEW c \in Devices, NEW x \in 1 .. Len(E[c])
                 PROVE  \E s \in 0 .. E[c][x].base, m \in 0 .. x - 1 :
                          BasedOn(a, E, G, c, x, s, m)
      BY DEF Based
    <3>1. PICK s \in 0 .. E[c][x].base, m \in 0 .. x - 1 : BasedOn(D, E, G, c, x, s, m)
      BY <2>2 DEF Based
    <3> DEFINE k == E[c][x].key
    <3>2. k \in Keys
      <4>1. E[c][x] \in Operation
        BY DEF Queues
      <4> QED BY <4>1 DEF Operation
    <3>3. s \in Nat
      BY <3>1 DEF Queues, Operation
    <3>4. s <= D.records[k].revision
      BY <3>1 DEF BasedOn
    <3>5. s <= a.records[k].revision
      <4>1. CASE k = op.key
        BY <4>1, <3>3, <3>4, <2>1 DEF rev
      <4>2. CASE k # op.key
        BY <4>2, <3>2, <3>4, <2>1
      <4> QED BY <4>1, <4>2
    <3>6. ~(e.op.key = k /\ e.result.revision <= s)
      <4>1. e.op.key = k => D.records[k].revision = rev
        BY <2>1 DEF rev
      <4> HIDE DEF k
      <4> QED BY <4>1, <3>3, <3>4, <2>1
    <3>7. \A f \in a.operations : f.op.key = k /\ f.result.revision <= s
            => /\ Seen(G, c, f)
               /\ \A j \in Pending(E, c, m, x) : f.op.id # E[c][j].id
      BY <3>1, <3>6, <2>1 DEF BasedOn
    <3>8. E[c][x].base = s + Cardinality(Pending(E, c, m, x))
      BY <3>1 DEF BasedOn
    <3> QED BY <3>5, <3>7, <3>8 DEF BasedOn
  <2>10. ReplacedSeen(a, E, G)
    <3> SUFFICES ASSUME NEW c \in Devices, NEW g \in a.operations, NEW f \in a.operations,
                        Mine(E, c, g), ~g.result.conflict,
                        f.op.key = g.op.key, f.result.revision < g.result.revision
                 PROVE  Mine(E, c, f) \/ Seen(G, c, f)
      BY DEF ReplacedSeen
    <3>1. CASE g \in D.operations /\ f \in D.operations
      BY <3>1, <2>2 DEF ReplacedSeen
    <3>2. CASE g = e /\ f \in D.operations
      <4>1. PICK x \in 1 .. Len(E[c]) : E[c][x].id = op.id
        BY <3>2, <2>1 DEF Mine
      <4>2. c = d
        BY <4>1, EditOfId
      <4>3. op.base = rev
        BY <3>2, <2>1
      <4> QED BY <3>2, <4>2, <4>3, <2>1, <2>3
    <3>3. CASE f = e
      <4>1. g.result.revision <= rev + 1
        BY <3>3, <2>1, <2>4, <2>5
      <4>2. g.result.revision \in Nat
        BY <2>1, <2>4
      <4> QED BY <3>3, <4>1, <4>2, <2>1
    <3> QED BY <3>1, <3>2, <3>3, <2>1
  <2> QED BY <2>6, <2>7, <2>8, <2>9, <2>10 DEF TablesOf, a
<1> QED BY <1>1, <1>2

-----------------------------------------------------------------------------
(* The edits of record k that the plans hold. *)
PlannedFor(k) ==
  {p \in Devices \X Nat : p[2] \in 1 .. Len(Plans[p[1]]) /\ Plans[p[1]][p[2]].key = k}

(* Even if all of them were in conflict, a record had room for its edits. *)
EditsFit ==
  \A k \in Keys : IsFiniteSet(PlannedFor(k)) /\ Cardinality(PlannedFor(k)) <= MaxCandidates

(* An edit that is not recorded yet finds room in its record: the          *)
(* candidates are operations of other plans for the same record.           *)
LEMMA RoomForEdit ==
  ASSUME NEW D \in DB, StoreInv(D), NEW E, NEW O, NEW G, Queues(E, O), TablesOf(D, E, O, G),
         NEW d \in Devices, NEW n \in 1 .. Len(E[d]), ~Known(D, E[d][n].id), EditsFit
  PROVE  Len(D.records[E[d][n].key].candidates) < MaxCandidates
<1> DEFINE k == E[d][n].key
           rev == D.records[k].revision
           P == PlannedFor(k)
<1>1. FromEdits(D, E) /\ Counted(D) /\ OneEffect(D)
  BY DEF TablesOf, StoreInv
<1>2. E[d] \in Seq(Operation) /\ E[d][n] \in Operation
  BY DEF Queues
<1>3. k \in Keys
  BY <1>2 DEF Operation
<1>4. D.records[k] \in Record
  BY <1>3 DEF DB
<1>5. rev \in Nat /\ Len(D.records[k].candidates) \in Nat /\ Len(D.records[k].candidates) <= rev
  BY <1>1, <1>3, <1>4 DEF Counted, Record
<1>6. \A c \in Devices : \A m \in 1 .. Len(E[c]) : E[c][m].key = k
        => /\ <<c, m>> \in P
           /\ Plans[c][m].id = E[c][m].id
  <2> TAKE c \in Devices
  <2> TAKE m \in 1 .. Len(E[c])
  <2>1. Len(E[c]) \in Nat /\ Len(Plans[c]) \in Nat /\ Len(E[c]) <= Len(Plans[c])
    BY PlanAssumption DEF Queues
  <2>2. m \in 1 .. Len(Plans[c]) /\ m \in Nat
    BY <2>1
  <2>3. Plans[c][m].id = E[c][m].id /\ Plans[c][m].key = E[c][m].key
    BY DEF Queues
  <2> QED BY <2>2, <2>3 DEF PlannedFor
<1> DEFINE Place(r, p) == \E e \in D.operations :
                            /\ e.op.key = k /\ e.result.revision = r
                            /\ e.op.id = Plans[p[1]][p[2]].id
           place(r) == CHOOSE p \in P : Place(r, p)
           h == [r \in 1 .. rev + 1 |-> IF r = rev + 1 THEN <<d, n>> ELSE place(r)]
<1>7. ASSUME NEW r \in 1 .. rev PROVE place(r) \in P /\ Place(r, place(r))
  <2>1. PICK e \in D.operations : e.op.key = k /\ e.result.revision = r
    BY <1>1, <1>3 DEF Counted
  <2>2. PICK c \in Devices : \E m \in 1 .. Len(E[c]) : e.op = E[c][m]
    BY <1>1 DEF FromEdits
  <2>3. PICK m \in 1 .. Len(E[c]) : e.op = E[c][m]
    BY <2>2
  <2>4. <<c, m>> \in P /\ Place(r, <<c, m>>)
    BY <1>6, <2>1, <2>3
  <2> HIDE DEF P, Place
  <2> QED BY <2>4
<1>8. <<d, n>> \in P
  BY <1>6
<1>9. \A r \in 1 .. rev : place(r) # <<d, n>>
  <2> SUFFICES ASSUME NEW r \in 1 .. rev, place(r) = <<d, n>> PROVE FALSE
    OBVIOUS
  <2>1. Place(r, <<d, n>>)
    <3>1. place(r) = <<d, n>> /\ Place(r, place(r))
      BY <1>7
    <3> HIDE DEF place, Place
    <3> QED BY <3>1
  <2>2. \E e \in D.operations : e.op.id = E[d][n].id
    BY <1>6, <2>1
  <2> QED BY <2>2 DEF Known, Recorded
<1>10. \A r, t \in 1 .. rev : place(r) = place(t) => r = t
  <2> SUFFICES ASSUME NEW r \in 1 .. rev, NEW t \in 1 .. rev, place(r) = place(t)
               PROVE  r = t
    OBVIOUS
  <2>1. Place(r, place(r)) /\ Place(t, place(r))
    <3>1. place(r) = place(t) /\ Place(r, place(r)) /\ Place(t, place(t))
      BY <1>7
    <3> HIDE DEF place, Place
    <3> QED BY <3>1
  <2>2. PICK e \in D.operations :
          e.result.revision = r /\ e.op.id = Plans[place(r)[1]][place(r)[2]].id
    BY <2>1
  <2>3. PICK f \in D.operations :
          f.result.revision = t /\ f.op.id = Plans[place(r)[1]][place(r)[2]].id
    BY <2>1
  <2> HIDE DEF place
  <2> QED BY <1>1, <2>2, <2>3 DEF OneEffect
<1> HIDE DEF place, Place, P
<1>11. h \in [1 .. rev + 1 -> P]
  <2>1. \A r \in 1 .. rev + 1 : r = rev + 1 \/ r \in 1 .. rev
    <3> HIDE DEF rev
    <3> QED BY <1>5
  <2> QED BY <1>7, <1>8, <2>1
<1>12. \A r, t \in 1 .. rev + 1 : h[r] = h[t] => r = t
  <2> SUFFICES ASSUME NEW r \in 1 .. rev + 1, NEW t \in 1 .. rev + 1, h[r] = h[t]
               PROVE  r = t
    OBVIOUS
  <2>1. (r = rev + 1 \/ r \in 1 .. rev) /\ (t = rev + 1 \/ t \in 1 .. rev)
    <3> HIDE DEF rev, h
    <3> QED BY <1>5
  <2>2. h[r] = (IF r = rev + 1 THEN <<d, n>> ELSE place(r))
        /\ h[t] = (IF t = rev + 1 THEN <<d, n>> ELSE place(t))
    OBVIOUS
  <2> HIDE DEF h, rev
  <2> QED BY <1>9, <1>10, <2>1, <2>2
<1> HIDE DEF h
<1>13. h \in Injection(1 .. rev + 1, P)
  BY <1>11, <1>12 DEF Injection, IsInjective
<1>14. IsFiniteSet(P) /\ Cardinality(P) <= MaxCandidates
  BY <1>3 DEF EditsFit, P
<1>15. Cardinality(1 .. rev + 1) <= Cardinality(P)
  BY <1>13, <1>14, FS_Injection
<1>16. Cardinality(1 .. rev + 1) = rev + 1
  <2>1. 1 \in Int /\ rev + 1 \in Int /\ ~(1 > rev + 1) /\ rev + 1 - 1 + 1 = rev + 1
    BY <1>5
  <2> HIDE DEF rev
  <2>2. Cardinality(1 .. rev + 1) = IF 1 > rev + 1 THEN 0 ELSE rev + 1 - 1 + 1
    BY <2>1, FS_Interval
  <2> QED BY <2>1, <2>2
<1>17. Cardinality(P) \in Nat /\ MaxCandidates \in Nat
  BY <1>14, FS_CardinalityType, StoreAssumption
<1> DEFINE c == Len(D.records[k].candidates)
           size == Cardinality(P)
<1>18. c \in Nat /\ c <= rev /\ rev \in Nat
  BY <1>5
<1>19. rev + 1 <= size /\ size <= MaxCandidates /\ size \in Nat /\ MaxCandidates \in Nat
  BY <1>14, <1>15, <1>16, <1>17
<1>20. c < MaxCandidates
  <2> HIDE DEF c, rev, size
  <2> QED BY <1>18, <1>19
<1> QED BY <1>20

(* Nothing but a lack of room refuses the next edit of a device: its id is *)
(* not taken by other content and its base has been reached.               *)
LEMMA OnlyRoomRefuses ==
  ASSUME NEW D \in DB, StoreInv(D), NEW E, NEW O, NEW G, Queues(E, O), TablesOf(D, E, O, G),
         NEW d \in Devices, NEW n \in 1 .. Len(E[d]),
         \A m \in 1 .. n - 1 : Known(D, E[d][m].id), Refused(D, E[d][n])
  PROVE  /\ ~Known(D, E[d][n].id)
         /\ ~(Len(D.records[E[d][n].key].candidates) < MaxCandidates)
<1> DEFINE op == E[d][n]
           r == D.records[op.key]
<1>1. op \in Operation
  BY DEF Queues
<1>2. op.key \in Keys /\ op.base \in Nat
  BY <1>1 DEF Operation
<1>3. r \in Record
  BY <1>2 DEF DB
<1>4. r.revision \in Nat /\ Len(r.candidates) \in Nat /\ MaxCandidates \in Nat \ {0}
  BY <1>3, StoreAssumption DEF Record
<1>5. FromEdits(D, E)
  BY DEF TablesOf
<1>6. ~Known(D, op.id)
  <2> SUFFICES ASSUME Known(D, op.id) PROVE FALSE
    OBVIOUS
  <2>1. PICK e \in D.operations : e.op.id = op.id
    BY DEF Known, Recorded
  <2>2. e.op = op
    BY <1>5, <2>1, EntryOfEdit
  <2>3. ~Replayed(D, op)
    BY DEF Refused, Known
  <2> QED BY <2>2, <2>3 DEF Replayed
<1>7. op.base <= r.revision
  BY BaseCovers
<1>8. Len(Kept(op, r)) >= MaxCandidates
  BY <1>2, <1>4, <1>6, <1>7 DEF Refused, Known
<1>9. Kept(op, r) = r.candidates \/ Len(Kept(op, r)) = 0
  BY DEF Kept
<1> HIDE DEF op, r
<1> QED BY <1>4, <1>6, <1>8, <1>9 DEF r, op

-----------------------------------------------------------------------------
(* Devices: making an edit                                                 *)

(* s is the revision of record k that a device with changes g knows. *)
Knows(g, k, s) ==
  \/ s = 0 /\ \A i \in 1 .. Len(g) : g[i].key # k
  \/ \E i \in 1 .. Len(g) : /\ g[i].key = k /\ g[i].record.revision = s
                            /\ \A j \in 1 .. Len(g) : j > i => g[j].key # k

(* The places in outbox o of edits of record k. *)
QueuedIn(o, k) == {i \in 1 .. Len(o) : o[i].key = k}

(* Edit p of the plan of d was added to both lists. *)
Added(E, O, E2, O2, d, op) ==
  /\ Len(E[d]) < Len(Plans[d])
  /\ op.id = Plans[d][Len(E[d]) + 1].id /\ op.key = Plans[d][Len(E[d]) + 1].key
  /\ E2 = [E EXCEPT ![d] = Append(E[d], op)]
  /\ O2 = [O EXCEPT ![d] = Append(O[d], op)]

(* What that leaves alone. *)
Longer(E, O, E2, O2, d, op) ==
  /\ \A c \in Devices :
       /\ Done(E2, O2, c) = Done(E, O, c)
       /\ Len(E[c]) \in Nat /\ Len(E2[c]) \in Nat /\ Len(E[c]) <= Len(E2[c])
       /\ Len(O2[c]) \in Nat /\ Len(O[c]) <= Len(O2[c])
       /\ \A n \in 1 .. Len(E[c]) : E2[c][n] = E[c][n]
       /\ \A n \in 1 .. Len(E2[c]) : n \in 1 .. Len(E[c]) \/ (c = d /\ n = Len(E[d]) + 1)
  /\ Len(E2[d]) = Len(E[d]) + 1
  /\ E2[d][Len(E[d]) + 1] = op

(* Adding the next edit of the plan to both lists keeps them in order. *)
LEMMA AddedLists ==
  ASSUME NEW E, NEW O, NEW E2, NEW O2, Queues(E, O), NEW d \in Devices,
         NEW op \in Operation, Added(E, O, E2, O2, d, op)
  PROVE  Queues(E2, O2) /\ Longer(E, O, E2, O2, d, op)
<1> DEFINE n0 == Len(E[d])
           o0 == Len(O[d])
<1>1. /\ E \in [Devices -> Seq(Operation)] /\ O \in [Devices -> Seq(Operation)]
      /\ \A c \in Devices :
           /\ Len(E[c]) \in Nat /\ Len(O[c]) \in Nat /\ Len(Plans[c]) \in Nat
           /\ Len(E[c]) <= Len(Plans[c])
           /\ Len(O[c]) <= Len(E[c])
  BY PlanAssumption DEF Queues
<1>2. /\ E2 = [E EXCEPT ![d] = Append(E[d], op)]
      /\ O2 = [O EXCEPT ![d] = Append(O[d], op)]
      /\ n0 < Len(Plans[d])
      /\ op.id = Plans[d][n0 + 1].id /\ op.key = Plans[d][n0 + 1].key
  BY DEF Added
<1>3. /\ Append(E[d], op) \in Seq(Operation) /\ Len(Append(E[d], op)) = n0 + 1
      /\ \A n \in 1 .. n0 : Append(E[d], op)[n] = E[d][n]
      /\ Append(E[d], op)[n0 + 1] = op
  BY <1>1
<1>4. /\ Append(O[d], op) \in Seq(Operation) /\ Len(Append(O[d], op)) = o0 + 1
      /\ \A n \in 1 .. o0 : Append(O[d], op)[n] = O[d][n]
      /\ Append(O[d], op)[o0 + 1] = op
  BY <1>1
<1>5. /\ E2 \in [Devices -> Seq(Operation)] /\ E2[d] = Append(E[d], op)
      /\ \A c \in Devices : c # d => E2[c] = E[c]
  BY <1>1, <1>2, <1>3
<1>6. /\ O2 \in [Devices -> Seq(Operation)] /\ O2[d] = Append(O[d], op)
      /\ \A c \in Devices : c # d => O2[c] = O[c]
  BY <1>1, <1>2, <1>4
<1>7. /\ n0 \in Nat /\ o0 \in Nat /\ Len(E2[d]) = n0 + 1 /\ Len(O2[d]) = o0 + 1
      /\ o0 <= n0 /\ E2[d][n0 + 1] = op /\ O2[d][o0 + 1] = op
      /\ \A n \in 1 .. n0 : E2[d][n] = E[d][n]
      /\ \A n \in 1 .. o0 : O2[d][n] = O[d][n]
  BY <1>1, <1>3, <1>4, <1>5, <1>6
<1> HIDE DEF n0, o0
<1>8. Done(E, O, d) = n0 - o0 /\ Done(E2, O2, d) = n0 - o0
  BY <1>7 DEF Done, n0, o0
<1>9. \A c \in Devices : Done(E2, O2, c) = Done(E, O, c)
  BY <1>5, <1>6, <1>8 DEF Done
<1>10. \A c \in Devices : /\ Len(E[c]) \in Nat /\ Len(E[c]) <= Len(E2[c]) /\ Len(E2[c]) \in Nat
                          /\ \A n \in 1 .. Len(E[c]) : E2[c][n] = E[c][n]
                          /\ Len(O2[c]) \in Nat /\ Len(O[c]) <= Len(O2[c])
  <2> TAKE c \in Devices
  <2>1. CASE c = d
    BY <2>1, <1>7 DEF n0, o0
  <2>2. CASE c # d
    BY <2>2, <1>1, <1>5, <1>6
  <2> QED BY <2>1, <2>2
<1>11. \A c \in Devices : \A n \in 1 .. Len(E2[c]) :
         n \in 1 .. Len(E[c]) \/ (c = d /\ n = n0 + 1)
  <2> SUFFICES ASSUME NEW c \in Devices, NEW n \in 1 .. Len(E2[c])
               PROVE  n \in 1 .. Len(E[c]) \/ (c = d /\ n = n0 + 1)
    OBVIOUS
  <2>1. CASE c = d
    <3>1. n \in 1 .. n0 + 1 /\ n0 \in Nat /\ n0 = Len(E[c])
      BY <2>1, <1>7 DEF n0
    <3> QED BY <2>1, <3>1
  <2>2. CASE c # d
    BY <2>2, <1>5
  <2> QED BY <2>1, <2>2
<1>12. \A c \in Devices :
         /\ Len(E2[c]) <= Len(Plans[c])
         /\ Len(O2[c]) <= Len(E2[c])
         /\ \A n \in 1 .. Len(E2[c]) :
              E2[c][n].id = Plans[c][n].id /\ E2[c][n].key = Plans[c][n].key
         /\ \A i \in 1 .. Len(O2[c]) : O2[c][i] = E2[c][Done(E2, O2, c) + i]
  <2> TAKE c \in Devices
  <2>1. CASE c # d
    BY <2>1, <1>5, <1>6, <1>9 DEF Queues
  <2>2. CASE c = d
    <3>1. Len(E2[d]) <= Len(Plans[d]) /\ Len(O2[d]) <= Len(E2[d])
      BY <1>1, <1>2, <1>7
    <3>2. \A n \in 1 .. n0 + 1 :
            E2[d][n].id = Plans[d][n].id /\ E2[d][n].key = Plans[d][n].key
      <4> TAKE n \in 1 .. n0 + 1
      <4>1. n = n0 + 1 \/ n \in 1 .. n0
        BY <1>7
      <4>2. n \in 1 .. n0 => E[d][n].id = Plans[d][n].id /\ E[d][n].key = Plans[d][n].key
        BY DEF Queues, n0
      <4> QED BY <1>2, <1>7, <4>1, <4>2
    <3>3. \A i \in 1 .. o0 + 1 : O2[d][i] = E2[d][n0 - o0 + i]
      <4> TAKE i \in 1 .. o0 + 1
      <4>1. CASE i = o0 + 1
        <5>1. n0 - o0 + i = n0 + 1
          BY <4>1, <1>7
        <5> QED BY <4>1, <5>1, <1>7
      <4>2. CASE i # o0 + 1
        <5>1. i \in 1 .. o0 /\ n0 - o0 + i \in 1 .. n0
          BY <4>2, <1>7
        <5>2. O[d][i] = E[d][n0 - o0 + i]
          BY <5>1, <1>8 DEF Queues, o0
        <5> QED BY <5>1, <5>2, <1>7
      <4> QED BY <4>1, <4>2
    <3> QED BY <2>2, <3>1, <3>2, <3>3, <1>7, <1>8
  <2> QED BY <2>1, <2>2
<1>13. Queues(E2, O2)
  BY <1>5, <1>6, <1>12 DEF Queues
<1> QED BY <1>7, <1>9, <1>10, <1>11, <1>13 DEF n0, Longer

(* The id of a new edit is not in the tables yet. *)
LEMMA AddedFresh ==
  ASSUME NEW E, NEW O, NEW E2, NEW O2, Queues(E, O), NEW d \in Devices,
         NEW op \in Operation, Added(E, O, E2, O2, d, op), NEW D, FromEdits(D, E)
  PROVE  ~Known(D, op.id)
<1> SUFFICES ASSUME NEW e \in D.operations, e.op.id = op.id PROVE FALSE
  BY DEF Known, Recorded
<1>1. PICK c \in Devices : \E m \in 1 .. Len(E[c]) : e.op = E[c][m]
  BY DEF FromEdits
<1>2. PICK m \in 1 .. Len(E[c]) : e.op = E[c][m]
  BY <1>1
<1> DEFINE n == Len(E[d]) + 1
<1>a. Queues(E2, O2) /\ Longer(E, O, E2, O2, d, op)
  BY AddedLists
<1>3. /\ Queues(E2, O2) /\ Len(E[c]) \in Nat /\ Len(E[c]) <= Len(E2[c]) /\ Len(E2[c]) \in Nat
      /\ E2[c][m] = E[c][m] /\ Len(E2[d]) = n /\ E2[d][n] = op /\ Len(E[d]) \in Nat
  BY <1>a DEF Longer
<1>4. m \in 1 .. Len(E2[c]) /\ n \in 1 .. Len(E2[d]) /\ E2[c][m].id = E2[d][n].id
  BY <1>2, <1>3
<1> HIDE DEF n
<1>5. c = d /\ m = n
  BY <1>3, <1>4, EditOfId
<1> QED BY <1>3, <1>5 DEF n

(* A log read so far holds every operation up to the revision it shows. *)
LEMMA KnowsUpTo ==
  ASSUME NEW D \in DB, StoreInv(D), Counted(D), NEW C, NEW G, LogRead(D, C, G),
         NEW d \in Devices, NEW k \in Keys, NEW s, Knows(G[d], k, s)
  PROVE  /\ s \in Nat /\ s <= D.records[k].revision
         /\ \A f \in D.operations : f.op.key = k /\ f.result.revision <= s
              => \E i \in 1 .. Len(G[d]) :
                   /\ G[d][i].key = f.op.key
                   /\ G[d][i].record.revision = f.result.revision
                   /\ LastOp(G[d][i]) = f.op.id
<1> DEFINE n == Len(D.changes)
<1>1. /\ C[d] \in Nat /\ n \in Nat /\ C[d] <= n /\ Len(G[d]) = C[d]
      /\ \A i \in 1 .. C[d] : G[d][i] = D.changes[i]
      /\ D.changes \in Seq(Change)
  BY DEF LogRead, DB
<1>2. \A i \in 1 .. n : D.changes[i].record.revision \in Nat
  <2>1. \A c \in Change : c.record.revision \in Nat
    BY DEF Change, Record
  <2> QED BY <1>1, <2>1
<1>3. RevisionsIncrease(D) /\ OneEffect(D)
  BY DEF StoreInv, LogMatchesRecords
<1>4. \A i \in 1 .. C[d] : i \in 1 .. n
  BY <1>1
<1>5. D.records[k].revision \in Nat
  <2>1. D.records[k] \in Record
    BY DEF DB
  <2> QED BY <2>1 DEF Record
<1>6. \A f \in D.operations : f.result.revision \in Nat /\ f.result.revision >= 1
  BY DEF Counted, DB, Entry, OperationResult
<1>7. CASE s = 0 /\ \A i \in 1 .. Len(G[d]) : G[d][i].key # k
  <2>1. \A f \in D.operations : ~(f.result.revision <= s)
    BY <1>6, <1>7
  <2> QED BY <1>5, <1>7, <2>1
<1>8. CASE \E i \in 1 .. Len(G[d]) : /\ G[d][i].key = k /\ G[d][i].record.revision = s
                                     /\ \A j \in 1 .. Len(G[d]) : j > i => G[d][j].key # k
  <2>1. PICK i \in 1 .. Len(G[d]) : /\ G[d][i].key = k /\ G[d][i].record.revision = s
    BY <1>8
  <2>2. i \in 1 .. n /\ D.changes[i].key = k /\ D.changes[i].record.revision = s
    BY <1>1, <1>4, <2>1
  <2>3. s \in Nat /\ s <= D.records[k].revision
    BY <1>2, <1>3, <2>2 DEF RevisionsIncrease
  <2>4. ASSUME NEW f \in D.operations, f.op.key = k, f.result.revision <= s
        PROVE  \E j \in 1 .. Len(G[d]) : /\ G[d][j].key = f.op.key
                                         /\ G[d][j].record.revision = f.result.revision
                                         /\ LastOp(G[d][j]) = f.op.id
    <3>1. PICK j \in 1 .. n : /\ D.changes[j].key = f.op.key
                              /\ D.changes[j].record.revision = f.result.revision
                              /\ LastOp(D.changes[j]) = f.op.id
      BY <1>3 DEF OneEffect, LastOp
    <3>2. ~(i < j)
      BY <1>2, <1>3, <2>2, <2>3, <2>4, <3>1 DEF RevisionsIncrease
    <3>3. j \in 1 .. C[d]
      BY <1>1, <2>1, <3>2
    <3> QED BY <1>1, <3>1, <3>3
  <2> QED BY <2>3, <2>4
<1> QED BY <1>7, <1>8 DEF Knows

(* The edits in the outbox are the last ones of the list. *)
LEMMA AddedCount ==
  ASSUME NEW E, NEW O, NEW E2, NEW O2, Queues(E, O), NEW d \in Devices,
         NEW op \in Operation, Added(E, O, E2, O2, d, op)
  PROVE  /\ Cardinality(QueuedIn(O[d], op.key)) \in Nat
         /\ Cardinality(Pending(E2, d, Done(E, O, d), Len(E[d]) + 1))
              = Cardinality(QueuedIn(O[d], op.key))
<1> DEFINE n0 == Len(E[d])
           o0 == Len(O[d])
           m  == n0 - o0
           S  == QueuedIn(O[d], op.key)
           T  == Pending(E2, d, m, n0 + 1)
           f  == [i \in S |-> m + i]
<1>a. Queues(E2, O2) /\ Longer(E, O, E2, O2, d, op)
  BY AddedLists
<1>1. /\ Queues(E2, O2) /\ n0 \in Nat /\ E2[d][n0 + 1] = op
      /\ \A n \in 1 .. n0 : E2[d][n] = E[d][n]
  BY <1>a DEF Longer
<1>2. o0 \in Nat /\ o0 <= n0 /\ m \in Nat
      /\ \A i \in 1 .. o0 : O[d][i] = E[d][m + i]
  BY <1>1 DEF Queues, Done
<1> HIDE DEF m
<1>3. m + o0 = n0
  BY <1>1, <1>2 DEF m
<1>4. S = {i \in 1 .. o0 : O[d][i].key = op.key}
  BY DEF QueuedIn
<1>5. T = {j \in m + 1 .. n0 + 1 - 1 : E2[d][j].key = op.key}
  BY <1>1 DEF Pending
<1> HIDE DEF n0, o0, S, T
<1>6. \A i \in 1 .. o0 : m + i \in 1 .. n0 /\ O[d][i] = E2[d][m + i]
  BY <1>1, <1>2, <1>3
<1>7. \A i \in S : i \in 1 .. o0 /\ m + i \in T
  BY <1>1, <1>2, <1>3, <1>4, <1>5, <1>6
<1>8. \A j \in T : j - m \in S /\ m + (j - m) = j
  <2> TAKE j \in T
  <2>1. j \in m + 1 .. n0 /\ E2[d][j].key = op.key
    BY <1>1, <1>5
  <2>2. j - m \in 1 .. o0 /\ m + (j - m) = j
    BY <1>1, <1>2, <1>3, <2>1
  <2> QED BY <1>4, <1>6, <2>1, <2>2
<1>9. f \in [S -> T]
  BY <1>7
<1>10. \A x, y \in S : f[x] = f[y] => x = y
  BY <1>2, <1>7
<1>11. \A j \in T : \E i \in S : f[i] = j
  BY <1>8
<1> HIDE DEF f
<1>12. f \in Bijection(S, T)
  BY <1>9, <1>10, <1>11 DEF Bijection, Injection, Surjection, IsInjective
<1>13. IsFiniteSet(S)
  <2>1. 1 \in Int /\ o0 \in Int
    BY <1>2
  <2>2. IsFiniteSet(1 .. o0)
    BY <2>1, FS_Interval
  <2>3. S \in SUBSET (1 .. o0)
    BY <1>4
  <2> QED BY <2>2, <2>3, FS_Subset
<1>14. ExistsBijection(S, T)
  BY <1>12 DEF ExistsBijection
<1>15. Cardinality(T) = Cardinality(S) /\ Cardinality(S) \in Nat
  BY <1>13, <1>14, FS_Bijection, FS_CardinalityType
<1>16. Done(E, O, d) = m
  BY DEF Done, m, n0, o0
<1> QED BY <1>15, <1>16 DEF S, T, n0

(* A new edit based on what its device knows and has queued fits. *)
LEMMA AddedTables ==
  ASSUME NEW E, NEW O, NEW E2, NEW O2, Queues(E, O), NEW d \in Devices,
         NEW op \in Operation, Added(E, O, E2, O2, d, op),
         NEW D \in DB, StoreInv(D), NEW C, NEW G, LogRead(D, C, G), OwnRead(E, O, G),
         TablesOf(D, E, O, G),
         NEW s, Knows(G[d], op.key, s),
         op.base = s + Cardinality(QueuedIn(O[d], op.key))
  PROVE  TablesOf(D, E2, O2, G)
<1> DEFINE n == Len(E[d]) + 1
           m == Done(E, O, d)
<1>a. Queues(E2, O2) /\ Longer(E, O, E2, O2, d, op)
  BY AddedLists
<1>1. /\ Queues(E2, O2)
      /\ \A c \in Devices : Done(E2, O2, c) = Done(E, O, c)
      /\ \A c \in Devices : /\ Len(E[c]) \in Nat /\ Len(E[c]) <= Len(E2[c])
                            /\ Len(E2[c]) \in Nat
                            /\ \A i \in 1 .. Len(E[c]) : E2[c][i] = E[c][i]
      /\ \A c \in Devices : \A i \in 1 .. Len(E2[c]) :
           i \in 1 .. Len(E[c]) \/ (c = d /\ i = n)
      /\ Len(E2[d]) = n /\ E2[d][n] = op
  BY <1>a DEF Longer
<1>2. ~Known(D, op.id)
  BY AddedFresh DEF TablesOf
<1>3. /\ Counted(D) /\ FromEdits(D, E) /\ InReach(D, E, O) /\ Based(D, E, G)
      /\ ReplacedSeen(D, E, G)
  BY DEF TablesOf
<1>4. m \in 0 .. n - 1 /\ n \in Nat /\ n - 1 = Len(E[d])
  <2>1. Len(E[d]) \in Nat /\ Len(O[d]) \in Nat /\ Len(O[d]) <= Len(E[d])
    BY DEF Queues
  <2>2. m = Len(E[d]) - Len(O[d]) /\ n = Len(E[d]) + 1
    BY DEF Done
  <2> DEFINE a == Len(E[d])
             b == Len(O[d])
  <2>3. a \in Nat /\ b \in Nat /\ b <= a /\ m = a - b /\ n = a + 1
    BY <2>1, <2>2
  <2> HIDE DEF m, n, a, b
  <2>4. m \in 0 .. n - 1 /\ n \in Nat /\ n - 1 = a
    BY <2>3
  <2> QED BY <2>4 DEF a
<1> HIDE DEF m, n
<1>5. \A c \in Devices : \A i \in 1 .. Len(E[c]) : i \in 1 .. Len(E2[c]) /\ E2[c][i] = E[c][i]
  BY <1>1
<1>6. FromEdits(D, E2)
  <2> SUFFICES ASSUME NEW e \in D.operations
               PROVE  \E c \in Devices : \E i \in 1 .. Len(E2[c]) : e.op = E2[c][i]
    BY DEF FromEdits
  <2>1. PICK c \in Devices : \E i \in 1 .. Len(E[c]) : e.op = E[c][i]
    BY <1>3 DEF FromEdits
  <2> QED BY <1>5, <2>1
<1>7. InReach(D, E2, O2)
  <2> SUFFICES ASSUME NEW c \in Devices, NEW i \in 1 .. Len(E2[c]), Known(D, E2[c][i].id)
               PROVE  i <= Done(E2, O2, c) + MaxBatch
    BY DEF InReach
  <2>1. CASE i \in 1 .. Len(E[c])
    BY <2>1, <1>1, <1>3, <1>5 DEF InReach
  <2>2. CASE c = d /\ i = n
    BY <2>2, <1>1, <1>2
  <2> QED BY <1>1, <2>1, <2>2
<1>8. \A c \in Devices : \A e \in D.operations : Mine(E2, c, e) <=> Mine(E, c, e)
  <2> SUFFICES ASSUME NEW c \in Devices, NEW e \in D.operations
               PROVE  Mine(E2, c, e) <=> Mine(E, c, e)
    OBVIOUS
  <2>1. Mine(E, c, e) => Mine(E2, c, e)
    BY <1>5 DEF Mine
  <2>2. ASSUME NEW i \in 1 .. Len(E2[c]), E2[c][i].id = e.op.id PROVE Mine(E, c, e)
    <3>1. CASE i \in 1 .. Len(E[c])
      BY <3>1, <2>2, <1>5 DEF Mine
    <3>2. CASE c = d /\ i = n
      BY <3>2, <2>2, <1>1, <1>2 DEF Known, Recorded
    <3> QED BY <1>1, <3>1, <3>2
  <2> QED BY <2>1, <2>2 DEF Mine
<1>9. ReplacedSeen(D, E2, G)
  BY <1>3, <1>8 DEF ReplacedSeen
<1>10. Based(D, E2, G)
  <2> SUFFICES ASSUME NEW c \in Devices, NEW x \in 1 .. Len(E2[c])
               PROVE  \E t \in 0 .. E2[c][x].base, b \in 0 .. x - 1 :
                        BasedOn(D, E2, G, c, x, t, b)
    BY DEF Based
  <2>1. CASE x \in 1 .. Len(E[c])
    <3>1. PICK t \in 0 .. E[c][x].base, b \in 0 .. x - 1 : BasedOn(D, E, G, c, x, t, b)
      BY <2>1, <1>3 DEF Based
    <3>2. E2[c][x] = E[c][x]
      BY <2>1, <1>5
    <3>3. \A j \in b + 1 .. x - 1 : E2[c][j] = E[c][j]
      <4> TAKE j \in b + 1 .. x - 1
      <4>1. j \in 1 .. Len(E[c])
        BY <2>1, <1>1
      <4> QED BY <4>1, <1>5
    <3>4. Pending(E2, c, b, x) = Pending(E, c, b, x)
      BY <3>2, <3>3 DEF Pending
    <3>5. \A j \in Pending(E, c, b, x) : E2[c][j] = E[c][j]
      BY <3>3 DEF Pending
    <3>6. BasedOn(D, E2, G, c, x, t, b)
      BY <3>1, <3>2, <3>4, <3>5 DEF BasedOn
    <3> QED BY <3>1, <3>2, <3>6
  <2>2. CASE c = d /\ x = n
    <3>1. op.key \in Keys /\ op.base \in Nat
      BY DEF Operation
    <3>2. /\ s \in Nat /\ s <= D.records[op.key].revision
          /\ \A f \in D.operations : f.op.key = op.key /\ f.result.revision <= s
               => \E i \in 1 .. Len(G[d]) :
                    /\ G[d][i].key = f.op.key
                    /\ G[d][i].record.revision = f.result.revision
                    /\ LastOp(G[d][i]) = f.op.id
      BY <1>3, <3>1, KnowsUpTo
    <3>3. /\ Cardinality(QueuedIn(O[d], op.key)) \in Nat
          /\ Cardinality(Pending(E2, d, m, n)) = Cardinality(QueuedIn(O[d], op.key))
      BY AddedCount DEF m, n
    <3>4. op.base = s + Cardinality(Pending(E2, d, m, n)) /\ s \in 0 .. op.base
      BY <3>2, <3>3
    <3>5. \A j \in Pending(E2, d, m, n) : j \in 1 .. Len(E[d]) /\ j > m /\ E2[d][j] = E[d][j]
      <4> TAKE j \in Pending(E2, d, m, n)
      <4>1. j \in m + 1 .. n - 1
        BY DEF Pending
      <4>2. j \in 1 .. Len(E[d]) /\ j > m
        BY <4>1, <1>4
      <4> QED BY <4>2, <1>5
    <3>6. ASSUME NEW f \in D.operations, f.op.key = op.key, f.result.revision <= s
          PROVE  Seen(G, d, f) /\ \A j \in Pending(E2, d, m, n) : f.op.id # E2[d][j].id
      <4>1. PICK i \in 1 .. Len(G[d]) : /\ G[d][i].key = f.op.key
                                       /\ G[d][i].record.revision = f.result.revision
                                       /\ LastOp(G[d][i]) = f.op.id
        BY <3>2, <3>6
      <4>2. ASSUME NEW j \in Pending(E2, d, m, n), f.op.id = E2[d][j].id PROVE FALSE
        <5>1. j <= m
          BY <3>5, <4>1, <4>2 DEF OwnRead, m
        <5>2. j > m /\ j \in Nat /\ m \in Nat
          BY <1>4, <3>5
        <5> QED BY <5>1, <5>2
      <4> QED BY <4>1, <4>2 DEF Seen
    <3>7. BasedOn(D, E2, G, d, n, s, m)
      BY <1>1, <3>2, <3>4, <3>6 DEF BasedOn
    <3> QED BY <2>2, <1>1, <1>4, <3>4, <3>7
  <2> QED BY <1>1, <2>1, <2>2
<1> QED BY <1>3, <1>6, <1>7, <1>9, <1>10 DEF TablesOf

(* A change of the log was made by a recorded operation. *)
LEMMA ChangeKnown ==
  ASSUME NEW D, ChangesFromOperations(D), NEW i \in 1 .. Len(D.changes)
  PROVE  Known(D, LastOp(D.changes[i]))
BY DEF ChangesFromOperations, Known, Recorded, LastOp

(* What a new edit leaves true of the changes, answers and requests on     *)
(* their way: none of them can name it yet.                                *)
LEMMA AddedReads ==
  ASSUME NEW E, NEW O, NEW E2, NEW O2, Queues(E, O), NEW d \in Devices,
         NEW op \in Operation, Added(E, O, E2, O2, d, op),
         NEW D \in DB, StoreInv(D), FromEdits(D, E), NEW C, NEW G, LogRead(D, C, G),
         OwnRead(E, O, G)
  PROVE  OwnRead(E2, O2, G)
<1>a. Longer(E, O, E2, O2, d, op)
  BY AddedLists
<1>1. /\ \A c \in Devices : Done(E2, O2, c) = Done(E, O, c)
      /\ \A c \in Devices : \A n \in 1 .. Len(E[c]) : E2[c][n] = E[c][n]
      /\ \A c \in Devices : \A n \in 1 .. Len(E2[c]) :
           n \in 1 .. Len(E[c]) \/ (c = d /\ n = Len(E[d]) + 1)
      /\ E2[d][Len(E[d]) + 1] = op
  BY <1>a DEF Longer
<1>2. ~Known(D, op.id)
  BY AddedFresh
<1> SUFFICES ASSUME NEW c \in Devices, NEW n \in 1 .. Len(E2[c]), NEW i \in 1 .. Len(G[c]),
                    LastOp(G[c][i]) = E2[c][n].id
             PROVE  n <= Done(E2, O2, c)
  BY DEF OwnRead
<1>3. CASE n \in 1 .. Len(E[c])
  BY <1>3, <1>1 DEF OwnRead
<1>4. CASE c = d /\ n = Len(E[d]) + 1
  <2>1. G[c][i] = D.changes[i] /\ i \in 1 .. Len(D.changes)
    BY DEF LogRead, DB
  <2>2. Known(D, LastOp(D.changes[i]))
    BY <2>1, ChangeKnown DEF StoreInv
  <2> QED BY <1>1, <1>2, <1>4, <2>1, <2>2
<1> QED BY <1>1, <1>3, <1>4

(* It acknowledges nothing. *)
LEMMA AddedDone ==
  ASSUME NEW E, NEW O, NEW E2, NEW O2, Queues(E, O), NEW d \in Devices,
         NEW op \in Operation, Added(E, O, E2, O2, d, op), NEW D, DoneKnown(D, E, O)
  PROVE  DoneKnown(D, E2, O2)
<1>a. Longer(E, O, E2, O2, d, op)
  BY AddedLists
<1>1. /\ \A c \in Devices : Done(E2, O2, c) = Done(E, O, c)
      /\ \A c \in Devices : \A n \in 1 .. Len(E[c]) : E2[c][n] = E[c][n]
  BY <1>a DEF Longer
<1>2. \A c \in Devices : \A n \in 1 .. Done(E, O, c) : n \in 1 .. Len(E[c])
  BY DEF Queues, Done
<1> QED BY <1>1, <1>2 DEF DoneKnown

(* It leaves every earlier part of the list where it was. *)
LEMMA AddedSegment ==
  ASSUME NEW E, NEW O, NEW E2, NEW O2, Queues(E, O), NEW d \in Devices,
         NEW op \in Operation, Added(E, O, E2, O2, d, op),
         NEW c \in Devices, NEW b \in Nat, NEW ops, Segment(E, c, b, ops)
  PROVE  Segment(E2, c, b, ops)
<1>a. Longer(E, O, E2, O2, d, op)
  BY AddedLists
<1>1. /\ Len(E[c]) \in Nat /\ Len(E2[c]) \in Nat /\ Len(E[c]) <= Len(E2[c])
      /\ \A n \in 1 .. Len(E[c]) : E2[c][n] = E[c][n]
  BY <1>a DEF Longer
<1>2. ops \in Seq(Operation) /\ Len(ops) \in Nat /\ b + Len(ops) <= Len(E[c])
  BY DEF Segment
<1>3. \A i \in 1 .. Len(ops) : b + i \in 1 .. Len(E[c])
  BY <1>1, <1>2
<1> QED BY <1>1, <1>2, <1>3 DEF Segment

(* The acknowledged edits and the outbox make up the list. *)
LEMMA DoneType ==
  ASSUME NEW E, NEW O, Queues(E, O), NEW d \in Devices
  PROVE  /\ Len(E[d]) \in Nat /\ Len(O[d]) \in Nat /\ Done(E, O, d) \in 0 .. Len(E[d])
         /\ Done(E, O, d) + Len(O[d]) = Len(E[d])
<1> DEFINE a == Len(E[d])
           b == Len(O[d])
<1>1. a \in Nat /\ b \in Nat /\ b <= a
  BY DEF Queues
<1>2. Done(E, O, d) = a - b
  BY DEF Done
<1> HIDE DEF a, b
<1>3. Done(E, O, d) \in 0 .. a /\ Done(E, O, d) + b = a
  BY <1>1, <1>2
<1> QED BY <1>1, <1>3 DEF a, b

(* Late requests still carry a part of the list. *)
LEMMA AddedLate ==
  ASSUME NEW E, NEW O, NEW E2, NEW O2, Queues(E, O), NEW d \in Devices,
         NEW op \in Operation, Added(E, O, E2, O2, d, op), NEW L, LateFits(L, E, O)
  PROVE  LateFits(L, E2, O2)
<1> SUFFICES ASSUME NEW q \in L
             PROVE  \E c \in Devices : \E b \in 0 .. Done(E2, O2, c) :
                      Segment(E2, c, b, q.ops) /\ Len(q.ops) <= MaxBatch
  BY DEF LateFits
<1>1. PICK c \in Devices : \E b \in 0 .. Done(E, O, c) :
                             Segment(E, c, b, q.ops) /\ Len(q.ops) <= MaxBatch
  BY DEF LateFits
<1>2. PICK b \in 0 .. Done(E, O, c) : Segment(E, c, b, q.ops) /\ Len(q.ops) <= MaxBatch
  BY <1>1
<1>3. b \in Nat
  BY <1>2, DoneType
<1>4. Segment(E2, c, b, q.ops)
  BY <1>2, <1>3, AddedSegment
<1>a. Longer(E, O, E2, O2, d, op)
  BY AddedLists
<1>5. Done(E2, O2, c) = Done(E, O, c)
  BY <1>a DEF Longer
<1> QED BY <1>2, <1>4, <1>5

(* So does the open request; the new edit is not among the recorded ones. *)
LEMMA AddedReq ==
  ASSUME NEW E, NEW O, NEW E2, NEW O2, Queues(E, O), NEW d \in Devices,
         NEW op \in Operation, Added(E, O, E2, O2, d, op),
         NEW T \in Tx, FromEdits(T.db, E), NEW R, NEW C, NEW P, ReqFits(R, T, E, O, C, P)
  PROVE  ReqFits(R, T, E2, O2, C, P)
<1>1. PICK c \in Devices : \E b \in 0 .. Len(E[c]) :
        Stands(R, T, E, O, c, b) /\ (R.from # None => Own(R, T, E, O, C, P, c, b))
  BY DEF ReqFits
<1>2. PICK b \in 0 .. Len(E[c]) :
        Stands(R, T, E, O, c, b) /\ (R.from # None => Own(R, T, E, O, C, P, c, b))
  BY <1>1
<1>a. Longer(E, O, E2, O2, d, op)
  BY AddedLists
<1>3. /\ Done(E2, O2, c) = Done(E, O, c)
      /\ Len(E[c]) \in Nat /\ Len(E2[c]) \in Nat /\ Len(E[c]) <= Len(E2[c])
      /\ \A n \in 1 .. Len(E[c]) : E2[c][n] = E[c][n]
      /\ \A n \in 1 .. Len(E2[c]) : n \in 1 .. Len(E[c]) \/ (c = d /\ n = Len(E[d]) + 1)
      /\ E2[d][Len(E[d]) + 1] = op
  BY <1>a DEF Longer
<1>4. ~Known(T.db, op.id)
  BY AddedFresh
<1>5. /\ Segment(E, c, b, R.ops) /\ b + Len(R.ops) <= Done(E, O, c) + MaxBatch
      /\ \A n \in 1 .. b : Known(T.db, E[c][n].id)
  BY <1>2 DEF Stands
<1>6. b \in Nat /\ b \in 0 .. Len(E2[c]) /\ \A n \in 1 .. b : n \in 1 .. Len(E[c])
  BY <1>3
<1>7. Segment(E2, c, b, R.ops)
  BY <1>5, <1>6, AddedSegment
<1>8. Stands(R, T, E2, O2, c, b)
  BY <1>3, <1>5, <1>6, <1>7 DEF Stands
<1>9. ASSUME R.from # None PROVE Own(R, T, E2, O2, C, P, c, b)
  <2>1. /\ c = R.from
        /\ b = Done(E, O, c) + Len(T.results)
        /\ T.since = C[c]
        /\ P[c] = None
        /\ \A i \in 1 .. Len(T.results) : T.results[i].result.id = E[c][Done(E, O, c) + i].id
        /\ \A n \in 1 .. Len(E[c]) : Known(T.db, E[c][n].id) => n <= b + Len(R.ops)
    BY <1>2, <1>9 DEF Own
  <2>2. T.results \in Seq(Entry) /\ Len(T.results) \in Nat
    BY DEF Tx
  <2>3. Done(E, O, c) \in Nat
    BY DoneType
  <2>4. \A i \in 1 .. Len(T.results) : Done(E, O, c) + i \in 1 .. Len(E[c])
    BY <1>6, <2>1, <2>2, <2>3, <1>3
  <2>5. \A i \in 1 .. Len(T.results) :
          T.results[i].result.id = E2[c][Done(E2, O2, c) + i].id
    <3> TAKE i \in 1 .. Len(T.results)
    <3>1. T.results[i].result.id = E[c][Done(E, O, c) + i].id
      BY <2>1
    <3>2. E2[c][Done(E, O, c) + i] = E[c][Done(E, O, c) + i]
      BY <1>3, <2>4
    <3>3. Done(E2, O2, c) = Done(E, O, c)
      BY <1>3
    <3> QED BY <3>1, <3>2, <3>3
  <2>6. \A n \in 1 .. Len(E2[c]) : Known(T.db, E2[c][n].id) => n <= b + Len(R.ops)
    BY <1>3, <1>4, <2>1
  <2> QED BY <1>3, <2>1, <2>5, <2>6 DEF Own
<1> QED BY <1>6, <1>8, <1>9 DEF ReqFits

(* No answer under way carries a change made by the new edit. *)
LEMMA AddedReplies ==
  ASSUME NEW E, NEW O, NEW E2, NEW O2, Queues(E, O), NEW d \in Devices,
         NEW op \in Operation, Added(E, O, E2, O2, d, op),
         NEW D \in DB, StoreInv(D), FromEdits(D, E), NEW C, NEW G, LogRead(D, C, G),
         NEW P, RepliesFit(P, D, E, O, C)
  PROVE  RepliesFit(P, D, E2, O2, C)
<1>0. ~Known(D, op.id)
  BY AddedFresh
<1> SUFFICES ASSUME NEW c \in Devices, P[c] # None
             PROVE  ReplyFits(D, E2, O2, C, c, P[c])
  BY DEF RepliesFit
<1> DEFINE p == P[c]
<1>a. Longer(E, O, E2, O2, d, op)
  BY AddedLists
<1>b. Len(O[c]) \in Nat
  BY DoneType
<1>1. /\ Done(E2, O2, c) = Done(E, O, c)
      /\ Len(E[c]) \in Nat /\ Len(O[c]) \in Nat /\ Len(O2[c]) \in Nat /\ Len(O[c]) <= Len(O2[c])
      /\ \A n \in 1 .. Len(E[c]) : E2[c][n] = E[c][n]
      /\ \A n \in 1 .. Len(E2[c]) : n \in 1 .. Len(E[c]) \/ (c = d /\ n = Len(E[d]) + 1)
      /\ E2[d][Len(E[d]) + 1] = op
  BY <1>a, <1>b DEF Longer
<1>2. /\ p.page \in Seq(Change)
      /\ p.cursor = C[c] + Len(p.page)
      /\ p.cursor <= Len(D.changes)
      /\ \A i \in 1 .. Len(p.page) : p.page[i] = D.changes[C[c] + i]
  BY DEF RepliesFit, ReplyFits
<1>3. PICK m \in 0 .. Len(O[c]) :
       /\ p.answered = {E[c][Done(E, O, c) + i].id : i \in 1 .. m}
       /\ \A i \in 1 .. m : Known(D, E[c][Done(E, O, c) + i].id)
       /\ \A n \in 1 .. Len(E[c]), j \in 1 .. Len(p.page) :
            LastOp(p.page[j]) = E[c][n].id => n <= Done(E, O, c) + m
  BY DEF RepliesFit, ReplyFits
<1> HIDE DEF p
<1>4. \A i \in 1 .. m : E2[c][Done(E2, O2, c) + i] = E[c][Done(E, O, c) + i]
  <2>1. Done(E, O, c) \in Nat /\ Done(E, O, c) + Len(O[c]) = Len(E[c])
    BY DoneType
  <2>2. \A i \in 1 .. m : Done(E, O, c) + i \in 1 .. Len(E[c])
    BY <1>1, <2>1
  <2> QED BY <1>1, <2>2
<1>5. ASSUME NEW n \in 1 .. Len(E2[c]), NEW j \in 1 .. Len(p.page),
             LastOp(p.page[j]) = E2[c][n].id
      PROVE  n <= Done(E2, O2, c) + m
  <2>1. CASE n \in 1 .. Len(E[c])
    BY <2>1, <1>1, <1>3, <1>5
  <2>2. CASE c = d /\ n = Len(E[d]) + 1
    <3>1. C[c] \in Nat /\ Len(p.page) \in Nat /\ Len(D.changes) \in Nat
      BY <1>2 DEF LogRead, DB
    <3>2. C[c] + j \in 1 .. Len(D.changes)
      BY <1>2, <3>1
    <3>3. Known(D, LastOp(D.changes[C[c] + j]))
      BY <3>2, ChangeKnown DEF StoreInv
    <3> QED BY <3>3, <2>2, <1>0, <1>1, <1>2, <1>5
  <2> QED BY <1>1, <2>1, <2>2
<1>6. p.answered = {E2[c][Done(E2, O2, c) + i].id : i \in 1 .. m}
  BY <1>3, <1>4
<1>7. m \in 0 .. Len(O2[c])
  BY <1>1
<1>8. \A i \in 1 .. m : Known(D, E2[c][Done(E2, O2, c) + i].id)
  BY <1>3, <1>4
<1> QED BY <1>2, <1>5, <1>6, <1>7, <1>8 DEF ReplyFits, p

-----------------------------------------------------------------------------
(* Devices: applying an answer                                             *)

(* Device d applied answer p. *)
Read(O, C, G, P, O2, C2, G2, P2, d, p) ==
  /\ O2 = [O EXCEPT ![d] = Selected(O[d], {i \in 1 .. Len(O[d]) : O[d][i].id \notin p.answered})]
  /\ C2 = [C EXCEPT ![d] = p.cursor]
  /\ G2 = [G EXCEPT ![d] = G[d] \o p.page]
  /\ P2 = [P EXCEPT ![d] = None]

(* Devices only get further. *)
Further(E, O, C, G, P, O2, C2, G2, P2, d) ==
  /\ \A c \in Devices : /\ Done(E, O, c) \in Nat /\ Done(E, O2, c) \in Nat
                        /\ Done(E, O, c) <= Done(E, O2, c)
                        /\ c # d => /\ Done(E, O2, c) = Done(E, O, c) /\ O2[c] = O[c]
                                    /\ C2[c] = C[c]
  /\ \A c \in Devices : \A f : Seen(G, c, f) => Seen(G2, c, f)
  /\ P2 = [c \in Devices |-> IF c = d THEN None ELSE P[c]]

(* What is left of the outbox when m edits were answered. *)
Left(o, A) == Selected(o, {i \in 1 .. Len(o) : o[i].id \notin A})

(* The ids of the first m edits in the outbox of d. *)
Named(E, O, d, m) == {E[d][Done(E, O, d) + i].id : i \in 1 .. m}

(* Dropping the first m edits by their ids leaves the rest, in order. *)
LEMMA OutboxLeft ==
  ASSUME NEW E, NEW O, Queues(E, O), NEW d \in Devices, NEW m \in 0 .. Len(O[d]), NEW A,
         A = Named(E, O, d, m)
  PROVE  /\ Left(O[d], A) \in Seq(Operation) /\ Len(Left(O[d], A)) = Len(O[d]) - m
         /\ \A i \in 1 .. Len(O[d]) - m :
              Left(O[d], A)[i] = E[d][Done(E, O, d) + m + i]
<1> DEFINE b == Len(O[d])
           x == Done(E, O, d)
           I == {i \in 1 .. b : O[d][i].id \notin A}
           o == SubSeq(O[d], m + 1, b)
<1>1. /\ b \in Nat /\ x \in Nat /\ x + b = Len(E[d]) /\ O[d] \in Seq(Operation)
      /\ Len(E[d]) \in Nat /\ \A i \in 1 .. b : O[d][i] = E[d][x + i]
  <2>1. b \in Nat /\ x \in Nat /\ x + b = Len(E[d]) /\ Len(E[d]) \in Nat
    BY DoneType
  <2>2. O[d] \in Seq(Operation) /\ \A i \in 1 .. b : O[d][i] = E[d][x + i]
    BY DEF Queues
  <2> QED BY <2>1, <2>2
<1> HIDE DEF b, x
<1>2. m \in Nat /\ m <= b
  BY <1>1 DEF b
<1>3. \A i \in 1 .. b : x + i \in 1 .. Len(E[d])
  BY <1>1
<1>4. ASSUME NEW i \in 1 .. b PROVE i \in I <=> i > m
  <2>1. CASE i > m
    <3>1. \A j \in 1 .. m : E[d][x + j].id # E[d][x + i].id
      <4> SUFFICES ASSUME NEW j \in 1 .. m, E[d][x + j].id = E[d][x + i].id PROVE FALSE
        OBVIOUS
      <4>1. j \in 1 .. b
        BY <1>1, <1>2
      <4>2. x + j \in 1 .. Len(E[d]) /\ x + i \in 1 .. Len(E[d])
        BY <1>3, <4>1
      <4>3. x + j = x + i
        BY <4>2, EditOfId
      <4> QED BY <4>3, <2>1, <1>1, <1>2
    <3>2. O[d][i].id \notin A
      BY <1>1, <3>1 DEF x, Named
    <3> QED BY <2>1, <3>2
  <2>2. CASE ~(i > m)
    <3>1. i \in 1 .. m
      BY <2>2, <1>1, <1>2
    <3>2. O[d][i].id \in A
      BY <1>1, <3>1 DEF x, Named
    <3> QED BY <2>2, <3>2
  <2> QED BY <2>1, <2>2
<1> HIDE DEF I
<1>5. Selected(O[d], I) = o
  <2>1. m \in 0 .. Len(O[d]) /\ \A i \in 1 .. Len(O[d]) : i \in I <=> i > m
    BY <1>4 DEF b
  <2> QED BY <1>1, <2>1, SelectedRest DEF b
<1>6. /\ o \in Seq(Operation)
      /\ Len(o) = IF m + 1 <= b THEN b - (m + 1) + 1 ELSE 0
      /\ \A i \in 1 .. b - (m + 1) + 1 : o[i] = O[d][m + 1 + i - 1]
  <2>1. \A i \in m + 1 .. b : O[d][i] \in Operation
    BY <1>1, <1>2 DEF b
  <2>2. m + 1 \in Int /\ b \in Int
    BY <1>1, <1>2
  <2> QED BY <2>1, <2>2, SubSeqProperties
<1> HIDE DEF o
<1>7. Len(o) = b - m
  BY <1>1, <1>2, <1>6
<1>8. ASSUME NEW i \in 1 .. Len(o) PROVE o[i] = E[d][x + m + i]
  <2>1. /\ i \in 1 .. b - (m + 1) + 1 /\ m + 1 + i - 1 = m + i /\ m + i \in 1 .. b
        /\ x + (m + i) = x + m + i
    BY <1>1, <1>2, <1>7
  <2>2. o[i] = O[d][m + i]
    BY <1>6, <2>1
  <2>3. O[d][m + i] = E[d][x + (m + i)]
    BY <1>1, <2>1
  <2> QED BY <2>1, <2>2, <2>3
<1>9. Left(O[d], A) = o
  BY <1>5 DEF Left, I, b
<1> QED BY <1>6, <1>7, <1>8, <1>9 DEF b, x

(* Applying an answer: the cursor and the changes go on along the log, the *)
(* outbox stays the end of the list, and what was dropped is recorded.     *)
LEMMA ReadLists ==
  ASSUME NEW E, NEW O, NEW C, NEW G, NEW P, NEW O2, NEW C2, NEW G2, NEW P2,
         Queues(E, O), NEW D \in DB, LogRead(D, C, G), OwnRead(E, O, G), DoneKnown(D, E, O),
         RepliesFit(P, D, E, O, C), NEW d \in Devices, P[d] # None,
         Read(O, C, G, P, O2, C2, G2, P2, d, P[d])
  PROVE  /\ Queues(E, O2) /\ LogRead(D, C2, G2) /\ OwnRead(E, O2, G2) /\ DoneKnown(D, E, O2)
         /\ Further(E, O, C, G, P, O2, C2, G2, P2, d)
<1> DEFINE p == P[d]
           x == Done(E, O, d)
<1>1. /\ p.page \in Seq(Change)
      /\ p.cursor = C[d] + Len(p.page)
      /\ p.cursor <= Len(D.changes)
      /\ \A i \in 1 .. Len(p.page) : p.page[i] = D.changes[C[d] + i]
  BY DEF RepliesFit, ReplyFits
<1>2. PICK m \in 0 .. Len(O[d]) :
       /\ p.answered = {E[d][Done(E, O, d) + i].id : i \in 1 .. m}
       /\ \A i \in 1 .. m : Known(D, E[d][Done(E, O, d) + i].id)
       /\ \A n \in 1 .. Len(E[d]), j \in 1 .. Len(p.page) :
            LastOp(p.page[j]) = E[d][n].id => n <= Done(E, O, d) + m
  BY DEF RepliesFit, ReplyFits
<1>3. P = [c \in Devices |-> P[c]]
  BY DEF RepliesFit
<1> DEFINE o == Left(O[d], p.answered)
           g == G[d] \o p.page
<1>4. /\ o \in Seq(Operation) /\ Len(o) = Len(O[d]) - m
      /\ \A i \in 1 .. Len(o) : o[i] = E[d][Done(E, O, d) + m + i]
  <2>1. p.answered = {E[d][Done(E, O, d) + i].id : i \in 1 .. m}
    BY <1>2
  <2> DEFINE A == p.answered
  <2> HIDE DEF A
  <2>2. A = Named(E, O, d, m)
    BY <2>1 DEF A, Named
  <2>3. /\ Left(O[d], A) \in Seq(Operation) /\ Len(Left(O[d], A)) = Len(O[d]) - m
        /\ \A i \in 1 .. Len(O[d]) - m :
              Left(O[d], A)[i] = E[d][Done(E, O, d) + m + i]
    BY ONLY <2>2, OutboxLeft, Queues(E, O), d \in Devices, m \in 0 .. Len(O[d])
  <2> QED BY <2>3 DEF A
<1>5. /\ O2 = [O EXCEPT ![d] = o] /\ C2 = [C EXCEPT ![d] = p.cursor]
      /\ G2 = [G EXCEPT ![d] = g] /\ P2 = [P EXCEPT ![d] = None]
  BY DEF Read, Left
<1>6. /\ O \in [Devices -> Seq(Operation)] /\ C \in [Devices -> Nat]
      /\ G \in [Devices -> Seq(Change)] /\ E \in [Devices -> Seq(Operation)]
  BY DEF Queues, LogRead
<1>7. /\ C[d] \in Nat /\ Len(G[d]) = C[d] /\ \A i \in 1 .. C[d] : G[d][i] = D.changes[i]
      /\ G[d] \in Seq(Change) /\ Len(p.page) \in Nat /\ Len(D.changes) \in Nat
  BY <1>1 DEF LogRead, DB
<1> HIDE DEF p, o
<1>8. /\ g \in Seq(Change) /\ Len(g) = C[d] + Len(p.page)
      /\ \A i \in 1 .. C[d] : g[i] = G[d][i]
      /\ \A i \in 1 .. Len(p.page) : g[C[d] + i] = p.page[i]
  <2>1. /\ g \in Seq(Change) /\ Len(g) = Len(G[d]) + Len(p.page)
        /\ \A i \in 1 .. Len(G[d]) + Len(p.page) :
             g[i] = IF i <= Len(G[d]) THEN G[d][i] ELSE p.page[i - Len(G[d])]
    BY <1>1, <1>7, ConcatProperties
  <2> HIDE DEF g
  <2>2. \A i \in 1 .. C[d] : i \in 1 .. Len(G[d]) + Len(p.page) /\ i <= Len(G[d])
    BY <1>7
  <2>4. \A i \in 1 .. C[d] : g[i] = G[d][i]
    BY <2>1, <2>2
  <2>5. \A i \in 1 .. Len(p.page) : g[C[d] + i] = p.page[i]
    <3> TAKE i \in 1 .. Len(p.page)
    <3> DEFINE j == C[d] + i
    <3>1. j \in 1 .. Len(G[d]) + Len(p.page) /\ ~(j <= Len(G[d])) /\ j - Len(G[d]) = i
      <4> DEFINE a == C[d]
                 l == Len(p.page)
      <4>1. a \in Nat /\ l \in Nat /\ i \in 1 .. l /\ Len(G[d]) = a /\ j = a + i
        BY <1>7
      <4> HIDE DEF a, l, j
      <4>2. j \in 1 .. a + l /\ ~(j <= a) /\ j - a = i
        BY <4>1
      <4> QED BY <4>1, <4>2 DEF l
    <3> HIDE DEF j
    <3>2. g[j] = p.page[i]
      BY <2>1, <3>1
    <3> QED BY <3>2 DEF j
  <2> QED BY <1>7, <2>1, <2>4, <2>5
<1> HIDE DEF g
<1>9. /\ O2 \in [Devices -> Seq(Operation)] /\ O2[d] = o
      /\ C2 \in [Devices -> Nat] /\ C2[d] = p.cursor
      /\ G2 \in [Devices -> Seq(Change)] /\ G2[d] = g
      /\ \A c \in Devices : c # d => O2[c] = O[c] /\ C2[c] = C[c] /\ G2[c] = G[c]
  <2>1. p.cursor \in Nat
    BY <1>1, <1>7
  <2> QED BY <1>4, <1>5, <1>6, <1>8, <2>1
<1>10. P2 = [c \in Devices |-> IF c = d THEN None ELSE P[c]]
  <2>1. P2 = [[c \in Devices |-> P[c]] EXCEPT ![d] = None]
    BY <1>3, <1>5
  <2> QED BY <2>1
<1>11. /\ x \in Nat /\ Len(E[d]) \in Nat /\ Len(O[d]) \in Nat /\ x + Len(O[d]) = Len(E[d])
       /\ m \in Nat /\ m <= Len(O[d])
  BY DoneType
<1>12. Done(E, O2, d) = x + m /\ Len(o) \in Nat
  <2> DEFINE y == Len(E[d])
             z == Len(O[d])
             w == Len(o)
  <2>1. /\ y \in Nat /\ z \in Nat /\ w = z - m /\ x + z = y /\ m <= z /\ m \in Nat /\ x \in Nat
    BY <1>4, <1>11
  <2>2. Done(E, O2, d) = y - w
    BY <1>9 DEF Done
  <2> HIDE DEF x, y, z, w
  <2>3. Done(E, O2, d) = x + m /\ w \in Nat
    BY <2>1, <2>2
  <2> QED BY <2>3 DEF w
<1> HIDE DEF x
<1>13. Queues(E, O2)
  <2> SUFFICES ASSUME NEW c \in Devices
               PROVE  /\ Len(O2[c]) <= Len(E[c])
                      /\ \A i \in 1 .. Len(O2[c]) : O2[c][i] = E[c][Done(E, O2, c) + i]
    BY <1>6, <1>9 DEF Queues
  <2>1. CASE c = d
    <3>1. Len(o) <= Len(E[d])
      BY <1>4, <1>11
    <3>2. \A i \in 1 .. Len(o) : o[i] = E[d][x + m + i]
      BY <1>4 DEF x
    <3> QED BY <2>1, <3>1, <3>2, <1>9, <1>12
  <2>2. CASE c # d
    <3>1. O2[c] = O[c] /\ Done(E, O2, c) = Done(E, O, c)
      BY <2>2, <1>9 DEF Done
    <3> QED BY <3>1 DEF Queues
  <2> QED BY <2>1, <2>2
<1>14. LogRead(D, C2, G2)
  <2> SUFFICES ASSUME NEW c \in Devices
               PROVE  /\ C2[c] <= Len(D.changes)
                      /\ Len(G2[c]) = C2[c]
                      /\ \A i \in 1 .. C2[c] : G2[c][i] = D.changes[i]
    BY <1>9 DEF LogRead
  <2>1. CASE c = d
    <3>1. ASSUME NEW i \in 1 .. C[d] + Len(p.page) PROVE g[i] = D.changes[i]
      <4>1. CASE i <= C[d]
        <5>1. i \in 1 .. C[d]
          BY <4>1, <1>7
        <5> QED BY <5>1, <1>7, <1>8
      <4>2. CASE ~(i <= C[d])
        <5> DEFINE a == C[d]
                   l == Len(p.page)
        <5>a. a \in Nat /\ l \in Nat /\ i \in 1 .. a + l /\ ~(i <= a)
          BY <4>2, <1>7
        <5> HIDE DEF a, l
        <5>b. i - a \in 1 .. l /\ a + (i - a) = i
          BY <5>a
        <5>1. i - C[d] \in 1 .. Len(p.page) /\ C[d] + (i - C[d]) = i
          BY <5>b DEF a, l
        <5> QED BY <5>1, <1>1, <1>8
      <4> QED BY <4>1, <4>2
    <3> QED BY <2>1, <3>1, <1>1, <1>8, <1>9
  <2>2. CASE c # d
    BY <2>2, <1>9 DEF LogRead
  <2> QED BY <2>1, <2>2
<1>15. OwnRead(E, O2, G2)
  <2> SUFFICES ASSUME NEW c \in Devices, NEW n \in 1 .. Len(E[c]), NEW i \in 1 .. Len(G2[c]),
                      LastOp(G2[c][i]) = E[c][n].id
               PROVE  n <= Done(E, O2, c)
    BY DEF OwnRead
  <2>1. CASE c # d
    BY <2>1, <1>9 DEF OwnRead, Done
  <2>2. CASE c = d
    <3>1. n \in Nat /\ n \in 1 .. Len(E[d])
      BY <2>2
    <3>2. CASE i <= C[d]
      <4>1. i \in 1 .. C[d]
        BY <3>2, <2>2, <1>7, <1>8, <1>9
      <4>2. LastOp(G[d][i]) = E[d][n].id
        BY <4>1, <2>2, <1>8, <1>9
      <4>3. n <= x
        BY <4>1, <4>2, <3>1, <1>7 DEF OwnRead, x
      <4> QED BY <4>3, <3>1, <2>2, <1>11, <1>12
    <3>3. CASE ~(i <= C[d])
      <4> DEFINE a == C[d]
                 l == Len(p.page)
      <4>a. a \in Nat /\ l \in Nat /\ i \in 1 .. a + l /\ ~(i <= a)
        BY <3>3, <2>2, <1>7, <1>8, <1>9
      <4> HIDE DEF a, l
      <4>b. i - a \in 1 .. l /\ a + (i - a) = i
        BY <4>a
      <4>1. i - C[d] \in 1 .. Len(p.page) /\ C[d] + (i - C[d]) = i
        BY <4>b DEF a, l
      <4>2. g[i] = p.page[i - C[d]]
        BY <4>1, <1>8
      <4>3. LastOp(p.page[i - C[d]]) = E[d][n].id
        BY <4>2, <2>2, <1>9
      <4> QED BY <4>1, <4>3, <3>1, <2>2, <1>2, <1>12 DEF x
    <3> QED BY <3>2, <3>3
  <2> QED BY <2>1, <2>2
<1>16. DoneKnown(D, E, O2)
  <2> SUFFICES ASSUME NEW c \in Devices, NEW n \in 1 .. Done(E, O2, c)
               PROVE  Known(D, E[c][n].id)
    BY DEF DoneKnown
  <2>1. CASE c # d
    BY <2>1, <1>9 DEF DoneKnown, Done
  <2>2. CASE c = d
    <3>1. CASE n <= x
      <4>1. n \in 1 .. x
        BY <3>1, <2>2, <1>11, <1>12
      <4> QED BY <4>1, <2>2 DEF DoneKnown, x
    <3>2. CASE ~(n <= x)
      <4>1. n - x \in 1 .. m /\ x + (n - x) = n
        BY <3>2, <2>2, <1>11, <1>12
      <4>2. Known(D, E[d][x + (n - x)].id)
        BY <4>1, <1>2 DEF x
      <4> QED BY <4>1, <4>2, <2>2
    <3> QED BY <3>1, <3>2
  <2> QED BY <2>1, <2>2
<1>17. \A c \in Devices : /\ Done(E, O, c) \in Nat /\ Done(E, O2, c) \in Nat
                          /\ Done(E, O, c) <= Done(E, O2, c)
                          /\ c # d => /\ Done(E, O2, c) = Done(E, O, c) /\ O2[c] = O[c]
                                      /\ C2[c] = C[c]
  <2> TAKE c \in Devices
  <2>2. CASE c = d
    <3>1. Done(E, O, d) = x
      BY DEF x
    <3> QED BY <3>1, <2>2, <1>11, <1>12
  <2>3. CASE c # d
    <3>1. Done(E, O, c) \in 0 .. Len(E[c])
      BY DoneType
    <3>2. Done(E, O2, c) = Done(E, O, c)
      BY <2>3, <1>9 DEF Done
    <3> QED BY <3>1, <3>2, <2>3, <1>9
  <2> QED BY <2>2, <2>3
<1>18. ASSUME NEW c \in Devices, NEW f, Seen(G, c, f) PROVE Seen(G2, c, f)
  <2>1. CASE c # d
    BY <2>1, <1>9, <1>18 DEF Seen
  <2>2. CASE c = d
    <3>1. PICK i \in 1 .. Len(G[d]) : /\ G[d][i].key = f.op.key
                                     /\ G[d][i].record.revision = f.result.revision
      BY <2>2, <1>18 DEF Seen
    <3>2. i \in 1 .. C[d] /\ i \in 1 .. Len(g)
      BY <3>1, <1>7, <1>8
    <3>3. g[i] = G[d][i]
      BY <3>2, <1>8
    <3> QED BY <2>2, <3>1, <3>2, <3>3, <1>9 DEF Seen
  <2> QED BY <2>1, <2>2
<1>19. Further(E, O, C, G, P, O2, C2, G2, P2, d)
  BY <1>10, <1>17, <1>18 DEF Further
<1> QED BY <1>13, <1>14, <1>15, <1>16, <1>19

(* Neither the facts about the tables are lost when a device gets further, *)
LEMMA FurtherTables ==
  ASSUME NEW E, NEW O, NEW C, NEW G, NEW P, NEW O2, NEW C2, NEW G2, NEW P2, NEW d,
         Further(E, O, C, G, P, O2, C2, G2, P2, d), NEW D, TablesOf(D, E, O, G)
  PROVE  TablesOf(D, E, O2, G2)
<1>1. /\ Counted(D) /\ FromEdits(D, E) /\ InReach(D, E, O) /\ Based(D, E, G)
      /\ ReplacedSeen(D, E, G)
  BY DEF TablesOf
<1>2. \A c \in Devices : \A f : Seen(G, c, f) => Seen(G2, c, f)
  BY DEF Further
<1>3. InReach(D, E, O2)
  <2> SUFFICES ASSUME NEW c \in Devices, NEW n \in 1 .. Len(E[c]), Known(D, E[c][n].id)
               PROVE  n <= Done(E, O2, c) + MaxBatch
    BY DEF InReach
  <2>1. n <= Done(E, O, c) + MaxBatch
    BY <1>1 DEF InReach
  <2>2. Done(E, O, c) \in Nat /\ Done(E, O2, c) \in Nat /\ Done(E, O, c) <= Done(E, O2, c)
    BY DEF Further
  <2> QED BY <2>1, <2>2, SyncAssumption
<1>4. Based(D, E, G2)
  <2> SUFFICES ASSUME NEW c \in Devices, NEW n \in 1 .. Len(E[c])
               PROVE  \E s \in 0 .. E[c][n].base, m \in 0 .. n - 1 :
                        BasedOn(D, E, G2, c, n, s, m)
    BY DEF Based
  <2>1. PICK s \in 0 .. E[c][n].base, m \in 0 .. n - 1 : BasedOn(D, E, G, c, n, s, m)
    BY <1>1 DEF Based
  <2>2. BasedOn(D, E, G2, c, n, s, m)
    BY <1>2, <2>1 DEF BasedOn
  <2> QED BY <2>2
<1>5. ReplacedSeen(D, E, G2)
  BY <1>1, <1>2 DEF ReplacedSeen
<1> QED BY <1>1, <1>3, <1>4, <1>5 DEF TablesOf

(* nor those about late requests, *)
LEMMA FurtherLate ==
  ASSUME NEW E, NEW O, NEW C, NEW G, NEW P, NEW O2, NEW C2, NEW G2, NEW P2, NEW d,
         Further(E, O, C, G, P, O2, C2, G2, P2, d), NEW L, LateFits(L, E, O)
  PROVE  LateFits(L, E, O2)
<1> SUFFICES ASSUME NEW q \in L
             PROVE  \E c \in Devices : \E b \in 0 .. Done(E, O2, c) :
                      Segment(E, c, b, q.ops) /\ Len(q.ops) <= MaxBatch
  BY DEF LateFits
<1>1. PICK c \in Devices : \E b \in 0 .. Done(E, O, c) :
                             Segment(E, c, b, q.ops) /\ Len(q.ops) <= MaxBatch
  BY DEF LateFits
<1>2. PICK b \in 0 .. Done(E, O, c) : Segment(E, c, b, q.ops) /\ Len(q.ops) <= MaxBatch
  BY <1>1
<1>3. b \in 0 .. Done(E, O2, c)
  BY <1>2 DEF Further
<1> QED BY <1>2, <1>3

(* nor those about the open request, which belongs to another device, *)
LEMMA FurtherReq ==
  ASSUME NEW E, NEW O, NEW C, NEW G, NEW P, NEW O2, NEW C2, NEW G2, NEW P2, NEW d,
         Further(E, O, C, G, P, O2, C2, G2, P2, d), P[d] # None, Queues(E, O),
         NEW R, NEW T, ReqFits(R, T, E, O, C, P)
  PROVE  ReqFits(R, T, E, O2, C2, P2)
<1>1. PICK c \in Devices : \E b \in 0 .. Len(E[c]) :
        Stands(R, T, E, O, c, b) /\ (R.from # None => Own(R, T, E, O, C, P, c, b))
  BY DEF ReqFits
<1>2. PICK b \in 0 .. Len(E[c]) :
        Stands(R, T, E, O, c, b) /\ (R.from # None => Own(R, T, E, O, C, P, c, b))
  BY <1>1
<1>3. /\ Done(E, O, c) \in Nat /\ Done(E, O2, c) \in Nat /\ Done(E, O, c) <= Done(E, O2, c)
      /\ c # d => Done(E, O2, c) = Done(E, O, c) /\ O2[c] = O[c] /\ C2[c] = C[c]
      /\ P2[c] = IF c = d THEN None ELSE P[c]
  BY DEF Further
<1>4. Stands(R, T, E, O2, c, b)
  <2>1. /\ Segment(E, c, b, R.ops) /\ b + Len(R.ops) <= Done(E, O, c) + MaxBatch
        /\ \A n \in 1 .. b : Known(T.db, E[c][n].id)
    BY <1>2 DEF Stands
  <2>2. Len(R.ops) \in Nat /\ b \in Nat
    BY <2>1, DoneType DEF Segment
  <2>3. b + Len(R.ops) <= Done(E, O2, c) + MaxBatch
    BY <1>3, <2>1, <2>2, SyncAssumption
  <2> QED BY <2>1, <2>3 DEF Stands
<1>5. ASSUME R.from # None PROVE Own(R, T, E, O2, C2, P2, c, b)
  <2>1. Own(R, T, E, O, C, P, c, b)
    BY <1>2, <1>5
  <2>2. c # d
    BY <2>1 DEF Own
  <2> QED BY <1>3, <2>1, <2>2 DEF Own
<1> QED BY <1>4, <1>5 DEF ReqFits

(* nor those about the answers to the others. *)
LEMMA FurtherReplies ==
  ASSUME NEW E, NEW O, NEW C, NEW G, NEW P, NEW O2, NEW C2, NEW G2, NEW P2, NEW d,
         Further(E, O, C, G, P, O2, C2, G2, P2, d),
         NEW D, RepliesFit(P, D, E, O, C)
  PROVE  RepliesFit(P2, D, E, O2, C2)
<1>1. P2 = [c \in Devices |-> IF c = d THEN None ELSE P[c]]
  BY DEF Further
<1>2. P2 = [c \in Devices |-> P2[c]]
  BY <1>1
<1>3. ASSUME NEW c \in Devices, P2[c] # None PROVE ReplyFits(D, E, O2, C2, c, P2[c])
  <2>1. c # d /\ P2[c] = P[c]
    BY <1>1, <1>3
  <2>2. ReplyFits(D, E, O, C, c, P2[c])
    BY <1>3, <2>1 DEF RepliesFit
  <2>3. Done(E, O2, c) = Done(E, O, c) /\ O2[c] = O[c] /\ C2[c] = C[c]
    BY <2>1 DEF Further
  <2> DEFINE x == Done(E, O, c)
             y == Done(E, O2, c)
             p == P2[c]
  <2>4. x = y
    BY <2>3
  <2> HIDE DEF x, y, p
  <2>5. /\ p.page \in Seq(Change)
        /\ p.cursor = C2[c] + Len(p.page)
        /\ p.cursor <= Len(D.changes)
        /\ \A i \in 1 .. Len(p.page) : p.page[i] = D.changes[C2[c] + i]
    BY <2>2, <2>3 DEF ReplyFits, p
  <2>6. \E m \in 0 .. Len(O[c]) :
          /\ p.answered = {E[c][x + i].id : i \in 1 .. m}
          /\ \A i \in 1 .. m : Known(D, E[c][x + i].id)
          /\ \A n \in 1 .. Len(E[c]), j \in 1 .. Len(p.page) :
               LastOp(p.page[j]) = E[c][n].id => n <= x + m
    BY ONLY <2>2 DEF ReplyFits, p, x
  <2>7. \E m \in 0 .. Len(O2[c]) :
          /\ p.answered = {E[c][y + i].id : i \in 1 .. m}
          /\ \A i \in 1 .. m : Known(D, E[c][y + i].id)
          /\ \A n \in 1 .. Len(E[c]), j \in 1 .. Len(p.page) :
               LastOp(p.page[j]) = E[c][n].id => n <= y + m
    BY ONLY <2>3, <2>4, <2>6
  <2> QED BY ONLY <2>5, <2>7 DEF ReplyFits, p, y
<1> QED BY <1>2, <1>3 DEF RepliesFit

-----------------------------------------------------------------------------
(* Devices: requests                                                       *)

(* A batch is the front of the outbox. *)
LEMMA BatchSegment ==
  ASSUME NEW E, NEW O, Queues(E, O), NEW d \in Devices, NEW ops,
         ops = SubSeq(O[d], 1, IF Len(O[d]) < MaxBatch THEN Len(O[d]) ELSE MaxBatch)
  PROVE  /\ Segment(E, d, Done(E, O, d), ops)
         /\ Len(ops) = IF Len(O[d]) < MaxBatch THEN Len(O[d]) ELSE MaxBatch
<1> DEFINE b == Len(O[d])
           x == Done(E, O, d)
           l == IF b < MaxBatch THEN b ELSE MaxBatch
<1>1. b \in Nat /\ x \in Nat /\ x + b = Len(E[d])
  BY DoneType
<1>2. O[d] \in Seq(Operation) /\ \A i \in 1 .. b : O[d][i] = E[d][x + i]
  BY DEF Queues
<1>3. l \in 0 .. b
  <2> HIDE DEF b
  <2> QED BY <1>1, SyncAssumption
<1>4. /\ ops \in Seq(Operation) /\ Len(ops) = l
      /\ \A i \in 1 .. l : ops[i] = O[d][i]
  <2> HIDE DEF l
  <2>1. ops = SubSeq(O[d], 1, l)
    BY DEF l
  <2>2. l \in 0 .. Len(O[d])
    BY <1>3
  <2>3. /\ 1 \in Int /\ l \in Int
        /\ \A i \in 1 .. l : O[d][i] \in Operation
    BY <1>2, <2>2
  <2> DEFINE s == O[d]
  <2> HIDE DEF s
  <2>4. /\ SubSeq(s, 1, l) \in Seq(Operation)
        /\ Len(SubSeq(s, 1, l)) = IF 1 <= l THEN l - 1 + 1 ELSE 0
        /\ \A i \in 1 .. l - 1 + 1 : SubSeq(s, 1, l)[i] = s[1 + i - 1]
    BY <2>3, SubSeqProperties DEF s
  <2>5. ops \in Seq(Operation) /\ ops = SubSeq(s, 1, l)
    BY <2>1, <2>4 DEF s
  <2>6. l \in Nat
    BY <1>1, <2>2
  <2>7. Len(ops) = l
    BY ONLY <2>4, <2>5, <2>6
  <2>8. \A i \in 1 .. l : ops[i] = s[i]
    <3> TAKE i \in 1 .. l
    <3>1. i \in 1 .. l - 1 + 1 /\ 1 + i - 1 = i
      BY <2>6
    <3> QED BY ONLY <2>4, <2>5, <3>1
  <2> QED BY ONLY <2>5, <2>7, <2>8 DEF s
<1> HIDE DEF b, x, l
<1>5. /\ x + Len(ops) <= Len(E[d]) /\ \A i \in 1 .. Len(ops) : ops[i] = E[d][x + i]
  <2>1. x + Len(ops) <= Len(E[d])
    BY <1>1, <1>3, <1>4
  <2>2. \A i \in 1 .. Len(ops) : i \in 1 .. l /\ i \in 1 .. b
    BY <1>1, <1>3, <1>4
  <2>3. \A i \in 1 .. Len(ops) : ops[i] = E[d][x + i]
    BY ONLY <1>2, <1>4, <2>2
  <2> QED BY <2>1, <2>3
<1>6. Segment(E, d, x, ops)
  BY ONLY <1>4, <1>5 DEF Segment
<1>7. Len(ops) = l
  BY <1>4
<1> QED BY ONLY <1>6, <1>7 DEF b, x, l

(* A request that is sent now stands after the acknowledged edits. *)
LEMMA SendReq ==
  ASSUME NEW E, NEW O, Queues(E, O), NEW d \in Devices, NEW R, NEW T, NEW C, NEW P,
         R.from = d,
         R.ops = SubSeq(O[d], 1, IF Len(O[d]) < MaxBatch THEN Len(O[d]) ELSE MaxBatch),
         T.since = C[d], T.results = <<>>, P[d] = None,
         DoneKnown(T.db, E, O), InReach(T.db, E, O)
  PROVE  ReqFits(R, T, E, O, C, P)
<1> DEFINE x == Done(E, O, d)
           l == Len(R.ops)
           o == Len(O[d])
           e == Len(E[d])
<1>1. /\ Segment(E, d, x, R.ops) /\ l = IF o < MaxBatch THEN o ELSE MaxBatch
  BY BatchSegment
<1>2. /\ e \in Nat /\ o \in Nat /\ x \in 0 .. e /\ x + o = e
  BY DoneType
<1>3. Len(T.results) = 0
  OBVIOUS
<1>4. \A n \in 1 .. x : Known(T.db, E[d][n].id)
  BY DEF DoneKnown
<1>5. \A n \in 1 .. e : Known(T.db, E[d][n].id) => n <= x + MaxBatch
  BY DEF InReach
<1> HIDE DEF x, l, o, e
<1>6. x + l <= x + MaxBatch
  BY <1>1, <1>2, SyncAssumption
<1>7. \A n \in 1 .. e : Known(T.db, E[d][n].id) => n <= x + l
  BY <1>1, <1>2, <1>5, SyncAssumption
<1>8. x = x + Len(T.results)
  BY <1>2, <1>3
<1>9. Stands(R, T, E, O, d, x)
  BY <1>1, <1>4, <1>6 DEF Stands, x, l
<1>10. Own(R, T, E, O, C, P, d, x)
  <2>1. \A i \in 1 .. Len(T.results) : FALSE
    BY <1>3
  <2>2. \A i \in 1 .. Len(T.results) : T.results[i].result.id = E[d][Done(E, O, d) + i].id
    BY ONLY <2>1
  <2>3. \A n \in 1 .. Len(E[d]) : Known(T.db, E[d][n].id) => n <= x + Len(R.ops)
    BY <1>7 DEF l, e
  <2>4. x = Done(E, O, d) + Len(T.results)
    BY <1>8 DEF x
  <2>5. d = R.from /\ T.since = C[d] /\ P[d] = None
    OBVIOUS
  <2> QED BY ONLY <2>2, <2>3, <2>4, <2>5 DEF Own
<1> QED BY <1>2, <1>9, <1>10 DEF ReqFits, e

(* A late request stands after edits that were acknowledged meanwhile. *)
LEMMA ArriveReq ==
  ASSUME NEW E, NEW O, Queues(E, O), NEW R, NEW T, NEW C, NEW P, NEW L, LateFits(L, E, O),
         NEW q \in L, R.from = None, R.ops = q.ops, DoneKnown(T.db, E, O)
  PROVE  ReqFits(R, T, E, O, C, P)
<1>1. PICK c \in Devices : \E b \in 0 .. Done(E, O, c) :
                             Segment(E, c, b, q.ops) /\ Len(q.ops) <= MaxBatch
  BY DEF LateFits
<1>2. PICK b \in 0 .. Done(E, O, c) : Segment(E, c, b, q.ops) /\ Len(q.ops) <= MaxBatch
  BY <1>1
<1>3. Done(E, O, c) \in 0 .. Len(E[c]) /\ Len(E[c]) \in Nat
  BY DoneType
<1>4. b \in 0 .. Len(E[c]) /\ \A n \in 1 .. b : n \in 1 .. Done(E, O, c)
  BY <1>3
<1>5. Len(q.ops) \in Nat
  BY <1>2 DEF Segment
<1>6. b + Len(q.ops) <= Done(E, O, c) + MaxBatch
  BY <1>2, <1>3, <1>5, SyncAssumption
<1>7. Stands(R, T, E, O, c, b)
  BY <1>2, <1>4, <1>6 DEF Stands, DoneKnown
<1> QED BY <1>4, <1>7 DEF ReqFits

(* An open request goes on with the next edit of its device. *)
LEMMA NextEdit ==
  ASSUME NEW E, NEW O, Queues(E, O), NEW R, NEW T, NEW C, NEW P,
         ReqFits(R, T, E, O, C, P), R.ops # <<>>
  PROVE  \E d \in Devices : \E n \in 1 .. Len(E[d]) :
           /\ R.ops[1] = E[d][n] /\ Head(R.ops) = E[d][n]
           /\ \A m \in 1 .. n - 1 : Known(T.db, E[d][m].id)
           /\ n <= Done(E, O, d) + MaxBatch
<1>1. PICK d \in Devices : \E b \in 0 .. Len(E[d]) : Stands(R, T, E, O, d, b)
  BY DEF ReqFits
<1>2. PICK b \in 0 .. Len(E[d]) : Stands(R, T, E, O, d, b)
  BY <1>1
<1> DEFINE l == Len(R.ops)
           e == Len(E[d])
           x == Done(E, O, d)
<1>3. R.ops \in Seq(Operation) /\ b + l <= e /\ \A i \in 1 .. l : R.ops[i] = E[d][b + i]
  BY <1>2 DEF Stands, Segment
<1>4. b + l <= x + MaxBatch /\ \A n \in 1 .. b : Known(T.db, E[d][n].id)
  BY <1>2 DEF Stands
<1>5. l \in Nat /\ l # 0 /\ Head(R.ops) = R.ops[1]
  BY <1>3
<1>6. e \in Nat /\ x \in Nat /\ b \in Nat
  BY DoneType
<1> HIDE DEF l, x, e
<1>7. 1 \in 1 .. l /\ b + 1 \in 1 .. e /\ (b + 1) - 1 = b /\ b + 1 <= x + MaxBatch
  BY <1>3, <1>4, <1>5, <1>6, SyncAssumption
<1>8. R.ops[1] = E[d][b + 1]
  BY <1>3, <1>7
<1>9. \A m \in 1 .. (b + 1) - 1 : Known(T.db, E[d][m].id)
  BY <1>4, <1>7
<1> QED BY <1>5, <1>7, <1>8, <1>9 DEF e, x

(* The answer to an operation carries its id. *)
LEMMA ResultId ==
  ASSUME NEW D \in DB, Counted(D), NEW op \in Operation
  PROVE  Result(D, op).id = op.id
<1>1. CASE Replayed(D, op)
  <2> DEFINE e == CHOOSE f \in D.operations : f.op = op
  <2>1. e \in D.operations /\ e.op = op
    BY <1>1 DEF Replayed
  <2>2. Result(D, op) = e.result
    BY <1>1 DEF Result
  <2> HIDE DEF e
  <2> QED BY <2>1, <2>2 DEF Counted
<1>2. CASE ~Replayed(D, op)
  BY <1>2 DEF Result
<1> QED BY <1>1, <1>2

(* An operation is in the tables once it was applied, and so is what was. *)
LEMMA AppliedKnows ==
  ASSUME NEW D \in DB, StoreInv(D), NEW op \in Operation, ~Refused(D, op)
  PROVE  /\ Known(Applied(D, op), op.id)
         /\ \A id : Known(D, id) => Known(Applied(D, op), id)
         /\ \A id : Known(Applied(D, op), id) => Known(D, id) \/ id = op.id
<1> DEFINE a == Applied(D, op)
           e == [op |-> op, result |-> Result(D, op)]
<1>1. e \in a.operations /\ D.operations \subseteq a.operations
  BY AppliedKeepsStore
<1>2. a.operations \subseteq D.operations \cup {e}
  <2>1. CASE Replayed(D, op)
    BY <2>1 DEF Applied
  <2>2. CASE ~Replayed(D, op)
    BY <2>2, NewEntry
  <2> QED BY <2>1, <2>2
<1>3. e.op = op
  OBVIOUS
<1> HIDE DEF a, e
<1>4. /\ \E f \in a.operations : f.op.id = op.id
      /\ \A id : (\E f \in D.operations : f.op.id = id) => \E f \in a.operations : f.op.id = id
      /\ \A id : (\E f \in a.operations : f.op.id = id)
                 => (\E f \in D.operations : f.op.id = id) \/ id = op.id
  BY <1>1, <1>2, <1>3
<1>5. \A X, id : Known(X, id) <=> \E f \in X.operations : f.op.id = id
  BY DEF Known, Recorded
<1> QED BY <1>4, <1>5 DEF a

(* After one of its operations the rest of a request fits. *)
LEMMA ServeReq ==
  ASSUME NEW E, NEW O, Queues(E, O), NEW R, R = [from |-> R.from, ops |-> R.ops],
         NEW T \in Tx, StoreInv(T.db), Counted(T.db), NEW C, NEW P,
         ReqFits(R, T, E, O, C, P), R.ops # <<>>, ~Refused(T.db, Head(R.ops)),
         NEW R2, R2 = [R EXCEPT !.ops = Tail(R.ops)],
         NEW T2 \in Tx, T2.since = T.since, T2.db = Applied(T.db, Head(R.ops)),
         T2.results = Append(T.results, [op |-> Head(R.ops),
                                         result |-> Result(T.db, Head(R.ops))])
  PROVE  ReqFits(R2, T2, E, O, C, P)
<1>1. PICK d \in Devices : \E b \in 0 .. Len(E[d]) :
        Stands(R, T, E, O, d, b) /\ (R.from # None => Own(R, T, E, O, C, P, d, b))
  BY DEF ReqFits
<1>2. PICK b \in 0 .. Len(E[d]) :
        Stands(R, T, E, O, d, b) /\ (R.from # None => Own(R, T, E, O, C, P, d, b))
  BY <1>1
<1> DEFINE op == Head(R.ops)
           l == Len(R.ops)
           e == Len(E[d])
           x == Done(E, O, d)
           r == Len(T.results)
           new == [op |-> op, result |-> Result(T.db, op)]
<1>3. R2 = [from |-> R.from, ops |-> Tail(R.ops)]
  BY ONLY R = [from |-> R.from, ops |-> R.ops], R2 = [R EXCEPT !.ops = Tail(R.ops)]
<1>4. R2.from = R.from /\ R2.ops = Tail(R.ops)
  BY <1>3
<1>5. R.ops \in Seq(Operation) /\ b + l <= e /\ \A i \in 1 .. l : R.ops[i] = E[d][b + i]
  BY <1>2 DEF Stands, Segment
<1>6. b + l <= x + MaxBatch /\ \A n \in 1 .. b : Known(T.db, E[d][n].id)
  BY <1>2 DEF Stands
<1>7. /\ l \in Nat /\ l # 0 /\ op = R.ops[1] /\ op \in Operation
      /\ Tail(R.ops) \in Seq(Operation) /\ Len(Tail(R.ops)) = l - 1
      /\ \A i \in 1 .. l - 1 : Tail(R.ops)[i] = R.ops[i + 1]
  BY <1>5
<1>8. e \in Nat /\ x \in Nat /\ b \in Nat
  BY DoneType
<1>9. T.db \in DB /\ T.results \in Seq(Entry) /\ r \in Nat
  BY DEF Tx
<1>10. /\ Known(T2.db, op.id)
       /\ \A id : Known(T.db, id) => Known(T2.db, id)
       /\ \A id : Known(T2.db, id) => Known(T.db, id) \/ id = op.id
  BY <1>7, <1>9, AppliedKnows
<1>11. new.result.id = op.id
  BY <1>7, <1>9, ResultId
<1>12. /\ Len(T2.results) = r + 1 /\ T2.results[r + 1] = new
       /\ \A i \in 1 .. r : T2.results[i] = T.results[i]
  BY <1>9
<1> HIDE DEF op, l, e, x, r, new
<1>13. b + 1 \in 0 .. e /\ 1 \in 1 .. l /\ \A n \in 1 .. b + 1 : n \in 1 .. b \/ n = b + 1
  BY <1>5, <1>7, <1>8
<1>14. op = E[d][b + 1]
  BY <1>5, <1>7, <1>13
<1>15. Segment(E, d, b + 1, R2.ops)
  <2>1. (b + 1) + Len(R2.ops) <= e
    BY <1>4, <1>5, <1>7, <1>8
  <2>2. ASSUME NEW i \in 1 .. Len(R2.ops) PROVE R2.ops[i] = E[d][(b + 1) + i]
    <3>0. Len(R2.ops) = l - 1
      BY <1>4, <1>7
    <3>1. i \in 1 .. l - 1 /\ i + 1 \in 1 .. l /\ (b + 1) + i = b + (i + 1)
      <4>1. i \in 1 .. l - 1
        BY <3>0
      <4> QED BY ONLY <1>7, <1>8, <4>1
    <3>2. R2.ops[i] = R.ops[i + 1]
      BY <1>4, <1>7, <3>1
    <3>3. R.ops[i + 1] = E[d][b + (i + 1)]
      BY <1>5, <3>1
    <3> QED BY <3>1, <3>2, <3>3
  <2>3. R2.ops \in Seq(Operation)
    BY <1>4, <1>7
  <2> QED BY <2>1, <2>2, <2>3 DEF Segment, e
<1>16. Stands(R2, T2, E, O, d, b + 1)
  <2>1. (b + 1) + Len(R2.ops) <= x + MaxBatch
    BY <1>4, <1>6, <1>7, <1>8, SyncAssumption
  <2>2. \A n \in 1 .. b + 1 : Known(T2.db, E[d][n].id)
    BY <1>6, <1>10, <1>13, <1>14
  <2> QED BY <1>15, <2>1, <2>2 DEF Stands, x
<1>17. ASSUME R2.from # None PROVE Own(R2, T2, E, O, C, P, d, b + 1)
  <2>1. Own(R, T, E, O, C, P, d, b)
    BY <1>2, <1>4, <1>17
  <2>2. /\ d = R.from /\ b = x + r /\ T.since = C[d] /\ P[d] = None
        /\ \A i \in 1 .. r : T.results[i].result.id = E[d][x + i].id
        /\ \A n \in 1 .. e : Known(T.db, E[d][n].id) => n <= b + l
    BY <2>1 DEF Own, x, r, e, l
  <2>3. b + 1 = x + Len(T2.results)
    BY <1>8, <1>9, <1>12, <2>2
  <2>4. ASSUME NEW i \in 1 .. Len(T2.results)
        PROVE  T2.results[i].result.id = E[d][x + i].id
    <3>1. CASE i = r + 1
      <4>1. x + i = b + 1
        BY <1>8, <1>9, <2>2, <3>1
      <4> QED BY <1>11, <1>12, <1>14, <3>1, <4>1
    <3>2. CASE i # r + 1
      <4>1. i \in 1 .. r
        BY <1>9, <1>12, <3>2
      <4> QED BY <1>12, <2>2, <4>1
    <3> QED BY <3>1, <3>2
  <2>5. ASSUME NEW n \in 1 .. e, Known(T2.db, E[d][n].id)
        PROVE  n <= (b + 1) + Len(R2.ops)
    <3>1. CASE Known(T.db, E[d][n].id)
      <4>1. n <= b + l
        BY <2>2, <3>1
      <4>2. b + l = (b + 1) + Len(R2.ops)
        BY <1>4, <1>7, <1>8
      <4> QED BY <4>1, <4>2
    <3>2. CASE E[d][n].id = op.id
      <4>1. b + 1 \in 1 .. e
        BY <1>8, <1>13
      <4>2. n = b + 1
        BY <1>14, <3>2, <4>1, EditOfId DEF e
      <4>3. Len(R2.ops) \in Nat
        BY <1>4, <1>7
      <4> QED BY <1>8, <4>2, <4>3
    <3> QED BY <1>10, <2>5, <3>1, <3>2
  <2> QED BY <1>4, <2>2, <2>3, <2>4, <2>5 DEF Own, x, e
<1> QED BY <1>13, <1>16, <1>17 DEF ReqFits, e

-----------------------------------------------------------------------------
(* Devices: commits                                                        *)

(* The tables of D2 continue those of D. *)
Grown(D, D2) ==
  /\ D.operations \subseteq D2.operations
  /\ Len(D.changes) <= Len(D2.changes)
  /\ \A i \in 1 .. Len(D.changes) : D2.changes[i] = D.changes[i]

(* A device reads the same beginning of a longer log. *)
LEMMA GrownReads ==
  ASSUME NEW D \in DB, NEW D2 \in DB, Grown(D, D2), NEW C, NEW G, LogRead(D, C, G)
  PROVE  LogRead(D2, C, G)
<1>1. Len(D.changes) \in Nat /\ Len(D2.changes) \in Nat
  BY DEF DB
<1>2. ASSUME NEW d \in Devices
      PROVE  /\ C[d] <= Len(D2.changes) /\ Len(G[d]) = C[d]
             /\ \A i \in 1 .. C[d] : G[d][i] = D2.changes[i]
  <2>1. /\ C[d] \in Nat /\ C[d] <= Len(D.changes) /\ Len(G[d]) = C[d]
        /\ \A i \in 1 .. C[d] : G[d][i] = D.changes[i]
    BY DEF LogRead
  <2> QED BY <1>1, <2>1 DEF Grown
<1> QED BY <1>2 DEF LogRead

(* What was recorded stays recorded. *)
LEMMA GrownKnows ==
  ASSUME NEW D, NEW D2, Grown(D, D2), NEW id, Known(D, id)
  PROVE  Known(D2, id)
BY DEF Grown, Known, Recorded

(* So acknowledged edits stay recorded, *)
LEMMA GrownDone ==
  ASSUME NEW D, NEW D2, Grown(D, D2), NEW E, NEW O, DoneKnown(D, E, O)
  PROVE  DoneKnown(D2, E, O)
BY GrownKnows DEF DoneKnown

(* and answers under way fit the longer log. *)
LEMMA GrownReplies ==
  ASSUME NEW D \in DB, NEW D2 \in DB, Grown(D, D2), NEW P, NEW E, NEW O, NEW C,
         C \in [Devices -> Nat], RepliesFit(P, D, E, O, C)
  PROVE  RepliesFit(P, D2, E, O, C)
<1>1. P = [d \in Devices |-> P[d]]
  BY DEF RepliesFit
<1>2. Len(D.changes) \in Nat /\ Len(D2.changes) \in Nat /\ Len(D.changes) <= Len(D2.changes)
  BY DEF DB, Grown
<1>3. ASSUME NEW d \in Devices, P[d] # None PROVE ReplyFits(D2, E, O, C, d, P[d])
  <2> DEFINE p == P[d]
             x == Done(E, O, d)
  <2> HIDE DEF p, x
  <2>1. ReplyFits(D, E, O, C, d, p)
    BY <1>3 DEF RepliesFit, p
  <2>2. /\ p.page \in Seq(Change) /\ p.cursor = C[d] + Len(p.page)
        /\ p.cursor <= Len(D.changes)
        /\ \A i \in 1 .. Len(p.page) : p.page[i] = D.changes[C[d] + i]
    BY <2>1 DEF ReplyFits
  <2>3. Len(p.page) \in Nat /\ C[d] \in Nat
    BY <2>2
  <2>4. p.cursor <= Len(D2.changes)
    BY <1>2, <2>2, <2>3
  <2>5. \A i \in 1 .. Len(p.page) : p.page[i] = D2.changes[C[d] + i]
    <3> TAKE i \in 1 .. Len(p.page)
    <3>1. C[d] + i \in 1 .. Len(D.changes)
      BY <1>2, <2>2, <2>3
    <3> QED BY <2>2, <3>1 DEF Grown
  <2>6. PICK m \in 0 .. Len(O[d]) :
          /\ p.answered = {E[d][x + i].id : i \in 1 .. m}
          /\ \A i \in 1 .. m : Known(D, E[d][x + i].id)
          /\ \A n \in 1 .. Len(E[d]), j \in 1 .. Len(p.page) :
               LastOp(p.page[j]) = E[d][n].id => n <= x + m
    BY ONLY <2>1 DEF ReplyFits, x
  <2>7. \A i \in 1 .. m : Known(D2, E[d][x + i].id)
    BY <2>6, GrownKnows
  <2>8. \E k \in 0 .. Len(O[d]) :
          /\ p.answered = {E[d][x + i].id : i \in 1 .. k}
          /\ \A i \in 1 .. k : Known(D2, E[d][x + i].id)
          /\ \A n \in 1 .. Len(E[d]), j \in 1 .. Len(p.page) :
               LastOp(p.page[j]) = E[d][n].id => n <= x + k
    BY ONLY <2>6, <2>7
  <2> QED BY ONLY <2>2, <2>4, <2>5, <2>8 DEF ReplyFits, p, x
<1> QED BY <1>1, <1>3 DEF RepliesFit

(* What a transaction's answer to its device says. *)
AnswerOf(T) ==
  [page     |-> Page(T.db, T.since),
   cursor   |-> PageCursor(T.db, T.since),
   answered |-> {T.results[i].result.id : i \in 1 .. Len(T.results)}]

(* The answer of a finished request fits the device it goes to. *)
LEMMA FinishReplies ==
  ASSUME NEW E, NEW O, Queues(E, O), NEW T \in Tx, StoreInv(T.db), NEW C, NEW G,
         LogRead(T.db, C, G), NEW P, RepliesFit(P, T.db, E, O, C),
         NEW R, ReqFits(R, T, E, O, C, P), R.ops = <<>>, R.from # None,
         NEW P2, P2 = [P EXCEPT ![R.from] = AnswerOf(T)]
  PROVE  RepliesFit(P2, T.db, E, O, C)
<1>1. PICK d \in Devices : \E b \in 0 .. Len(E[d]) :
        Stands(R, T, E, O, d, b) /\ Own(R, T, E, O, C, P, d, b)
  BY DEF ReqFits
<1>2. PICK b \in 0 .. Len(E[d]) : Stands(R, T, E, O, d, b) /\ Own(R, T, E, O, C, P, d, b)
  BY <1>1
<1> DEFINE x == Done(E, O, d)
           m == Len(T.results)
           e == Len(E[d])
           o == Len(O[d])
           p == AnswerOf(T)
           l == Len(p.page)
           n == Len(T.db.changes)
<1>3. Len(R.ops) = 0
  OBVIOUS
<1>4. /\ d = R.from /\ b = x + m /\ T.since = C[d]
      /\ \A i \in 1 .. m : T.results[i].result.id = E[d][x + i].id
      /\ \A k \in 1 .. e : Known(T.db, E[d][k].id) => k <= b + 0
  BY <1>2, <1>3 DEF Own
<1>5. \A k \in 1 .. b : Known(T.db, E[d][k].id)
  BY <1>2 DEF Stands
<1>6. e \in Nat /\ o \in Nat /\ x \in Nat /\ x + o = e
  BY DoneType
<1>7. T.db \in DB /\ T.results \in Seq(Entry) /\ m \in Nat
  BY DEF Tx
<1>8. n \in Nat /\ C[d] \in Nat /\ C[d] <= n
  BY <1>7 DEF LogRead, DB
<1>9. CursorsContiguous(T.db) /\ ChangesFromOperations(T.db) /\ T.db.cursor = n
  BY DEF StoreInv, LogMatchesRecords, CursorsContiguous
<1>10. C[d] \in 0 .. T.db.cursor
  <2> HIDE DEF n
  <2> QED BY <1>8, <1>9
<1>11. /\ p.page = Page(T.db, C[d]) /\ p.cursor = PageCursor(T.db, C[d])
       /\ p.answered = {T.results[i].result.id : i \in 1 .. m}
  BY <1>4 DEF AnswerOf
<1> HIDE DEF p
<1>12. /\ p.page \in Seq(Change) /\ p.cursor = C[d] + l /\ C[d] + l <= n
       /\ \A i \in 1 .. l : p.page[i] = T.db.changes[C[d] + i]
  BY <1>7, <1>9, <1>10, <1>11, PageIs
<1>13. l \in Nat /\ b \in 0 .. e
  BY <1>12
<1> HIDE DEF x, m, e, o, l, n
<1>14. m \in 0 .. o /\ \A i \in 1 .. m : x + i \in 1 .. b
  BY <1>4, <1>6, <1>7, <1>13
<1>15. p.answered = {E[d][x + i].id : i \in 1 .. m}
  BY <1>4, <1>11
<1>16. ASSUME NEW k \in 1 .. e, NEW j \in 1 .. l, LastOp(p.page[j]) = E[d][k].id
       PROVE  k <= x + m
  <2>1. C[d] + j \in 1 .. n /\ p.page[j] = T.db.changes[C[d] + j]
    BY <1>8, <1>12, <1>13
  <2>2. Known(T.db, E[d][k].id)
    BY <1>9, <1>16, <2>1, ChangeKnown DEF n
  <2>3. k <= b + 0
    BY <1>4, <2>2
  <2> QED BY <1>4, <1>6, <1>7, <2>3
<1>17. ReplyFits(T.db, E, O, C, d, p)
  <2>1. \A i \in 1 .. m : Known(T.db, E[d][x + i].id)
    BY <1>5, <1>14
  <2>2. \E k \in 0 .. Len(O[d]) :
          /\ p.answered = {E[d][x + i].id : i \in 1 .. k}
          /\ \A i \in 1 .. k : Known(T.db, E[d][x + i].id)
          /\ \A c \in 1 .. Len(E[d]), j \in 1 .. Len(p.page) :
               LastOp(p.page[j]) = E[d][c].id => c <= x + k
    BY <1>14, <1>15, <1>16, <2>1 DEF o, e, l
  <2>3. p.cursor <= Len(T.db.changes) /\ p.cursor = C[d] + Len(p.page)
        /\ \A i \in 1 .. Len(p.page) : p.page[i] = T.db.changes[C[d] + i]
    BY <1>12 DEF n, l
  <2> QED BY ONLY <1>12, <2>2, <2>3 DEF ReplyFits, x
<1>18. P = [c \in Devices |-> P[c]] /\ P2 = [P EXCEPT ![d] = p]
  BY <1>4 DEF RepliesFit, p
<1>19. /\ P2 = [c \in Devices |-> P2[c]] /\ P2[d] = p
       /\ \A c \in Devices : c # d => P2[c] = P[c]
  BY ONLY <1>18, d \in Devices
<1>20. ASSUME NEW c \in Devices, P2[c] # None PROVE ReplyFits(T.db, E, O, C, c, P2[c])
  <2>1. CASE c = d
    BY <1>17, <1>19, <2>1
  <2>2. CASE c # d
    <3>1. P2[c] = P[c]
      BY <1>19, <2>2
    <3> QED BY <1>20, <3>1 DEF RepliesFit
  <2> QED BY <2>1, <2>2
<1> QED BY <1>19, <1>20 DEF RepliesFit

(* Giving an answer up does not touch the open request. *)
LEMMA LostReq ==
  ASSUME NEW E, NEW O, NEW R, NEW T, NEW C, NEW P, ReqFits(R, T, E, O, C, P),
         NEW d \in Devices, P = [c \in Devices |-> P[c]]
  PROVE  ReqFits(R, T, E, O, C, [P EXCEPT ![d] = None])
<1> DEFINE P2 == [P EXCEPT ![d] = None]
<1>1. PICK c \in Devices : \E b \in 0 .. Len(E[c]) :
        Stands(R, T, E, O, c, b) /\ (R.from # None => Own(R, T, E, O, C, P, c, b))
  BY DEF ReqFits
<1>2. PICK b \in 0 .. Len(E[c]) :
        Stands(R, T, E, O, c, b) /\ (R.from # None => Own(R, T, E, O, C, P, c, b))
  BY <1>1
<1>3. P2[c] = P[c] \/ P2[c] = None
  BY ONLY P = [a \in Devices |-> P[a]], c \in Devices
<1> HIDE DEF P2
<1>4. ASSUME R.from # None PROVE Own(R, T, E, O, C, P2, c, b)
  <2>1. Own(R, T, E, O, C, P, c, b)
    BY <1>2, <1>4
  <2> QED BY <1>3, <2>1 DEF Own
<1>5. ReqFits(R, T, E, O, C, P2)
  BY <1>2, <1>4 DEF ReqFits
<1> QED BY <1>5 DEF P2

(* Nor does it touch the answers to the other devices. *)
LEMMA LostReplies ==
  ASSUME NEW P, NEW D, NEW E, NEW O, NEW C, RepliesFit(P, D, E, O, C), NEW d \in Devices
  PROVE  RepliesFit([P EXCEPT ![d] = None], D, E, O, C)
<1> DEFINE P2 == [P EXCEPT ![d] = None]
<1>1. P = [c \in Devices |-> P[c]]
  BY DEF RepliesFit
<1>2. /\ P2 = [c \in Devices |-> P2[c]] /\ P2[d] = None
      /\ \A c \in Devices : c # d => P2[c] = P[c]
  BY ONLY <1>1, d \in Devices
<1> HIDE DEF P2
<1>3. ASSUME NEW c \in Devices, P2[c] # None PROVE ReplyFits(D, E, O, C, c, P2[c])
  <2>1. P2[c] = P[c]
    BY <1>2, <1>3
  <2> QED BY <1>3, <2>1 DEF RepliesFit
<1>4. RepliesFit(P2, D, E, O, C)
  BY <1>2, <1>3 DEF RepliesFit
<1> QED BY <1>4 DEF P2

-----------------------------------------------------------------------------
(* Devices: what a device knows                                            *)

(* A set of numbers up to n that is not empty has a greatest one. *)
LEMMA Greatest ==
  ASSUME NEW n \in Nat, NEW S \in SUBSET (1 .. n), S # {}
  PROVE  Max(S) \in S /\ \A i \in S : i <= Max(S)
<1> DEFINE T == {k \in Nat : \/ \E m \in S : \A i \in S : i <= m
                            \/ \A i \in S : i + k <= n}
<1>1. 0 \in T
  OBVIOUS
<1>2. ASSUME NEW k \in Nat, k \in T PROVE k + 1 \in T
  <2>1. CASE n - k \in S /\ \A i \in S : i + k <= n
    <3>1. \A i \in S : i <= n - k
      BY <2>1
    <3> QED BY <2>1, <3>1
  <2>2. CASE n - k \notin S /\ \A i \in S : i + k <= n
    <3>1. \A i \in S : i + (k + 1) <= n
      BY <2>2
    <3> QED BY <3>1
  <2> QED BY <1>2, <2>1, <2>2
<1>3. n \in T
  <2> HIDE DEF T
  <2> QED BY <1>1, <1>2, Induction
<1>4. PICK i \in S : TRUE
  OBVIOUS
<1>5. i \in Nat /\ ~(i + n <= n)
  BY <1>4
<1>6. \E m \in S : \A j \in S : m >= j
  BY <1>3, <1>4, <1>5
<1>7. Max(S) = CHOOSE m \in S : \A j \in S : m >= j
  BY DEF Max
<1>8. Max(S) \in S /\ \A j \in S : Max(S) >= j
  BY <1>6, <1>7
<1> QED BY <1>8

(* SeenRevision is the revision of the newest change the device applied. *)
LEMMA SeenKnows ==
  ASSUME NEW D, NEW C, LogRead(D, C, got), NEW d \in Devices, NEW k
  PROVE  Knows(got[d], k, SeenRevision(d, k))
<1> DEFINE n == Len(got[d])
           mine == {i \in 1 .. n : got[d][i].key = k}
<1>1. n \in Nat
  BY DEF LogRead
<1>2. SeenRevision(d, k) = IF mine = {} THEN 0 ELSE got[d][Max(mine)].record.revision
  BY DEF SeenRevision
<1>3. CASE mine = {}
  BY <1>2, <1>3 DEF Knows
<1>4. CASE mine # {}
  <2>1. mine \in SUBSET (1 .. n) /\ \A i \in 1 .. n : i \in mine <=> got[d][i].key = k
    OBVIOUS
  <2> DEFINE m == Max(mine)
  <2> HIDE DEF mine
  <2>2. m \in mine /\ \A i \in mine : i <= m
    BY <1>1, <1>4, <2>1, Greatest
  <2>3. SeenRevision(d, k) = got[d][m].record.revision
    BY <1>2, <1>4
  <2> HIDE DEF m
  <2>4. m \in 1 .. n /\ got[d][m].key = k
    BY <2>1, <2>2
  <2>5. \A j \in 1 .. n : j > m => got[d][j].key # k
    BY <2>1, <2>2, <2>4
  <2> QED BY <2>3, <2>4, <2>5 DEF Knows
<1> QED BY <1>3, <1>4

-----------------------------------------------------------------------------
(* Devices: every step keeps the invariant                                 *)

(* The copy continues the tables. *)
LEMMA TxGrown ==
  ASSUME Inv, tx # NoTx
  PROVE  /\ db \in DB /\ StoreInv(db) /\ tx \in Tx /\ tx.db \in DB /\ StoreInv(tx.db)
         /\ Grown(db, tx.db)
BY DEF Inv, TypeOK, TxInv, Tx, Grown

(* The committed tables are consistent. *)
LEMMA StoreTyped ==
  ASSUME Inv
  PROVE  db \in DB /\ StoreInv(db)
BY DEF Inv, TypeOK

(* The new edit is based on what its device knows and has queued. *)
LEMMA EditInv ==
  ASSUME DeviceInv, NEW d \in Devices, Edit(d)
  PROVE  DeviceInv'
<1> DEFINE p == Plans[d][Len(edits[d]) + 1]
           op == [id |-> p.id, key |-> p.key, deleted |-> p.deleted, value |-> p.value,
                  base |-> SeenRevision(d, p.key) + Queued(d, p.key)]
<1>1. /\ Inv /\ Queues(edits, outbox) /\ LogRead(db, cursor, got)
      /\ OwnRead(edits, outbox, got) /\ DoneKnown(db, edits, outbox)
      /\ TablesOf(db, edits, outbox, got)
      /\ tx # NoTx => TablesOf(tx.db, edits, outbox, got)
      /\ LateFits(late, edits, outbox) /\ RepliesFit(reply, db, edits, outbox, cursor)
      /\ \A q \in late : q.since \in Nat
      /\ req # None => /\ tx # NoTx /\ req = [from |-> req.from, ops |-> req.ops]
                       /\ ReqFits(req, tx, edits, outbox, cursor, reply)
  BY DEF DeviceInv
<1>2. /\ db' = db /\ tx' = tx /\ acked' = acked /\ cursor' = cursor /\ got' = got
      /\ req' = req /\ late' = late /\ reply' = reply
      /\ edits' = [edits EXCEPT ![d] = Append(edits[d], op)]
      /\ outbox' = [outbox EXCEPT ![d] = Append(outbox[d], op)]
      /\ Len(edits[d]) < Len(Plans[d])
  BY DEF Edit, vars, netVars
<1>3. db \in DB /\ StoreInv(db)
  BY <1>1, StoreTyped
<1>4. p \in Plan
  <2>1. Plans[d] \in Seq(Plan) /\ Len(edits[d]) \in Nat
    BY <1>1, PlanAssumption DEF Queues
  <2>2. Len(edits[d]) + 1 \in 1 .. Len(Plans[d])
    BY <1>2, <2>1
  <2> QED BY <2>1, <2>2
<1> HIDE DEF p
<1>5. /\ p.id \in OpIds /\ p.key \in Keys /\ p.deleted \in BOOLEAN /\ p.value \in Values
  BY <1>4 DEF Plan
<1> DEFINE s == SeenRevision(d, p.key)
<1>6. Knows(got[d], p.key, s)
  BY <1>1, SeenKnows
<1>7. Queued(d, p.key) = Cardinality(QueuedIn(outbox[d], p.key))
  BY DEF Queued, QueuedIn
<1>8. s \in Nat
  BY <1>1, <1>3, <1>5, <1>6, KnowsUpTo DEF TablesOf
<1> HIDE DEF s
<1>9. Cardinality(QueuedIn(outbox[d], p.key)) \in Nat
  <2>1. Len(outbox[d]) \in Nat
    BY <1>1, DoneType
  <2>2. /\ QueuedIn(outbox[d], p.key) \subseteq 1 .. Len(outbox[d])
        /\ IsFiniteSet(1 .. Len(outbox[d]))
    BY <2>1, FS_Interval DEF QueuedIn
  <2> QED BY <2>2, FS_Subset, FS_CardinalityType
<1>10. op.base = s + Cardinality(QueuedIn(outbox[d], p.key))
  BY <1>7 DEF s
<1>11. op \in Operation
  <2>1. op.base \in Nat
    BY <1>8, <1>9, <1>10
  <2>2. SeenRevision(d, p.key) + Queued(d, p.key) \in Nat
    BY <2>1
  <2> QED BY <1>5, <2>2 DEF Operation
<1>12. op.id = p.id /\ op.key = p.key
  OBVIOUS
<1> HIDE DEF op
<1>13. Added(edits, outbox, edits', outbox', d, op)
  BY <1>2, <1>12 DEF Added, p
<1>14. op.base = s + Cardinality(QueuedIn(outbox[d], op.key)) /\ Knows(got[d], op.key, s)
  BY <1>6, <1>10, <1>12
<1>15. Queues(edits', outbox')
  BY <1>1, <1>11, <1>13, AddedLists
<1>16. OwnRead(edits', outbox', got)
  BY <1>1, <1>3, <1>11, <1>13, AddedReads DEF TablesOf
<1>17. DoneKnown(db, edits', outbox')
  BY <1>1, <1>11, <1>13, AddedDone
<1>18. TablesOf(db, edits', outbox', got)
  BY <1>1, <1>3, <1>11, <1>13, <1>14, AddedTables
<1>19. ASSUME tx # NoTx PROVE TablesOf(tx.db, edits', outbox', got)
  <2>1. tx.db \in DB /\ StoreInv(tx.db) /\ Grown(db, tx.db)
    BY <1>1, <1>19, TxGrown
  <2>2. LogRead(tx.db, cursor, got)
    BY <1>1, <1>3, <2>1, GrownReads
  <2> QED BY <1>1, <1>11, <1>13, <1>14, <1>19, <2>1, <2>2, AddedTables
<1>20. LateFits(late, edits', outbox')
  BY <1>1, <1>11, <1>13, AddedLate
<1>21. ASSUME req # None PROVE ReqFits(req, tx, edits', outbox', cursor, reply)
  <2>1. tx # NoTx /\ ReqFits(req, tx, edits, outbox, cursor, reply)
    BY <1>1, <1>21
  <2>2. tx \in Tx
    BY <1>1, <2>1, TxGrown
  <2>3. FromEdits(tx.db, edits)
    BY <1>1, <2>1 DEF TablesOf
  <2> QED BY <1>1, <1>11, <1>13, <2>1, <2>2, <2>3, AddedReq
<1>22. RepliesFit(reply, db, edits', outbox', cursor)
  BY <1>1, <1>3, <1>11, <1>13, AddedReplies DEF TablesOf
<1>23. Inv'
  BY <1>1, <1>2, NextInv DEF vars
<1> QED BY <1>1, <1>2, <1>15, <1>16, <1>17, <1>18, <1>19, <1>20, <1>21, <1>22, <1>23 DEF DeviceInv

(* The batch of a request is at most MaxBatch edits of the outbox. *)
LEMMA BatchIs ==
  ASSUME Queues(edits, outbox), NEW d \in Devices
  PROVE  /\ Segment(edits, d, Done(edits, outbox, d), Batch(d))
         /\ Len(Batch(d)) <= MaxBatch
<1>1. /\ Segment(edits, d, Done(edits, outbox, d), Batch(d))
      /\ Len(Batch(d)) = IF Len(outbox[d]) < MaxBatch THEN Len(outbox[d]) ELSE MaxBatch
  BY BatchSegment DEF Batch
<1>2. Len(outbox[d]) \in Nat
  BY DoneType
<1> QED BY <1>1, <1>2, SyncAssumption

(* A request opens a transaction on the committed tables. *)
LEMMA SendInv ==
  ASSUME DeviceInv, NEW d \in Devices, Send(d)
  PROVE  DeviceInv'
<1>1. /\ Inv /\ Queues(edits, outbox) /\ LogRead(db, cursor, got)
      /\ DoneKnown(db, edits, outbox) /\ TablesOf(db, edits, outbox, got)
  BY DEF DeviceInv
<1>2. /\ tx = NoTx /\ db' = db /\ acked' = acked
      /\ tx' = [since |-> cursor[d], db |-> db, results |-> <<>>]
      /\ req' = [from |-> d, ops |-> Batch(d)] /\ reply[d] = None
      /\ edits' = edits /\ outbox' = outbox /\ cursor' = cursor /\ got' = got
      /\ late' = late /\ reply' = reply /\ cursor[d] <= db.cursor
  BY DEF Send, Begin, Idle, deviceVars, netVars
<1>3. db \in DB /\ StoreInv(db)
  BY <1>1, StoreTyped
<1>4. Inv'
  <2>1. cursor[d] \in Nat /\ db.cursor \in Nat
    BY <1>1, <1>3 DEF LogRead, DB
  <2>2. cursor[d] \in 0 .. db.cursor
    BY <1>2, <2>1
  <2>3. Begin(cursor[d])
    BY DEF Send
  <2> QED BY <1>1, <2>2, <2>3, BeginInv
<1>5. tx'.since = cursor[d] /\ tx'.db = db /\ tx'.results = <<>>
  BY <1>2
<1>6. req'.from = d /\ req'.ops = Batch(d) /\ req' = [from |-> req'.from, ops |-> req'.ops]
  BY <1>2
<1>7. tx' # NoTx
  <2>1. tx' \in Tx
    <3>1. cursor[d] \in Nat /\ <<>> \in Seq(Entry)
      BY <1>1 DEF LogRead
    <3> QED BY <1>2, <1>3, <3>1 DEF Tx
  <2> QED BY <2>1, SyncAssumption
<1>8. ReqFits(req', tx', edits, outbox, cursor, reply)
  <2>1. req'.ops = SubSeq(outbox[d], 1,
                          IF Len(outbox[d]) < MaxBatch THEN Len(outbox[d]) ELSE MaxBatch)
    BY <1>6 DEF Batch
  <2>2. DoneKnown(tx'.db, edits, outbox) /\ InReach(tx'.db, edits, outbox)
    BY <1>1, <1>5 DEF TablesOf
  <2> QED BY <1>1, <1>2, <1>5, <1>6, <2>1, <2>2, SendReq
<1> QED BY <1>2, <1>4, <1>5, <1>6, <1>7, <1>8 DEF DeviceInv

(* A request that is given up on stays a part of the list. *)
LEMMA SendLateInv ==
  ASSUME DeviceInv, NEW d \in Devices, SendLate(d)
  PROVE  DeviceInv'
<1> DEFINE q == [since |-> cursor[d], ops |-> Batch(d)]
<1>1. /\ Inv /\ Queues(edits, outbox) /\ LogRead(db, cursor, got)
      /\ LateFits(late, edits, outbox) /\ \A r \in late : r.since \in Nat
  BY DEF DeviceInv
<1>2. /\ db' = db /\ tx' = tx /\ acked' = acked /\ req' = req /\ reply' = reply
      /\ edits' = edits /\ outbox' = outbox /\ cursor' = cursor /\ got' = got
      /\ late' = late \cup {q}
  BY DEF SendLate, vars, deviceVars
<1>3. q.since \in Nat /\ q.ops = Batch(d)
  BY <1>1 DEF LogRead
<1>4. Inv'
  BY <1>1, <1>2, NextInv DEF vars
<1> HIDE DEF q
<1>5. LateFits(late', edits, outbox)
  <2>1. /\ Segment(edits, d, Done(edits, outbox, d), q.ops) /\ Len(q.ops) <= MaxBatch
    BY <1>1, <1>3, BatchIs
  <2>2. Done(edits, outbox, d) \in 0 .. Done(edits, outbox, d)
    BY <1>1, DoneType
  <2> QED BY <1>1, <1>2, <2>1, <2>2 DEF LateFits
<1>6. \A r \in late' : r.since \in Nat
  BY <1>1, <1>2, <1>3
<1> QED BY <1>2, <1>4, <1>5, <1>6 DEF DeviceInv

(* An answer is applied. *)
LEMMA ReceiveInv ==
  ASSUME DeviceInv, NEW d \in Devices, Receive(d)
  PROVE  DeviceInv'
<1>1. /\ Inv /\ Queues(edits, outbox) /\ LogRead(db, cursor, got)
      /\ OwnRead(edits, outbox, got) /\ DoneKnown(db, edits, outbox)
      /\ TablesOf(db, edits, outbox, got)
      /\ tx # NoTx => TablesOf(tx.db, edits, outbox, got)
      /\ LateFits(late, edits, outbox) /\ RepliesFit(reply, db, edits, outbox, cursor)
      /\ \A q \in late : q.since \in Nat
      /\ req # None => /\ tx # NoTx /\ req = [from |-> req.from, ops |-> req.ops]
                       /\ ReqFits(req, tx, edits, outbox, cursor, reply)
  BY DEF DeviceInv
<1>2. /\ db' = db /\ tx' = tx /\ acked' = acked /\ req' = req /\ late' = late
      /\ edits' = edits /\ reply[d] # None
  BY DEF Receive, vars
<1>3. Read(outbox, cursor, got, reply, outbox', cursor', got', reply', d, reply[d])
  BY DEF Receive, Read
<1>4. db \in DB /\ StoreInv(db)
  BY <1>1, StoreTyped
<1>5. /\ Queues(edits, outbox') /\ LogRead(db, cursor', got')
      /\ OwnRead(edits, outbox', got') /\ DoneKnown(db, edits, outbox')
      /\ Further(edits, outbox, cursor, got, reply, outbox', cursor', got', reply', d)
  BY <1>1, <1>2, <1>3, <1>4, ReadLists
<1>6. TablesOf(db, edits, outbox', got')
  BY <1>1, <1>5, FurtherTables
<1>7. tx # NoTx => TablesOf(tx.db, edits, outbox', got')
  BY <1>1, <1>5, FurtherTables
<1>8. LateFits(late, edits, outbox')
  BY <1>1, <1>5, FurtherLate
<1>9. req # None => ReqFits(req, tx, edits, outbox', cursor', reply')
  BY <1>1, <1>2, <1>5, FurtherReq
<1>10. RepliesFit(reply', db, edits, outbox', cursor')
  BY <1>1, <1>5, FurtherReplies
<1>11. Inv'
  BY <1>1, <1>2, NextInv DEF vars
<1> QED BY <1>1, <1>2, <1>5, <1>6, <1>7, <1>8, <1>9, <1>10, <1>11 DEF DeviceInv

(* An answer is lost. *)
LEMMA LoseReplyInv ==
  ASSUME DeviceInv, NEW d \in Devices, LoseReply(d)
  PROVE  DeviceInv'
<1>1. /\ Inv /\ RepliesFit(reply, db, edits, outbox, cursor)
      /\ req # None => /\ tx # NoTx /\ req = [from |-> req.from, ops |-> req.ops]
                       /\ ReqFits(req, tx, edits, outbox, cursor, reply)
  BY DEF DeviceInv
<1>2. /\ db' = db /\ tx' = tx /\ acked' = acked /\ req' = req /\ late' = late
      /\ edits' = edits /\ outbox' = outbox /\ cursor' = cursor /\ got' = got
      /\ reply' = [reply EXCEPT ![d] = None]
  BY DEF LoseReply, vars, deviceVars
<1>3. RepliesFit(reply', db, edits, outbox, cursor)
  BY <1>1, <1>2, LostReplies
<1>4. req # None => ReqFits(req, tx, edits, outbox, cursor, reply')
  <2>1. reply = [c \in Devices |-> reply[c]]
    BY <1>1 DEF RepliesFit
  <2> QED BY <1>1, <1>2, <2>1, LostReq
<1>5. Inv'
  BY <1>1, <1>2, NextInv DEF vars
<1> QED BY <1>1, <1>2, <1>3, <1>4, <1>5 DEF DeviceInv

(* A late request opens a transaction; nobody waits for its answer. *)
LEMMA ArriveInv ==
  ASSUME DeviceInv, NEW q \in late, Arrive(q)
  PROVE  DeviceInv'
<1>1. /\ Inv /\ Queues(edits, outbox) /\ DoneKnown(db, edits, outbox)
      /\ TablesOf(db, edits, outbox, got)
      /\ LateFits(late, edits, outbox) /\ \A r \in late : r.since \in Nat
  BY DEF DeviceInv
<1>2. /\ tx = NoTx /\ db' = db /\ acked' = acked
      /\ tx' = [since |-> q.since, db |-> db, results |-> <<>>]
      /\ req' = [from |-> None, ops |-> q.ops]
      /\ edits' = edits /\ outbox' = outbox /\ cursor' = cursor /\ got' = got
      /\ late' \subseteq late /\ reply' = reply /\ q.since <= db.cursor
  BY DEF Arrive, Begin, deviceVars
<1>3. db \in DB /\ StoreInv(db)
  BY <1>1, StoreTyped
<1>4. Inv'
  <2>1. q.since \in 0 .. db.cursor
    BY <1>1, <1>2, <1>3 DEF DB
  <2>2. Begin(q.since)
    BY DEF Arrive
  <2> QED BY <1>1, <2>1, <2>2, BeginInv
<1>5. tx'.db = db
  BY <1>2
<1>6. req'.from = None /\ req'.ops = q.ops /\ req' = [from |-> req'.from, ops |-> req'.ops]
  BY <1>2
<1>7. tx' # NoTx
  <2>1. tx' \in Tx
    <3>1. q.since \in Nat /\ <<>> \in Seq(Entry)
      BY <1>1
    <3> QED BY <1>2, <1>3, <3>1 DEF Tx
  <2> QED BY <2>1, SyncAssumption
<1>8. ReqFits(req', tx', edits, outbox, cursor, reply)
  BY <1>1, <1>5, <1>6, ArriveReq
<1>9. LateFits(late', edits, outbox) /\ \A r \in late' : r.since \in Nat
  BY <1>1, <1>2 DEF LateFits
<1> QED BY <1>2, <1>4, <1>5, <1>6, <1>7, <1>8, <1>9 DEF DeviceInv

(* The next operation of the request is an edit whose predecessors are     *)
(* recorded, which is what AppliedTables asks for.                         *)
LEMMA ServeInv ==
  ASSUME DeviceInv, Serve
  PROVE  DeviceInv'
<1> DEFINE op == Head(req.ops)
<1>1. /\ Inv /\ Queues(edits, outbox)
      /\ tx # NoTx => TablesOf(tx.db, edits, outbox, got)
      /\ req # None => /\ tx # NoTx /\ req = [from |-> req.from, ops |-> req.ops]
                       /\ ReqFits(req, tx, edits, outbox, cursor, reply)
  BY DEF DeviceInv
<1>2. /\ req # None /\ req.ops # <<>> /\ Apply(op) /\ tx # NoTx /\ ~Refused(tx.db, op)
      /\ db' = db /\ acked' = acked
      /\ tx' = [tx EXCEPT !.db = Applied(tx.db, op),
                          !.results = Append(tx.results,
                                             [op |-> op, result |-> Result(tx.db, op)])]
      /\ req' = [req EXCEPT !.ops = Tail(req.ops)]
      /\ edits' = edits /\ outbox' = outbox /\ cursor' = cursor /\ got' = got
      /\ late' = late /\ reply' = reply
  BY DEF Serve, Apply, deviceVars, netVars
<1>3. /\ TablesOf(tx.db, edits, outbox, got) /\ req = [from |-> req.from, ops |-> req.ops]
      /\ ReqFits(req, tx, edits, outbox, cursor, reply)
  BY <1>1, <1>2
<1>4. tx \in Tx /\ tx.db \in DB /\ StoreInv(tx.db)
  BY <1>1, <1>2, TxGrown
<1>5. PICK d \in Devices : \E n \in 1 .. Len(edits[d]) :
        /\ op = edits[d][n] /\ \A m \in 1 .. n - 1 : Known(tx.db, edits[d][m].id)
        /\ n <= Done(edits, outbox, d) + MaxBatch
  BY <1>1, <1>2, <1>3, NextEdit
<1>6. PICK n \in 1 .. Len(edits[d]) :
        /\ op = edits[d][n] /\ \A m \in 1 .. n - 1 : Known(tx.db, edits[d][m].id)
        /\ n <= Done(edits, outbox, d) + MaxBatch
  BY <1>5
<1>7. op \in Operation
  BY <1>1, <1>6 DEF Queues
<1>8. Inv'
  BY <1>1, <1>2, <1>7, ApplyInv
<1>9. tx'.since = tx.since /\ tx'.db = Applied(tx.db, op)
      /\ tx'.results = Append(tx.results, [op |-> op, result |-> Result(tx.db, op)])
  <2>1. tx = [since |-> tx.since, db |-> tx.db, results |-> tx.results]
    BY <1>4 DEF Tx
  <2> QED BY ONLY <1>2, <2>1
<1>10. tx' # NoTx /\ tx' \in Tx
  <2> DEFINE a == Applied(tx.db, op)
             e == [op |-> op, result |-> Result(tx.db, op)]
             rs == Append(tx.results, e)
  <2>1. a \in DB
    BY <1>2, <1>4, <1>7, AppliedKeepsStore
  <2>2. e \in Entry
    BY <1>4, <1>7, ResultType DEF Entry
  <2>3. tx.since \in Nat /\ tx.results \in Seq(Entry)
        /\ tx = [since |-> tx.since, db |-> tx.db, results |-> tx.results]
    BY <1>4 DEF Tx
  <2> HIDE DEF a, e
  <2>4. rs \in Seq(Entry)
    BY <2>2, <2>3
  <2>5. tx' = [since |-> tx.since, db |-> a, results |-> rs]
    BY ONLY <1>2, <2>3 DEF a, e
  <2> HIDE DEF rs
  <2>6. tx' \in Tx
    BY <2>1, <2>3, <2>4, <2>5 DEF Tx
  <2> QED BY <2>6, SyncAssumption
<1>11. TablesOf(tx'.db, edits, outbox, got)
  BY <1>1, <1>2, <1>3, <1>4, <1>6, <1>9, AppliedTables
<1>12. ReqFits(req', tx', edits, outbox, cursor, reply)
  BY <1>1, <1>2, <1>3, <1>4, <1>9, <1>10, ServeReq DEF TablesOf
<1>13. req' = [from |-> req'.from, ops |-> req'.ops]
  <2>1. req' = [from |-> req.from, ops |-> Tail(req.ops)]
    BY ONLY <1>2, <1>3
  <2> QED BY ONLY <2>1
<1> QED BY <1>1, <1>2, <1>8, <1>10, <1>11, <1>12, <1>13 DEF DeviceInv

(* Both ways a transaction can be committed, answered or not. *)
LEMMA CommittedInv ==
  ASSUME DeviceInv, tx # NoTx, db' = tx.db, tx' = NoTx, req' = None,
         UNCHANGED <<edits, outbox, cursor, got, late>>, Inv',
         RepliesFit(reply', tx.db, edits, outbox, cursor)
  PROVE  DeviceInv'
<1>1. /\ Inv /\ LogRead(db, cursor, got) /\ DoneKnown(db, edits, outbox)
      /\ TablesOf(tx.db, edits, outbox, got)
  BY DEF DeviceInv
<1>2. db \in DB /\ tx.db \in DB /\ Grown(db, tx.db)
  BY <1>1, TxGrown
<1>3. LogRead(tx.db, cursor, got) /\ DoneKnown(tx.db, edits, outbox)
  BY <1>1, <1>2, GrownReads, GrownDone
<1> QED BY <1>1, <1>3 DEF DeviceInv

(* The tables become the copy, and the device is answered from it. *)
LEMMA FinishInv ==
  ASSUME DeviceInv, Finish
  PROVE  DeviceInv'
<1>1. /\ Inv /\ Queues(edits, outbox) /\ LogRead(db, cursor, got)
      /\ RepliesFit(reply, db, edits, outbox, cursor)
      /\ req # None => tx # NoTx /\ ReqFits(req, tx, edits, outbox, cursor, reply)
  BY DEF DeviceInv
<1>2. /\ req # None /\ req.ops = <<>> /\ tx # NoTx /\ db' = tx.db /\ tx' = NoTx
      /\ req' = None /\ UNCHANGED <<edits, outbox, cursor, got, late>>
      /\ acked' = acked \cup {tx.results[i] : i \in 1 .. Len(tx.results)}
  BY DEF Finish, Commit, deviceVars
<1>3. /\ db \in DB /\ tx \in Tx /\ tx.db \in DB /\ StoreInv(tx.db) /\ Grown(db, tx.db)
  BY <1>1, <1>2, TxGrown
<1>4. Inv'
  BY <1>1, <1>2, CommitInv
<1>5. RepliesFit(reply, tx.db, edits, outbox, cursor)
  BY <1>1, <1>3, GrownReplies DEF LogRead
<1>6. RepliesFit(reply', tx.db, edits, outbox, cursor)
  <2>1. CASE req.from = None
    <3>1. reply' = reply
      BY <2>1 DEF Finish
    <3> QED BY <1>5, <3>1
  <2>2. CASE req.from # None
    <3>1. reply' = [reply EXCEPT ![req.from] = AnswerOf(tx)]
      BY <2>2 DEF Finish, Answer, AnswerOf
    <3>2. LogRead(tx.db, cursor, got)
      BY <1>1, <1>3, GrownReads
    <3>3. ReqFits(req, tx, edits, outbox, cursor, reply)
      BY <1>1, <1>2
    <3> QED BY <1>1, <1>2, <1>3, <1>5, <2>2, <3>1, <3>2, <3>3, FinishReplies
  <2> QED BY <2>1, <2>2
<1> QED BY <1>2, <1>4, <1>6, CommittedInv

(* The tables become the copy, and nobody is answered. *)
LEMMA FinishUnansweredInv ==
  ASSUME DeviceInv, FinishUnanswered
  PROVE  DeviceInv'
<1>1. /\ Inv /\ LogRead(db, cursor, got) /\ RepliesFit(reply, db, edits, outbox, cursor)
  BY DEF DeviceInv
<1>2. /\ tx # NoTx /\ db' = tx.db /\ tx' = NoTx /\ req' = None /\ acked' = acked
      /\ UNCHANGED <<edits, outbox, cursor, got, late>> /\ reply' = reply
  BY DEF FinishUnanswered, CommitUnanswered, deviceVars
<1>3. db \in DB /\ tx.db \in DB /\ Grown(db, tx.db)
  BY <1>1, <1>2, TxGrown
<1>4. Inv'
  BY <1>1, <1>2, CommitInv
<1>5. RepliesFit(reply', tx.db, edits, outbox, cursor)
  BY <1>1, <1>2, <1>3, GrownReplies DEF LogRead
<1> QED BY <1>2, <1>4, <1>5, CommittedInv

(* The copy is dropped. *)
LEMMA FailInv ==
  ASSUME DeviceInv, Fail
  PROVE  DeviceInv'
<1>1. /\ db' = db /\ tx' = NoTx /\ req' = None /\ reply' = reply
      /\ UNCHANGED <<edits, outbox, cursor, got, late>> /\ Rollback
  BY DEF Fail, Rollback, deviceVars
<1>2. Inv'
  BY <1>1, RollbackInv DEF DeviceInv
<1> QED BY <1>1, <1>2 DEF DeviceInv

(* No edits, no requests, an empty account. *)
LEMMA DeviceInit ==
  ASSUME DInit
  PROVE  DeviceInv
<1> DEFINE none == [d \in Devices |-> <<>>]
<1>1. /\ Init /\ db = EmptyDB /\ tx = NoTx
      /\ edits = [d \in Devices |-> <<>>] /\ outbox = [d \in Devices |-> <<>>]
      /\ got = [d \in Devices |-> <<>>] /\ cursor = [d \in Devices |-> 0]
      /\ req = None /\ late = {} /\ reply = [d \in Devices |-> None]
  BY DEF DInit, Init
<1>2. /\ db.operations = {} /\ Len(db.changes) = 0
      /\ \A k \in Keys : db.records[k].revision = 0 /\ Len(db.records[k].candidates) = 0
  BY <1>1 DEF EmptyDB, EmptyRecord
<1>3. \A d \in Devices : /\ edits[d] = <<>> /\ outbox[d] = <<>> /\ got[d] = <<>>
                         /\ cursor[d] = 0 /\ reply[d] = None
  BY <1>1
<1>4. \A d \in Devices : /\ Len(edits[d]) = 0 /\ Len(outbox[d]) = 0 /\ Len(got[d]) = 0
                         /\ Done(edits, outbox, d) = 0 /\ Len(Plans[d]) \in Nat
  BY <1>3, PlanAssumption DEF Done
<1>5. /\ edits \in [Devices -> Seq(Operation)] /\ outbox \in [Devices -> Seq(Operation)]
      /\ got \in [Devices -> Seq(Change)] /\ cursor \in [Devices -> Nat]
  BY <1>1
<1>6. Queues(edits, outbox)
  BY <1>4, <1>5 DEF Queues
<1>7. LogRead(db, cursor, got)
  BY <1>2, <1>3, <1>4, <1>5 DEF LogRead
<1>8. OwnRead(edits, outbox, got) /\ DoneKnown(db, edits, outbox)
  BY <1>4 DEF OwnRead, DoneKnown
<1>9. TablesOf(db, edits, outbox, got)
  <2>1. Counted(db) /\ FromEdits(db, edits) /\ ReplacedSeen(db, edits, got)
    BY <1>2 DEF Counted, FromEdits, ReplacedSeen
  <2>2. InReach(db, edits, outbox) /\ Based(db, edits, got)
    BY <1>4 DEF InReach, Based
  <2> QED BY <2>1, <2>2 DEF TablesOf
<1>10. LateFits(late, edits, outbox) /\ \A q \in late : q.since \in Nat
  BY <1>1 DEF LateFits
<1>11. RepliesFit(reply, db, edits, outbox, cursor)
  BY <1>1 DEF RepliesFit
<1>12. Inv
  BY <1>1, InitInv
<1> QED BY <1>1, <1>6, <1>7, <1>8, <1>9, <1>10, <1>11, <1>12 DEF DeviceInv

(* Every step of the devices, the network and the server keeps DeviceInv. *)
LEMMA DeviceNext == DeviceInv /\ [DNext]_allVars => DeviceInv'
<1> SUFFICES ASSUME DeviceInv, [DNext]_allVars PROVE DeviceInv'
  OBVIOUS
<1>1. ASSUME NEW d \in Devices,
             Edit(d) \/ Send(d) \/ SendLate(d) \/ Receive(d) \/ LoseReply(d)
      PROVE  DeviceInv'
  BY <1>1, EditInv, SendInv, SendLateInv, ReceiveInv, LoseReplyInv
<1>2. ASSUME NEW q \in late, Arrive(q) PROVE DeviceInv'
  BY <1>2, ArriveInv
<1>3. CASE Serve \/ Finish \/ FinishUnanswered \/ Fail
  BY <1>3, ServeInv, FinishInv, FinishUnansweredInv, FailInv
<1>4. CASE UNCHANGED allVars
  <2>1. Inv'
    BY <1>4, NextInv DEF DeviceInv, allVars, vars
  <2> QED BY <1>4, <2>1 DEF DeviceInv, allVars, vars, deviceVars, netVars
<1> QED BY <1>1, <1>2, <1>3, <1>4 DEF DNext

(* So it holds throughout. *)
LEMMA DeviceInvariance == DSpec => []DeviceInv
BY DeviceInit, DeviceNext, PTL DEF DSpec

-----------------------------------------------------------------------------
(* Devices: theorems                                                       *)

(* Behind the devices the tables keep every invariant of RecordSync. *)
THEOREM DevicesKeepStore == DSpec => [](TypeOK /\ LogAgrees /\ OneEffectPerOperation
                                        /\ NoEditLost /\ WithinCapacity /\ AnswersDurable)
<1>1. DeviceInv => /\ TypeOK /\ LogAgrees /\ OneEffectPerOperation
                   /\ NoEditLost /\ WithinCapacity /\ AnswersDurable
  BY DEF DeviceInv, Inv, TxInv, StoreInv, LogAgrees, OneEffectPerOperation, NoEditLost,
         WithinCapacity
<1> QED BY <1>1, DeviceInvariance, PTL

(* An edit that replaces others was made with all of them seen. *)
THEOREM NothingReplacedUnseen == DSpec => []NothingUnseenReplaced
<1>1. ASSUME DeviceInv PROVE NothingUnseenReplaced
  <2>1. Queues(edits, outbox) /\ FromEdits(db, edits) /\ ReplacedSeen(db, edits, got)
    BY <1>1 DEF DeviceInv, TablesOf
  <2> SUFFICES ASSUME NEW d \in Devices, NEW e \in db.operations, NEW f \in db.operations,
                      NEW i \in 1 .. Len(Plans[d]), Plans[d][i].id = e.op.id,
                      ~e.result.conflict, f.op.key = e.op.key,
                      f.result.revision < e.result.revision
               PROVE  \/ \E j \in 1 .. Len(Plans[d]) : Plans[d][j].id = f.op.id
                      \/ Seen(got, d, f)
    BY DEF NothingUnseenReplaced, Seen
  <2>2. \A c \in Devices : Len(edits[c]) \in Nat /\ Len(Plans[c]) \in Nat
                           /\ Len(edits[c]) <= Len(Plans[c])
    BY <2>1, DoneType, PlanAssumption DEF Queues
  <2>3. PICK c \in Devices : \E n \in 1 .. Len(edits[c]) : e.op = edits[c][n]
    BY <2>1 DEF FromEdits
  <2>4. PICK n \in 1 .. Len(edits[c]) : e.op = edits[c][n]
    BY <2>3
  <2>5. n \in 1 .. Len(Plans[c]) /\ Plans[c][n].id = Plans[d][i].id
    BY <2>1, <2>2, <2>4 DEF Queues
  <2>6. c = d
    BY <2>5, PlanAssumption
  <2>7. Mine(edits, d, e)
    BY <2>4, <2>6 DEF Mine
  <2>8. Mine(edits, d, f) \/ Seen(got, d, f)
    BY <2>1, <2>7 DEF ReplacedSeen
  <2>9. ASSUME Mine(edits, d, f)
        PROVE  \E j \in 1 .. Len(Plans[d]) : Plans[d][j].id = f.op.id
    <3>1. PICK j \in 1 .. Len(edits[d]) : edits[d][j].id = f.op.id
      BY <2>9 DEF Mine
    <3>2. j \in 1 .. Len(Plans[d]) /\ Plans[d][j].id = edits[d][j].id
      BY <2>1, <2>2 DEF Queues
    <3> QED BY <3>1, <3>2
  <2> QED BY <2>8, <2>9
<1> QED BY <1>1, DeviceInvariance, PTL

(* If no record is edited more often than it has room for candidates, no   *)
(* device is ever refused, whatever was lost, late or repeated.            *)
THEOREM NoRefusals == EditsFit => (DSpec => []NeverRefused)
<1> SUFFICES ASSUME EditsFit PROVE DSpec => []NeverRefused
  OBVIOUS
<1>1. ASSUME DeviceInv PROVE NeverRefused
  <2>1. /\ Inv /\ Queues(edits, outbox) /\ LogRead(db, cursor, got)
        /\ tx # NoTx => TablesOf(tx.db, edits, outbox, got)
        /\ req # None => tx # NoTx /\ ReqFits(req, tx, edits, outbox, cursor, reply)
    BY <1>1 DEF DeviceInv
  <2>2. ASSUME NEW d \in Devices PROVE cursor[d] <= db.cursor
    <3>1. db.cursor = Len(db.changes)
      BY <2>1, StoreTyped DEF StoreInv, LogMatchesRecords, CursorsContiguous
    <3> QED BY <2>1, <3>1 DEF LogRead
  <2>3. ASSUME req # None, req.ops # <<>>, Refused(tx.db, Head(req.ops)) PROVE FALSE
    <3>1. /\ tx.db \in DB /\ StoreInv(tx.db) /\ TablesOf(tx.db, edits, outbox, got)
          /\ ReqFits(req, tx, edits, outbox, cursor, reply)
      BY <2>1, <2>3, TxGrown
    <3>2. PICK d \in Devices : \E n \in 1 .. Len(edits[d]) :
            /\ Head(req.ops) = edits[d][n]
            /\ \A m \in 1 .. n - 1 : Known(tx.db, edits[d][m].id)
      BY <2>1, <2>3, <3>1, NextEdit
    <3>3. PICK n \in 1 .. Len(edits[d]) :
            /\ Head(req.ops) = edits[d][n]
            /\ \A m \in 1 .. n - 1 : Known(tx.db, edits[d][m].id)
      BY <3>2
    <3>4. /\ ~Known(tx.db, edits[d][n].id)
          /\ ~(Len(tx.db.records[edits[d][n].key].candidates) < MaxCandidates)
      BY <2>1, <2>3, <3>1, <3>3, OnlyRoomRefuses
    <3> QED BY <2>1, <3>1, <3>4, RoomForEdit
  <2> QED BY <2>2, <2>3 DEF NeverRefused
<1> QED BY <1>1, DeviceInvariance, PTL

(* Without that assumption only a full record refuses an edit: no id is    *)
(* ever seen as reused and no base revision or cursor lies in the future.  *)
OnlyFullRecordsRefuse ==
  /\ req # None /\ req.ops # <<>> /\ Refused(tx.db, Head(req.ops))
     => /\ Recorded(tx.db, Head(req.ops).id) = {}
        /\ Head(req.ops).base <= tx.db.records[Head(req.ops).key].revision
        /\ Len(tx.db.records[Head(req.ops).key].candidates) >= MaxCandidates
  /\ \A d \in Devices : cursor[d] <= db.cursor

(* What the server tells a device that follows the protocol. *)
THEOREM RefusedForRoom == DSpec => []OnlyFullRecordsRefuse
<1>1. ASSUME DeviceInv PROVE OnlyFullRecordsRefuse
  <2> DEFINE op == Head(req.ops)
  <2>1. /\ Inv /\ Queues(edits, outbox) /\ LogRead(db, cursor, got)
        /\ tx # NoTx => TablesOf(tx.db, edits, outbox, got)
        /\ req # None => tx # NoTx /\ ReqFits(req, tx, edits, outbox, cursor, reply)
    BY <1>1 DEF DeviceInv
  <2>2. ASSUME NEW d \in Devices PROVE cursor[d] <= db.cursor
    <3>1. db.cursor = Len(db.changes)
      BY <2>1, StoreTyped DEF StoreInv, LogMatchesRecords, CursorsContiguous
    <3> QED BY <2>1, <3>1 DEF LogRead
  <2>3. ASSUME req # None, req.ops # <<>>, Refused(tx.db, op)
        PROVE  /\ Recorded(tx.db, op.id) = {}
               /\ op.base <= tx.db.records[op.key].revision
               /\ Len(tx.db.records[op.key].candidates) >= MaxCandidates
    <3>1. /\ tx.db \in DB /\ StoreInv(tx.db) /\ TablesOf(tx.db, edits, outbox, got)
          /\ ReqFits(req, tx, edits, outbox, cursor, reply)
      BY <2>1, <2>3, TxGrown
    <3>2. PICK d \in Devices : \E n \in 1 .. Len(edits[d]) :
            /\ op = edits[d][n] /\ \A m \in 1 .. n - 1 : Known(tx.db, edits[d][m].id)
      BY <2>1, <2>3, <3>1, NextEdit
    <3>3. PICK n \in 1 .. Len(edits[d]) :
            /\ op = edits[d][n] /\ \A m \in 1 .. n - 1 : Known(tx.db, edits[d][m].id)
      BY <3>2
    <3>4. op \in Operation
      BY <2>1, <3>3 DEF Queues
    <3> HIDE DEF op
    <3>5. ~Known(tx.db, op.id) /\ ~(Len(tx.db.records[op.key].candidates) < MaxCandidates)
      BY <2>1, <2>3, <3>1, <3>3, OnlyRoomRefuses
    <3>6. op.base <= tx.db.records[op.key].revision
      BY <2>1, <3>1, <3>3, BaseCovers
    <3>7. Len(tx.db.records[op.key].candidates) \in Nat
      <4>1. tx.db.records[op.key] \in Record
        BY <3>1, <3>4 DEF DB, Operation
      <4> QED BY <4>1 DEF Record
    <3> QED BY <3>5, <3>6, <3>7, StoreAssumption DEF Known
  <2> QED BY <2>2, <2>3 DEF OnlyFullRecordsRefuse
<1> QED BY <1>1, DeviceInvariance, PTL

(* An edit stays in the outbox until the server has recorded it. *)
THEOREM EditsAreKept == DSpec => []EditsKept
<1>1. ASSUME DeviceInv PROVE EditsKept
  <2>1. Queues(edits, outbox) /\ DoneKnown(db, edits, outbox)
    BY <1>1 DEF DeviceInv
  <2> SUFFICES ASSUME NEW d \in Devices, NEW i \in 1 .. Len(edits[d])
               PROVE  \/ \E j \in 1 .. Len(outbox[d]) : outbox[d][j].id = edits[d][i].id
                      \/ Recorded(db, edits[d][i].id) # {}
    BY DEF EditsKept
  <2> DEFINE x == Done(edits, outbox, d)
  <2>2. /\ Len(edits[d]) \in Nat /\ Len(outbox[d]) \in Nat /\ x \in Nat
        /\ x + Len(outbox[d]) = Len(edits[d])
        /\ \A j \in 1 .. Len(outbox[d]) : outbox[d][j] = edits[d][x + j]
    <3>1. /\ Len(edits[d]) \in Nat /\ Len(outbox[d]) \in Nat /\ x \in 0 .. Len(edits[d])
          /\ x + Len(outbox[d]) = Len(edits[d])
      BY <2>1, DoneType
    <3>2. \A j \in 1 .. Len(outbox[d]) : outbox[d][j] = edits[d][x + j]
      BY <2>1 DEF Queues
    <3> HIDE DEF x
    <3> QED BY <3>1, <3>2
  <2>3. CASE i <= x
    <3>1. \A n \in 1 .. x : Known(db, edits[d][n].id)
      BY <2>1 DEF DoneKnown
    <3> HIDE DEF x
    <3>2. i \in 1 .. x
      BY <2>2, <2>3
    <3> QED BY <3>1, <3>2 DEF Known
  <2>4. CASE ~(i <= x)
    <3> HIDE DEF x
    <3>1. i - x \in 1 .. Len(outbox[d]) /\ x + (i - x) = i
      BY <2>2, <2>4
    <3> QED BY <2>2, <3>1
  <2> QED BY <2>3, <2>4
<1> QED BY <1>1, DeviceInvariance, PTL

(* A commit publishes what it added to the log, if anything. *)
LEMMA CommitPublishes ==
  ASSUME DeviceInv, tx # NoTx, db' = tx.db, got' = got
  PROVE  [Pull!Next]_(Pull!vars)
<1> DEFINE n == Len(db.changes)
           m == Len(tx.db.changes)
<1>1. /\ db.changes \in Seq(Change) /\ tx.db.changes \in Seq(Change) /\ n \in Nat /\ m \in Nat
      /\ n <= m /\ \A i \in 1 .. n : tx.db.changes[i] = db.changes[i]
  BY TxGrown DEF DeviceInv, Grown, DB
<1>2. CASE m = n
  <2>1. tx.db.changes = db.changes
    BY <1>1, <1>2
  <2> QED BY <2>1 DEF Pull!vars
<1>3. CASE m # n
  <2>1. Len(db'.changes) > Len(db.changes)
    <3> HIDE DEF n, m
    <3>1. m > n
      BY <1>1, <1>3
    <3> QED BY <3>1 DEF n, m
  <2>2. SubSeq(tx.db.changes, 1, n) = db.changes
    BY <1>1
  <2>3. Pull!Publish
    BY <2>1, <2>2 DEF Pull!Publish
  <2> QED BY <2>3 DEF Pull!Next
<1> QED BY <1>2, <1>3

(* A device takes the part of the log that an answer carries. *)
LEMMA ReceiveTakes ==
  ASSUME DeviceInv, NEW d \in Devices, Receive(d)
  PROVE  [Pull!Next]_(Pull!vars)
<1> DEFINE p == reply[d].page
           n == Len(got[d])
           l == Len(p)
           m == Len(db.changes)
           g == got[d] \o p
<1>1. /\ LogRead(db, cursor, got) /\ RepliesFit(reply, db, edits, outbox, cursor)
      /\ db.changes \in Seq(Change) /\ m \in Nat
  BY StoreTyped DEF DeviceInv, DB
<1>2. reply[d] # None /\ db' = db /\ got' = [got EXCEPT ![d] = g]
  BY DEF Receive, vars
<1>3. /\ got \in [Devices -> Seq(Change)] /\ got[d] \in Seq(Change) /\ n \in Nat
      /\ n = cursor[d] /\ n <= m /\ \A i \in 1 .. n : got[d][i] = db.changes[i]
  BY <1>1 DEF LogRead
<1>4. ReplyFits(db, edits, outbox, cursor, d, reply[d])
  BY <1>1, <1>2 DEF RepliesFit
<1>5. /\ p \in Seq(Change) /\ l \in Nat /\ n + l <= m
      /\ \A i \in 1 .. l : p[i] = db.changes[n + i]
  BY <1>3, <1>4 DEF ReplyFits
<1>6. CASE p = <<>>
  <2>1. g = got[d]
    BY <1>3, <1>6
  <2>2. got' = got
    BY <1>2, <1>3, <2>1
  <2> QED BY <1>2, <2>2 DEF Pull!vars
<1>7. CASE p # <<>>
  <2>1. l # 0
    BY <1>5, <1>7
  <2>2. /\ g \in Seq(Change) /\ Len(g) = n + l /\ \A i \in 1 .. n : g[i] = got[d][i]
        /\ \A i \in n + 1 .. n + l : g[i] = p[i - n]
    <3> DEFINE s == got[d]
    <3>1. s \in Seq(Change) /\ n = Len(s)
      BY <1>3
    <3> HIDE DEF s, p
    <3>2. /\ s \o p \in Seq(Change) /\ Len(s \o p) = Len(s) + Len(p)
          /\ \A i \in 1 .. Len(s) : (s \o p)[i] = s[i]
          /\ \A i \in Len(s) + 1 .. Len(s) + Len(p) : (s \o p)[i] = p[i - Len(s)]
      BY <3>1, <1>5
    <3> QED BY ONLY <3>2 DEF s, n, l, g
  <2> HIDE DEF p, n, l, m, g
  <2>3. \A i \in 1 .. n + l : g[i] = db.changes[i]
    <3> TAKE i \in 1 .. n + l
    <3>1. CASE i <= n
      BY <1>3, <1>5, <2>2, <3>1
    <3>2. CASE ~(i <= n)
      <4>1. i \in n + 1 .. n + l /\ i - n \in 1 .. l /\ n + (i - n) = i
        BY <1>3, <1>5, <3>2
      <4> QED BY <1>5, <2>2, <4>1
    <3> QED BY <3>1, <3>2
  <2>4. n + l \in n + 1 .. m /\ n + l \in 0 .. m
    BY <1>1, <1>3, <1>5, <2>1
  <2>5. g = SubSeq(db.changes, 1, n + l)
    <3> DEFINE k == n + l
    <3>1. k \in 0 .. Len(db.changes) /\ k \in Nat /\ Len(g) = k /\ \A i \in 1 .. k : g[i] = db.changes[i]
      BY <2>2, <2>3, <2>4 DEF m
    <3> HIDE DEF k
    <3>2. g = SubSeq(db.changes, 1, k)
      BY <1>1, <2>2, <3>1
    <3> QED BY <3>2 DEF k
  <2>6. Pull!Take(d)
    <3>1. got' = [got EXCEPT ![d] = SubSeq(db.changes, 1, n + l)]
      BY <1>2, <2>5
    <3> QED BY <1>2, <2>4, <3>1 DEF Pull!Take, n, m
  <2> QED BY <2>6 DEF Pull!Next
<1> QED BY <1>6, <1>7

(* Whatever is lost, late or rolled back, the log and what the devices     *)
(* take of it make only steps of PullLog: it is published at its end and   *)
(* taken in order, without gaps and without repeats.                       *)
THEOREM DevicesReadTheLog == DSpec => Pull!Init /\ [][Pull!Next]_(Pull!vars)
<1>1. DInit => Pull!Init
  BY DEF DInit, Init, EmptyDB, Pull!Init
<1>2. DeviceInv /\ [DNext]_allVars => [Pull!Next]_(Pull!vars)
  <2> SUFFICES ASSUME DeviceInv, [DNext]_allVars PROVE [Pull!Next]_(Pull!vars)
    OBVIOUS
  <2>1. ASSUME NEW d \in Devices, Receive(d) PROVE [Pull!Next]_(Pull!vars)
    BY <2>1, ReceiveTakes
  <2>2. CASE Finish \/ FinishUnanswered
    <3>1. tx # NoTx /\ db' = tx.db /\ got' = got
      BY <2>2 DEF Finish, FinishUnanswered, Commit, CommitUnanswered, deviceVars
    <3> QED BY <3>1, CommitPublishes
  <2>3. ASSUME db' = db, got' = got PROVE [Pull!Next]_(Pull!vars)
    BY <2>3 DEF Pull!vars
  <2>4. ASSUME NEW d \in Devices, Edit(d) \/ Send(d) \/ SendLate(d) \/ LoseReply(d)
        PROVE  db' = db /\ got' = got
    BY <2>4 DEF Edit, Send, SendLate, LoseReply, Begin, vars, deviceVars
  <2>5. ASSUME NEW q \in late, Arrive(q) PROVE db' = db /\ got' = got
    BY <2>5 DEF Arrive, Begin, deviceVars
  <2>6. CASE Serve \/ Fail \/ UNCHANGED allVars
    <3>1. db' = db /\ got' = got
      BY <2>6 DEF Serve, Fail, Apply, Rollback, allVars, vars, deviceVars
    <3> QED BY <2>3, <3>1
  <2> QED BY <2>1, <2>2, <2>3, <2>4, <2>5, <2>6 DEF DNext
<1> QED BY <1>1, <1>2, DeviceInvariance, PTL DEF DSpec
=============================================================================
