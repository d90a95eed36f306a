-------------------------- MODULE LibrarySyncProofs --------------------------
(***************************************************************************)
(* Proofs about LibrarySync, for any number of members, handlers, ids and  *)
(* edits.  AccountInv is what each account's tables keep whoever writes    *)
(* them: a scan, a seed, a migration or an operation; one lemma for each   *)
(* of those writers shows it on the tables alone.  HandlerInv is what a    *)
(* handler may rely on although others write between its steps.            *)
(***************************************************************************)
EXTENDS LibrarySync, AccountStoreProofs

(* Candidates that have the id of an accepted operation are that edit. *)
FromEdits(d) ==
  \A e \in d.operations : \A i \in 1 .. Len(d.records[Book].candidates) :
    LET c == d.records[Book].candidates[i]
    IN  c.op = e.op.id => /\ c.deleted = e.op.deleted
                          /\ c.value.body = e.op.value.body

EditsSurvive(d) ==
  \A e \in d.operations : ~LooksLikeSeed(e.op) => Present(d, e) \/ Resolved(d, e)

AccountInv(d) ==
  /\ LogMatchesRecords(d) /\ Capacity(d) /\ AnswersWithinRecords(d) /\ OneEffect(d)
  /\ d.records[Book].revision = 0 => d.records[Book].candidates = <<>>
  /\ \A e \in d.operations : e.op.key = Book
  /\ FromEdits(d)
  /\ EditsSurvive(d)

(* The ids of the book's candidates, those that changes introduced, and    *)
(* both.                                                                   *)
CandidateIds(d) ==
  {d.records[Book].candidates[i].op : i \in 1 .. Len(d.records[Book].candidates)}
NewestId(c) == c.record.candidates[Len(c.record.candidates)].op
WrittenIds(d) == {NewestId(d.changes[i]) : i \in 1 .. Len(d.changes)}
KnownIds(d) == CandidateIds(d) \cup WrittenIds(d)

IdsIn(d, ids) ==
  KnownIds(d) \subseteq ids /\ \A e \in d.operations : e.op.id \in ids

(* A write makes a new revision: one that is still current is the same     *)
(* record.                                                                 *)
Advances(d, n) ==
  /\ n.records[Book].revision >= d.records[Book].revision
  /\ n.records[Book].revision = d.records[Book].revision
       => n.records[Book] = d.records[Book]

Waiting == {"migrate", "migrateTx", "seed", "seedTx", "sync"}

(* A handler h whose account has the tables d: what it found is current or *)
(* out of date by its revision, only one with an operation goes on to      *)
(* other accounts, and its operation's id is in nobody's hands yet.        *)
HandlerInv(h, d, ids) ==
  /\ h.pc = "migrateTx" /\ h.found # None =>
       /\ h.found.revision > 0
       /\ Len(h.found.candidates) = 1
       /\ h.found.candidates[1].value.inLibrary = Absent
       /\ h.found.revision <= d.records[Book].revision
       /\ h.found.revision = d.records[Book].revision => h.found = d.records[Book]
  /\ h.op = None => h.todo = {} /\ h.pc # "members"
  /\ h.op # None => h.op.id \in ids /\ h.op.key = Book
  /\ h.op # None /\ h.pc \in Waiting => h.op.id \notin KnownIds(d)

(* No two waiting handlers carry the same id. *)
Apart(h, g) ==
  h.op # None /\ h.pc \in Waiting /\ g.op # None /\ g.pc \in Waiting => h.op.id # g.op.id

IInv ==
  /\ TypeOK
  /\ \A u \in Accounts : AccountInv(db[u]) /\ IdsIn(db[u], used)
  /\ \A p \in Requests : proc[p] # None => HandlerInv(proc[p], db[proc[p].user], used)
  /\ \A p, q \in Requests :
       p # q /\ proc[p] # None /\ proc[q] # None => Apart(proc[p], proc[q])

-----------------------------------------------------------------------------
(* The writers of one account's tables                                     *)

LEMMA BookIsKey == Book \in Keys
BY LibraryAssumption, StoreAssumption

LEMMA DBFacts ==
  ASSUME NEW d \in DB
  PROVE  /\ d.records \in [Keys -> Record] /\ d.records[Book] \in Record
         /\ d.records[Book].revision \in Nat
         /\ d.records[Book].candidates \in Seq(Candidate)
         /\ Len(d.records[Book].candidates) \in Nat
         /\ d.operations \subseteq Entry
<1>1. d.records \in [Keys -> Record] /\ d.operations \subseteq Entry
  BY DEF DB
<1>2. d.records[Book] \in Record
  BY <1>1, BookIsKey
<1> HIDE DEF Record
<1> QED BY <1>1, <1>2 DEF Record

LEMMA BookWritten ==
  ASSUME NEW d \in DB, NEW r \in Record
  PROVE  /\ Write(d, Book, r) \in DB
         /\ Write(d, Book, r).records = [d.records EXCEPT ![Book] = r]
         /\ Write(d, Book, r).operations = d.operations
<1>1. Write(d, Book, r) \in DB
  BY BookIsKey, WriteType
<1>2. /\ Write(d, Book, r).records = [d.records EXCEPT ![Book] = r]
      /\ Write(d, Book, r).operations = d.operations
  BY DEF Write
<1> QED BY <1>1, <1>2

(* OneEffect in the words used here. *)
IdsOnce(d) == \A e, f \in d.operations : e.op.id = f.op.id => e = f

Introduces(d, i, e) ==
  /\ d.changes[i].key = e.op.key
  /\ d.changes[i].record.revision = e.result.revision
  /\ NewestId(d.changes[i]) = e.op.id
  /\ \A j \in 1 .. Len(d.changes) : j # i => NewestId(d.changes[j]) # e.op.id

LEMMA EffectFacts ==
  ASSUME NEW d
  PROVE  OneEffect(d) <=>
           /\ IdsOnce(d)
           /\ \A e \in d.operations : \E i \in 1 .. Len(d.changes) : Introduces(d, i, e)
BY Zenon DEF OneEffect, IdsOnce, Introduces, NewestId

(* A change at the end of the log adds the id it introduces.  If that is   *)
(* no operation's, every operation still has its one change.               *)
LEMMA ChangeAdded ==
  ASSUME NEW d \in DB, NEW n, NEW c,
         n.changes = Append(d.changes, c)
  PROVE  /\ WrittenIds(n) = WrittenIds(d) \cup {NewestId(c)}
         /\ OneEffect(d) /\ n.operations = d.operations
            /\ (\A e \in d.operations : e.op.id # NewestId(c)) => OneEffect(n)
<1> DEFINE m == Len(d.changes)
<1>1. d.changes \in Seq(Change)
  BY DEF DB
<1>2. /\ m \in Nat /\ Len(n.changes) = m + 1 /\ n.changes[m + 1] = c
      /\ \A i \in 1 .. m : n.changes[i] = d.changes[i]
  BY <1>1
<1> HIDE DEF m
<1>3. \A i \in 1 .. m + 1 : i \in 1 .. m \/ i = m + 1
  BY <1>2
<1>4. WrittenIds(n) = WrittenIds(d) \cup {NewestId(c)}
  BY <1>2, <1>3 DEF WrittenIds, m
<1>5. ASSUME OneEffect(d), n.operations = d.operations,
             \A e \in d.operations : e.op.id # NewestId(c)
      PROVE  OneEffect(n)
  <2>1. IdsOnce(n)
    BY <1>5 DEF OneEffect, IdsOnce
  <2>2. ASSUME NEW e \in n.operations PROVE \E i \in 1 .. m + 1 : Introduces(n, i, e)
    <3>1. PICK i \in 1 .. m : Introduces(d, i, e)
      BY <1>5, EffectFacts DEF m
    <3>2. \A j \in 1 .. m + 1 : j # i => NewestId(n.changes[j]) # e.op.id
      BY <1>2, <1>3, <1>5, <3>1 DEF Introduces, m
    <3>3. i \in 1 .. m + 1 /\ n.changes[i] = d.changes[i]
      BY <1>2, <3>1
    <3> QED BY <1>2, <3>1, <3>2, <3>3 DEF Introduces
  <2> QED BY <1>2, <2>1, <2>2, EffectFacts
<1> QED BY <1>4, <1>5

(* Writing a record with a sole candidate c, in place of one that no       *)
(* accepted edit is lost with.                                             *)
LEMMA SoleWritten ==
  ASSUME NEW d \in DB, NEW c \in Candidate, NEW ids, NEW new,
         AccountInv(d), IdsIn(d, ids),
         c.op \in ids \cup new,
         \A e \in d.operations : e.op.id # c.op,
         \A e \in d.operations : ~LooksLikeSeed(e.op) /\ Present(d, e) => Resolved(d, e)
  PROVE  LET r == [revision |-> d.records[Book].revision + 1, candidates |-> <<c>>]
             n == Write(d, Book, r)
         IN  /\ n \in DB /\ AccountInv(n) /\ IdsIn(n, ids \cup new)
             /\ n.records[Book] = r /\ CandidateIds(n) = {c.op}
             /\ KnownIds(n) \subseteq KnownIds(d) \cup {c.op}
             /\ n.operations = d.operations /\ Advances(d, n)
<1> DEFINE r == [revision |-> d.records[Book].revision + 1, candidates |-> <<c>>]
           n == Write(d, Book, r)
<1>1. /\ d.records \in [Keys -> Record] /\ d.records[Book].revision \in Nat
      /\ d.operations \subseteq Entry
  BY DBFacts
<1>2. r \in Record
  BY <1>1 DEF Record
<1>3. r.revision = d.records[Book].revision + 1 /\ r.candidates = <<c>>
  OBVIOUS
<1>4. LogMatchesRecords(n)
  BY <1>2, BookIsKey, WriteKeepsLog DEF AccountInv
<1> DEFINE w == [cursor |-> d.cursor + 1, key |-> Book, record |-> r]
<1>17. n.changes = Append(d.changes, w) /\ NewestId(w) = c.op
  BY <1>3 DEF Write, NewestId
<1> HIDE DEF r, w
<1>5. n \in DB /\ n.records = [d.records EXCEPT ![Book] = r] /\ n.operations = d.operations
  BY <1>2, BookWritten
<1> HIDE DEF n
<1>6. n.records[Book] = r /\ \A k \in Keys : k # Book => n.records[k] = d.records[k]
  BY <1>1, <1>5, BookIsKey
<1>7. Len(r.candidates) = 1 /\ r.candidates[1] = c
  BY <1>3
<1>8. CandidateIds(n) = {c.op}
  BY <1>6, <1>7 DEF CandidateIds
<1>9. Advances(d, n)
  BY <1>1, <1>3, <1>6 DEF Advances
<1>18. OneEffect(n) /\ WrittenIds(n) = WrittenIds(d) \cup {c.op}
  BY <1>5, <1>17, ChangeAdded DEF AccountInv
<1>19. KnownIds(n) \subseteq KnownIds(d) \cup {c.op}
  BY <1>8, <1>18 DEF KnownIds
<1>10. IdsIn(n, ids \cup new)
  BY <1>5, <1>19 DEF IdsIn
<1>11. Capacity(n)
  <2>1. ASSUME NEW k \in Keys PROVE Len(n.records[k].candidates) <= MaxCandidates
    <3>1. CASE k = Book
      BY <3>1, <1>6, <1>7, StoreAssumption
    <3>2. CASE k # Book
      BY <3>2, <1>6 DEF AccountInv, Capacity
    <3> QED BY <3>1, <3>2
  <2> QED BY <2>1 DEF Capacity
<1>12. AnswersWithinRecords(n)
  <2> SUFFICES ASSUME NEW e \in n.operations
               PROVE  e.result.revision <= n.records[e.op.key].revision
    BY DEF AnswersWithinRecords
  <2>1. e.op.key = Book /\ e.result.revision <= d.records[Book].revision
    BY <1>5 DEF AccountInv, AnswersWithinRecords
  <2>2. e.result.revision \in Nat
    BY <1>1, <1>5 DEF Entry, OperationResult
  <2> QED BY <2>1, <2>2, <1>1, <1>3, <1>6
<1>13. FromEdits(n)
  BY <1>5, <1>6, <1>7 DEF FromEdits
<1>14. EditsSurvive(n)
  <2> SUFFICES ASSUME NEW e \in n.operations, ~LooksLikeSeed(e.op) PROVE Resolved(n, e)
    BY DEF EditsSurvive
  <2>1. Resolved(d, e)
    BY <1>5 DEF AccountInv, EditsSurvive
  <2> QED BY <2>1, <1>5 DEF Resolved
<1>15. n.records[Book].revision # 0
  BY <1>1, <1>3, <1>6
<1>16. AccountInv(n)
  BY <1>4, <1>5, <1>11, <1>12, <1>13, <1>14, <1>15, <1>18 DEF AccountInv
<1> QED BY <1>5, <1>6, <1>8, <1>9, <1>10, <1>16, <1>19 DEF r, n

(* A seeded value is a value. *)
LEMMA SeedValueType ==
  ASSUME NEW title \in {FileTitle, Untitled}, NEW meta \in Values,
         NEW folder \in Folders \cup {NoFolder, None}
  PROVE  SeedValue(title, meta, folder) \in Values
<1> DEFINE named == IF meta.body.title = NoText THEN [meta.body EXCEPT !.title = title]
                    ELSE meta.body
           base == [meta EXCEPT !.body = named,
                      !.folder = IF meta.folder \in Folders THEN meta.folder ELSE Absent]
           placed == IF folder = None THEN base
                     ELSE [base EXCEPT !.folders = Absent,
                                       !.folder = IF folder = NoFolder THEN @ ELSE folder]
<1>1. meta.body \in Bodies
  BY DEF Values
<1>2. named \in Bodies
  BY <1>1, LibraryAssumption
<1>3. SeedValue(title, meta, folder) = canonicalBookFolders(placed, Blank(named))
  BY DEF SeedValue
<1> HIDE DEF named
<1>4. base \in Values /\ base.folder \in Folders \cup {Absent}
  BY <1>2 DEF Values
<1> HIDE DEF base
<1>5. placed \in Values
  BY <1>4 DEF Values
<1>6. Blank(named) \in Values
  BY <1>2 DEF Values, Blank
<1> HIDE DEF placed
<1> QED BY <1>3, <1>5, <1>6, CanonicalType

(* What a writer of the tables d that has drawn the id leaves of them. *)
Seeded(d, n, ids, id) ==
  /\ n \in DB /\ AccountInv(n) /\ IdsIn(n, ids \cup {id})
  /\ Advances(d, n) /\ n.operations = d.operations
  /\ n = d \/ CandidateIds(n) = {id}
  /\ KnownIds(n) \subseteq KnownIds(d) \cup {id}

(* A seed takes the place of nothing, or of a record that has the form of  *)
(* a seed; a person's edit in it would have to look like a seed too.       *)
LEMMA SeedKeeps ==
  ASSUME NEW d, NEW ids, NEW id, NEW title, NEW meta, NEW folder,
         d \in DB, id \in LongIds, SeedValue(title, meta, folder) \in Values,
         title = FileTitle \/ title = Untitled,
         AccountInv(d), IdsIn(d, ids), id \notin ids,
         NEW n, n = seedBook(d, id, title, meta, folder)
  PROVE  Seeded(d, n, ids, id)
<1> DEFINE r == d.records[Book]
           value == SeedValue(title, meta, folder)
           blocked == /\ r.revision > 0
                      /\ \/ ~LooksSeeded(r, title)
                         \/ meta.body.title = NoText /\ meta.body.author = NoText
                         \/ r.candidates[1].value = value
           c == [op |-> id, deleted |-> FALSE, value |-> value]
<1>1. n = IF blocked THEN d
          ELSE Write(d, Book, [revision |-> r.revision + 1, candidates |-> <<c>>])
  BY DEF seedBook
<1>2. blocked \/ r.revision = 0 \/ LooksSeeded(r, title)
  BY DBFacts
<1>3. c \in Candidate
  BY LibraryAssumption DEF Candidate
<1>4. c.op = id
  OBVIOUS
<1> HIDE DEF c, blocked
<1>5. CASE blocked
  <2>1. Advances(d, d)
    BY DBFacts DEF Advances
  <2>2. IdsIn(d, ids \cup {id})
    BY DEF IdsIn
  <2> QED BY <1>5, <1>1, <2>1, <2>2 DEF Seeded
<1>6. CASE ~blocked
  <2>1. ASSUME NEW e \in d.operations, ~LooksLikeSeed(e.op), Present(d, e)
        PROVE  FALSE
    <3>1. PICK i \in 1 .. Len(r.candidates) : r.candidates[i].op = e.op.id
      BY <2>1 DEF Present, AccountInv
    <3>2. r.revision # 0
      BY <3>1 DEF AccountInv
    <3>3. LooksSeeded(r, title)
      BY <3>2, <1>2, <1>6
    <3>4. i = 1 /\ r.candidates[1].op \in LongIds /\ ~r.candidates[1].deleted
      BY <3>3 DEF LooksSeeded, Sole
    <3>5. r.candidates[1].deleted = e.op.deleted /\ r.candidates[1].value.body = e.op.value.body
      BY <3>1, <3>4 DEF AccountInv, FromEdits
    <3> QED BY <2>1, <3>1, <3>3, <3>4, <3>5 DEF LooksSeeded, LooksLikeSeed
  <2>2. \A e \in d.operations : e.op.id # c.op
    BY <1>4 DEF IdsIn
  <2>3. c.op \in ids \cup {id}
    BY <1>4
  <2>4. LET m == Write(d, Book, [revision |-> r.revision + 1, candidates |-> <<c>>])
        IN  /\ m \in DB /\ AccountInv(m) /\ IdsIn(m, ids \cup {id})
            /\ CandidateIds(m) = {c.op} /\ KnownIds(m) \subseteq KnownIds(d) \cup {c.op}
            /\ m.operations = d.operations /\ Advances(d, m)
    BY <1>3, <2>1, <2>2, <2>3, SoleWritten
  <2> QED BY <1>1, <1>4, <1>6, <2>4 DEF Seeded
<1> QED BY <1>5, <1>6

(* A migration writes the candidate that is there, which is no operation's. *)
LEMMA MigrationKeeps ==
  ASSUME NEW d \in DB, NEW ids, AccountInv(d), IdsIn(d, ids),
         Len(d.records[Book].candidates) = 1,
         Recorded(d, d.records[Book].candidates[1].op) = {}
  PROVE  LET n == Write(d, Book, Migrated(d.records[Book]))
         IN  /\ n \in DB /\ AccountInv(n) /\ IdsIn(n, ids)
             /\ n.records[Book] = Migrated(d.records[Book])
             /\ KnownIds(n) \subseteq KnownIds(d)
             /\ n.operations = d.operations /\ Advances(d, n)
<1> DEFINE r == d.records[Book]
           c == [r.candidates[1] EXCEPT !.value.inLibrary = FALSE]
<1>1. r.candidates[1] \in Candidate
  BY DBFacts
<1>2. c \in Candidate /\ c.op = r.candidates[1].op
  <2>1. /\ r.candidates[1].value \in Values
    BY <1>1 DEF Candidate
  <2>2. [r.candidates[1].value EXCEPT !.inLibrary = FALSE] \in Values
    BY <2>1 DEF Values
  <2> QED BY <1>1, <2>2 DEF Candidate
<1>3. Migrated(r) = [revision |-> r.revision + 1, candidates |-> <<c>>]
  BY DEF Migrated
<1> HIDE DEF c
<1>4. CandidateIds(d) = {c.op}
  BY <1>2 DEF CandidateIds
<1>5. c.op \in KnownIds(d) /\ c.op \in ids \cup {}
  BY <1>4 DEF IdsIn, KnownIds
<1>6. \A e \in d.operations : e.op.id # c.op
  BY <1>2 DEF Recorded
<1>7. \A e \in d.operations : ~Present(d, e)
  <2> SUFFICES ASSUME NEW e \in d.operations, Present(d, e) PROVE FALSE
    OBVIOUS
  <2>1. e.op.id \in CandidateIds(d)
    BY DEF Present, CandidateIds, AccountInv
  <2> QED BY <2>1, <1>4, <1>6
<1>8. LET m == Write(d, Book, [revision |-> r.revision + 1, candidates |-> <<c>>])
      IN  /\ m \in DB /\ AccountInv(m) /\ IdsIn(m, ids \cup {})
          /\ m.records[Book] = [revision |-> r.revision + 1, candidates |-> <<c>>]
          /\ KnownIds(m) \subseteq KnownIds(d) \cup {c.op}
          /\ m.operations = d.operations /\ Advances(d, m)
  BY <1>2, <1>5, <1>6, <1>7, SoleWritten
<1>9. ids \cup {} = ids
  OBVIOUS
<1>10. KnownIds(d) \cup {c.op} = KnownIds(d)
  BY <1>5
<1> QED BY <1>3, <1>8, <1>9, <1>10, Zenon

(* An accepted operation with an id that nothing was written under. *)
LEMMA EditKeeps ==
  ASSUME NEW d \in DB, NEW ids, NEW op \in Operation,
         AccountInv(d), IdsIn(d, ids), op.key = Book, op.id \in ids,
         op.id \notin KnownIds(d), ~Refused(d, op), ~Replayed(d, op)
  PROVE  LET n == Applied(d, op)
         IN  /\ n \in DB /\ AccountInv(n) /\ IdsIn(n, ids) /\ Advances(d, n)
             /\ KnownIds(n) \subseteq KnownIds(d) \cup {op.id}
             /\ Len(n.records[Book].candidates) = 1
                  => n.records[Book].candidates[1].op = op.id
             /\ n.operations # d.operations
<1> DEFINE r == d.records[op.key]
           q == NextRecord(op, r)
           e == [op |-> op, result |-> Result(d, op)]
           n == Applied(d, op)
           m == Len(d.changes)
           kept == Kept(op, r)
           c == [op |-> op.id, deleted |-> op.deleted, value |-> Settled(op, r)]
<1>0. r = d.records[Book]
  OBVIOUS
<1>1. /\ n \in DB /\ n.records = [d.records EXCEPT ![op.key] = q]
      /\ n.operations = d.operations \cup {e}
      /\ m \in Nat /\ Len(n.changes) = m + 1
      /\ \A i \in 1 .. m : n.changes[i] = d.changes[i]
      /\ n.changes[m + 1].key = op.key /\ n.changes[m + 1].record = q
      /\ op.key \in Keys /\ r \in Record /\ q \in Record
      /\ q.revision = r.revision + 1
      /\ e \in Entry /\ e.op = op /\ e.result.revision = r.revision + 1
      /\ e.result.conflict = Conflicts(op, r)
      /\ \A f \in d.operations : f.op.id # op.id
      /\ op.base <= r.revision /\ Len(Kept(op, r)) < MaxCandidates
  BY NewOperationFacts, Zenon
<1>2. /\ r \in Record /\ r.revision \in Nat /\ d.records \in [Keys -> Record]
      /\ d.operations \subseteq Entry
  BY <1>0, DBFacts
<1>3. n.records[Book] = q /\ \A k \in Keys : k # Book => n.records[k] = d.records[k]
  BY <1>1, <1>2, BookIsKey
<1>4. c \in Candidate
  BY <1>0, <1>2, SettledType DEF Candidate, Operation
<1>5. c.op = op.id /\ c.deleted = op.deleted /\ c.value = Settled(op, r)
  OBVIOUS
<1>6. q.candidates = Append(kept, c)
  BY DEF NextRecord
<1>7. kept \in Seq(Candidate) /\ Len(kept) \in Nat /\ (kept = <<>> \/ kept = r.candidates)
  BY <1>2 DEF Kept, Record
<1> HIDE DEF r, c, e, n, q, kept
<1>8. /\ Len(q.candidates) = Len(kept) + 1
      /\ \A i \in 1 .. Len(kept) : q.candidates[i] = kept[i]
      /\ q.candidates[Len(kept) + 1] = c
  BY <1>4, <1>6, <1>7
<1>9. \A i \in 1 .. Len(q.candidates) :
        \/ q.candidates[i] = c
        \/ i \in 1 .. Len(r.candidates) /\ q.candidates[i] = r.candidates[i]
  BY <1>7, <1>8
<1>10. CandidateIds(n) \subseteq CandidateIds(d) \cup {op.id}
  BY <1>0, <1>3, <1>5, <1>9 DEF CandidateIds
<1>23. NewestId(n.changes[m + 1]) = op.id
  BY <1>1, <1>5, <1>8 DEF NewestId
<1>24. \A i \in 1 .. m + 1 : i \in 1 .. m \/ i = m + 1
  BY <1>1
<1>25. WrittenIds(n) = WrittenIds(d) \cup {op.id}
  BY <1>1, <1>23, <1>24 DEF WrittenIds, m
<1>26. KnownIds(n) \subseteq KnownIds(d) \cup {op.id}
  BY <1>10, <1>25 DEF KnownIds
<1>27. \A i \in 1 .. m : NewestId(n.changes[i]) # op.id
  BY <1>1 DEF WrittenIds, KnownIds, m
<1>28. OneEffect(n)
  <2>1. IdsOnce(n)
    BY <1>1 DEF AccountInv, OneEffect, IdsOnce
  <2>2. ASSUME NEW f \in n.operations PROVE \E i \in 1 .. m + 1 : Introduces(n, i, f)
    <3>1. CASE f = e
      BY <3>1, <1>1, <1>23, <1>24, <1>27 DEF Introduces
    <3>2. CASE f \in d.operations
      <4>1. PICK i \in 1 .. m : Introduces(d, i, f)
        BY <3>2, EffectFacts DEF AccountInv, m
      <4>2. \A j \in 1 .. m + 1 : j # i => NewestId(n.changes[j]) # f.op.id
        BY <3>2, <4>1, <1>1, <1>23, <1>24 DEF Introduces, m
      <4>3. i \in 1 .. m + 1 /\ n.changes[i] = d.changes[i]
        BY <4>1, <1>1
      <4> QED BY <1>1, <4>1, <4>2, <4>3 DEF Introduces
    <3> QED BY <3>1, <3>2, <1>1
  <2> QED BY <1>1, <2>1, <2>2, EffectFacts
<1>11. IdsIn(n, ids)
  BY <1>1, <1>26 DEF IdsIn
<1>12. Advances(d, n)
  BY <1>0, <1>1, <1>2, <1>3 DEF Advances
<1>13. Len(n.records[Book].candidates) = 1 => n.records[Book].candidates[1].op = op.id
  BY <1>3, <1>5, <1>7, <1>8
<1>14. n.operations # d.operations
  BY <1>1
<1>15. FromEdits(n)
  <2> SUFFICES ASSUME NEW f \in n.operations, NEW i \in 1 .. Len(q.candidates),
                      q.candidates[i].op = f.op.id
               PROVE  /\ q.candidates[i].deleted = f.op.deleted
                      /\ q.candidates[i].value.body = f.op.value.body
    BY <1>3 DEF FromEdits
  <2>1. CASE q.candidates[i] = c
    <3>1. f = e
      BY <2>1, <1>1, <1>5
    <3>2. Settled(op, r).body = op.value.body
      BY DEF Settled, WithMembership, canonicalBookFolders
    <3> QED BY <2>1, <3>1, <3>2, <1>1, <1>5
  <2>2. CASE q.candidates[i] # c
    <3>1. i \in 1 .. Len(r.candidates) /\ q.candidates[i] = r.candidates[i]
      BY <2>2, <1>9
    <3>2. f.op.id \in CandidateIds(d)
      BY <3>1, <1>0, <2>2 DEF CandidateIds, KnownIds
    <3>3. f \in d.operations
      BY <3>2, <1>1 DEF KnownIds
    <3> QED BY <3>1, <3>3, <1>0 DEF AccountInv, FromEdits
  <2> QED BY <2>1, <2>2
<1>16. n.records[Book].revision # 0
  BY <1>1, <1>2, <1>3
<1>17. \A f \in n.operations : f.op.key = Book
  BY <1>1 DEF AccountInv
<1>18. AnswersWithinRecords(n)
  <2> SUFFICES ASSUME NEW f \in n.operations
               PROVE  f.result.revision <= n.records[f.op.key].revision
    BY DEF AnswersWithinRecords
  <2>1. n.records[f.op.key].revision = r.revision + 1
    BY <1>1, <1>3, <1>17
  <2>2. CASE f = e
    BY <2>1, <2>2, <1>1, <1>2
  <2>3. CASE f \in d.operations
    <3>1. f.result.revision <= r.revision
      BY <2>3, <1>0 DEF AccountInv, AnswersWithinRecords
    <3>2. f.result.revision \in Nat
      BY <2>3, <1>2 DEF Entry, OperationResult
    <3> QED BY <3>1, <3>2, <2>1, <1>2
  <2> QED BY <2>2, <2>3, <1>1
<1>19. EditsSurvive(n)
  <2> SUFFICES ASSUME NEW f \in n.operations, ~LooksLikeSeed(f.op)
               PROVE  Present(n, f) \/ Resolved(n, f)
    BY DEF EditsSurvive
  <2>1. n.records[f.op.key] = q
    BY <1>3, <1>17
  <2>2. CASE f = e
    <3>1. q.candidates[Len(kept) + 1].op = f.op.id /\ Len(kept) + 1 \in 1 .. Len(q.candidates)
      BY <2>2, <1>1, <1>5, <1>7, <1>8
    <3> QED BY <3>1, <2>1 DEF Present
  <2>3. CASE f \in d.operations /\ Resolved(d, f)
    BY <2>3, <1>1 DEF Resolved
  <2>4. CASE f \in d.operations /\ Present(d, f) /\ Conflicts(op, r)
    <3>1. PICK i \in 1 .. Len(r.candidates) : r.candidates[i].op = f.op.id
      BY <2>4, <1>0 DEF Present, AccountInv
    <3>2. kept = r.candidates
      BY <2>4 DEF kept, Kept
    <3>3. i \in 1 .. Len(q.candidates) /\ q.candidates[i] = r.candidates[i]
      BY <3>1, <3>2, <1>7, <1>8
    <3> QED BY <3>1, <3>3, <2>1 DEF Present
  <2>5. CASE f \in d.operations /\ ~Conflicts(op, r)
    <3>1. f.result.revision <= r.revision
      BY <2>5, <1>0 DEF AccountInv, AnswersWithinRecords
    <3>2. op.base = r.revision /\ f.result.revision \in Nat
      BY <2>5, <1>2 DEF Conflicts, Entry, OperationResult
    <3>3. e.op.key = f.op.key /\ ~e.result.conflict /\ e.op.base >= f.result.revision
      BY <2>5, <3>1, <3>2, <1>1, <1>2, <1>17
    <3> QED BY <3>3, <1>1 DEF Resolved
  <2> QED BY <2>2, <2>3, <2>4, <2>5, <1>1 DEF AccountInv, EditsSurvive
<1>20. Capacity(n)
  BY AppliedKeepsCapacity DEF AccountInv, n
<1>21. LogMatchesRecords(n)
  <2> DEFINE w == Write(d, op.key, q)
  <2>1. LogMatchesRecords(w)
    BY <1>1, <1>2, BookIsKey, WriteKeepsLog DEF AccountInv, r
  <2>2. n.cursor = w.cursor /\ n.records = w.records /\ n.changes = w.changes
    BY AppliedNew DEF n, q, r
  <2> HIDE DEF w
  <2> QED BY <2>1, <2>2 DEF LogMatchesRecords, CursorsContiguous, NewestChangeIsRecord,
                            RevisionsIncrease
<1>22. AccountInv(n)
  BY <1>15, <1>16, <1>17, <1>18, <1>19, <1>20, <1>21, <1>28 DEF AccountInv
<1> QED BY <1>1, <1>26, <1>11, <1>12, <1>13, <1>14, <1>22 DEF n

-----------------------------------------------------------------------------
(* Handlers                                                                *)

LEMMA TypeFacts ==
  ASSUME IInv
  PROVE  /\ \A u \in Accounts : db[u] \in DB
         /\ \A p \in Requests : proc[p] # None =>
              /\ proc[p].user \in Accounts
              /\ proc[p].op # None => proc[p].op \in Operation
              /\ proc[p].found # None => proc[p].found \in Record
              /\ proc[p].todo \subseteq Members
<1>1. \A p \in Requests : proc[p] # None => proc[p] \in Handler
  BY DEF IInv, TypeOK
<1> QED BY <1>1 DEF IInv, TypeOK, Handler

(* What a handler relies on outlives the writes of others. *)
LEMMA HandlerStays ==
  ASSUME NEW h, NEW d \in DB, NEW n \in DB, NEW ids, NEW more,
         h.found # None => h.found \in Record,
         HandlerInv(h, d, ids), Advances(d, n), ids \subseteq more,
         h.op # None /\ h.pc \in Waiting => h.op.id \notin KnownIds(n)
  PROVE  HandlerInv(h, n, more)
<1>1. d.records[Book].revision \in Nat /\ n.records[Book].revision \in Nat
  BY DBFacts
<1>2. h.found # None => h.found.revision \in Nat
  BY DEF Record
<1>3. h.pc = "migrateTx" /\ h.found # None =>
        /\ h.found.revision <= n.records[Book].revision
        /\ h.found.revision = n.records[Book].revision => h.found = n.records[Book]
  BY <1>1, <1>2 DEF HandlerInv, Advances
<1> QED BY <1>3 DEF HandlerInv

(* One step: account u gets the tables n, the ids new are taken, and at    *)
(* most the handler of p moves.                                            *)
LEMMA OneStep ==
  ASSUME IInv, TypeOK', NEW u \in Accounts, NEW n \in DB, NEW new, NEW p,
         db' = [db EXCEPT ![u] = n], used' = used \cup new,
         AccountInv(n), IdsIn(n, used'), Advances(db[u], n),
         \A q \in Requests \ {p} : proc'[q] = proc[q],
         \A q \in Requests \ {p} :
           proc[q] # None /\ proc[q].op # None /\ proc[q].pc \in Waiting /\ proc[q].user = u
             => proc[q].op.id \notin KnownIds(n),
         p \in Requests /\ proc'[p] # None =>
           /\ HandlerInv(proc'[p], db'[proc'[p].user], used')
           /\ \A q \in Requests \ {p} : proc[q] # None => Apart(proc'[p], proc[q])
  PROVE  IInv'
<1>1. db'[u] = n /\ \A v \in Accounts : v # u => db'[v] = db[v]
  BY DEF IInv, TypeOK
<1>2. \A v \in Accounts : AccountInv(db'[v]) /\ IdsIn(db'[v], used')
  <2> SUFFICES ASSUME NEW v \in Accounts PROVE AccountInv(db'[v]) /\ IdsIn(db'[v], used')
    OBVIOUS
  <2>1. CASE v = u
    BY <2>1, <1>1
  <2>2. CASE v # u
    BY <2>2, <1>1 DEF IInv, IdsIn
  <2> QED BY <2>1, <2>2
<1>3. \A q \in Requests : proc'[q] # None => HandlerInv(proc'[q], db'[proc'[q].user], used')
  <2> SUFFICES ASSUME NEW q \in Requests, proc'[q] # None
               PROVE  HandlerInv(proc'[q], db'[proc'[q].user], used')
    OBVIOUS
  <2>1. CASE q = p
    BY <2>1
  <2>2. CASE q # p
    <3> DEFINE h == proc[q]
    <3>1. proc'[q] = h /\ h # None
      BY <2>2
    <3>2. h.user \in Accounts /\ (h.found # None => h.found \in Record)
      BY <3>1, TypeFacts
    <3>3. HandlerInv(h, db[h.user], used)
      BY <3>1 DEF IInv
    <3> HIDE DEF h
    <3>4. CASE h.user # u
      <4>1. db'[h.user] = db[h.user]
        BY <1>1, <3>2, <3>4
      <4> QED BY <3>1, <3>3, <4>1 DEF HandlerInv
    <3>5. CASE h.user = u
      <4>1. h.op # None /\ h.pc \in Waiting => h.op.id \notin KnownIds(n)
        BY <2>2, <3>1, <3>5 DEF h
      <4>2. db[u] \in DB /\ used \subseteq used'
        BY TypeFacts
      <4>3. HandlerInv(h, n, used')
        BY <3>2, <3>3, <3>5, <4>1, <4>2, HandlerStays
      <4> QED BY <4>3, <3>1, <3>5, <1>1
    <3> QED BY <3>4, <3>5
  <2> QED BY <2>1, <2>2
<1>4. \A q, g \in Requests : q # g /\ proc'[q] # None /\ proc'[g] # None
                              => Apart(proc'[q], proc'[g])
  <2> SUFFICES ASSUME NEW q \in Requests, NEW g \in Requests, q # g,
                      proc'[q] # None, proc'[g] # None
               PROVE  Apart(proc'[q], proc'[g])
    OBVIOUS
  <2>1. CASE q # p /\ g # p
    BY <2>1 DEF IInv
  <2>2. CASE q = p
    BY <2>2
  <2>3. CASE g = p
    BY <2>3 DEF Apart
  <2> QED BY <2>1, <2>2, <2>3
<1> QED BY <1>2, <1>3, <1>4 DEF IInv

(* A step that writes no tables and moves the handler of p to h. *)
LEMMA MoveStep ==
  ASSUME IInv, TypeOK', NEW p \in Requests, NEW h, NEW new,
         db' = db, used' = used \cup new, proc' = [proc EXCEPT ![p] = h],
         h # None =>
           /\ h.user \in Accounts
           /\ HandlerInv(h, db[h.user], used')
           /\ \A q \in Requests \ {p} : proc[q] # None => Apart(h, proc[q])
  PROVE  IInv'
<1>1. proc'[p] = h /\ \A q \in Requests \ {p} : proc'[q] = proc[q]
  BY DEF IInv, TypeOK
<1>2. PICK u \in Accounts : TRUE
  BY DEF Accounts
<1>3. db' = [db EXCEPT ![u] = db[u]] /\ db[u] \in DB
  BY DEF IInv, TypeOK
<1>4. AccountInv(db[u]) /\ IdsIn(db[u], used')
  BY DEF IInv, IdsIn
<1>5. Advances(db[u], db[u])
  BY <1>3, DBFacts DEF Advances
<1>6. \A q \in Requests \ {p} :
        proc[q] # None /\ proc[q].op # None /\ proc[q].pc \in Waiting /\ proc[q].user = u
          => proc[q].op.id \notin KnownIds(db[u])
  BY DEF IInv, HandlerInv
<1>7. proc'[p] # None =>
        /\ HandlerInv(proc'[p], db'[proc'[p].user], used')
        /\ \A q \in Requests \ {p} : proc[q] # None => Apart(proc'[p], proc[q])
  BY <1>1
<1> QED BY <1>1, <1>3, <1>4, <1>5, <1>6, <1>7, OneStep

-----------------------------------------------------------------------------
(* The steps                                                               *)

LEMMA NewIdFacts ==
  ASSUME NEW id \in NewIds
  PROVE  id \in LongIds /\ id \in OpIds /\ id \notin used
BY LibraryAssumption DEF NewIds

LEMMA ParsedType == Blank(Parsed) \in Values
BY LibraryAssumption DEF Blank, Values

LEMMA SharedMetaType ==
  ASSUME IInv PROVE SharedMeta \in Values
<1>1. Owner \in Accounts
  BY DEF Accounts
<1>2. db[Owner] \in DB
  BY <1>1, TypeFacts
<1>3. Sole(Rec(Owner)) => Rec(Owner).candidates[1] \in Candidate
  BY <1>2, DBFacts DEF Sole, Rec
<1>4. Sole(Rec(Owner)) => Rec(Owner).candidates[1].value \in Values
  BY <1>3 DEF Candidate
<1> QED BY <1>4, ParsedType DEF SharedMeta, Values

LEMMA ScanInv ==
  ASSUME IInv, NEW id \in NewIds, NEW folder \in ScanFolders, Scan(folder, id)
  PROVE  IInv'
<1> DEFINE n == seedBook(db[Owner], id, FileTitle, Blank(Parsed), folder)
<1>1. /\ db' = [db EXCEPT ![Owner] = n] /\ used' = used \cup {id}
      /\ files' = files \cup {Owner} /\ members' = members /\ proc' = proc
  BY DEF Scan
<1>2. Owner \in Accounts /\ id \in LongIds /\ id \in OpIds /\ id \notin used
  BY NewIdFacts DEF Accounts
<1>3. /\ db[Owner] \in DB /\ AccountInv(db[Owner]) /\ IdsIn(db[Owner], used)
  BY <1>2, TypeFacts DEF IInv
<1>4. SeedValue(FileTitle, Blank(Parsed), folder) \in Values
  BY LibraryAssumption, ParsedType, SeedValueType
<1>0. n = seedBook(db[Owner], id, FileTitle, Blank(Parsed), folder)
  OBVIOUS
<1> HIDE DEF n
<1>5. /\ n \in DB /\ AccountInv(n) /\ IdsIn(n, used \cup {id})
      /\ Advances(db[Owner], n) /\ n.operations = db[Owner].operations
      /\ KnownIds(n) \subseteq KnownIds(db[Owner]) \cup {id}
  <2>1. Seeded(db[Owner], n, used, id)
    BY <1>0, <1>2, <1>3, <1>4, SeedKeeps
  <2> QED BY <2>1 DEF Seeded
<1>6. TypeOK'
  BY <1>1, <1>2, <1>5 DEF IInv, TypeOK
<1>7. PICK p : p \notin Requests
  BY NoSetContainsEverything
<1>8. \A q \in Requests :
        proc[q] # None /\ proc[q].op # None /\ proc[q].pc \in Waiting /\ proc[q].user = Owner
          => proc[q].op.id \notin KnownIds(n)
  BY <1>2, <1>5 DEF IInv, HandlerInv
<1> QED BY <1>1, <1>2, <1>5, <1>6, <1>7, <1>8, OneStep

(* The library, its members and their own uploads change. *)
LEMMA SharingInv ==
  ASSUME IInv, UNCHANGED <<db, used, proc>>, files' \subseteq Accounts, members' \subseteq Members
  PROVE  IInv'
<1>1. TypeOK'
  BY DEF IInv, TypeOK
<1> QED BY <1>1 DEF IInv, IdsIn, HandlerInv

(* What a handler moves to inside Store.Sync before its transaction. *)
LEMMA GotoFacts ==
  ASSUME IInv, NEW p \in Requests, proc[p] # None, proc[p].pc \in Waiting,
         NEW pc \in Waiting, NEW f \in Record \cup {None}
  PROVE  LET h == [proc[p] EXCEPT !.pc = pc, !.found = f]
         IN  /\ h \in Handler /\ h.pc = pc /\ h.found = f
             /\ h.user = proc[p].user /\ h.user \in Accounts
             /\ h.op = proc[p].op /\ h.todo = proc[p].todo
             /\ \A q \in Requests \ {p} : proc[q] # None => Apart(h, proc[q])
<1> DEFINE h == [proc[p] EXCEPT !.pc = pc, !.found = f]
<1>1. proc[p] \in Handler
  BY DEF IInv, TypeOK
<1>2. /\ h \in Handler /\ h.pc = pc /\ h.found = f
      /\ h.user = proc[p].user /\ h.user \in Accounts
      /\ h.op = proc[p].op /\ h.todo = proc[p].todo
  BY <1>1 DEF Handler, Waiting
<1> HIDE DEF h
<1>3. \A q \in Requests \ {p} : proc[q] # None => Apart(h, proc[q])
  BY <1>2 DEF IInv, Apart
<1> QED BY <1>2, <1>3 DEF h

LEMMA MoveType ==
  ASSUME IInv, NEW p, NEW h \in Handler \cup {None}, proc' = [proc EXCEPT ![p] = h],
         db' \in [Accounts -> DB], used' \subseteq OpIds, UNCHANGED <<files, members>>
  PROVE  TypeOK'
BY DEF IInv, TypeOK

LEMMA QueryInv ==
  ASSUME IInv, NEW p \in Requests, MigrateQuery(p) \/ SeedQuery(p)
  PROVE  IInv'
<1> DEFINE u == proc[p].user
<1>1. PICK pc \in Waiting, f \in Record \cup {None} :
        /\ proc[p] # None /\ proc[p].pc \in Waiting
        /\ proc' = [proc EXCEPT ![p] = [proc[p] EXCEPT !.pc = pc, !.found = f]]
        /\ UNCHANGED <<db, files, members, used>>
        /\ pc = "migrateTx" /\ f # None =>
             /\ f = Rec(u) /\ f.revision > 0 /\ Sole(f)
             /\ f.candidates[1].value.inLibrary = Absent
  <2>1. proc[p] # None
    BY DEF MigrateQuery, SeedQuery
  <2>2. u \in Accounts /\ Rec(u) \in Record
    BY <2>1, TypeFacts, DBFacts DEF Rec
  <2>3. proc \in [Requests -> Handler \cup {None}]
    BY DEF IInv, TypeOK
  <2>4. CASE MigrateQuery(p)
    <3> DEFINE r == Rec(u)
               old == /\ r.revision > 0 /\ u \notin files /\ Shared(u)
                      /\ Sole(r) /\ r.candidates[1].op \in LongIds
                      /\ r.candidates[1].value.inLibrary = Absent
               f == IF old THEN r ELSE None
    <3>1. /\ proc[p].pc = "migrate" /\ UNCHANGED <<db, files, members, used>>
          /\ proc' = [proc EXCEPT ![p].pc = "migrateTx", ![p].found = f]
      BY <2>4 DEF MigrateQuery, Goto
    <3>2. f \in Record \cup {None} /\ (f # None => f = r /\ old)
      BY <2>2
    <3> HIDE DEF f
    <3>3. proc' = [proc EXCEPT ![p] = [proc[p] EXCEPT !.pc = "migrateTx", !.found = f]]
      BY <3>1, <2>3
    <3>4. "migrateTx" \in Waiting /\ "migrate" \in Waiting
      BY DEF Waiting
    <3> QED BY <2>1, <3>1, <3>2, <3>3, <3>4
  <2>5. CASE SeedQuery(p)
    <3> DEFINE f == IF Shared(u) /\ Rec(u).revision = 0 THEN Rec(u) ELSE None
    <3>1. /\ proc[p].pc = "seed" /\ UNCHANGED <<db, files, members, used>>
          /\ proc' = [proc EXCEPT ![p].pc = "seedTx", ![p].found = f]
      BY <2>5 DEF SeedQuery, Goto
    <3>2. f \in Record \cup {None}
      BY <2>2
    <3> HIDE DEF f
    <3>3. proc' = [proc EXCEPT ![p] = [proc[p] EXCEPT !.pc = "seedTx", !.found = f]]
      BY <3>1, <2>3
    <3>4. "seedTx" \in Waiting /\ "seed" \in Waiting /\ "seedTx" # "migrateTx"
      BY DEF Waiting
    <3> QED BY <2>1, <3>1, <3>2, <3>3, <3>4
  <2> QED BY <2>4, <2>5
<1> DEFINE h == [proc[p] EXCEPT !.pc = pc, !.found = f]
<1>2. /\ h \in Handler /\ h.pc = pc /\ h.found = f
      /\ h.user = u /\ h.user \in Accounts
      /\ h.op = proc[p].op /\ h.todo = proc[p].todo
      /\ \A q \in Requests \ {p} : proc[q] # None => Apart(h, proc[q])
  BY <1>1, GotoFacts
<1>3. HandlerInv(proc[p], db[u], used)
  BY <1>1 DEF IInv
<1>4. proc' = [proc EXCEPT ![p] = h] /\ used' = used \cup {}
  BY <1>1
<1> HIDE DEF h
<1>5. HandlerInv(h, db[u], used)
  <2>1. Rec(u).revision \in Nat
    BY <1>2, TypeFacts, DBFacts DEF Rec
  <2>2. h.pc = "migrateTx" /\ h.found # None =>
          /\ h.found.revision > 0
          /\ Len(h.found.candidates) = 1
          /\ h.found.candidates[1].value.inLibrary = Absent
          /\ h.found.revision <= db[u].records[Book].revision
          /\ h.found.revision = db[u].records[Book].revision => h.found = db[u].records[Book]
    BY <1>1, <1>2, <2>1 DEF Sole, Rec
  <2>3. h.pc # "members"
    BY <1>2 DEF Waiting
  <2> QED BY <1>1, <1>2, <1>3, <2>2, <2>3 DEF HandlerInv
<1>6. TypeOK'
  <2>1. db' \in [Accounts -> DB] /\ used' \subseteq OpIds
    BY <1>1 DEF IInv, TypeOK
  <2>2. UNCHANGED <<files, members>> /\ h \in Handler \cup {None}
    BY <1>1, <1>2
  <2> QED BY <1>4, <2>1, <2>2, MoveType
<1>7. /\ h.user \in Accounts /\ HandlerInv(h, db[h.user], used')
      /\ \A q \in Requests \ {p} : proc[q] # None => Apart(h, proc[q])
  BY <1>1, <1>2, <1>5
<1>8. db' = db
  BY <1>1
<1> QED BY <1>4, <1>6, <1>7, <1>8, MoveStep

(* A handler's transaction before that of its request: its account's       *)
(* tables become n, and it goes on to the place pc.                        *)
LEMMA GotoInv ==
  ASSUME IInv, NEW p \in Requests, proc[p] # None, proc[p].pc \in Waiting,
         NEW pc \in {"seed", "sync"}, NEW u \in Accounts, u = proc[p].user, NEW n \in DB, NEW new,
         db' = [db EXCEPT ![u] = n], used' = used \cup new,
         new \subseteq OpIds, new \cap used = {},
         AccountInv(n), IdsIn(n, used'), Advances(db[u], n),
         KnownIds(n) \subseteq KnownIds(db[u]) \cup new,
         proc' = [proc EXCEPT ![p].pc = pc, ![p].found = None], UNCHANGED <<files, members>>
  PROVE  IInv'
<1> DEFINE h == [proc[p] EXCEPT !.pc = pc, !.found = None]
<1>1. pc \in Waiting /\ pc # "migrateTx" /\ pc # "members" /\ None \in Record \cup {None}
  BY DEF Waiting
<1>2. /\ h \in Handler /\ h.pc = pc /\ h.found = None
      /\ h.user = proc[p].user /\ h.user \in Accounts
      /\ h.op = proc[p].op /\ h.todo = proc[p].todo
      /\ \A q \in Requests \ {p} : proc[q] # None => Apart(h, proc[q])
  BY <1>1, GotoFacts
<1>3. proc' = [proc EXCEPT ![p] = h]
  BY DEF IInv, TypeOK
<1> HIDE DEF h
<1>4. proc'[p] = h /\ \A q \in Requests \ {p} : proc'[q] = proc[q]
  BY <1>3 DEF IInv, TypeOK
<1>5. db'[u] = n
  BY DEF IInv, TypeOK
<1>6. \A q \in Requests :
        proc[q] # None /\ proc[q].op # None /\ proc[q].pc \in Waiting /\ proc[q].user = u
          => proc[q].op.id \notin KnownIds(n)
  BY DEF IInv, HandlerInv
<1>7. HandlerInv(h, n, used')
  <2>1. HandlerInv(proc[p], db[u], used)
    BY DEF IInv
  <2>2. h.op # None => h.op.id \notin KnownIds(n)
    BY <1>2, <1>6
  <2> QED BY <2>1, <2>2, <1>1, <1>2 DEF HandlerInv
<1>8. TypeOK'
  <2>1. db' \in [Accounts -> DB] /\ used' \subseteq OpIds
    BY DEF IInv, TypeOK
  <2>2. h \in Handler \cup {None} /\ UNCHANGED <<files, members>>
    BY <1>2
  <2> QED BY <1>3, <2>1, <2>2, MoveType
<1>9. proc'[p] # None =>
        /\ HandlerInv(proc'[p], db'[proc'[p].user], used')
        /\ \A q \in Requests \ {p} : proc[q] # None => Apart(proc'[p], proc[q])
  BY <1>2, <1>4, <1>5, <1>7
<1> QED BY <1>4, <1>6, <1>8, <1>9, OneStep

(* The same when nothing is written. *)
LEMMA SkipInv ==
  ASSUME IInv, NEW p \in Requests, proc[p] # None, proc[p].pc \in Waiting,
         NEW pc \in {"seed", "sync"}, UNCHANGED <<db, files, members, used>>,
         proc' = [proc EXCEPT ![p].pc = pc, ![p].found = None]
  PROVE  IInv'
<1> DEFINE u == proc[p].user
<1>1. u \in Accounts /\ db[u] \in DB
  BY TypeFacts
<1>2. db' = [db EXCEPT ![u] = db[u]] /\ used' = used \cup {}
  BY DEF IInv, TypeOK
<1>3. AccountInv(db[u]) /\ IdsIn(db[u], used')
  BY <1>1 DEF IInv, IdsIn
<1>4. Advances(db[u], db[u])
  BY <1>1, DBFacts DEF Advances
<1>5. /\ {} \subseteq OpIds /\ {} \cap used = {} /\ u = proc[p].user
      /\ KnownIds(db[u]) \subseteq KnownIds(db[u]) \cup {}
  OBVIOUS
<1> HIDE DEF u
<1> QED BY <1>1, <1>2, <1>3, <1>4, <1>5, GotoInv

LEMMA MigrateTxFacts ==
  ASSUME IInv, NEW p \in Requests, MigrateTx(p), db' # db
  PROVE  LET u == proc[p].user
             n == Write(db[u], Book, Migrated(Rec(u)))
         IN  /\ proc[p] # None /\ proc[p].pc = "migrateTx" /\ u \in Accounts
             /\ db' = [db EXCEPT ![u] = n]
             /\ n \in DB /\ AccountInv(n) /\ IdsIn(n, used)
             /\ KnownIds(n) \subseteq KnownIds(db[u])
             /\ n.records[Book] = Migrated(Rec(u))
             /\ n.operations = db[u].operations /\ Advances(db[u], n)
             /\ Rec(u).revision > 0
             /\ Rec(u).candidates[1].value.inLibrary = Absent
             /\ Recorded(db[u], Rec(u).candidates[1].op) = {}
<1> DEFINE u == proc[p].user
           r == proc[p].found
<1>1. /\ proc[p] # None /\ proc[p].pc = "migrateTx" /\ r # None
      /\ Recorded(db[u], r.candidates[1].op) = {} /\ Rec(u).revision = r.revision
      /\ db' = [db EXCEPT ![u] = Write(@, Book, Migrated(r))]
  BY DEF MigrateTx
<1>2. u \in Accounts /\ db[u] \in DB
  BY <1>1, TypeFacts
<1>3. /\ HandlerInv(proc[p], db[u], used)
      /\ AccountInv(db[u]) /\ IdsIn(db[u], used)
  BY <1>1, <1>2 DEF IInv
<1>4. /\ r = Rec(u) /\ Len(Rec(u).candidates) = 1 /\ Rec(u).revision > 0
      /\ Rec(u).candidates[1].value.inLibrary = Absent
  BY <1>1, <1>3 DEF HandlerInv, Rec
<1>5. db' = [db EXCEPT ![u] = Write(db[u], Book, Migrated(Rec(u)))]
  BY <1>1, <1>2, <1>4 DEF IInv, TypeOK
<1>6. LET n == Write(db[u], Book, Migrated(db[u].records[Book]))
      IN  /\ n \in DB /\ AccountInv(n) /\ IdsIn(n, used)
          /\ n.records[Book] = Migrated(db[u].records[Book])
          /\ KnownIds(n) \subseteq KnownIds(db[u])
          /\ n.operations = db[u].operations /\ Advances(db[u], n)
  BY <1>1, <1>2, <1>3, <1>4, MigrationKeeps DEF Rec
<1> QED BY <1>1, <1>2, <1>4, <1>5, <1>6 DEF Rec

LEMMA MigrateTxInv ==
  ASSUME IInv, NEW p \in Requests, MigrateTx(p)
  PROVE  IInv'
<1>1. /\ proc[p] # None /\ proc[p].pc = "migrateTx"
      /\ proc' = [proc EXCEPT ![p].pc = "seed", ![p].found = None]
      /\ UNCHANGED <<files, members, used>>
  BY DEF MigrateTx, Goto
<1>2. "migrateTx" \in Waiting
  BY DEF Waiting
<1>3. CASE db' = db
  BY <1>1, <1>2, <1>3, SkipInv
<1>4. CASE db' # db
  <2> DEFINE u == proc[p].user
             n == Write(db[u], Book, Migrated(Rec(u)))
  <2>1. /\ u \in Accounts /\ db' = [db EXCEPT ![u] = n]
        /\ n \in DB /\ AccountInv(n) /\ IdsIn(n, used)
        /\ KnownIds(n) \subseteq KnownIds(db[u]) /\ Advances(db[u], n)
    BY <1>4, MigrateTxFacts
  <2>2. /\ used' = used \cup {} /\ {} \subseteq OpIds /\ {} \cap used = {}
        /\ IdsIn(n, used') /\ KnownIds(n) \subseteq KnownIds(db[u]) \cup {}
        /\ u = proc[p].user
    BY <1>1, <2>1
  <2> HIDE DEF u, n
  <2> QED BY <1>1, <1>2, <2>1, <2>2, GotoInv
<1> QED BY <1>3, <1>4

LEMMA SeedTxFacts ==
  ASSUME IInv, NEW p \in Requests, NEW id \in NewIds, SeedTx(p, id),
         proc[p].found # None, Shared(proc[p].user)
  PROVE  LET u == proc[p].user
             n == seedBook(db[u], id, Untitled, SharedMeta, None)
         IN  /\ u \in Accounts /\ db[u] \in DB /\ id \in OpIds /\ id \notin used
             /\ db' = [db EXCEPT ![u] = n] /\ used' = used \cup {id}
             /\ Seeded(db[u], n, used, id)
<1> DEFINE u == proc[p].user
           n == seedBook(db[u], id, Untitled, SharedMeta, None)
<1>1. proc[p] # None
  BY DEF SeedTx
<1>2. u \in Accounts /\ db[u] \in DB
  BY <1>1, TypeFacts
<1>3. db' = [db EXCEPT ![u] = n] /\ used' = used \cup {id}
  BY DEF SeedTx, IInv, TypeOK
<1>4. id \in LongIds /\ id \in OpIds /\ id \notin used
  BY NewIdFacts
<1>5. AccountInv(db[u]) /\ IdsIn(db[u], used)
  BY <1>2 DEF IInv
<1>6. SeedValue(Untitled, SharedMeta, None) \in Values
  BY SharedMetaType, SeedValueType
<1>7. n = seedBook(db[u], id, Untitled, SharedMeta, None) /\ u = proc[p].user
  OBVIOUS
<1> HIDE DEF n, u
<1>8. Seeded(db[u], n, used, id)
  BY <1>2, <1>4, <1>5, <1>6, <1>7, SeedKeeps
<1> QED BY <1>2, <1>3, <1>4, <1>8 DEF n, u

LEMMA SeedTxInv ==
  ASSUME IInv, NEW p \in Requests, NEW id \in NewIds, SeedTx(p, id)
  PROVE  IInv'
<1>1. /\ proc[p] # None /\ proc[p].pc = "seedTx"
      /\ proc' = [proc EXCEPT ![p].pc = "sync", ![p].found = None]
      /\ UNCHANGED <<files, members>>
  BY DEF SeedTx, Goto
<1>2. "seedTx" \in Waiting
  BY DEF Waiting
<1> DEFINE u == proc[p].user
           n == seedBook(db[u], id, Untitled, SharedMeta, None)
<1>3. CASE proc[p].found # None /\ Shared(u)
  <2>1. /\ u \in Accounts /\ db[u] \in DB /\ id \in OpIds /\ id \notin used
        /\ db' = [db EXCEPT ![u] = n] /\ used' = used \cup {id}
        /\ Seeded(db[u], n, used, id)
    BY <1>3, SeedTxFacts
  <2>2. u = proc[p].user
    OBVIOUS
  <2> HIDE DEF n, u
  <2>3. /\ n \in DB /\ AccountInv(n) /\ IdsIn(n, used') /\ Advances(db[u], n)
        /\ KnownIds(n) \subseteq KnownIds(db[u]) \cup {id}
    BY <2>1 DEF Seeded
  <2>4. {id} \subseteq OpIds /\ {id} \cap used = {}
    BY <2>1
  <2> QED BY <1>1, <1>2, <2>1, <2>2, <2>3, <2>4, GotoInv
<1>4. CASE ~(proc[p].found # None /\ Shared(u))
  BY <1>1, <1>2, <1>4, SkipInv DEF SeedTx
<1> QED BY <1>3, <1>4

(* A request begins, or an edit goes on to its next account: the handler   *)
(* of p carries a new id, or none.                                         *)
LEMMA CallInv ==
  ASSUME IInv, NEW p \in Requests, NEW u \in Accounts, NEW op \in Operation \cup {None},
         NEW todo \in SUBSET Members,
         proc' = [proc EXCEPT ![p] = Call(u, op, todo)],
         used \subseteq used', used' \subseteq OpIds,
         op = None => todo = {}, op # None => op.key = Book /\ op.id \in used' /\ op.id \notin used,
         UNCHANGED <<db, files, members>>
  PROVE  IInv'
<1> DEFINE h == Call(u, op, todo)
<1>1. /\ h \in Handler /\ h.pc = "migrate" /\ h.user = u /\ h.op = op
      /\ h.found = None /\ h.todo = todo
  BY DEF Call, Handler
<1>2. proc' = [proc EXCEPT ![p] = h] /\ db' = db /\ used' = used \cup used'
  OBVIOUS
<1> HIDE DEF h
<1>3. TypeOK'
  <2>1. db' \in [Accounts -> DB] /\ used' \subseteq OpIds
    BY DEF IInv, TypeOK
  <2>2. h \in Handler \cup {None} /\ UNCHANGED <<files, members>>
    BY <1>1
  <2> QED BY <1>2, <2>1, <2>2, MoveType
<1>4. op # None => op.id \notin KnownIds(db[u])
  BY DEF IInv, IdsIn
<1>5. HandlerInv(h, db[u], used')
  BY <1>1, <1>4 DEF HandlerInv
<1>6. \A q \in Requests \ {p} : proc[q] # None => Apart(h, proc[q])
  BY <1>1 DEF IInv, HandlerInv, Apart
<1> QED BY <1>1, <1>2, <1>3, <1>5, <1>6, MoveStep

LEMMA PullInv ==
  ASSUME IInv, NEW p \in Requests, NEW u \in Accounts, Pull(p, u)
  PROVE  IInv'
<1>1. /\ proc' = [proc EXCEPT ![p] = Call(u, None, {})]
      /\ used' = used /\ UNCHANGED <<db, files, members>>
  BY DEF Pull
<1>2. None \in Operation \cup {None} /\ {} \in SUBSET Members
  OBVIOUS
<1>3. used \subseteq used' /\ used' \subseteq OpIds
  BY <1>1 DEF IInv, TypeOK
<1> QED BY <1>1, <1>2, <1>3, CallInv

LEMMA SubmitInv ==
  ASSUME IInv, NEW p \in Requests, NEW u \in Accounts, NEW e \in Edits,
         NEW base \in 0 .. Rec(u).revision, Submit(p, u, e, base)
  PROVE  IInv'
<1> DEFINE op == [id |-> e.id, key |-> Book, base |-> base,
                  deleted |-> e.deleted, value |-> e.value]
<1>1. /\ proc' = [proc EXCEPT ![p] = Call(u, op, {})]
      /\ used' = used \cup {e.id} /\ UNCHANGED <<db, files, members>> /\ e.id \notin used
  BY DEF Submit
<1>2. Rec(u).revision \in Nat
  BY TypeFacts, DBFacts DEF Rec
<1>3. op \in Operation /\ op.key = Book /\ op.id = e.id /\ e.id \in OpIds
  BY <1>2, LibraryAssumption, BookIsKey DEF Operation
<1> HIDE DEF op
<1>4. op # None /\ op \in Operation \cup {None} /\ {} \in SUBSET Members
  BY <1>3, LibraryAssumption
<1>5. /\ used \subseteq used' /\ used' \subseteq OpIds
      /\ op.id \in used' /\ op.id \notin used
  BY <1>1, <1>3 DEF IInv, TypeOK
<1> QED BY <1>1, <1>3, <1>4, <1>5, CallInv

LEMMA AdminEditInv ==
  ASSUME IInv, NEW p \in Requests, NEW id \in NewIds, NEW value \in AdminValues,
         AdminEdit(p, id, value)
  PROVE  IInv'
<1> DEFINE op == [id |-> id, key |-> Book, base |-> Rec(Owner).revision,
                  deleted |-> FALSE, value |-> value]
<1>1. /\ proc' = [proc EXCEPT ![p] = Call(Owner, op, Members)]
      /\ used' = used \cup {id} /\ UNCHANGED <<db, files, members>>
  BY DEF AdminEdit
<1>2. Owner \in Accounts /\ id \in OpIds /\ id \notin used
  BY NewIdFacts DEF Accounts
<1>3. Rec(Owner).revision \in Nat
  BY <1>2, TypeFacts, DBFacts DEF Rec
<1>4. op \in Operation /\ op.key = Book /\ op.id = id
  BY <1>2, <1>3, LibraryAssumption, BookIsKey DEF Operation
<1> HIDE DEF op
<1>5. op # None /\ op \in Operation \cup {None} /\ Members \in SUBSET Members
  BY <1>4, LibraryAssumption
<1>6. /\ used \subseteq used' /\ used' \subseteq OpIds
      /\ op.id \in used' /\ op.id \notin used
  BY <1>1, <1>2, <1>4 DEF IInv, TypeOK
<1> QED BY <1>1, <1>2, <1>4, <1>5, <1>6, CallInv

LEMMA AdminNextInv ==
  ASSUME IInv, NEW p \in Requests, NEW u \in Members, NEW id \in NewIds,
         AdminNext(p, u, id)
  PROVE  IInv'
<1> DEFINE op == [proc[p].op EXCEPT !.id = id, !.base = Rec(u).revision,
                                    !.value.inLibrary = Absent]
           todo == proc[p].todo \ {u}
<1>1. /\ proc' = [proc EXCEPT ![p] = Call(u, op, todo)]
      /\ used' = used \cup {id} /\ UNCHANGED <<db, files, members>>
      /\ proc[p] # None /\ u \in proc[p].todo
  BY DEF AdminNext
<1>2. u \in Accounts /\ id \in OpIds /\ id \notin used
  BY NewIdFacts DEF Accounts
<1>3. Rec(u).revision \in Nat
  BY <1>2, TypeFacts, DBFacts DEF Rec
<1>4. HandlerInv(proc[p], db[proc[p].user], used)
  BY <1>1 DEF IInv
<1>5. proc[p].op \in Operation /\ proc[p].op.key = Book /\ todo \in SUBSET Members
  BY <1>1, <1>4, TypeFacts DEF HandlerInv
<1>6. [proc[p].op.value EXCEPT !.inLibrary = Absent] \in Values
  BY <1>5 DEF Operation, Values
<1>7. op \in Operation /\ op.key = Book /\ op.id = id
  BY <1>2, <1>3, <1>5, <1>6 DEF Operation
<1> HIDE DEF op, todo
<1>8. op # None /\ op \in Operation \cup {None}
  BY <1>7, LibraryAssumption
<1>9. /\ used \subseteq used' /\ used' \subseteq OpIds
      /\ op.id \in used' /\ op.id \notin used
  BY <1>1, <1>2, <1>7 DEF IInv, TypeOK
<1> QED BY <1>1, <1>2, <1>5, <1>7, <1>8, <1>9, CallInv

(* The handler of p has left Store.Sync, as h. *)
HasLeft(p, h) ==
  /\ h \in Handler /\ h.user = proc[p].user /\ h.user \in Accounts
  /\ \A d, ids : HandlerInv(proc[p], d, ids) => HandlerInv(h, d, ids)
  /\ \A q \in Requests \ {p} : proc[q] # None => Apart(h, proc[q])
  /\ h.pc \notin Waiting /\ h.op = proc[p].op /\ h.found = proc[p].found

(* A handler ends, or goes on outside Store.Sync. *)
LEMMA LeaveFacts ==
  ASSUME IInv, NEW p \in Requests, proc[p] # None,
         NEW todo \in SUBSET Members, NEW pc \in {"members", "next"},
         proc[p].op = None => todo = {} /\ pc # "members",
         NEW h, h = [proc[p] EXCEPT !.pc = pc, !.todo = todo]
  PROVE  HasLeft(p, h)
<1>1. proc[p] \in Handler
  BY DEF IInv, TypeOK
<1>2. /\ h \in Handler /\ h.user \in Accounts /\ h.pc = pc /\ h.op = proc[p].op
      /\ h.todo = todo /\ h.user = proc[p].user /\ h.found = proc[p].found
  BY <1>1 DEF Handler
<1>3. h.pc \notin Waiting /\ h.pc # "migrateTx"
  BY <1>2 DEF Waiting
<1>4. \A d, ids : HandlerInv(proc[p], d, ids) => HandlerInv(h, d, ids)
  BY <1>2, <1>3 DEF HandlerInv
<1>5. \A q \in Requests \ {p} : proc[q] # None => Apart(h, proc[q])
  BY <1>3 DEF Apart
<1> QED BY <1>2, <1>3, <1>4, <1>5 DEF HasLeft

LEMMA StopInv ==
  ASSUME IInv, NEW p \in Requests, proc' = [proc EXCEPT ![p] = None],
         UNCHANGED <<db, files, members, used>>
  PROVE  IInv'
<1>1. TypeOK'
  BY DEF IInv, TypeOK
<1>2. used' = used \cup {} /\ db' = db
  OBVIOUS
<1> QED BY <1>1, <1>2, MoveStep

(* The handler of p leaves without a write. *)
LEMMA LeaveInv ==
  ASSUME IInv, NEW p \in Requests, proc[p] # None,
         NEW todo \in SUBSET Members, NEW pc \in {"members", "next"},
         proc[p].op = None => todo = {} /\ pc # "members",
         proc' = [proc EXCEPT ![p] = [proc[p] EXCEPT !.pc = pc, !.todo = todo]],
         UNCHANGED <<db, files, members, used>>
  PROVE  IInv'
<1> DEFINE h == [proc[p] EXCEPT !.pc = pc, !.todo = todo]
<1>1. HasLeft(p, h)
  BY LeaveFacts
<1>2. /\ h \in Handler /\ h.user = proc[p].user /\ h.user \in Accounts
      /\ \A d, ids : HandlerInv(proc[p], d, ids) => HandlerInv(h, d, ids)
      /\ \A q \in Requests \ {p} : proc[q] # None => Apart(h, proc[q])
  BY <1>1 DEF HasLeft
<1>3. proc' = [proc EXCEPT ![p] = h] /\ used' = used \cup {} /\ db' = db
  OBVIOUS
<1> HIDE DEF h
<1>4. HandlerInv(h, db[h.user], used')
  BY <1>2, <1>3 DEF IInv
<1>5. TypeOK'
  <2>1. db' \in [Accounts -> DB] /\ used' \subseteq OpIds
    BY DEF IInv, TypeOK
  <2>2. h \in Handler \cup {None} /\ UNCHANGED <<files, members>>
    BY <1>2
  <2> QED BY <1>3, <2>1, <2>2, MoveType
<1> QED BY <1>2, <1>3, <1>4, <1>5, MoveStep

LEMMA AdminMembersInv ==
  ASSUME IInv, NEW p \in Requests, AdminMembers(p)
  PROVE  IInv'
<1>1. proc[p] # None /\ proc[p].pc = "members" /\ UNCHANGED <<db, files, members, used>>
  BY DEF AdminMembers
<1>2. CASE members = {}
  BY <1>1, <1>2, StopInv DEF AdminMembers
<1>3. CASE members # {}
  <2>1. proc' = [proc EXCEPT ![p] = [proc[p] EXCEPT !.pc = "next", !.todo = members]]
    <3>1. proc' = [proc EXCEPT ![p] = [@ EXCEPT !.todo = members, !.pc = "next"]]
      BY <1>3 DEF AdminMembers
    <3>2. proc[p] \in Handler
      BY <1>1 DEF IInv, TypeOK
    <3>3. [proc[p] EXCEPT !.todo = members, !.pc = "next"]
            = [proc[p] EXCEPT !.pc = "next", !.todo = members]
      BY <3>2 DEF Handler
    <3> QED BY <3>1, <3>3 DEF IInv, TypeOK
  <2>2. members \in SUBSET Members /\ "next" \in {"members", "next"} /\ "next" # "members"
    BY DEF IInv, TypeOK
  <2>3. proc[p].op # None
    BY <1>1 DEF IInv, HandlerInv
  <2> QED BY <1>1, <2>1, <2>2, <2>3, LeaveInv
<1> QED BY <1>2, <1>3

(* The transaction of Store.Sync: what it writes, if it writes. *)
LEMMA SyncTxFacts ==
  ASSUME IInv, NEW p \in Requests, SyncTx(p), db' # db
  PROVE  LET u == proc[p].user
             op == proc[p].op
             n == Applied(db[u], op)
         IN  /\ u \in Accounts /\ op # None
             /\ db' = [db EXCEPT ![u] = n]
             /\ n \in DB /\ AccountInv(n) /\ IdsIn(n, used) /\ Advances(db[u], n)
             /\ KnownIds(n) \subseteq KnownIds(db[u]) \cup {op.id}
             /\ Len(n.records[Book].candidates) = 1
                  => n.records[Book].candidates[1].op = op.id
             /\ op.id \notin KnownIds(db[u])
             /\ n.operations # db[u].operations
<1> DEFINE u == proc[p].user
           op == proc[p].op
           n == Applied(db[u], op)
<1>1. /\ proc[p] # None /\ proc[p].pc = "sync" /\ op # None /\ ~Refused(db[u], op)
      /\ db' = [db EXCEPT ![u] = n]
  BY DEF SyncTx
<1>2. u \in Accounts /\ db[u] \in DB /\ op \in Operation
  BY <1>1, TypeFacts
<1>3. ~Replayed(db[u], op)
  <2>1. SUFFICES ASSUME Replayed(db[u], op) PROVE FALSE
    OBVIOUS
  <2>2. n = db[u]
    BY <2>1 DEF Applied
  <2> QED BY <1>1, <2>2 DEF IInv, TypeOK
<1>4. AccountInv(db[u]) /\ IdsIn(db[u], used) /\ HandlerInv(proc[p], db[u], used)
  BY <1>1, <1>2 DEF IInv
<1>5. op.key = Book /\ op.id \in used /\ op.id \notin KnownIds(db[u])
  BY <1>1, <1>4 DEF HandlerInv, Waiting
<1>6. LET m == Applied(db[u], op)
      IN  /\ m \in DB /\ AccountInv(m) /\ IdsIn(m, used) /\ Advances(db[u], m)
          /\ KnownIds(m) \subseteq KnownIds(db[u]) \cup {op.id}
          /\ Len(m.records[Book].candidates) = 1
               => m.records[Book].candidates[1].op = op.id
          /\ m.operations # db[u].operations
  BY <1>1, <1>2, <1>3, <1>4, <1>5, EditKeeps
<1> QED BY <1>1, <1>2, <1>5, <1>6

LEMMA SyncTxInv ==
  ASSUME IInv, NEW p \in Requests, SyncTx(p)
  PROVE  IInv'
<1> DEFINE u == proc[p].user
           op == proc[p].op
           n == Applied(db[u], op)
           next == IF u = Owner THEN "members" ELSE "next"
           h == [proc[p] EXCEPT !.pc = next, !.todo = proc[p].todo]
<1>1. proc[p] # None /\ proc[p].pc = "sync" /\ UNCHANGED <<files, members, used>>
  BY DEF SyncTx
<1>2. proc[p] \in Handler
  BY <1>1 DEF IInv, TypeOK
<1>3. [proc[p] EXCEPT !.pc = next] = h
  BY <1>2 DEF Handler
<1>4. HandlerInv(proc[p], db[u], used)
  BY <1>1 DEF IInv
<1>5. \/ proc' = [proc EXCEPT ![p] = None]
      \/ /\ proc[p].todo # {} /\ proc' = [proc EXCEPT ![p] = h]
  BY <1>1, <1>3 DEF SyncTx, IInv, TypeOK
<1>6. /\ proc[p].todo \in SUBSET Members /\ next \in {"members", "next"}
  BY <1>2 DEF Handler
<1>7. CASE db' = db
  <2>1. CASE proc' = [proc EXCEPT ![p] = None]
    BY <1>1, <1>7, <2>1, StopInv
  <2>2. CASE proc[p].todo # {} /\ proc' = [proc EXCEPT ![p] = h]
    <3>1. proc[p].op # None
      BY <2>2, <1>4 DEF HandlerInv
    <3> HIDE DEF next
    <3> QED BY <1>1, <1>6, <1>7, <2>2, <3>1, LeaveInv
  <2> QED BY <1>5, <2>1, <2>2
<1>8. CASE db' # db
  <2>1. /\ u \in Accounts /\ op # None
        /\ db' = [db EXCEPT ![u] = n]
        /\ n \in DB /\ AccountInv(n) /\ IdsIn(n, used) /\ Advances(db[u], n)
        /\ KnownIds(n) \subseteq KnownIds(db[u]) \cup {op.id}
    BY <1>8, SyncTxFacts
  <2>2. /\ h \in Handler /\ h.user = proc[p].user /\ h.user \in Accounts
        /\ \A d, ids : HandlerInv(proc[p], d, ids) => HandlerInv(h, d, ids)
        /\ \A q \in Requests \ {p} : proc[q] # None => Apart(h, proc[q])
        /\ h.pc \notin Waiting /\ h.op = proc[p].op /\ h.found = proc[p].found
    <3>1. h = [proc[p] EXCEPT !.pc = next, !.todo = proc[p].todo]
      OBVIOUS
    <3> HIDE DEF next, h
    <3>2. HasLeft(p, h)
      BY <1>1, <1>6, <2>1, <3>1, LeaveFacts
    <3> QED BY <3>2 DEF HasLeft
  <2>3. h.user = u
    BY <2>2
  <2> HIDE DEF h, n, next
  <2>4. /\ \A q \in Requests \ {p} : proc'[q] = proc[q]
        /\ proc'[p] # None => proc'[p] = h
    BY <1>5 DEF IInv, TypeOK
  <2>5. \A q \in Requests \ {p} :
          proc[q] # None /\ proc[q].op # None /\ proc[q].pc \in Waiting /\ proc[q].user = u
            => proc[q].op.id \notin KnownIds(n)
    <3> SUFFICES ASSUME NEW q \in Requests \ {p}, proc[q] # None, proc[q].op # None,
                        proc[q].pc \in Waiting, proc[q].user = u
                 PROVE  proc[q].op.id \notin KnownIds(n)
      OBVIOUS
    <3>1. proc[q].op.id \notin KnownIds(db[u])
      BY DEF IInv, HandlerInv
    <3>2. Apart(proc[p], proc[q])
      BY <1>1 DEF IInv
    <3>3. op.id # proc[q].op.id
      BY <3>2, <1>1, <2>1 DEF Apart, Waiting
    <3> QED BY <3>1, <3>3, <2>1
  <2>6. HandlerInv(h, n, used)
    <3>1. HandlerInv(h, db[u], used)
      BY <1>4, <2>2
    <3>2. (h.found # None => h.found \in Record) /\ db[u] \in DB /\ used \subseteq used
      BY <1>1, <2>1, <2>2, TypeFacts
    <3> QED BY <2>1, <2>2, <3>1, <3>2, HandlerStays
  <2>7. TypeOK'
    <3>1. db' \in [Accounts -> DB] /\ used' \subseteq OpIds
      BY <1>1, <2>1 DEF IInv, TypeOK
    <3>2. UNCHANGED <<files, members>> /\ h \in Handler \cup {None} /\ None \in Handler \cup {None}
      BY <1>1, <2>2
    <3> QED BY <1>5, <3>1, <3>2, MoveType
  <2>8. db'[u] = n /\ used' = used \cup {} /\ IdsIn(n, used')
    BY <1>1, <2>1 DEF IInv, TypeOK
  <2>9. proc'[p] # None =>
          /\ HandlerInv(proc'[p], db'[proc'[p].user], used')
          /\ \A q \in Requests \ {p} : proc[q] # None => Apart(proc'[p], proc[q])
    BY <1>1, <2>2, <2>3, <2>4, <2>6, <2>8
  <2> HIDE DEF u, op
  <2> QED BY <2>1, <2>4, <2>5, <2>7, <2>8, <2>9, OneStep
<1> QED BY <1>7, <1>8

-----------------------------------------------------------------------------
(* The invariant                                                           *)

LEMMA EmptyAccount ==
  /\ EmptyDB \in DB /\ AccountInv(EmptyDB)
  /\ EmptyDB.records[Book] = EmptyRecord /\ KnownIds(EmptyDB) = {}
  /\ EmptyDB.operations = {}
<1>1. /\ EmptyDB.cursor = 0 /\ EmptyDB.changes = <<>> /\ EmptyDB.operations = {}
      /\ \A k \in Keys : EmptyDB.records[k] = EmptyRecord
  BY DEF EmptyDB
<1>2. EmptyRecord.revision = 0 /\ EmptyRecord.candidates = <<>> /\ EmptyRecord \in Record
  BY DEF EmptyRecord, Record
<1>3. EmptyDB \in DB
  BY <1>2 DEF EmptyDB, DB
<1> HIDE DEF EmptyDB, EmptyRecord
<1>4. LogMatchesRecords(EmptyDB)
  BY <1>1, <1>2 DEF LogMatchesRecords, CursorsContiguous, NewestChangeIsRecord, RevisionsIncrease
<1>5. Capacity(EmptyDB)
  BY <1>1, <1>2, StoreAssumption DEF Capacity
<1>6. AnswersWithinRecords(EmptyDB) /\ FromEdits(EmptyDB) /\ EditsSurvive(EmptyDB)
  BY <1>1 DEF AnswersWithinRecords, FromEdits, EditsSurvive
<1>7. EmptyDB.records[Book] = EmptyRecord
  BY <1>1, BookIsKey
<1>8. KnownIds(EmptyDB) = {}
  <2>1. CandidateIds(EmptyDB) = {}
    BY <1>2, <1>7 DEF CandidateIds
  <2>2. WrittenIds(EmptyDB) = {}
    BY <1>1 DEF WrittenIds
  <2> QED BY <2>1, <2>2 DEF KnownIds
<1>9. OneEffect(EmptyDB)
  BY <1>1 DEF OneEffect
<1> QED BY <1>1, <1>2, <1>3, <1>4, <1>5, <1>6, <1>7, <1>8, <1>9 DEF AccountInv

LEMMA InitInv ==
  ASSUME Init PROVE IInv
<1>1. PICK seeds \in [Members -> LegacySeeds \cup {None}] :
        LET legacy(u) == u # Owner /\ seeds[u] # None
            old(u) == [revision |-> 1, candidates |-> <<seeds[u]>>]
        IN  /\ db = [u \in Accounts |-> IF legacy(u) THEN Write(EmptyDB, Book, old(u))
                                        ELSE EmptyDB]
            /\ used = {seeds[u].op : u \in {m \in Members : seeds[m] # None}}
  BY DEF Init
<1>2. files = {} /\ members = {} /\ proc = [p \in Requests |-> None]
  BY DEF Init
<1>3. \A m \in Members : seeds[m] # None => seeds[m] \in Candidate /\ seeds[m].op \in used
  BY <1>1, LibraryAssumption
<1>4. used \subseteq OpIds
  BY <1>1, <1>3 DEF Candidate
<1>5. \A u \in Accounts : db[u] \in DB /\ AccountInv(db[u]) /\ IdsIn(db[u], used)
  <2> SUFFICES ASSUME NEW u \in Accounts
               PROVE  db[u] \in DB /\ AccountInv(db[u]) /\ IdsIn(db[u], used)
    OBVIOUS
  <2>1. IdsIn(EmptyDB, used)
    BY EmptyAccount DEF IdsIn
  <2>2. CASE u # Owner /\ seeds[u] # None
    <3> DEFINE c == seeds[u]
    <3>1. db[u] = Write(EmptyDB, Book, [revision |-> 1, candidates |-> <<c>>])
      BY <1>1, <2>2
    <3>2. c \in Candidate /\ c.op \in used
      BY <1>3, <2>2 DEF Accounts
    <3> HIDE DEF c
    <3>3. /\ c.op \in used \cup {}
          /\ \A e \in EmptyDB.operations : e.op.id # c.op
          /\ \A e \in EmptyDB.operations :
               ~LooksLikeSeed(e.op) /\ Present(EmptyDB, e) => Resolved(EmptyDB, e)
      BY <3>2, EmptyAccount
    <3>4. LET r == [revision |-> EmptyDB.records[Book].revision + 1, candidates |-> <<c>>]
              n == Write(EmptyDB, Book, r)
          IN  n \in DB /\ AccountInv(n) /\ IdsIn(n, used \cup {})
      BY <2>1, <3>2, <3>3, EmptyAccount, SoleWritten
    <3>5. EmptyDB.records[Book].revision + 1 = 1 /\ used \cup {} = used
      BY EmptyAccount DEF EmptyRecord
    <3> QED BY <3>1, <3>4, <3>5
  <2>3. CASE u = Owner \/ seeds[u] = None
    <3>1. db[u] = EmptyDB
      BY <1>1, <2>3
    <3> QED BY <2>1, <3>1, EmptyAccount
  <2> QED BY <2>2, <2>3
<1>6. db \in [Accounts -> DB]
  BY <1>1, <1>5
<1>7. TypeOK
  BY <1>2, <1>4, <1>6 DEF TypeOK
<1> QED BY <1>2, <1>5, <1>7 DEF IInv

LEMMA NextInv ==
  ASSUME IInv, [Next]_vars PROVE IInv'
<1>1. ASSUME NEW id \in NewIds,
             \/ \E folder \in ScanFolders : Scan(folder, id)
             \/ \E p \in Requests : SeedTx(p, id)
             \/ \E p \in Requests, v \in AdminValues : AdminEdit(p, id, v)
             \/ \E p \in Requests, u \in Members : AdminNext(p, u, id)
      PROVE  IInv'
  BY <1>1, ScanInv, SeedTxInv, AdminEditInv, AdminNextInv
<1>2. ASSUME \/ \E u \in Accounts : Gone(u)
             \/ \E u \in Members : Upload(u) \/ Join(u) \/ Leave(u)
      PROVE  IInv'
  <2>1. UNCHANGED <<db, used, proc>> /\ files' \subseteq Accounts /\ members' \subseteq Members
    BY <1>2 DEF IInv, TypeOK, Gone, Upload, Join, Leave, Accounts
  <2> QED BY <2>1, SharingInv
<1>3. ASSUME NEW p \in Requests,
             \/ \E u \in Accounts : Pull(p, u)
             \/ \E u \in Accounts, e \in Edits : \E base \in 0 .. Rec(u).revision :
                  Submit(p, u, e, base)
             \/ MigrateQuery(p) \/ MigrateTx(p) \/ SeedQuery(p) \/ SyncTx(p)
             \/ AdminMembers(p) \/ Stop(p)
      PROVE  IInv'
  <2>1. CASE \E u \in Accounts : Pull(p, u)
    BY <2>1, PullInv
  <2>2. CASE \E u \in Accounts, e \in Edits : \E base \in 0 .. Rec(u).revision :
               Submit(p, u, e, base)
    BY <2>2, SubmitInv
  <2>3. CASE MigrateQuery(p) \/ SeedQuery(p)
    BY <2>3, QueryInv
  <2>4. CASE MigrateTx(p) \/ SyncTx(p) \/ AdminMembers(p)
    BY <2>4, MigrateTxInv, SyncTxInv, AdminMembersInv
  <2>5. CASE Stop(p)
    BY <2>5, StopInv DEF Stop
  <2> QED BY <1>3, <2>1, <2>2, <2>3, <2>4, <2>5
<1>4. ASSUME UNCHANGED vars PROVE IInv'
  BY <1>4 DEF vars, IInv, TypeOK, IdsIn, HandlerInv
<1> QED BY <1>1, <1>2, <1>3, <1>4 DEF Next

(* Types, consistent tables, and what handlers rely on hold in every       *)
(* reachable state of Store.Sync, scans and metadata edits together.       *)
THEOREM LibraryInvariant == Spec => []IInv
<1>1. Init => IInv
  BY InitInv
<1>2. IInv /\ [Next]_vars => IInv'
  BY NextInv
<1> QED BY <1>1, <1>2, PTL DEF Spec

(* Seeds, migrations and edits write one account's tables by different     *)
(* code: whoever writes, the change log agrees with the records, no record *)
(* has more candidates than the limit, and the id of an accepted operation *)
(* has made one change.  No migration writes under it, for                 *)
(* migrateSharedMembership looks it up, and no operation is accepted under *)
(* the id of a seed.                                                       *)
THEOREM TablesStayConsistent == Spec => []StoresConsistent
<1>1. IInv => StoresConsistent
  BY DEF IInv, AccountInv, StoresConsistent
<1> QED BY <1>1, LibraryInvariant, PTL

(* sharedSeeds, migrateSharedMembership and seedBook never replace what a  *)
(* person wrote, unless it has the form of a seed.                         *)
THEOREM SeedsReplaceNoEdit == Spec => []EditsSurviveSeeds
<1>1. IInv => EditsSurviveSeeds
  BY DEF IInv, AccountInv, EditsSurvive, EditsSurviveSeeds
<1> QED BY <1>1, LibraryInvariant, PTL

-----------------------------------------------------------------------------
(* What a step may never do                                                *)

(* A step that changes a member's tables is a seed, a migration or an      *)
(* operation, and of that member's handler.                                *)
LEMMA MemberWritten ==
  ASSUME IInv, Next, NEW u \in Members, db'[u] # db[u]
  PROVE  \E p \in Requests :
           /\ u = proc[p].user
           /\ \/ \E id \in NewIds : SeedTx(p, id) /\ proc[p].found # None /\ Shared(u)
              \/ MigrateTx(p)
              \/ SyncTx(p)
<1>1. u \in Accounts /\ u # Owner /\ db' # db
  BY LibraryAssumption DEF Accounts
<1>2. \A id, folder : ~Scan(folder, id)
  BY <1>1 DEF Scan, IInv, TypeOK
<1>3. \A id, p, v : ~AdminEdit(p, id, v)
  BY <1>1 DEF AdminEdit
<1>4. \A id, p, v : ~AdminNext(p, v, id)
  BY <1>1 DEF AdminNext
<1>5. \A v : ~Gone(v) /\ ~Upload(v) /\ ~Join(v) /\ ~Leave(v)
  BY <1>1 DEF Gone, Upload, Join, Leave
<1>6. \A p, v, e, base : ~Pull(p, v) /\ ~Submit(p, v, e, base)
  BY <1>1 DEF Pull, Submit
<1>7. \A p : ~MigrateQuery(p) /\ ~SeedQuery(p) /\ ~AdminMembers(p) /\ ~Stop(p)
  BY <1>1 DEF MigrateQuery, SeedQuery, AdminMembers, Stop
<1>8. PICK p \in Requests : (\E id \in NewIds : SeedTx(p, id)) \/ MigrateTx(p) \/ SyncTx(p)
  BY <1>2, <1>3, <1>4, <1>5, <1>6, <1>7 DEF Next
<1>9. CASE \E id \in NewIds : SeedTx(p, id)
  BY <1>1, <1>9 DEF SeedTx, IInv, TypeOK
<1>10. CASE MigrateTx(p)
  BY <1>1, <1>10 DEF MigrateTx, IInv, TypeOK
<1>11. CASE SyncTx(p)
  BY <1>1, <1>11 DEF SyncTx, IInv, TypeOK
<1> QED BY <1>8, <1>9, <1>10, <1>11

(* The id of a sole candidate is among the candidates' ids. *)
LEMMA SoleId ==
  ASSUME NEW d, Len(d.records[Book].candidates) = 1
  PROVE  d.records[Book].candidates[1].op \in CandidateIds(d)
BY DEF CandidateIds

(* Membership and availability may end while a book's metadata is decoded: *)
(* sharedSeeds writes a first record only for an account that still has    *)
(* the book through the library.                                           *)
THEOREM SeedsNeedAvailability == Spec => SeedsOnlyAvailable
<1> DEFINE Earned(u) ==
      /\ Rec(u).revision = 0 /\ db'[u].records[Book].revision > 0
      /\ db'[u].operations = db[u].operations
      => Shared(u)
<1>1. ASSUME IInv, [Next]_vars PROVE [\A u \in Members : Earned(u)]_db
  <2> SUFFICES ASSUME NEW u \in Members, Rec(u).revision = 0,
                      db'[u].records[Book].revision > 0,
                      db'[u].operations = db[u].operations, db' # db
               PROVE  Shared(u)
    OBVIOUS
  <2>1. db'[u] # db[u] /\ u \in Accounts
    BY DEF Rec, Accounts
  <2>2. Next
    BY <1>1 DEF vars
  <2>3. PICK p \in Requests :
          /\ u = proc[p].user
          /\ \/ \E id \in NewIds : SeedTx(p, id) /\ proc[p].found # None /\ Shared(u)
             \/ MigrateTx(p)
             \/ SyncTx(p)
    BY <1>1, <2>1, <2>2, MemberWritten
  <2>4. ~MigrateTx(p)
    BY <1>1, <2>3, <2>1, MigrateTxFacts
  <2>5. ASSUME SyncTx(p) PROVE FALSE
    <3> DEFINE n == Applied(db[u], proc[p].op)
    <3>1. db' = [db EXCEPT ![u] = n] /\ n.operations # db[u].operations
      BY <1>1, <2>3, <2>5, SyncTxFacts
    <3> HIDE DEF n
    <3>2. db'[u] = n
      BY <1>1, <2>1, <3>1 DEF IInv, TypeOK
    <3> QED BY <3>1, <3>2
  <2> QED BY <2>3, <2>4, <2>5
<1> QED BY <1>1, LibraryInvariant, PTL DEF Spec, SeedsOnlyAvailable

(* migrateSharedMembership decides on a record it read before its          *)
(* transaction: what it writes is the record as it stands, a seed that no  *)
(* accepted operation has, with the membership field and nothing else      *)
(* changed.  No other writer gives a record a sole candidate with the id   *)
(* of the one before.                                                      *)
THEOREM MigrationsKeepContent == Spec => MigrationKeepsContent
<1> DEFINE Same(u) ==
      LET old == Rec(u)
          new == db'[u].records[Book]
      IN  /\ new # old /\ Len(new.candidates) = 1
          /\ Sole(old) /\ new.candidates[1].op = old.candidates[1].op
          => /\ old.candidates[1].value.inLibrary = Absent
             /\ Recorded(db[u], old.candidates[1].op) = {}
             /\ new.candidates[1].value
                  = [old.candidates[1].value EXCEPT !.inLibrary = FALSE]
<1>1. ASSUME IInv, [Next]_vars PROVE [\A u \in Members : Same(u)]_db
  <2> SUFFICES ASSUME NEW u \in Members, db'[u].records[Book] # Rec(u),
                      Len(db'[u].records[Book].candidates) = 1, Sole(Rec(u)),
                      db'[u].records[Book].candidates[1].op = Rec(u).candidates[1].op,
                      db' # db
               PROVE  /\ Rec(u).candidates[1].value.inLibrary = Absent
                      /\ Recorded(db[u], Rec(u).candidates[1].op) = {}
                      /\ db'[u].records[Book].candidates[1].value
                           = [Rec(u).candidates[1].value EXCEPT !.inLibrary = FALSE]
    OBVIOUS
  <2>1. db'[u] # db[u] /\ u \in Accounts
    BY DEF Rec, Accounts
  <2>2. Next
    BY <1>1 DEF vars
  <2>3. PICK p \in Requests :
          /\ u = proc[p].user
          /\ \/ \E id \in NewIds : SeedTx(p, id) /\ proc[p].found # None /\ Shared(u)
             \/ MigrateTx(p)
             \/ SyncTx(p)
    BY <1>1, <2>1, <2>2, MemberWritten
  <2>4. /\ Rec(u).candidates[1].op \in CandidateIds(db[u])
        /\ db'[u].records[Book].candidates[1].op \in CandidateIds(db'[u])
    BY SoleId DEF Sole, Rec
  <2>5. CandidateIds(db[u]) \subseteq used
    BY <1>1, <2>1 DEF IInv, IdsIn, KnownIds
  <2>6. ASSUME NEW id \in NewIds, SeedTx(p, id), proc[p].found # None, Shared(u) PROVE FALSE
    <3> DEFINE n == seedBook(db[u], id, Untitled, SharedMeta, None)
    <3>1. id \notin used /\ db' = [db EXCEPT ![u] = n] /\ Seeded(db[u], n, used, id)
      BY <1>1, <2>3, <2>6, SeedTxFacts
    <3> HIDE DEF n
    <3>2. db'[u] = n
      BY <1>1, <2>1, <3>1 DEF IInv, TypeOK
    <3> QED BY <2>1, <2>4, <2>5, <3>1, <3>2 DEF Seeded
  <2>7. ASSUME SyncTx(p) PROVE FALSE
    <3> DEFINE n == Applied(db[u], proc[p].op)
    <3>1. /\ db' = [db EXCEPT ![u] = n]
          /\ Len(n.records[Book].candidates) = 1
               => n.records[Book].candidates[1].op = proc[p].op.id
          /\ proc[p].op.id \notin CandidateIds(db[u])
      BY <1>1, <2>3, <2>7, SyncTxFacts DEF KnownIds
    <3> HIDE DEF n
    <3>2. db'[u] = n
      BY <1>1, <2>1, <3>1 DEF IInv, TypeOK
    <3> QED BY <2>4, <3>1, <3>2
  <2>8. CASE MigrateTx(p)
    <3> DEFINE n == Write(db[u], Book, Migrated(Rec(u)))
    <3>1. /\ db' = [db EXCEPT ![u] = n] /\ n.records[Book] = Migrated(Rec(u))
          /\ Rec(u).candidates[1].value.inLibrary = Absent
          /\ Recorded(db[u], Rec(u).candidates[1].op) = {}
      BY <1>1, <2>3, <2>8, MigrateTxFacts
    <3> HIDE DEF n
    <3>2. db'[u].records[Book] = Migrated(Rec(u))
      BY <1>1, <2>1, <3>1 DEF IInv, TypeOK
    <3>3. Rec(u).candidates[1] \in Candidate
      BY <1>1, <2>1, TypeFacts, DBFacts DEF Sole, Rec
    <3>4. Migrated(Rec(u)).candidates[1].value
            = [Rec(u).candidates[1].value EXCEPT !.inLibrary = FALSE]
      BY <3>3 DEF Migrated, Candidate
    <3> QED BY <3>1, <3>2, <3>4
  <2> QED BY <2>3, <2>6, <2>7, <2>8
<1> QED BY <1>1, LibraryInvariant, PTL DEF Spec, MigrationKeepsContent

=============================================================================
