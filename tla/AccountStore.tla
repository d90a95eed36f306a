---------------------------- MODULE AccountStore ----------------------------
(***************************************************************************)
(* The tables that hold one account's synchronised data, and what one      *)
(* operation of a client does to them.  A database value has               *)
(*   cursor      cursors.value, the number of the newest change            *)
(*   records     the records table, revision 0 standing for "no row"       *)
(*   changes     the changes table in cursor order                         *)
(*   operations  the operations table: each accepted operation with the    *)
(*               result that was answered, looked up by its id             *)
(* The module has no variables: RecordSync puts such a value behind the    *)
(* transaction of Store.Sync, LibrarySync keeps one for each account.      *)
(***************************************************************************)
EXTENDS BookValues

CONSTANTS Keys,           \* records of the account: (book, kind, record id)
          BookKeys,       \* those of kind "book"
          OpIds,          \* ids of operations and of the server's own writes
          MaxCandidates,  \* 16: unresolved candidates per record
          PageSize        \* 100: changes per response

ASSUME StoreAssumption ==
  /\ BookKeys \subseteq Keys
  /\ MaxCandidates \in Nat \ {0}
  /\ PageSize \in Nat \ {0}

Candidate == [op : OpIds, deleted : BOOLEAN, value : Values]
Record    == [revision : Nat, candidates : Seq(Candidate)]
Change    == [cursor : Nat, key : Keys, record : Record]
Operation == [id : OpIds, key : Keys, base : Nat, deleted : BOOLEAN, value : Values]
OperationResult == [id : OpIds, revision : Nat, conflict : BOOLEAN]
Entry     == [op : Operation, result : OperationResult]

DB == [cursor : Nat, records : [Keys -> Record], changes : Seq(Change),
       operations : SUBSET Entry]

EmptyRecord == [revision |-> 0, candidates |-> <<>>]
EmptyDB == [cursor |-> 0, records |-> [k \in Keys |-> EmptyRecord],
            changes |-> <<>>, operations |-> {}]

-----------------------------------------------------------------------------
(* One operation                                                           *)

(* The record is settled on one candidate that is not a tombstone. *)
Sole(r) == Len(r.candidates) = 1 /\ ~r.candidates[1].deleted

(* Mutant: only a base from the future is told apart. *)
ConflictsLoosely(op, r) == op.base > r.revision

Conflicts(op, r) == op.base # r.revision

(* An edit without the membership field keeps the sole candidate's. *)
WithMembership(v, r) ==
  IF v.inLibrary = Absent /\ Sole(r)
  THEN [v EXCEPT !.inLibrary = r.candidates[1].value.inLibrary]
  ELSE v

(* The value stored for the operation.  Folders are made canonical unless  *)
(* the edit is stale and leaves the folder list out.                       *)
Settled(op, r) ==
  IF op.key \notin BookKeys \/ op.deleted THEN op.value
  ELSE LET v == WithMembership(op.value, r)
           previous == IF ~Conflicts(op, r) /\ Sole(r)
                       THEN r.candidates[1].value ELSE Blank(v.body)
       IN  IF ~Conflicts(op, r) \/ v.folders # Absent
           THEN canonicalBookFolders(v, previous) ELSE v

(* Mutant: the last writer wins. *)
KeptNone(op, r) == <<>>

Kept(op, r) == IF Conflicts(op, r) THEN r.candidates ELSE <<>>

NextRecord(op, r) ==
  [revision   |-> r.revision + 1,
   candidates |-> Append(Kept(op, r), [op |-> op.id, deleted |-> op.deleted,
                                       value |-> Settled(op, r)])]

Recorded(d, id) == {e \in d.operations : e.op.id = id}

(* The operation was accepted before, with the same content. *)
Replayed(d, op) == \E e \in d.operations : e.op = op

(* Mutants: the capacity check is off by one; a retry counts as reuse. *)
RefusedLate(d, op) ==
  IF Recorded(d, op.id) # {} THEN ~Replayed(d, op)
  ELSE LET r == d.records[op.key]
       IN  op.base > r.revision \/ Len(Kept(op, r)) > MaxCandidates

RefusedReuse(d, op) ==
  \/ Recorded(d, op.id) # {}
  \/ op.base > d.records[op.key].revision
  \/ Len(Kept(op, d.records[op.key])) >= MaxCandidates

(* 409: the id was used for other content, the base revision lies in the   *)
(* future, or the record has no room for another candidate.                *)
Refused(d, op) ==
  IF Recorded(d, op.id) # {} THEN ~Replayed(d, op)
  ELSE LET r == d.records[op.key]
       IN  op.base > r.revision \/ Len(Kept(op, r)) >= MaxCandidates

Result(d, op) ==
  IF Replayed(d, op) THEN (CHOOSE e \in d.operations : e.op = op).result
  ELSE [id |-> op.id, revision |-> d.records[op.key].revision + 1,
        conflict |-> Conflicts(op, d.records[op.key])]

(* Mutants: cursors.value is not advanced; superseded changes of the key   *)
(* are removed from the log.                                               *)
WriteSameCursor(d, k, r) ==
  [d EXCEPT !.records[k] = r,
            !.changes = Append(@, [cursor |-> d.cursor + 1, key |-> k, record |-> r])]

WriteCompacting(d, k, r) ==
  [d EXCEPT !.cursor = @ + 1,
            !.records[k] = r,
            !.changes = Append(SelectSeq(@, LAMBDA c : c.key # k),
                               [cursor |-> d.cursor + 1, key |-> k, record |-> r])]

(* Store record r under k and append it to the change log. *)
Write(d, k, r) ==
  [cursor     |-> d.cursor + 1,
   records    |-> [d.records EXCEPT ![k] = r],
   changes    |-> Append(d.changes, [cursor |-> d.cursor + 1, key |-> k, record |-> r]),
   operations |-> d.operations]

(* Mutant: a retry is applied once more. *)
AppliedAgain(d, op) ==
  [Write(d, op.key, NextRecord(op, d.records[op.key])) EXCEPT
     !.operations = d.operations \cup {[op |-> op, result |-> Result(d, op)]}]

(* The database after an operation that is not refused. *)
Applied(d, op) ==
  IF Replayed(d, op) THEN d
  ELSE [Write(d, op.key, NextRecord(op, d.records[op.key])) EXCEPT
          !.operations = d.operations \cup {[op |-> op, result |-> Result(d, op)]}]

-----------------------------------------------------------------------------
(* One page of the change log                                              *)

(* The elements of s at the places in I, in their order. *)
Selected(s, I) ==
  LET upTo[i \in 0 .. Len(s)] ==
        IF i = 0 THEN <<>>
        ELSE IF i \in I THEN Append(upTo[i - 1], s[i]) ELSE upTo[i - 1]
  IN  upTo[Len(s)]

Newer(d, since) == {i \in 1 .. Len(d.changes) : d.changes[i].cursor > since}

(* Mutant: the page starts with the row the device already has. *)
PageAgain(d, since) ==
  LET newer == Selected(d.changes, Newer(d, since - 1))
  IN  SubSeq(newer, 1, IF Len(newer) < PageSize THEN Len(newer) ELSE PageSize)

(* Rows with a larger cursor, at most PageSize of them. *)
Page(d, since) ==
  LET newer == Selected(d.changes, Newer(d, since))
  IN  SubSeq(newer, 1, IF Len(newer) < PageSize THEN Len(newer) ELSE PageSize)

(* Mutant: the cursor of the account instead of the last row's. *)
PageCursorNewest(d, since) == d.cursor

PageCursor(d, since) ==
  LET page == Page(d, since)
  IN  IF page = <<>> THEN since ELSE page[Len(page)].cursor

HasMore(d, since) == PageCursor(d, since) < d.cursor

-----------------------------------------------------------------------------
(* What a database must satisfy                                            *)

(* Change cursors count up from 1 without a gap to cursors.value. *)
CursorsContiguous(d) ==
  /\ d.cursor = Len(d.changes)
  /\ \A i \in 1 .. Len(d.changes) : d.changes[i].cursor = i

(* The newest change of a key carries the record as it stands, and a key   *)
(* without a record has no change.                                         *)
NewestChangeIsRecord(d) ==
  \A k \in Keys :
    \/ d.records[k].revision = 0 /\ \A i \in 1 .. Len(d.changes) : d.changes[i].key # k
    \/ \E i \in 1 .. Len(d.changes) :
         /\ d.changes[i].key = k
         /\ d.changes[i].record = d.records[k]
         /\ \A j \in 1 .. Len(d.changes) : j > i => d.changes[j].key # k

(* The changes of one key carry its revisions in increasing order, and no  *)
(* revision beyond the record's.                                           *)
RevisionsIncrease(d) ==
  \A i, j \in 1 .. Len(d.changes) :
    /\ d.changes[i].record.revision <= d.records[d.changes[i].key].revision
    /\ i < j /\ d.changes[i].key = d.changes[j].key
         => d.changes[i].record.revision < d.changes[j].record.revision

LogMatchesRecords(d) ==
  CursorsContiguous(d) /\ NewestChangeIsRecord(d) /\ RevisionsIncrease(d)

(* Each operation id is recorded once, and exactly one change of its key   *)
(* introduced it, at the revision that was answered.                       *)
OneEffect(d) ==
  /\ \A e, f \in d.operations : e.op.id = f.op.id => e = f
  /\ \A e \in d.operations : \E i \in 1 .. Len(d.changes) :
       LET c == d.changes[i]
       IN  /\ c.key = e.op.key
           /\ c.record.revision = e.result.revision
           /\ c.record.candidates[Len(c.record.candidates)].op = e.op.id
           /\ \A j \in 1 .. Len(d.changes) :
                LET cs == d.changes[j].record.candidates
                IN  j # i => cs[Len(cs)].op # e.op.id

(* An accepted edit is either still a candidate of its record, or gave way *)
(* to an accepted operation whose author named a revision that had it.     *)
Present(d, e) ==
  \E i \in 1 .. Len(d.records[e.op.key].candidates) :
     d.records[e.op.key].candidates[i].op = e.op.id

Resolved(d, e) ==
  \E f \in d.operations : /\ f.op.key = e.op.key
                          /\ ~f.result.conflict
                          /\ f.op.base >= e.result.revision

NothingLost(d) == \A e \in d.operations : Present(d, e) \/ Resolved(d, e)

Capacity(d) == \A k \in Keys : Len(d.records[k].candidates) <= MaxCandidates

(* Two facts the ones above rest on: no answered revision lies beyond its  *)
(* record, and every change was made by a recorded operation.              *)
AnswersWithinRecords(d) ==
  \A e \in d.operations : e.result.revision <= d.records[e.op.key].revision

ChangesFromOperations(d) ==
  \A i \in 1 .. Len(d.changes) :
    LET cs == d.changes[i].record.candidates
    IN  cs # <<>> /\ \E e \in d.operations : e.op.id = cs[Len(cs)].op

StoreInv(d) ==
  /\ LogMatchesRecords(d)
  /\ OneEffect(d)
  /\ NothingLost(d)
  /\ Capacity(d)
  /\ AnswersWithinRecords(d)
  /\ ChangesFromOperations(d)
=============================================================================
