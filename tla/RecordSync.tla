----------------------------- MODULE RecordSync -----------------------------
(***************************************************************************)
(* Store.Sync for one account whose books come from no shared library.     *)
(* The process opens one database connection, so transactions of all       *)
(* requests run one after the other: tx is the open one.  It works on a    *)
(* copy of the database that Commit publishes and Rollback drops, whether  *)
(* the handler returned an error, the client hung up or the process died.  *)
(*                                                                         *)
(* A batch is not held as a sequence: Apply takes the next operation of    *)
(* the request, any that the validator lets through, so that every batch   *)
(* of up to MaxBatch operations is some run of Apply steps.                *)
(***************************************************************************)
EXTENDS AccountStore, FiniteSets

CONSTANTS Operations,   \* operations that requests may carry
          MaxBatch,     \* 50: operations per request
          NoTx          \* no transaction is open

(* since: the cursor of the request.  db: the copy the statements changed. *)
(* results: the answers so far, with the operation each belongs to.        *)
Tx == [since : Nat, db : DB, results : Seq(Entry)]

ASSUME SyncAssumption ==
  /\ Operations \subseteq Operation
  /\ \A op \in Operations : op.key \in BookKeys => ValidValue(op.value)
  /\ MaxBatch \in Nat
  /\ NoTx \notin Tx

VARIABLES db,     \* the committed tables of the account
          tx,     \* the open transaction, or NoTx
          acked   \* history: results that left the server with a 200

vars == <<db, tx, acked>>

TypeOK ==
  /\ db \in DB
  /\ tx \in Tx \cup {NoTx}
  /\ acked \subseteq Entry

Init ==
  /\ db = EmptyDB
  /\ tx = NoTx
  /\ acked = {}

-----------------------------------------------------------------------------

(* The request passed validation and its transaction reads cursors.value. *)
(* A cursor beyond the server's is a 409 and opens nothing that lasts.     *)
Begin(since) ==
  /\ tx = NoTx
  /\ since <= db.cursor
  /\ tx' = [since |-> since, db |-> db, results |-> <<>>]
  /\ UNCHANGED <<db, acked>>

(* One turn of the loop over the operations of the request. *)
Apply(op) ==
  /\ tx # NoTx
  /\ Len(tx.results) < MaxBatch
  /\ ~Refused(tx.db, op)
  /\ tx' = [tx EXCEPT !.db = Applied(tx.db, op),
                      !.results = Append(tx.results,
                                         [op |-> op, result |-> Result(tx.db, op)])]
  /\ UNCHANGED <<db, acked>>

(* Mutant: the commit fails and the response is written all the same. *)
CommitLost ==
  /\ tx # NoTx
  /\ acked' = acked \cup {tx.results[i] : i \in 1 .. Len(tx.results)}
  /\ tx' = NoTx
  /\ UNCHANGED db

(* Commit publishes the copy, then the response is written. *)
Commit ==
  /\ tx # NoTx
  /\ db' = tx.db
  /\ acked' = acked \cup {tx.results[i] : i \in 1 .. Len(tx.results)}
  /\ tx' = NoTx

(* The process stops after the commit and before the response. *)
CommitUnanswered ==
  /\ tx # NoTx
  /\ db' = tx.db
  /\ tx' = NoTx
  /\ UNCHANGED acked

(* Mutant: results are answered although the transaction is undone. *)
RollbackAnswered ==
  /\ tx # NoTx
  /\ acked' = acked \cup {tx.results[i] : i \in 1 .. Len(tx.results)}
  /\ tx' = NoTx
  /\ UNCHANGED db

(* A refused operation, an SQL error, a cancelled request or a crash. *)
Rollback ==
  /\ tx # NoTx
  /\ tx' = NoTx
  /\ UNCHANGED <<db, acked>>

Next ==
  \/ \E since \in 0 .. db.cursor : Begin(since)
  \/ \E op \in Operations : Apply(op)
  \/ Commit
  \/ CommitUnanswered
  \/ Rollback

Spec == Init /\ [][Next]_vars

-----------------------------------------------------------------------------
(* Properties                                                              *)

(* The change log of the account and its records never disagree: cursors   *)
(* run without gaps up to cursors.value, the newest change of a key is the *)
(* record, revisions of a key increase along the log.  It holds of the     *)
(* committed tables and inside the transaction that Store.Sync works on.   *)
LogAgrees ==
  /\ LogMatchesRecords(db)
  /\ tx # NoTx => LogMatchesRecords(tx.db)

(* Retries do not duplicate: whatever a client sends again, in the same    *)
(* batch, a later one or after a crash, each operation id made exactly one *)
(* change, at the revision that was answered.                              *)
OneEffectPerOperation == OneEffect(db)

(* No accepted edit is lost: it is a candidate of its record until an      *)
(* operation based on a revision that includes it resolves the record.     *)
NoEditLost == NothingLost(db)

(* A record never holds more unresolved candidates than the limit, also    *)
(* while a batch is half applied.                                          *)
WithinCapacity ==
  /\ Capacity(db)
  /\ tx # NoTx => Capacity(tx.db)

(* Every result a client was given is the one stored for that operation,   *)
(* so an answered edit survives crashes and a retry is answered the same.  *)
AnswersDurable == acked \subseteq db.operations

(* The change log is append-only: a step never rewrites or removes a       *)
(* change a device may already have pulled.                                *)
LogAppendOnly ==
  [][/\ Len(db.changes) <= Len(db'.changes)
     /\ \A i \in 1 .. Len(db.changes) : db'.changes[i] = db.changes[i]]_db

(* A client that knows only the primary folder cannot lose the others: an  *)
(* up-to-date edit without a folder list keeps every membership but the    *)
(* primary one it replaces, and all of them if it names no folder at all.  *)
FoldersOf(v) == {v.folders[i] : i \in 1 .. Len(v.folders)}

LegacyEditKeepsFolders ==
  [][\A e \in IF tx = NoTx \/ tx' = NoTx THEN {}
              ELSE tx'.db.operations \ tx.db.operations :
       LET old == tx.db.records[e.op.key]
           new == tx'.db.records[e.op.key].candidates
       IN  /\ e.op.key \in BookKeys /\ ~e.op.deleted /\ ~e.result.conflict
           /\ e.op.value.folders = Absent
           /\ Sole(old)
           => LET before == old.candidates[1].value
                  after == new[1].value
              IN  /\ FoldersOf(before) \ {before.folder} \subseteq FoldersOf(after)
                  /\ e.op.value.folder = Absent => after.folders = before.folders
                  /\ e.op.value.folder # Absent => after.folder = e.op.value.folder
                                                  \/ e.op.value.folder = NoFolder]_tx

-----------------------------------------------------------------------------
(* The inductive invariant behind the properties: the committed tables and *)
(* the copy are consistent, the copy extends the tables, and the answers   *)
(* collected so far are entries of the copy.                               *)
TxInv ==
  tx # NoTx =>
    /\ StoreInv(tx.db)
    /\ db.operations \subseteq tx.db.operations
    /\ Len(db.changes) <= Len(tx.db.changes)
    /\ \A i \in 1 .. Len(db.changes) : tx.db.changes[i] = db.changes[i]
    /\ \A i \in 1 .. Len(tx.results) : tx.results[i] \in tx.db.operations

Inv ==
  /\ TypeOK
  /\ StoreInv(db)
  /\ TxInv
  /\ AnswersDurable
=============================================================================
