----------------------------- MODULE DeviceSync -----------------------------
(***************************************************************************)
(* Devices of one account against RecordSync.  The devices are outside the *)
(* repository; they do what API.md asks of a client: keep a durable outbox *)
(* of operations with stable ids, send it with the cursor they have        *)
(* stored, apply a page and advance the cursor together, and drop an       *)
(* operation only when an answer names it.  Requests can be late or cut    *)
(* off by a crash, answers can be lost; MaxLosses bounds how often.        *)
(***************************************************************************)
EXTENDS RecordSync

CONSTANTS Devices,
          Plans,       \* for each device, the edits its user makes, in order
          MaxLosses,   \* bound: messages lost, requests late, crashes
          None         \* no request, no answer

VARIABLES edits,    \* the operations of the edits made so far, in order
          outbox,   \* operations not yet acknowledged
          cursor,   \* the stored cursor
          got,      \* changes applied so far, in order
          req,      \* the request whose transaction is open
          late,     \* requests their device gave up on, still under way
          reply,    \* for each device, the answer under way
          losses

deviceVars == <<edits, outbox, cursor, got>>
netVars == <<late, reply, losses>>
allVars == <<vars, deviceVars, req, netVars>>

Plan == [id : OpIds, key : Keys, deleted : BOOLEAN, value : Values]

(* Every edit has an id of its own, on whatever device it is made. *)
ASSUME PlanAssumption ==
  /\ Plans \in [Devices -> Seq(Plan)]
  /\ \A d, e \in Devices : \A i \in 1 .. Len(Plans[d]), j \in 1 .. Len(Plans[e]) :
       Plans[d][i].id = Plans[e][j].id => d = e /\ i = j
  /\ MaxBatch > 0
  /\ MaxLosses \in Nat

(* The revision of key k the device knows. *)
SeenRevision(d, k) ==
  LET mine == {i \in 1 .. Len(got[d]) : got[d][i].key = k}
  IN  IF mine = {} THEN 0 ELSE got[d][Max(mine)].record.revision

Queued(d, k) == Cardinality({i \in 1 .. Len(outbox[d]) : outbox[d][i].key = k})

Batch(d) ==
  SubSeq(outbox[d], 1, IF Len(outbox[d]) < MaxBatch THEN Len(outbox[d]) ELSE MaxBatch)

DInit ==
  /\ Init
  /\ edits = [d \in Devices |-> <<>>]
  /\ outbox = [d \in Devices |-> <<>>]
  /\ cursor = [d \in Devices |-> 0]
  /\ got = [d \in Devices |-> <<>>]
  /\ req = None
  /\ late = {}
  /\ reply = [d \in Devices |-> None]
  /\ losses = 0

-----------------------------------------------------------------------------
(* Devices                                                                 *)

(* The user edits offline or online: the operation is based on the newest  *)
(* revision the device knows and its own queued edits of the record.       *)
Edit(d) ==
  /\ Len(edits[d]) < Len(Plans[d])
  /\ LET p == Plans[d][Len(edits[d]) + 1]
         op == [id |-> p.id, key |-> p.key, deleted |-> p.deleted, value |-> p.value,
                base |-> SeenRevision(d, p.key) + Queued(d, p.key)]
     IN  /\ outbox' = [outbox EXCEPT ![d] = Append(@, op)]
         /\ edits' = [edits EXCEPT ![d] = Append(@, op)]
  /\ UNCHANGED <<vars, cursor, got, req, netVars>>

(* One request at a time per device, answered or given up before the next. *)
Idle(d) == reply[d] = None /\ (req # None => req.from # d)

Send(d) ==
  /\ Idle(d) /\ req = None
  /\ Begin(cursor[d])
  /\ req' = [from |-> d, ops |-> Batch(d)]
  /\ UNCHANGED <<deviceVars, netVars>>

(* The request does not reach the server before the device gives up. *)
SendLate(d) ==
  /\ Idle(d) /\ losses < MaxLosses
  /\ late' = late \cup {[since |-> cursor[d], ops |-> Batch(d)]}
  /\ losses' = losses + 1
  /\ UNCHANGED <<vars, deviceVars, req, reply>>

Receive(d) ==
  /\ reply[d] # None
  /\ got' = [got EXCEPT ![d] = @ \o reply[d].page]
  /\ cursor' = [cursor EXCEPT ![d] = reply[d].cursor]
  /\ outbox' = [outbox EXCEPT ![d] =
                  Selected(@, {i \in 1 .. Len(@) : @[i].id \notin reply[d].answered})]
  /\ reply' = [reply EXCEPT ![d] = None]
  /\ UNCHANGED <<vars, edits, req, late, losses>>

-----------------------------------------------------------------------------
(* The server and what can go wrong around it                              *)

(* A request its device has given up on arrives after all. *)
Arrive(q) ==
  /\ req = None
  /\ Begin(q.since)
  /\ req' = [from |-> None, ops |-> q.ops]
  /\ late' = late \ {q}
  /\ UNCHANGED <<deviceVars, reply, losses>>

Serve ==
  /\ req # None /\ req.ops # <<>>
  /\ Apply(Head(req.ops))
  /\ req' = [req EXCEPT !.ops = Tail(@)]
  /\ UNCHANGED <<deviceVars, netVars>>

Answer ==
  [page     |-> Page(tx.db, tx.since),
   cursor   |-> PageCursor(tx.db, tx.since),
   answered |-> {tx.results[i].result.id : i \in 1 .. Len(tx.results)}]

Finish ==
  /\ req # None /\ req.ops = <<>>
  /\ Commit
  /\ reply' = IF req.from = None THEN reply
              ELSE [reply EXCEPT ![req.from] = Answer]
  /\ req' = None
  /\ UNCHANGED <<deviceVars, late, losses>>

FinishUnanswered ==
  /\ req # None /\ req.ops = <<>> /\ losses < MaxLosses
  /\ CommitUnanswered
  /\ req' = None /\ losses' = losses + 1
  /\ UNCHANGED <<deviceVars, late, reply>>

Fail ==
  /\ req # None /\ losses < MaxLosses
  /\ Rollback
  /\ req' = None /\ losses' = losses + 1
  /\ UNCHANGED <<deviceVars, late, reply>>

LoseReply(d) ==
  /\ reply[d] # None /\ losses < MaxLosses
  /\ reply' = [reply EXCEPT ![d] = None]
  /\ losses' = losses + 1
  /\ UNCHANGED <<vars, deviceVars, req, late>>

DNext ==
  \/ \E d \in Devices : Edit(d) \/ Send(d) \/ SendLate(d) \/ Receive(d) \/ LoseReply(d)
  \/ \E q \in late : Arrive(q)
  \/ Serve \/ Finish \/ FinishUnanswered \/ Fail

(* The handler runs to its end, devices read their answers, and a device   *)
(* that keeps asking gets the database connection: database/sql gives it  *)
(* to any of the waiting requests and prefers none.                        *)
Fairness ==
  /\ WF_allVars(Serve) /\ WF_allVars(Finish)
  /\ \A d \in Devices : WF_allVars(Receive(d)) /\ SF_allVars(Send(d))

DSpec == DInit /\ [][DNext]_allVars /\ Fairness

-----------------------------------------------------------------------------
(* Properties                                                              *)

(* An operation that replaces the candidates of a record was made on a     *)
(* device that had every edit it replaces: its own or applied from a page. *)
NothingUnseenReplaced ==
  \A d \in Devices, e, f \in db.operations :
    /\ \E i \in 1 .. Len(Plans[d]) : Plans[d][i].id = e.op.id
    /\ ~e.result.conflict
    /\ f.op.key = e.op.key /\ f.result.revision < e.result.revision
    => \/ \E i \in 1 .. Len(Plans[d]) : Plans[d][i].id = f.op.id
       \/ \E i \in 1 .. Len(got[d]) : /\ got[d][i].key = f.op.key
                                      /\ got[d][i].record.revision = f.result.revision

(* A device that follows the protocol is never told 409, whatever was lost *)
(* or late: no id is seen as reused, no base or cursor lies in the future. *)
(* That holds up to the candidate limit, where Store.Sync refuses one more  *)
(* conflicting edit: it is about plans whose edits of a record have room.   *)
NeverRefused ==
  /\ req # None /\ req.ops # <<>> => ~Refused(tx.db, Head(req.ops))
  /\ \A d \in Devices : cursor[d] <= db.cursor

(* An edit leaves the outbox only when the server has recorded it. *)
EditsKept ==
  \A d \in Devices : \A i \in 1 .. Len(edits[d]) :
    LET id == edits[d][i].id
    IN  \/ \E j \in 1 .. Len(outbox[d]) : outbox[d][j].id = id
        \/ Recorded(db, id) # {}

(* The devices read the change log as PullLog promises: in order, without  *)
(* gaps or repeats, however pages, retries and late requests interleave,   *)
(* and each of them catches up.                                            *)
Pull == INSTANCE PullLog WITH log <- db.changes, Readers <- Devices
PullsLog == Pull!Spec

(* When the users stop, every outbox drains and every device shows exactly *)
(* the server's records.                                                   *)
Shows(d) ==
  /\ outbox[d] = <<>>
  /\ \A k \in Keys : SeenRevision(d, k) = db.records[k].revision

Converges == <>[](\A d \in Devices : Shows(d))
=============================================================================
