---------------------------- MODULE MetadataCache ----------------------------
(***************************************************************************)
(* The cache of what book files say about themselves (title, cover).       *)
(* Requests look at the disk, then into the cache; a file that is not      *)
(* cached is decoded outside the mutex by one request, for whose flight    *)
(* the others wait.  Books are deleted and uploaded again meanwhile; a key *)
(* is the path of an object, which names its content.                      *)
(*                                                                         *)
(* A section under the mutex is one step, and so is a decoding: it reads   *)
(* the file if it is there when it opens it.  The metadata of an object is *)
(* represented by its key, and None is the metadata of nothing.            *)
(***************************************************************************)
EXTENDS Integers, Sequences, SequencesExt

CONSTANTS Requests,    \* requests under way at once
          Keys,
          Stored,      \* the objects there are when the server starts
          Size,        \* bytes of a cache entry of each metadata, its key included
          MaxEntries, MaxBytes,
          MaxChanges,  \* bound: objects deleted or stored
          None

ASSUME CacheAssumption ==
  /\ None \notin Keys /\ Stored \subseteq Keys
  /\ Size \in [Keys \cup {None} -> Nat]
  /\ {MaxEntries, MaxBytes, MaxChanges} \subseteq Nat

Metadata == Keys \cup {None}

VARIABLES objects,  \* objects on disk
          lru,      \* the cached elements, the most recent first
          entries,  \* keys of the map into lru
          bytes,
          flights,  \* keys being decoded
          proc,     \* what each request does
          gone,     \* history: objects that have been missing
          changes

cache == <<lru, entries, bytes, flights>>
disk == <<objects, gone, changes>>
vars == <<disk, cache, proc>>

Element == [key : Keys, value : Metadata]

Idle == [at |-> "idle"]
Proc == {Idle}
        \cup [at : {"get", "load", "wait"}, key : Keys]
        \cup [at : {"put", "done"}, key : Keys, value : Metadata]

TypeOK ==
  /\ objects \subseteq Keys
  /\ lru \in Seq(Element)
  /\ entries \subseteq Keys
  /\ flights \subseteq Keys
  /\ proc \in [Requests -> Proc]
  /\ gone \subseteq Keys
  /\ changes \in Nat

Init ==
  /\ objects = Stored
  /\ lru = <<>> /\ entries = {} /\ bytes = 0
  /\ flights = {}
  /\ proc = [p \in Requests |-> Idle]
  /\ gone = Keys \ Stored
  /\ changes = 0

-----------------------------------------------------------------------------

Goes(p, q) == proc' = [proc EXCEPT ![p] = q]
Done(k, v) == [at |-> "done", key |-> k, value |-> v]

(* objectMetadata: nothing is said of an object that is not there. *)
Ask(p, k) ==
  /\ proc[p] = Idle
  /\ Goes(p, IF k \in objects THEN [at |-> "get", key |-> k] ELSE Done(k, None))
  /\ UNCHANGED <<disk, cache>>

(* The element the map leads to: the one put in front last. *)
Place(k) == CHOOSE i \in 1 .. Len(lru) :
              lru[i].key = k /\ \A j \in 1 .. i - 1 : lru[j].key # k

Hit(p) ==
  /\ proc[p].at = "get" /\ proc[p].key \in entries
  /\ LET i == Place(proc[p].key)
     IN  /\ lru' = <<lru[i]>> \o RemoveAt(lru, i)
         /\ Goes(p, Done(proc[p].key, lru[i].value))
  /\ UNCHANGED <<disk, entries, bytes, flights>>

Join(p) ==
  /\ proc[p].at = "get" /\ proc[p].key \notin entries
  /\ proc[p].key \in flights
  /\ Goes(p, [at |-> "wait", key |-> proc[p].key])
  /\ UNCHANGED <<disk, cache>>

(* Mutant: requests do not look for a flight. *)
DepartAnyway(p) ==
  /\ proc[p].at = "get" /\ proc[p].key \notin entries
  /\ flights' = flights \cup {proc[p].key}
  /\ Goes(p, [at |-> "load", key |-> proc[p].key])
  /\ UNCHANGED <<disk, lru, entries, bytes>>

Depart(p) ==
  /\ proc[p].at = "get" /\ proc[p].key \notin entries
  /\ proc[p].key \notin flights
  /\ flights' = flights \cup {proc[p].key}
  /\ Goes(p, [at |-> "load", key |-> proc[p].key])
  /\ UNCHANGED <<disk, lru, entries, bytes>>

Load(p) ==
  /\ proc[p].at = "load"
  /\ LET k == proc[p].key
     IN  Goes(p, [at |-> "put", key |-> k, value |-> IF k \in objects THEN k ELSE None])
  /\ UNCHANGED <<disk, cache>>

-----------------------------------------------------------------------------
(* The end of a flight                                                     *)

Total(s) ==
  LET sum[i \in 0 .. Len(s)] == IF i = 0 THEN 0 ELSE sum[i - 1] + Size[s[i].value]
  IN  sum[Len(s)]

Cacheable(v) == MaxEntries > 0 /\ Size[v] <= MaxBytes

(* The oldest elements go until there is room: n of them stay. *)
Room(n, v) ==
  /\ n < MaxEntries
  /\ bytes - Total(SubSeq(lru, n + 1, Len(lru))) + Size[v] <= MaxBytes

Stays(n, v) == n \in 0 .. Len(lru) /\ Room(n, v) /\ \A m \in n + 1 .. Len(lru) : ~Room(m, v)

(* Mutant: what is evicted is still counted. *)
InsertUncounted(k, v) ==
  \E n \in 0 .. Len(lru) :
    /\ Stays(n, v)
    /\ lru' = <<[key |-> k, value |-> v]>> \o SubSeq(lru, 1, n)
    /\ entries' = (entries \ {lru[i].key : i \in n + 1 .. Len(lru)}) \cup {k}
    /\ bytes' = bytes + Size[v]

Insert(k, v) ==
  \E n \in 0 .. Len(lru) :
    /\ Stays(n, v)
    /\ lru' = <<[key |-> k, value |-> v]>> \o SubSeq(lru, 1, n)
    /\ entries' = (entries \ {lru[i].key : i \in n + 1 .. Len(lru)}) \cup {k}
    /\ bytes' = bytes - Total(SubSeq(lru, n + 1, Len(lru))) + Size[v]

(* Mutant: the waiting requests see the flight before its value is set. *)
LandedEarly(p, k, v) ==
  proc' = [q \in Requests |->
             IF q = p THEN Done(k, v)
             ELSE IF proc[q] = [at |-> "wait", key |-> k] THEN Done(k, None)
             ELSE proc[q]]

(* The request and all that wait for its flight have the value. *)
Landed(p, k, v) ==
  proc' = [q \in Requests |->
             IF q = p \/ proc[q] = [at |-> "wait", key |-> k] THEN Done(k, v) ELSE proc[q]]

(* Mutant: a value that is not cached ends no flight. *)
PutOrLeave(p) ==
  /\ proc[p].at = "put"
  /\ LET k == proc[p].key
         v == proc[p].value
     IN  IF Cacheable(v) THEN Insert(k, v) /\ flights' = flights \ {k} /\ Landed(p, k, v)
         ELSE UNCHANGED cache /\ Goes(p, Done(k, v))
  /\ UNCHANGED disk

Put(p) ==
  /\ proc[p].at = "put"
  /\ LET k == proc[p].key
         v == proc[p].value
     IN  /\ IF Cacheable(v) THEN Insert(k, v) ELSE UNCHANGED <<lru, entries, bytes>>
         /\ flights' = flights \ {k}
         /\ Landed(p, k, v)
  /\ UNCHANGED disk

Return(p) ==
  /\ proc[p].at = "done"
  /\ Goes(p, Idle)
  /\ UNCHANGED <<disk, cache>>

Step(p) == Hit(p) \/ Join(p) \/ Depart(p) \/ Load(p) \/ Put(p) \/ Return(p)

-----------------------------------------------------------------------------
(* Uploads, scans and deletions                                            *)

Change == changes < MaxChanges /\ changes' = changes + 1 /\ UNCHANGED <<cache, proc>>

StoreObject(k) ==
  /\ Change
  /\ k \notin objects /\ objects' = objects \cup {k}
  /\ UNCHANGED gone

DeleteObject(k) ==
  /\ Change
  /\ k \in objects /\ objects' = objects \ {k}
  /\ gone' = gone \cup {k}

-----------------------------------------------------------------------------

Next ==
  \/ \E p \in Requests : Step(p) \/ \E k \in Keys : Ask(p, k)
  \/ \E k \in Keys : StoreObject(k) \/ DeleteObject(k)

Spec == Init /\ [][Next]_vars /\ \A p \in Requests : WF_vars(Step(p))

-----------------------------------------------------------------------------
(* Properties                                                              *)

(* The map and the list hold the same elements, each once. *)
ListAgrees ==
  /\ entries = {lru[i].key : i \in 1 .. Len(lru)}
  /\ \A i, j \in 1 .. Len(lru) : lru[i].key = lru[j].key => i = j
  /\ Len(lru) <= MaxEntries

(* The bytes counted are those of the elements, and neither limit is       *)
(* exceeded, so that eviction never runs out of elements.                  *)
CacheAgrees == ListAgrees /\ bytes = Total(lru) /\ bytes <= MaxBytes

(* No file is decoded twice at a time, nor while it is cached, and who     *)
(* waits waits for a decoding.                                             *)
Decoding(p, k) == proc[p].at \in {"load", "put"} /\ proc[p].key = k

OneDecoding ==
  /\ \A p, q \in Requests, k \in Keys : Decoding(p, k) /\ Decoding(q, k) => p = q
  /\ \A p \in Requests, k \in Keys : Decoding(p, k) => k \notin entries
  /\ \A p \in Requests : proc[p].at = "wait" => \E q \in Requests : Decoding(q, proc[p].key)

(* An answer is the metadata of the object asked for.  It is empty only if *)
(* the object has been missing: a decoding that met a deletion leaves the  *)
(* empty metadata in the cache, also for a later upload of the same book.  *)
Known(k, v) == v = k \/ (v = None /\ k \in gone)

AnswersTrue ==
  \A p \in Requests : proc[p].at = "done" => Known(proc[p].key, proc[p].value)

(* Every request is answered, whoever decodes for it. *)
EveryoneAnswered == \A p \in Requests : proc[p].at # "idle" ~> proc[p].at = "idle"
=============================================================================
