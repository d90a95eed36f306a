------------------------- MODULE MetadataCacheProofs -------------------------
(***************************************************************************)
(* For any number of requests and objects and any limits: no object is     *)
(* decoded twice at a time, the map, the list and the counted bytes of the *)
(* cache agree, eviction finds room, and answers are true.  Total adds up  *)
(* a list, so what it makes of concatenations rests on an induction over   *)
(* the numbers, in the form of a set that has no least missing element.    *)
(***************************************************************************)
EXTENDS MetadataCache, SequenceTheorems, WellFoundedInduction, TLAPS

(* A flight has one request that decodes, and only flights have waiters.   *)
FlightsFlown ==
  /\ \A p, q \in Requests, k \in Keys : Decoding(p, k) /\ Decoding(q, k) => p = q
  /\ \A p \in Requests, k \in Keys : Decoding(p, k) => k \in flights
  /\ \A k \in flights : \E p \in Requests : Decoding(p, k)
  /\ \A p \in Requests : proc[p].at = "wait" => proc[p].key \in flights

Apart == \A k \in flights : k \notin entries

ValuesTrue ==
  /\ Keys \ objects \subseteq gone
  /\ \A i \in 1 .. Len(lru) : Known(lru[i].key, lru[i].value)
  /\ \A p \in Requests :
       proc[p].at \in {"put", "done"} => Known(proc[p].key, proc[p].value)

Inv == TypeOK /\ ListAgrees /\ FlightsFlown /\ Apart /\ ValuesTrue

(* What TypeOK says of one request. *)
LEMMA ProcFields ==
  ASSUME TypeOK, NEW p \in Requests
  PROVE  /\ proc[p].at \in {"idle", "get", "load", "wait", "put", "done"}
         /\ proc[p].at # "idle" => proc[p].key \in Keys
         /\ proc[p].at \in {"put", "done"} => proc[p].value \in Metadata
BY DEF TypeOK, Proc, Idle

LEMMA InitInv == Init => Inv
<1> SUFFICES ASSUME Init PROVE Inv
  OBVIOUS
<1>1. /\ objects = Stored /\ lru = <<>> /\ entries = {} /\ flights = {}
      /\ gone = Keys \ Stored /\ changes = 0
      /\ \A p \in Requests : proc[p] = Idle /\ proc[p].at = "idle"
      /\ proc \in [Requests -> Proc]
  BY DEF Init, Idle, Proc
<1>2. TypeOK
  BY <1>1, CacheAssumption DEF TypeOK
<1>3. ListAgrees
  BY <1>1, CacheAssumption DEF ListAgrees
<1>4. FlightsFlown /\ Apart
  BY <1>1 DEF FlightsFlown, Apart, Decoding
<1>5. ValuesTrue
  BY <1>1, CacheAssumption DEF ValuesTrue
<1> QED BY <1>2, <1>3, <1>4, <1>5 DEF Inv

-----------------------------------------------------------------------------
(* Steps that leave the cache alone                                        *)

LEMMA AskInv ==
  ASSUME Inv, NEW p \in Requests, NEW k \in Keys, Ask(p, k)
  PROVE  Inv'
<1>1. /\ proc[p].at = "idle"
      /\ UNCHANGED <<objects, gone, changes, lru, entries, flights>>
      /\ proc' = [proc EXCEPT ![p] = IF k \in objects THEN [at |-> "get", key |-> k]
                                     ELSE [at |-> "done", key |-> k, value |-> None]]
  BY DEF Ask, Goes, Done, Idle, disk, cache
<1>2. TypeOK'
  BY <1>1 DEF Inv, TypeOK, Proc, Metadata
<1>3. \A q \in Requests : q # p => proc'[q] = proc[q]
  BY <1>1 DEF Inv, TypeOK
<1>4. /\ proc'[p].at \in {"get", "done"} /\ proc'[p].key = k
      /\ proc'[p].at = "done" => proc'[p].value = None /\ k \in gone
  BY <1>1 DEF Inv, TypeOK, ValuesTrue
<1>5. \A q \in Requests, j \in Keys : Decoding(q, j)' <=> Decoding(q, j)
  BY <1>1, <1>3, <1>4 DEF Decoding
<1>6. FlightsFlown'
  BY <1>1, <1>3, <1>4, <1>5 DEF Inv, TypeOK, FlightsFlown
<1>7. ListAgrees' /\ Apart'
  BY <1>1 DEF Inv, ListAgrees, Apart
<1>8. ValuesTrue'
  BY <1>1, <1>3, <1>4 DEF Inv, ValuesTrue, Known
<1> QED BY <1>2, <1>6, <1>7, <1>8 DEF Inv

LEMMA JoinInv ==
  ASSUME Inv, NEW p \in Requests, Join(p)
  PROVE  Inv'
<1> DEFINE k == proc[p].key
<1>1. /\ proc[p].at = "get" /\ k \in flights /\ k \in Keys
      /\ UNCHANGED <<objects, gone, changes, lru, entries, flights>>
      /\ proc' = [proc EXCEPT ![p] = [at |-> "wait", key |-> k]]
  BY ProcFields DEF Join, Goes, disk, cache, Inv
<1>2. TypeOK'
  BY <1>1 DEF Inv, TypeOK, Proc
<1>3. \A q \in Requests : q # p => proc'[q] = proc[q]
  BY <1>1 DEF Inv, TypeOK
<1>4. proc'[p].at = "wait" /\ proc'[p].key = k
  BY <1>1 DEF Inv, TypeOK
<1>5. \A q \in Requests, j \in Keys : Decoding(q, j)' <=> Decoding(q, j)
  BY <1>1, <1>3, <1>4 DEF Decoding
<1>6. FlightsFlown'
  BY <1>1, <1>3, <1>4, <1>5 DEF Inv, TypeOK, FlightsFlown
<1>7. ListAgrees' /\ Apart'
  BY <1>1 DEF Inv, ListAgrees, Apart
<1>8. ValuesTrue'
  BY <1>1, <1>3, <1>4 DEF Inv, ValuesTrue, Known
<1> QED BY <1>2, <1>6, <1>7, <1>8 DEF Inv

LEMMA DepartInv ==
  ASSUME Inv, NEW p \in Requests, Depart(p)
  PROVE  Inv'
<1> DEFINE k == proc[p].key
<1>1. /\ proc[p].at = "get" /\ k \notin flights /\ k \notin entries /\ k \in Keys
      /\ UNCHANGED <<objects, gone, changes, lru, entries>>
      /\ flights' = flights \cup {k}
      /\ proc' = [proc EXCEPT ![p] = [at |-> "load", key |-> k]]
  BY ProcFields DEF Depart, Goes, disk, cache, Inv
<1>2. TypeOK'
  BY <1>1 DEF Inv, TypeOK, Proc
<1>3. \A q \in Requests : q # p => proc'[q] = proc[q]
  BY <1>1 DEF Inv, TypeOK
<1>4. proc'[p].at = "load" /\ proc'[p].key = k
  BY <1>1 DEF Inv, TypeOK
<1>5. \A q \in Requests, j \in Keys : Decoding(q, j)' <=> Decoding(q, j) \/ (q = p /\ j = k)
  BY <1>1, <1>3, <1>4 DEF Decoding
<1>6. \A q \in Requests : ~Decoding(q, k)
  BY <1>1 DEF Inv, TypeOK, FlightsFlown
<1>7. FlightsFlown'
  <2>1. \A q \in Requests : proc'[q].at = "wait" => proc'[q].key \in flights'
    BY <1>1, <1>3, <1>4 DEF Inv, TypeOK, FlightsFlown
  <2>2. \A j \in flights' : \E q \in Requests : Decoding(q, j)'
    BY <1>1, <1>5 DEF Inv, FlightsFlown, TypeOK
  <2>3. \A q \in Requests, j \in Keys : Decoding(q, j)' => j \in flights'
    BY <1>1, <1>5 DEF Inv, TypeOK, FlightsFlown
  <2>4. \A q, r \in Requests, j \in Keys : Decoding(q, j)' /\ Decoding(r, j)' => q = r
    BY <1>1, <1>5, <1>6 DEF Inv, TypeOK, FlightsFlown
  <2> QED BY <2>1, <2>2, <2>3, <2>4 DEF FlightsFlown
<1>8. ListAgrees' /\ Apart'
  BY <1>1 DEF Inv, ListAgrees, Apart
<1>9. ValuesTrue'
  BY <1>1, <1>3, <1>4 DEF Inv, ValuesTrue, Known
<1> QED BY <1>2, <1>7, <1>8, <1>9 DEF Inv

LEMMA LoadInv ==
  ASSUME Inv, NEW p \in Requests, Load(p)
  PROVE  Inv'
<1> DEFINE k == proc[p].key
<1>1. /\ proc[p].at = "load" /\ k \in Keys
      /\ UNCHANGED <<objects, gone, changes, lru, entries, flights>>
      /\ proc' = [proc EXCEPT ![p] = [at |-> "put", key |-> k,
                                      value |-> IF k \in objects THEN k ELSE None]]
  BY ProcFields DEF Load, Goes, disk, cache, Inv
<1>2. TypeOK'
  BY <1>1 DEF Inv, TypeOK, Proc, Metadata
<1>3. \A q \in Requests : q # p => proc'[q] = proc[q]
  BY <1>1 DEF Inv, TypeOK
<1>4. /\ proc'[p].at = "put" /\ proc'[p].key = k
      /\ proc'[p].value = IF k \in objects THEN k ELSE None
  BY <1>1 DEF Inv, TypeOK
<1>5. \A q \in Requests, j \in Keys : Decoding(q, j)' <=> Decoding(q, j)
  BY <1>1, <1>3, <1>4 DEF Decoding
<1>6. FlightsFlown'
  BY <1>1, <1>3, <1>4, <1>5 DEF Inv, TypeOK, FlightsFlown
<1>7. ListAgrees' /\ Apart'
  BY <1>1 DEF Inv, ListAgrees, Apart
<1>8. ValuesTrue'
  <2>0. k \notin objects => k \in gone'
    BY <1>1 DEF Inv, ValuesTrue
  <2>1. \/ proc'[p].value = proc'[p].key
        \/ proc'[p].value = None /\ proc'[p].key \in gone'
    BY <1>4, <2>0
  <2>2. \A q \in Requests : proc'[q].at \in {"put", "done"} =>
          \/ proc'[q].value = proc'[q].key
          \/ proc'[q].value = None /\ proc'[q].key \in gone'
    <3> TAKE q \in Requests
    <3>1. CASE q = p
      BY <3>1, <2>1
    <3>2. CASE q # p
      BY <3>2, <1>1, <1>3 DEF Inv, ValuesTrue, Known
    <3> QED BY <3>1, <3>2
  <2>3. (Keys \ objects \subseteq gone)'
    BY <1>1 DEF Inv, ValuesTrue
  <2>4. (\A i \in 1 .. Len(lru) : Known(lru[i].key, lru[i].value))'
    BY <1>1 DEF Inv, ValuesTrue, Known
  <2>5. (\A q \in Requests : proc[q].at \in {"put", "done"} =>
                             Known(proc[q].key, proc[q].value))'
    BY <2>2 DEF Known
  <2> QED BY <2>3, <2>4, <2>5 DEF ValuesTrue
<1> QED BY <1>2, <1>6, <1>7, <1>8 DEF Inv

LEMMA ReturnInv ==
  ASSUME Inv, NEW p \in Requests, Return(p)
  PROVE  Inv'
<1>1. /\ proc[p].at = "done"
      /\ UNCHANGED <<objects, gone, changes, lru, entries, flights>>
      /\ proc' = [proc EXCEPT ![p] = Idle]
  BY DEF Return, Goes, disk, cache
<1>2. TypeOK'
  BY <1>1 DEF Inv, TypeOK, Proc
<1>3. \A q \in Requests : q # p => proc'[q] = proc[q]
  BY <1>1 DEF Inv, TypeOK
<1>4. proc'[p].at = "idle"
  BY <1>1 DEF Inv, TypeOK, Idle
<1>5. \A q \in Requests, j \in Keys : Decoding(q, j)' <=> Decoding(q, j)
  BY <1>1, <1>3, <1>4 DEF Decoding
<1>6. FlightsFlown'
  BY <1>1, <1>3, <1>4, <1>5 DEF Inv, TypeOK, FlightsFlown
<1>7. ListAgrees' /\ Apart'
  BY <1>1 DEF Inv, ListAgrees, Apart
<1>8. ValuesTrue'
  BY <1>1, <1>3, <1>4 DEF Inv, ValuesTrue, Known
<1> QED BY <1>2, <1>6, <1>7, <1>8 DEF Inv

-----------------------------------------------------------------------------
(* Steps of the cache                                                      *)

LEMMA MovedToFront ==
  ASSUME NEW s \in Seq(Element), NEW i \in 1 .. Len(s)
  PROVE  LET t == <<s[i]>> \o RemoveAt(s, i)
         IN  /\ t \in Seq(Element) /\ Len(t) = Len(s) /\ t[1] = s[i]
             /\ \A j \in 2 .. Len(s) : t[j] = IF j <= i THEN s[j - 1] ELSE s[j]
<1> DEFINE a == SubSeq(s, 1, i - 1)
           b == SubSeq(s, i + 1, Len(s))
<1>0. Len(s) \in Nat
  OBVIOUS
<1>1. a \in Seq(Element) /\ Len(a) = i - 1 /\ \A j \in 1 .. i - 1 : a[j] = s[j]
  OBVIOUS
<1>2. b \in Seq(Element) /\ Len(b) = Len(s) - i /\ \A j \in 1 .. Len(s) - i : b[j] = s[i + j]
  OBVIOUS
<1>3. RemoveAt(s, i) = a \o b
  BY DEF RemoveAt
<1> HIDE DEF a, b
<1>4. a \o b \in Seq(Element) /\ Len(a \o b) = Len(s) - 1
      /\ \A j \in 1 .. Len(s) - 1 : (a \o b)[j] = IF j < i THEN s[j] ELSE s[j + 1]
  <2>1. a \o b \in Seq(Element) /\ Len(a \o b) = Len(s) - 1
    <3>0. a \in Seq(Element) /\ b \in Seq(Element)
      BY <1>1, <1>2
    <3>1. a \o b \in Seq(Element) /\ Len(a \o b) = Len(a) + Len(b)
      BY ONLY <3>0
    <3> QED BY <1>0, <1>1, <1>2, <3>1
  <2>2. \A j \in 1 .. i - 1 : (a \o b)[j] = a[j]
    BY <1>1, <1>2
  <2>3. \A j \in i .. Len(s) - 1 : (a \o b)[j] = b[j - (i - 1)]
    BY <1>1, <1>2
  <2>4. \A j \in i .. Len(s) - 1 : b[j - (i - 1)] = s[j + 1]
    <3> TAKE j \in i .. Len(s) - 1
    <3>1. j - (i - 1) \in 1 .. Len(s) - i /\ i + (j - (i - 1)) = j + 1
      OBVIOUS
    <3> QED BY <1>2, <3>1
  <2>5. \A j \in 1 .. Len(s) - 1 : (a \o b)[j] = IF j < i THEN s[j] ELSE s[j + 1]
    <3> TAKE j \in 1 .. Len(s) - 1
    <3>1. CASE j < i
      BY <3>1, <1>0, <1>1, <2>2
    <3>2. CASE ~(j < i)
      <4>1. j \in i .. Len(s) - 1
        BY <3>2, <1>0
      <4> QED BY <3>2, <4>1, <2>3, <2>4
    <3> QED BY <3>1, <3>2
  <2> QED BY <2>1, <2>5
<1> DEFINE c == a \o b
<1> HIDE DEF c
<1>5. LET t == <<s[i]>> \o c
      IN  /\ t \in Seq(Element) /\ Len(t) = Len(s) /\ t[1] = s[i]
          /\ \A j \in 2 .. Len(s) : t[j] = c[j - 1]
  BY <1>0, <1>4 DEF c
<1>6. \A j \in 2 .. Len(s) : c[j - 1] = IF j <= i THEN s[j - 1] ELSE s[j]
  <2> TAKE j \in 2 .. Len(s)
  <2>1. j - 1 \in 1 .. Len(s) - 1 /\ (j - 1) + 1 = j /\ (j - 1 < i <=> j <= i)
    BY <1>0
  <2> QED BY <1>4, <2>1 DEF c
<1> QED BY <1>3, <1>5, <1>6 DEF c

LEMMA PutInFront ==
  ASSUME NEW s \in Seq(Element), NEW n \in 0 .. Len(s), NEW e \in Element
  PROVE  LET t == <<e>> \o SubSeq(s, 1, n)
         IN  /\ t \in Seq(Element) /\ Len(t) = n + 1 /\ t[1] = e
             /\ \A j \in 2 .. n + 1 : t[j] = s[j - 1]
<1> DEFINE c == SubSeq(s, 1, n)
<1>1. c \in Seq(Element) /\ Len(c) = n /\ \A j \in 1 .. n : c[j] = s[j]
  OBVIOUS
<1> HIDE DEF c
<1>2. LET t == <<e>> \o c
      IN  /\ t \in Seq(Element) /\ Len(t) = n + 1 /\ t[1] = e
          /\ \A j \in 2 .. n + 1 : t[j] = c[j - 1]
  BY <1>1
<1> QED BY <1>1, <1>2 DEF c

(* A cached key has one place in the list. *)
LEMMA PlaceOf ==
  ASSUME TypeOK, ListAgrees, NEW k \in entries
  PROVE  Place(k) \in 1 .. Len(lru) /\ lru[Place(k)].key = k
<1>1. PICK i \in 1 .. Len(lru) : lru[i].key = k
  BY DEF ListAgrees
<1>2. \A j \in 1 .. i - 1 : lru[j].key # k
  BY <1>1 DEF ListAgrees, TypeOK
<1> QED BY <1>1, <1>2 DEF Place

LEMMA HitInv ==
  ASSUME Inv, NEW p \in Requests, Hit(p)
  PROVE  Inv'
<1> DEFINE k == proc[p].key
           i == Place(k)
<1>1. /\ proc[p].at = "get" /\ k \in entries /\ k \in Keys
      /\ UNCHANGED <<objects, gone, changes, entries, flights>>
      /\ lru' = <<lru[i]>> \o RemoveAt(lru, i)
      /\ proc' = [proc EXCEPT ![p] = Done(k, lru[i].value)]
  BY ProcFields DEF Hit, Goes, disk, Inv
<1>2. i \in 1 .. Len(lru) /\ lru[i].key = k /\ lru \in Seq(Element)
  BY <1>1, PlaceOf DEF Inv, TypeOK
<1> HIDE DEF i
<1>3. /\ lru' \in Seq(Element) /\ Len(lru') = Len(lru) /\ lru'[1] = lru[i]
      /\ \A j \in 2 .. Len(lru) : lru'[j] = IF j <= i THEN lru[j - 1] ELSE lru[j]
  BY <1>1, <1>2, MovedToFront
<1>4. lru[i].value \in Metadata /\ Known(k, lru[i].value)
  <2>1. lru[i] \in Element
    BY <1>2
  <2>2. Known(lru[i].key, lru[i].value)
    BY <1>2 DEF Inv, ValuesTrue
  <2> QED BY <1>2, <2>1, <2>2 DEF Element
<1>5. TypeOK'
  BY <1>1, <1>3, <1>4 DEF Inv, TypeOK, Proc, Done
<1>6. \A q \in Requests : q # p => proc'[q] = proc[q]
  BY <1>1 DEF Inv, TypeOK
<1>7. proc'[p].at = "done" /\ proc'[p].key = k /\ proc'[p].value = lru[i].value
  BY <1>1 DEF Inv, TypeOK, Done
<1>8. \A q \in Requests, j \in Keys : Decoding(q, j)' <=> Decoding(q, j)
  BY <1>1, <1>6, <1>7 DEF Decoding
<1>9. FlightsFlown' /\ Apart'
  BY <1>1, <1>6, <1>7, <1>8 DEF Inv, TypeOK, FlightsFlown, Apart
<1>10. Len(lru) \in Nat
  BY <1>2
<1>11. \A j \in 1 .. Len(lru') : \E m \in 1 .. Len(lru) :
          /\ lru'[j] = lru[m]
          /\ j = 1 => m = i
          /\ 1 < j /\ j <= i => m = j - 1
          /\ 1 < j /\ i < j => m = j
  BY <1>2, <1>3, <1>10
<1>12. \A m \in 1 .. Len(lru) : \E j \in 1 .. Len(lru') : lru'[j] = lru[m]
  <2> TAKE m \in 1 .. Len(lru)
  <2>1. CASE m = i
    BY <2>1, <1>2, <1>3
  <2>2. CASE m < i
    <3>1. m + 1 \in 2 .. Len(lru) /\ m + 1 <= i /\ (m + 1) - 1 = m
      BY <2>2, <1>2, <1>10
    <3> QED BY <3>1, <1>3, <1>10
  <2>3. CASE m > i
    <3>1. m \in 2 .. Len(lru) /\ ~(m <= i)
      BY <2>3, <1>2, <1>10
    <3> QED BY <3>1, <1>3, <1>10
  <2> QED BY <2>1, <2>2, <2>3, <1>2
<1>13. ListAgrees'
  <2>1. entries' = {lru'[j].key : j \in 1 .. Len(lru')}
    <3>1. entries' = {lru[j].key : j \in 1 .. Len(lru)}
      BY <1>1 DEF Inv, ListAgrees
    <3>2. \A x : (\E j \in 1 .. Len(lru) : x = lru[j].key)
                 <=> \E j \in 1 .. Len(lru') : x = lru'[j].key
      BY <1>11, <1>12
    <3> QED BY <3>1, <3>2
  <2>2. ASSUME NEW j \in 1 .. Len(lru'), NEW l \in 1 .. Len(lru'), lru'[j].key = lru'[l].key
        PROVE  j = l
    <3>1. PICK m \in 1 .. Len(lru) :
            /\ lru'[j] = lru[m]
            /\ j = 1 => m = i
            /\ 1 < j /\ j <= i => m = j - 1
            /\ 1 < j /\ i < j => m = j
      BY <1>11
    <3>2. PICK o \in 1 .. Len(lru) :
            /\ lru'[l] = lru[o]
            /\ l = 1 => o = i
            /\ 1 < l /\ l <= i => o = l - 1
            /\ 1 < l /\ i < l => o = l
      BY <1>11
    <3>3. m = o
      BY <2>2, <3>1, <3>2 DEF Inv, ListAgrees
    <3> QED BY <1>2, <1>3, <1>10, <3>1, <3>2, <3>3
  <2> QED BY <1>1, <1>3, <2>1, <2>2 DEF Inv, ListAgrees
<1>14. ValuesTrue'
  <2>1. \A j \in 1 .. Len(lru') : Known(lru'[j].key, lru'[j].value)
    BY <1>11 DEF Inv, ValuesTrue
  <2> QED BY <1>1, <1>4, <1>6, <1>7, <2>1 DEF Inv, ValuesTrue, Known
<1> QED BY <1>5, <1>9, <1>13, <1>14 DEF Inv

(* The new element takes the place of those that are evicted. *)
LEMMA InsertList ==
  ASSUME TypeOK, ListAgrees, NEW k \in Keys, NEW v \in Metadata, k \notin entries,
         Insert(k, v)
  PROVE  /\ lru' \in Seq(Element) /\ ListAgrees'
         /\ entries' \subseteq entries \cup {k}
         /\ \A i \in 1 .. Len(lru') :
              lru'[i] = [key |-> k, value |-> v] \/ \E j \in 1 .. Len(lru) : lru'[i] = lru[j]
<1> DEFINE e == [key |-> k, value |-> v]
<1>1. PICK n \in 0 .. Len(lru) :
        /\ Stays(n, v)
        /\ lru' = <<e>> \o SubSeq(lru, 1, n)
        /\ entries' = (entries \ {lru[i].key : i \in n + 1 .. Len(lru)}) \cup {k}
  BY DEF Insert
<1>2. e \in Element /\ e.key = k
  BY DEF Element
<1>3. n < MaxEntries
  BY <1>1 DEF Stays, Room
<1>4. lru \in Seq(Element) /\ Len(lru) \in Nat /\ n \in Nat
  BY DEF TypeOK
<1> HIDE DEF e
<1>5. /\ lru' \in Seq(Element) /\ Len(lru') = n + 1 /\ lru'[1] = e
      /\ \A j \in 2 .. n + 1 : lru'[j] = lru[j - 1]
  BY <1>1, <1>2, <1>4, PutInFront
<1>6. \A j \in 2 .. n + 1 : j - 1 \in 1 .. Len(lru) /\ j - 1 <= n
  BY <1>4
<1>7. \A m \in 1 .. n : m + 1 \in 2 .. n + 1 /\ lru'[m + 1] = lru[m]
  BY <1>4, <1>5
<1>8. \A m \in 1 .. Len(lru) : lru[m].key # k
  BY DEF ListAgrees
<1>9. \A x : x \in entries' <=> \E j \in 1 .. Len(lru') : x = lru'[j].key
  <2> TAKE x
  <2>1. x \in entries' <=> x = k \/ \E m \in 1 .. n : x = lru[m].key
    <3>1. x \in entries <=> \E m \in 1 .. Len(lru) : x = lru[m].key
      BY DEF ListAgrees
    <3>2. ASSUME NEW m \in 1 .. n, x = lru[m].key
          PROVE  x \notin {lru[i].key : i \in n + 1 .. Len(lru)} /\ x \in entries
      <4>1. m \in 1 .. Len(lru)
        BY <1>4
      <4>2. \A i \in n + 1 .. Len(lru) : i \in 1 .. Len(lru) /\ i # m
        BY <1>4
      <4> QED BY <3>2, <4>1, <4>2, <3>1 DEF ListAgrees
    <3>3. ASSUME x \in entries, x \notin {lru[i].key : i \in n + 1 .. Len(lru)}
          PROVE  \E m \in 1 .. n : x = lru[m].key
      <4>1. PICK m \in 1 .. Len(lru) : x = lru[m].key
        BY <3>1, <3>3
      <4>2. m \notin n + 1 .. Len(lru)
        BY <3>3, <4>1
      <4>3. m \in 1 .. n
        BY <1>4, <4>2
      <4> QED BY <4>1, <4>3
    <3> QED BY <1>1, <3>2, <3>3
  <2>2. (\E j \in 1 .. Len(lru') : x = lru'[j].key)
        <=> x = k \/ \E m \in 1 .. n : x = lru[m].key
    <3>1. ASSUME NEW j \in 1 .. Len(lru'), x = lru'[j].key
          PROVE  x = k \/ \E m \in 1 .. n : x = lru[m].key
      <4>1. CASE j = 1
        BY <3>1, <4>1, <1>2, <1>5
      <4>2. CASE j # 1
        <5>1. j \in 2 .. n + 1 /\ j - 1 \in 1 .. n
          BY <4>2, <1>4, <1>5
        <5> QED BY <3>1, <5>1, <1>5
      <4> QED BY <4>1, <4>2
    <3>2. 1 \in 1 .. Len(lru') /\ \A m \in 1 .. n : m + 1 \in 1 .. Len(lru')
      BY <1>4, <1>5
    <3> QED BY <3>1, <3>2, <1>2, <1>5, <1>7
  <2> QED BY <2>1, <2>2
<1>10. \A i, j \in 1 .. Len(lru') : lru'[i].key = lru'[j].key => i = j
  <2> TAKE i, j \in 1 .. Len(lru')
  <2> HAVE lru'[i].key = lru'[j].key
  <2>1. CASE i = 1 /\ j = 1
    BY <2>1
  <2>2. CASE i = 1 /\ j # 1
    <3>1. j \in 2 .. n + 1
      BY <2>2, <1>4, <1>5
    <3> QED BY <2>2, <3>1, <1>2, <1>5, <1>6, <1>8
  <2>3. CASE i # 1 /\ j = 1
    <3>1. i \in 2 .. n + 1
      BY <2>3, <1>4, <1>5
    <3> QED BY <2>3, <3>1, <1>2, <1>5, <1>6, <1>8
  <2>4. CASE i # 1 /\ j # 1
    <3>1. i \in 2 .. n + 1 /\ j \in 2 .. n + 1
      BY <2>4, <1>4, <1>5
    <3>2. lru[i - 1].key = lru[j - 1].key
      BY <3>1, <1>5
    <3>3. i - 1 = j - 1
      BY <3>1, <3>2, <1>6 DEF ListAgrees
    <3> QED BY <3>1, <3>3
  <2> QED BY <2>1, <2>2, <2>3, <2>4
<1>11. Len(lru') <= MaxEntries
  BY <1>3, <1>4, <1>5, CacheAssumption
<1>12. ListAgrees'
  BY <1>9, <1>10, <1>11 DEF ListAgrees
<1>13. \A i \in 1 .. Len(lru') : lru'[i] = e \/ \E j \in 1 .. Len(lru) : lru'[i] = lru[j]
  <2> TAKE i \in 1 .. Len(lru')
  <2>1. i = 1 \/ i \in 2 .. n + 1
    BY <1>4, <1>5
  <2> QED BY <2>1, <1>5, <1>6
<1>14. entries' \subseteq entries \cup {k}
  BY <1>1
<1> QED BY <1>5, <1>12, <1>13, <1>14 DEF e

LEMMA PutInv ==
  ASSUME Inv, NEW p \in Requests, Put(p)
  PROVE  Inv'
<1> DEFINE k == proc[p].key
           v == proc[p].value
<1>1. /\ proc[p].at = "put" /\ k \in Keys /\ v \in Metadata
      /\ IF Cacheable(v) THEN Insert(k, v) ELSE UNCHANGED <<lru, entries, bytes>>
      /\ UNCHANGED <<objects, gone, changes>>
      /\ flights' = flights \ {k}
      /\ Landed(p, k, v)
  BY ProcFields DEF Put, Inv, disk
<1>2. Known(k, v)
  BY <1>1 DEF Inv, ValuesTrue
<1>3. k \in flights /\ k \notin entries
  BY <1>1 DEF Inv, FlightsFlown, Apart, Decoding
<1> HIDE DEF k, v
<1>4. /\ lru' \in Seq(Element) /\ ListAgrees'
      /\ entries' \subseteq entries \cup {k} /\ entries' \subseteq Keys
      /\ \A i \in 1 .. Len(lru') :
           lru'[i] = [key |-> k, value |-> v] \/ \E j \in 1 .. Len(lru) : lru'[i] = lru[j]
  <2>1. CASE Cacheable(v)
    <3>1. Insert(k, v)
      BY <1>1, <2>1
    <3>2. TypeOK /\ ListAgrees
      BY DEF Inv
    <3> QED BY <1>1, <1>3, <3>1, <3>2, InsertList DEF TypeOK
  <2>2. CASE ~Cacheable(v)
    <3>1. lru' = lru /\ entries' = entries
      BY <1>1, <2>2
    <3> QED BY <3>1 DEF Inv, TypeOK, ListAgrees
  <2> QED BY <2>1, <2>2
<1>5. /\ proc' \in [Requests -> Proc]
      /\ \A q \in Requests :
           IF q = p \/ proc[q] = [at |-> "wait", key |-> k]
           THEN /\ proc'[q].at = "done" /\ proc'[q].key = k /\ proc'[q].value = v
           ELSE proc'[q] = proc[q]
  <2>1. Done(k, v) \in Proc /\ Done(k, v).at = "done" /\ Done(k, v).key = k
        /\ Done(k, v).value = v
    BY <1>1 DEF Done, Proc
  <2>2. proc \in [Requests -> Proc]
    BY DEF Inv, TypeOK
  <2> QED BY <1>1, <2>1, <2>2 DEF Landed
<1>6. TypeOK'
  BY <1>1, <1>4, <1>5 DEF Inv, TypeOK
<1>7. \A q \in Requests, j \in Keys : Decoding(q, j)' <=> Decoding(q, j) /\ q # p
  BY <1>5 DEF Decoding
<1>8. \A q \in Requests : Decoding(q, k) <=> q = p
  BY <1>1 DEF Inv, FlightsFlown, Decoding, k
<1>9. FlightsFlown'
  <2>1. \A q, r \in Requests, j \in Keys : Decoding(q, j)' /\ Decoding(r, j)' => q = r
    BY <1>7 DEF Inv, FlightsFlown
  <2>2. \A q \in Requests, j \in Keys : Decoding(q, j)' => j \in flights'
    BY <1>1, <1>7, <1>8 DEF Inv, FlightsFlown
  <2>3. \A j \in flights' : \E q \in Requests : Decoding(q, j)'
    <3> TAKE j \in flights'
    <3>1. j \in flights /\ j # k /\ j \in Keys
      BY <1>1 DEF Inv, TypeOK
    <3>2. PICK q \in Requests : Decoding(q, j)
      BY <3>1 DEF Inv, FlightsFlown
    <3>3. q # p
      BY <3>1, <3>2 DEF Decoding, k
    <3> QED BY <3>1, <3>2, <3>3, <1>7
  <2>4. \A q \in Requests : proc'[q].at = "wait" => proc'[q].key \in flights'
    <3> TAKE q \in Requests
    <3> HAVE proc'[q].at = "wait"
    <3>1. proc'[q] = proc[q] /\ proc[q].at = "wait" /\ proc[q] # [at |-> "wait", key |-> k]
      BY <1>5
    <3>2. proc[q].key \in flights
      BY <3>1 DEF Inv, FlightsFlown
    <3>3. proc[q].key # k
      BY <3>1 DEF Inv, TypeOK, Proc, Idle
    <3> QED BY <3>1, <3>2, <3>3, <1>1
  <2> QED BY <2>1, <2>2, <2>3, <2>4 DEF FlightsFlown
<1>10. Apart'
  BY <1>1, <1>4 DEF Inv, Apart
<1>11. ValuesTrue'
  <2>1. (Keys \ objects \subseteq gone)'
    BY <1>1 DEF Inv, ValuesTrue
  <2>2. \A i \in 1 .. Len(lru') : Known(lru'[i].key, lru'[i].value)
    BY <1>2, <1>4 DEF Inv, ValuesTrue
  <2>3. \A q \in Requests : proc'[q].at \in {"put", "done"} =>
          Known(proc'[q].key, proc'[q].value)
    BY <1>2, <1>5 DEF Inv, ValuesTrue
  <2> QED BY <1>1, <2>1, <2>2, <2>3 DEF ValuesTrue, Known
<1> QED BY <1>4, <1>6, <1>9, <1>10, <1>11 DEF Inv

-----------------------------------------------------------------------------
(* Steps of the disk                                                       *)

LEMMA DiskInv ==
  ASSUME Inv, UNCHANGED <<cache, proc>>, objects' \subseteq Keys, gone' \subseteq Keys,
         changes' \in Nat, gone \subseteq gone', Keys \ objects' \subseteq gone'
  PROVE  Inv'
<1>1. UNCHANGED <<lru, entries, flights, proc>>
  BY DEF cache
<1>2. TypeOK' /\ ListAgrees' /\ Apart'
  BY <1>1 DEF Inv, TypeOK, ListAgrees, Apart
<1>3. FlightsFlown'
  BY <1>1 DEF Inv, FlightsFlown, Decoding
<1>4. ValuesTrue'
  BY <1>1 DEF Inv, ValuesTrue, Known
<1> QED BY <1>2, <1>3, <1>4 DEF Inv

LEMMA StoreObjectInv ==
  ASSUME Inv, NEW k \in Keys, StoreObject(k)
  PROVE  Inv'
<1>1. /\ objects' = objects \cup {k} /\ gone' = gone /\ changes' = changes + 1
      /\ UNCHANGED <<cache, proc>>
  BY DEF StoreObject, Change
<1> QED BY <1>1, DiskInv DEF Inv, TypeOK, ValuesTrue

LEMMA DeleteObjectInv ==
  ASSUME Inv, NEW k \in Keys, DeleteObject(k)
  PROVE  Inv'
<1>1. /\ objects' = objects \ {k} /\ gone' = gone \cup {k} /\ changes' = changes + 1
      /\ UNCHANGED <<cache, proc>>
  BY DEF DeleteObject, Change
<1> QED BY <1>1, DiskInv DEF Inv, TypeOK, ValuesTrue

LEMMA NextInv == Inv /\ [Next]_vars => Inv'
<1> SUFFICES ASSUME Inv, [Next]_vars PROVE Inv'
  OBVIOUS
<1>1. ASSUME NEW p \in Requests, Step(p) PROVE Inv'
  BY <1>1, HitInv, JoinInv, DepartInv, LoadInv, PutInv, ReturnInv DEF Step
<1>2. ASSUME NEW p \in Requests, NEW k \in Keys, Ask(p, k) PROVE Inv'
  BY <1>2, AskInv
<1>3. ASSUME NEW k \in Keys, StoreObject(k) \/ DeleteObject(k) PROVE Inv'
  BY <1>3, StoreObjectInv, DeleteObjectInv
<1>4. CASE UNCHANGED vars
  <2>1. UNCHANGED <<objects, gone, changes, cache, proc>>
    BY <1>4 DEF vars, disk
  <2> QED BY <2>1, DiskInv DEF Inv, TypeOK, ValuesTrue
<1> QED BY <1>1, <1>2, <1>3, <1>4 DEF Next

-----------------------------------------------------------------------------
(* Sums of sizes                                                           *)

(* A set that holds 0 and with every number the next one holds them all:   *)
(* a number it lacks would have a least one among its like.                *)
LEMMA Induction ==
  ASSUME NEW T, 0 \in T, \A n \in Nat : n \in T => n + 1 \in T
  PROVE  \A n \in Nat : n \in T
<1> DEFINE R == OpToRel(<, Nat)
           B == Nat \ T
<1>1. IsWellFoundedOn(R, Nat)
  BY NatLessThanWellFounded
<1>2. \A m, n \in Nat : m < n => <<m, n>> \in R
  BY DEF OpToRel
<1> SUFFICES ASSUME B # {} PROVE FALSE
  OBVIOUS
<1> HIDE DEF R
<1>3. PICK x \in B : \A y \in B : ~(<<y, x>> \in R)
  <2>1. B \subseteq Nat
    OBVIOUS
  <2> HIDE DEF B
  <2> QED BY <1>1, <2>1, WFMin
<1>4. x \in Nat /\ x # 0
  BY <1>3
<1>5. x - 1 \in Nat /\ x - 1 < x
  BY <1>4
<1>6. x - 1 \in T
  BY <1>2, <1>3, <1>4, <1>5
<1>7. (x - 1) + 1 \in T
  BY <1>5, <1>6
<1> QED BY <1>3, <1>4, <1>7

(* A nonempty set of numbers up to n has a greatest one. *)
LEMMA Greatest ==
  ASSUME NEW n \in Nat, NEW S \in SUBSET (0 .. n), S # {}
  PROVE  \E m \in S : \A i \in S : i <= m
<1> DEFINE T == {k \in Nat : \/ \E m \in S : \A i \in S : i <= m
                            \/ \A i \in S : i + k <= n}
<1>1. 0 \in T
  OBVIOUS
<1>2. ASSUME NEW k \in Nat, k \in T PROVE k + 1 \in T
  <2>1. CASE n - k \in S /\ \A i \in S : i + k <= n
    <3>1. \A i \in S : i <= n - k
      BY <2>1
    <3> QED BY <2>1, <3>1
  <2>2. CASE n - k \notin S /\ \A i \in S : i + k <= n
    <3>1. \A i \in S : i + (k + 1) <= n
      BY <2>2
    <3> QED BY <3>1
  <2> QED BY <1>2, <2>1, <2>2
<1>3. n + 1 \in T
  <2> HIDE DEF T
  <2> QED BY <1>1, <1>2, Induction
<1>4. PICK i \in S : TRUE
  OBVIOUS
<1>5. i \in Nat /\ ~(i + (n + 1) <= n)
  BY <1>4
<1> QED BY <1>3, <1>4, <1>5

(* f holds the partial sums of the first n weights. *)
AddsUp(f, n, w) == f[0] = 0 /\ \A i \in 1 .. n : f[i] = f[i - 1] + w[i]

(* Partial sums of any weights exist and are unique: this is what makes    *)
(* the recursion of Total a definition.                                    *)
LEMMA SumsExist ==
  ASSUME NEW n \in Nat, NEW w \in [1 .. n -> Nat]
  PROVE  \E f \in [0 .. n -> Nat] : AddsUp(f, n, w)
<1> DEFINE Good(m) == \E f \in [0 .. m -> Nat] : AddsUp(f, m, w)
           T == {m \in Nat : m <= n => Good(m)}
<1>1. Good(0)
  <2> DEFINE f == [i \in 0 .. 0 |-> 0]
  <2>1. f \in [0 .. 0 -> Nat] /\ AddsUp(f, 0, w)
    BY DEF AddsUp
  <2> QED BY <2>1
<1>2. ASSUME NEW m \in Nat, m + 1 <= n, Good(m) PROVE Good(m + 1)
  <2>1. PICK f \in [0 .. m -> Nat] : AddsUp(f, m, w)
    BY <1>2
  <2> DEFINE g == [i \in 0 .. m + 1 |-> IF i = m + 1 THEN f[m] + w[m + 1] ELSE f[i]]
  <2>2. f[m] \in Nat /\ w[m + 1] \in Nat
    <3>1. m \in 0 .. m /\ m + 1 \in 1 .. n
      BY <1>2
    <3> QED BY <3>1
  <2>3. \A i \in 0 .. m + 1 : i = m + 1 \/ i \in 0 .. m
    OBVIOUS
  <2>4. g \in [0 .. m + 1 -> Nat]
    BY <2>2, <2>3
  <2>5. g[0] = 0
    <3>1. 0 \in 0 .. m + 1 /\ 0 # m + 1
      OBVIOUS
    <3> QED BY <2>1, <3>1 DEF AddsUp
  <2>6. ASSUME NEW i \in 1 .. m + 1 PROVE g[i] = g[i - 1] + w[i]
    <3>1. CASE i = m + 1
      BY <3>1
    <3>2. CASE i # m + 1
      <4>1. i \in 1 .. m /\ i - 1 \in 0 .. m /\ i - 1 # m + 1
        BY <3>2
      <4> QED BY <2>1, <4>1 DEF AddsUp
    <3> QED BY <3>1, <3>2
  <2> HIDE DEF g
  <2> QED BY <2>4, <2>5, <2>6 DEF AddsUp
<1> HIDE DEF Good
<1>3. 0 \in T
  BY <1>1
<1>4. ASSUME NEW m \in Nat, m \in T PROVE m + 1 \in T
  <2>1. m + 1 <= n => m <= n
    OBVIOUS
  <2>2. m <= n => Good(m)
    BY <1>4
  <2> QED BY <1>2, <2>1, <2>2
<1>5. n \in T
  <2> HIDE DEF T
  <2> QED BY <1>3, <1>4, Induction
<1> QED BY <1>5 DEF Good

LEMMA SumsUnique ==
  ASSUME NEW n \in Nat, NEW w, NEW f, NEW g, AddsUp(f, n, w), AddsUp(g, n, w)
  PROVE  \A i \in 0 .. n : f[i] = g[i]
<1> DEFINE T == {i \in Nat : i <= n => f[i] = g[i]}
<1>1. 0 \in T
  BY DEF AddsUp
<1>2. ASSUME NEW i \in Nat, i \in T PROVE i + 1 \in T
  <2>1. CASE i + 1 <= n
    <3>1. i + 1 \in 1 .. n /\ (i + 1) - 1 = i /\ i <= n
      BY <2>1
    <3> QED BY <1>2, <3>1 DEF AddsUp
  <2> QED BY <2>1
<1>3. \A i \in Nat : i \in T
  <2> HIDE DEF T
  <2> QED BY <1>1, <1>2, Induction
<1> QED BY <1>3

Weights(s) == [i \in 1 .. Len(s) |-> Size[s[i].value]]

LEMMA WeightsType ==
  ASSUME NEW s \in Seq(Element)
  PROVE  Len(s) \in Nat /\ Weights(s) \in [1 .. Len(s) -> Nat]
<1>1. Len(s) \in Nat /\ \A i \in 1 .. Len(s) : s[i] \in Element
  OBVIOUS
<1>2. \A e \in Element : Size[e.value] \in Nat
  BY CacheAssumption DEF Element, Metadata
<1> QED BY <1>1, <1>2 DEF Weights

(* The partial sums of a list, of which Total is the last. *)
LEMMA TotalIsSum ==
  ASSUME NEW s \in Seq(Element)
  PROVE  \E f \in [0 .. Len(s) -> Nat] : AddsUp(f, Len(s), Weights(s)) /\ Total(s) = f[Len(s)]
<1> DEFINE Equation(h) == h = [i \in 0 .. Len(s) |->
                                 IF i = 0 THEN 0 ELSE h[i - 1] + Size[s[i].value]]
           g == CHOOSE h : Equation(h)
<1>1. Len(s) \in Nat /\ Weights(s) \in [1 .. Len(s) -> Nat]
  BY WeightsType
<1>2. PICK f \in [0 .. Len(s) -> Nat] : AddsUp(f, Len(s), Weights(s))
  BY <1>1, SumsExist
<1>3. Equation(f)
  <2>1. \A i \in 0 .. Len(s) : f[i] = IF i = 0 THEN 0 ELSE f[i - 1] + Size[s[i].value]
    BY <1>1, <1>2 DEF AddsUp, Weights
  <2> QED BY <1>2, <2>1
<1>4. Equation(g)
  <2> HIDE DEF Equation
  <2> QED BY <1>3
<1>5. AddsUp(g, Len(s), Weights(s))
  <2> HIDE DEF g
  <2> QED BY <1>1, <1>4 DEF AddsUp, Weights
<1>6. Total(s) = g[Len(s)]
  BY DEF Total
<1> HIDE DEF g, Equation
<1>7. g[Len(s)] = f[Len(s)]
  BY <1>1, <1>2, <1>5, SumsUnique
<1> QED BY <1>2, <1>6, <1>7

LEMMA TotalUnique ==
  ASSUME NEW s \in Seq(Element), NEW f, AddsUp(f, Len(s), Weights(s))
  PROVE  Total(s) = f[Len(s)]
<1>1. PICK g \in [0 .. Len(s) -> Nat] :
        AddsUp(g, Len(s), Weights(s)) /\ Total(s) = g[Len(s)]
  BY TotalIsSum
<1>2. Len(s) \in Nat
  OBVIOUS
<1>3. f[Len(s)] = g[Len(s)]
  BY <1>1, <1>2, SumsUnique
<1> QED BY <1>1, <1>3

LEMMA TotalNat ==
  ASSUME NEW s \in Seq(Element)
  PROVE  Total(s) \in Nat
BY TotalIsSum, WeightsType

LEMMA TotalEmpty == Total(<<>>) = 0
<1>1. <<>> \in Seq(Element) /\ Len(<<>>) = 0
  OBVIOUS
<1>2. \E f \in [0 .. Len(<<>>) -> Nat] :
         AddsUp(f, Len(<<>>), Weights(<<>>)) /\ Total(<<>>) = f[Len(<<>>)]
  BY <1>1, TotalIsSum
<1> QED BY <1>1, <1>2 DEF AddsUp

LEMMA TotalOne ==
  ASSUME NEW e \in Element
  PROVE  Total(<<e>>) = Size[e.value]
<1> DEFINE s == <<e>>
<1>1. s \in Seq(Element) /\ Len(s) = 1 /\ s[1] = e
  OBVIOUS
<1> HIDE DEF s
<1>2. PICK f \in [0 .. Len(s) -> Nat] :
        AddsUp(f, Len(s), Weights(s)) /\ Total(s) = f[Len(s)]
  BY <1>1, TotalIsSum
<1>3. f[1] = f[0] + Weights(s)[1] /\ f[0] = 0 /\ Weights(s)[1] \in Nat
  <2>1. 1 \in 1 .. Len(s) /\ 1 - 1 = 0
    BY <1>1
  <2>2. Weights(s) \in [1 .. Len(s) -> Nat]
    BY <1>1, WeightsType
  <2> QED BY <1>2, <2>1, <2>2 DEF AddsUp
<1>4. Weights(s)[1] = Size[e.value]
  BY <1>1 DEF Weights
<1>5. Total(s) = Size[e.value]
  BY <1>1, <1>2, <1>3, <1>4
<1> QED BY <1>5 DEF s

LEMMA TotalConcat ==
  ASSUME NEW s \in Seq(Element), NEW t \in Seq(Element)
  PROVE  Total(s \o t) = Total(s) + Total(t)
<1> DEFINE u == s \o t
           m == Len(s)
           n == Len(t)
           v == Weights(s)
           w == Weights(t)
           x == Weights(u)
<1>1. /\ u \in Seq(Element) /\ Len(u) = m + n
      /\ \A i \in 1 .. m + n : u[i] = IF i <= m THEN s[i] ELSE t[i - m]
  BY ConcatProperties
<1>2. m \in Nat /\ n \in Nat /\ v \in [1 .. m -> Nat] /\ w \in [1 .. n -> Nat]
  BY WeightsType
<1>3. PICK f \in [0 .. m -> Nat] : AddsUp(f, m, v) /\ Total(s) = f[m]
  BY TotalIsSum
<1>4. PICK g \in [0 .. n -> Nat] : AddsUp(g, n, w) /\ Total(t) = g[n]
  BY TotalIsSum
<1>5. \A i \in 1 .. m + n : /\ i <= m => i \in 1 .. m /\ x[i] = v[i]
                            /\ ~(i <= m) => i - m \in 1 .. n /\ x[i] = w[i - m]
  <2> TAKE i \in 1 .. m + n
  <2>1. x[i] = Size[u[i].value]
    BY <1>1 DEF Weights
  <2>2. CASE i <= m
    <3>1. i \in 1 .. m /\ u[i] = s[i]
      BY <1>1, <1>2, <2>2
    <3> QED BY <2>1, <2>2, <3>1 DEF Weights
  <2>3. CASE ~(i <= m)
    <3>1. i - m \in 1 .. n /\ u[i] = t[i - m]
      BY <1>1, <1>2, <2>3
    <3> QED BY <2>1, <2>3, <3>1 DEF Weights
  <2> QED BY <2>2, <2>3
<1> HIDE DEF u, m, n, v, w, x
<1> DEFINE h == [i \in 0 .. m + n |-> IF i <= m THEN f[i] ELSE f[m] + g[i - m]]
<1>6. f[m] \in Nat /\ f[0] = 0 /\ g[0] = 0
  BY <1>2, <1>3, <1>4 DEF AddsUp
<1>7. \A i \in 0 .. m : i \in 0 .. m + n /\ h[i] = f[i]
  BY <1>2
<1>8. \A j \in 0 .. n : m + j \in 0 .. m + n /\ h[m + j] = f[m] + g[j]
  <2> TAKE j \in 0 .. n
  <2>1. m + j \in 0 .. m + n /\ (m + j) - m = j /\ (m + j <= m <=> j = 0)
    BY <1>2
  <2>2. CASE j = 0
    BY <1>2, <1>6, <1>7, <2>1, <2>2
  <2>3. CASE j # 0
    BY <2>1, <2>3
  <2> QED BY <2>2, <2>3
<1> HIDE DEF h
<1>9. ASSUME NEW i \in 1 .. m + n PROVE h[i] = h[i - 1] + x[i]
  <2>1. CASE i <= m
    <3>1. i \in 1 .. m /\ i \in 0 .. m /\ i - 1 \in 0 .. m
      BY <1>2, <2>1
    <3>2. f[i] = f[i - 1] + v[i] /\ x[i] = v[i]
      BY <1>3, <1>5, <2>1, <3>1 DEF AddsUp
    <3> QED BY <1>7, <3>1, <3>2
  <2>2. CASE ~(i <= m)
    <3> DEFINE j == i - m
    <3>1. j \in 1 .. n /\ x[i] = w[j]
      BY <1>5, <2>2
    <3>2. j \in 0 .. n /\ j - 1 \in 0 .. n /\ i = m + j /\ i - 1 = m + (j - 1)
      BY <1>2, <3>1
    <3>3. g[j] = g[j - 1] + w[j] /\ g[j - 1] \in Nat /\ w[j] \in Nat
      BY <1>2, <1>4, <3>1, <3>2 DEF AddsUp
    <3>4. h[i] = f[m] + g[j] /\ h[i - 1] = f[m] + g[j - 1]
      BY <1>8, <3>2
    <3> HIDE DEF j
    <3> QED BY <1>6, <3>1, <3>3, <3>4
  <2> QED BY <2>1, <2>2
<1>10. AddsUp(h, m + n, x)
  <2>1. 0 \in 0 .. m
    BY <1>2
  <2> QED BY <1>6, <1>7, <1>9, <2>1 DEF AddsUp
<1>11. Total(u) = h[m + n]
  BY <1>1, <1>10, TotalUnique DEF x
<1>12. h[m + n] = f[m] + g[n]
  BY <1>2, <1>8
<1> QED BY <1>3, <1>4, <1>11, <1>12 DEF u

-----------------------------------------------------------------------------

(* The invariant that the theorems follow from. *)
THEOREM CacheInvariant == Spec => []Inv
<1>1. Init => Inv
  BY InitInv
<1>2. Inv /\ [Next]_vars => Inv'
  BY NextInv
<1> QED BY <1>1, <1>2, PTL DEF Spec

(* The map of the cache holds exactly the keys of its list, which holds    *)
(* each of them once and never more than the limit (metadataCache.get      *)
(* evicts before it inserts).                                              *)
THEOREM MapAndListAgree == Spec => []ListAgrees
<1>1. Inv => ListAgrees
  BY DEF Inv
<1> QED BY <1>1, CacheInvariant, PTL

(* However many requests arrive at once, a file is decoded by one of them, *)
(* never while it is cached, and nobody waits for a decoding that has      *)
(* ended (the flights of metadataCache.get).                               *)
THEOREM DecodedOnce == Spec => []OneDecoding
<1>1. Inv => OneDecoding
  <2> SUFFICES ASSUME Inv PROVE OneDecoding
    OBVIOUS
  <2>1. \A p, q \in Requests, k \in Keys : Decoding(p, k) /\ Decoding(q, k) => p = q
    BY DEF Inv, FlightsFlown
  <2>2. \A p \in Requests, k \in Keys : Decoding(p, k) => k \notin entries
    BY DEF Inv, FlightsFlown, Apart
  <2>3. \A p \in Requests : proc[p].at = "wait" => \E q \in Requests : Decoding(q, proc[p].key)
    BY DEF Inv, FlightsFlown
  <2> QED BY <2>1, <2>2, <2>3 DEF OneDecoding
<1> QED BY <1>1, CacheInvariant, PTL

(* The bytes counted are those of the list, whatever was evicted, and the  *)
(* limit holds.                                                            *)
Counted == bytes = Total(lru) /\ bytes <= MaxBytes

(* A list and its total, cut after n elements. *)
LEMMA TotalCut ==
  ASSUME NEW s \in Seq(Element), NEW n \in 0 .. Len(s)
  PROVE  /\ Total(s) = Total(SubSeq(s, 1, n)) + Total(SubSeq(s, n + 1, Len(s)))
         /\ Total(SubSeq(s, 1, n)) \in Nat
         /\ Total(SubSeq(s, n + 1, Len(s))) \in Nat
<1> DEFINE a == SubSeq(s, 1, n)
           b == SubSeq(s, n + 1, Len(s))
<1>0. Len(s) \in Nat
  OBVIOUS
<1>1. a \in Seq(Element) /\ b \in Seq(Element)
  OBVIOUS
<1>2. a \o b = SubSeq(s, 1, Len(s))
  <2>1. 1 \in 1 .. Len(s) + 1 /\ n \in 1 - 1 .. Len(s) /\ Len(s) \in n .. Len(s)
    BY <1>0
  <2> QED BY <2>1, ConcatAdjacentSubSeq
<1>3. a \o b = s
  BY <1>2, SubSeqFull
<1>4. Total(a \o b) = Total(a) + Total(b)
  BY <1>1, TotalConcat
<1>5. Total(a) \in Nat /\ Total(b) \in Nat
  BY <1>1, TotalNat
<1> QED BY <1>3, <1>4, <1>5

(* Moving an element to the front leaves the total as it is. *)
LEMMA TotalMoved ==
  ASSUME NEW s \in Seq(Element), NEW i \in 1 .. Len(s)
  PROVE  Total(<<s[i]>> \o RemoveAt(s, i)) = Total(s)
<1> DEFINE a == SubSeq(s, 1, i - 1)
           b == SubSeq(s, i, Len(s))
           c == SubSeq(s, i + 1, Len(s))
           e == <<s[i]>>
<1>0. Len(s) \in Nat /\ i - 1 \in 0 .. Len(s) /\ (i - 1) + 1 = i
  OBVIOUS
<1>1. a \in Seq(Element) /\ b \in Seq(Element) /\ c \in Seq(Element) /\ e \in Seq(Element)
  OBVIOUS
<1>2. Total(s) = Total(a) + Total(b)
  BY <1>0, TotalCut
<1>3. b = e \o c
  <2>1. i \in 1 .. Len(s) /\ Len(s) \in i .. Len(s)
    BY <1>0
  <2> QED BY <2>1, SubSeqRecursiveFirst
<1>4. RemoveAt(s, i) = a \o c
  BY DEF RemoveAt
<1> HIDE DEF a, b, c, e
<1>5. Total(b) = Total(e) + Total(c)
  BY <1>1, <1>3, TotalConcat
<1>6. a \o c \in Seq(Element) /\ Total(a \o c) = Total(a) + Total(c)
  BY <1>1, TotalConcat, ConcatProperties
<1>7. Total(e \o (a \o c)) = Total(e) + Total(a \o c)
  BY <1>1, <1>6, TotalConcat
<1>8. Total(a) \in Nat /\ Total(c) \in Nat /\ Total(e) \in Nat
  BY <1>1, TotalNat
<1>9. Total(e \o (a \o c)) = Total(s)
  BY <1>2, <1>5, <1>6, <1>7, <1>8
<1> QED BY <1>4, <1>9 DEF e

LEMMA CountedNext == Inv /\ Counted /\ [Next]_vars => Counted'
<1> SUFFICES ASSUME Inv, Counted, [Next]_vars PROVE Counted'
  OBVIOUS
<1>0. lru \in Seq(Element) /\ Len(lru) \in Nat
  BY DEF Inv, TypeOK
<1>1. ASSUME NEW p \in Requests, Hit(p) PROVE Counted'
  <2> DEFINE i == Place(proc[p].key)
  <2>1. lru' = <<lru[i]>> \o RemoveAt(lru, i) /\ bytes' = bytes
    BY <1>1 DEF Hit
  <2>2. i \in 1 .. Len(lru)
    BY <1>1, PlaceOf DEF Hit, Inv
  <2> HIDE DEF i
  <2>3. Total(lru') = Total(lru)
    BY <1>0, <2>1, <2>2, TotalMoved
  <2> QED BY <2>1, <2>3 DEF Counted
<1>2. ASSUME NEW k \in Keys, NEW v \in Metadata, Insert(k, v) PROVE Counted'
  <2> DEFINE e == [key |-> k, value |-> v]
  <2>1. PICK n \in 0 .. Len(lru) :
          /\ Stays(n, v)
          /\ lru' = <<e>> \o SubSeq(lru, 1, n)
          /\ bytes' = bytes - Total(SubSeq(lru, n + 1, Len(lru))) + Size[v]
    BY <1>2 DEF Insert
  <2> DEFINE a == SubSeq(lru, 1, n)
             b == SubSeq(lru, n + 1, Len(lru))
  <2>2. Total(lru) = Total(a) + Total(b) /\ Total(a) \in Nat /\ Total(b) \in Nat
    BY <1>0, TotalCut
  <2>3. e \in Element /\ e.value = v
    BY DEF Element
  <2>4. a \in Seq(Element)
    BY <1>0
  <2> HIDE DEF a, b, e
  <2>5. <<e>> \in Seq(Element) /\ Total(<<e>>) = Size[v]
    BY <2>3, TotalOne
  <2>6. Total(<<e>> \o a) = Total(<<e>>) + Total(a)
    BY <2>4, <2>5, TotalConcat
  <2>7. Size[v] \in Nat /\ MaxBytes \in Nat
    BY CacheAssumption DEF Metadata
  <2>8. bytes' <= MaxBytes
    BY <2>1 DEF Stays, Room, b
  <2>9. bytes' = Total(<<e>> \o a)
    BY <2>1, <2>2, <2>5, <2>6, <2>7 DEF Counted, a, b
  <2> QED BY <2>1, <2>8, <2>9 DEF Counted, a
<1>3. ASSUME NEW p \in Requests, Put(p) PROVE Counted'
  <2>1. proc[p].key \in Keys /\ proc[p].value \in Metadata
    BY <1>3, ProcFields DEF Put, Inv
  <2>2. CASE Cacheable(proc[p].value)
    BY <1>2, <1>3, <2>1, <2>2 DEF Put
  <2>3. CASE ~Cacheable(proc[p].value)
    BY <1>3, <2>3 DEF Put, Counted
  <2> QED BY <2>2, <2>3
<1>4. CASE UNCHANGED <<lru, bytes>>
  BY <1>4 DEF Counted
<1>5. ASSUME NEW p \in Requests, Join(p) \/ Depart(p) \/ Load(p) \/ Return(p)
      PROVE  UNCHANGED <<lru, bytes>>
  BY <1>5 DEF Join, Depart, Load, Return, cache
<1>6. ASSUME NEW p \in Requests, NEW k \in Keys, Ask(p, k) PROVE UNCHANGED <<lru, bytes>>
  BY <1>6 DEF Ask, cache
<1>7. ASSUME NEW k \in Keys, StoreObject(k) \/ DeleteObject(k) PROVE UNCHANGED <<lru, bytes>>
  BY <1>7 DEF StoreObject, DeleteObject, Change, cache
<1>8. UNCHANGED vars => UNCHANGED <<lru, bytes>>
  BY DEF vars, cache
<1> QED BY <1>1, <1>3, <1>4, <1>5, <1>6, <1>7, <1>8 DEF Next, Step

(* The cache keeps its books: map and list hold the same elements, and the *)
(* bytes counted through all insertions and evictions are exactly those of *)
(* the elements, below both limits (metadataCache.get takes off what it    *)
(* evicts and adds what it puts in front).                                 *)
THEOREM CacheKeepsBooks == Spec => []CacheAgrees
<1>1. Init => Counted
  BY TotalEmpty, CacheAssumption DEF Init, Counted
<1>2. Inv /\ Counted => CacheAgrees
  BY DEF Inv, Counted, CacheAgrees
<1> QED BY <1>1, <1>2, CountedNext, CacheInvariant, PTL DEF Spec

(* Eviction never runs out of elements: whatever is cached, a value that   *)
(* fits the cache at all finds room when enough of the oldest go.  So the  *)
(* loop of metadataCache.get, which does not ask whether Back() found      *)
(* anything, ends before the list is empty or with it.                     *)
THEOREM RoomAlways ==
  Spec => [](\A v \in Metadata : Cacheable(v) => \E n \in 0 .. Len(lru) : Stays(n, v))
<1>1. Inv /\ CacheAgrees
      => \A v \in Metadata : Cacheable(v) => \E n \in 0 .. Len(lru) : Stays(n, v)
  <2> SUFFICES ASSUME Inv, CacheAgrees, NEW v \in Metadata, Cacheable(v)
               PROVE  \E n \in 0 .. Len(lru) : Stays(n, v)
    OBVIOUS
  <2> DEFINE S == {n \in 0 .. Len(lru) : Room(n, v)}
  <2>1. lru \in Seq(Element) /\ Len(lru) \in Nat
    BY DEF Inv, TypeOK
  <2>2. Room(0, v)
    <3>1. SubSeq(lru, 0 + 1, Len(lru)) = lru
      BY <2>1, SubSeqFull
    <3>2. bytes - Total(lru) = 0
      BY <2>1, TotalNat DEF CacheAgrees
    <3>3. /\ Size[v] \in Nat /\ Size[v] <= MaxBytes
          /\ MaxEntries \in Nat /\ MaxEntries > 0
      BY CacheAssumption DEF Cacheable, Metadata
    <3>4. 0 < MaxEntries
      BY <3>3
    <3>5. bytes - Total(SubSeq(lru, 0 + 1, Len(lru))) = 0
      BY <3>1, <3>2, Zenon
    <3>6. MaxBytes \in Nat
      BY CacheAssumption
    <3>7. bytes - Total(SubSeq(lru, 0 + 1, Len(lru))) + Size[v] <= MaxBytes
      <4> DEFINE evicted == bytes - Total(SubSeq(lru, 0 + 1, Len(lru)))
      <4>1. evicted = 0
        BY <3>5
      <4> HIDE DEF evicted
      <4>2. evicted + Size[v] <= MaxBytes
        BY <3>3, <3>6, <4>1
      <4> QED BY <4>2 DEF evicted
    <3> QED BY <3>4, <3>7 DEF Room
  <2>3. S # {} /\ S \in SUBSET (0 .. Len(lru))
    BY <2>1, <2>2
  <2>4. PICK m \in S : \A i \in S : i <= m
    <3> HIDE DEF S
    <3> QED BY <2>1, <2>3, Greatest
  <2>5. ASSUME NEW j \in m + 1 .. Len(lru) PROVE ~Room(j, v)
    <3>1. j \in 0 .. Len(lru) /\ ~(j <= m)
      BY <2>1, <2>4
    <3> QED BY <2>4, <3>1
  <2> QED BY <2>4, <2>5 DEF Stays
<1> QED BY <1>1, CacheInvariant, CacheKeepsBooks, PTL

(* What a request answers is the metadata of the object it was asked for,  *)
(* or nothing when that object has been missing (Store.objectMetadata).    *)
THEOREM AnswersAreTrue == Spec => []AnswersTrue
<1>1. Inv => AnswersTrue
  BY DEF Inv, ValuesTrue, AnswersTrue
<1> QED BY <1>1, CacheInvariant, PTL
=============================================================================
