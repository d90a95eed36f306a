---------------------------- MODULE TrackingProofs ----------------------------
(***************************************************************************)
(* Proofs about Tracking, for any number of books, entries and accounts    *)
(* and whatever fails.  trackingMu carries the argument: while a pass or   *)
(* an edit is under way nobody changes links or the account, so what it    *)
(* is about to write or acknowledge stays true of the link it read.  The   *)
(* service is not behind the mutex; of it only the history of what an      *)
(* entry has shown can be relied on, and for a pass that nobody disturbed  *)
(* the entry it read.                                                      *)
(***************************************************************************)
EXTENDS Tracking, TLAPS

(* The part of the fields that the patch names. *)
Raises(patch, e) ==
  /\ "chapter" \in DOMAIN patch => patch["chapter"] >= e.chapter
  /\ "volume" \in DOMAIN patch => patch["volume"] >= e.volume
  /\ "state" \in DOMAIN patch => e.state \notin {"paused", "completed"}

IsPatch(patch) == DOMAIN patch \subseteq DOMAIN Blank /\ Merge(Blank, patch) \in Entry

(* What is to be acknowledged of a book is shown by the entry already, or  *)
(* the patch will show it.                                                 *)
Shows(shown, volume, ack, patch) ==
  /\ \/ ack.chapter <= shown.chapter
     \/ "chapter" \in DOMAIN patch /\ ack.chapter <= patch["chapter"]
  /\ ack.step = 2 =>
       \/ volume <= shown.volume
       \/ "volume" \in DOMAIN patch /\ volume <= patch["volume"]

NoPatch == [f \in {} |-> 0]

Told(h) == told[h.to][h.series]

PassInv ==
  pass # None =>
    /\ mutex = "pass" /\ account # None /\ pass.to = account.id
    /\ \A b, c \in DOMAIN pass.acks : b = c
    /\ \A b \in DOMAIN pass.acks :
         /\ link[b] # None /\ link[b].series = pass.series
         /\ pass.acks[b].chapter <= Limit
         /\ pass.at = "put" => Shows(Told(pass), link[b].volume, pass.acks[b], pass.patch)
         /\ pass.at = "ack" => Shows(Told(pass), link[b].volume, pass.acks[b], NoPatch)
    /\ pass.at = "put" =>
         /\ IsPatch(pass.patch)
         /\ ~pass.touched => Seen(pass) # None /\ Raises(pass.patch, Seen(pass))

HandInv ==
  hand # None =>
    /\ mutex = "hand" /\ account # None /\ hand.to = account.id
    /\ IsPatch(hand.patch)
    /\ \A b \in DOMAIN hand.acks :
         /\ link[b] # None /\ link[b].series = hand.series
         /\ hand.at # "post"
         /\ hand.at = "ack" =>
              /\ hand.acks[b].chapter <= waived[hand.to][hand.series][b].chapter
              /\ hand.acks[b].step <= waived[hand.to][hand.series][b].step

(* Automatic links are made with nothing acknowledged, and only a          *)
(* connected account changes that.                                         *)
Unconnected ==
  account = None =>
    \A b \in Books : link[b] # None /\ link[b].auto => link[b].ack = Nothing

ToldMost ==
  \A a \in Accounts, s \in Series :
    entry[a][s] # None => /\ entry[a][s].chapter <= told[a][s].chapter
                          /\ entry[a][s].volume <= told[a][s].volume

IInv == /\ TypeOK /\ PassInv /\ HandInv /\ Unconnected /\ ToldMost /\ AcksTrue

-----------------------------------------------------------------------------
(* Numbers, patches and entries                                            *)

LEMMA HigherFacts ==
  ASSUME NEW m \in Nat, NEW n \in Nat
  PROVE  /\ Higher(m, n) \in Nat /\ Higher(m, n) \in {m, n}
         /\ m <= Higher(m, n) /\ n <= Higher(m, n)
BY DEF Higher

LEMMA RaisedFacts ==
  ASSUME NEW x \in Ack, NEW y \in Ack
  PROVE  /\ Raised(x, y) \in Ack
         /\ x.step <= Raised(x, y).step /\ x.chapter <= Raised(x, y).chapter
         /\ y.step <= Raised(x, y).step /\ y.chapter <= Raised(x, y).chapter
         /\ Raised(x, y).step \in {x.step, y.step}
         /\ Raised(x, y).chapter \in {x.chapter, y.chapter}
BY DEF Raised, Higher, Ack

LEMMA ReachedType ==
  ASSUME TypeOK, NEW b \in Books, place[b] # None, link[b] # None
  PROVE  Reached(b) \in Ack
<1>1. place[b] \in [step : 0 .. 2, chapter : Nat]
  BY TrackingAssumption DEF TypeOK
<1> QED BY <1>1 DEF Reached, Ack

LEMMA EntryFacts ==
  ASSUME NEW e \in Entry
  PROVE  /\ DOMAIN e = DOMAIN Blank /\ DOMAIN Blank = {"state", "chapter", "volume"}
         /\ e.state \in States /\ e.chapter \in 0 .. Limit /\ e.volume \in Nat
         /\ e["state"] = e.state /\ e["chapter"] = e.chapter /\ e["volume"] = e.volume
BY DEF Entry, Blank

LEMMA BlankIsEntry == Blank \in Entry /\ Blank # None /\ Limit \in Nat
BY TrackingAssumption DEF Blank, Entry, States

(* Applying a patch to an entry makes an entry. *)
LEMMA MergeFacts ==
  ASSUME NEW e \in Entry, NEW patch, IsPatch(patch)
  PROVE  /\ Merge(e, patch) \in Entry
         /\ Merge(e, patch).chapter =
              IF "chapter" \in DOMAIN patch THEN patch["chapter"] ELSE e.chapter
         /\ Merge(e, patch).volume =
              IF "volume" \in DOMAIN patch THEN patch["volume"] ELSE e.volume
         /\ Merge(e, patch).state =
              IF "state" \in DOMAIN patch THEN patch["state"] ELSE e.state
         /\ "chapter" \in DOMAIN patch => patch["chapter"] \in 0 .. Limit
         /\ "volume" \in DOMAIN patch => patch["volume"] \in Nat
         /\ "state" \in DOMAIN patch => patch["state"] \in States
<1> DEFINE m == Merge(Blank, patch)
           n == Merge(e, patch)
<1>1. /\ DOMAIN e = {"state", "chapter", "volume"}
      /\ DOMAIN Blank = {"state", "chapter", "volume"}
      /\ e.state \in States /\ e.chapter \in 0 .. Limit /\ e.volume \in Nat
      /\ e["state"] = e.state /\ e["chapter"] = e.chapter /\ e["volume"] = e.volume
  BY EntryFacts
<1>2. m = [f \in DOMAIN Blank |-> IF f \in DOMAIN patch THEN patch[f] ELSE Blank[f]]
  BY DEF Merge
<1>3. n = [f \in DOMAIN e |-> IF f \in DOMAIN patch THEN patch[f] ELSE e[f]]
  BY DEF Merge
<1>4. m \in Entry
  BY DEF IsPatch
<1> HIDE DEF m, n
<1>5. /\ m["state"] = m.state /\ m["chapter"] = m.chapter /\ m["volume"] = m.volume
      /\ m.state \in States /\ m.chapter \in 0 .. Limit /\ m.volume \in Nat
  BY <1>4, EntryFacts
<1>6. /\ "chapter" \in DOMAIN patch => patch["chapter"] \in 0 .. Limit
      /\ "volume" \in DOMAIN patch => patch["volume"] \in Nat
      /\ "state" \in DOMAIN patch => patch["state"] \in States
  BY <1>1, <1>2, <1>5
<1>7. /\ DOMAIN n = {"state", "chapter", "volume"}
      /\ n["chapter"] = IF "chapter" \in DOMAIN patch THEN patch["chapter"] ELSE e["chapter"]
      /\ n["volume"] = IF "volume" \in DOMAIN patch THEN patch["volume"] ELSE e["volume"]
      /\ n["state"] = IF "state" \in DOMAIN patch THEN patch["state"] ELSE e["state"]
  BY <1>1, <1>3
<1>8. n = [state |-> n["state"], chapter |-> n["chapter"], volume |-> n["volume"]]
  BY <1>3, <1>7
<1>9. n \in Entry
  BY <1>1, <1>6, <1>7, <1>8 DEF Entry
<1> QED BY <1>1, <1>6, <1>7, <1>9, EntryFacts DEF n

(* What a pass writes: progress upwards, and no state of a paused or       *)
(* completed entry.                                                        *)
LEMMA PatchFacts ==
  ASSUME NEW l \in Link, NEW ack \in Ack, NEW seen \in Entry, ack.chapter <= Limit
  PROVE  LET patch == Patch(l, ack, seen)
         IN  /\ IsPatch(patch) /\ Raises(patch, seen)
             /\ \/ ack.chapter <= seen.chapter
                \/ "chapter" \in DOMAIN patch /\ ack.chapter <= patch["chapter"]
             /\ ack.step = 2 =>
                  \/ l.volume <= seen.volume
                  \/ "volume" \in DOMAIN patch /\ l.volume <= patch["volume"]
<1> DEFINE new == [state |-> CASE ack.step = 2 /\ l.complete /\ seen.state # "paused" -> "completed"
                               [] ack.step = 1 /\ seen.state = "plan" -> "reading"
                               [] OTHER -> seen.state,
                   chapter |-> Higher(seen.chapter, ack.chapter),
                   volume |-> IF ack.step = 2 THEN Higher(seen.volume, l.volume) ELSE seen.volume]
           patch == Patch(l, ack, seen)
<1>1. patch = [f \in {g \in DOMAIN seen : new[g] # seen[g]} |-> new[f]]
  BY DEF Patch
<1>2. /\ DOMAIN seen = {"state", "chapter", "volume"} /\ DOMAIN Blank = DOMAIN seen
      /\ seen.state \in States /\ seen.chapter \in 0 .. Limit /\ seen.volume \in Nat
      /\ seen["state"] = seen.state /\ seen["chapter"] = seen.chapter
      /\ seen["volume"] = seen.volume
  BY EntryFacts
<1>3. l.volume \in Nat /\ ack.chapter \in Nat /\ Limit \in Nat
  BY TrackingAssumption DEF Link, Ack
<1>4. /\ new["state"] \in States
      /\ seen.state \in {"paused", "completed"} => new["state"] = seen.state
  BY <1>2 DEF States
<1>5. /\ new["chapter"] \in 0 .. Limit
      /\ seen.chapter <= new["chapter"] /\ ack.chapter <= new["chapter"]
  BY <1>2, <1>3 DEF Higher
<1>6. /\ new["volume"] \in Nat
      /\ seen.volume <= new["volume"] /\ (ack.step = 2 => l.volume <= new["volume"])
  BY <1>2, <1>3 DEF Higher
<1> HIDE DEF new, patch
<1>7. /\ DOMAIN patch = {g \in {"state", "chapter", "volume"} : new[g] # seen[g]}
      /\ \A f \in DOMAIN patch : patch[f] = new[f]
  BY <1>1, <1>2
<1>8. Raises(patch, seen)
  BY <1>2, <1>3, <1>4, <1>5, <1>6, <1>7 DEF Raises
<1>9. IsPatch(patch)
  <2> DEFINE n == Merge(Blank, patch)
  <2>1. n = [f \in DOMAIN Blank |-> IF f \in DOMAIN patch THEN patch[f] ELSE Blank[f]]
    BY DEF Merge
  <2> HIDE DEF n
  <2>2. /\ Blank["state"] \in States /\ Blank["chapter"] \in 0 .. Limit /\ Blank["volume"] \in Nat
    BY BlankIsEntry, EntryFacts
  <2>3. n["state"] \in States /\ n["chapter"] \in 0 .. Limit /\ n["volume"] \in Nat
    BY <1>2, <1>4, <1>5, <1>6, <1>7, <2>1, <2>2
  <2>4. n = [state |-> n["state"], chapter |-> n["chapter"], volume |-> n["volume"]]
    BY <1>2, <2>1
  <2>5. n \in Entry
    BY <2>3, <2>4 DEF Entry
  <2> QED BY <1>2, <1>7, <2>5 DEF IsPatch, n
<1>10. \/ ack.chapter <= seen.chapter
       \/ "chapter" \in DOMAIN patch /\ ack.chapter <= patch["chapter"]
  BY <1>2, <1>3, <1>5, <1>7
<1>11. ack.step = 2 =>
         \/ l.volume <= seen.volume
         \/ "volume" \in DOMAIN patch /\ l.volume <= patch["volume"]
  BY <1>2, <1>3, <1>6, <1>7
<1> QED BY <1>8, <1>9, <1>10, <1>11 DEF patch

-----------------------------------------------------------------------------
(* What a step leaves alone                                                *)

SameLink(l, m) ==
  IF l = None THEN m = None
  ELSE /\ m # None /\ m.series = l.series /\ m.volume = l.volume
       /\ m.complete = l.complete /\ m.auto = l.auto /\ m.ack = l.ack

LinksRest == \A b \in Books : SameLink(link[b], link'[b])

(* Entries show more, and edits acknowledge more, as time goes on. *)
ToldGrows ==
  \A a \in Accounts, s \in Series :
    /\ told[a][s].chapter <= told'[a][s].chapter
    /\ told[a][s].volume <= told'[a][s].volume

WaivedGrows ==
  \A a \in Accounts, s \in Series, b \in Books :
    /\ waived[a][s][b].chapter <= waived'[a][s][b].chapter
    /\ waived[a][s][b].step <= waived'[a][s][b].step

LEMMA LinkEdits ==
  ASSUME NEW l \in Link, NEW w \in BOOLEAN, NEW x \in Ack
  PROVE  /\ [l EXCEPT !.waits = w] \in Link
         /\ [l EXCEPT !.ack = x, !.waits = w] \in Link
         /\ [l EXCEPT !.auto = FALSE] \in Link
         /\ [l EXCEPT !.auto = FALSE, !.ack = x, !.waits = w] \in Link
         /\ SameLink(l, [l EXCEPT !.waits = w])
         /\ None \notin Link /\ l # None
<1>1. /\ [l EXCEPT !.waits = w] \in Link
      /\ [l EXCEPT !.ack = x, !.waits = w] \in Link
      /\ [l EXCEPT !.auto = FALSE] \in Link
      /\ [l EXCEPT !.auto = FALSE, !.ack = x, !.waits = w] \in Link
  BY DEF Link
<1>2. None \notin Link
  BY TrackingAssumption
<1>3. LET m == [l EXCEPT !.waits = w]
      IN  /\ m.series = l.series /\ m.volume = l.volume
          /\ m.complete = l.complete /\ m.auto = l.auto /\ m.ack = l.ack
  BY DEF Link
<1> QED BY <1>1, <1>2, <1>3 DEF SameLink

LEMMA RestingFacts ==
  ASSUME NEW l \in [Books -> Link \cup {None}], NEW B \in SUBSET Books,
         \A b \in B : l[b] # None
  PROVE  /\ Resting(l, B) \in [Books -> Link \cup {None}]
         /\ \A b \in Books : SameLink(l[b], Resting(l, B)[b])
<1>1. ASSUME NEW b \in Books
      PROVE  /\ Resting(l, B)[b] \in Link \cup {None}
             /\ SameLink(l[b], Resting(l, B)[b])
  <2>1. CASE b \in B
    <3>1. l[b] \in Link /\ Nothing \in Ack
      BY <2>1 DEF Nothing, Ack
    <3>2. Resting(l, B)[b] = [l[b] EXCEPT !.waits = TRUE]
      BY <2>1 DEF Resting
    <3> QED BY <3>1, <3>2, LinkEdits
  <2>2. CASE b \notin B
    BY <2>2 DEF Resting, SameLink
  <2> QED BY <2>1, <2>2
<1>2. Resting(l, B) = [b \in Books |-> Resting(l, B)[b]]
  BY DEF Resting
<1> QED BY <1>1, <1>2

LEMMA DueFacts ==
  ASSUME TypeOK
  PROVE  /\ Due \subseteq Books
         /\ \A b \in Due : link[b] # None /\ link[b] \in Link /\ place[b] # None
         /\ PutOff(Due) \subseteq Due /\ Work(Due) \subseteq Due
         /\ \A b \in Books : PutOff(Later(b)) \subseteq Due
BY DEF TypeOK, Due, Behind, PutOff, Work, Later

(* Fields of a value that may be None, for the provers. *)
LEMMA Parts ==
  ASSUME TypeOK
  PROVE  /\ \A b \in Books : link[b] # None =>
               /\ link[b] \in Link /\ link[b].ack \in Ack /\ link[b].volume \in Nat
               /\ link[b].series \in Series /\ link[b].auto \in BOOLEAN
               /\ link[b].ack.step \in 0 .. 2 /\ link[b].ack.chapter \in Nat
         /\ account # None => account \in Account /\ account.id \in Accounts
         /\ \A a \in Accounts, s \in Series :
               /\ told[a][s].chapter \in Nat /\ told[a][s].volume \in Nat
               /\ told[a][s].chapter \in 0 .. Limit
               /\ told[a][s] \in [chapter : 0 .. Limit, volume : Nat]
               /\ entry[a][s] # None => entry[a][s] \in Entry
               /\ \A b \in Books : /\ waived[a][s][b] \in Ack
                                    /\ waived[a][s][b].step \in 0 .. 2
                                    /\ waived[a][s][b].chapter \in Nat
         /\ \A b \in Books : place[b] # None => place[b] \in Places
<1>1. /\ \A b \in Books : link[b] # None =>
               /\ link[b] \in Link /\ link[b].ack \in Ack /\ link[b].volume \in Nat
               /\ link[b].series \in Series /\ link[b].auto \in BOOLEAN
  BY DEF TypeOK, Link
<1>2. \A b \in Books : link[b] # None =>
               link[b].ack.step \in 0 .. 2 /\ link[b].ack.chapter \in Nat
  BY <1>1 DEF Ack
<1>3. account # None => account \in Account /\ account.id \in Accounts
  BY DEF TypeOK, Account
<1>4. ASSUME NEW a \in Accounts, NEW s \in Series
      PROVE  /\ told[a][s].chapter \in Nat /\ told[a][s].volume \in Nat
             /\ told[a][s].chapter \in 0 .. Limit
             /\ told[a][s] \in [chapter : 0 .. Limit, volume : Nat]
             /\ entry[a][s] # None => entry[a][s] \in Entry
             /\ \A b \in Books : /\ waived[a][s][b] \in Ack
                                  /\ waived[a][s][b].step \in 0 .. 2
                                  /\ waived[a][s][b].chapter \in Nat
  <2>1. told[a][s] \in [chapter : 0 .. Limit, volume : Nat]
    BY DEF TypeOK
  <2>2. entry[a][s] \in Entry \cup {None}
    BY DEF TypeOK
  <2>3. \A b \in Books : waived[a][s][b] \in Ack
    BY DEF TypeOK
  <2>4. Limit \in Nat
    BY TrackingAssumption
  <2> QED BY <2>1, <2>2, <2>3, <2>4 DEF Ack
<1>5. \A b \in Books : place[b] # None => place[b] \in Places
  BY DEF TypeOK
<1> QED BY <1>1, <1>2, <1>3, <1>4, <1>5

LEMMA HistoryRests ==
  ASSUME TypeOK
  PROVE  /\ told' = told => ToldGrows
         /\ waived' = waived => WaivedGrows
<1>1. ASSUME told' = told PROVE ToldGrows
  BY <1>1, Parts DEF ToldGrows
<1>2. ASSUME waived' = waived PROVE WaivedGrows
  <2> SUFFICES ASSUME NEW a \in Accounts, NEW s \in Series, NEW b \in Books
               PROVE  /\ waived[a][s][b].chapter <= waived'[a][s][b].chapter
                      /\ waived[a][s][b].step <= waived'[a][s][b].step
    BY DEF WaivedGrows
  <2>1. waived[a][s][b].step \in 0 .. 2 /\ waived[a][s][b].chapter \in Nat
    BY Parts
  <2> QED BY <1>2, <2>1
<1> QED BY <1>1, <1>2

LEMMA AcksFrame ==
  ASSUME TypeOK, TypeOK', AcksTrue, ToldGrows, WaivedGrows, LinksRest,
         account' # None => account # None /\ account.id = account'.id
  PROVE  AcksTrue'
<1> SUFFICES ASSUME NEW b \in Books, account' # None, link'[b] # None, link'[b].auto
             PROVE  Reported(b, account.id)'
  BY DEF AcksTrue
<1>1. SameLink(link[b], link'[b])
  BY DEF LinksRest
<1> DEFINE a == account.id
           s == link[b].series
<1>2. /\ link[b] # None /\ link[b].auto
      /\ link'[b].series = s /\ link'[b].volume = link[b].volume
      /\ link'[b].ack = link[b].ack
  BY <1>1 DEF SameLink
<1>3. /\ a \in Accounts /\ s \in Series /\ link[b].volume \in Nat
      /\ link[b].ack.chapter \in Nat
      /\ told[a][s].chapter \in Nat /\ told[a][s].volume \in Nat
      /\ waived[a][s][b].step \in 0 .. 2 /\ waived[a][s][b].chapter \in Nat
  BY <1>2, Parts
<1>4. a = account'.id /\ Reported(b, a)
  BY <1>2 DEF AcksTrue
<1>5. /\ told'[a][s].chapter \in Nat /\ told'[a][s].volume \in Nat
      /\ waived'[a][s][b].step \in 0 .. 2 /\ waived'[a][s][b].chapter \in Nat
  <2>1. /\ told'[a][s] \in [chapter : 0 .. Limit, volume : Nat]
        /\ waived'[a][s][b] \in Ack
    BY <1>3 DEF TypeOK
  <2> QED BY <2>1, TrackingAssumption DEF Ack
<1>6. /\ told[a][s].chapter <= told'[a][s].chapter
      /\ told[a][s].volume <= told'[a][s].volume
      /\ waived[a][s][b].chapter <= waived'[a][s][b].chapter
      /\ waived[a][s][b].step <= waived'[a][s][b].step
  BY <1>3 DEF ToldGrows, WaivedGrows
<1>7. link[b].ack.chapter <= Higher(told'[a][s].chapter, waived'[a][s][b].chapter)
  BY <1>3, <1>4, <1>5, <1>6 DEF Reported, Higher
<1>8. link[b].ack.step = 2 =>
        link[b].volume <= told'[a][s].volume \/ waived'[a][s][b].step = 2
  BY <1>3, <1>4, <1>5, <1>6 DEF Reported
<1> QED BY <1>2, <1>4, <1>7, <1>8 DEF Reported

LEMMA UnconnectedFrame ==
  ASSUME Unconnected, LinksRest, account' = None => account = None
  PROVE  Unconnected'
BY DEF Unconnected, LinksRest, SameLink

LEMMA HandFrame ==
  ASSUME TypeOK, TypeOK', HandInv, hand' = hand, LinksRest, WaivedGrows,
         hand # None => mutex' = mutex /\ account' = account
  PROVE  HandInv'
<1> SUFFICES ASSUME hand # None PROVE HandInv'
  BY DEF HandInv
<1>1. /\ hand.series \in Series /\ hand.to \in Accounts /\ DOMAIN hand.acks \subseteq Books
      /\ \A b \in DOMAIN hand.acks : hand.acks[b] \in Ack
  BY DEF TypeOK, IsHandler
<1>2. ASSUME NEW b \in DOMAIN hand.acks
      PROVE  /\ link'[b] # None /\ link'[b].series = hand.series
             /\ hand.at # "post"
             /\ hand.at = "ack" =>
                  /\ hand.acks[b].chapter <= waived'[hand.to][hand.series][b].chapter
                  /\ hand.acks[b].step <= waived'[hand.to][hand.series][b].step
  <2>1. SameLink(link[b], link'[b]) /\ b \in Books
    BY <1>1 DEF LinksRest
  <2>2. /\ link[b] # None /\ link[b].series = hand.series
        /\ hand.at # "post"
        /\ hand.at = "ack" =>
             /\ hand.acks[b].chapter <= waived[hand.to][hand.series][b].chapter
             /\ hand.acks[b].step <= waived[hand.to][hand.series][b].step
    BY DEF HandInv
  <2>3. hand.acks[b].chapter \in Nat /\ hand.acks[b].step \in Nat
    BY <1>1 DEF Ack
  <2>4. /\ waived[hand.to][hand.series][b].chapter \in Nat
        /\ waived[hand.to][hand.series][b].step \in Nat
    BY <1>1, <2>1, Parts
  <2>5. waived'[hand.to][hand.series][b] \in Ack
    BY <1>1, <2>1 DEF TypeOK
  <2>6. /\ waived'[hand.to][hand.series][b].chapter \in Nat
        /\ waived'[hand.to][hand.series][b].step \in Nat
    BY <2>5 DEF Ack
  <2>7. /\ waived[hand.to][hand.series][b].chapter <= waived'[hand.to][hand.series][b].chapter
        /\ waived[hand.to][hand.series][b].step <= waived'[hand.to][hand.series][b].step
    BY <1>1, <2>1 DEF WaivedGrows
  <2> QED BY <2>1, <2>2, <2>3, <2>4, <2>6, <2>7 DEF SameLink
<1> QED BY <1>2 DEF HandInv

(* Showing more keeps what was shown. *)
LEMMA ShowsFrame ==
  ASSUME NEW x \in [chapter : 0 .. Limit, volume : Nat],
         NEW y \in [chapter : 0 .. Limit, volume : Nat],
         x.chapter <= y.chapter, x.volume <= y.volume,
         NEW volume \in Nat, NEW ack \in Ack, NEW patch, Shows(x, volume, ack, patch)
  PROVE  Shows(y, volume, ack, patch)
BY TrackingAssumption DEF Shows, Ack

LEMMA PassFrame ==
  ASSUME TypeOK, TypeOK', PassInv, ToldGrows, LinksRest,
         mutex' = mutex, account' = account,
         pass' # None =>
           /\ pass # None /\ pass'.at = pass.at /\ pass'.series = pass.series
           /\ pass'.to = pass.to /\ pass'.acks = pass.acks /\ pass'.patch = pass.patch
           /\ ~pass'.touched => ~pass.touched /\ entry'[pass.to][pass.series] = Seen(pass)
  PROVE  PassInv'
<1> SUFFICES ASSUME pass' # None PROVE PassInv'
  BY DEF PassInv
<1> DEFINE x == told[pass.to][pass.series]
           y == told'[pass.to][pass.series]
<1>1. /\ pass # None /\ pass.series \in Series /\ pass.to \in Accounts
      /\ DOMAIN pass.acks \subseteq Books
      /\ \A b \in DOMAIN pass.acks : pass.acks[b] \in Ack
  BY DEF TypeOK, IsHandler
<1>2. /\ x \in [chapter : 0 .. Limit, volume : Nat] /\ y \in [chapter : 0 .. Limit, volume : Nat]
      /\ x.chapter <= y.chapter /\ x.volume <= y.volume
  BY <1>1 DEF TypeOK, ToldGrows
<1>3. x = Told(pass) /\ y = Told(pass)'
  BY DEF Told
<1> HIDE DEF x, y
<1>4. ASSUME NEW b \in DOMAIN pass.acks
      PROVE  /\ link'[b] # None /\ link'[b].series = pass.series
             /\ pass.acks[b].chapter <= Limit
             /\ pass.at = "put" => Shows(y, link'[b].volume, pass.acks[b], pass.patch)
             /\ pass.at = "ack" => Shows(y, link'[b].volume, pass.acks[b], NoPatch)
  <2>1. SameLink(link[b], link'[b]) /\ b \in Books /\ pass.acks[b] \in Ack
    BY <1>1 DEF LinksRest
  <2>2. /\ link[b] # None /\ link[b].series = pass.series
        /\ pass.acks[b].chapter <= Limit
        /\ pass.at = "put" => Shows(x, link[b].volume, pass.acks[b], pass.patch)
        /\ pass.at = "ack" => Shows(x, link[b].volume, pass.acks[b], NoPatch)
    BY <1>1, <1>3 DEF PassInv
  <2>3. link[b].volume \in Nat
    BY <2>1, <2>2, Parts
  <2>4. pass.at = "put" => Shows(y, link[b].volume, pass.acks[b], pass.patch)
    BY <1>2, <2>1, <2>2, <2>3, ShowsFrame
  <2>5. pass.at = "ack" => Shows(y, link[b].volume, pass.acks[b], NoPatch)
    BY <1>2, <2>1, <2>2, <2>3, ShowsFrame
  <2> QED BY <2>1, <2>2, <2>4, <2>5 DEF SameLink
<1>5. pass.at = "put" => /\ IsPatch(pass.patch)
                         /\ ~pass'.touched => /\ entry'[pass.to][pass.series] # None
                                              /\ Raises(pass.patch, entry'[pass.to][pass.series])
  BY <1>1 DEF PassInv, Seen
<1>6. /\ mutex = "pass" /\ account # None /\ pass.to = account.id
      /\ \A b, c \in DOMAIN pass.acks : b = c
  BY <1>1 DEF PassInv
<1> QED BY <1>3, <1>4, <1>5, <1>6 DEF PassInv, Told, Seen

(* Whoever holds the mutex is alone. *)
LEMMA OneHandler ==
  ASSUME PassInv, HandInv
  PROVE  /\ mutex # "pass" => pass = None
         /\ mutex # "hand" => hand = None
BY DEF PassInv, HandInv

LEMMA BecomesFacts ==
  ASSUME TypeOK, ToldMost, NEW a \in Accounts, NEW s \in Series, NEW e \in Entry,
         Becomes(a, s, e)
  PROVE  /\ entry' \in [Accounts -> [Series -> Entry \cup {None}]]
         /\ told' \in [Accounts -> [Series -> [chapter : 0 .. Limit, volume : Nat]]]
         /\ ToldMost' /\ ToldGrows
         /\ entry'[a][s] = e /\ entry'[a][s] # None
         /\ e.chapter <= told'[a][s].chapter /\ e.volume <= told'[a][s].volume
         /\ \A c \in Accounts, t \in Series :
               c # a \/ t # s => entry'[c][t] = entry[c][t] /\ told'[c][t] = told[c][t]
<1> DEFINE old == told[a][s]
           new == [chapter |-> Higher(old.chapter, e.chapter),
                   volume |-> Higher(old.volume, e.volume)]
<1>1. /\ old \in [chapter : 0 .. Limit, volume : Nat]
      /\ e.chapter \in 0 .. Limit /\ e.volume \in Nat /\ Limit \in Nat /\ e # None
  BY EntryFacts, TrackingAssumption DEF TypeOK
<1>2. /\ new \in [chapter : 0 .. Limit, volume : Nat]
      /\ old.chapter <= new.chapter /\ old.volume <= new.volume
      /\ e.chapter <= new.chapter /\ e.volume <= new.volume
  BY <1>1 DEF Higher
<1>3. /\ entry' = [entry EXCEPT ![a] = [entry[a] EXCEPT ![s] = e]]
      /\ told' = [told EXCEPT ![a] = [told[a] EXCEPT ![s] = new]]
  BY DEF Becomes
<1> HIDE DEF new
<1>4. /\ entry' \in [Accounts -> [Series -> Entry \cup {None}]]
      /\ told' \in [Accounts -> [Series -> [chapter : 0 .. Limit, volume : Nat]]]
  BY <1>2, <1>3 DEF TypeOK
<1>5. /\ entry'[a][s] = e /\ told'[a][s] = new
      /\ \A c \in Accounts, t \in Series :
            c # a \/ t # s => entry'[c][t] = entry[c][t] /\ told'[c][t] = told[c][t]
  BY <1>3 DEF TypeOK
<1>6. ToldGrows
  <2> SUFFICES ASSUME NEW c \in Accounts, NEW t \in Series
               PROVE  /\ told[c][t].chapter <= told'[c][t].chapter
                      /\ told[c][t].volume <= told'[c][t].volume
    BY DEF ToldGrows
  <2>1. CASE c = a /\ t = s
    BY <2>1, <1>2, <1>5
  <2>2. CASE c # a \/ t # s
    BY <2>2, <1>5, Parts
  <2> QED BY <2>1, <2>2
<1>7. ToldMost'
  <2> SUFFICES ASSUME NEW c \in Accounts, NEW t \in Series, entry'[c][t] # None
               PROVE  /\ entry'[c][t].chapter <= told'[c][t].chapter
                      /\ entry'[c][t].volume <= told'[c][t].volume
    BY DEF ToldMost
  <2>1. CASE c = a /\ t = s
    BY <2>1, <1>2, <1>5
  <2>2. CASE c # a \/ t # s
    BY <2>2, <1>5 DEF ToldMost
  <2> QED BY <2>1, <2>2
<1> QED BY <1>1, <1>2, <1>4, <1>5, <1>6, <1>7

(* Nothing but positions, the shelf and waiting links changes. *)
LEMMA Framed ==
  ASSUME IInv, TypeOK', LinksRest,
         UNCHANGED <<account, mutex, pass, hand, service, waived>>
  PROVE  IInv'
<1>1. ToldGrows /\ WaivedGrows
  BY HistoryRests DEF IInv, service
<1>2. PassInv'
  BY <1>1, PassFrame DEF IInv, service, Seen
<1>3. HandInv'
  BY <1>1, HandFrame DEF IInv
<1>4. Unconnected' /\ ToldMost'
  BY UnconnectedFrame DEF IInv, ToldMost, service
<1>5. AcksTrue'
  BY <1>1, AcksFrame DEF IInv
<1> QED BY <1>2, <1>3, <1>4, <1>5 DEF IInv

-----------------------------------------------------------------------------
(* A pass                                                                  *)

(* A step of the pass on its entry: links, the account and the mutex stay. *)
LEMMA PassMoves ==
  ASSUME IInv, PassInv', pass # None, IsHandler(pass'),
         UNCHANGED <<place, shelf, link, account, mutex, hand, waived, used>>,
         ToldGrows, ToldMost',
         entry' \in [Accounts -> [Series -> Entry \cup {None}]],
         told' \in [Accounts -> [Series -> [chapter : 0 .. Limit, volume : Nat]]]
  PROVE  IInv'
<1>1. TypeOK'
  BY DEF IInv, TypeOK
<1>2. LinksRest
  BY DEF LinksRest, SameLink
<1>3. WaivedGrows
  BY HistoryRests DEF IInv
<1>4. HandInv'
  BY <1>1, <1>2, <1>3, HandFrame DEF IInv
<1>5. Unconnected'
  BY <1>2, UnconnectedFrame DEF IInv
<1>6. AcksTrue'
  BY <1>1, <1>2, <1>3, AcksFrame DEF IInv
<1> QED BY <1>1, <1>4, <1>5, <1>6 DEF IInv

LEMMA BeginPassKeeps ==
  ASSUME IInv, BeginPass
  PROVE  IInv'
<1> USE DEF IInv
<1>1. LinksRest /\ link' \in [Books -> Link \cup {None}]
  <2>1. /\ PutOff(Due) \in SUBSET Books
        /\ \A b \in PutOff(Due) : link[b] # None
    BY DueFacts
  <2>2. link \in [Books -> Link \cup {None}] /\ link' = Resting(link, PutOff(Due))
    BY DEF TypeOK, BeginPass
  <2> QED BY <2>1, <2>2, RestingFacts DEF LinksRest
<1>2. CASE Work(Due) = {}
  <2>1. /\ UNCHANGED <<account, mutex, pass, hand, service, waived>>
        /\ UNCHANGED <<place, shelf, used>>
    BY <1>2 DEF BeginPass, Authorized
  <2>2. TypeOK'
    BY <1>1, <2>1 DEF TypeOK, service
  <2> QED BY <1>1, <2>1, <2>2, Framed
<1>3. CASE Work(Due) # {}
  <2>1. /\ mutex = "free" /\ mutex' = "pass" /\ account # None
        /\ UNCHANGED <<account, hand, service, waived, place, shelf, used>>
    BY <1>3 DEF BeginPass, Authorized
  <2>2. PICK b \in Work(Due) :
          pass' = [at |-> "get", series |-> link[b].series, to |-> account.id,
                   acks |-> [c \in {b} |-> Reached(c)],
                   patch |-> [f \in {} |-> 0], touched |-> FALSE]
    BY <1>3 DEF BeginPass
  <2>3. b \in Books /\ b \in Due /\ link[b] # None /\ place[b] # None /\ ~TooFar(b)
    BY DueFacts DEF Work
  <2>4. /\ Reached(b) \in Ack /\ Reached(b).chapter <= Limit /\ link[b].series \in Series
        /\ account.id \in Accounts
    BY <2>1, <2>3, ReachedType, Parts, TrackingAssumption DEF TooFar, Ack
  <2>5. IsHandler(pass')
    BY <2>2, <2>3, <2>4 DEF IsHandler
  <2>6. TypeOK'
    BY <1>1, <2>1, <2>5 DEF TypeOK, service
  <2>7. PassInv'
    <3>1. SameLink(link[b], link'[b])
      BY <1>1, <2>3 DEF LinksRest
    <3> QED BY <2>1, <2>2, <2>3, <2>4, <3>1 DEF PassInv, SameLink
  <2>8. ToldGrows /\ WaivedGrows
    BY <2>1, HistoryRests DEF service
  <2>9. HandInv'
    BY <2>1, OneHandler DEF HandInv
  <2>10. Unconnected' /\ ToldMost'
    BY <1>1, <2>1, UnconnectedFrame DEF ToldMost, service
  <2>11. AcksTrue'
    BY <1>1, <2>1, <2>6, <2>8, AcksFrame
  <2> QED BY <2>6, <2>7, <2>9, <2>10, <2>11
<1> QED BY <1>2, <1>3

(* What the pass knows of itself. *)
LEMMA PassParts ==
  ASSUME IInv, pass # None, NEW b \in DOMAIN pass.acks
  PROVE  /\ DOMAIN pass.acks = {b} /\ b \in Books
         /\ pass.acks[b] \in Ack /\ pass.acks[b].chapter <= Limit
         /\ pass.series \in Series /\ pass.to \in Accounts
         /\ mutex = "pass" /\ account # None /\ pass.to = account.id
         /\ link[b] # None /\ link[b] \in Link /\ link[b].series = pass.series
         /\ Told(pass) \in [chapter : 0 .. Limit, volume : Nat]
         /\ Seen(pass) # None =>
              /\ Seen(pass) \in Entry
              /\ Seen(pass).chapter <= Told(pass).chapter
              /\ Seen(pass).volume <= Told(pass).volume
<1>1. /\ pass.series \in Series /\ pass.to \in Accounts /\ b \in Books
      /\ pass.acks[b] \in Ack
  BY DEF IInv, TypeOK, IsHandler
<1>2. /\ DOMAIN pass.acks = {b} /\ pass.acks[b].chapter <= Limit
      /\ mutex = "pass" /\ account # None /\ pass.to = account.id
      /\ link[b] # None /\ link[b].series = pass.series
  BY DEF IInv, PassInv
<1>3. link[b] \in Link
  BY <1>1, <1>2, Parts DEF IInv
<1>4. /\ Told(pass) \in [chapter : 0 .. Limit, volume : Nat]
      /\ Seen(pass) # None => Seen(pass) \in Entry
  BY <1>1, Parts DEF IInv, Told, Seen
<1>5. Seen(pass) # None =>
        /\ Seen(pass).chapter <= Told(pass).chapter
        /\ Seen(pass).volume <= Told(pass).volume
  BY <1>1 DEF IInv, ToldMost, Told, Seen
<1> QED BY <1>1, <1>2, <1>3, <1>4, <1>5

(* Once the pass has seen the entry its patch, if it needs one, raises the *)
(* entry as far as it will acknowledge.                                    *)
LEMMA DecideKeeps ==
  ASSUME IInv, pass # None, NEW b \in DOMAIN pass.acks,
         NEW seen \in Entry, Decide(b, seen),
         UNCHANGED <<place, shelf, link, account, mutex, hand, waived, used>>,
         ToldGrows, ToldMost',
         entry' \in [Accounts -> [Series -> Entry \cup {None}]],
         told' \in [Accounts -> [Series -> [chapter : 0 .. Limit, volume : Nat]]],
         entry'[pass.to][pass.series] = seen, seen # None
  PROVE  IInv'
<1> DEFINE patch == Patch(link[b], pass.acks[b], seen)
           shown == told'[pass.to][pass.series]
<1>1. pass' = [pass EXCEPT !.at = IF DOMAIN patch = {} THEN "ack" ELSE "put",
                           !.patch = patch, !.touched = FALSE]
  BY DEF Decide
<1>2. /\ DOMAIN pass.acks = {b} /\ b \in Books
      /\ pass.acks[b] \in Ack /\ pass.acks[b].chapter <= Limit
      /\ pass.series \in Series /\ pass.to \in Accounts
      /\ mutex = "pass" /\ account # None /\ pass.to = account.id
      /\ link[b] # None /\ link[b] \in Link /\ link[b].series = pass.series
  BY PassParts
<1>3. /\ IsPatch(patch) /\ Raises(patch, seen)
      /\ \/ pass.acks[b].chapter <= seen.chapter
         \/ "chapter" \in DOMAIN patch /\ pass.acks[b].chapter <= patch["chapter"]
      /\ pass.acks[b].step = 2 =>
           \/ link[b].volume <= seen.volume
           \/ "volume" \in DOMAIN patch /\ link[b].volume <= patch["volume"]
  BY <1>2, PatchFacts
<1> HIDE DEF patch
<1>4. /\ shown \in [chapter : 0 .. Limit, volume : Nat]
      /\ seen.chapter <= shown.chapter /\ seen.volume <= shown.volume
  BY <1>2 DEF ToldMost
<1>5. Shows(shown, link[b].volume, pass.acks[b], patch)
  <2>1. /\ seen.chapter \in Nat /\ seen.volume \in Nat
        /\ shown.chapter \in Nat /\ shown.volume \in Nat
        /\ pass.acks[b].chapter \in Nat /\ link[b].volume \in Nat
    BY <1>2, <1>4, EntryFacts, TrackingAssumption DEF Ack, Link
  <2> HIDE DEF shown
  <2> QED BY <1>3, <1>4, <2>1 DEF Shows
<1>6. DOMAIN patch = {} => Shows(shown, link[b].volume, pass.acks[b], NoPatch)
  BY <1>5 DEF Shows, NoPatch
<1> HIDE DEF shown
<1>7. /\ DOMAIN pass' = {"at", "series", "to", "acks", "patch", "touched"}
      /\ pass'.at = (IF DOMAIN patch = {} THEN "ack" ELSE "put")
      /\ pass'.series = pass.series /\ pass'.to = pass.to /\ pass'.acks = pass.acks
      /\ pass'.patch = patch /\ pass'.touched = FALSE
  BY <1>1 DEF IInv, TypeOK, IsHandler
<1>8. IsHandler(pass')
  BY <1>3, <1>7 DEF IInv, TypeOK, IsHandler, IsPatch
<1>9. PassInv'
  <2>1. Told(pass)' = shown /\ Seen(pass)' = seen
    BY <1>7 DEF Told, Seen, shown
  <2> QED BY <1>2, <1>3, <1>5, <1>6, <1>7, <2>1 DEF PassInv
<1> QED BY <1>8, <1>9, PassMoves

LEMMA GetPassKeeps ==
  ASSUME IInv, pass # None, NEW b \in DOMAIN pass.acks, GetPass(b)
  PROVE  IInv'
<1>1. /\ UNCHANGED <<place, shelf, link, account, mutex, hand, waived, used>>
      /\ entry' = entry /\ told' = told
  BY DEF GetPass, service
<1>2. /\ ToldGrows /\ ToldMost'
      /\ entry' \in [Accounts -> [Series -> Entry \cup {None}]]
      /\ told' \in [Accounts -> [Series -> [chapter : 0 .. Limit, volume : Nat]]]
  BY <1>1, HistoryRests DEF IInv, TypeOK, ToldMost
<1>3. CASE Seen(pass) # None
  <2>1. Decide(b, Seen(pass)) /\ Seen(pass) \in Entry
    BY <1>3, PassParts DEF GetPass
  <2>2. entry'[pass.to][pass.series] = Seen(pass)
    BY <1>1 DEF Seen
  <2> QED BY <1>1, <1>2, <1>3, <2>1, <2>2, DecideKeeps
<1>4. CASE Seen(pass) = None
  <2>1. pass' = [pass EXCEPT !.at = "post"]
    BY <1>4 DEF GetPass
  <2>2. /\ DOMAIN pass' = {"at", "series", "to", "acks", "patch", "touched"}
        /\ pass'.at = "post" /\ pass'.series = pass.series /\ pass'.to = pass.to
        /\ pass'.acks = pass.acks /\ pass'.patch = pass.patch
        /\ pass'.touched = pass.touched
    BY <2>1 DEF IInv, TypeOK, IsHandler
  <2>3. IsHandler(pass')
    BY <2>2 DEF IInv, TypeOK, IsHandler
  <2>4. PassInv'
    BY <1>1, <2>2 DEF IInv, PassInv
  <2> QED BY <1>1, <1>2, <2>3, <2>4, PassMoves
<1> QED BY <1>3, <1>4

LEMMA PostPassKeeps ==
  ASSUME IInv, pass # None, NEW b \in DOMAIN pass.acks, PostPass(b)
  PROVE  IInv'
<1>1. /\ UNCHANGED <<place, shelf, link, account, mutex, hand, waived, used>>
      /\ Becomes(pass.to, pass.series, Blank) /\ Decide(b, Blank)
  BY DEF PostPass
<1>2. pass.series \in Series /\ pass.to \in Accounts /\ Blank \in Entry
  BY PassParts, BlankIsEntry
<1>3. /\ ToldGrows /\ ToldMost'
      /\ entry' \in [Accounts -> [Series -> Entry \cup {None}]]
      /\ told' \in [Accounts -> [Series -> [chapter : 0 .. Limit, volume : Nat]]]
      /\ entry'[pass.to][pass.series] = Blank /\ Blank # None
  BY <1>1, <1>2, BecomesFacts, BlankIsEntry DEF IInv
<1> QED BY <1>1, <1>2, <1>3, DecideKeeps

LEMMA PutPassKeeps ==
  ASSUME IInv, pass # None, NEW b \in DOMAIN pass.acks, PutPass(b)
  PROVE  IInv'
<1> DEFINE e == Merge(Seen(pass), pass.patch)
           shown == told'[pass.to][pass.series]
<1>1. /\ UNCHANGED <<place, shelf, link, account, mutex, hand, waived, used>>
      /\ Becomes(pass.to, pass.series, e) /\ Seen(pass) # None /\ pass.at = "put"
      /\ pass' = [pass EXCEPT !.at = "ack"]
  BY DEF PutPass
<1>2. /\ DOMAIN pass.acks = {b} /\ b \in Books
      /\ pass.acks[b] \in Ack /\ pass.acks[b].chapter <= Limit
      /\ pass.series \in Series /\ pass.to \in Accounts
      /\ mutex = "pass" /\ account # None /\ pass.to = account.id
      /\ link[b] # None /\ link[b] \in Link /\ link[b].series = pass.series
      /\ Told(pass) \in [chapter : 0 .. Limit, volume : Nat]
      /\ Seen(pass) \in Entry
  BY <1>1, PassParts
<1>3. IsPatch(pass.patch) /\ Shows(Told(pass), link[b].volume, pass.acks[b], pass.patch)
  BY <1>1 DEF IInv, PassInv
<1>4. /\ e \in Entry
      /\ e.chapter = IF "chapter" \in DOMAIN pass.patch THEN pass.patch["chapter"]
                     ELSE Seen(pass).chapter
      /\ e.volume = IF "volume" \in DOMAIN pass.patch THEN pass.patch["volume"]
                    ELSE Seen(pass).volume
  BY <1>2, <1>3, MergeFacts
<1> HIDE DEF e
<1>5. /\ ToldGrows /\ ToldMost'
      /\ entry' \in [Accounts -> [Series -> Entry \cup {None}]]
      /\ told' \in [Accounts -> [Series -> [chapter : 0 .. Limit, volume : Nat]]]
      /\ e.chapter <= shown.chapter /\ e.volume <= shown.volume
  BY <1>1, <1>2, <1>4, BecomesFacts DEF IInv
<1>6. /\ shown \in [chapter : 0 .. Limit, volume : Nat]
      /\ Told(pass).chapter <= shown.chapter /\ Told(pass).volume <= shown.volume
  BY <1>2, <1>5 DEF ToldGrows, Told
<1> HIDE DEF shown
<1>7. Shows(shown, link[b].volume, pass.acks[b], NoPatch)
  <2>1. /\ e.chapter \in Nat /\ e.volume \in Nat
        /\ shown.chapter \in Nat /\ shown.volume \in Nat
        /\ Told(pass).chapter \in Nat /\ Told(pass).volume \in Nat
        /\ pass.acks[b].chapter \in Nat /\ link[b].volume \in Nat
    BY <1>2, <1>4, <1>6, EntryFacts, TrackingAssumption DEF Ack, Link
  <2> QED BY <1>3, <1>4, <1>5, <1>6, <2>1 DEF Shows
<1>8. /\ DOMAIN pass' = {"at", "series", "to", "acks", "patch", "touched"}
      /\ pass'.at = "ack" /\ pass'.series = pass.series /\ pass'.to = pass.to
      /\ pass'.acks = pass.acks /\ pass'.patch = pass.patch
      /\ pass'.touched = pass.touched
  BY <1>1 DEF IInv, TypeOK, IsHandler
<1>9. IsHandler(pass')
  BY <1>8 DEF IInv, TypeOK, IsHandler
<1>10. PassInv'
  <2>1. Told(pass)' = shown
    BY <1>8 DEF Told, shown
  <2> QED BY <1>1, <1>2, <1>7, <1>8, <2>1 DEF PassInv
<1> QED BY <1>1, <1>5, <1>9, <1>10, PassMoves

(* The pass ends and puts books off that go beyond the limit. *)
LEMMA EndPassKeeps ==
  ASSUME IInv, pass # None, NEW b \in DOMAIN pass.acks,
         NEW l \in [Books -> Link \cup {None}], EndPass(b, l),
         \A c \in Books : l[c] = None <=> link[c] = None,
         used' \in [requests : Nat, faults : Nat, reads : Nat]
  PROVE  /\ TypeOK' /\ PassInv' /\ HandInv' /\ Unconnected' /\ ToldMost'
         /\ ToldGrows /\ WaivedGrows /\ account' = account
         /\ \A c \in Books : SameLink(l[c], link'[c])
<1>1. mutex = "pass" /\ account # None /\ b \in Books
  BY PassParts
<1>2. /\ mutex' = "free" /\ pass' = None /\ link' = Resting(l, PutOff(Later(b)))
      /\ UNCHANGED <<place, shelf, account, hand, service, waived>>
  BY DEF EndPass
<1>3. /\ PutOff(Later(b)) \in SUBSET Books
      /\ \A c \in PutOff(Later(b)) : l[c] # None
  BY <1>1, DueFacts DEF IInv
<1>4. /\ link' \in [Books -> Link \cup {None}]
      /\ \A c \in Books : SameLink(l[c], link'[c])
  BY <1>2, <1>3, RestingFacts
<1>5. TypeOK'
  BY <1>2, <1>4 DEF IInv, TypeOK, service
<1>6. hand = None
  BY <1>1, OneHandler DEF IInv
<1>7. PassInv' /\ HandInv' /\ Unconnected' /\ ToldMost'
  BY <1>1, <1>2, <1>6 DEF IInv, PassInv, HandInv, Unconnected, ToldMost, service
<1>8. ToldGrows /\ WaivedGrows
  BY <1>2, HistoryRests DEF IInv, service
<1> QED BY <1>2, <1>4, <1>5, <1>7, <1>8

(* A pass acknowledges what its entry shows. *)
LEMMA AckPassKeeps ==
  ASSUME IInv, pass # None, NEW b \in DOMAIN pass.acks, AckPass(b)
  PROVE  IInv'
<1> DEFINE x == Raised(link[b].ack, pass.acks[b])
           l == [link EXCEPT ![b].ack = Raised(@, pass.acks[b]), ![b].waits = FALSE]
<1>1. /\ pass.at = "ack" /\ EndPass(b, l) /\ used' = used
  BY DEF AckPass
<1>2. /\ DOMAIN pass.acks = {b} /\ b \in Books
      /\ pass.acks[b] \in Ack
      /\ pass.series \in Series /\ pass.to \in Accounts
      /\ mutex = "pass" /\ account # None /\ pass.to = account.id
      /\ link[b] # None /\ link[b] \in Link /\ link[b].series = pass.series
      /\ Told(pass) \in [chapter : 0 .. Limit, volume : Nat]
  BY PassParts
<1>3. link[b].ack \in Ack /\ link[b].volume \in Nat
  BY <1>2 DEF Link
<1>4. /\ x \in Ack /\ x.step \in {link[b].ack.step, pass.acks[b].step}
      /\ x.chapter \in {link[b].ack.chapter, pass.acks[b].chapter}
  BY <1>2, <1>3, RaisedFacts
<1> HIDE DEF x
<1>5. l = [link EXCEPT ![b] = [link[b] EXCEPT !.ack = x, !.waits = FALSE]]
  BY <1>2 DEF x, IInv, TypeOK
<1>6. /\ [link[b] EXCEPT !.ack = x, !.waits = FALSE] \in Link /\ None \notin Link
  BY <1>2, <1>4, LinkEdits
<1> HIDE DEF l
<1>7. /\ l \in [Books -> Link \cup {None}]
      /\ \A c \in Books : l[c] = None <=> link[c] = None
      /\ \A c \in Books : c # b => l[c] = link[c]
      /\ l[b] # None /\ l[b].series = link[b].series /\ l[b].volume = link[b].volume
      /\ l[b].auto = link[b].auto /\ l[b].ack = x
  BY <1>2, <1>5, <1>6 DEF IInv, TypeOK, Link
<1>8. used' \in [requests : Nat, faults : Nat, reads : Nat]
  BY <1>1 DEF IInv, TypeOK
<1>9. /\ TypeOK' /\ PassInv' /\ HandInv' /\ Unconnected' /\ ToldMost'
      /\ account' = account /\ \A c \in Books : SameLink(l[c], link'[c])
  BY <1>1, <1>7, <1>8, EndPassKeeps
<1>10. told' = told /\ waived' = waived
  BY <1>1 DEF EndPass, service
<1>11. AcksTrue'
  <2> SUFFICES ASSUME NEW c \in Books, link'[c] # None, link'[c].auto
               PROVE  Reported(c, account.id)'
    BY <1>2, <1>9 DEF AcksTrue
  <2>1. /\ l[c] # None /\ l[c].auto /\ link'[c].series = l[c].series
        /\ link'[c].volume = l[c].volume /\ link'[c].ack = l[c].ack
    BY <1>9 DEF SameLink
  <2>2. CASE c # b
    <3>1. Reported(c, account.id)
      BY <1>2, <1>7, <2>1, <2>2 DEF IInv, AcksTrue
    <3> QED BY <1>7, <1>9, <1>10, <2>1, <2>2, <3>1 DEF Reported
  <2>3. CASE c = b
    <3> DEFINE shown == Told(pass)
               by == waived[account.id][link[b].series][b]
    <3>1. link[b].auto /\ Reported(b, account.id)
      BY <1>2, <1>7, <2>1, <2>3 DEF IInv, AcksTrue
    <3>2. Shows(shown, link[b].volume, pass.acks[b], NoPatch)
      BY <1>1 DEF IInv, PassInv
    <3>3. /\ shown = told[account.id][link[b].series] /\ by \in Ack
      BY <1>2, Parts DEF IInv, Told
    <3>4. /\ link[b].ack.chapter <= Higher(shown.chapter, by.chapter)
          /\ link[b].ack.step = 2 => link[b].volume <= shown.volume \/ by.step = 2
      BY <3>1, <3>3 DEF Reported
    <3>5. /\ pass.acks[b].chapter <= shown.chapter
          /\ pass.acks[b].step = 2 => link[b].volume <= shown.volume
      BY <3>2 DEF Shows, NoPatch
    <3>6. /\ shown.chapter \in Nat /\ by.chapter \in Nat
          /\ link[b].ack.chapter \in Nat /\ pass.acks[b].chapter \in Nat
      BY <1>2, <1>3, <3>3, TrackingAssumption DEF Ack
    <3> HIDE DEF shown, by
    <3>7. /\ x.chapter <= Higher(shown.chapter, by.chapter)
          /\ x.step = 2 => link[b].volume <= shown.volume \/ by.step = 2
      BY <1>4, <3>4, <3>5, <3>6 DEF Higher
    <3>8. /\ link'[b].series = link[b].series /\ link'[b].volume = link[b].volume
          /\ link'[b].ack = x
      BY <1>7, <2>1, <2>3
    <3> QED BY <1>9, <1>10, <2>3, <3>3, <3>7, <3>8 DEF Reported, by
  <2> QED BY <2>2, <2>3
<1> QED BY <1>9, <1>11 DEF IInv

LEMMA FailPassKeeps ==
  ASSUME IInv, pass # None, NEW b \in DOMAIN pass.acks, FailPass(b)
  PROVE  IInv'
<1> DEFINE l == [link EXCEPT ![b].waits = TRUE]
<1>1. EndPass(b, l) /\ used' \in [requests : Nat, faults : Nat, reads : Nat]
  BY DEF FailPass, Fault, IInv, TypeOK
<1>2. b \in Books /\ link[b] # None /\ link[b] \in Link /\ account # None
  BY PassParts
<1>3. Nothing \in Ack
  BY DEF Nothing, Ack
<1>4. /\ [link[b] EXCEPT !.waits = TRUE] \in Link /\ None \notin Link
      /\ SameLink(link[b], [link[b] EXCEPT !.waits = TRUE])
  BY <1>2, <1>3, LinkEdits
<1>5. l = [link EXCEPT ![b] = [link[b] EXCEPT !.waits = TRUE]]
  BY <1>2 DEF IInv, TypeOK
<1> HIDE DEF l
<1>6. /\ l \in [Books -> Link \cup {None}]
      /\ \A c \in Books : SameLink(link[c], l[c])
      /\ \A c \in Books : l[c] = None <=> link[c] = None
  BY <1>2, <1>4, <1>5 DEF IInv, TypeOK, SameLink
<1>7. /\ TypeOK' /\ PassInv' /\ HandInv' /\ Unconnected' /\ ToldMost'
      /\ ToldGrows /\ WaivedGrows
      /\ account' = account /\ \A c \in Books : SameLink(l[c], link'[c])
  BY <1>1, <1>6, EndPassKeeps
<1>8. LinksRest
  BY <1>6, <1>7 DEF LinksRest, SameLink
<1>9. AcksTrue'
  BY <1>2, <1>7, <1>8, AcksFrame DEF IInv
<1> QED BY <1>7, <1>9 DEF IInv

LEMMA PassStepKeeps ==
  ASSUME IInv, PassStep
  PROVE  IInv'
BY GetPassKeeps, PostPassKeeps, PutPassKeeps, AckPassKeeps, FailPassKeeps DEF PassStep

-----------------------------------------------------------------------------
(* The person                                                              *)

LEMMA HandParts ==
  ASSUME IInv, hand # None
  PROVE  /\ mutex = "hand" /\ pass = None /\ account # None /\ hand.to = account.id
         /\ hand.series \in Series /\ hand.to \in Accounts /\ IsPatch(hand.patch)
         /\ DOMAIN hand = {"at", "series", "to", "acks", "patch", "touched"}
         /\ DOMAIN hand.acks \subseteq Books
         /\ \A b \in DOMAIN hand.acks :
              /\ hand.acks[b] \in Ack /\ link[b] # None /\ link[b].series = hand.series
              /\ hand.at # "post"
              /\ hand.at = "ack" =>
                   /\ hand.acks[b].chapter <= waived[hand.to][hand.series][b].chapter
                   /\ hand.acks[b].step <= waived[hand.to][hand.series][b].step
         /\ Seen(hand) # None => Seen(hand) \in Entry
<1>1. /\ hand.series \in Series /\ hand.to \in Accounts
      /\ DOMAIN hand = {"at", "series", "to", "acks", "patch", "touched"}
      /\ DOMAIN hand.acks \subseteq Books
      /\ \A b \in DOMAIN hand.acks : hand.acks[b] \in Ack
  BY DEF IInv, TypeOK, IsHandler
<1>2. /\ mutex = "hand" /\ pass = None /\ account # None /\ hand.to = account.id
      /\ IsPatch(hand.patch)
      /\ \A b \in DOMAIN hand.acks :
           /\ link[b] # None /\ link[b].series = hand.series
           /\ hand.at # "post"
           /\ hand.at = "ack" =>
                /\ hand.acks[b].chapter <= waived[hand.to][hand.series][b].chapter
                /\ hand.acks[b].step <= waived[hand.to][hand.series][b].step
  BY OneHandler DEF IInv, HandInv
<1>3. Seen(hand) # None => Seen(hand) \in Entry
  BY <1>1, Parts DEF IInv, Seen
<1> QED BY <1>1, <1>2, <1>3

LEMMA HandMoves ==
  ASSUME IInv, hand # None, IsHandler(hand'), HandInv',
         UNCHANGED <<place, shelf, link, account, mutex, pass, used>>,
         ToldGrows, WaivedGrows, ToldMost',
         entry' \in [Accounts -> [Series -> Entry \cup {None}]],
         told' \in [Accounts -> [Series -> [chapter : 0 .. Limit, volume : Nat]]],
         waived' \in [Accounts -> [Series -> [Books -> Ack]]]
  PROVE  IInv'
<1>1. TypeOK'
  BY DEF IInv, TypeOK
<1>2. LinksRest
  BY DEF LinksRest, SameLink
<1>3. PassInv'
  BY HandParts DEF PassInv
<1>4. Unconnected' /\ AcksTrue'
  BY <1>1, <1>2, UnconnectedFrame, AcksFrame DEF IInv
<1> QED BY <1>1, <1>3, <1>4 DEF IInv

(* The account and the links stay as the edit found them; what it will     *)
(* acknowledge is what it reads now.                                       *)
LEMMA GetHandKeeps ==
  ASSUME IInv, hand # None, GetHand
  PROVE  IInv'
<1> DEFINE s == hand.series
           B == IF DOMAIN hand.patch = {} THEN {} ELSE Settled(s)
<1>1. /\ hand' = [hand EXCEPT !.at = "put", !.acks = Snapshot(hand)]
      /\ UNCHANGED <<place, shelf, link, account, mutex, pass, waived, used>>
      /\ entry' = entry /\ told' = told
  BY DEF GetHand, service
<1>2. Snapshot(hand) = [b \in B |-> Reached(b)]
  BY DEF Snapshot
<1>3. /\ s \in Series /\ hand.to \in Accounts /\ mutex = "hand" /\ account # None
      /\ hand.to = account.id /\ IsPatch(hand.patch)
      /\ DOMAIN hand = {"at", "series", "to", "acks", "patch", "touched"}
  BY HandParts
<1>4. \A b \in B : /\ b \in Books /\ Reached(b) \in Ack
                   /\ link[b] # None /\ link[b].series = s
  BY ReachedType DEF IInv, Settled
<1> HIDE DEF B
<1>5. /\ DOMAIN hand' = {"at", "series", "to", "acks", "patch", "touched"}
      /\ hand'.at = "put" /\ hand'.series = s /\ hand'.to = hand.to
      /\ hand'.acks = [b \in B |-> Reached(b)] /\ hand'.patch = hand.patch
      /\ hand'.touched = hand.touched
  BY <1>1, <1>2, <1>3
<1>6. IsHandler(hand')
  <2>1. DOMAIN hand.patch \subseteq DOMAIN Blank /\ hand.touched \in BOOLEAN
    BY DEF IInv, TypeOK, IsHandler
  <2> QED BY <2>1, <1>3, <1>4, <1>5 DEF IsHandler
<1>7. HandInv'
  BY <1>1, <1>3, <1>4, <1>5 DEF HandInv
<1>8. /\ ToldGrows /\ ToldMost' /\ WaivedGrows
      /\ entry' \in [Accounts -> [Series -> Entry \cup {None}]]
      /\ told' \in [Accounts -> [Series -> [chapter : 0 .. Limit, volume : Nat]]]
      /\ waived' \in [Accounts -> [Series -> [Books -> Ack]]]
  BY <1>1, HistoryRests DEF IInv, TypeOK, ToldMost
<1> QED BY <1>1, <1>6, <1>7, <1>8, HandMoves

(* The entry is written; what the edit will acknowledge is waived by now. *)
LEMMA HandWrites ==
  ASSUME IInv, hand # None, NEW e \in Entry, Becomes(hand.to, hand.series, e),
         hand' = [hand EXCEPT !.at = "ack"],
         UNCHANGED <<place, shelf, link, account, mutex, pass, used>>,
         WaivedGrows, waived' \in [Accounts -> [Series -> [Books -> Ack]]],
         \A b \in DOMAIN hand.acks :
           /\ hand.acks[b].chapter <= waived'[hand.to][hand.series][b].chapter
           /\ hand.acks[b].step <= waived'[hand.to][hand.series][b].step
  PROVE  IInv'
<1>1. hand.series \in Series /\ hand.to \in Accounts
  BY HandParts
<1>2. /\ ToldGrows /\ ToldMost'
      /\ entry' \in [Accounts -> [Series -> Entry \cup {None}]]
      /\ told' \in [Accounts -> [Series -> [chapter : 0 .. Limit, volume : Nat]]]
  BY <1>1, BecomesFacts DEF IInv
<1>3. /\ DOMAIN hand' = {"at", "series", "to", "acks", "patch", "touched"}
      /\ hand'.at = "ack" /\ hand'.series = hand.series /\ hand'.to = hand.to
      /\ hand'.acks = hand.acks /\ hand'.patch = hand.patch
      /\ hand'.touched = hand.touched
  BY HandParts
<1>4. IsHandler(hand')
  BY <1>3 DEF IInv, TypeOK, IsHandler
<1>5. HandInv'
  BY <1>3 DEF IInv, HandInv
<1> QED BY <1>2, <1>4, <1>5, HandMoves

LEMMA PostHandKeeps ==
  ASSUME IInv, hand # None, PostHand
  PROVE  IInv'
<1>1. [Blank EXCEPT !.state = "plan"] \in Entry
  BY BlankIsEntry DEF Entry, States
<1>2. WaivedGrows /\ waived' \in [Accounts -> [Series -> [Books -> Ack]]]
  BY HistoryRests DEF PostHand, IInv, TypeOK
<1>3. DOMAIN hand.acks = {}
  BY HandParts DEF PostHand
<1> QED BY <1>1, <1>2, <1>3, HandWrites DEF PostHand

LEMMA PutHandKeeps ==
  ASSUME IInv, hand # None, PutHand
  PROVE  IInv'
<1> DEFINE a == hand.to
           s == hand.series
           new == [b \in Books |-> IF b \in DOMAIN hand.acks
                                   THEN Raised(waived[a][s][b], hand.acks[b])
                                   ELSE waived[a][s][b]]
<1>1. waived' = [waived EXCEPT ![a] = [waived[a] EXCEPT ![s] = new]]
  BY DEF PutHand
<1>2. /\ a \in Accounts /\ s \in Series /\ DOMAIN hand.acks \subseteq Books
      /\ \A b \in DOMAIN hand.acks : hand.acks[b] \in Ack
  BY HandParts
<1>3. ASSUME NEW b \in Books
      PROVE  /\ new[b] \in Ack
             /\ waived[a][s][b].chapter <= new[b].chapter
             /\ waived[a][s][b].step <= new[b].step
             /\ b \in DOMAIN hand.acks => /\ hand.acks[b].chapter <= new[b].chapter
                                          /\ hand.acks[b].step <= new[b].step
  <2>1. waived[a][s][b] \in Ack
    BY <1>2, Parts DEF IInv
  <2>2. CASE b \in DOMAIN hand.acks
    BY <2>1, <2>2, <1>2, RaisedFacts
  <2>3. CASE b \notin DOMAIN hand.acks
    <3>1. new[b] = waived[a][s][b]
      BY <2>3
    <3> QED BY <2>1, <2>3, <3>1 DEF Ack
  <2> QED BY <2>2, <2>3
<1>4. new \in [Books -> Ack]
  BY <1>3
<1> HIDE DEF new
<1>5. /\ waived' \in [Accounts -> [Series -> [Books -> Ack]]]
      /\ waived'[a][s] = new
      /\ \A c \in Accounts, t \in Series :
            c # a \/ t # s => waived'[c][t] = waived[c][t]
  BY <1>1, <1>2, <1>4 DEF IInv, TypeOK
<1>6. WaivedGrows
  <2> SUFFICES ASSUME NEW c \in Accounts, NEW t \in Series, NEW b \in Books
               PROVE  /\ waived[c][t][b].chapter <= waived'[c][t][b].chapter
                      /\ waived[c][t][b].step <= waived'[c][t][b].step
    BY DEF WaivedGrows
  <2>1. CASE c = a /\ t = s
    BY <2>1, <1>3, <1>5
  <2>2. CASE c # a \/ t # s
    <3>1. waived[c][t][b].step \in 0 .. 2 /\ waived[c][t][b].chapter \in Nat
      BY Parts DEF IInv
    <3> QED BY <2>2, <3>1, <1>5
  <2> QED BY <2>1, <2>2
<1>7. Merge(Seen(hand), hand.patch) \in Entry
  BY HandParts, MergeFacts DEF PutHand
<1>8. \A b \in DOMAIN hand.acks :
        /\ hand.acks[b].chapter <= waived'[a][s][b].chapter
        /\ hand.acks[b].step <= waived'[a][s][b].step
  BY <1>2, <1>3, <1>5
<1> QED BY <1>5, <1>6, <1>7, <1>8, HandWrites DEF PutHand

(* A handler that has the mutex gives it back; the links may be new. *)
LEMMA Freed ==
  ASSUME IInv, mutex' = "free", pass' = None, hand' = None, account' = account,
         UNCHANGED <<place, shelf, service, waived>>,
         used' \in [requests : Nat, faults : Nat, reads : Nat],
         link' \in [Books -> Link \cup {None}], Unconnected', AcksTrue'
  PROVE  IInv'
<1>1. TypeOK'
  BY DEF IInv, TypeOK, service
<1>2. PassInv' /\ HandInv' /\ ToldMost'
  BY DEF IInv, PassInv, HandInv, ToldMost, service
<1> QED BY <1>1, <1>2 DEF IInv

(* The edit acknowledges what it waived. *)
LEMMA AckHandKeeps ==
  ASSUME IInv, hand # None, AckHand
  PROVE  IInv'
<1> DEFINE new(b) == [link[b] EXCEPT !.ack = Raised(@, hand.acks[b]), !.waits = FALSE]
<1>1. /\ mutex = "hand" /\ pass = None /\ account # None /\ hand.to = account.id
      /\ hand.series \in Series /\ hand.to \in Accounts
      /\ DOMAIN hand.acks \subseteq Books
  BY HandParts
<1>2. /\ mutex' = "free" /\ hand' = None /\ pass' = None
      /\ UNCHANGED <<place, shelf, account, service, waived, used>>
      /\ link' = [b \in Books |-> IF b \in DOMAIN hand.acks THEN new(b) ELSE link[b]]
  BY <1>1 DEF AckHand, EndHand
<1>3. ASSUME NEW b \in DOMAIN hand.acks
      PROVE  LET x == Raised(link[b].ack, hand.acks[b])
             IN  /\ new(b) = [link[b] EXCEPT !.ack = x, !.waits = FALSE]
                 /\ x \in Ack /\ new(b) \in Link /\ new(b) # None
                 /\ new(b).series = link[b].series /\ new(b).volume = link[b].volume
                 /\ new(b).auto = link[b].auto /\ new(b).ack = x
  <2>1. link[b] \in Link /\ hand.acks[b] \in Ack
    BY <1>1, HandParts, Parts DEF IInv
  <2>2. link[b].ack \in Ack
    BY <2>1 DEF Link
  <2> DEFINE x == Raised(link[b].ack, hand.acks[b])
  <2>3. x \in Ack /\ new(b) = [link[b] EXCEPT !.ack = x, !.waits = FALSE]
    BY <2>1, <2>2, RaisedFacts DEF Link
  <2> HIDE DEF x, new
  <2>4. new(b) \in Link /\ None \notin Link
    BY <2>1, <2>3, LinkEdits
  <2>5. /\ new(b).series = link[b].series /\ new(b).volume = link[b].volume
        /\ new(b).auto = link[b].auto /\ new(b).ack = x
    BY <2>1, <2>3 DEF Link
  <2> QED BY <2>3, <2>4, <2>5 DEF x
<1> HIDE DEF new
<1>4. link' \in [Books -> Link \cup {None}]
  BY <1>2, <1>3 DEF IInv, TypeOK
<1>5. Unconnected'
  BY <1>1, <1>2 DEF Unconnected
<1>6. AcksTrue'
  <2> SUFFICES ASSUME NEW b \in Books, link'[b] # None, link'[b].auto
               PROVE  Reported(b, account.id)'
    BY <1>1, <1>2 DEF AcksTrue
  <2>1. CASE b \notin DOMAIN hand.acks
    <3>1. link'[b] = link[b]
      BY <1>2, <2>1
    <3>2. Reported(b, account.id)
      BY <1>1, <3>1 DEF IInv, AcksTrue
    <3> QED BY <1>2, <3>1, <3>2 DEF Reported, service
  <2>2. CASE b \in DOMAIN hand.acks
    <3> DEFINE x == Raised(link[b].ack, hand.acks[b])
               by == waived[account.id][link[b].series][b]
               shown == told[account.id][link[b].series]
    <3>1. /\ link'[b].series = link[b].series /\ link'[b].volume = link[b].volume
          /\ link[b].auto /\ link'[b].ack = x
      BY <1>2, <1>3, <2>2
    <3>2. /\ link[b] # None /\ link[b].series = hand.series
          /\ hand.acks[b].chapter <= by.chapter /\ hand.acks[b].step <= by.step
          /\ hand.acks[b] \in Ack
      BY <1>1, <2>2, HandParts DEF AckHand
    <3>3. /\ link[b].ack \in Ack /\ by \in Ack
          /\ shown \in [chapter : 0 .. Limit, volume : Nat]
      BY <1>1, <3>2, Parts DEF IInv
    <3>4. /\ link[b].ack.chapter <= Higher(shown.chapter, by.chapter)
          /\ link[b].ack.step = 2 => link[b].volume <= shown.volume \/ by.step = 2
      BY <1>1, <3>1, <3>2 DEF IInv, AcksTrue, Reported
    <3>5. /\ x.step \in {link[b].ack.step, hand.acks[b].step}
          /\ x.chapter \in {link[b].ack.chapter, hand.acks[b].chapter}
      BY <3>2, <3>3, RaisedFacts
    <3>6. /\ shown.chapter \in Nat /\ by.chapter \in Nat /\ by.step \in 0 .. 2
          /\ link[b].ack.chapter \in Nat /\ hand.acks[b].chapter \in Nat
          /\ hand.acks[b].step \in 0 .. 2
      BY <3>2, <3>3, TrackingAssumption DEF Ack
    <3> HIDE DEF x, by, shown
    <3>7. /\ x.chapter <= Higher(shown.chapter, by.chapter)
          /\ x.step = 2 => link[b].volume <= shown.volume \/ by.step = 2
      BY <3>2, <3>4, <3>5, <3>6 DEF Higher
    <3> QED BY <1>2, <3>1, <3>7 DEF Reported, service, by, shown
  <2> QED BY <2>1, <2>2
<1> QED BY <1>2, <1>4, <1>5, <1>6, Freed DEF IInv, TypeOK

LEMMA Stopped ==
  ASSUME IInv, mutex' = "free", pass' = None, hand' = None,
         UNCHANGED <<place, shelf, link, account, service, waived>>,
         used' \in [requests : Nat, faults : Nat, reads : Nat]
  PROVE  IInv'
<1>1. link' \in [Books -> Link \cup {None}]
  BY DEF IInv, TypeOK
<1>2. Unconnected' /\ AcksTrue'
  BY DEF IInv, Unconnected, AcksTrue, Reported, service
<1> QED BY <1>1, <1>2, Freed

LEMMA Counted ==
  ASSUME TypeOK, Request \/ Fault
  PROVE  used' \in [requests : Nat, faults : Nat, reads : Nat]
<1>1. /\ used \in [requests : Nat, faults : Nat, reads : Nat]
      /\ used.requests \in Nat /\ used.faults \in Nat
  BY DEF TypeOK
<1>2. \/ used' = [used EXCEPT !.requests = used.requests + 1]
      \/ used' = [used EXCEPT !.faults = used.faults + 1]
  BY DEF Request, Fault
<1> QED BY ONLY <1>1, <1>2

LEMMA HandStepKeeps ==
  ASSUME IInv, HandStep
  PROVE  IInv'
<1>1. hand # None
  BY DEF HandStep
<1>2. CASE FailHand
  <2>1. used' \in [requests : Nat, faults : Nat, reads : Nat]
    <3>1. UNCHANGED used \/ Fault
      BY <1>2 DEF FailHand
    <3> QED BY <3>1, Counted DEF IInv, TypeOK
  <2>2. pass = None
    BY <1>1, HandParts
  <2> QED BY <1>2, <2>1, <2>2, Stopped DEF FailHand, EndHand
<1> QED BY <1>1, <1>2, GetHandKeeps, PostHandKeeps, PutHandKeeps, AckHandKeeps DEF HandStep

LEMMA BeginHandKeeps ==
  ASSUME IInv, mutex = "free", account # None, NEW s \in Series, Request,
         NEW patch, IsPatch(patch), NEW at \in {"get", "post"},
         hand' = [at |-> at, series |-> s, to |-> account.id,
                  acks |-> [b \in {} |-> Nothing], patch |-> patch, touched |-> FALSE],
         mutex' = "hand",
         UNCHANGED <<place, shelf, link, account, pass, service, waived>>
  PROVE  IInv'
<1>1. used' \in [requests : Nat, faults : Nat, reads : Nat] /\ pass = None
  BY Counted, OneHandler DEF IInv
<1>2. account.id \in Accounts
  BY Parts DEF IInv
<1>3. /\ DOMAIN hand' = {"at", "series", "to", "acks", "patch", "touched"}
      /\ hand'.at = at /\ hand'.series = s /\ hand'.to = account.id
      /\ DOMAIN hand'.acks = {} /\ hand'.patch = patch /\ hand'.touched = FALSE
  OBVIOUS
<1>4. IsHandler(hand')
  BY <1>2, <1>3 DEF IsHandler, IsPatch
<1>5. TypeOK'
  BY <1>1, <1>4 DEF IInv, TypeOK, service
<1>6. PassInv' /\ HandInv' /\ ToldMost'
  BY <1>1, <1>3 DEF IInv, PassInv, HandInv, ToldMost, service
<1>7. Unconnected' /\ AcksTrue'
  BY DEF IInv, Unconnected, AcksTrue, Reported, service
<1> QED BY <1>5, <1>6, <1>7 DEF IInv

LEMMA EditKeeps ==
  ASSUME IInv, NEW s \in Series, NEW patch \in Edits, BeginEdit(s, patch)
  PROVE  IInv'
<1>1. IsPatch(patch)
  BY TrackingAssumption DEF IsPatch
<1> QED BY <1>1, BeginHandKeeps DEF BeginEdit, Authorized

LEMMA AddKeeps ==
  ASSUME IInv, NEW s \in Series, BeginAdd(s)
  PROVE  IInv'
<1> DEFINE patch == [f \in {} |-> 0]
<1>1. IsPatch(patch)
  <2>1. DOMAIN patch = {} /\ Merge(Blank, patch) = [f \in DOMAIN Blank |-> Blank[f]]
    BY DEF Merge
  <2>2. [f \in DOMAIN Blank |-> Blank[f]] = Blank
    BY DEF Blank
  <2> QED BY <2>1, <2>2, BlankIsEntry DEF IsPatch
<1> HIDE DEF patch
<1>2. hand' = [at |-> "post", series |-> s, to |-> account.id,
               acks |-> [b \in {} |-> Nothing], patch |-> patch, touched |-> FALSE]
  BY DEF BeginAdd, patch
<1> QED BY <1>1, <1>2, BeginHandKeeps DEF BeginAdd, Authorized

-----------------------------------------------------------------------------
(* Links and accounts                                                      *)

(* Nobody is under way, and links are what they were or new. *)
LEMMA AloneKeeps ==
  ASSUME IInv, Alone, used' = used \/ Request \/ Fault,
         account' \in Account \cup {None}, link' \in [Books -> Link \cup {None}],
         account # None /\ account' # None => account'.id = account.id,
         \A b \in Books :
           link'[b] # None /\ link'[b].auto =>
             \/ link'[b].ack = Nothing
             \/ SameLink(link[b], link'[b]) /\ account' # None
  PROVE  IInv'
<1>1. /\ mutex = "free" /\ pass = None /\ hand = None
      /\ UNCHANGED <<place, shelf, mutex, pass, hand, service, waived>>
  BY OneHandler DEF Alone, IInv
<1>2. used' \in [requests : Nat, faults : Nat, reads : Nat]
  BY Counted DEF IInv, TypeOK
<1>3. TypeOK'
  BY <1>1, <1>2 DEF IInv, TypeOK, service
<1>4. PassInv' /\ HandInv' /\ ToldMost'
  BY <1>1 DEF IInv, PassInv, HandInv, ToldMost, service
<1>5. Unconnected'
  BY DEF Unconnected
<1>6. AcksTrue'
  <2> SUFFICES ASSUME NEW b \in Books, account' # None, link'[b] # None, link'[b].auto
               PROVE  Reported(b, account.id)'
    BY DEF AcksTrue
  <2> DEFINE s == link'[b].series
             a == account'.id
             shown == told[a][s]
             by == waived[a][s][b]
  <2>1. s \in Series /\ link'[b].volume \in Nat /\ a \in Accounts
    BY DEF Link, Account
  <2>2. /\ shown.chapter \in Nat /\ by.chapter \in Nat
    BY <2>1, Parts DEF IInv
  <2>3. CASE link'[b].ack = Nothing
    <3>1. link'[b].ack.chapter = 0 /\ link'[b].ack.step = 0
      BY <2>3 DEF Nothing
    <3> QED BY <1>1, <2>2, <3>1 DEF Reported, Higher, service
  <2>4. CASE SameLink(link[b], link'[b]) /\ link'[b].ack # Nothing
    <3>1. /\ link[b] # None /\ link[b].series = s /\ link[b].volume = link'[b].volume
          /\ link[b].auto /\ link[b].ack = link'[b].ack
      BY <2>4 DEF SameLink
    <3>2. account # None
      BY <2>4, <3>1 DEF IInv, Unconnected
    <3>3. Reported(b, a)
      BY <3>1, <3>2 DEF IInv, AcksTrue
    <3> QED BY <1>1, <3>1, <3>3 DEF Reported, service
  <2> QED BY <2>3, <2>4
<1> QED BY <1>3, <1>4, <1>5, <1>6 DEF IInv

LEMMA NewLinkType ==
  ASSUME NEW s \in Series, NEW keyed \in BOOLEAN,
         NEW c, c.volume \in Nat, c.auto \in BOOLEAN, c.complete \in BOOLEAN
  PROVE  /\ NewLink(s, keyed, c) \in Link /\ NewLink(s, keyed, c) # None
         /\ NewLink(s, keyed, c).ack = Nothing
<1>1. NewLink(s, keyed, c) \in Link /\ NewLink(s, keyed, c).ack = Nothing
  BY DEF NewLink, Link, Nothing, Ack
<1> QED BY <1>1, TrackingAssumption

(* A link that stays is the same, and has nothing acknowledged while no    *)
(* account is connected.                                                   *)
LEMMA LinkStays ==
  ASSUME IInv, NEW b \in Books, link'[b] = link[b], account' = account
  PROVE  link'[b] # None /\ link'[b].auto =>
           \/ link'[b].ack = Nothing
           \/ SameLink(link[b], link'[b]) /\ account' # None
BY DEF IInv, Unconnected, SameLink

LEMMA LinkBookKeeps ==
  ASSUME IInv, NEW b \in Books, NEW s \in Series, NEW keyed \in BOOLEAN,
         NEW c \in Choices, LinkBook(b, s, keyed, c)
  PROVE  IInv'
<1> DEFINE new == NewLink(s, keyed, c)
<1>1. Alone /\ Request /\ account' = account /\ link' = [link EXCEPT ![b] = new]
  BY DEF LinkBook
<1>2. new \in Link /\ new.ack = Nothing
  <2>1. c \in [volume : Nat, auto : BOOLEAN, complete : BOOLEAN]
    BY TrackingAssumption
  <2>2. c.volume \in Nat /\ c.auto \in BOOLEAN /\ c.complete \in BOOLEAN
    BY <2>1
  <2> QED BY <2>2, NewLinkType
<1> HIDE DEF new
<1>3. /\ link' \in [Books -> Link \cup {None}]
      /\ link'[b] = new /\ \A d \in Books \ {b} : link'[d] = link[d]
  BY <1>1, <1>2 DEF IInv, TypeOK
<1>4. account' \in Account \cup {None}
  BY <1>1 DEF IInv, TypeOK
<1> QED BY <1>1, <1>2, <1>3, <1>4, LinkStays, AloneKeeps

LEMMA UnlinkBookKeeps ==
  ASSUME IInv, NEW b \in Books, UnlinkBook(b)
  PROVE  IInv'
<1>1. Alone /\ Request /\ account' = account /\ link' = [link EXCEPT ![b] = None]
  BY DEF UnlinkBook
<1>2. /\ link' \in [Books -> Link \cup {None}]
      /\ link'[b] = None /\ \A d \in Books \ {b} : link'[d] = link[d]
  BY <1>1 DEF IInv, TypeOK
<1>3. account' \in Account \cup {None}
  BY <1>1 DEF IInv, TypeOK
<1> QED BY <1>1, <1>2, <1>3, LinkStays, AloneKeeps

LEMMA LinkSeriesKeeps ==
  ASSUME IInv, NEW s \in Series, NEW auto \in BOOLEAN, LinkSeries(s, auto)
  PROVE  IInv'
<1> DEFINE new(b) == NewLink(s, TRUE, [volume |-> VolumeOf[b], auto |-> auto,
                                       complete |-> FALSE])
<1>1. /\ Alone /\ Request /\ account' = account
      /\ link' = [b \in Books |-> IF b \in shelf /\ (link[b] = None \/ b \in Keyed)
                                 THEN new(b) ELSE link[b]]
  BY DEF LinkSeries
<1>2. ASSUME NEW b \in Books PROVE new(b) \in Link /\ new(b).ack = Nothing
  <2> DEFINE c == [volume |-> VolumeOf[b], auto |-> auto, complete |-> FALSE]
  <2>1. c.volume \in Nat /\ c.auto \in BOOLEAN /\ c.complete \in BOOLEAN
    BY TrackingAssumption
  <2> HIDE DEF c
  <2>2. NewLink(s, TRUE, c) \in Link /\ NewLink(s, TRUE, c).ack = Nothing
    BY <2>1, NewLinkType
  <2> QED BY <2>2 DEF c
<1> HIDE DEF new
<1>3. /\ link' \in [Books -> Link \cup {None}]
      /\ \A d \in Books : link'[d] = link[d] \/ link'[d].ack = Nothing
  BY <1>1, <1>2 DEF IInv, TypeOK
<1>4. account' \in Account \cup {None}
  BY <1>1 DEF IInv, TypeOK
<1> QED BY <1>1, <1>3, <1>4, LinkStays, AloneKeeps

LEMMA UnlinkSeriesKeeps ==
  ASSUME IInv, UnlinkSeries
  PROVE  IInv'
<1>1. /\ Alone /\ Request /\ account' = account
      /\ link' = [b \in Books |-> IF b \in Keyed THEN None ELSE link[b]]
  BY DEF UnlinkSeries
<1>2. /\ link' \in [Books -> Link \cup {None}]
      /\ \A d \in Books : link'[d] = link[d] \/ link'[d] = None
  BY <1>1 DEF IInv, TypeOK
<1>3. account' \in Account \cup {None}
  BY <1>1 DEF IInv, TypeOK
<1> QED BY <1>1, <1>2, <1>3, LinkStays, AloneKeeps

LEMMA ConnectKeeps ==
  ASSUME IInv, NEW a \in Accounts, Connect(a)
  PROVE  IInv'
<1>1. /\ Alone /\ used' = used /\ link' = link /\ (account # None => account.id = a)
      /\ account' = [id |-> a, refused |-> FALSE]
  BY DEF Connect
<1>2. /\ link' \in [Books -> Link \cup {None}]
      /\ account' \in Account /\ account' # None /\ account'.id = a
  <2>1. account' \in Account /\ account'.id = a
    BY <1>1 DEF Account
  <2>2. None \notin Account
    BY TrackingAssumption
  <2> QED BY <1>1, <2>1, <2>2 DEF IInv, TypeOK
<1>3. \A d \in Books : SameLink(link[d], link'[d])
  BY <1>1 DEF SameLink
<1> QED BY <1>1, <1>2, <1>3, AloneKeeps

(* Without an account no link is automatic. *)
LEMMA LeaveKeeps ==
  ASSUME IInv, Alone, used' = used \/ Request, account' = None,
         link' \in [Books -> Link \cup {None}],
         \A b \in Books : link'[b] # None => ~link'[b].auto
  PROVE  IInv'
BY AloneKeeps

LEMMA DisconnectKeeps ==
  ASSUME IInv, Disconnect
  PROVE  IInv'
<1> DEFINE new(b) == [link[b] EXCEPT !.auto = FALSE, !.ack = Nothing, !.waits = FALSE]
<1>1. /\ Alone /\ used' = used /\ account' = None
      /\ link' = [b \in Books |-> IF link[b] = None THEN None ELSE new(b)]
  BY DEF Disconnect
<1>2. ASSUME NEW b \in Books, link[b] # None PROVE new(b) \in Link /\ ~new(b).auto
  <2>1. link[b] \in Link /\ Nothing \in Ack
    BY <1>2, Parts DEF IInv, Nothing, Ack
  <2> QED BY <2>1 DEF Link
<1> HIDE DEF new
<1>3. /\ link' \in [Books -> Link \cup {None}]
      /\ \A b \in Books : link'[b] # None => ~link'[b].auto
  BY <1>1, <1>2
<1> QED BY <1>1, <1>3, LeaveKeeps

LEMMA RestoreKeeps ==
  ASSUME IInv, Restore
  PROVE  IInv'
<1> DEFINE new(b) == [link[b] EXCEPT !.auto = FALSE]
<1>1. /\ Alone /\ Request /\ account' = None
      /\ link' = [b \in Books |-> IF link[b] = None THEN None ELSE new(b)]
  BY DEF Restore
<1>2. ASSUME NEW b \in Books, link[b] # None PROVE new(b) \in Link /\ ~new(b).auto
  <2>1. link[b] \in Link
    BY <1>2, Parts DEF IInv
  <2> QED BY <2>1 DEF Link
<1> HIDE DEF new
<1>3. /\ link' \in [Books -> Link \cup {None}]
      /\ \A b \in Books : link'[b] # None => ~link'[b].auto
  BY <1>1, <1>2
<1> QED BY <1>1, <1>3, LeaveKeeps

LEMMA RefusedKeeps ==
  ASSUME IInv, RefreshRefused
  PROVE  IInv'
<1>1. Alone /\ Fault /\ link' = link /\ account # None
  BY DEF RefreshRefused, Alone
<1>2. account \in Account /\ account' = [account EXCEPT !.refused = TRUE]
  BY DEF RefreshRefused, IInv, TypeOK
<1>3. account' \in Account /\ account'.id = account.id /\ account' # None
  BY <1>2, TrackingAssumption DEF Account
<1>4. link' \in [Books -> Link \cup {None}] /\ \A d \in Books : SameLink(link[d], link'[d])
  BY <1>1 DEF IInv, TypeOK, SameLink
<1> QED BY <1>1, <1>3, <1>4, AloneKeeps

-----------------------------------------------------------------------------
(* Devices, the service, time and crashes                                  *)

LEMMA SyncedKeeps ==
  ASSUME IInv, Synced, place' \in [Books -> Places \cup {None}], shelf' \subseteq Books
  PROVE  IInv'
<1>1. UNCHANGED <<link, account, mutex, pass, hand, service, waived>>
  BY DEF Synced, server
<1>2. used' \in [requests : Nat, faults : Nat, reads : Nat]
  <2>1. used' = [used EXCEPT !.reads = used.reads + 1] /\ used.reads \in Nat
        /\ used \in [requests : Nat, faults : Nat, reads : Nat]
    BY DEF Synced, IInv, TypeOK
  <2> QED BY ONLY <2>1
<1>3. TypeOK'
  BY <1>1, <1>2 DEF IInv, TypeOK, service
<1>4. LinksRest
  BY <1>1 DEF LinksRest, SameLink
<1> QED BY <1>1, <1>3, <1>4, Framed

LEMMA MinuteKeeps ==
  ASSUME IInv, Minute
  PROVE  IInv'
<1>1. /\ UNCHANGED <<place, shelf, account, mutex, pass, hand, service, waived, used>>
      /\ link' = [b \in Books |-> IF link[b] = None THEN None
                                 ELSE [link[b] EXCEPT !.waits = FALSE]]
  BY DEF Minute
<1>2. ASSUME NEW b \in Books
      PROVE  link'[b] \in Link \cup {None} /\ SameLink(link[b], link'[b])
  <2>1. CASE link[b] = None
    BY <1>1, <2>1 DEF SameLink
  <2>2. CASE link[b] # None
    <3>1. link[b] \in Link /\ Nothing \in Ack
      BY <2>2, Parts DEF IInv, Nothing, Ack
    <3>2. link'[b] = [link[b] EXCEPT !.waits = FALSE]
      BY <1>1, <2>2
    <3> QED BY <3>1, <3>2, LinkEdits
  <2> QED BY <2>1, <2>2
<1>3. link' \in [Books -> Link \cup {None}] /\ LinksRest
  BY <1>1, <1>2 DEF LinksRest
<1>4. TypeOK'
  BY <1>1, <1>3 DEF IInv, TypeOK, service
<1> QED BY <1>1, <1>3, <1>4, Framed

LEMMA CrashKeeps ==
  ASSUME IInv, Crash
  PROVE  IInv'
BY Stopped, Counted DEF Crash, IInv

(* A change at the service spoils the read of a pass on that entry, and    *)
(* nothing else the server relies on.                                      *)
LEMMA OutsideKeeps ==
  ASSUME IInv, NEW a \in Accounts, NEW s \in Series, Outside(a, s)
  PROVE  IInv'
<1>1. /\ UNCHANGED <<place, shelf, link, account, mutex, hand, waived>>
      /\ Fault /\ pass' = Touch(pass, a, s)
  BY DEF Outside
<1>2. /\ ToldGrows /\ ToldMost'
      /\ entry' \in [Accounts -> [Series -> Entry \cup {None}]]
      /\ told' \in [Accounts -> [Series -> [chapter : 0 .. Limit, volume : Nat]]]
      /\ \A c \in Accounts, t \in Series : c # a \/ t # s => entry'[c][t] = entry[c][t]
  <2>1. CASE \E patch \in Edits :
               Becomes(a, s, Merge(IF entry[a][s] = None THEN Blank ELSE entry[a][s], patch))
    <3> DEFINE old == IF entry[a][s] = None THEN Blank ELSE entry[a][s]
    <3>1. PICK patch \in Edits : Becomes(a, s, Merge(old, patch))
      BY <2>1
    <3>2. old \in Entry
      BY BlankIsEntry, Parts DEF IInv
    <3>3. IsPatch(patch)
      BY TrackingAssumption DEF IsPatch
    <3>4. Merge(old, patch) \in Entry
      BY <3>2, <3>3, MergeFacts
    <3> QED BY <3>1, <3>4, BecomesFacts DEF IInv
  <2>2. CASE entry' = [entry EXCEPT ![a][s] = None] /\ told' = told
    <3>1. /\ entry' \in [Accounts -> [Series -> Entry \cup {None}]]
          /\ entry'[a][s] = None
          /\ \A c \in Accounts, t \in Series : c # a \/ t # s => entry'[c][t] = entry[c][t]
      BY <2>2 DEF IInv, TypeOK
    <3>2. ToldMost'
      BY <2>2, <3>1 DEF IInv, ToldMost
    <3> QED BY <2>2, <3>1, <3>2, HistoryRests DEF IInv, TypeOK
  <2> QED BY <2>1, <2>2 DEF Outside
<1>3. LinksRest /\ WaivedGrows
  BY <1>1, HistoryRests DEF IInv, LinksRest, SameLink
<1>4. pass' # None =>
        /\ pass # None /\ pass'.at = pass.at /\ pass'.series = pass.series
        /\ pass'.to = pass.to /\ pass'.acks = pass.acks /\ pass'.patch = pass.patch
        /\ IsHandler(pass')
        /\ ~pass'.touched => ~pass.touched /\ (pass.to # a \/ pass.series # s)
  <2>1. CASE pass = None
    BY <1>1, <2>1 DEF Touch
  <2>2. CASE pass # None /\ pass.to = a /\ pass.series = s
    <3>1. /\ pass' = [pass EXCEPT !.touched = TRUE] /\ IsHandler(pass)
      BY <1>1, <2>2 DEF Touch, IInv, TypeOK
    <3> QED BY <2>2, <3>1 DEF IsHandler
  <2>3. CASE pass # None /\ (pass.to # a \/ pass.series # s)
    BY <1>1, <2>3 DEF Touch, IInv, TypeOK
  <2> QED BY <2>1, <2>2, <2>3
<1>5. TypeOK'
  BY <1>1, <1>2, <1>4, Counted DEF IInv, TypeOK
<1>6. PassInv'
  <2>1. pass' # None => pass.to \in Accounts /\ pass.series \in Series
    BY <1>4 DEF IInv, TypeOK, IsHandler
  <2>2. pass' # None /\ ~pass'.touched => entry'[pass.to][pass.series] = Seen(pass)
    BY <1>2, <1>4, <2>1 DEF Seen
  <2> QED BY <1>1, <1>2, <1>3, <1>4, <1>5, <2>2, PassFrame DEF IInv
<1>7. HandInv'
  BY <1>1, <1>3, <1>5, HandFrame DEF IInv
<1>8. Unconnected' /\ AcksTrue'
  BY <1>1, <1>2, <1>3, <1>5, UnconnectedFrame, AcksFrame DEF IInv
<1> QED BY <1>2, <1>5, <1>6, <1>7, <1>8 DEF IInv

-----------------------------------------------------------------------------
(* Theorems                                                                *)

LEMMA InitInv ==
  ASSUME Init
  PROVE  IInv
<1>1. TypeOK
  BY TrackingAssumption DEF Init, TypeOK, Nothing, Ack
<1>2. PassInv /\ HandInv /\ Unconnected /\ AcksTrue
  BY DEF Init, PassInv, HandInv, Unconnected, AcksTrue
<1>3. ToldMost
  BY DEF Init, ToldMost
<1> QED BY <1>1, <1>2, <1>3 DEF IInv

LEMMA NextInv ==
  ASSUME IInv, [Next]_vars
  PROVE  IInv'
<1>1. CASE UNCHANGED vars
  <2>1. /\ UNCHANGED <<place, shelf, link, account, mutex, pass, hand, service, waived, used>>
    BY <1>1 DEF vars, server
  <2>2. TypeOK'
    BY <2>1 DEF IInv, TypeOK, service
  <2>3. LinksRest
    BY <2>1 DEF LinksRest, SameLink
  <2> QED BY <2>1, <2>2, <2>3, Framed
<1>2. CASE RefreshRefused
  BY <1>2, RefusedKeeps
<1>3. CASE BeginPass
  BY <1>3, BeginPassKeeps
<1>4. CASE PassStep
  BY <1>4, PassStepKeeps
<1>5. CASE HandStep
  BY <1>5, HandStepKeeps
<1>6. CASE \E s \in Series : BeginAdd(s) \/ \E patch \in Edits : BeginEdit(s, patch)
  BY <1>6, AddKeeps, EditKeeps
<1>7. CASE \E b \in Books, s \in Series, keyed \in BOOLEAN, c \in Choices :
             LinkBook(b, s, keyed, c)
  BY <1>7, LinkBookKeeps
<1>8. CASE \E b \in Books : UnlinkBook(b)
  BY <1>8, UnlinkBookKeeps
<1>9. CASE \E s \in Series, c \in Choices : LinkSeries(s, c.auto)
  <2>1. PICK s \in Series, c \in Choices : LinkSeries(s, c.auto)
    BY <1>9
  <2>2. c.auto \in BOOLEAN
    BY TrackingAssumption
  <2> QED BY <2>1, <2>2, LinkSeriesKeeps
<1>10. CASE UnlinkSeries
  BY <1>10, UnlinkSeriesKeeps
<1>11. CASE Disconnect
  BY <1>11, DisconnectKeeps
<1>12. CASE Restore
  BY <1>12, RestoreKeeps
<1>13. CASE \E a \in Accounts : Connect(a)
  BY <1>13, ConnectKeeps
<1>14. CASE \E b \in Books, p \in Places \cup {None} : ReadOn(b, p)
  <2>1. PICK b \in Books, p \in Places \cup {None} : ReadOn(b, p)
    BY <1>14
  <2>2. place' \in [Books -> Places \cup {None}] /\ shelf' \subseteq Books /\ Synced
    BY <2>1 DEF ReadOn, IInv, TypeOK
  <2> QED BY <2>2, SyncedKeeps
<1>15. CASE \E b \in Books : Shelve(b)
  <2>1. place' \in [Books -> Places \cup {None}] /\ shelf' \subseteq Books /\ Synced
    BY <1>15 DEF Shelve, IInv, TypeOK
  <2> QED BY <2>1, SyncedKeeps
<1>16. CASE \E a \in Accounts, s \in Series : Outside(a, s)
  BY <1>16, OutsideKeeps
<1>17. CASE Minute
  BY <1>17, MinuteKeeps
<1>18. CASE Crash
  BY <1>18, CrashKeeps
<1> QED
  BY <1>1, <1>2, <1>3, <1>4, <1>5, <1>6, <1>7, <1>8, <1>9, <1>10, <1>11, <1>12, <1>13,
     <1>14, <1>15, <1>16, <1>17, <1>18 DEF Next

(* The invariant of tracking: who holds trackingMu works on the connected  *)
(* account, with links nobody changes under it (Store.runTracking and the  *)
(* tracking routes).                                                       *)
THEOREM TrackingInvariant == Spec => []IInv
<1>1. Init => IInv
  BY InitInv
<1>2. IInv /\ [Next]_vars => IInv'
  BY NextInv
<1> QED BY <1>1, <1>2, PTL DEF Spec

(* Nothing is acknowledged that the entry did not show or an edit of it    *)
(* did not settle, for any interleaving of passes, edits, links, accounts, *)
(* devices and changes at the service, and any failures (the last lines of *)
(* Store.runTracking, Store.acknowledgeTrackingEntry).                     *)
THEOREM AcknowledgementsTrue == Spec => []AcksTrue
<1>1. IInv => AcksTrue
  BY DEF IInv
<1> QED BY <1>1, TrackingInvariant, PTL

(* An automatic write never lowers an entry and never takes it out of      *)
(* paused or completed, unless it changed at the service meanwhile         *)
(* (trackingPatch, between the two calls of Store.runTracking).            *)
THEOREM ProgressNeverLowered == Spec => NeverLowered
<1> DEFINE Raising ==
      PassStep /\ entry' # entry /\ pass.at = "put" /\ ~pass.touched
        => ~Lowered(Seen(pass), entry'[pass.to][pass.series])
<1>1. IInv /\ [Next]_vars => [Raising]_vars
  <2> SUFFICES ASSUME IInv, PassStep, entry' # entry, pass.at = "put", ~pass.touched
               PROVE  ~Lowered(Seen(pass), entry'[pass.to][pass.series])
    OBVIOUS
  <2> DEFINE e == Merge(Seen(pass), pass.patch)
  <2>1. pass # None
    BY DEF PassStep
  <2>2. PICK b \in DOMAIN pass.acks : \/ GetPass(b) \/ PostPass(b) \/ PutPass(b)
                                     \/ AckPass(b) \/ FailPass(b)
    BY DEF PassStep
  <2>3. PutPass(b)
    BY <2>2 DEF GetPass, PostPass, AckPass, FailPass, EndPass, service
  <2>4. /\ pass.to \in Accounts /\ pass.series \in Series /\ Seen(pass) \in Entry
        /\ Becomes(pass.to, pass.series, e)
    BY <2>1, <2>3, PassParts DEF PutPass
  <2>5. IsPatch(pass.patch) /\ Raises(pass.patch, Seen(pass))
    BY <2>1 DEF IInv, PassInv
  <2>6. /\ e \in Entry
        /\ e.chapter = IF "chapter" \in DOMAIN pass.patch THEN pass.patch["chapter"]
                       ELSE Seen(pass).chapter
        /\ e.volume = IF "volume" \in DOMAIN pass.patch THEN pass.patch["volume"]
                      ELSE Seen(pass).volume
        /\ e.state = IF "state" \in DOMAIN pass.patch THEN pass.patch["state"]
                     ELSE Seen(pass).state
    BY <2>4, <2>5, MergeFacts
  <2> HIDE DEF e
  <2>7. entry'[pass.to][pass.series] = e
    BY <2>4, <2>6, BecomesFacts DEF IInv
  <2>8. /\ e.chapter \in Nat /\ e.volume \in Nat
        /\ Seen(pass).chapter \in Nat /\ Seen(pass).volume \in Nat
    BY <2>4, <2>6, EntryFacts, TrackingAssumption
  <2>9. ~Lowered(Seen(pass), e)
    BY <2>5, <2>6, <2>8 DEF Raises, Lowered
  <2> QED BY <2>7, <2>9
<1> QED BY <1>1, TrackingInvariant, PTL DEF Spec, NeverLowered
=============================================================================
