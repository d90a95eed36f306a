------------------------------- MODULE Tracking -------------------------------
(***************************************************************************)
(* Reading progress that one account's books report to a tracking service. *)
(* A pass takes the positions the devices have synchronised and moves the  *)
(* service's entries forward; a person edits entries by hand, links and    *)
(* unlinks books, connects and disconnects, here and at the service.       *)
(*                                                                         *)
(* Every handler holds trackingMu from its first statement to its answer,  *)
(* calls to the service included; a pass that finds it taken gives up.     *)
(* Handlers that call the service about an entry take several steps, in    *)
(* which positions, the shelf and the service itself go on changing; the   *)
(* others are one step.  Other accounts' handlers hold the same mutex, as  *)
(* does a handler of this account that only looks at an entry.             *)
(*                                                                         *)
(* All books here belong to one local series, whose key a link may carry.  *)
(* A title orders the books; texts, dates and the privacy of an entry are  *)
(* left out.                                                               *)
(***************************************************************************)
EXTENDS Integers, FiniteSets

CONSTANTS Books, Series, Accounts,
          Order,        \* the order of the titles
          VolumeOf,     \* the volume a book's metadata states, 0 if none
          Places,       \* positions the devices write
          Start,        \* the positions there are when tracking begins
          Choices,      \* volume, auto and completion a person links with
          Edits,        \* changes a person makes to an entry
          Limit,        \* 10000: the highest chapter the service takes
          MaxRequests,  \* bound: requests of the person
          MaxFaults,    \* bound: failures, crashes and edits at the service
          MaxReads,     \* bound: positions and shelf changes synchronised
          None          \* no link, no account, no entry, no settled position

(* "plan" stands for plan_to_read, considering and no state, "paused" for  *)
(* paused and dropped.                                                     *)
States == {"plan", "reading", "completed", "paused"}
Entry == [state : States, chapter : 0 .. Limit, volume : Nat]
Blank == [state |-> "reading", chapter |-> 0, volume |-> 0]

Merge(e, patch) == [f \in DOMAIN e |-> IF f \in DOMAIN patch THEN patch[f] ELSE e[f]]

Account == [id : Accounts, refused : BOOLEAN]

(* What of a book is acknowledged: 0 nothing, 1 begun, 2 finished, and the *)
(* chapter.                                                                *)
Ack == [step : 0 .. 2, chapter : Nat]
Nothing == [step |-> 0, chapter |-> 0]

(* keyed: the link follows the local series; waits: next_attempt is ahead. *)
Link == [series : Series, keyed : BOOLEAN, volume : Nat, auto : BOOLEAN,
         complete : BOOLEAN, ack : Ack, waits : BOOLEAN]

ASSUME TrackingAssumption ==
  /\ Order \in [Books -> Nat]
  /\ \A b, c \in Books : Order[b] = Order[c] => b = c
  /\ VolumeOf \in [Books -> Nat]
  /\ Places \subseteq [step : 0 .. 2, chapter : Nat]
  /\ Start \in [Books -> Places \cup {None}]
  /\ Choices \subseteq [volume : Nat, auto : BOOLEAN, complete : BOOLEAN]
  /\ None \notin Places \cup Entry \cup Account \cup Link
  /\ \A patch \in Edits : DOMAIN patch \subseteq DOMAIN Blank /\ Merge(Blank, patch) \in Entry
  /\ Limit \in Nat /\ {MaxRequests, MaxFaults, MaxReads} \subseteq Nat

VARIABLES place,    \* the settled position of each book
          shelf,    \* books whose record is settled and not deleted
          link,     \* tracking_links
          account,  \* tracking_accounts; refused: its token needs a new consent
          mutex,    \* trackingMu: free, or the handler that holds it
          pass,     \* the pass under way
          hand,     \* the edit of an entry under way
          entry,    \* the service: each account's entries
          told,     \* history: the most each entry has ever shown
          waived,   \* history: what edits by hand that were made settle
          used      \* requests, faults and reads so far

server == <<link, account, mutex, pass, hand>>
service == <<entry, told>>
vars == <<place, shelf, server, service, waived, used>>

(* A handler under way: the call it makes next, for which entry and        *)
(* account, what it will acknowledge, what it writes, and whether somebody *)
(* changed the entry at the service since the handler read it.             *)
IsHandler(h) ==
  /\ DOMAIN h = {"at", "series", "to", "acks", "patch", "touched"}
  /\ h.at \in {"get", "post", "put", "ack"} /\ h.touched \in BOOLEAN
  /\ h.series \in Series /\ h.to \in Accounts
  /\ DOMAIN h.acks \subseteq Books /\ \A b \in DOMAIN h.acks : h.acks[b] \in Ack
  /\ DOMAIN h.patch \subseteq DOMAIN Blank

TypeOK ==
  /\ place \in [Books -> Places \cup {None}]
  /\ shelf \subseteq Books
  /\ link \in [Books -> Link \cup {None}]
  /\ account \in Account \cup {None}
  /\ mutex \in {"free", "pass", "hand"}
  /\ pass # None => IsHandler(pass)
  /\ hand # None => IsHandler(hand)
  /\ entry \in [Accounts -> [Series -> Entry \cup {None}]]
  /\ told \in [Accounts -> [Series -> [chapter : 0 .. Limit, volume : Nat]]]
  /\ waived \in [Accounts -> [Series -> [Books -> Ack]]]
  /\ used \in [requests : Nat, faults : Nat, reads : Nat]

Init ==
  /\ place = Start
  /\ shelf = Books
  /\ link = [b \in Books |-> None]
  /\ account = None
  /\ mutex = "free" /\ pass = None /\ hand = None
  /\ entry = [a \in Accounts |-> [s \in Series |-> None]]
  /\ told = [a \in Accounts |-> [s \in Series |-> [chapter |-> 0, volume |-> 0]]]
  /\ waived = [a \in Accounts |-> [s \in Series |-> [b \in Books |-> Nothing]]]
  /\ used = [requests |-> 0, faults |-> 0, reads |-> 0]

-----------------------------------------------------------------------------
(* What happens at the service or to the server is bounded. *)
Fault ==
  /\ used.faults < MaxFaults
  /\ used' = [used EXCEPT !.faults = @ + 1]

-----------------------------------------------------------------------------
(* What a pass has to do                                                   *)

Higher(m, n) == IF m > n THEN m ELSE n
Raised(x, y) == [step |-> Higher(x.step, y.step), chapter |-> Higher(x.chapter, y.chapter)]

(* What there is to acknowledge of a linked book with a settled position.  *)
(* A link with a volume does not count chapters.                           *)
Reached(b) == [step |-> place[b].step,
               chapter |-> IF link[b].volume = 0 THEN place[b].chapter ELSE 0]

Behind(b) ==
  /\ link[b] # None /\ link[b].auto
  /\ b \in shelf /\ place[b] # None
  /\ \/ Reached(b).step > link[b].ack.step
     \/ Reached(b).chapter > link[b].ack.chapter

Due == {b \in Books : Behind(b) /\ ~link[b].waits}
TooFar(b) == Reached(b).chapter > Limit
Later(b) == {c \in Due : Order[c] > Order[b]}

(* The pass goes through the due books by title.  Books beyond the limit   *)
(* are put off; the first other one is its work, and the second ends it.   *)
PutOff(due) == {b \in due : \A c \in due : Order[c] <= Order[b] => TooFar(c)}
(* Mutant: a book beyond the limit ends the pass. *)
WorkStopping(due) ==
  {b \in due : ~TooFar(b) /\ \A c \in due : Order[c] >= Order[b]}

Work(due) == {b \in due : /\ ~TooFar(b)
                          /\ \A c \in due : Order[c] < Order[b] => TooFar(c)}

Resting(l, B) == [b \in Books |-> IF b \in B THEN [l[b] EXCEPT !.waits = TRUE] ELSE l[b]]

(* The fields of an entry that a pass changes: progress only upwards, the  *)
(* end of the book and its beginning unless the person has put it aside.   *)
Patch(l, ack, seen) ==
  LET new == [state |-> CASE ack.step = 2 /\ l.complete /\ seen.state # "paused" -> "completed"
                          [] ack.step = 1 /\ seen.state = "plan" -> "reading"
                          [] OTHER -> seen.state,
              chapter |-> Higher(seen.chapter, ack.chapter),
              volume |-> IF ack.step = 2 THEN Higher(seen.volume, l.volume) ELSE seen.volume]
  IN  [f \in {g \in DOMAIN seen : new[g] # seen[g]} |-> new[f]]

-----------------------------------------------------------------------------
(* A pass                                                                  *)

(* A handler has a token: the stored one, or the one it is refreshed to.   *)
(* When a refresh fails for a time the handler does not begin.             *)
Authorized == account # None /\ ~account.refused /\ UNCHANGED account

(* The service refuses the refresh for good, and the handler gives up. *)
RefreshRefused ==
  /\ mutex = "free" /\ Fault
  /\ account # None /\ ~account.refused
  /\ account' = [account EXCEPT !.refused = TRUE]
  /\ UNCHANGED <<place, shelf, link, mutex, pass, hand, service, waived>>

BeginPass ==
  /\ mutex = "free" /\ Authorized
  /\ link' = Resting(link, PutOff(Due))
  /\ IF Work(Due) = {} THEN UNCHANGED <<mutex, pass>>
     ELSE /\ mutex' = "pass"
          /\ \E b \in Work(Due) :
               pass' = [at |-> "get", series |-> link[b].series, to |-> account.id,
                        acks |-> [c \in {b} |-> Reached(c)],
                        patch |-> [f \in {} |-> 0], touched |-> FALSE]
  /\ UNCHANGED <<place, shelf, hand, service, waived, used>>

Seen(h) == entry[h.to][h.series]

(* What the service stores of an entry from now on. *)
Becomes(a, s, e) ==
  /\ entry' = [entry EXCEPT ![a][s] = e]
  /\ told' = [told EXCEPT ![a][s] = [chapter |-> Higher(@.chapter, e.chapter),
                                     volume |-> Higher(@.volume, e.volume)]]

(* The pass knows the entry and decides what to write. *)
Decide(b, seen) ==
  LET patch == Patch(link[b], pass.acks[b], seen)
  IN  pass' = [pass EXCEPT !.at = IF DOMAIN patch = {} THEN "ack" ELSE "put",
                           !.patch = patch, !.touched = FALSE]

GetPass(b) ==
  /\ pass.at = "get"
  /\ IF Seen(pass) # None THEN Decide(b, Seen(pass))
     ELSE pass' = [pass EXCEPT !.at = "post"]
  /\ UNCHANGED <<place, shelf, link, account, mutex, hand, service, waived, used>>

PostPass(b) ==
  /\ pass.at = "post" /\ Seen(pass) = None
  /\ Becomes(pass.to, pass.series, Blank)
  /\ Decide(b, Blank)
  /\ UNCHANGED <<place, shelf, link, account, mutex, hand, waived, used>>

PutPass(b) ==
  /\ pass.at = "put" /\ Seen(pass) # None
  /\ Becomes(pass.to, pass.series, Merge(Seen(pass), pass.patch))
  /\ pass' = [pass EXCEPT !.at = "ack"]
  /\ UNCHANGED <<place, shelf, link, account, mutex, hand, waived, used>>

(* The rest of the pass after its work on book b: books beyond the limit   *)
(* up to the next due one.                                                 *)
EndPass(b, l) ==
  /\ link' = Resting(l, PutOff(Later(b)))
  /\ mutex' = "free" /\ pass' = None
  /\ UNCHANGED <<place, shelf, account, hand, service, waived>>

AckPass(b) ==
  /\ pass.at = "ack"
  /\ EndPass(b, [link EXCEPT ![b].ack = Raised(@, pass.acks[b]), ![b].waits = FALSE])
  /\ UNCHANGED used

(* The service refuses: the entry has appeared or gone. *)
Refused(h) == \/ h.at = "post" /\ Seen(h) # None
              \/ h.at = "put" /\ Seen(h) = None

(* A call is refused or fails, or its answer is lost after it was done. *)
FailPass(b) ==
  /\ IF Refused(pass) THEN UNCHANGED used ELSE Fault
  /\ EndPass(b, [link EXCEPT ![b].waits = TRUE])

PassStep ==
  /\ pass # None
  /\ \E b \in DOMAIN pass.acks : \/ GetPass(b) \/ PostPass(b) \/ PutPass(b)
                                 \/ AckPass(b) \/ FailPass(b)

-----------------------------------------------------------------------------
(* The person                                                              *)

Request ==
  /\ used.requests < MaxRequests
  /\ used' = [used EXCEPT !.requests = @ + 1]

HasLink(s) == \E b \in shelf : link[b] # None /\ link[b].series = s

(* Mutant: the edit does not wait for the mutex. *)
BeginEditUnlocked(s, patch) ==
  /\ hand = None /\ HasLink(s) /\ Request
  /\ Authorized
  /\ hand' = [at |-> "get", series |-> s, to |-> account.id,
              acks |-> [b \in {} |-> Nothing], patch |-> patch, touched |-> FALSE]
  /\ UNCHANGED <<place, shelf, link, mutex, pass, service, waived>>

(* An edit names the account it was made for; one of another account, or   *)
(* without a link, is refused.                                             *)
BeginEdit(s, patch) ==
  /\ mutex = "free" /\ HasLink(s) /\ Request
  /\ Authorized
  /\ mutex' = "hand"
  /\ hand' = [at |-> "get", series |-> s, to |-> account.id,
              acks |-> [b \in {} |-> Nothing], patch |-> patch, touched |-> FALSE]
  /\ UNCHANGED <<place, shelf, link, pass, service, waived>>

(* Adding an entry that is missing.  If it is there, only privacy changes. *)
BeginAdd(s) ==
  /\ mutex = "free" /\ HasLink(s) /\ Request
  /\ Authorized
  /\ entry[account.id][s] = None
  /\ mutex' = "hand"
  /\ hand' = [at |-> "post", series |-> s, to |-> account.id,
              acks |-> [b \in {} |-> Nothing], patch |-> [f \in {} |-> 0],
              touched |-> FALSE]
  /\ UNCHANGED <<place, shelf, link, pass, service, waived>>

(* The positions an edit of state or progress will acknowledge. *)
Settled(s) == {b \in Books : link[b] # None /\ link[b].series = s /\ place[b] # None}
Snapshot(h) ==
  [b \in IF DOMAIN h.patch = {} THEN {} ELSE Settled(h.series) |-> Reached(b)]

GetHand ==
  /\ hand.at = "get" /\ Seen(hand) # None
  /\ hand' = [hand EXCEPT !.at = "put", !.acks = Snapshot(hand)]
  /\ UNCHANGED <<place, shelf, link, account, mutex, pass, service, waived, used>>

PostHand ==
  /\ hand.at = "post" /\ Seen(hand) = None
  /\ Becomes(hand.to, hand.series, [Blank EXCEPT !.state = "plan"])
  /\ hand' = [hand EXCEPT !.at = "ack"]
  /\ UNCHANGED <<place, shelf, link, account, mutex, pass, waived, used>>

PutHand ==
  /\ hand.at = "put" /\ Seen(hand) # None
  /\ Becomes(hand.to, hand.series, Merge(Seen(hand), hand.patch))
  /\ hand' = [hand EXCEPT !.at = "ack"]
  /\ waived' = [waived EXCEPT ![hand.to][hand.series] =
                  [b \in Books |-> IF b \in DOMAIN hand.acks THEN Raised(@[b], hand.acks[b])
                                   ELSE @[b]]]
  /\ UNCHANGED <<place, shelf, link, account, mutex, pass, used>>

EndHand ==
  /\ mutex' = "free" /\ hand' = None
  /\ UNCHANGED <<place, shelf, account, pass, service, waived>>

(* Mutant: what is acknowledged is read again after the write. *)
AckHandLate ==
  /\ hand.at = "ack"
  /\ link' = [b \in Books |-> IF b \in DOMAIN Snapshot(hand)
                              THEN [link[b] EXCEPT !.ack = Raised(@, Reached(b)),
                                                   !.waits = FALSE]
                              ELSE link[b]]
  /\ EndHand /\ UNCHANGED used

AckHand ==
  /\ hand.at = "ack"
  /\ link' = [b \in Books |-> IF b \in DOMAIN hand.acks
                              THEN [link[b] EXCEPT !.ack = Raised(@, hand.acks[b]),
                                                   !.waits = FALSE]
                              ELSE link[b]]
  /\ EndHand /\ UNCHANGED used

(* The entry is missing, a call fails, or its answer is lost. *)
FailHand ==
  /\ IF Refused(hand) \/ (hand.at = "get" /\ Seen(hand) = None)
     THEN UNCHANGED used ELSE Fault
  /\ EndHand /\ UNCHANGED link

HandStep ==
  /\ hand # None
  /\ GetHand \/ PostHand \/ PutHand \/ AckHand \/ FailHand

-----------------------------------------------------------------------------
(* Links and accounts, each in one step                                    *)

Alone == mutex = "free"
         /\ UNCHANGED <<place, shelf, mutex, pass, hand, service, waived>>

NewLink(s, keyed, c) ==
  [series |-> s, keyed |-> keyed, volume |-> c.volume, auto |-> c.auto,
   complete |-> c.complete, ack |-> Nothing, waits |-> FALSE]

(* A link by series follows one that is there already: the code looks at   *)
(* one of them.                                                            *)
Keyed == {b \in Books : link[b] # None /\ link[b].keyed}

LinkBook(b, s, keyed, c) ==
  /\ Alone /\ Request
  /\ keyed => /\ ~c.complete
              /\ Keyed \subseteq {b} \/ \E d \in Keyed \ {b} : link[d].series = s
  /\ link' = [link EXCEPT ![b] = NewLink(s, keyed, c)]
  /\ UNCHANGED account

UnlinkBook(b) ==
  /\ Alone /\ Request /\ link[b] # None
  /\ link' = [link EXCEPT ![b] = None]
  /\ UNCHANGED account

(* Every book of the series on the shelf, except those with a link of      *)
(* their own.                                                              *)
LinkSeries(s, auto) ==
  /\ Alone /\ Request /\ shelf # {}
  /\ link' = [b \in Books |->
                IF b \in shelf /\ (link[b] = None \/ b \in Keyed)
                THEN NewLink(s, TRUE, [volume |-> VolumeOf[b], auto |-> auto,
                                       complete |-> FALSE])
                ELSE link[b]]
  /\ UNCHANGED account

UnlinkSeries ==
  /\ Alone /\ Request /\ Keyed # {}
  /\ link' = [b \in Books |-> IF b \in Keyed THEN None ELSE link[b]]
  /\ UNCHANGED account

(* With a token or at the end of the OAuth flow, to the same account or    *)
(* when none is connected.                                                 *)
Connect(a) ==
  /\ Alone
  /\ account # None => account.id = a
  /\ account' = [id |-> a, refused |-> FALSE]
  /\ UNCHANGED <<link, used>>

Disconnect ==
  /\ Alone /\ account # None
  /\ account' = None
  /\ link' = [b \in Books |-> IF link[b] = None THEN None
                              ELSE [link[b] EXCEPT !.auto = FALSE, !.ack = Nothing,
                                                   !.waits = FALSE]]
  /\ UNCHANGED used

(* A backup of this moment is restored: it has no account, and its links   *)
(* keep everything but automatic tracking.                                 *)
Restore ==
  /\ Alone /\ Request
  /\ account' = None
  /\ link' = [b \in Books |-> IF link[b] = None THEN None
                              ELSE [link[b] EXCEPT !.auto = FALSE]]

-----------------------------------------------------------------------------
(* Devices, the service, time and crashes                                  *)

Synced ==
  /\ used.reads < MaxReads
  /\ used' = [used EXCEPT !.reads = @ + 1]
  /\ UNCHANGED <<server, service, waived>>

ReadOn(b, p) == Synced /\ place' = [place EXCEPT ![b] = p] /\ UNCHANGED shelf

Shelve(b) ==
  /\ Synced
  /\ shelf' = IF b \in shelf THEN shelf \ {b} ELSE shelf \cup {b}
  /\ UNCHANGED place

Touch(h, a, s) == IF h # None /\ h.to = a /\ h.series = s
                  THEN [h EXCEPT !.touched = TRUE] ELSE h

Outside(a, s) ==
  /\ Fault
  /\ \/ \E patch \in Edits :
          Becomes(a, s, Merge(IF entry[a][s] = None THEN Blank ELSE entry[a][s], patch))
     \/ entry' = [entry EXCEPT ![a][s] = None] /\ UNCHANGED told
  /\ pass' = Touch(pass, a, s)
  /\ UNCHANGED <<place, shelf, link, account, mutex, hand, waived>>

Minute ==
  /\ link' = [b \in Books |-> IF link[b] = None THEN None
                              ELSE [link[b] EXCEPT !.waits = FALSE]]
  /\ UNCHANGED <<place, shelf, account, mutex, pass, hand, service, waived, used>>

Crash ==
  /\ mutex # "free" /\ Fault
  /\ mutex' = "free" /\ pass' = None /\ hand' = None
  /\ UNCHANGED <<place, shelf, link, account, service, waived>>

-----------------------------------------------------------------------------

Next ==
  \/ RefreshRefused \/ BeginPass
  \/ PassStep \/ HandStep
  \/ \E s \in Series : BeginAdd(s) \/ \E patch \in Edits : BeginEdit(s, patch)
  \/ \E b \in Books, s \in Series, keyed \in BOOLEAN, c \in Choices : LinkBook(b, s, keyed, c)
  \/ \E b \in Books : UnlinkBook(b)
  \/ \E s \in Series, c \in Choices : LinkSeries(s, c.auto)
  \/ UnlinkSeries \/ Disconnect \/ Restore
  \/ \E a \in Accounts : Connect(a)
  \/ \E b \in Books, p \in Places \cup {None} : ReadOn(b, p)
  \/ \E b \in Books : Shelve(b)
  \/ \E a \in Accounts, s \in Series : Outside(a, s)
  \/ Minute \/ Crash

(* Handlers go on, time passes and somebody asks for passes again and      *)
(* again; a pass that finds the mutex taken is not the last one.           *)
Fairness == WF_vars(PassStep) /\ WF_vars(HandStep) /\ WF_vars(Minute) /\ SF_vars(BeginPass)

Spec == Init /\ [][Next]_vars /\ Fairness

-----------------------------------------------------------------------------
(* Properties                                                              *)

(* What is acknowledged of an automatic link was shown by the entry it     *)
(* leads to, of the account that is connected, or was settled by an edit   *)
(* the person made of that entry: nothing is taken for reported because    *)
(* another entry or account was told, or because it was read meanwhile.    *)
Reported(b, a) ==
  LET l == link[b]
      by == waived[a][l.series][b]
      shown == told[a][l.series]
  IN  /\ l.ack.chapter <= Higher(shown.chapter, by.chapter)
      /\ l.ack.step = 2 => l.volume <= shown.volume \/ by.step = 2

AcksTrue ==
  \A b \in Books :
    account # None /\ link[b] # None /\ link[b].auto => Reported(b, account.id)

(* docs/tracking.md: external progress is never lowered, and automatic     *)
(* reads do not resume or complete paused entries.  Between the pass's     *)
(* read and its write only a change made at the service itself can make    *)
(* its write do so: edits through the server wait.                         *)
Lowered(old, new) ==
  \/ new.chapter < old.chapter \/ new.volume < old.volume
  \/ old.state \in {"paused", "completed"} /\ new.state # old.state

NeverLowered ==
  [][PassStep /\ entry' # entry /\ pass.at = "put" /\ ~pass.touched
       => ~Lowered(Seen(pass), entry'[pass.to][pass.series])]_vars

(* Progress of an automatic link on a connected account is acknowledged in *)
(* the end, whatever fails on the way, unless it goes beyond the limit.    *)
Pending(b) ==
  /\ account # None /\ ~account.refused
  /\ Behind(b) /\ ~TooFar(b)

ProgressArrives == \A b \in Books : Pending(b) ~> ~Pending(b)
=============================================================================
