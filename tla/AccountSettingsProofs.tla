------------------------ MODULE AccountSettingsProofs ------------------------
(***************************************************************************)
(* The properties of AccountSettings for any number of devices, sources    *)
(* and writes.  Inv is inductive: the devices know only history, so a      *)
(* write of the current revision was made from the current state.          *)
(***************************************************************************)
EXTENDS AccountSettings, TLAPS

LEMMA BlankState == ASSUME NEW r \in Documents PROVE Blank(r) \in States(r)
BY DEF Blank, States, PrivacyStates, FolderStates, SourceStates

LEMMA Types ==
  ASSUME TypeOK
  PROVE  /\ DOMAIN docs = Documents /\ DOMAIN log = Documents
         /\ \A r \in Documents :
              /\ docs[r].revision \in Nat /\ docs[r].state \in States(r)
              /\ log[r] \in Seq(Write(r)) /\ Len(log[r]) \in Nat
              /\ \A n \in 1 .. Len(log[r]) : log[r][n] \in Write(r)
BY DEF TypeOK, Version

(* What Append adds, and what stays. *)
LEMMA Appended ==
  ASSUME NEW S, NEW t \in Seq(S), NEW e \in S
  PROVE  /\ Append(t, e) \in Seq(S) /\ Len(Append(t, e)) = Len(t) + 1
         /\ Append(t, e)[Len(t) + 1] = e
         /\ \A n \in 1 .. Len(t) : Append(t, e)[n] = t[n]
OBVIOUS

(* Storing a write adds one revision of its document. *)
LEMMA Stored ==
  ASSUME TypeOK, NEW q \in sent, Store(q)
  PROVE  /\ q.doc \in Documents /\ q \in Write(q.doc)
         /\ DOMAIN docs' = Documents /\ DOMAIN log' = Documents
         /\ docs'[q.doc].revision = docs[q.doc].revision + 1
         /\ docs'[q.doc].state = q.state
         /\ docs'[q.doc] \in Version(q.doc)
         /\ log'[q.doc] \in Seq(Write(q.doc))
         /\ Len(log'[q.doc]) = Len(log[q.doc]) + 1
         /\ log'[q.doc][Len(log[q.doc]) + 1] = q
         /\ \A n \in 1 .. Len(log[q.doc]) : log'[q.doc][n] = log[q.doc][n]
         /\ \A r \in Documents : r # q.doc => docs'[r] = docs[r] /\ log'[r] = log[r]
<1>1. q.doc \in Documents /\ q \in Write(q.doc)
  BY DEF TypeOK
<1>2. /\ DOMAIN docs = Documents /\ DOMAIN log = Documents
      /\ docs[q.doc].revision \in Nat /\ log[q.doc] \in Seq(Write(q.doc))
  BY <1>1, Types
<1>3. /\ docs' = [docs EXCEPT ![q.doc] = [revision |-> docs[q.doc].revision + 1,
                                          state |-> q.state]]
      /\ log' = [log EXCEPT ![q.doc] = Append(log[q.doc], q)]
  BY DEF Store
<1>4. /\ docs'[q.doc] = [revision |-> docs[q.doc].revision + 1, state |-> q.state]
      /\ log'[q.doc] = Append(log[q.doc], q)
      /\ DOMAIN docs' = Documents /\ DOMAIN log' = Documents
      /\ \A r \in Documents : r # q.doc => docs'[r] = docs[r] /\ log'[r] = log[r]
  BY <1>1, <1>2, <1>3
<1>5. q.state \in States(q.doc)
  BY <1>1 DEF Write
<1>6. docs'[q.doc] \in Version(q.doc)
  BY <1>2, <1>4, <1>5 DEF Version
<1> QED BY <1>1, <1>2, <1>4, <1>6, Appended

(* History is not rewritten. *)
LEMMA HistoryStays ==
  ASSUME TypeOK, NEW q \in sent, Store(q)
  PROVE  /\ \A r \in Documents : \A n \in 0 .. Len(log[r]) : StateAt(r, n)' = StateAt(r, n)
         /\ \A r \in Documents : \A v : v.revision \in Nat /\ ShowsHistory(r, v)
                                          => ShowsHistory(r, v)'
<1>1. /\ q.doc \in Documents
      /\ Len(log'[q.doc]) = Len(log[q.doc]) + 1
      /\ \A n \in 1 .. Len(log[q.doc]) : log'[q.doc][n] = log[q.doc][n]
      /\ \A r \in Documents : r # q.doc => log'[r] = log[r]
  BY Stored
<1>2. \A r \in Documents : Len(log[r]) \in Nat
  BY Types
<1>3. \A r \in Documents : \A n \in 1 .. Len(log[r]) : log'[r][n] = log[r][n]
  BY <1>1
<1>4. \A r \in Documents : \A n \in 0 .. Len(log[r]) : StateAt(r, n)' = StateAt(r, n)
  BY <1>2, <1>3 DEF StateAt
<1>5. \A r \in Documents : Len(log[r]) <= Len(log'[r]) /\ Len(log'[r]) \in Nat
  BY <1>1, <1>2
<1>6. ASSUME NEW r \in Documents, NEW v, v.revision \in Nat, ShowsHistory(r, v)
      PROVE  ShowsHistory(r, v)'
  <2>1. v.revision \in 0 .. Len(log[r]) /\ v.state = StateAt(r, v.revision)
    BY <1>2, <1>6 DEF ShowsHistory
  <2>2. v.revision <= Len(log'[r])
    BY <1>2, <1>5, <2>1
  <2> QED BY <1>4, <2>1, <2>2 DEF ShowsHistory
<1> QED BY <1>4, <1>6

-----------------------------------------------------------------------------

LEMMA InitInv == Init => Inv
<1> SUFFICES ASSUME Init PROVE Inv
  OBVIOUS
<1>1. /\ docs = [r \in Documents |-> [revision |-> 0, state |-> Blank(r)]]
      /\ log = [r \in Documents |-> <<>>] /\ view = [d \in Devices |-> docs]
      /\ secret = [s \in Sources |-> None]
      /\ operations = {} /\ sent = {} /\ answers = {}
  BY DEF Init
<1>2. \A r \in Documents : /\ docs[r] \in Version(r) /\ docs[r].revision = 0
                           /\ docs[r].state = Blank(r)
                           /\ log[r] = <<>> /\ Len(log[r]) = 0
  BY <1>1, BlankState DEF Version
<1>3. TypeOK
  <2>1. /\ DOMAIN docs = Documents /\ DOMAIN log = Documents
        /\ \A r \in Documents : docs[r] \in Version(r) /\ log[r] \in Seq(Write(r))
    BY <1>1, <1>2
  <2>2. /\ DOMAIN view = Devices
        /\ \A d \in Devices : view[d] = docs
    BY <1>1
  <2>3. secret \in [Sources -> Credentials \cup {None}]
    BY <1>1
  <2> QED BY <1>1, <2>1, <2>2, <2>3 DEF TypeOK
<1>4. AnswersTrue /\ RequestsTrue
  BY <1>1, <1>2 DEF AnswersTrue, RequestsTrue, ShowsHistory, StateAt
<1>5. \A r \in Documents : 1 .. Len(log[r]) = {}
  BY <1>2
<1>6. \A s \in Sources : s \in Documents /\ secret[s] = None
  BY <1>1 DEF Documents
<1>7. LogFromRequests /\ NothingUnseenOverwritten /\ WritesApplyOnce
  BY <1>5, <1>6 DEF LogFromRequests, NothingUnseenOverwritten, WritesApplyOnce
<1>8. PasscodeKept /\ SecretStaysWithOrigin
  BY <1>5, <1>6 DEF PasscodeKept, SecretStaysWithOrigin, Documents
<1> QED BY <1>3, <1>4, <1>7, <1>8 DEF Inv

-----------------------------------------------------------------------------
(* Steps that store nothing                                                *)

(* The invariant but for what devices show, send and are answered. *)
LEMMA Untouched ==
  ASSUME Inv, UNCHANGED <<docs, secret, operations, log>>
  PROVE  /\ LogFromRequests' /\ NothingUnseenOverwritten' /\ WritesApplyOnce'
         /\ PasscodeKept' /\ SecretStaysWithOrigin'
         /\ \A r, v : ShowsHistory(r, v)' = ShowsHistory(r, v)
<1>1. \A r, n : StateAt(r, n)' = StateAt(r, n)
  BY DEF StateAt
<1>2. \A r, v : ShowsHistory(r, v)' = ShowsHistory(r, v)
  BY <1>1 DEF ShowsHistory
<1>3. NothingUnseenOverwritten' /\ PasscodeKept'
  BY <1>1 DEF Inv, NothingUnseenOverwritten, PasscodeKept
<1>4. LogFromRequests' /\ WritesApplyOnce' /\ SecretStaysWithOrigin'
  BY DEF Inv, LogFromRequests, WritesApplyOnce, SecretStaysWithOrigin, GivenForOrigin
<1> QED BY <1>2, <1>3, <1>4

LEMMA SendInv ==
  ASSUME Inv, NEW d \in Devices, NEW r \in Documents, NEW id \in OpIds,
         NEW c \in Credentials \cup {Keep, None}, NEW state \in Wanted[r],
         Send(d, r, state, c, id)
  PROVE  Inv'
<1> DEFINE q == [id |-> id, doc |-> r, revision |-> view[d][r].revision,
                 state |-> state, credentials |-> c, basis |-> view[d][r].state]
<1>1. sent' = sent \cup {q} /\ UNCHANGED <<tables, view, answers, log>>
  BY DEF Send
<1>2. view[d][r] \in Version(r) /\ state \in States(r)
  BY WantedAssumption DEF Inv, TypeOK
<1>3. q.doc \in Documents /\ q \in Write(q.doc)
  BY <1>2 DEF Write, Version
<1>4. ShowsHistory(r, view[d][r])
  BY DEF Inv, AnswersTrue
<1>5. ShowsHistory(q.doc, [revision |-> q.revision, state |-> q.basis])
  BY <1>4 DEF ShowsHistory
<1> HIDE DEF q
<1>6. TypeOK'
  BY <1>1, <1>3 DEF Inv, TypeOK, tables
<1>7. /\ LogFromRequests' /\ NothingUnseenOverwritten' /\ WritesApplyOnce'
      /\ PasscodeKept' /\ SecretStaysWithOrigin'
      /\ \A x, v : ShowsHistory(x, v)' = ShowsHistory(x, v)
  BY <1>1, Untouched DEF tables
<1>8. AnswersTrue'
  BY <1>1, <1>7 DEF Inv, AnswersTrue, tables
<1>9. RequestsTrue'
  BY <1>1, <1>5, <1>7 DEF Inv, RequestsTrue, tables
<1> QED BY <1>6, <1>7, <1>8, <1>9 DEF Inv

(* A device learns a version of a document: an answer or the current one. *)
LEMMA LearnInv ==
  ASSUME Inv, NEW d \in Devices, NEW r \in Documents, NEW v \in Version(r),
         ShowsHistory(r, v), view' = [view EXCEPT ![d][r] = v],
         UNCHANGED <<tables, sent, answers, log>>
  PROVE  Inv'
<1>1. DOMAIN view = Devices /\ \A e \in Devices : DOMAIN view[e] = Documents
  BY DEF Inv, TypeOK
<1>2. /\ DOMAIN view' = Devices
      /\ \A e \in Devices : DOMAIN view'[e] = Documents
      /\ \A e \in Devices, x \in Documents :
           view'[e][x] = IF e = d /\ x = r THEN v ELSE view[e][x]
  BY <1>1
<1>3. TypeOK'
  BY <1>2 DEF Inv, TypeOK, tables
<1>4. /\ LogFromRequests' /\ NothingUnseenOverwritten' /\ WritesApplyOnce'
      /\ PasscodeKept' /\ SecretStaysWithOrigin'
      /\ \A x, w : ShowsHistory(x, w)' = ShowsHistory(x, w)
  BY Untouched DEF tables
<1>5. AnswersTrue' /\ RequestsTrue'
  BY <1>2, <1>4 DEF Inv, AnswersTrue, RequestsTrue, tables
<1> QED BY <1>3, <1>4, <1>5 DEF Inv

(* An answer that shows history is written, and nothing stored. *)
LEMMA SayInv ==
  ASSUME Inv, NEW q \in sent, NEW v \in Version(q.doc), NEW accepted \in BOOLEAN,
         ShowsHistory(q.doc, v), accepted => v.state = q.state,
         Say(q.doc, v, accepted, q), UNCHANGED <<tables, view, sent, log>>
  PROVE  Inv'
<1> DEFINE a == [doc |-> q.doc, version |-> v, accepted |-> accepted, write |-> q]
<1>1. answers' = answers \cup {a}
  BY DEF Say
<1>2. q.doc \in Documents /\ q \in Write(q.doc)
  BY DEF Inv, TypeOK
<1>3. a.doc \in Documents /\ a \in Answer(a.doc) /\ ShowsHistory(a.doc, a.version)
      /\ (a.accepted => a.version.state = a.write.state)
  BY <1>2 DEF Answer
<1> HIDE DEF a
<1>4. TypeOK'
  BY <1>1, <1>3 DEF Inv, TypeOK, tables
<1>5. /\ LogFromRequests' /\ NothingUnseenOverwritten' /\ WritesApplyOnce'
      /\ PasscodeKept' /\ SecretStaysWithOrigin'
      /\ \A x, w : ShowsHistory(x, w)' = ShowsHistory(x, w)
  BY Untouched DEF tables
<1>6. AnswersTrue' /\ RequestsTrue'
  BY <1>1, <1>3, <1>5 DEF Inv, AnswersTrue, RequestsTrue, tables
<1> QED BY <1>4, <1>5, <1>6 DEF Inv

LEMMA RepeatInv ==
  ASSUME Inv, NEW q \in sent, RepeatSource(q)
  PROVE  Inv'
<1>1. PICK o \in Recorded(q) : Digest(o.write) = Digest(q) /\ Say(q.doc, o.version, TRUE, q)
  BY DEF RepeatSource
<1>2. /\ o \in operations /\ o.write.doc \in Documents
      /\ o.write \in Write(o.write.doc) /\ o.version \in Version(o.write.doc)
      /\ ShowsHistory(o.write.doc, o.version) /\ o.version.state = o.write.state
  BY <1>1 DEF Recorded, Inv, TypeOK, RequestsTrue, Operation, Documents
<1>3. q \in Write(q.doc)
  BY DEF Inv, TypeOK
<1>4. o.write.doc = q.doc /\ o.write.state = q.state
  <2>1. /\ Digest(o.write).doc = o.write.doc /\ Digest(o.write).state = o.write.state
        /\ Digest(q).doc = q.doc /\ Digest(q).state = q.state
    BY <1>2, <1>3 DEF Digest, Write
  <2> QED BY <1>1, <2>1
<1>5. UNCHANGED <<tables, view, sent, log>>
  BY DEF RepeatSource
<1> QED BY <1>1, <1>2, <1>4, <1>5, SayInv

-----------------------------------------------------------------------------
(* Steps that store a write                                                *)

(* A write of the current revision continues the history of its document,  *)
(* for its author had been shown the current state.                        *)
LEMMA StoreCurrent ==
  ASSUME Inv, NEW q \in sent, Store(q), q.revision = docs[q.doc].revision
  PROVE  /\ \A r \in Documents : docs'[r].revision = Len(log'[r])
                                 /\ ShowsHistory(r, docs[r])'
         /\ NothingUnseenOverwritten'
         /\ \A r \in Documents : \A n \in 1 .. Len(log'[r]) : log'[r][n].revision = n - 1
         /\ \A r \in Documents : \A m, n \in 1 .. Len(log'[r]) :
              log'[r][m] = log'[r][n] => m = n
<1> DEFINE x == q.doc
           N == Len(log[x]) + 1
<1>1. TypeOK
  BY DEF Inv
<1>2. /\ x \in Documents /\ q \in Write(x)
      /\ docs'[x].revision = docs[x].revision + 1 /\ docs'[x].state = q.state
      /\ Len(log'[x]) = N /\ log'[x][N] = q
      /\ \A n \in 1 .. Len(log[x]) : log'[x][n] = log[x][n]
      /\ \A r \in Documents : r # x => docs'[r] = docs[r] /\ log'[r] = log[r]
  BY <1>1, Stored
<1>3. /\ \A r \in Documents : \A n \in 0 .. Len(log[r]) : StateAt(r, n)' = StateAt(r, n)
      /\ \A r \in Documents : \A v : v.revision \in Nat /\ ShowsHistory(r, v)
                                       => ShowsHistory(r, v)'
  BY <1>1, HistoryStays
<1>4. \A r \in Documents : /\ Len(log[r]) \in Nat /\ docs[r].revision = Len(log[r])
                           /\ docs[r].revision \in Nat
                           /\ ShowsHistory(r, docs[r])
  BY <1>1, Types DEF Inv, AnswersTrue
<1> HIDE DEF x
<1>5. \A r \in Documents : docs'[r].revision = Len(log'[r])
  BY <1>2, <1>4
<1>6. \A r \in Documents : ShowsHistory(r, docs[r])'
  <2> SUFFICES ASSUME NEW r \in Documents PROVE ShowsHistory(r, docs[r])'
    OBVIOUS
  <2>1. CASE r # x
    BY <2>1, <1>2, <1>3, <1>4
  <2>2. CASE r = x
    <3>1. N # 0 /\ docs'[x].revision = N /\ Len(log'[x]) = N
      BY <1>2, <1>4
    <3>2. log'[x][docs'[x].revision].state = q.state /\ docs'[x].revision # 0
      BY <1>2, <1>4, <3>1
    <3> QED BY <1>2, <2>2, <3>1, <3>2, <1>4 DEF ShowsHistory, StateAt
  <2> QED BY <2>1, <2>2
<1>7. q.basis = StateAt(x, N - 1) /\ q.revision = N - 1
  <2>1. ShowsHistory(x, [revision |-> q.revision, state |-> q.basis])
    BY DEF Inv, RequestsTrue, x
  <2>2. q.revision = N - 1
    BY <1>2, <1>4 DEF x
  <2> QED BY <2>1, <2>2 DEF ShowsHistory
<1>8. NothingUnseenOverwritten'
  <2> SUFFICES ASSUME NEW r \in Documents, NEW n \in 1 .. Len(log'[r])
               PROVE  log'[r][n].basis = StateAt(r, n - 1)'
    BY DEF NothingUnseenOverwritten
  <2>1. CASE r = x /\ n = N
    <3>1. n - 1 \in 0 .. Len(log[r]) /\ log'[r][n] = q
      BY <2>1, <1>2, <1>4
    <3>2. q.basis = StateAt(r, n - 1)
      BY <2>1, <1>7
    <3> QED BY <3>1, <3>2, <1>3
  <2>2. CASE ~(r = x /\ n = N)
    <3>1. n \in 1 .. Len(log[r]) /\ log'[r][n] = log[r][n]
      BY <2>2, <1>2, <1>4
    <3>2. log[r][n].basis = StateAt(r, n - 1) /\ n - 1 \in 0 .. Len(log[r])
      BY <3>1, <1>4 DEF Inv, NothingUnseenOverwritten
    <3> QED BY <3>1, <3>2, <1>3
  <2> QED BY <2>1, <2>2
<1>9. \A r \in Documents : \A n \in 1 .. Len(log'[r]) : log'[r][n].revision = n - 1
  <2> SUFFICES ASSUME NEW r \in Documents, NEW n \in 1 .. Len(log'[r])
               PROVE  log'[r][n].revision = n - 1
    OBVIOUS
  <2>1. CASE r = x /\ n = N
    BY <2>1, <1>2, <1>7
  <2>2. CASE ~(r = x /\ n = N)
    <3>1. n \in 1 .. Len(log[r]) /\ log'[r][n] = log[r][n]
      BY <2>2, <1>2, <1>4
    <3> QED BY <3>1 DEF Inv, LogFromRequests
  <2> QED BY <2>1, <2>2
<1>10. \A r \in Documents : \A m, n \in 1 .. Len(log'[r]) :
         log'[r][m] = log'[r][n] => m = n
  <2> SUFFICES ASSUME NEW r \in Documents, NEW m \in 1 .. Len(log'[r]),
                      NEW n \in 1 .. Len(log'[r]), log'[r][m] = log'[r][n]
               PROVE  m = n
    OBVIOUS
  <2>1. m - 1 = n - 1 /\ m \in Int /\ n \in Int
    BY <1>9
  <2> QED BY <2>1
<1> QED BY <1>5, <1>6, <1>8, <1>9, <1>10

(* What the tables hold after a stored write is typed and true. *)
LEMMA StoreTypes ==
  ASSUME Inv, NEW q \in sent, Store(q), q.revision = docs[q.doc].revision,
         NEW accepted \in BOOLEAN, Say(q.doc, docs'[q.doc], accepted, q),
         UNCHANGED <<view, sent>>,
         secret' \in [Sources -> Credentials \cup {None}],
         \/ operations' = operations
         \/ q.doc \in Sources
            /\ operations' = operations \cup {[write |-> q, version |-> docs'[q.doc]]}
  PROVE  TypeOK' /\ AnswersTrue' /\ RequestsTrue'
<1> DEFINE a == [doc |-> q.doc, version |-> docs'[q.doc], accepted |-> accepted,
                 write |-> q]
           o == [write |-> q, version |-> docs'[q.doc]]
<1>1. TypeOK
  BY DEF Inv
<1>2. /\ q.doc \in Documents /\ q \in Write(q.doc)
      /\ DOMAIN docs' = Documents /\ DOMAIN log' = Documents
      /\ docs'[q.doc] \in Version(q.doc) /\ docs'[q.doc].state = q.state
      /\ log'[q.doc] \in Seq(Write(q.doc))
      /\ \A r \in Documents : r # q.doc => docs'[r] = docs[r] /\ log'[r] = log[r]
  BY <1>1, Stored
<1>3. \A r \in Documents : \A v : v.revision \in Nat /\ ShowsHistory(r, v)
                                    => ShowsHistory(r, v)'
  BY <1>1, HistoryStays
<1>4. \A r \in Documents : docs'[r].revision = Len(log'[r]) /\ ShowsHistory(r, docs[r])'
  BY StoreCurrent
<1>5. answers' = answers \cup {a} /\ a.doc \in Documents /\ a \in Answer(a.doc)
      /\ a.doc = q.doc /\ a.version = docs'[q.doc] /\ a.write = q
  BY <1>2 DEF Say, Answer
<1>6. operations' \subseteq operations \cup {o} /\ o.write = q /\ o.version = docs'[q.doc]
      /\ (operations' # operations => o \in Operation(q.doc) /\ q.doc \in Sources)
  BY <1>2 DEF Operation
<1> HIDE DEF a, o
<1>7. \A r \in Documents : docs'[r] \in Version(r) /\ log'[r] \in Seq(Write(r))
  BY <1>1, <1>2 DEF TypeOK
<1>8. TypeOK'
  BY <1>1, <1>2, <1>5, <1>6, <1>7 DEF TypeOK
<1>9. AnswersTrue'
  <2>1. \A d \in Devices, r \in Documents : ShowsHistory(r, view[d][r])'
    <3>1. \A d \in Devices, r \in Documents : view[d][r].revision \in Nat
      BY <1>1 DEF TypeOK, Version
    <3> QED BY <1>3, <3>1 DEF Inv, AnswersTrue
  <2>2. \A b \in answers : /\ ShowsHistory(b.doc, b.version)'
                           /\ b.accepted => b.version.state = b.write.state
    <3>1. \A b \in answers : b.doc \in Documents /\ b.version.revision \in Nat
      BY <1>1 DEF TypeOK, Answer, Version
    <3> QED BY <1>3, <3>1 DEF Inv, AnswersTrue
  <2>3. ASSUME NEW b, b = a
        PROVE  ShowsHistory(b.doc, b.version)' /\ b.version.state = b.write.state
    BY <1>2, <1>4, <1>5, <2>3 DEF ShowsHistory
  <2>4. \A b \in answers' : /\ ShowsHistory(b.doc, b.version)'
                            /\ b.accepted => b.version.state = b.write.state
    BY <1>5, <2>2, <2>3
  <2> QED BY <1>4, <2>1, <2>4 DEF AnswersTrue
<1>10. RequestsTrue'
  <2>1. \A p \in sent : ShowsHistory(p.doc, [revision |-> p.revision, state |-> p.basis])'
    <3>1. \A p \in sent : p.doc \in Documents /\ p.revision \in Nat
      BY <1>1 DEF TypeOK, Write
    <3> QED BY <1>3, <3>1 DEF Inv, RequestsTrue
  <2>2. \A p \in operations : /\ ShowsHistory(p.write.doc, p.version)'
                              /\ p.version.state = p.write.state
    <3>1. \A p \in operations : p.write.doc \in Documents /\ p.version.revision \in Nat
      BY <1>1 DEF TypeOK, Operation, Version, Documents
    <3> QED BY <1>3, <3>1 DEF Inv, RequestsTrue
  <2>3. ASSUME NEW p, p = o
        PROVE  ShowsHistory(p.write.doc, p.version)' /\ p.version.state = p.write.state
    BY <1>2, <1>4, <1>6, <2>3 DEF ShowsHistory
  <2>4. \A p \in operations' : /\ ShowsHistory(p.write.doc, p.version)'
                               /\ p.version.state = p.write.state
    BY <1>6, <2>2, <2>3
  <2> QED BY <2>1, <2>4 DEF RequestsTrue
<1> QED BY <1>8, <1>9, <1>10

(* The registers have no operation ids and no credentials. *)
LEMMA StoreRegister ==
  ASSUME Inv, NEW q \in sent, q.doc \notin Sources, Store(q),
         q.revision = docs[q.doc].revision, UNCHANGED <<secret, operations>>
  PROVE  LogFromRequests' /\ WritesApplyOnce' /\ SecretStaysWithOrigin'
<1>1. /\ \A r \in Documents : \A n \in 1 .. Len(log'[r]) : log'[r][n].revision = n - 1
      /\ \A r \in Documents : \A m, n \in 1 .. Len(log'[r]) :
           log'[r][m] = log'[r][n] => m = n
  BY StoreCurrent
<1>2. \A s \in Sources : docs'[s] = docs[s] /\ log'[s] = log[s]
  BY Stored DEF Inv, Documents
<1>3. LogFromRequests'
  BY <1>1, <1>2 DEF Inv, LogFromRequests
<1>4. WritesApplyOnce'
  BY <1>1, <1>2 DEF Inv, WritesApplyOnce
<1>5. SecretStaysWithOrigin'
  <2>1. \A s \in Sources : secret[s] # None => GivenForOrigin(s)
    BY DEF Inv, SecretStaysWithOrigin
  <2>2. \A s \in Sources : GivenForOrigin(s)' = GivenForOrigin(s)
    <3> SUFFICES ASSUME NEW s \in Sources
                 PROVE  GivenForOrigin(s)' = GivenForOrigin(s)
      OBVIOUS
    <3>1. docs'[s] = docs[s] /\ log'[s] = log[s] /\ secret'[s] = secret[s]
      BY <1>2
    <3> QED BY <3>1 DEF GivenForOrigin
  <2> QED BY <2>1, <2>2 DEF SecretStaysWithOrigin
<1> QED BY <1>3, <1>4, <1>5

(* Nothing stored under "privacy" clears the passcode. *)
LEMMA StorePrivacy ==
  ASSUME Inv, NEW q \in sent, Store(q),
         q.doc = "privacy" => /\ Valid(q.state)
                              /\ docs["privacy"].state.credential # None
                                   => q.state.credential # None
  PROVE  PasscodeKept'
<1> DEFINE P == "privacy"
<1>1. TypeOK /\ P \in Documents
  BY DEF Inv, Documents
<1>2. Len(log[P]) \in Nat /\ docs[P].state = StateAt(P, Len(log[P]))
  BY <1>1, Types DEF Inv, AnswersTrue, ShowsHistory
<1>3. \A n \in 1 .. Len(log[P]) :
        /\ log[P][n].state.books # {} => log[P][n].state.credential # None
        /\ \A m \in 1 .. n : log[P][m].state.credential # None
                               => log[P][n].state.credential # None
  <2>1. \A n \in 1 .. Len(log[P]) : \A m \in 1 .. n : StateAt(P, m) = log[P][m].state
    BY <1>2 DEF StateAt
  <2> QED BY <2>1 DEF Inv, PasscodeKept
<1>4. SUFFICES \A n \in 1 .. Len(log'[P]) :
        /\ log'[P][n].state.books # {} => log'[P][n].state.credential # None
        /\ \A m \in 1 .. n : log'[P][m].state.credential # None
                               => log'[P][n].state.credential # None
  <2>1. \A n \in 1 .. Len(log'[P]) : \A m \in 1 .. n :
          StateAt(P, m)' = log'[P][m].state
    BY DEF StateAt
  <2> QED BY <2>1 DEF PasscodeKept
<1>5. CASE q.doc # P
  <2>1. log'[P] = log[P]
    BY <1>1, <1>5, Stored
  <2> QED BY <1>3, <2>1
<1>6. CASE q.doc = P
  <2>1. /\ Len(log'[P]) = Len(log[P]) + 1 /\ log'[P][Len(log[P]) + 1] = q
        /\ \A n \in 1 .. Len(log[P]) : log'[P][n] = log[P][n]
    BY <1>1, <1>6, Stored
  <2>2. \A m \in 1 .. Len(log[P]) : log[P][m].state.credential # None
                                      => q.state.credential # None
    <3>1. Len(log[P]) > 0 => log[P][Len(log[P])].state = docs[P].state
      BY <1>2 DEF StateAt
    <3> QED BY <1>2, <1>3, <1>6, <3>1
  <2>3. q.state.books # {} => q.state.credential # None
    BY <1>6 DEF Valid
  <2> SUFFICES ASSUME NEW n \in 1 .. Len(log'[P])
               PROVE  /\ log'[P][n].state.books # {} => log'[P][n].state.credential # None
                      /\ \A m \in 1 .. n : log'[P][m].state.credential # None
                                             => log'[P][n].state.credential # None
    OBVIOUS
  <2> HIDE DEF P
  <2>4. CASE n = Len(log[P]) + 1
    <3>1. log'[P][n] = q
      BY <2>1, <2>4
    <3>2. \A m \in 1 .. n : m = n \/ (m \in 1 .. Len(log[P]) /\ log'[P][m] = log[P][m])
      BY <1>2, <2>1, <2>4
    <3> QED BY <2>2, <2>3, <3>1, <3>2
  <2>5. CASE n # Len(log[P]) + 1
    <3>1. n \in 1 .. Len(log[P]) /\ \A m \in 1 .. n : log'[P][m] = log[P][m]
      BY <1>2, <2>1, <2>5
    <3> QED BY <1>3, <3>1
  <2> QED BY <2>4, <2>5
<1> QED BY <1>5, <1>6

LEMMA SwapInv ==
  ASSUME Inv, NEW q \in sent, q.doc \in {"privacy", "folders"}, NEW accepted \in BOOLEAN,
         accepted => \/ q.revision = docs[q.doc].revision
                     \/ q.state = docs[q.doc].state,
         accepted /\ q.doc = "privacy"
           => /\ Valid(q.state)
              /\ docs["privacy"].state.credential # None => q.state.credential # None,
         Swap(q, accepted)
  PROVE  Inv'
<1>1. q.doc \in Documents /\ q.doc \notin Sources
  BY SettingsAssumption DEF Documents
<1>2. Say(q.doc, docs'[q.doc], accepted, q) /\ UNCHANGED <<secret, operations, view, sent>>
  BY DEF Swap
<1>3. CASE accepted /\ q.state # docs[q.doc].state
  <2>1. Store(q) /\ q.revision = docs[q.doc].revision
    BY <1>3 DEF Swap
  <2>2. secret' \in [Sources -> Credentials \cup {None}] /\ operations' = operations
    BY <1>2 DEF Inv, TypeOK
  <2>3. TypeOK' /\ AnswersTrue' /\ RequestsTrue'
    BY <1>2, <2>1, <2>2, StoreTypes
  <2>4. LogFromRequests' /\ WritesApplyOnce' /\ SecretStaysWithOrigin'
    BY <1>1, <1>2, <2>1, StoreRegister
  <2>5. PasscodeKept'
    BY <1>3, <2>1, StorePrivacy
  <2>6. NothingUnseenOverwritten'
    BY <2>1, StoreCurrent
  <2> QED BY <2>3, <2>4, <2>5, <2>6 DEF Inv
<1>4. CASE ~(accepted /\ q.state # docs[q.doc].state)
  <2>1. UNCHANGED <<docs, log>>
    BY <1>4 DEF Swap
  <2>2. docs[q.doc] \in Version(q.doc) /\ ShowsHistory(q.doc, docs[q.doc])
    BY <1>1 DEF Inv, TypeOK, AnswersTrue
  <2>3. Say(q.doc, docs[q.doc], accepted, q) /\ UNCHANGED <<tables, view, sent, log>>
    BY <1>2, <2>1 DEF tables
  <2>4. accepted => docs[q.doc].state = q.state
    BY <1>4
  <2> QED BY <2>2, <2>3, <2>4, SayInv
<1> QED BY <1>3, <1>4

-----------------------------------------------------------------------------
(* Sources                                                                 *)

(* An operation id that is not known has not been used by any source. *)
LEMMA SourceOnce ==
  ASSUME Inv, NEW q \in sent, q.doc \in Sources, Recorded(q) = {}, Store(q),
         q.revision = docs[q.doc].revision,
         operations' = operations \cup {[write |-> q, version |-> docs'[q.doc]]}
  PROVE  LogFromRequests' /\ WritesApplyOnce'
<1> DEFINE x == q.doc
           N == Len(log[x]) + 1
<1>1. /\ \A r \in Documents : \A n \in 1 .. Len(log'[r]) : log'[r][n].revision = n - 1
      /\ \A r \in Documents : \A m, n \in 1 .. Len(log'[r]) :
           log'[r][m] = log'[r][n] => m = n
  BY StoreCurrent
<1>2. /\ Len(log'[x]) = N /\ log'[x][N] = q
      /\ \A n \in 1 .. Len(log[x]) : log'[x][n] = log[x][n]
      /\ \A s \in Sources : s # x => log'[s] = log[s]
  <2>1. TypeOK
    BY DEF Inv
  <2>2. \A s \in Sources : s \in Documents
    BY DEF Documents
  <2>3. /\ Len(log'[x]) = N /\ log'[x][N] = q
        /\ \A n \in 1 .. Len(log[x]) : log'[x][n] = log[x][n]
        /\ \A s \in Documents : s # x => log'[s] = log[s]
    BY <2>1, Stored
  <2> QED BY <2>2, <2>3
<1>3. \A s \in Sources : Len(log[s]) \in Nat
  BY Types DEF Inv, Documents
<1>4. \A s \in Sources : \A n \in 1 .. Len(log[s]) :
        /\ \E o \in operations : o.write = log[s][n]
        /\ log[s][n].id # q.id
  BY DEF Inv, LogFromRequests, Recorded
<1> HIDE DEF x
<1>5. x \in Sources
  BY DEF x
<1>6. \A s \in Sources : \A n \in 1 .. Len(log'[s]) :
        \/ s = x /\ n = N
        \/ n \in 1 .. Len(log[s]) /\ log'[s][n] = log[s][n]
  BY <1>2, <1>3, <1>5
<1>7. q.id = log'[x][N].id
  BY <1>2
<1>8. \A s \in Sources : \A n \in 1 .. Len(log'[s]) :
        \E o \in operations' : o.write = log'[s][n]
  <2>1. \E o \in operations' : o.write = q
    <3>1. [write |-> q, version |-> docs'[q.doc]].write = q
      OBVIOUS
    <3>2. [write |-> q, version |-> docs'[q.doc]] \in operations'
      OBVIOUS
    <3> QED BY <3>1, <3>2
  <2>2. operations \subseteq operations'
    OBVIOUS
  <2> SUFFICES ASSUME NEW s \in Sources, NEW n \in 1 .. Len(log'[s])
               PROVE  \E o \in operations' : o.write = log'[s][n]
    OBVIOUS
  <2>3. CASE s = x /\ n = N
    BY <1>2, <2>1, <2>3
  <2>4. CASE n \in 1 .. Len(log[s]) /\ log'[s][n] = log[s][n]
    BY <1>4, <2>2, <2>4
  <2> QED BY <1>6, <2>3, <2>4
<1>9. \A r, s \in Sources : \A m \in 1 .. Len(log'[r]), n \in 1 .. Len(log'[s]) :
        log'[r][m].id = log'[s][n].id => r = s /\ m = n
  <2> SUFFICES ASSUME NEW r \in Sources, NEW s \in Sources,
                      NEW m \in 1 .. Len(log'[r]), NEW n \in 1 .. Len(log'[s]),
                      log'[r][m].id = log'[s][n].id
               PROVE  r = s /\ m = n
    OBVIOUS
  <2>1. CASE r = x /\ m = N
    BY <2>1, <1>4, <1>6, <1>7
  <2>2. CASE s = x /\ n = N
    BY <2>2, <1>4, <1>6, <1>7
  <2>3. CASE ~(r = x /\ m = N) /\ ~(s = x /\ n = N)
    <3>1. /\ m \in 1 .. Len(log[r]) /\ n \in 1 .. Len(log[s])
          /\ log[r][m].id = log[s][n].id
      BY <2>3, <1>6
    <3> QED BY <3>1 DEF Inv, WritesApplyOnce
  <2> QED BY <2>1, <2>2, <2>3
<1> QED BY <1>1, <1>8, <1>9 DEF LogFromRequests, WritesApplyOnce

(* Kept credentials keep their origin. *)
LEMMA SourceSecret ==
  ASSUME Inv, NEW q \in sent, q.doc \in Sources, Store(q),
         secret' = [secret EXCEPT ![q.doc] = NewSecret(q)]
  PROVE  SecretStaysWithOrigin' /\ secret' \in [Sources -> Credentials \cup {None}]
<1> DEFINE x == q.doc
           N == Len(log[x]) + 1
<1>1. /\ Len(log'[x]) = N /\ log'[x][N] = q /\ docs'[x].state = q.state
      /\ \A n \in 1 .. Len(log[x]) : log'[x][n] = log[x][n]
      /\ \A s \in Sources : s # x => docs'[s] = docs[s] /\ log'[s] = log[s]
      /\ q \in Write(x)
  <2>1. TypeOK
    BY DEF Inv
  <2>2. \A s \in Sources : s \in Documents
    BY DEF Documents
  <2>3. /\ Len(log'[x]) = N /\ log'[x][N] = q /\ docs'[x].state = q.state
        /\ \A n \in 1 .. Len(log[x]) : log'[x][n] = log[x][n]
        /\ \A s \in Documents : s # x => docs'[s] = docs[s] /\ log'[s] = log[s]
        /\ q \in Write(x)
    BY <2>1, Stored
  <2> QED BY <2>2, <2>3
<1>2. Len(log[x]) \in Nat /\ secret \in [Sources -> Credentials \cup {None}]
  <2>1. TypeOK /\ x \in Documents
    BY DEF Inv, Documents
  <2>2. Len(log[x]) \in Nat
    BY <2>1, Types
  <2> QED BY <2>1, <2>2 DEF TypeOK
<1>3. secret'[x] = NewSecret(q) /\ \A s \in Sources : s # x => secret'[s] = secret[s]
  BY <1>2
<1>4. q.credentials \in Credentials \cup {Keep, None} /\ q.state.deleted \in BOOLEAN
  <2>1. q.state \in SourceStates
    BY <1>1, SettingsAssumption DEF Write, States
  <2> QED BY <1>1, <2>1 DEF Write, SourceStates
<1>5. \A s \in Sources : s # x /\ secret'[s] # None => GivenForOrigin(s)'
  <2> SUFFICES ASSUME NEW s \in Sources, s # x, secret'[s] # None
               PROVE  GivenForOrigin(s)'
    OBVIOUS
  <2>1. docs'[s] = docs[s] /\ log'[s] = log[s] /\ secret'[s] = secret[s]
    BY <1>1, <1>3
  <2>2. GivenForOrigin(s)
    BY <2>1 DEF Inv, SecretStaysWithOrigin
  <2> QED BY <2>1, <2>2 DEF GivenForOrigin
<1>6. CASE q.state.deleted
  <2>1. NewSecret(q) = None
    BY <1>6 DEF NewSecret
  <2>2. secret' \in [Sources -> Credentials \cup {None}]
    BY <1>2, <2>1
  <2> QED BY <1>3, <1>5, <2>1, <2>2 DEF SecretStaysWithOrigin
<1>7. CASE ~q.state.deleted /\ q.credentials # Keep
  <2>1. NewSecret(q) = q.credentials
    BY <1>7 DEF NewSecret
  <2>2. secret' \in [Sources -> Credentials \cup {None}]
    BY <1>2, <1>4, <1>7, <2>1
  <2>3. /\ N \in 1 .. Len(log'[x]) /\ log'[x][N].credentials = secret'[x]
        /\ \A m \in N .. Len(log'[x]) :
             /\ ~log'[x][m].state.deleted
             /\ Origin[log'[x][m].state.url] = Origin[docs'[x].state.url]
             /\ m > N => log'[x][m].credentials = Keep
    BY <1>1, <1>2, <1>3, <1>7, <2>1
  <2>4. GivenForOrigin(x)'
    <3> HIDE DEF N
    <3> QED BY <2>3 DEF GivenForOrigin
  <2> QED BY <1>5, <2>2, <2>4 DEF SecretStaysWithOrigin
<1>8. CASE ~q.state.deleted /\ q.credentials = Keep
  <2> DEFINE old == docs[x].state.url
  <2>1. NewSecret(q) = IF old # None /\ Origin[old] = Origin[q.state.url] THEN secret[x]
                       ELSE None
    BY <1>8 DEF NewSecret
  <2>2. secret' \in [Sources -> Credentials \cup {None}]
    BY <1>2, <2>1
  <2>3. ASSUME secret'[x] # None
        PROVE  \E n \in 1 .. Len(log'[x]) :
                 /\ log'[x][n].credentials = secret'[x]
                 /\ \A m \in n .. Len(log'[x]) :
                      /\ ~log'[x][m].state.deleted
                      /\ Origin[log'[x][m].state.url] = Origin[docs'[x].state.url]
                      /\ m > n => log'[x][m].credentials = Keep
    <3>1. secret'[x] = secret[x] /\ Origin[old] = Origin[q.state.url]
      BY <1>3, <2>1, <2>3
    <3>2. PICK n \in 1 .. Len(log[x]) :
                 /\ log[x][n].credentials = secret[x]
                 /\ \A m \in n .. Len(log[x]) :
                      /\ ~log[x][m].state.deleted
                      /\ Origin[log[x][m].state.url] = Origin[old]
                      /\ m > n => log[x][m].credentials = Keep
      BY <2>3, <3>1 DEF Inv, SecretStaysWithOrigin, GivenForOrigin
    <3>3. n \in 1 .. Len(log'[x]) /\ log'[x][n].credentials = secret'[x]
      BY <1>1, <1>2, <3>1, <3>2
    <3>4. \A m \in n .. Len(log'[x]) :
            /\ ~log'[x][m].state.deleted
            /\ Origin[log'[x][m].state.url] = Origin[docs'[x].state.url]
            /\ m > n => log'[x][m].credentials = Keep
      <4> SUFFICES ASSUME NEW m \in n .. Len(log'[x])
                   PROVE  /\ ~log'[x][m].state.deleted
                          /\ Origin[log'[x][m].state.url] = Origin[docs'[x].state.url]
                          /\ m > n => log'[x][m].credentials = Keep
        OBVIOUS
      <4>1. CASE m = N
        BY <4>1, <1>1, <1>8
      <4>2. CASE m # N
        <5>1. m \in n .. Len(log[x]) /\ log'[x][m] = log[x][m]
          BY <4>2, <1>1, <1>2, <3>2
        <5> QED BY <5>1, <3>1, <3>2, <1>1
      <4> QED BY <4>1, <4>2
    <3> QED BY <3>3, <3>4
  <2>4. secret'[x] # None => GivenForOrigin(x)'
    BY <2>3 DEF GivenForOrigin
  <2> QED BY <1>5, <2>2, <2>4 DEF SecretStaysWithOrigin
<1> QED BY <1>4, <1>6, <1>7, <1>8

LEMMA WriteSourceInv ==
  ASSUME Inv, NEW q \in sent, WriteSource(q)
  PROVE  Inv'
<1>1. /\ q.doc \in Sources /\ Recorded(q) = {} /\ q.revision = docs[q.doc].revision
      /\ Store(q) /\ secret' = [secret EXCEPT ![q.doc] = NewSecret(q)]
      /\ operations' = operations \cup {[write |-> q, version |-> docs'[q.doc]]}
      /\ Say(q.doc, docs'[q.doc], TRUE, q) /\ UNCHANGED <<view, sent>>
  BY DEF WriteSource
<1>2. SecretStaysWithOrigin' /\ secret' \in [Sources -> Credentials \cup {None}]
  BY <1>1, SourceSecret
<1>3. TypeOK' /\ AnswersTrue' /\ RequestsTrue'
  BY <1>1, <1>2, StoreTypes
<1>4. LogFromRequests' /\ WritesApplyOnce'
  BY <1>1, SourceOnce
<1>5. PasscodeKept'
  BY <1>1, SettingsAssumption, StorePrivacy
<1>6. NothingUnseenOverwritten'
  BY <1>1, StoreCurrent
<1> QED BY <1>2, <1>3, <1>4, <1>5, <1>6 DEF Inv

-----------------------------------------------------------------------------

LEMMA NextInv == Inv /\ [Next]_vars => Inv'
<1> SUFFICES ASSUME Inv, [Next]_vars PROVE Inv'
  OBVIOUS
<1>1. ASSUME NEW d \in Devices, NEW r \in Documents, NEW id \in OpIds,
             NEW c \in Credentials \cup {Keep, None}, NEW state \in Wanted[r],
             Send(d, r, state, c, id)
      PROVE  Inv'
  BY <1>1, SendInv
<1>2. ASSUME NEW d \in Devices, NEW a \in answers, Receive(d, a)
      PROVE  Inv'
  <2>1. a.doc \in Documents /\ a.version \in Version(a.doc) /\ ShowsHistory(a.doc, a.version)
    BY DEF Inv, TypeOK, AnswersTrue, Answer
  <2> QED BY <1>2, <2>1, LearnInv DEF Receive
<1>3. ASSUME NEW d \in Devices, NEW r \in Documents, Read(d, r)
      PROVE  Inv'
  <2>1. docs[r] \in Version(r) /\ ShowsHistory(r, docs[r])
    BY DEF Inv, TypeOK, AnswersTrue
  <2> QED BY <1>3, <2>1, LearnInv DEF Read
<1>4. ASSUME NEW q \in sent, SyncPrivacy(q)
      PROVE  Inv'
  <2> DEFINE accepted == q.revision = docs["privacy"].revision
  <2>1. /\ q.doc = "privacy" /\ Valid(q.state) /\ Swap(q, accepted)
        /\ accepted /\ docs["privacy"].state.credential # None
             => q.state.credential # None
    BY <1>4 DEF SyncPrivacy
  <2>2. accepted \in BOOLEAN /\ (accepted => q.revision = docs[q.doc].revision)
    BY <2>1
  <2> HIDE DEF accepted
  <2> QED BY <2>1, <2>2, SwapInv
<1>5. ASSUME NEW q \in sent, SyncFolderCatalog(q)
      PROVE  Inv'
  <2> DEFINE accepted == \/ q.revision = docs["folders"].revision
                         \/ q.state = docs["folders"].state
  <2>1. q.doc = "folders" /\ Swap(q, accepted)
    BY <1>5 DEF SyncFolderCatalog
  <2>2. /\ accepted \in BOOLEAN
        /\ accepted => \/ q.revision = docs[q.doc].revision
                       \/ q.state = docs[q.doc].state
    BY <2>1
  <2> HIDE DEF accepted
  <2> QED BY <2>1, <2>2, SwapInv
<1>6. ASSUME NEW q \in sent, WriteSource(q) \/ RepeatSource(q)
      PROVE  Inv'
  BY <1>6, WriteSourceInv, RepeatInv
<1>7. CASE UNCHANGED vars
  <2>1. /\ LogFromRequests' /\ NothingUnseenOverwritten' /\ WritesApplyOnce'
        /\ PasscodeKept' /\ SecretStaysWithOrigin'
        /\ \A x, v : ShowsHistory(x, v)' = ShowsHistory(x, v)
    BY <1>7, Untouched DEF vars, tables
  <2>2. TypeOK'
    BY <1>7 DEF vars, tables, Inv, TypeOK
  <2>3. AnswersTrue' /\ RequestsTrue'
    BY <1>7, <2>1 DEF vars, tables, Inv, AnswersTrue, RequestsTrue
  <2> QED BY <2>1, <2>2, <2>3 DEF Inv
<1> QED BY <1>1, <1>2, <1>3, <1>4, <1>5, <1>6, <1>7 DEF Next

LEMMA Invariance == Spec => []Inv
BY InitInv, NextInv, PTL DEF Spec

-----------------------------------------------------------------------------

(* The compare-and-swap promise: whatever is lost, late or repeated, every *)
(* stored write was made by somebody who saw what it replaces.             *)
THEOREM NoBlindWrites == Spec => []NothingUnseenOverwritten
<1>1. Inv => NothingUnseenOverwritten
  BY DEF Inv
<1> QED BY <1>1, Invariance, PTL

(* A retried write has one effect, an operation id one write. *)
THEOREM WritesOnce == Spec => []WritesApplyOnce
<1>1. Inv => WritesApplyOnce
  BY DEF Inv
<1> QED BY <1>1, Invariance, PTL

(* A revision names one state, in the tables, in answers and on devices. *)
THEOREM TrueAnswers == Spec => []AnswersTrue
<1>1. Inv => AnswersTrue
  BY DEF Inv
<1> QED BY <1>1, Invariance, PTL

(* Once there is a passcode no write takes it away. *)
THEOREM PasscodeStays == Spec => []PasscodeKept
<1>1. Inv => PasscodeKept
  BY DEF Inv
<1> QED BY <1>1, Invariance, PTL

(* Stored credentials never reach another origin than they were given for. *)
THEOREM SecretOrigin == Spec => []SecretStaysWithOrigin
<1>1. Inv => SecretStaysWithOrigin
  BY DEF Inv
<1> QED BY <1>1, Invariance, PTL
=============================================================================
