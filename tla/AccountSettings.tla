--------------------------- MODULE AccountSettings ---------------------------
(***************************************************************************)
(* Documents an account has one of and its devices replace as a whole: the *)
(* privacy settings, the folder catalogue and each OPDS source.  A write   *)
(* names the revision it was made from and is stored only if that is the   *)
(* current one; each handler is one transaction.  Requests can be lost,    *)
(* late, repeated and out of order, and so can answers: what was once sent *)
(* may arrive at any later time, any number of times.                      *)
(*                                                                         *)
(* The three handlers differ in what they do with a stale or a repeated    *)
(* write: privacy answers the current document, the folder catalogue takes *)
(* equal content for a repetition, a source remembers its operations.      *)
(***************************************************************************)
EXTENDS Integers, Sequences, FiniteSets

CONSTANTS Devices,
          Passcodes,     \* verifiers of a privacy passcode
          Restrictions,  \* restrictions of single books
          Paths,         \* folder names
          Sources,       \* ids of OPDS sources
          MaxSources,    \* 500: sources per account, deleted ones included
          Urls,
          Origin,        \* scheme, host and port of a URL
          Credentials,   \* user name and password for a source
          Keep,          \* the write leaves the credentials out
          OpIds,         \* operation ids; elsewhere they only tell requests apart
          Wanted,        \* the states devices write, for each document
          MaxWrites,     \* bound: writes ever sent
          None           \* no passcode, no URL, no credentials

ASSUME SettingsAssumption ==
  /\ {"privacy", "folders"} \cap Sources = {}
  /\ None \notin Passcodes \cup Urls \cup Credentials
  /\ Keep \notin Credentials \cup {None}
  /\ MaxSources \in Nat /\ MaxWrites \in Nat

Documents == {"privacy", "folders"} \cup Sources

PrivacyStates == [credential : Passcodes \cup {None}, books : SUBSET Restrictions]
FolderStates == [library : SUBSET Paths, hidden : SUBSET Paths]
SourceStates == [url : Urls \cup {None}, deleted : BOOLEAN]

States(r) == CASE r = "privacy" -> PrivacyStates
               [] r = "folders" -> FolderStates
               [] OTHER -> SourceStates

ASSUME WantedAssumption == \A r \in Documents : Wanted[r] \subseteq States(r)

(* A document that was never written has revision 0. *)
Blank(r) == CASE r = "privacy" -> [credential |-> None, books |-> {}]
              [] r = "folders" -> [library |-> {}, hidden |-> {}]
              [] OTHER -> [url |-> None, deleted |-> TRUE]

(* What a device knows of a document, and what an answer says of it. *)
Version(r) == [revision : Nat, state : States(r)]

(* A write.  basis is what its author saw, which the server is not told;   *)
(* the rest is the body of the request.                                    *)
Write(r) == [id : OpIds, doc : {r}, revision : Nat, state : States(r),
             credentials : Credentials \cup {Keep, None}, basis : States(r)]

VARIABLES docs,        \* privacy_settings, folder_catalog, catalog_sources
          secret,      \* the stored credentials of each source
          operations,  \* catalog_operations
          view,        \* what each device last learnt
          sent,        \* writes that were ever sent
          answers,     \* answers that were ever written
          log          \* history: the accepted writes of each document

tables == <<docs, secret, operations>>
vars == <<tables, view, sent, answers, log>>

Answer(r) == [doc : {r}, version : Version(r), accepted : BOOLEAN,
              write : Write(r)]

Operation(s) == [write : Write(s), version : Version(s)]

TypeOK ==
  /\ DOMAIN docs = Documents /\ DOMAIN log = Documents
  /\ DOMAIN view = Devices /\ \A d \in Devices : DOMAIN view[d] = Documents
  /\ \A r \in Documents : docs[r] \in Version(r) /\ log[r] \in Seq(Write(r))
  /\ secret \in [Sources -> Credentials \cup {None}]
  /\ \A o \in operations : o.write.doc \in Sources /\ o \in Operation(o.write.doc)
  /\ \A d \in Devices, r \in Documents : view[d][r] \in Version(r)
  /\ \A q \in sent : q.doc \in Documents /\ q \in Write(q.doc)
  /\ \A a \in answers : a.doc \in Documents /\ a \in Answer(a.doc)

Init ==
  /\ docs = [r \in Documents |-> [revision |-> 0, state |-> Blank(r)]]
  /\ secret = [s \in Sources |-> None]
  /\ operations = {}
  /\ view = [d \in Devices |-> docs]
  /\ sent = {} /\ answers = {}
  /\ log = [r \in Documents |-> <<>>]

-----------------------------------------------------------------------------
(* Devices                                                                 *)

(* A device replaces the document it shows.  Ids are fresh, but a client   *)
(* may use the id of a source operation for another one.                   *)
Send(d, r, state, credentials, id) ==
  /\ Cardinality(sent) < MaxWrites
  /\ \A q \in sent : q.id = id => {q.doc, r} \subseteq Sources
  /\ r \notin Sources => credentials = Keep
  /\ sent' = sent \cup {[id |-> id, doc |-> r, revision |-> view[d][r].revision,
                         state |-> state, credentials |-> credentials,
                         basis |-> view[d][r].state]}
  /\ UNCHANGED <<tables, view, answers, log>>

(* Answers reach any device of the account that waits for one. *)
Receive(d, a) ==
  /\ view[d][a.doc] # a.version
  /\ view' = [view EXCEPT ![d][a.doc] = a.version]
  /\ UNCHANGED <<tables, sent, answers, log>>

(* A request without a state, or GET for the sources.  That such an answer *)
(* comes late adds nothing: answers of writes can show older versions too. *)
Read(d, r) ==
  /\ view[d][r] # docs[r]
  /\ view' = [view EXCEPT ![d][r] = docs[r]]
  /\ UNCHANGED <<tables, sent, answers, log>>

-----------------------------------------------------------------------------
(* The server                                                              *)

Say(r, version, accepted, write) ==
  answers' = answers \cup {[doc |-> r, version |-> version, accepted |-> accepted,
                            write |-> write]}

(* Mutant: the revision stays. *)
StoreSameRevision(q) ==
  /\ docs' = [docs EXCEPT ![q.doc].state = q.state]
  /\ log' = [log EXCEPT ![q.doc] = Append(@, q)]

Store(q) ==
  /\ docs' = [docs EXCEPT ![q.doc] = [revision |-> @.revision + 1, state |-> q.state]]
  /\ log' = [log EXCEPT ![q.doc] = Append(@, q)]

(* The two registers store a current write unless it changes nothing, and  *)
(* answer the current document in any case.                                *)
Swap(q, accepted) ==
  /\ IF accepted /\ q.state # docs[q.doc].state THEN Store(q) ELSE UNCHANGED <<docs, log>>
  /\ Say(q.doc, docs'[q.doc], accepted, q)
  /\ UNCHANGED <<secret, operations, view, sent>>

Valid(p) == p.books # {} => p.credential # None

(* Mutant: nothing keeps an empty client from clearing the passcode. *)
SyncPrivacyClearing(q) ==
  /\ q.doc = "privacy" /\ Valid(q.state)
  /\ q.revision <= docs["privacy"].revision
  /\ Swap(q, q.revision = docs["privacy"].revision)

(* A future revision, restrictions without a passcode and a write that     *)
(* would clear the passcode are errors.                                    *)
SyncPrivacy(q) ==
  /\ q.doc = "privacy" /\ Valid(q.state)
  /\ LET old == docs["privacy"]
     IN  /\ q.revision <= old.revision
         /\ q.revision = old.revision /\ old.state.credential # None
              => q.state.credential # None
         /\ Swap(q, q.revision = old.revision)

(* Mutant: the catalogue is stored whatever revision it was made from. *)
SyncFolderCatalogBlind(q) ==
  /\ q.doc = "folders"
  /\ q.revision <= docs["folders"].revision
  /\ Swap(q, TRUE)

(* An accepted write whose answer was lost can be repeated. *)
SyncFolderCatalog(q) ==
  /\ q.doc = "folders"
  /\ LET old == docs["folders"]
     IN  /\ q.revision <= old.revision
         /\ Swap(q, q.revision = old.revision \/ q.state = old.state)

(* The digest of a source operation covers the id of the source and the    *)
(* whole body.                                                             *)
Digest(q) == [q EXCEPT !.basis = None]
Recorded(q) == {o \in operations : o.write.id = q.id}

(* Mutant: the credentials stay with the source. *)
NewSecretKept(q) ==
  CASE q.state.deleted -> None
    [] ~q.state.deleted /\ q.credentials # Keep -> q.credentials
    [] OTHER -> secret[q.doc]

(* Credentials left out of a write stay only while the origin does. *)
NewSecret(q) ==
  LET old == docs[q.doc].state.url
  IN  CASE q.state.deleted -> None
        [] ~q.state.deleted /\ q.credentials # Keep -> q.credentials
        [] ~q.state.deleted /\ q.credentials = Keep
             -> IF old # None /\ Origin[old] = Origin[q.state.url] THEN secret[q.doc]
                ELSE None

(* Mutant: the operation id is not looked up. *)
WriteSourceAgain(q) ==
  /\ q.doc \in Sources /\ q.state.url # None
  /\ q.revision = docs[q.doc].revision
  /\ q.revision = 0 => Cardinality({s \in Sources : docs[s].revision > 0}) < MaxSources
  /\ Store(q)
  /\ secret' = [secret EXCEPT ![q.doc] = NewSecret(q)]
  /\ operations' = operations \cup {[write |-> q, version |-> docs'[q.doc]]}
  /\ Say(q.doc, docs'[q.doc], TRUE, q)
  /\ UNCHANGED <<view, sent>>

(* A new operation on the current revision of a source. *)
WriteSource(q) ==
  /\ q.doc \in Sources /\ q.state.url # None
  /\ Recorded(q) = {}
  /\ q.revision = docs[q.doc].revision
  /\ q.revision = 0 => Cardinality({s \in Sources : docs[s].revision > 0}) < MaxSources
  /\ Store(q)
  /\ secret' = [secret EXCEPT ![q.doc] = NewSecret(q)]
  /\ operations' = operations \cup {[write |-> q, version |-> docs'[q.doc]]}
  /\ Say(q.doc, docs'[q.doc], TRUE, q)
  /\ UNCHANGED <<view, sent>>

(* The same operation again is answered as it was; the id of another one   *)
(* is an error.                                                            *)
RepeatSource(q) ==
  /\ q.doc \in Sources
  /\ \E o \in Recorded(q) : /\ Digest(o.write) = Digest(q)
                            /\ Say(q.doc, o.version, TRUE, q)
  /\ UNCHANGED <<tables, view, sent, log>>

-----------------------------------------------------------------------------

Next ==
  \/ \E d \in Devices, r \in Documents, id \in OpIds, c \in Credentials \cup {Keep, None} :
       \E state \in Wanted[r] : Send(d, r, state, c, id)
  \/ \E d \in Devices : \/ \E a \in answers : Receive(d, a)
                        \/ \E r \in Documents : Read(d, r)
  \/ \E q \in sent : \/ SyncPrivacy(q) \/ SyncFolderCatalog(q)
                     \/ WriteSource(q) \/ RepeatSource(q)

Spec == Init /\ [][Next]_vars

-----------------------------------------------------------------------------
(* Properties                                                              *)

(* The state of document r at revision n. *)
StateAt(r, n) == IF n = 0 THEN Blank(r) ELSE log[r][n].state

(* A write is stored only on top of what its author saw: nobody overwrites *)
(* a change without having been shown it, whatever arrives late or twice.  *)
NothingUnseenOverwritten ==
  \A r \in Documents : \A n \in 1 .. Len(log[r]) : log[r][n].basis = StateAt(r, n - 1)

(* A write changes a document at most once, also when it arrives again     *)
(* after the document has come back to the state it was made from; an      *)
(* operation id is used up by one write to one source.                     *)
WritesApplyOnce ==
  /\ \A r \in Documents : \A m, n \in 1 .. Len(log[r]) :
       log[r][m] = log[r][n] => m = n
  /\ \A r, s \in Sources : \A m \in 1 .. Len(log[r]), n \in 1 .. Len(log[s]) :
       log[r][m].id = log[s][n].id => r = s /\ m = n

(* A revision names one state for good: the tables, every answer and every *)
(* device that knows it show the same, and an accepted write is what its   *)
(* answer shows.                                                           *)
ShowsHistory(r, v) == v.revision <= Len(log[r]) /\ v.state = StateAt(r, v.revision)

AnswersTrue ==
  /\ \A r \in Documents : /\ docs[r].revision = Len(log[r])
                          /\ ShowsHistory(r, docs[r])
                          /\ \A d \in Devices : ShowsHistory(r, view[d][r])
  /\ \A a \in answers : /\ ShowsHistory(a.doc, a.version)
                        /\ a.accepted => a.version.state = a.write.state

(* API.md: the passcode cannot be cleared after creation, and restrictions *)
(* need one.                                                               *)
PasscodeKept ==
  \A n \in 1 .. Len(log["privacy"]) :
    LET now == log["privacy"][n].state
    IN  /\ now.books # {} => now.credential # None
        /\ \A m \in 1 .. n : StateAt("privacy", m).credential # None
                               => now.credential # None

(* Stored credentials were given by a write to this origin, and since then *)
(* the source has had no other origin and was not deleted: a source that   *)
(* goes away and comes back does not have them again.                      *)
GivenForOrigin(s) ==
  \E n \in 1 .. Len(log[s]) :
    /\ log[s][n].credentials = secret[s]
    /\ \A m \in n .. Len(log[s]) :
         /\ ~log[s][m].state.deleted
         /\ Origin[log[s][m].state.url] = Origin[docs[s].state.url]
         /\ m > n => log[s][m].credentials = Keep

SecretStaysWithOrigin == \A s \in Sources : secret[s] # None => GivenForOrigin(s)

-----------------------------------------------------------------------------
(* The inductive invariant: whatever a write in flight or a remembered     *)
(* operation says of a document is history, and accepted writes followed   *)
(* one another revision by revision.                                       *)
RequestsTrue ==
  /\ \A q \in sent : ShowsHistory(q.doc, [revision |-> q.revision, state |-> q.basis])
  /\ \A o \in operations : /\ ShowsHistory(o.write.doc, o.version)
                           /\ o.version.state = o.write.state

LogFromRequests ==
  /\ \A r \in Documents : \A n \in 1 .. Len(log[r]) : log[r][n].revision = n - 1
  /\ \A s \in Sources : \A n \in 1 .. Len(log[s]) :
       \E o \in operations : o.write = log[s][n]

Inv ==
  /\ TypeOK
  /\ AnswersTrue /\ RequestsTrue /\ LogFromRequests
  /\ NothingUnseenOverwritten /\ WritesApplyOnce
  /\ PasscodeKept /\ SecretStaysWithOrigin
=============================================================================
