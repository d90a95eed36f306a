------------------------------ MODULE Accounts ------------------------------
(***************************************************************************)
(* Accounts, sessions, invitations and library membership.                 *)
(*                                                                         *)
(* A signed-in request is handled in steps: the session is looked up, for  *)
(* an administrator's route the account's role is read, and only then does *)
(* the route's own transaction run.  Between two of these steps other      *)
(* requests, the owner's local commands and time go on, so a handler may   *)
(* act for a session or a role that is gone.  Signing in, setup and        *)
(* registration are one transaction each.                                  *)
(***************************************************************************)
EXTENDS Integers, FiniteSets

CONSTANTS Names,        \* usernames of people; a username stands for its id
          Libraries,    \* shared libraries; each stands for its owner account
          Passwords,
          SessionIds,   \* drawn at random; an id of a deleted one may return
          MaxSessions,  \* 32: sessions per account
          Invites,      \* invitations, each with the code it was issued with
          Requests,     \* handlers that run at the same time
          None          \* no such row, no handler, no password

Accts == Names \cup Libraries

User == [admin : BOOLEAN, disabled : BOOLEAN, password : Passwords \cup {None}]

(* password: what the session was opened with, kept for the properties. *)
Session == [user : Accts, password : Passwords \cup {None}, expired : BOOLEAN]

Invite == [redeemed_by : Names \cup {None}, revoked : BOOLEAN, expired : BOOLEAN]

Handler == [pc : {"authorized", "admin", "replace"},
            user : Accts \cup {None}, old : SessionIds \cup {None}]

ASSUME AccountAssumption ==
  /\ Names \cap Libraries = {}
  /\ None \notin Names \cup Libraries \cup Passwords \cup SessionIds \cup Invites
  /\ {"setup", "command"} \cap (Invites \cup {None}) = {}
  /\ None \notin User /\ None \notin Invite
  /\ MaxSessions \in Nat \ {0}

VARIABLES users,      \* rows of users
          sessions,   \* rows of sessions
          invites,    \* rows of invites
          grants,     \* invite_libraries
          members,    \* library_members
          setupCode,  \* the serving process has a setup code
          proc,       \* handlers past their authorisation
          origin      \* history: how each account came to be

vars == <<users, sessions, invites, grants, members, setupCode, proc, origin>>
inviteVars == <<invites, grants>>

TypeOK ==
  /\ users \in [Accts -> User \cup {None}]
  /\ sessions \in [SessionIds -> Session \cup {None}]
  /\ invites \in [Invites -> Invite \cup {None}]
  /\ grants \subseteq Invites \X Libraries
  /\ members \subseteq Libraries \X Accts
  /\ setupCode \in BOOLEAN
  /\ proc \in [Requests -> Handler \cup {None}]
  /\ origin \in [Names -> Invites \cup {"setup", "command", None}]

Init ==
  /\ users = [u \in Accts |-> None]
  /\ sessions = [s \in SessionIds |-> None]
  /\ invites = [i \in Invites |-> None]
  /\ grants = {} /\ members = {}
  /\ setupCode = TRUE
  /\ proc = [p \in Requests |-> None]
  /\ origin = [u \in Names |-> None]

Admins == {u \in Accts : users[u] # None /\ users[u].admin}
Active == {u \in Accts : users[u] # None /\ ~users[u].disabled}

NeedsSetup == Admins = {}

SessionsOf(u) == {s \in SessionIds : sessions[s] # None /\ sessions[s].user = u}

(* DELETE FROM sessions WHERE user_id=? *)
SignedOut(u) == [s \in SessionIds |-> IF s \in SessionsOf(u) THEN None ELSE sessions[s]]

Finish(p) == proc' = [proc EXCEPT ![p] = None]

-----------------------------------------------------------------------------
(* The local commands and the process                                      *)

NewUser(u, admin, pw) ==
  users' = [users EXCEPT ![u] = [admin |-> admin, disabled |-> FALSE, password |-> pw]]

CreateUser(u, pw) ==
  /\ users[u] = None
  /\ NewUser(u, FALSE, pw)
  /\ origin' = [origin EXCEPT ![u] = "command"]
  /\ UNCHANGED <<sessions, inviteVars, members, setupCode, proc>>

ResetPassword(u, pw) ==
  /\ users[u] # None
  /\ users' = [users EXCEPT ![u].password = pw]
  /\ sessions' = SignedOut(u)
  /\ UNCHANGED <<inviteVars, members, setupCode, proc, origin>>

(* Mutant: the owner account of a library is promoted like any other. *)
PromoteAny(u) ==
  /\ users[u] # None
  /\ users' = [users EXCEPT ![u].admin = TRUE, ![u].disabled = FALSE]
  /\ UNCHANGED <<sessions, inviteVars, members, setupCode, proc, origin>>

Promote(u) ==
  /\ users[u] # None /\ u \notin Libraries
  /\ users' = [users EXCEPT ![u].admin = TRUE, ![u].disabled = FALSE]
  /\ UNCHANGED <<sessions, inviteVars, members, setupCode, proc, origin>>

(* A starting process draws a setup code if no account is an administrator. *)
Restart ==
  /\ setupCode' = NeedsSetup
  /\ proc' = [p \in Requests |-> None]
  /\ UNCHANGED <<users, sessions, inviteVars, members, origin>>

-----------------------------------------------------------------------------
(* Setup and registration                                                  *)

(* Mutant: the handler's code check is relied on alone. *)
SetupUnchecked(u, pw) ==
  /\ setupCode /\ users[u] = None
  /\ NewUser(u, TRUE, pw)
  /\ origin' = [origin EXCEPT ![u] = "setup"]
  /\ UNCHANGED <<sessions, inviteVars, members, setupCode, proc>>

(* The code stays in the process; the transaction looks for administrators. *)
Setup(u, pw) ==
  /\ setupCode /\ NeedsSetup /\ users[u] = None
  /\ NewUser(u, TRUE, pw)
  /\ origin' = [origin EXCEPT ![u] = "setup"]
  /\ UNCHANGED <<sessions, inviteVars, members, setupCode, proc>>

Open(i) == invites[i] # None /\ invites[i].redeemed_by = None /\ ~invites[i].revoked

(* Mutant: a redeemed invitation is redeemed again. *)
RegisterAgain(u, pw, i) ==
  /\ users[u] = None
  /\ invites[i] # None /\ ~invites[i].revoked /\ ~invites[i].expired
  /\ NewUser(u, FALSE, pw)
  /\ invites' = [invites EXCEPT ![i].redeemed_by = u]
  /\ members' = members \cup {<<l, u>> : l \in {k \in Libraries : <<i, k>> \in grants}}
  /\ origin' = [origin EXCEPT ![u] = i]
  /\ UNCHANGED <<sessions, grants, setupCode, proc>>

Register(u, pw, i) ==
  /\ users[u] = None
  /\ Open(i) /\ ~invites[i].expired
  /\ NewUser(u, FALSE, pw)
  /\ invites' = [invites EXCEPT ![i].redeemed_by = u]
  /\ members' = members \cup {<<l, u>> : l \in {k \in Libraries : <<i, k>> \in grants}}
  /\ origin' = [origin EXCEPT ![u] = i]
  /\ UNCHANGED <<sessions, grants, setupCode, proc>>

-----------------------------------------------------------------------------
(* Sessions                                                                *)

(* Time: a session or an invitation runs out.  Nobody asks whether a       *)
(* closed invitation has.                                                  *)
Expire ==
  /\ \/ /\ \E s \in SessionIds : /\ sessions[s] # None /\ ~sessions[s].expired
                                 /\ sessions' = [sessions EXCEPT ![s].expired = TRUE]
        /\ UNCHANGED invites
     \/ /\ \E i \in Invites : /\ Open(i) /\ ~invites[i].expired
                              /\ invites' = [invites EXCEPT ![i].expired = TRUE]
        /\ UNCHANGED sessions
  /\ UNCHANGED <<users, grants, members, setupCode, proc, origin>>

(* Store.Login: one transaction verifies the password, deletes expired     *)
(* sessions, counts those of the account and adds the new one.             *)
LoginTx(u, pw, s) ==
  LET live == [t \in SessionIds |-> IF sessions[t] # None /\ sessions[t].expired
                                    THEN None ELSE sessions[t]]
  IN  /\ u \in Active /\ users[u].password = pw
      /\ sessions[s] = None
      /\ Cardinality({t \in SessionIds : live[t] # None /\ live[t].user = u}) < MaxSessions
      /\ sessions' = [live EXCEPT ![s] = [user |-> u, password |-> pw, expired |-> FALSE]]

Login(u, pw, s) ==
  /\ LoginTx(u, pw, s)
  /\ UNCHANGED <<users, inviteVars, members, setupCode, proc, origin>>

(* A session is accepted while it lasts and its account is enabled. *)
Accepted(s) == sessions[s] # None /\ ~sessions[s].expired /\ sessions[s].user \in Active

(* A browser that signs in with an older cookie: after the new session is  *)
(* there the old one is looked up and revoked.                             *)
BrowserLogin(p, u, pw, s, old) ==
  /\ proc[p] = None
  /\ LoginTx(u, pw, s)
  /\ sessions[old] # None
  /\ proc' = [proc EXCEPT ![p] = [pc |-> "replace", user |-> None, old |-> old]]
  /\ UNCHANGED <<users, inviteVars, members, setupCode, origin>>

ReplaceCookie(p) ==
  /\ proc[p] # None /\ proc[p].pc = "replace"
  /\ sessions' = IF Accepted(proc[p].old) THEN [sessions EXCEPT ![proc[p].old] = None]
                 ELSE sessions
  /\ Finish(p)
  /\ UNCHANGED <<users, inviteVars, members, setupCode, origin>>

(* api.authorized: a bearer token or a bound cookie names the account. *)
Authorize(p, s) ==
  /\ proc[p] = None /\ Accepted(s)
  /\ proc' = [proc EXCEPT ![p] = [pc |-> "authorized", user |-> sessions[s].user,
                                  old |-> None]]
  /\ UNCHANGED <<users, sessions, inviteVars, members, setupCode, origin>>

(* api.admin: the role is a second query. *)
AdminCheck(p) ==
  /\ proc[p] # None /\ proc[p].pc = "authorized"
  /\ proc' = [proc EXCEPT ![p] = IF proc[p].user \in Admins THEN [@ EXCEPT !.pc = "admin"]
                                 ELSE None]
  /\ UNCHANGED <<users, sessions, inviteVars, members, setupCode, origin>>

(* Invalid input, a failed statement, a client that hung up. *)
GiveUp(p) ==
  /\ proc[p] # None
  /\ Finish(p)
  /\ UNCHANGED <<users, sessions, inviteVars, members, setupCode, origin>>

-----------------------------------------------------------------------------
(* What a signed-in user may do                                            *)

AsUser(p) == proc[p] # None /\ proc[p].pc = "authorized"

RevokeOwn(p, s) ==
  /\ AsUser(p) /\ s \in SessionsOf(proc[p].user)
  /\ sessions' = [sessions EXCEPT ![s] = None]
  /\ Finish(p)
  /\ UNCHANGED <<users, inviteVars, members, setupCode, origin>>

(* Mutant: other devices stay signed in. *)
ChangePasswordOnly(p, current, pw) ==
  /\ AsUser(p)
  /\ proc[p].user \in Active /\ users[proc[p].user].password = current
  /\ users' = [users EXCEPT ![proc[p].user].password = pw]
  /\ Finish(p)
  /\ UNCHANGED <<sessions, inviteVars, members, setupCode, origin>>

(* The transaction reads the account again. *)
ChangePassword(p, current, pw) ==
  /\ AsUser(p)
  /\ LET u == proc[p].user
     IN  /\ u \in Active /\ users[u].password = current
         /\ users' = [users EXCEPT ![u].password = pw]
         /\ sessions' = SignedOut(u)
  /\ Finish(p)
  /\ UNCHANGED <<inviteVars, members, setupCode, origin>>

-----------------------------------------------------------------------------
(* What an administrator may do                                            *)

AsAdmin(p) == proc[p] # None /\ proc[p].pc = "admin"

(* Mutant: the other administrators are counted, disabled ones too. *)
SetUserCounting(p, u, admin, disabled) ==
  /\ AsAdmin(p)
  /\ users[u] # None /\ u \notin Libraries
  /\ u \in Admins /\ (~admin \/ disabled) => Admins \ {u} # {}
  /\ users' = [users EXCEPT ![u].admin = admin, ![u].disabled = disabled]
  /\ sessions' = SignedOut(u)
  /\ Finish(p)
  /\ UNCHANGED <<inviteVars, members, setupCode, origin>>

(* Mutant: only disabling the last administrator is refused. *)
SetUserDemoting(p, u, admin, disabled) ==
  /\ AsAdmin(p)
  /\ users[u] # None /\ u \notin Libraries
  /\ u \in Admins /\ disabled => (Admins \cap Active) \ {u} # {}
  /\ users' = [users EXCEPT ![u].admin = admin, ![u].disabled = disabled]
  /\ sessions' = SignedOut(u)
  /\ Finish(p)
  /\ UNCHANGED <<inviteVars, members, setupCode, origin>>

(* PUT /v1/admin/users/{id}: role and state in one transaction that counts *)
(* the other active administrators.                                        *)
SetUser(p, u, admin, disabled) ==
  /\ AsAdmin(p)
  /\ users[u] # None /\ u \notin Libraries
  /\ u \in Admins /\ (~admin \/ disabled) => (Admins \cap Active) \ {u} # {}
  /\ users' = [users EXCEPT ![u].admin = admin, ![u].disabled = disabled]
  /\ sessions' = SignedOut(u)
  /\ Finish(p)
  /\ UNCHANGED <<inviteVars, members, setupCode, origin>>

RevokeSessions(p, u) ==
  /\ AsAdmin(p)
  /\ sessions' = SignedOut(u)
  /\ Finish(p)
  /\ UNCHANGED <<users, inviteVars, members, setupCode, origin>>

CreateInvite(p, i) ==
  /\ AsAdmin(p) /\ invites[i] = None
  /\ invites' = [invites EXCEPT ![i] = [redeemed_by |-> None, revoked |-> FALSE,
                                        expired |-> FALSE]]
  /\ Finish(p)
  /\ UNCHANGED <<users, sessions, grants, members, setupCode, origin>>

RevokeInvite(p, i) ==
  /\ AsAdmin(p)
  /\ invites' = IF Open(i) THEN [invites EXCEPT ![i].revoked = TRUE] ELSE invites
  /\ Finish(p)
  /\ UNCHANGED <<users, sessions, grants, members, setupCode, origin>>

(* A grant refers to an existing library. *)
GrantInvite(p, i, l) ==
  /\ AsAdmin(p) /\ users[l] # None
  /\ grants' = IF Open(i) /\ ~invites[i].expired THEN grants \cup {<<i, l>>} ELSE grants
  /\ Finish(p)
  /\ UNCHANGED <<users, sessions, invites, members, setupCode, origin>>

AddMember(p, l, u) ==
  /\ AsAdmin(p) /\ users[l] # None
  /\ members' = IF users[u] # None /\ u \notin Libraries THEN members \cup {<<l, u>>}
                ELSE members
  /\ Finish(p)
  /\ UNCHANGED <<users, sessions, inviteVars, setupCode, origin>>

DropMember(p, l, u) ==
  /\ AsAdmin(p)
  /\ members' = members \ {<<l, u>>}
  /\ Finish(p)
  /\ UNCHANGED <<users, sessions, inviteVars, setupCode, origin>>

(* A library comes with an owner account nobody can sign in to. *)
CreateLibrary(p, l) ==
  /\ AsAdmin(p) /\ users[l] = None
  /\ users' = [users EXCEPT ![l] = [admin |-> FALSE, disabled |-> TRUE, password |-> None]]
  /\ Finish(p)
  /\ UNCHANGED <<sessions, inviteVars, members, setupCode, origin>>

(* Mutant: the grants of open invitations stay. *)
DeleteLibraryKeepsGrants(p, l) ==
  /\ AsAdmin(p) /\ users[l] # None
  /\ users' = [users EXCEPT ![l] = None]
  /\ sessions' = SignedOut(l)
  /\ members' = {m \in members : m[1] # l}
  /\ Finish(p)
  /\ UNCHANGED <<inviteVars, setupCode, origin>>

DeleteLibrary(p, l) ==
  /\ AsAdmin(p) /\ users[l] # None
  /\ users' = [users EXCEPT ![l] = None]
  /\ sessions' = SignedOut(l)
  /\ grants' = {g \in grants : g[2] # l}
  /\ members' = {m \in members : m[1] # l}
  /\ Finish(p)
  /\ UNCHANGED <<invites, setupCode, origin>>

-----------------------------------------------------------------------------

Next ==
  \/ \E u \in Names, pw \in Passwords : CreateUser(u, pw) \/ Setup(u, pw)
  \/ \E u \in Accts, pw \in Passwords : ResetPassword(u, pw)
  \/ \E u \in Accts : Promote(u)
  \/ Restart \/ Expire
  \/ \E u \in Names, pw \in Passwords, i \in Invites : Register(u, pw, i)
  \/ \E u \in Accts, pw \in Passwords, s \in SessionIds :
       \/ Login(u, pw, s)
       \/ \E p \in Requests, old \in SessionIds : BrowserLogin(p, u, pw, s, old)
  \/ \E p \in Requests :
       \/ ReplaceCookie(p) \/ AdminCheck(p) \/ GiveUp(p)
       \/ \E s \in SessionIds : Authorize(p, s) \/ RevokeOwn(p, s)
       \/ \E current, pw \in Passwords : ChangePassword(p, current, pw)
       \/ \E u \in Accts : \/ RevokeSessions(p, u)
                           \/ \E admin, disabled \in BOOLEAN : SetUser(p, u, admin, disabled)
       \/ \E i \in Invites : \/ CreateInvite(p, i) \/ RevokeInvite(p, i)
                             \/ \E l \in Libraries : GrantInvite(p, i, l)
       \/ \E l \in Libraries : \/ CreateLibrary(p, l) \/ DeleteLibrary(p, l)
                               \/ \E u \in Accts : AddMember(p, l, u) \/ DropMember(p, l, u)

Spec == Init /\ [][Next]_vars

-----------------------------------------------------------------------------
(* Properties                                                              *)

(* OPERATIONS.md: the last active administrator cannot be demoted or       *)
(* disabled.  Once some account is an administrator, by setup or by        *)
(* promote, every later state has an active one, also when administrators  *)
(* demote or disable each other at the same time or act on a role they     *)
(* have just lost.  Nobody is one at first, so the steps say it all.       *)
SomebodyAdministers ==
  [][Admins \cup Admins' # {} => (Admins \cap Active)' # {}]_users

(* Setup closes once an administrator exists, although every process that  *)
(* started before still has its code.                                      *)
SetupOnce == Cardinality({u \in Names : origin[u] = "setup"}) <= 1

(* Revocation is complete: no session outlives the password it was opened  *)
(* with or the account's being enabled, whatever logins were under way.    *)
SessionsCurrent ==
  \A s \in SessionIds : sessions[s] # None =>
    /\ sessions[s].user \in Active
    /\ sessions[s].password = users[sessions[s].user].password

(* An invitation makes at most one account, and a revoked one none. *)
InvitesSingleUse ==
  \A u \in Names, i \in Invites :
    origin[u] = i => invites[i].redeemed_by = u /\ ~invites[i].revoked

(* The account behind a library is never one somebody can use. *)
OwnersInert ==
  \A l \in Libraries :
    /\ users[l] # None => users[l].disabled /\ ~users[l].admin
    /\ \A k \in Libraries : <<k, l>> \notin members

(* Grants and memberships name libraries that exist, and members who do:   *)
(* a deleted library leaves nothing that a later invitation could revive.  *)
GrantsExist ==
  /\ \A g \in grants : users[g[2]] # None
  /\ \A m \in members : users[m[1]] # None /\ users[m[2]] # None
=============================================================================
