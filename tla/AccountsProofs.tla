--------------------------- MODULE AccountsProofs ---------------------------
(***************************************************************************)
(* For any accounts, invitations, libraries and requests: somebody can     *)
(* administer a server that is set up, setup succeeds once, sessions end   *)
(* with the password and the account's being enabled, an invitation makes  *)
(* one account, and libraries cannot be signed in to and leave nothing.    *)
(*                                                                         *)
(* The invariant adds what the properties rest on: a handler that has read *)
(* an administrator's role may act on it when the role is gone, but not    *)
(* when nobody has it any more.                                            *)
(***************************************************************************)
EXTENDS Accounts, FiniteSetTheorems, TLAPS

SetupKept ==
  /\ \A u, v \in Names : origin[u] = "setup" /\ origin[v] = "setup" => u = v
  /\ \A u \in Names : origin[u] = "setup" => Admins # {}

InvitesKept ==
  \A u \in Names, i \in Invites :
    origin[u] = i => /\ invites[i] # None
                     /\ invites[i].redeemed_by = u /\ ~invites[i].revoked

RolesHeld == \A p \in Requests : proc[p] # None /\ proc[p].pc = "admin" => Admins # {}

AdminActive == Admins # {} => Admins \cap Active # {}

Roles == AdminActive /\ SetupKept /\ RolesHeld

Inv == TypeOK /\ Roles /\ SessionsCurrent /\ InvitesKept /\ OwnersInert /\ GrantsExist

-----------------------------------------------------------------------------
(* What the actions have in common                                         *)

(* The row of one account is written.  While somebody is an administrator, *)
(* the account or another one is an active administrator after that.       *)
LEMMA RowWritten ==
  ASSUME Inv, NEW u \in Accts, NEW row \in User, users' = [users EXCEPT ![u] = row],
         u \in Libraries => row.disabled /\ ~row.admin,
         Admins # {} \/ row.admin =>
           (row.admin /\ ~row.disabled) \/ (Admins \cap Active) \ {u} # {}
  PROVE  /\ users' \in [Accts -> User \cup {None}]
         /\ AdminActive' /\ (Admins # {} => Admins' # {})
         /\ row.admin => Admins' # {}
         /\ users'[u] = row /\ row # None
         /\ \A v \in Accts : v # u => users'[v] = users[v]
         /\ \A l \in Libraries : users'[l] # None => users'[l].disabled /\ ~users'[l].admin
<1>1. users' \in [Accts -> User \cup {None}] /\ users'[u] = row /\ row # None
      /\ \A v \in Accts : v # u => users'[v] = users[v]
  BY AccountAssumption DEF Inv, TypeOK
<1>2. \A l \in Libraries : users'[l] # None => users'[l].disabled /\ ~users'[l].admin
  BY <1>1 DEF Inv, OwnersInert, Accts
<1>3. Admins # {} \/ row.admin => (Admins \cap Active)' # {}
  <2>1. CASE row.admin /\ ~row.disabled
    BY <1>1, <2>1 DEF Admins, Active
  <2>2. ASSUME NEW a \in (Admins \cap Active) \ {u}
        PROVE  a \in (Admins \cap Active)'
    BY <1>1 DEF Admins, Active
  <2> QED BY <2>1, <2>2
<1>4. Admins' # {} => Admins # {} \/ row.admin
  BY <1>1 DEF Admins
<1> QED BY <1>1, <1>2, <1>3, <1>4 DEF AdminActive

(* Nobody but account u has changed, and all its sessions are gone. *)
LEMMA SignedOutSessions ==
  ASSUME TypeOK, SessionsCurrent, NEW u \in Accts, sessions' = SignedOut(u),
         \A v \in Accts : v # u => users'[v] = users[v]
  PROVE  sessions' \in [SessionIds -> Session \cup {None}] /\ SessionsCurrent'
<1>1. sessions' \in [SessionIds -> Session \cup {None}]
  BY DEF TypeOK, SignedOut
<1>2. \A s \in SessionIds : sessions'[s] # None =>
        sessions'[s] = sessions[s] /\ sessions[s].user # u
  BY DEF SignedOut, SessionsOf
<1> QED BY <1>1, <1>2 DEF SessionsCurrent, Active, TypeOK, Session

(* A row that was not there has no sessions. *)
LEMMA NewRowSessions ==
  ASSUME SessionsCurrent, NEW u \in Accts, users[u] = None, UNCHANGED sessions,
         \A v \in Accts : v # u => users'[v] = users[v]
  PROVE  SessionsCurrent'
BY DEF SessionsCurrent, Active

(* An account that was not there is no administrator's. *)
LEMMA NewRowRoles ==
  ASSUME AdminActive, NEW u \in Accts, users[u] = None, Admins # {}
  PROVE  (Admins \cap Active) \ {u} # {}
BY DEF AdminActive, Admins, Active

(* Nothing changes but sessions and handlers. *)
LEMMA SessionsInv ==
  ASSUME Inv, UNCHANGED <<users, invites, grants, members, origin>>,
         sessions' \in [SessionIds -> Session \cup {None}], SessionsCurrent',
         setupCode' \in BOOLEAN,
         proc' \in [Requests -> Handler \cup {None}],
         \A p \in Requests : proc'[p] # None /\ proc'[p].pc = "admin" => Admins # {}
  PROVE  Inv'
<1>1. Admins' = Admins /\ Active' = Active
  BY DEF Admins, Active
<1>2. TypeOK'
  BY DEF Inv, TypeOK
<1>3. Roles'
  BY <1>1 DEF Inv, Roles, AdminActive, SetupKept, RolesHeld
<1>4. InvitesKept' /\ OwnersInert' /\ GrantsExist'
  BY DEF Inv, InvitesKept, OwnersInert, GrantsExist
<1> QED BY <1>2, <1>3, <1>4 DEF Inv

(* Sessions go or run out. *)
LEMMA FewerSessions ==
  ASSUME TypeOK, SessionsCurrent, UNCHANGED users,
         sessions' \in [SessionIds -> Session \cup {None}],
         \A s \in SessionIds : sessions'[s] # None =>
           /\ sessions[s] # None /\ sessions'[s].user = sessions[s].user
           /\ sessions'[s].password = sessions[s].password
  PROVE  SessionsCurrent'
BY DEF SessionsCurrent, Active

LEMMA Finished ==
  ASSUME TypeOK, NEW p \in Requests, Finish(p)
  PROVE  /\ proc' \in [Requests -> Handler \cup {None}]
         /\ \A q \in Requests : proc'[q] # None => proc'[q] = proc[q]
BY DEF TypeOK, Finish

-----------------------------------------------------------------------------
(* The local commands and the process                                      *)

LEMMA InitInv == Init => Inv
<1> SUFFICES ASSUME Init PROVE Inv
  OBVIOUS
<1>1. TypeOK
  BY DEF Init, TypeOK
<1>2. Roles
  BY AccountAssumption DEF Init, Roles, AdminActive, SetupKept, RolesHeld, Admins
<1>3. SessionsCurrent /\ InvitesKept
  BY AccountAssumption DEF Init, SessionsCurrent, InvitesKept
<1>4. OwnersInert /\ GrantsExist
  BY DEF Init, OwnersInert, GrantsExist, Accts
<1> QED BY <1>1, <1>2, <1>3, <1>4 DEF Inv

LEMMA CreateUserInv ==
  ASSUME Inv, NEW u \in Names, NEW pw \in Passwords, CreateUser(u, pw)
  PROVE  Inv'
<1> DEFINE row == [admin |-> FALSE, disabled |-> FALSE, password |-> pw]
<1>1. /\ users[u] = None /\ users' = [users EXCEPT ![u] = row]
      /\ origin' = [origin EXCEPT ![u] = "command"]
      /\ UNCHANGED <<sessions, invites, grants, members, setupCode, proc>>
  BY DEF CreateUser, NewUser, inviteVars
<1>2. u \in Accts /\ u \notin Libraries /\ row \in User /\ ~row.admin
  BY AccountAssumption DEF Accts, User
<1>3. Admins # {} => (Admins \cap Active) \ {u} # {}
  BY <1>1, <1>2, NewRowRoles DEF Inv, Roles
<1> HIDE DEF row
<1>4. /\ users' \in [Accts -> User \cup {None}]
      /\ AdminActive' /\ (Admins # {} => Admins' # {})
      /\ users'[u] # None /\ \A v \in Accts : v # u => users'[v] = users[v]
      /\ \A l \in Libraries : users'[l] # None => users'[l].disabled /\ ~users'[l].admin
  BY <1>1, <1>2, <1>3, RowWritten
<1>5. TypeOK'
  BY <1>1, <1>4 DEF Inv, TypeOK
<1>6. Roles'
  BY <1>1, <1>4 DEF Inv, TypeOK, Roles, SetupKept, RolesHeld
<1>7. SessionsCurrent'
  BY <1>1, <1>2, <1>4, NewRowSessions DEF Inv
<1>8. InvitesKept'
  BY <1>1, AccountAssumption DEF Inv, TypeOK, InvitesKept
<1>9. OwnersInert' /\ GrantsExist'
  BY <1>1, <1>4 DEF Inv, TypeOK, OwnersInert, GrantsExist, Accts
<1> QED BY <1>5, <1>6, <1>7, <1>8, <1>9 DEF Inv

(* A command or a handler that changes a password. *)
LEMMA PasswordInv ==
  ASSUME Inv, NEW u \in Accts, NEW pw \in Passwords, users[u] # None,
         users' = [users EXCEPT ![u].password = pw], sessions' = SignedOut(u),
         UNCHANGED <<invites, grants, members, setupCode, origin>>,
         proc' \in [Requests -> Handler \cup {None}],
         \A q \in Requests : proc'[q] # None => proc'[q] = proc[q]
  PROVE  Inv'
<1> DEFINE row == [users[u] EXCEPT !.password = pw]
<1>1. users[u] # None /\ users' = [users EXCEPT ![u] = row]
  OBVIOUS
<1>2. users[u] \in User
  BY <1>1 DEF Inv, TypeOK
<1>3. row \in User /\ row.admin = users[u].admin /\ row.disabled = users[u].disabled
  BY <1>2 DEF User
<1>4. Admins # {} \/ row.admin =>
        (row.admin /\ ~row.disabled) \/ (Admins \cap Active) \ {u} # {}
  BY <1>1, <1>3 DEF Inv, Roles, AdminActive, Admins, Active
<1>5. u \in Libraries => row.disabled /\ ~row.admin
  BY <1>1, <1>3 DEF Inv, OwnersInert
<1> HIDE DEF row
<1>6. /\ users' \in [Accts -> User \cup {None}]
      /\ AdminActive' /\ (Admins # {} => Admins' # {})
      /\ users'[u] # None /\ \A v \in Accts : v # u => users'[v] = users[v]
      /\ \A l \in Libraries : users'[l] # None => users'[l].disabled /\ ~users'[l].admin
  BY <1>1, <1>3, <1>4, <1>5, RowWritten
<1>7. sessions' \in [SessionIds -> Session \cup {None}] /\ SessionsCurrent'
  BY <1>1, <1>6, SignedOutSessions DEF Inv
<1>8. TypeOK'
  BY <1>1, <1>6, <1>7 DEF Inv, TypeOK
<1>9. Roles'
  BY <1>6 DEF Inv, TypeOK, Roles, SetupKept, RolesHeld
<1>10. InvitesKept'
  BY DEF Inv, InvitesKept
<1>11. OwnersInert' /\ GrantsExist'
  BY <1>1, <1>6 DEF Inv, TypeOK, OwnersInert, GrantsExist, Accts
<1> QED BY <1>7, <1>8, <1>9, <1>10, <1>11 DEF Inv

LEMMA ResetPasswordInv ==
  ASSUME Inv, NEW u \in Accts, NEW pw \in Passwords, ResetPassword(u, pw)
  PROVE  Inv'
BY PasswordInv DEF ResetPassword, inviteVars, Inv, TypeOK

LEMMA PromoteInv ==
  ASSUME Inv, NEW u \in Accts, Promote(u)
  PROVE  Inv'
<1> DEFINE row == [users[u] EXCEPT !.admin = TRUE, !.disabled = FALSE]
<1>1. /\ users[u] # None /\ u \notin Libraries
      /\ users' = [users EXCEPT ![u].admin = TRUE, ![u].disabled = FALSE]
      /\ UNCHANGED <<sessions, invites, grants, members, setupCode, proc, origin>>
  BY DEF Promote, inviteVars
<1>2. users[u] \in User /\ users \in [Accts -> User \cup {None}]
  BY <1>1 DEF Inv, TypeOK
<1>3. users' = [users EXCEPT ![u] = row]
  BY <1>1, <1>2
<1>4. row \in User /\ row.admin /\ ~row.disabled /\ row.password = users[u].password
  BY <1>2 DEF User
<1> HIDE DEF row
<1>6. /\ users' \in [Accts -> User \cup {None}]
      /\ AdminActive' /\ (Admins # {} => Admins' # {})
      /\ users'[u] = row /\ row # None /\ \A v \in Accts : v # u => users'[v] = users[v]
      /\ \A l \in Libraries : users'[l] # None => users'[l].disabled /\ ~users'[l].admin
  BY <1>1, <1>3, <1>4, RowWritten
<1>7. SessionsCurrent'
  <2>1. Active \subseteq Active'
    BY <1>4, <1>6 DEF Active
  <2>2. \A v \in Active : users'[v].password = users[v].password
    BY <1>4, <1>6 DEF Active
  <2> QED BY <1>1, <2>1, <2>2 DEF Inv, SessionsCurrent
<1>8. TypeOK'
  BY <1>1, <1>6 DEF Inv, TypeOK
<1>9. Roles'
  BY <1>1, <1>6 DEF Inv, TypeOK, Roles, SetupKept, RolesHeld
<1>10. InvitesKept'
  BY <1>1 DEF Inv, InvitesKept
<1>11. OwnersInert' /\ GrantsExist'
  BY <1>1, <1>6 DEF Inv, TypeOK, OwnersInert, GrantsExist, Accts
<1> QED BY <1>7, <1>8, <1>9, <1>10, <1>11 DEF Inv

LEMMA RestartInv == Inv /\ Restart => Inv'
<1> SUFFICES ASSUME Inv, Restart PROVE Inv'
  OBVIOUS
<1>1. /\ UNCHANGED <<users, sessions, invites, grants, members, origin>>
      /\ setupCode' \in BOOLEAN /\ proc' = [p \in Requests |-> None]
  BY DEF Restart, NeedsSetup, inviteVars
<1> QED BY <1>1, SessionsInv DEF Inv, TypeOK, SessionsCurrent, Active

-----------------------------------------------------------------------------
(* Setup and registration                                                  *)

LEMMA SetupInv ==
  ASSUME Inv, NEW u \in Names, NEW pw \in Passwords, Setup(u, pw)
  PROVE  Inv'
<1> DEFINE row == [admin |-> TRUE, disabled |-> FALSE, password |-> pw]
<1>1. /\ users[u] = None /\ Admins = {} /\ users' = [users EXCEPT ![u] = row]
      /\ origin' = [origin EXCEPT ![u] = "setup"]
      /\ UNCHANGED <<sessions, invites, grants, members, setupCode, proc>>
  BY DEF Setup, NewUser, NeedsSetup, inviteVars
<1>2. u \in Accts /\ u \notin Libraries /\ row \in User /\ row.admin /\ ~row.disabled
  BY AccountAssumption DEF Accts, User
<1> HIDE DEF row
<1>3. /\ users' \in [Accts -> User \cup {None}]
      /\ AdminActive' /\ Admins' # {}
      /\ users'[u] # None /\ \A v \in Accts : v # u => users'[v] = users[v]
      /\ \A l \in Libraries : users'[l] # None => users'[l].disabled /\ ~users'[l].admin
  BY <1>1, <1>2, RowWritten
<1>4. TypeOK'
  BY <1>1, <1>3 DEF Inv, TypeOK
<1>5. Roles'
  <2>1. \A v \in Names : origin[v] # "setup"
    BY <1>1 DEF Inv, Roles, SetupKept
  <2>2. \A v \in Names : origin'[v] = "setup" => v = u
    BY <1>1, <2>1 DEF Inv, TypeOK
  <2> QED BY <1>3, <2>2 DEF Roles, SetupKept, RolesHeld
<1>6. SessionsCurrent'
  BY <1>1, <1>2, <1>3, NewRowSessions DEF Inv
<1>7. InvitesKept'
  BY <1>1, AccountAssumption DEF Inv, TypeOK, InvitesKept
<1>8. OwnersInert' /\ GrantsExist'
  BY <1>1, <1>3 DEF Inv, TypeOK, OwnersInert, GrantsExist, Accts
<1> QED BY <1>4, <1>5, <1>6, <1>7, <1>8 DEF Inv

LEMMA RegisterInv ==
  ASSUME Inv, NEW u \in Names, NEW pw \in Passwords, NEW i \in Invites, Register(u, pw, i)
  PROVE  Inv'
<1> DEFINE row == [admin |-> FALSE, disabled |-> FALSE, password |-> pw]
<1>1. /\ users[u] = None /\ users' = [users EXCEPT ![u] = row]
      /\ invites[i] # None /\ invites[i].redeemed_by = None /\ ~invites[i].revoked
      /\ invites' = [invites EXCEPT ![i].redeemed_by = u]
      /\ members' = members \cup {<<l, u>> : l \in {k \in Libraries : <<i, k>> \in grants}}
      /\ origin' = [origin EXCEPT ![u] = i]
      /\ UNCHANGED <<sessions, grants, setupCode, proc>>
  BY DEF Register, NewUser, Open
<1>2. u \in Accts /\ u \notin Libraries /\ row \in User /\ ~row.admin
  BY AccountAssumption DEF Accts, User
<1>3. Admins # {} => (Admins \cap Active) \ {u} # {}
  BY <1>1, <1>2, NewRowRoles DEF Inv, Roles
<1> HIDE DEF row
<1>4. /\ users' \in [Accts -> User \cup {None}]
      /\ AdminActive' /\ (Admins # {} => Admins' # {})
      /\ users'[u] # None /\ \A v \in Accts : v # u => users'[v] = users[v]
      /\ \A l \in Libraries : users'[l] # None => users'[l].disabled /\ ~users'[l].admin
  BY <1>1, <1>2, <1>3, RowWritten
<1>5. /\ invites' \in [Invites -> Invite \cup {None}]
      /\ invites'[i] # None /\ invites'[i].redeemed_by = u /\ ~invites'[i].revoked
      /\ \A j \in Invites : j # i => invites'[j] = invites[j]
  <2>1. invites \in [Invites -> Invite \cup {None}] /\ invites[i] \in Invite
    BY <1>1 DEF Inv, TypeOK
  <2>2. [invites[i] EXCEPT !.redeemed_by = u] \in Invite
    BY <2>1 DEF Invite
  <2>3. ~[invites[i] EXCEPT !.redeemed_by = u].revoked
        /\ [invites[i] EXCEPT !.redeemed_by = u].redeemed_by = u
    BY <1>1, <2>1 DEF Invite
  <2> QED BY <1>1, <2>1, <2>2, <2>3, AccountAssumption
<1>6. \A m \in members' : m \in members \/ \E l \in Libraries : m = <<l, u>> /\ <<i, l>> \in grants
  BY <1>1
<1>7. TypeOK'
  <2>1. ASSUME NEW m \in members' PROVE m \in Libraries \X Accts
    <3>1. CASE m \in members
      BY <3>1 DEF Inv, TypeOK
    <3>2. ASSUME NEW l \in Libraries, m = <<l, u>> PROVE m \in Libraries \X Accts
      BY <1>2, <3>2
    <3> QED BY <1>6, <3>1, <3>2
  <2> QED BY <1>1, <1>4, <1>5, <2>1 DEF Inv, TypeOK
<1>8. Roles'
  BY <1>1, <1>4, AccountAssumption DEF Inv, TypeOK, Roles, SetupKept, RolesHeld
<1>9. SessionsCurrent'
  BY <1>1, <1>2, <1>4, NewRowSessions DEF Inv
<1>10. InvitesKept'
  <2>1. \A v \in Names : v # u => origin[v] # i
    BY <1>1, AccountAssumption DEF Inv, InvitesKept
  <2>2. \A v \in Names : origin'[v] = IF v = u THEN i ELSE origin[v]
    BY <1>1 DEF Inv, TypeOK
  <2> QED BY <1>5, <2>1, <2>2 DEF Inv, InvitesKept
<1>11. OwnersInert'
  <2>1. \A l, k \in Libraries : <<k, l>> \notin members'
    BY <1>2, <1>6 DEF Inv, OwnersInert
  <2> QED BY <1>4, <2>1 DEF OwnersInert
<1>12. GrantsExist'
  <2>1. \A g \in grants : g[2] \in Accts /\ users[g[2]] # None
    BY DEF Inv, TypeOK, GrantsExist, Accts
  <2>2. \A v \in Accts : users[v] # None => users'[v] # None
    BY <1>1, <1>4
  <2>3. \A m \in members : m[1] \in Accts /\ m[2] \in Accts
    BY DEF Inv, TypeOK, Accts
  <2>4. ASSUME NEW m \in members' PROVE users'[m[1]] # None /\ users'[m[2]] # None
    <3>1. CASE m \in members
      BY <2>2, <2>3, <3>1 DEF Inv, GrantsExist
    <3>2. ASSUME NEW l \in Libraries, m = <<l, u>>, <<i, l>> \in grants
          PROVE  users'[m[1]] # None /\ users'[m[2]] # None
      <4>1. l \in Accts /\ users[l] # None
        BY <2>1, <3>2
      <4> QED BY <2>2, <3>2, <4>1, <1>4
    <3> QED BY <1>6, <3>1, <3>2
  <2> QED BY <1>1, <2>1, <2>2, <2>4 DEF GrantsExist
<1> QED BY <1>7, <1>8, <1>9, <1>10, <1>11, <1>12 DEF Inv

-----------------------------------------------------------------------------
(* Sessions                                                                *)

LEMMA ExpireInv == Inv /\ Expire => Inv'
<1>1. ASSUME Inv, NEW s \in SessionIds, sessions[s] # None,
             sessions' = [sessions EXCEPT ![s].expired = TRUE],
             UNCHANGED <<users, invites, grants, members, setupCode, proc, origin>>
      PROVE  Inv'
  <2>1. sessions[s] \in Session /\ sessions \in [SessionIds -> Session \cup {None}]
    BY <1>1 DEF Inv, TypeOK
  <2>2. [sessions[s] EXCEPT !.expired = TRUE] \in Session
        /\ [sessions[s] EXCEPT !.expired = TRUE].user = sessions[s].user
        /\ [sessions[s] EXCEPT !.expired = TRUE].password = sessions[s].password
    BY <2>1 DEF Session
  <2>3. sessions' \in [SessionIds -> Session \cup {None}]
        /\ \A t \in SessionIds : sessions'[t] # None =>
             /\ sessions[t] # None /\ sessions'[t].user = sessions[t].user
             /\ sessions'[t].password = sessions[t].password
    BY <1>1, <2>1, <2>2
  <2>4. SessionsCurrent'
    BY <1>1, <2>3, FewerSessions DEF Inv
  <2> QED BY <1>1, <2>3, <2>4, SessionsInv DEF Inv, TypeOK, Roles, RolesHeld
<1>2. ASSUME Inv, NEW i \in Invites, invites[i] # None,
             invites' = [invites EXCEPT ![i].expired = TRUE],
             UNCHANGED <<users, sessions, grants, members, setupCode, proc, origin>>
      PROVE  Inv'
  <2>1. invites[i] \in Invite /\ invites \in [Invites -> Invite \cup {None}]
    BY <1>2 DEF Inv, TypeOK
  <2>2. [invites[i] EXCEPT !.expired = TRUE] \in Invite
        /\ [invites[i] EXCEPT !.expired = TRUE].redeemed_by = invites[i].redeemed_by
        /\ [invites[i] EXCEPT !.expired = TRUE].revoked = invites[i].revoked
    BY <2>1 DEF Invite
  <2>3. invites' \in [Invites -> Invite \cup {None}]
        /\ \A j \in Invites : invites[j] # None =>
             /\ invites'[j] # None /\ invites'[j].redeemed_by = invites[j].redeemed_by
             /\ invites'[j].revoked = invites[j].revoked
    BY <1>2, <2>1, <2>2, AccountAssumption
  <2>4. TypeOK'
    BY <1>2, <2>3 DEF Inv, TypeOK
  <2>5. Roles' /\ SessionsCurrent' /\ OwnersInert' /\ GrantsExist'
    BY <1>2 DEF Inv, Roles, AdminActive, SetupKept, RolesHeld, SessionsCurrent,
                OwnersInert, GrantsExist, Admins, Active
  <2>6. InvitesKept'
    BY <1>2, <2>3 DEF Inv, InvitesKept
  <2> QED BY <2>4, <2>5, <2>6 DEF Inv
<1> QED BY <1>1, <1>2 DEF Expire, Open

(* Store.Login *)
LEMMA LoginSessions ==
  ASSUME TypeOK, SessionsCurrent, UNCHANGED users,
         NEW u \in Accts, NEW pw \in Passwords, NEW s \in SessionIds, LoginTx(u, pw, s)
  PROVE  sessions' \in [SessionIds -> Session \cup {None}] /\ SessionsCurrent'
<1> DEFINE new == [user |-> u, password |-> pw, expired |-> FALSE]
           live == [t \in SessionIds |-> IF sessions[t] # None /\ sessions[t].expired
                                         THEN None ELSE sessions[t]]
<1>1. u \in Active /\ users[u].password = pw /\ sessions' = [live EXCEPT ![s] = new]
  BY DEF LoginTx
<1>2. live \in [SessionIds -> Session \cup {None}]
  BY DEF TypeOK
<1>3. new \in Session /\ new.user = u /\ new.password = pw
  BY DEF Session
<1>4. \A t \in SessionIds : live[t] # None => live[t] = sessions[t]
  OBVIOUS
<1> HIDE DEF live, new
<1>5. sessions' \in [SessionIds -> Session \cup {None}]
  BY <1>1, <1>2, <1>3
<1>6. \A t \in SessionIds : sessions'[t] # None =>
        sessions'[t] = new \/ (sessions[t] # None /\ sessions'[t] = sessions[t])
  BY <1>1, <1>2, <1>4
<1> QED BY <1>1, <1>3, <1>5, <1>6 DEF SessionsCurrent, Active

LEMMA LoginInv ==
  ASSUME Inv, NEW u \in Accts, NEW pw \in Passwords, NEW s \in SessionIds,
         Login(u, pw, s)
  PROVE  Inv'
BY LoginSessions, SessionsInv DEF Login, inviteVars, Inv, TypeOK, Roles, RolesHeld

LEMMA BrowserLoginInv ==
  ASSUME Inv, NEW p \in Requests, NEW u \in Accts, NEW pw \in Passwords,
         NEW s \in SessionIds, NEW old \in SessionIds, BrowserLogin(p, u, pw, s, old)
  PROVE  Inv'
<1>1. /\ LoginTx(u, pw, s)
      /\ UNCHANGED <<users, invites, grants, members, setupCode, origin>>
      /\ proc' = [proc EXCEPT ![p] = [pc |-> "replace", user |-> None, old |-> old]]
  BY DEF BrowserLogin, inviteVars
<1>2. proc' \in [Requests -> Handler \cup {None}]
      /\ \A q \in Requests : proc'[q] # None /\ proc'[q].pc = "admin" => Admins # {}
  BY <1>1 DEF Inv, TypeOK, Handler, Roles, RolesHeld
<1>3. sessions' \in [SessionIds -> Session \cup {None}] /\ SessionsCurrent'
  BY <1>1, LoginSessions DEF Inv
<1> QED BY <1>1, <1>2, <1>3, SessionsInv DEF Inv, TypeOK

LEMMA ReplaceCookieInv ==
  ASSUME Inv, NEW p \in Requests, ReplaceCookie(p)
  PROVE  Inv'
<1>1. /\ UNCHANGED <<users, invites, grants, members, setupCode, origin>> /\ Finish(p)
      /\ \/ sessions' = [sessions EXCEPT ![proc[p].old] = None]
         \/ sessions' = sessions
  BY DEF ReplaceCookie, inviteVars
<1>2. sessions' \in [SessionIds -> Session \cup {None}]
      /\ \A s \in SessionIds : sessions'[s] # None => sessions'[s] = sessions[s]
  BY <1>1 DEF Inv, TypeOK
<1>3. SessionsCurrent'
  BY <1>1, <1>2, FewerSessions DEF Inv
<1> QED BY <1>1, <1>2, <1>3, Finished, SessionsInv DEF Inv, TypeOK, Roles, RolesHeld

LEMMA AuthorizeInv ==
  ASSUME Inv, NEW p \in Requests, NEW s \in SessionIds, Authorize(p, s)
  PROVE  Inv'
<1>1. /\ UNCHANGED <<users, sessions, invites, grants, members, setupCode, origin>>
      /\ sessions[s] # None
      /\ proc' = [proc EXCEPT ![p] = [pc |-> "authorized", user |-> sessions[s].user,
                                      old |-> None]]
  BY DEF Authorize, Accepted, inviteVars
<1>2. sessions[s].user \in Accts
  BY <1>1 DEF Inv, TypeOK, Session
<1>3. proc' \in [Requests -> Handler \cup {None}]
      /\ \A q \in Requests : proc'[q] # None /\ proc'[q].pc = "admin" => Admins # {}
  BY <1>1, <1>2 DEF Inv, TypeOK, Handler, Roles, RolesHeld
<1>4. SessionsCurrent'
  BY <1>1 DEF Inv, SessionsCurrent, Active
<1> QED BY <1>1, <1>3, <1>4, SessionsInv DEF Inv, TypeOK

LEMMA AdminCheckInv ==
  ASSUME Inv, NEW p \in Requests, AdminCheck(p)
  PROVE  Inv'
<1>1. /\ UNCHANGED <<users, sessions, invites, grants, members, setupCode, origin>>
      /\ proc[p] # None
      /\ proc' = [proc EXCEPT ![p] = IF proc[p].user \in Admins THEN [@ EXCEPT !.pc = "admin"]
                                     ELSE None]
  BY DEF AdminCheck, inviteVars
<1>2. proc[p] \in Handler /\ [proc[p] EXCEPT !.pc = "admin"] \in Handler
  BY <1>1 DEF Inv, TypeOK, Handler
<1>3. proc' \in [Requests -> Handler \cup {None}]
  BY <1>1, <1>2 DEF Inv, TypeOK
<1>4. \A q \in Requests : proc'[q] # None /\ proc'[q].pc = "admin" => Admins # {}
  <2>1. \A q \in Requests : q # p => proc'[q] = proc[q]
    BY <1>1 DEF Inv, TypeOK
  <2>2. proc'[p] # None => Admins # {}
    BY <1>1 DEF Inv, TypeOK
  <2> QED BY <2>1, <2>2 DEF Inv, Roles, RolesHeld
<1>5. SessionsCurrent'
  BY <1>1 DEF Inv, SessionsCurrent, Active
<1> QED BY <1>1, <1>3, <1>4, <1>5, SessionsInv DEF Inv, TypeOK

LEMMA GiveUpInv ==
  ASSUME Inv, NEW p \in Requests, GiveUp(p)
  PROVE  Inv'
<1>1. UNCHANGED <<users, sessions, invites, grants, members, setupCode, origin>> /\ Finish(p)
  BY DEF GiveUp, inviteVars
<1>2. SessionsCurrent'
  BY <1>1 DEF Inv, SessionsCurrent, Active
<1> QED BY <1>1, <1>2, Finished, SessionsInv DEF Inv, TypeOK, Roles, RolesHeld

LEMMA RevokeOwnInv ==
  ASSUME Inv, NEW p \in Requests, NEW s \in SessionIds, RevokeOwn(p, s)
  PROVE  Inv'
<1>1. /\ UNCHANGED <<users, invites, grants, members, setupCode, origin>> /\ Finish(p)
      /\ sessions' = [sessions EXCEPT ![s] = None]
  BY DEF RevokeOwn, inviteVars
<1>2. sessions' \in [SessionIds -> Session \cup {None}]
      /\ \A t \in SessionIds : sessions'[t] # None => sessions'[t] = sessions[t]
  BY <1>1 DEF Inv, TypeOK
<1>3. SessionsCurrent'
  BY <1>1, <1>2, FewerSessions DEF Inv
<1> QED BY <1>1, <1>2, <1>3, Finished, SessionsInv DEF Inv, TypeOK, Roles, RolesHeld

LEMMA ChangePasswordInv ==
  ASSUME Inv, NEW p \in Requests, NEW current \in Passwords, NEW pw \in Passwords,
         ChangePassword(p, current, pw)
  PROVE  Inv'
<1>1. /\ proc[p].user \in Accts /\ users[proc[p].user] # None
      /\ users' = [users EXCEPT ![proc[p].user].password = pw]
      /\ sessions' = SignedOut(proc[p].user) /\ Finish(p)
      /\ UNCHANGED <<invites, grants, members, setupCode, origin>>
  BY DEF ChangePassword, Active, inviteVars
<1> QED BY <1>1, Finished, PasswordInv DEF Inv

-----------------------------------------------------------------------------
(* Administrators                                                          *)

LEMMA SetUserInv ==
  ASSUME Inv, NEW p \in Requests, NEW u \in Accts, NEW admin \in BOOLEAN,
         NEW disabled \in BOOLEAN, SetUser(p, u, admin, disabled)
  PROVE  Inv'
<1> DEFINE row == [users[u] EXCEPT !.admin = admin, !.disabled = disabled]
<1>1. /\ users[u] # None /\ u \notin Libraries /\ AsAdmin(p)
      /\ users' = [users EXCEPT ![u].admin = admin, ![u].disabled = disabled]
      /\ u \in Admins /\ (~admin \/ disabled) => (Admins \cap Active) \ {u} # {}
      /\ sessions' = SignedOut(u) /\ Finish(p)
      /\ UNCHANGED <<invites, grants, members, setupCode, origin>>
  BY DEF SetUser, inviteVars
<1>2. users[u] \in User /\ users \in [Accts -> User \cup {None}]
  BY <1>1 DEF Inv, TypeOK
<1>3. users' = [users EXCEPT ![u] = row]
  BY <1>1, <1>2
<1>4. row \in User /\ row.admin = admin /\ row.disabled = disabled
  BY <1>2 DEF User
<1>5. Admins # {}
  BY <1>1 DEF Inv, Roles, RolesHeld, AsAdmin
<1>6. (row.admin /\ ~row.disabled) \/ (Admins \cap Active) \ {u} # {}
  <2>1. CASE u \in Admins
    BY <2>1, <1>1, <1>4
  <2>2. CASE u \notin Admins
    BY <2>2, <1>5 DEF Inv, Roles, AdminActive
  <2> QED BY <2>1, <2>2
<1> HIDE DEF row
<1>7. /\ users' \in [Accts -> User \cup {None}]
      /\ AdminActive' /\ (Admins # {} => Admins' # {})
      /\ users'[u] = row /\ row # None
      /\ \A v \in Accts : v # u => users'[v] = users[v]
      /\ \A l \in Libraries : users'[l] # None => users'[l].disabled /\ ~users'[l].admin
  BY <1>1, <1>3, <1>4, <1>6, RowWritten
<1>8. sessions' \in [SessionIds -> Session \cup {None}] /\ SessionsCurrent'
  BY <1>1, <1>7, SignedOutSessions DEF Inv
<1>9. TypeOK'
  BY <1>1, <1>7, <1>8, Finished DEF Inv, TypeOK
<1>10. Roles'
  BY <1>1, <1>5, <1>7 DEF Inv, Roles, SetupKept, RolesHeld
<1>11. InvitesKept'
  BY <1>1 DEF Inv, InvitesKept
<1>12. OwnersInert' /\ GrantsExist'
  BY <1>1, <1>7 DEF Inv, TypeOK, OwnersInert, GrantsExist, Accts
<1> QED BY <1>8, <1>9, <1>10, <1>11, <1>12 DEF Inv

LEMMA RevokeSessionsInv ==
  ASSUME Inv, NEW p \in Requests, NEW u \in Accts, RevokeSessions(p, u)
  PROVE  Inv'
<1>1. /\ UNCHANGED <<users, invites, grants, members, setupCode, origin>> /\ Finish(p)
      /\ sessions' = SignedOut(u)
  BY DEF RevokeSessions, inviteVars
<1>2. sessions' \in [SessionIds -> Session \cup {None}] /\ SessionsCurrent'
  BY <1>1, SignedOutSessions DEF Inv
<1> QED BY <1>1, <1>2, Finished, SessionsInv DEF Inv, TypeOK, Roles, RolesHeld

(* Nothing changes but invitations, grants, members and handlers. *)
LEMMA TablesInv ==
  ASSUME Inv, UNCHANGED <<users, sessions, setupCode, origin>>,
         NEW p \in Requests, Finish(p),
         invites' \in [Invites -> Invite \cup {None}], InvitesKept',
         grants' \subseteq Invites \X Libraries, members' \subseteq Libraries \X Accts,
         \A g \in grants' : g \in grants \/ users[g[2]] # None,
         \A m \in members' : \/ m \in members
                             \/ /\ users[m[1]] # None /\ users[m[2]] # None
                                /\ m[2] \notin Libraries
  PROVE  Inv'
<1>1. TypeOK'
  BY Finished DEF Inv, TypeOK
<1>2. Admins' = Admins /\ Active' = Active
  BY DEF Admins, Active
<1>3. Roles' /\ SessionsCurrent'
  BY <1>2, Finished DEF Inv, Roles, AdminActive, SetupKept, RolesHeld,
                        SessionsCurrent
<1>4. OwnersInert' /\ GrantsExist'
  BY DEF Inv, OwnersInert, GrantsExist
<1> QED BY <1>1, <1>3, <1>4 DEF Inv

LEMMA CreateInviteInv ==
  ASSUME Inv, NEW p \in Requests, NEW i \in Invites, CreateInvite(p, i)
  PROVE  Inv'
<1>1. /\ invites[i] = None /\ Finish(p)
      /\ invites' = [invites EXCEPT ![i] = [redeemed_by |-> None, revoked |-> FALSE,
                                            expired |-> FALSE]]
      /\ UNCHANGED <<users, sessions, grants, members, setupCode, origin>>
  BY DEF CreateInvite
<1>2. invites' \in [Invites -> Invite \cup {None}] /\ InvitesKept'
  BY <1>1 DEF Inv, TypeOK, Invite, InvitesKept
<1> QED BY <1>1, <1>2, TablesInv DEF Inv, TypeOK

LEMMA RevokeInviteInv ==
  ASSUME Inv, NEW p \in Requests, NEW i \in Invites, RevokeInvite(p, i)
  PROVE  Inv'
<1>1. /\ Finish(p) /\ UNCHANGED <<users, sessions, grants, members, setupCode, origin>>
      /\ invites' = IF Open(i) THEN [invites EXCEPT ![i].revoked = TRUE] ELSE invites
  BY DEF RevokeInvite
<1>2. invites' \in [Invites -> Invite \cup {None}]
      /\ \A j \in Invites : invites'[j] = invites[j] \/ (j = i /\ Open(i))
  <2>1. ASSUME Open(i) PROVE [invites[i] EXCEPT !.revoked = TRUE] \in Invite
    BY <2>1 DEF Inv, TypeOK, Open, Invite
  <2> QED BY <1>1, <2>1 DEF Inv, TypeOK
<1>3. InvitesKept'
  <2>1. ASSUME Open(i) PROVE \A u \in Names : origin[u] # i
    BY <2>1, AccountAssumption DEF Inv, InvitesKept, Open
  <2> QED BY <1>1, <1>2, <2>1 DEF Inv, InvitesKept
<1> QED BY <1>1, <1>2, <1>3, TablesInv DEF Inv, TypeOK

LEMMA GrantInviteInv ==
  ASSUME Inv, NEW p \in Requests, NEW i \in Invites, NEW l \in Libraries,
         GrantInvite(p, i, l)
  PROVE  Inv'
<1>1. /\ Finish(p) /\ UNCHANGED <<users, sessions, invites, members, setupCode, origin>>
      /\ users[l] # None /\ grants' \subseteq grants \cup {<<i, l>>}
  BY DEF GrantInvite
<1>2. InvitesKept'
  BY <1>1 DEF Inv, InvitesKept
<1> QED BY <1>1, <1>2, TablesInv DEF Inv, TypeOK

LEMMA AddMemberInv ==
  ASSUME Inv, NEW p \in Requests, NEW l \in Libraries, NEW u \in Accts,
         AddMember(p, l, u)
  PROVE  Inv'
<1>1. /\ Finish(p) /\ UNCHANGED <<users, sessions, invites, grants, setupCode, origin>>
      /\ users[l] # None
      /\ \/ members' = members \cup {<<l, u>>} /\ users[u] # None /\ u \notin Libraries
         \/ members' = members
  BY DEF AddMember, inviteVars
<1>2. InvitesKept'
  BY <1>1 DEF Inv, InvitesKept
<1> QED BY <1>1, <1>2, TablesInv DEF Inv, TypeOK

LEMMA DropMemberInv ==
  ASSUME Inv, NEW p \in Requests, NEW l \in Libraries, NEW u \in Accts,
         DropMember(p, l, u)
  PROVE  Inv'
<1>1. /\ Finish(p) /\ UNCHANGED <<users, sessions, invites, grants, setupCode, origin>>
      /\ members' \subseteq members
  BY DEF DropMember, inviteVars
<1>2. InvitesKept'
  BY <1>1 DEF Inv, InvitesKept
<1> QED BY <1>1, <1>2, TablesInv DEF Inv, TypeOK

LEMMA CreateLibraryInv ==
  ASSUME Inv, NEW p \in Requests, NEW l \in Libraries, CreateLibrary(p, l)
  PROVE  Inv'
<1> DEFINE row == [admin |-> FALSE, disabled |-> TRUE, password |-> None]
<1>1. /\ users[l] = None /\ users' = [users EXCEPT ![l] = row] /\ Finish(p)
      /\ UNCHANGED <<sessions, invites, grants, members, setupCode, origin>>
  BY DEF CreateLibrary, inviteVars
<1>2. l \in Accts /\ row \in User /\ ~row.admin /\ row.disabled
  BY DEF Accts, User
<1>3. Admins # {} => (Admins \cap Active) \ {l} # {}
  BY <1>1, <1>2, NewRowRoles DEF Inv, Roles
<1> HIDE DEF row
<1>4. /\ users' \in [Accts -> User \cup {None}]
      /\ AdminActive' /\ (Admins # {} => Admins' # {})
      /\ users'[l] # None /\ \A v \in Accts : v # l => users'[v] = users[v]
      /\ \A k \in Libraries : users'[k] # None => users'[k].disabled /\ ~users'[k].admin
  BY <1>1, <1>2, <1>3, RowWritten
<1>5. TypeOK'
  BY <1>1, <1>4, Finished DEF Inv, TypeOK
<1>6. Roles'
  BY <1>1, <1>4, Finished DEF Inv, Roles, SetupKept, RolesHeld
<1>7. SessionsCurrent'
  BY <1>1, <1>2, <1>4, NewRowSessions DEF Inv
<1>8. InvitesKept'
  BY <1>1 DEF Inv, InvitesKept
<1>9. OwnersInert' /\ GrantsExist'
  BY <1>1, <1>4 DEF Inv, TypeOK, OwnersInert, GrantsExist, Accts
<1> QED BY <1>5, <1>6, <1>7, <1>8, <1>9 DEF Inv

LEMMA DeleteLibraryInv ==
  ASSUME Inv, NEW p \in Requests, NEW l \in Libraries, DeleteLibrary(p, l)
  PROVE  Inv'
<1>1. /\ users[l] # None /\ users' = [users EXCEPT ![l] = None]
      /\ sessions' = SignedOut(l)
      /\ grants' = {g \in grants : g[2] # l}
      /\ members' = {m \in members : m[1] # l}
      /\ Finish(p) /\ UNCHANGED <<invites, setupCode, origin>>
  BY DEF DeleteLibrary
<1>2. l \in Accts /\ l \notin Admins
  BY <1>1 DEF Accts, Inv, OwnersInert, Admins
<1>3. /\ users' \in [Accts -> User \cup {None}] /\ users'[l] = None
      /\ \A v \in Accts : v # l => users'[v] = users[v]
  BY <1>1, <1>2 DEF Inv, TypeOK
<1>4. Admins' = Admins /\ Active' = Active \ {l}
  BY <1>2, <1>3 DEF Admins, Active
<1>5. sessions' \in [SessionIds -> Session \cup {None}] /\ SessionsCurrent'
  BY <1>1, <1>2, <1>3, SignedOutSessions DEF Inv
<1>6. TypeOK'
  BY <1>1, <1>3, <1>5, Finished DEF Inv, TypeOK
<1>7. Roles'
  BY <1>1, <1>2, <1>4, Finished DEF Inv, Roles, AdminActive, SetupKept, RolesHeld
<1>8. InvitesKept'
  BY <1>1 DEF Inv, InvitesKept
<1>9. OwnersInert'
  BY <1>1, <1>3 DEF Inv, OwnersInert, Accts
<1>10. \A m \in members : m = <<m[1], m[2]>> /\ m[1] \in Libraries /\ m[2] \in Accts
  BY DEF Inv, TypeOK
<1>11. \A m \in members : m[2] # l
  BY <1>10 DEF Inv, OwnersInert
<1>12. GrantsExist'
  <2>1. \A g \in grants' : users'[g[2]] # None
    BY <1>1, <1>3 DEF Inv, TypeOK, GrantsExist, Accts
  <2>2. \A m \in members' : users'[m[1]] # None /\ users'[m[2]] # None
    BY <1>1, <1>3, <1>10, <1>11 DEF Inv, GrantsExist, Accts
  <2> QED BY <2>1, <2>2 DEF GrantsExist
<1> QED BY <1>5, <1>6, <1>7, <1>8, <1>9, <1>12 DEF Inv

-----------------------------------------------------------------------------

LEMMA NextInv == Inv /\ [Next]_vars => Inv'
<1> SUFFICES ASSUME Inv, [Next]_vars PROVE Inv'
  OBVIOUS
<1>1. ASSUME NEW u \in Names, NEW pw \in Passwords,
             \/ CreateUser(u, pw) \/ Setup(u, pw)
             \/ \E i \in Invites : Register(u, pw, i)
      PROVE  Inv'
  BY <1>1, CreateUserInv, SetupInv, RegisterInv
<1>2. ASSUME NEW u \in Accts,
             \/ Promote(u) \/ \E pw \in Passwords : ResetPassword(u, pw)
             \/ Restart \/ Expire
      PROVE  Inv'
  BY <1>2, PromoteInv, ResetPasswordInv, RestartInv, ExpireInv
<1>3. ASSUME Restart \/ Expire PROVE Inv'
  BY <1>3, RestartInv, ExpireInv
<1>4. ASSUME NEW u \in Accts, NEW pw \in Passwords, NEW s \in SessionIds,
             \/ Login(u, pw, s)
             \/ \E p \in Requests, old \in SessionIds : BrowserLogin(p, u, pw, s, old)
      PROVE  Inv'
  BY <1>4, LoginInv, BrowserLoginInv
<1>5. ASSUME NEW p \in Requests,
             \/ ReplaceCookie(p) \/ AdminCheck(p) \/ GiveUp(p)
             \/ \E s \in SessionIds : Authorize(p, s) \/ RevokeOwn(p, s)
             \/ \E current, pw \in Passwords : ChangePassword(p, current, pw)
      PROVE  Inv'
  BY <1>5, ReplaceCookieInv, AdminCheckInv, GiveUpInv, AuthorizeInv, RevokeOwnInv,
     ChangePasswordInv
<1>6. ASSUME NEW p \in Requests, NEW u \in Accts,
             \/ RevokeSessions(p, u)
             \/ \E admin, disabled \in BOOLEAN : SetUser(p, u, admin, disabled)
      PROVE  Inv'
  BY <1>6, RevokeSessionsInv, SetUserInv
<1>7. ASSUME NEW p \in Requests, NEW i \in Invites,
             \/ CreateInvite(p, i) \/ RevokeInvite(p, i)
             \/ \E l \in Libraries : GrantInvite(p, i, l)
      PROVE  Inv'
  BY <1>7, CreateInviteInv, RevokeInviteInv, GrantInviteInv
<1>8. ASSUME NEW p \in Requests, NEW l \in Libraries,
             \/ CreateLibrary(p, l) \/ DeleteLibrary(p, l)
             \/ \E u \in Accts : AddMember(p, l, u) \/ DropMember(p, l, u)
      PROVE  Inv'
  BY <1>8, CreateLibraryInv, DeleteLibraryInv, AddMemberInv, DropMemberInv
<1>9. CASE UNCHANGED vars
  <2>1. SessionsCurrent'
    BY <1>9 DEF vars, Inv, SessionsCurrent, Active
  <2> QED BY <1>9, <2>1, SessionsInv DEF vars, Inv, TypeOK, Roles, RolesHeld
<1> QED BY <1>1, <1>2, <1>3, <1>4, <1>5, <1>6, <1>7, <1>8, <1>9 DEF Next

-----------------------------------------------------------------------------

(* The invariant that the theorems follow from. *)
THEOREM AccountsInvariant == Spec => []Inv
<1>1. Init => Inv
  BY InitInv
<1>2. Inv /\ [Next]_vars => Inv'
  BY NextInv
<1> QED BY <1>1, <1>2, PTL DEF Spec

(* Administrators a step does not concern stay administrators. *)
LEMMA OthersStay ==
  ASSUME Inv, NEW u \in Accts, NEW a \in Admins, NEW row,
         users' = [users EXCEPT ![u] = row], u # a \/ (row # None /\ row.admin)
  PROVE  a \in Admins'
<1>1. a \in Accts /\ users'[a] = IF a = u THEN row ELSE users[a]
  BY DEF Inv, TypeOK, Admins
<1> QED BY <1>1 DEF Admins

(* No step takes the role from the last account that has it. *)
LEMMA AdminsRemain ==
  ASSUME Inv, Next, Admins # {}
  PROVE  Admins' # {}
<1> PICK a \in Admins : TRUE
  OBVIOUS
<1>1. a \in Accts /\ users[a] # None /\ users[a].admin
  BY DEF Admins
<1>2. CASE users' = users
  BY <1>2 DEF Admins
<1>3. ASSUME NEW u \in Accts, NEW row, users[u] = None, users' = [users EXCEPT ![u] = row]
      PROVE  Admins' # {}
  BY <1>1, <1>3, OthersStay
<1>4. ASSUME NEW u \in Names, NEW pw \in Passwords,
             \/ CreateUser(u, pw) \/ Setup(u, pw)
             \/ \E i \in Invites : Register(u, pw, i)
      PROVE  Admins' # {}
  BY <1>3, <1>4 DEF CreateUser, Setup, Register, NewUser, Accts
<1>5. ASSUME NEW u \in Accts, NEW pw \in Passwords, users[u] # None,
             users' = [users EXCEPT ![u].password = pw]
      PROVE  Admins' # {}
  <2>1. users[u] \in User
    BY <1>5 DEF Inv, TypeOK
  <2>2. users' = [users EXCEPT ![u] = [users[u] EXCEPT !.password = pw]]
    BY <1>5
  <2>3. [users[u] EXCEPT !.password = pw] \in User
        /\ [users[u] EXCEPT !.password = pw].admin = users[u].admin
    BY <2>1 DEF User
  <2> QED BY <2>2, <2>3, <1>1, OthersStay, AccountAssumption
<1>6. ASSUME NEW u \in Accts, Promote(u) PROVE Admins' # {}
  <2> DEFINE row == [users[u] EXCEPT !.admin = TRUE, !.disabled = FALSE]
  <2>1. users[u] \in User /\ users' = [users EXCEPT ![u] = row]
    BY <1>6 DEF Promote, Inv, TypeOK
  <2>2. row \in User /\ row.admin
    BY <2>1 DEF User
  <2> HIDE DEF row
  <2> QED BY <2>1, <2>2, OthersStay, AccountAssumption
<1>7. ASSUME NEW p \in Requests, NEW u \in Accts,
             NEW admin \in BOOLEAN, NEW disabled \in BOOLEAN, SetUser(p, u, admin, disabled)
      PROVE  Admins' # {}
  <2> DEFINE row == [users[u] EXCEPT !.admin = admin, !.disabled = disabled]
  <2>1. users[u] \in User /\ users' = [users EXCEPT ![u] = row]
        /\ (u \in Admins /\ (~admin \/ disabled) => (Admins \cap Active) \ {u} # {})
    BY <1>7 DEF SetUser, Inv, TypeOK
  <2>2. row \in User /\ row.admin = admin
    BY <2>1 DEF User
  <2> HIDE DEF row
  <2>3. CASE admin \/ a # u
    BY <2>1, <2>2, <2>3, OthersStay, AccountAssumption
  <2>4. CASE ~admin /\ a = u
    <3>1. PICK b \in Admins : b # u
      BY <2>1, <2>4
    <3> QED BY <2>1, <3>1, OthersStay
  <2> QED BY <2>3, <2>4
<1>8. ASSUME NEW p \in Requests, NEW l \in Libraries, DeleteLibrary(p, l)
      PROVE  Admins' # {}
  <2>1. l \in Accts /\ l # a /\ users' = [users EXCEPT ![l] = None]
    BY <1>1, <1>8 DEF DeleteLibrary, Inv, OwnersInert, Accts
  <2> QED BY <2>1, OthersStay
<1>9. ASSUME NEW p \in Requests, NEW l \in Libraries, CreateLibrary(p, l)
      PROVE  Admins' # {}
  BY <1>3, <1>9 DEF CreateLibrary, Accts
<1>10. ASSUME NEW u \in Accts, NEW pw \in Passwords, ResetPassword(u, pw)
       PROVE  Admins' # {}
  BY <1>5, <1>10 DEF ResetPassword
<1>11. ASSUME NEW p \in Requests, NEW current \in Passwords, NEW pw \in Passwords,
              ChangePassword(p, current, pw)
       PROVE  Admins' # {}
  BY <1>5, <1>11 DEF ChangePassword, Active
<1>12. Restart \/ Expire => users' = users
  BY DEF Restart, Expire
<1>13. ASSUME NEW u \in Accts, NEW pw \in Passwords, NEW s \in SessionIds,
              \/ Login(u, pw, s)
              \/ \E p \in Requests, old \in SessionIds : BrowserLogin(p, u, pw, s, old)
       PROVE  users' = users
  BY <1>13 DEF Login, BrowserLogin
<1>14. ASSUME NEW p \in Requests,
              \/ ReplaceCookie(p) \/ AdminCheck(p) \/ GiveUp(p)
              \/ \E s \in SessionIds : Authorize(p, s) \/ RevokeOwn(p, s)
              \/ \E u \in Accts : RevokeSessions(p, u)
              \/ \E i \in Invites : \/ CreateInvite(p, i) \/ RevokeInvite(p, i)
                                    \/ \E l \in Libraries : GrantInvite(p, i, l)
              \/ \E l \in Libraries, u \in Accts : AddMember(p, l, u) \/ DropMember(p, l, u)
       PROVE  users' = users
  BY <1>14 DEF ReplaceCookie, AdminCheck, GiveUp, Authorize, RevokeOwn, RevokeSessions,
               CreateInvite, RevokeInvite, GrantInvite, AddMember, DropMember
<1> QED BY <1>2, <1>4, <1>6, <1>7, <1>8, <1>9, <1>10, <1>11, <1>12, <1>13, <1>14 DEF Next

(* A server that has been set up, or has been given an administrator by    *)
(* the command promote, keeps an active one, whatever administrators do to *)
(* each other's accounts at the same time (PUT /v1/admin/users/{id} counts *)
(* the others first).                                                      *)
THEOREM AlwaysAdministered == Spec => SomebodyAdministers
<1>1. Inv /\ Inv' /\ [Next]_vars =>
        [Admins \cup Admins' # {} => (Admins \cap Active)' # {}]_users
  <2> SUFFICES ASSUME Inv, Inv', Next, Admins \cup Admins' # {}
               PROVE  (Admins \cap Active)' # {}
    BY DEF vars
  <2>1. Admins' # {}
    BY AdminsRemain
  <2> QED BY <2>1 DEF Inv, Roles, AdminActive
<1> QED BY <1>1, AccountsInvariant, PTL DEF Spec, SomebodyAdministers

(* The same read from one state on: once there is an administrator, there  *)
(* is an active one for ever.                                              *)
THEOREM AdministeredForEver ==
  Spec => [](Admins # {} => [](Admins \cap Active # {}))
<1>1. Inv /\ [Next]_vars => (Admins # {} => (Admins # {})')
  <2>1. UNCHANGED vars => Admins' = Admins
    BY DEF vars, Admins
  <2> QED BY <2>1, AdminsRemain
<1>2. Inv => (Admins # {} => Admins \cap Active # {})
  BY DEF Inv, Roles, AdminActive
<1> QED BY <1>1, <1>2, AccountsInvariant, PTL DEF Spec

(* Setup makes at most one account, although its code is never withdrawn   *)
(* from a running process (Store.register looks for administrators).          *)
THEOREM SetupSucceedsOnce == Spec => []SetupOnce
<1>1. Inv => SetupOnce
  <2> SUFFICES ASSUME Inv PROVE SetupOnce
    OBVIOUS
  <2> DEFINE S == {u \in Names : origin[u] = "setup"}
  <2>1. \A u, v \in S : u = v
    BY DEF Inv, Roles, SetupKept
  <2>2. CASE S = {}
    <3>1. Cardinality(S) = 0
      BY <2>2, FS_EmptySet
    <3> QED BY <3>1 DEF SetupOnce
  <2>3. CASE S # {}
    <3>1. PICK u \in S : TRUE
      BY <2>3
    <3>2. S = {u}
      BY <2>1, <3>1
    <3>3. Cardinality(S) = 1
      BY <3>2, FS_Singleton
    <3> QED BY <3>3 DEF SetupOnce
  <2> QED BY <2>2, <2>3
<1> QED BY <1>1, AccountsInvariant, PTL

(* No session outlives its password or its account's being enabled, also   *)
(* not one whose sign-in was under way when they changed (Store.Login and  *)
(* the transactions that delete sessions).                                 *)
THEOREM SessionsEndInTime == Spec => []SessionsCurrent
<1>1. Inv => SessionsCurrent
  BY DEF Inv
<1> QED BY <1>1, AccountsInvariant, PTL

(* An invitation makes at most one account and a revoked one none          *)
(* (Store.register and the revocation look at the row they change).     *)
THEOREM InvitesMakeOneAccount == Spec => []InvitesSingleUse
<1>1. Inv => InvitesSingleUse
  BY DEF Inv, InvitesKept, InvitesSingleUse
<1> QED BY <1>1, AccountsInvariant, PTL

(* Nobody signs in to, promotes or adds the account that owns a library.   *)
THEOREM LibrariesAreSafe == Spec => []OwnersInert
<1>1. Inv => OwnersInert
  BY DEF Inv
<1> QED BY <1>1, AccountsInvariant, PTL

(* What an invitation grants and a membership shares exists: deleting a    *)
(* library or an account takes both with it, whatever handler has read     *)
(* them before.                                                            *)
THEOREM GrantsNameLibraries == Spec => []GrantsExist
<1>1. Inv => GrantsExist
  BY DEF Inv
<1> QED BY <1>1, AccountsInvariant, PTL
=============================================================================
