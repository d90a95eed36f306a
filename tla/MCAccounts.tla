----------------------------- MODULE MCAccounts -----------------------------
(***************************************************************************)
(* One configuration looks at roles, passwords and sessions: two people    *)
(* and two requests at a time.  The other looks at invitations and         *)
(* libraries: an administrator and two people to invite, and one request   *)
(* at a time beside sign-ins, registrations and commands, for what these   *)
(* transactions change they also check; only the role is checked earlier.  *)
(***************************************************************************)
EXTENDS Accounts, TLC

Symmetry == Permutations(Names) \cup Permutations(Requests)
              \cup Permutations(SessionIds) \cup Permutations(Passwords)
=============================================================================
