-------------------------- MODULE MCAccountSettings --------------------------
(***************************************************************************)
(* Two devices and three writes to any of the documents: setting and       *)
(* clearing a passcode, a folder that comes and goes, and a source that    *)
(* moves within its origin, to another one, or is deleted.                 *)
(***************************************************************************)
EXTENDS AccountSettings, TLC

CONSTANTS Phone, Desk, Code, Book, Home, HomePage, Away

MCOrigin == Home :> "home" @@ HomePage :> "home" @@ Away :> "away"

MCWanted ==
  [r \in Documents |->
     CASE r = "privacy" -> {[credential |-> None, books |-> {}],
                            [credential |-> None, books |-> {Book}],
                            [credential |-> Code, books |-> {Book}]}
       [] r = "folders" -> [library : SUBSET Paths, hidden : {{}}]
       [] OTHER -> [url : {Home, HomePage, Away}, deleted : {FALSE}]
                     \cup {[url |-> Home, deleted |-> TRUE]}]

Symmetry == Permutations(Devices) \cup Permutations(OpIds)
              \cup Permutations(Sources)
=============================================================================
