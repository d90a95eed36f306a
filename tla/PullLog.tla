------------------------------ MODULE PullLog ------------------------------
(***************************************************************************)
(* What an account's change log promises its readers, whatever the server  *)
(* keeps behind it: entries are published at the end and never change, and *)
(* every reader takes them in order, without gaps or repeats, and catches  *)
(* up with whatever has been published.                                    *)
(***************************************************************************)
EXTENDS Naturals, Sequences

CONSTANT Readers

VARIABLES log,   \* everything published so far
          got    \* for each reader, what it has taken

vars == <<log, got>>

Init == log = <<>> /\ got = [r \in Readers |-> <<>>]

Publish ==
  /\ Len(log') > Len(log)
  /\ SubSeq(log', 1, Len(log)) = log
  /\ UNCHANGED got

Take(r) ==
  /\ \E n \in Len(got[r]) + 1 .. Len(log) :
       got' = [got EXCEPT ![r] = SubSeq(log, 1, n)]
  /\ UNCHANGED log

Next == Publish \/ \E r \in Readers : Take(r)

Spec == Init /\ [][Next]_vars /\ \A r \in Readers : WF_vars(Take(r))
=============================================================================
