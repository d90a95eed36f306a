----------------------------- MODULE MCTracking -----------------------------
(***************************************************************************)
(* Two books of a series, the second a volume; two entries and accounts at *)
(* the service; positions within and beyond the limit.                     *)
(***************************************************************************)
EXTENDS Tracking, TLC

CONSTANTS One, Two

MCOrder == One :> 1 @@ Two :> 2
MCVolumeOf == One :> 0 @@ Two :> 1
Begun == [step |-> 1, chapter |-> 1]
Finished == [step |-> 2, chapter |-> 3]
MCPlaces == {Begun, Finished}
MCStart == One :> None @@ Two :> Begun
MCChoices == {[volume |-> 0, auto |-> TRUE, complete |-> TRUE]}
MCEdits == {[f \in {"chapter"} |-> 2], [f \in {"state"} |-> "paused"]}
=============================================================================
