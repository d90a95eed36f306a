---------------------------- MODULE MCDeviceSync ----------------------------
(***************************************************************************)
(* Two devices edit the same note while messages are lost or late: one     *)
(* edit each on the note, and one more by the first device.                *)
(***************************************************************************)
EXTENDS DeviceSync

CONSTANTS Phone, Desk, Note, p1, p2, d1

At(id, key) == [id |-> id, key |-> key, deleted |-> FALSE,
                value |-> Blank(CHOOSE b \in Bodies : TRUE)]

MCPlans == Phone :> <<At(p1, Note), At(p2, Note)>> @@ Desk :> <<At(d1, Note)>>
=============================================================================
