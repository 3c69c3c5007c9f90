----------------------------- MODULE MCDataSave -----------------------------
(* An instance of DataSave: two users in two groups; the second group and    *)
(* its user may be added while the program runs.                             *)
EXTENDS DataSave, TLC

CONSTANTS u1, u2

TwoUsers == {u1, u2}
GroupPerUser == u1 :> 1 @@ u2 :> 2
FirstGroup == <<1>>
OneCrossing == {<<u1, 1>>}
=============================================================================
