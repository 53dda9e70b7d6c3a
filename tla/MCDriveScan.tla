---------------------------- MODULE MCDriveScan ----------------------------
(* Values of the constants of DriveScan for TLC.                           *)
EXTENDS DriveScan, TLC

CONSTANTS v1, v2, v3, v4, d1, d2, d3

\* a card reader with two slots, a player, and a stick without a serial number
MCDisk == (v1 :> d1) @@ (v2 :> d1) @@ (v3 :> d2) @@ (v4 :> d3)

\* the second CD drive has the number of a disk
MCOthers == {<<3, 1>>}
=============================================================================
