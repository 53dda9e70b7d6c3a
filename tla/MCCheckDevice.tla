--------------------------- MODULE MCCheckDevice ---------------------------
(* Values of the constants of CheckDevice for TLC.                         *)
EXTENDS CheckDevice, TLC

CONSTANTS d1, d2, d3

\* two players of one product and one of another
MCModel == (d1 :> "zen") @@ (d2 :> "zen") @@ (d3 :> "sansa")

\* the second port of the first controller holds an external hub
MCHubs == {<<0, 2>>}
=============================================================================
