--------------------------- MODULE MCDeviceFiles ---------------------------
(* Values of the constants of DeviceFiles for TLC.                         *)
EXTENDS DeviceFiles, TLC

\* all requests succeed; one fails; no object for the properties can be had
MCFailing == {{}, {"album"}, Fields}

\* callers, and names, are alike
Symmetry == Permutations(Callers) \cup Permutations(Names)
=============================================================================
