---------------------------- MODULE MCMtpDevice ----------------------------
(* MtpDevice with two callers, a folder name in two spellings and a file.  *)
EXTENDS MtpDevice

MCNames == {"m", "M", "f"}

MCLower == [n \in MCNames |-> IF n = "M" THEN "m" ELSE n]

MCPaths == {<<"f">>, <<"m">>, <<"m", "f">>, <<"M", "f">>}
=============================================================================
