---------------------------- MODULE MCCopyList -----------------------------
(* Values of the constants of CopyList for TLC.                            *)
EXTENDS CopyList, TLC

CONSTANTS c, home, music, s1, s2, file

\* c:\home\s1.mp3, c:\home\music and c:\home\music\s2.mp3; or a file c:\home\Music
MCParent ==
  (home :> c) @@ (s1 :> home) @@ (music :> home) @@ (s2 :> music)
    @@ (file :> home)

MCKey == [e \in Entries |-> IF e = file THEN music ELSE e]

MCMusicPath == <<c, home, music>>
=============================================================================
