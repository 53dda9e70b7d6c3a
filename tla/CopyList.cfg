SPECIFICATION Spec
CONSTANTS
  c = c
  home = home
  music = music
  s1 = s1
  s2 = s2
  file = file
  Entries = {c, home, music, s1, s2, file}
  Dirs = {c, home, music}
  Mp3 = {s1, s2}
  Root = c
  Parent <- MCParent
  Key <- MCKey
  MusicPath <- MCMusicPath
  WarnAt = 1
  MaxChanges = 1
  MaxClicks = 2
INVARIANTS TypeOK FilesOnce AllAdded LongListAsked TreeIsAhead StartFindsMusic
CHECK_DEADLOCK FALSE
