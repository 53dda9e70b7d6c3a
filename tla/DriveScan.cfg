SPECIFICATION Spec
CONSTANTS
  v1 = v1
  v2 = v2
  v3 = v3
  v4 = v4
  d1 = d1
  d2 = d2
  d3 = d3
  Volumes = {v1, v2, v3, v4}
  Disks = {d1, d2, d3}
  Disk <- MCDisk
  Matching = {d1, d2}
  Numbers = {1, 2}
  LetterCount = 3
  Others <- MCOthers
  MaxMoves = 3
INVARIANTS TypeOK MountIsOwn ScanTellsAll
CHECK_DEADLOCK FALSE
