SPECIFICATION Spec
CONSTANTS
  d1 = d1
  d2 = d2
  d3 = d3
  Devices = {d1, d2, d3}
  Model <- MCModel
  Controllers = 3
  Limit = 2
  PortCount = 2
  Hubs <- MCHubs
  LastErrors = {2}
  MaxMoves = 2
INVARIANTS TypeOK FoundWasHere StayingIsFound
CHECK_DEADLOCK FALSE
