SPECIFICATION Spec
CONSTANTS
  Perm = 2
  Most = 4
  NEXITS = 2
  Map <- MCMap
  Linked <- MCLinked
  At <- MCAt
  DoorZone <- MCDoorZone
  Hole = 102
  SpecialRoom = 1
  Leaps <- MCLeaps
  Changed <- MCChanged
  Targets = {3, 4}
  StateReset <- MCStateReset
  MaxId = 4
INVARIANT ExitsToMe
