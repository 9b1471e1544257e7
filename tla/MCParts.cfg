SPECIFICATION PartsSpec
CONSTANTS
  Perm = 2
  Most = 4
  NEXITS = 2
  Map <- MCMap
  Linked <- MCLinked
  At <- MCAt
  DoorZone <- MCDoorZone
  Hole = 102
  SpecialRoom = 1
  Leaps <- MCLeaps
  Changed <- MCChanged
  Targets = {3, 4}
  StateReset <- MCStateReset
  MaxId = 5
  Week = 7
  Warning1 = 2
  Warning2 = 1
  MaxLines = 2
  MaxLate = 3
  Elems = {1, 2, 3, 4, 5}
  SetEnd = SetEnd
  InitLen = 30
  N = 3
  MaxDepth = 3
  MaxTalks = 3
  Speakers = {0}
  Reuse = "late"
INVARIANTS
  ExitsKnown DoorsTrue ResetRestores
  ArrayFits IsSet
  WorkOwned WriterOwned SnoopCounted
PROPERTIES
  InARoom
  HoursKept EventOnTheWeek
  TraversalSpec
