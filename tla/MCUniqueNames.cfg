SPECIFICATION Spec
CONSTANTS
  N = 2
  Names = {n1, n2}
  NoName = NoName
  Forcers = {}
  MaxId = 2
  MaxStack = 2
INVARIANT UniqueNames
