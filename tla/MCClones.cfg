SPECIFICATION Spec
CONSTANTS
  P = 2
  Const <- MCConst
  Most <- MCMost
  Home <- MCHomes
  IdStart = 4
  MaxId = 7
  MaxStored = 6
  Walkers = {0}
INVARIANTS NumbersTrue IdsBelowCounter
PROPERTIES OthersStay AliasFollows ResetComplete
