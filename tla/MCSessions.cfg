SPECIFICATION FairSpec
CONSTANTS
  N = 2
  Names = {n1, n2}
  NoName = NoName
  Forcers = {0}
  MaxId = 1
  MaxStack = 2
INVARIANTS QuitListSound InGameLive StageSound IdTableSound IdsUpToCounter
PROPERTIES LifecycleSpec EventuallyFreed
