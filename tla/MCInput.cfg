SPECIFICATION FairSpec
CONSTANTS
  N = 2
  MaxLines = 2
  Blocking = TRUE
  Breaking = {1}
  MaxDrift = 0
INVARIANTS BufferedMarked Listening DescriptorsOwned
PROPERTIES CountKept InputServed
