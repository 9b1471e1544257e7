SPECIFICATION SlotsSpec
CONSTANTS
  N = 3
  MaxDepth = 3
  MaxTalks = 3
  Speakers = {}
  Reuse = "any"
INVARIANT SnoopCounted
