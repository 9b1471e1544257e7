SPECIFICATION FairSpec
CONSTANTS
  P = 2
  M = 1
  Wizards = {0}
  hall = hall
  grave = grave
  Nowhere = Nowhere
  Rooms = {hall, grave}
  Grave = grave
  Lands = {hall}
  Roam = {hall}
  Peaceful = {}
  Avengers = {2}
  Scripted = {2}
  Hungry = {2}
  Home <- MCHome
INVARIANT KillerRemembered
PROPERTIES FightsBeginHere BondsEnd
