SPECIFICATION Spec
CONSTANTS
  mortal = mortal
  wizard = wizard
  goblin = goblin
  bag = bag
  box = box
  hall = hall
  pit = pit
  grave = grave
  NoObj = NoObj
  Nowhere = Nowhere
  Objs = {bag, box}
  Rooms = {hall, pit, grave}
  Players = {mortal, wizard}
  Mobs = {goblin}
  Wizards = {wizard}
  Starts = {hall}
  Grave = grave
  PitFloor = pit
  PitRooms = {hall}
  LandsIn <- MCLandsIn
  Outlet <- MCOutlet
  Chutes = {}
  Containers = {bag, box}
  Lids = {box}
  Wearables = {bag, box}
  Armors = {box}
  Weapons = {box}
  Food = {bag}
  Fixed = {}
  Kinds <- MCKinds
  Clinging = {}
  Size <- MCSize
  Limit <- MCLimit
  Hungry = {goblin}
  Thieves = {goblin}
  Tidy = {goblin}
  Stealable <- MCStealable
  Zones <- MCZones
  HomeLoc <- MCHomeLoc
  HomeFlag <- MCHomeFlag
  MobHome <- MCMobHome
INVARIANTS Located NoCycle WornOnce NothingTakenAlong ScoredOnce
