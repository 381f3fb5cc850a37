SPECIFICATION Spec
CONSTANTS
  Explored = {"cover", "grenades", "select", "targets", "rebind", "weapons", "regroup"}
  \* CoverMarkers
  s1 = s1  s2 = s2
  Soldiers = {s1, s2}
  MaxMarkers = 2
  Settle = 1
  MaxOrders = 2
  MaxScenes = 2
  Coordinates = {0, 1, 3}
  \* MovingGrenades
  t1 = t1  t2 = t2
  Throwers = {t1, t2}
  MaxIssued = 3
  MaxHeld = 1
  MaxAge = 1
  MaxQueued = 1
  \* GrenadeSelect
  Guns = {"grenade", "rifle"}
  Grenade = "grenade"
  MaxCalls = 2
  \* PassengerTargets
  Mounts = {"m", "n"}
  Enemies = {"e", "f"}
  MaxAttackOrders = 1
  ChecksFirst = TRUE
  \* PassengerRebind
  MountOrder <- TwoMounts
  GunTable <- GunsOfTheMounts
  GunRoster <- ThreeGuns
  Recordless = {}
  RecordlessLimit = 2
  StartDwell = 1
  StopDwell = 1
  MotionHold = 1
  RebindDwell = 1
  BindsRefused = TRUE
  \* WeaponDrops
  Squads = {"A"}
  SquadMembers <- OneSquad
  Weapons = {"rifle", "carbine"}
  AmmoOf <- TwoWeapons
  PerGun = 1
  MaxReserve = 1
  Pickups = {1, 2, 3}
  FirstWeapon = "rifle"
  FirstRounds = 2
  FirstPickup <- Carbine
  MaxCallbacks = 2
  \* Regroup
  Troops = {"x", "y", "z"}
  FirstSquads <- Troopers
  Supports <- Carried
  FirstPools <- FilledPools
  MaxTroops = 2
  MaxTypes = 3
  PinBits = 2
  MaxSquads = 4
  MaxMade = 2
  MaxEvents = 1
  MaxScripts = 1
VIEW Active
INVARIANTS
  MarkersSound
  GrenadesSound
  
  GearSound
PROPERTIES
  OrdersAreKept
CHECK_DEADLOCK FALSE
