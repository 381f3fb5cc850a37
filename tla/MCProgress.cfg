SPECIFICATION Spec
VIEW Active
CONSTANTS
  Explored = {"rebind", "grenades", "crash", "probes", "trace"}
  \* PassengerRebind
  MountOrder <- OneMount
  GunTable <- GunsOfTheMount
  GunRoster <- FourGuns
  Recordless = {"lmg", "carbine"}
  RecordlessLimit = 2
  StartDwell = 1
  StopDwell = 1
  MotionHold = 2
  RebindDwell = 2
  BindsRefused = FALSE
  \* MovingGrenades
  Throwers = {"a"}
  MaxIssued = 4
  MaxHeld = 1
  MaxAge = 1
  MaxQueued = 1
  \* CrashCapture
  FaultingThreads = {"g"}
  Places = {"p"}
  Labels = {"a"}
  SessionLimit = 1
  MaxFaults = 1
  MaxMappings = 1
  \* ProbeWorker
  Files <- ProbeFiles
  Slots = 2
  MaxProbes = 2
  MaxEdits = 1
  MaxOthers = 1
  Broken = Broken
  Missing = Missing
  Unreadable = Unreadable
  NoText = NoText
  \* TraceSites
  DebugSlots = {1}
  Addresses = {"a"}
  TracedThreads = {"g"}
  RetiredSlots = 2
  Limit = 1
  QueueLength = 1
  MaxHits = 2
  MaxAdds = 1
  MaxCaptures = 1
INVARIANTS
  TimedPartsSafe
PROPERTIES
  TimedPartsProgress
CHECK_DEADLOCK FALSE
