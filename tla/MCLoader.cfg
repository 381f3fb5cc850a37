SPECIFICATION Spec
VIEW Active
SYMMETRY Interchangeable
CONSTANTS
  Explored = {"hooks", "near", "plan", "config", "features", "trace", "inject", "launch", "units", "crash"}
  \* Hooks
  plugin1 = plugin1  plugin2 = plugin2  legacyPlugin = legacyPlugin
  Plugins = {plugin1, plugin2, legacyPlugin}
  Legacy = {legacyPlugin}
  Requests <- CodeRequests
  PageSize = 2
  MaxAllocations = 2
  MaxForeign = 1
  \* NearMemory
  SlotSize = 2
  Reach = 5
  SlotsHeld = 3
  Top = 13
  Modules <- NearModules
  Sizes = {1, 2, 3}
  MaxTakes = 2
  GameLimit = 5
  \* PluginPlan
  CoreName = "core"
  Directories <- PluginDirectories
  RunningSets <- RunningBefore
  \* ConfigFiles
  CoreTexts <- CoreFileTexts
  BootTexts <- BootFileTexts
  EditTexts <- EditedTexts
  MaxStarts = 2
  MaxApplies = 1
  MaxEdits = 1
  \* FeatureInstall
  Loadouts <- FeatureSets
  MaxLeftOut = 1
  \* TraceSites
  DebugSlots = {1}
  Addresses = {"a"}
  thread1 = thread1  thread2 = thread2
  TracedThreads = {thread1, thread2}
  RetiredSlots = 1
  Limit = 1
  QueueLength = 1
  MaxHits = 2
  MaxAdds = 0
  MaxCaptures = 2
  \* Injector
  Branches <- InjectedBranches
  Edits <- InjectedEdits
  Foreign = {"chooser", "icon", "double"}
  MaxRuns = 2
  \* HostLaunch
  Launchers = {"l1", "l2", "l3"}
  None = "none"
  \* PatchUnits
  Contents = {"v1", "v2"}
  PoolBytes = 8
  UnitBytes = 3
  Align = 2
  MaxOtherHooks = 1
  \* CrashCapture
  FaultingThreads = {thread1, thread2}
  Places = {"p"}
  Labels = {"a"}
  SessionLimit = 1
  MaxFaults = 2
  MaxMappings = 1
INVARIANTS
  HooksSound
  PlanningSound
  PatchingSound
  LaunchSound
  
CHECK_DEADLOCK FALSE
