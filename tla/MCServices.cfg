SPECIFICATION Spec
VIEW Active
CONSTANTS
  Explored = {"threads", "startup", "panel"}
  \* Threads
  MaxThreads = 4
  FreezeLimit = 2
  MaxFreezes = 2
  \* Startup
  Order <- StartOrder
  Depends <- StartDepends
  Stages <- StartStages
  LegacyIds = {"old"}
  SafeIds = {"alpha", "core"}
  ReloadableIds = {"alpha", "feature"}
  CoreId = "core"
  GuardSpan = 2
  \* SquadPanel
  Observers = {"a", "b"}
  Provider = "core"
  GameThreads = {"t1", "t2"}
  MaxTokens = 2
  PlanOrders <- PlanOfThree
  MaxReplans = 1
INVARIANTS
  FreezeSound
  StartupSound
PROPERTIES
  PanelKeepsPromise
  ServicesRespond
CHECK_DEADLOCK FALSE
