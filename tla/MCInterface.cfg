SPECIFICATION Spec
VIEW Active
CONSTANTS
  Explored = {"shadow", "animation", "scroll", "groups", "levels", "meter", "ammo", "trees", "sorts"}
  None = None
  \* ShadowCascades
  Views = {"main", "inset"}
  Counts = {1, 2}
  MaxHoldable = 3
  Capacity = 1
  Places = {0, 1}
  Margins = {1}
  MaxMaps = 2
  Moving = {"main"}
  \* MovingAnimation
  Chassis = {"c"}
  Window = 1
  Far = 3
  MaxTick = 3
  MaxDepth = 2
  MaxLives = 2
  \* PanelScroll
  Upgrades = {"a", "b", "c", "d"}
  Tags <- UpgradeTags
  Lists <- PanelLists
  Hidden = {"h"}
  Visible = 2
  CardSlots = 3
  FitUpgrades = TRUE
  Notch = 2
  Deltas <- WheelDeltas
  MaxItems = 4
  \* AbilityGroups
  AbilityCount = 3
  SlotOf <- TwoSlots
  Cells <- FirstCells
  Submenus = {1}
  \* ExperienceLevels and ExperienceMeter
  Objects = {"o", "p"}
  Stock = 2
  MaxLevels = 4
  Files <- LevelFiles
  StockMarks = 2
  MostLevels = 7
  MeterWidth = 10
  NotLaid = NotLaid
  \* CombinedAmmo
  Roster <- SquadAndVehicle
  Slots <- SlotsOfBoth
  CanUse <- UsableByBoth
  PinSlots = 1
  MaxCards = 2
  Selections <- SelectionsOfBoth
  MaxDeaths = 1
  \* TreeSway
  Managers = {"m", "n"}
  Trees = {"a", "c"}
  ManagerOf <- ManagersOfTrees
  Distances = {"near", "far"}
  BandRate <- RatesOfBands
  Nearest = "near"
  Stagger <- TreeStaggers
  TickLimit = 5
  StepLimit = 2
  MaxManagers = 2
  SweepEvery = 3
  \* RenderSorts
  GrassLists <- ShortGrassLists
  ViewLists <- ShortViewLists
  Budgets = {0, 2, 8}
  IsortMax = 2
  NintherAbove = 6
  ByDistance = 2
  NotNumber = NotNumber
INVARIANTS
  RenderingSound
  CardsSound
  
  LevelsSound

  
CHECK_DEADLOCK FALSE
