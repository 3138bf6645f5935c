\* The process ends after stop and when it aborts.
CONSTANTS
  Half = 6
  Page = 2
  MaxRegions = 7
  MaxSections = 3
  Mem1Size = 3
  Mem2Size = 4
  LockedSize = 1
  MaxAccess = 3
  SmokeTable <- MCSmokeTable
  ProbeTable <- MCProbeTable
  Configurations <- MCConfigurations
  Mem1ArenaLo <- MCMem1ArenaLo
  Mem1ArenaHi <- MCMem1ArenaHi
  Mem2LoFloor <- MCMem2LoFloor
  FstReserve = 1
  IpcArena = 1
  IosReserved = 1
  PageWidth = 4
  PagesPerPart = 4
  Parts = 2
  Guardable = {"gprs", "fprs"}
  Fibers = {"fiber"}
  FiberEntry = 6
  Published <- MCPublished
  Direct = {6, 12}
  Called = {3, 6, 7, 9, 12, 18, 25}
  Clobbers <- MCClobbers
  DvdInit = 9
  DvdFsInit = 4
  MaxDepth = 2
SPECIFICATION Spec
CHECK_DEADLOCK FALSE
INVARIANTS
  ResourcesAccounted
  GuestMemoryCoherent
  AllOrNothing
  GuestRunsOnReadyCore
  CallsReachTheirTargets
  DriveInitializedOnce
PROPERTIES
  NonvolatilesKept
