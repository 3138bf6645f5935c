\* The files move, the video interface rests.
CONSTANTS
  i1 = i1
  i2 = i2
  t1 = t1
  t2 = t2
  Infos = {i1, i2}
  DataDir <- MCDataDir
  GuestPaths <- MCGuestPaths
  Size = 2
  MaxOpens = 3
  Callers = {t1, t2}
  Buffers = {1}
  PalInterval = 2
  OtherInterval = 1
  MaxRetraces = 2
  MaxNow = 4
SPECIFICATION NandSpec
\* Nothing is specified after an undefined use.
CHECK_DEADLOCK FALSE
INVARIANTS
  OpenInfoReadsItsFile
  ClosedInfoReachesNothing
