SPECIFICATION Spec
CONSTANTS
  Early = 1
  Dense = 3
  MaxEntries = 4
  Stride = 3
  MaxDispatches = 6
  MaxBoots = 2
  MaxFailures = 1
CHECK_DEADLOCK FALSE
INVARIANTS
  CardTellsOneRun
  TraceSurvives
  RecordsSurvive
