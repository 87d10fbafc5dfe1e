\* One run, finished once, and a rebuild.
CONSTANTS
  Unit = {u1}
  Run = {r1}
  Finisher = {f1}
  FinishStatus = {"succeeded", "failed", "unknown"}
  UnitCrashes = FALSE
SPECIFICATION UnitsSpec
PROPERTY FinishedStays
VIEW View
CHECK_DEADLOCK FALSE
