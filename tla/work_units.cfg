\* Two dependent work units, two processes that finish runs; commands and rebuilds at any
\* time, which may die.
CONSTANTS
  Unit = {u1, u2}
  Run = {r1, r2}
  Finisher = {f1, f2}
  FinishStatus = {"failed", "unknown"}
  UnitCrashes = TRUE
SPECIFICATION UnitsSpec
INVARIANTS DependenciesDelivered OneAnswer CompletedIsDelivered DeliveredStays
CONSTRAINT Bounded
SYMMETRY Symmetry
VIEW View
CHECK_DEADLOCK FALSE
