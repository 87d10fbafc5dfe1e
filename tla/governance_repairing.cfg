\* One finding, and no other trouble.
CONSTANTS
  Unit = {u1}
  Run = {r1}
  Finisher = {}
  FinishStatus = {"failed"}
  UnitCrashes = FALSE
  ann = ann
  bob = bob
  Actor = {ann, bob}
  Owner = {app}
  ApproversOf <- MCApproversOf
  Paths <- MCPaths
  Extension <- MCExtension
  Levels = {1}
  RequiredLevel <- MCRequiredLevel
  MaxAmendments = 1
  ScopeCrashes = FALSE
  Gate = {"tests"}
  RequiredGate = {"tests"}
  Version <- MCVersion
  Touches <- MCTouches
  MaxEvidence = 2
  Finding = {f1}
  Effect = {"waiver_allowed", "block_close"}
  Review = FALSE
  Strict = FALSE
SPECIFICATION Spec
INVARIANT BlockingFindingIsRepaired
CONSTRAINT NotEnded
VIEW View
CHECK_DEADLOCK FALSE
