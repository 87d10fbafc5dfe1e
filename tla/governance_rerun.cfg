\* One gate, which fails and is run again; no finding.
CONSTANTS
  Unit = {u1}
  Run = {r1}
  Finisher = {}
  FinishStatus = {"failed"}
  UnitCrashes = FALSE
  ann = ann
  bob = bob
  Actor = {ann, bob}
  Owner = {app}
  ApproversOf <- MCApproversOf
  Paths <- MCPaths
  Extension <- MCExtension
  Levels = {1}
  RequiredLevel <- MCRequiredLevel
  MaxAmendments = 1
  ScopeCrashes = FALSE
  Gate = {"tests"}
  RequiredGate = {"tests"}
  Version <- MCVersion
  Touches <- MCTouches
  MaxEvidence = 2
  Finding = {}
  Effect = {"waiver_allowed", "block_close"}
  Review = FALSE
  Strict = FALSE
SPECIFICATION Spec
INVARIANT RerunSuffices
CONSTRAINT NotEnded
VIEW View
CHECK_DEADLOCK FALSE
