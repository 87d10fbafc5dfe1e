\* One work unit, code in two versions, one gate, one finding, at most three evidences,
\* findings, waivers and amendments together; commands may die.
CONSTANTS
  Unit = {u1}
  Run = {r1}
  Finisher = {}
  FinishStatus = {"failed"}
  UnitCrashes = FALSE
  ann = ann
  bob = bob
  Actor = {ann, bob}
  Owner = {app}
  ApproversOf <- MCApproversOf
  Paths <- MCPaths
  Extension <- MCExtension
  Levels = {1}
  RequiredLevel <- MCRequiredLevel
  MaxAmendments = 1
  ScopeCrashes = TRUE
  Gate = {"tests"}
  RequiredGate = {"tests"}
  Version <- MCVersion
  Touches <- MCTouches
  MaxEvidence = 2
  Finding = {f1}
  Effect = {"waiver_allowed", "block_close"}
  Review = FALSE
  Strict = FALSE
SPECIFICATION Spec
INVARIANTS GovernanceTypeOK ApprovedIndependently HistoryComplete NothingStartsUnapproved
PROPERTIES ClosesDelivered ClosesProven SeriousFindingsResolved ClosesValid
CONSTRAINT Bounded
VIEW View
CHECK_DEADLOCK FALSE
