\* Two controllers without crashes; a holder may outlive its lease.
CONSTANTS
  Client = {c1, c2}
  Rebuilder = {}
  Key = {k1, k2, k3}
  Entity = {e1}
  State <- MCFewStates
  Start <- MCStart
  Move <- MCFewMoves
  Free = Free
  Orphan = Orphan
  Ahead = 0
  Crashes = FALSE
  Lapses = TRUE
SPECIFICATION Spec
INVARIANTS NoLostUpdate InSyncWhenIdle RevisionsHaveNoGap
SYMMETRY Symmetry
VIEW View
CHECK_DEADLOCK FALSE
