\* Two controllers that die anywhere and run commands again.
CONSTANTS
  Client = {c1, c2}
  Rebuilder = {}
  Key = {k1, k2}
  Entity = {e1, e2}
  State <- MCFewStates
  Start <- MCStart
  Move <- MCFewMoves
  Free = Free
  Orphan = Orphan
  Ahead = 0
  Crashes = TRUE
  Lapses = FALSE
SPECIFICATION Spec
INVARIANTS LogReplayable AckedDurable AnswerIsOnFile
PROPERTY ImplementsTaskLog
CHECK_DEADLOCK FALSE
SYMMETRY Symmetry
VIEW View
