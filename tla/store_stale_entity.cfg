\* One user; a crash between the event and the entity file.
CONSTANTS
  Client = {c1}
  Rebuilder = {}
  Key = {k1, k2, k3}
  Entity = {e1}
  State <- MCState
  Start <- MCStart
  Move <- MCMove
  Free = Free
  Orphan = Orphan
  Ahead = 0
  Crashes = TRUE
  Lapses = FALSE
SPECIFICATION Spec
INVARIANT NoLostUpdate
SYMMETRY Symmetry
VIEW View
CHECK_DEADLOCK FALSE
