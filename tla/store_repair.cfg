\* Crashes beside a lease-less rebuild.
CONSTANTS
  Client = {c1}
  Rebuilder = {r1}
  Key = {k1, k2}
  Entity = {e1}
  State <- MCState
  Start <- MCStart
  Move <- MCMove
  Free = Free
  Orphan = Orphan
  Ahead = 0
  Crashes = TRUE
  Lapses = FALSE
SPECIFICATION RepairedSpec
INVARIANTS ProjectionFromLog
PROPERTY EventuallyRepaired
CHECK_DEADLOCK FALSE
