\* Two contenders take over one abandoned lease.
CONSTANTS
  Client = {c1, c2}
  Doctor = {}
  MaxToken = 3
SPECIFICATION Spec
INVARIANT OneHolderWhileTimely
CHECK_DEADLOCK FALSE
