\* Overlapping calls of three clients beside a doctor; nothing is assumed of the timing.
CONSTANTS
  Client = {c1, c2, c3}
  Doctor = {d1}
  MaxToken = 3
SPECIFICATION Spec
INVARIANTS TypeOK ExclusiveUntilExpiry LoneTakeover
PROPERTY ImplementsExclusiveLease
SYMMETRY Symmetry
CHECK_DEADLOCK FALSE
