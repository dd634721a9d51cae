\* Three requests, one slot, every administrator action.
SPECIFICATION Spec
CONSTANTS
  Req = {r1, r2, r3}
  Counter = {c1, c2, c3, c4}
  None = None
  MaxConcurrent = 1
  AdminActs = TRUE
SYMMETRY Symmetric
INVARIANT NeverOverCounts
