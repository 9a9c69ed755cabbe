SPECIFICATION Spec
CONSTANTS
  Clients = {c1, c2}
  NoClient = none
  Modes <- MCInterrupt
  Kinds <- MCSync
  MaxDesc = 2
  MaxRequest = 1
  Timeouts = TRUE
  Offlines = TRUE
SYMMETRY Symmetry
INVARIANTS NoFreedUnlessLost
