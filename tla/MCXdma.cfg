SPECIFICATION FairSpec
CONSTANTS
  Clients = {c1, c2}
  NoClient = none
  Modes <- MCBoth
  Kinds <- MCAll
  MaxDesc = 3
  MaxRequest = 2
  Timeouts = FALSE
  Offlines = FALSE
INVARIANTS
  TypeOK
  CompletedMeansMoved
  NoFreedOnList
  ServesHead
  QuietAfterReturn
PROPERTIES
  SubmittedEnds
