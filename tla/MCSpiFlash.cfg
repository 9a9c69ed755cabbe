CONSTANTS
  Sectors = {s1, s2}
  Slots = {p1}
  Data = {d1, d2}
  Die <- MCDie
  Blank = Blank
  Junk = Junk
  Faulty = TRUE
SPECIFICATION FairSpec
INVARIANTS
  TypeOK
  CommandsAccepted
  SuccessLeavesRest
PROPERTIES
  ImplementsStore
  CallsReturn
