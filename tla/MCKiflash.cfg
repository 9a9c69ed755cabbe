CONSTANTS
  Sectors <- MCSectors
  Slots <- MCSlots
  Data = {"a", "b"}
  Die <- MCDie
  Blank = Blank
  Junk = Junk
  Faulty = TRUE
  Workers = {1}
  UserSector = 1
  TimerSector = 3
  Images <- MCImages
  IcapAnyTime = FALSE
SPECIFICATION MCFairSpec
INVARIANTS
  TypeOK
  SuccessMeansProgrammed
  HundredIsEarned
  ClosesLast
PROPERTIES
  OthersKept
  PercentageGrows
  SuccessCloses
