CONSTANTS
  Sectors <- MCThreeSectors
  Slots <- MCSlots
  Data = {"a"}
  Die <- MCDie
  Blank = Blank
  Junk = Junk
  Faulty = FALSE
  Workers = {1, 2}
  UserSector = 1
  TimerSector = 2
  Images <- MCOnePage
  IcapAnyTime = FALSE
SPECIFICATION MCTwoSpec
INVARIANTS
  HundredIsEarned
  ClosesLast
