CONSTANTS
  Sectors <- MCSectors
  Slots <- MCSlots
  Die <- MCDie
  Data = {"a", "8"}
  Blank = Blank
  Junk = Junk
  Faulty = FALSE
  Regions <- MCRegions
  Disks <- MCDisks
  FixedFile = "fixed"
  EightBytes = "8"
  Options <- MCOptions
SPECIFICATION MCSpec
INVARIANTS
  TypeOK
  PassedMeansPresent
  ReflashMeansAll
PROPERTIES
  OthersKept
