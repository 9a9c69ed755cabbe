SPECIFICATION Spec
CONSTANTS
  PAGE_SIZE = 8
  DevicePages = 2
  Bytes <- MCBytes
  Memories <- MCMemories
  Starts <- MCStarts
  Counts <- MCCounts
INVARIANTS
  TypeOK
  VerifyComparesAll
  DumpIsMemory
  FailMeansProgrammed
  BlankCheckCovers
  ReadStaysInDevice
