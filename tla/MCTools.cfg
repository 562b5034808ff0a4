SPECIFICATION MCSpec
CONSTANTS
  HostMemories <- Memories
  ProcessorCounts = {1, 2, 7, 8, 9, 16, 17, 64}
  minimumHostMemoryMiB = 8192
  minimumMemoryMiB = 4096
  recommendedMemoryMiB = 8192
  minimumCpuCount = 4
  maximumCpuCount = 8
  Files <- RepositoryFiles
  Contents <- SmallContents
  BytesPerSector = 2
  ReservedSectors = 1
  FatCount = 2
  SectorsPerFat = 200
  RootEntries = 8
  RootSectors = 128
  TotalSectors = 800
  Databases <- SmallDatabases
  Chunks = 4
  Ratio = 3
  Capacity = 2
  MaxFaults = 1
INVARIANTS
  ChoiceAccepted
  ImageReadsBack
  InventoryTrue
  VerdictIsTrue
PROPERTIES
  VerificationEnds
CHECK_DEADLOCK FALSE
