SPECIFICATION Spec
CONSTANTS
  BytesPerSector = 4
  EntryBytes = 2
  Reserved = 3
  NumFats = 2
  SectorsPerFat = 3
  RootEntries = 4
  NumClusters = 4
  PageBytes = 8
  SegmentBytes = 32
  LbaRange = 256
  SectorsPerTrack = 3
  NumHeads = 2
  Stage2Base = 4
  LowMems = {72, 184, 224}
  MapEntryBytes = 2
  MaxMapEntries = 4
  KernelFirst = TRUE
  Names <- MCNames
  DirNames <- MCDirNames
  KernelName <- MCKernelName
  E = 24
  MaxTables = 8
  Maps <- MCMaps
  Width = 32
  BiosEnd = 1
  KernelStart = 3
  KernelEnd = 5
  MAX_MEMORY_MAP_ENTRIES = 4
  MemoryEnd = 9
INVARIANTS  TablesAreKept CallsMapTheirPages LowMemoryIsUnused SortOrdersTheMap 
