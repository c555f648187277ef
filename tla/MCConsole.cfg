SPECIFICATION Spec
CONSTANTS
  Capacity = 2
  MaxKeys = 5
  Burst = 2
  Width = 3
  Height = 3
  Size = 3
  Spelling <- MCSpelling
  BytesPerSector = 4
  EntryBytes = 2
  Reserved = 2
  NumFats = 2
  SectorsPerFat = 3
  RootEntries = 4
  NumClusters = 3
  Names <- MCNames
  DirNames <- MCDirNames
  NameSize = 2
  ExtSize = 1
  SectorsPerPage = 2
  Errors = {"EN"}
  LowStart = 20
  LowEnd = 100
  DisksTried <- MCDisksTried
  FastDisk <- MCFastDisk
  Scripts <- MCScripts
  CatScripts <- MCCatScripts
INVARIANTS ShellMissesNothing ScreenIsFree ExecutesWhatWasTyped ScreenShowsLine ReadGetsItsData CommandsSucceed ReadsStayInBuffer CatPrintsTheFile
PROPERTIES  DriverReturns
