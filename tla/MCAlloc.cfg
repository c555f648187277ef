SPECIFICATION Spec
CONSTANTS
  LimbBits = 4
  LimbBytes = 3
  IntBits = 2
  Limbs = 4
  RegionPages = 14
  PageSize = 12
  TablePages = 2
  Entries = 8
  Levels = 3
  SignPages = 256
  StaticTables = 3
  DynamicTables = 2
  KernelVma = 488
  KernelFirst = 2
  TextPages = 1
  RodataPages = 1
  DataPages = 1
  BssPages = 1
  StackBase = 8
  StackPages = 1
  VgaFrame = 0
  AcpiFrame = 1
  AcpiPages = 1
  Region = 12
  BitmapPages = 1
  LowEnd = 8
  PosEnd = 12
  NegStart = 390
  MaxNodes = 8
  PageWords = 19
  NodeWords = 3
  MaxSize = 3
  MaxFrees = 1
  Protections = {"READ_WRITE"}
INVARIANTS NodesAreDisjoint    LookupFindsWhatWasMapped TlbIsCoherent AssertionsHold ImageIsProtected
