CONSTANTS
  NumPages = 18
  LowEnd = 1
  PosEnd = 6
  NegStart = 8
  KernelStart = 10
  KernelEnd = 11
  ListPage = 12
  TablesBase = 14
  TablesSize = 2
  MaxNodes = 6
  MaxSize = 2
SPECIFICATION Spec
INVARIANT NoPageIsLost
