SPECIFICATION FewSpec
CONSTANTS
  NODE_SPACE = 32
  SLOT_SIZE = 4
  CELL_SIZE = 8
  CHILD_IDS = 65536
  Values = {"v", "w"}
  Size <- HalfPage
  MAX_ROWS = 7
INVARIANTS
  TypeOK
  RowsReachable
  ParentsExact
  LeafChainExact
  PagesAccounted
  NodesFit
  NoFault
  BeginFindsRows
PROPERTIES
  ImplementsRowTable
  WritesAreStored
