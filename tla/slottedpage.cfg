SPECIFICATION Spec
CONSTANTS
  NODE_SPACE = 12
  SLOT_SIZE = 1
  CELL_SIZE = 3
  CHILD_IDS = 65536
  HEADER_SIZE = 2
  Keys = {1, 2, 3, 4}
  Values = {"a", "b", "c"}
  Size <- ThreeSizes
INVARIANTS
  TypeOK
  RecordsIntact
  RowsInOrder
  SpaceAccounted
PROPERTIES
  ImplementsLeafRows
