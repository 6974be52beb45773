SPECIFICATION Spec
CONSTANTS
  NODE_SPACE = 32
  SLOT_SIZE = 4
  CELL_SIZE = 8
  CHILD_IDS = 65536
  Values = {"small", "big"}
  Size <- Mixed
  MAX_ROWS = 4
PROPERTIES
  WritesAreStored
