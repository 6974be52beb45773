SPECIFICATION QuerySpec
CONSTANTS
  NODE_SPACE = 32
  SLOT_SIZE = 4
  CELL_SIZE = 8
  CHILD_IDS = 65536
  SLOTS = 65536
  Values <- Users
  Size <- ShortAndLong
  Lines <- SelectAll
  Numerals = {"0", "1", "2", "3", "4", "5"}
  ValueOf <- NumberOf
  Upper <- Capital
  UINT32 = 16
  ULONG = 64
  MAX_ROWS = 6
CHECK_DEADLOCK FALSE
PROPERTY SelectComplete
