SPECIFICATION SessionSpec
CONSTANTS
  NODE_SPACE = 32
  SLOT_SIZE = 4
  CELL_SIZE = 8
  CHILD_IDS = 65536
  SLOTS = 65536
  Values <- Users
  Size <- ShortAndLong
  Lines <- SessionLines
  Numerals = {"1"}
  ValueOf <- NumberOf
  Upper <- SameWord
  UINT32 = 16
  ULONG = 64
  MAX_ROWS = 5
CHECK_DEADLOCK FALSE
PROPERTIES
  LinesAreAnswered
  SpinsAtEnd
  LastInsertRepeats
