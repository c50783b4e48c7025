SPECIFICATION MCSpec
CONSTANTS
  Sizes <- MCSizes
  Regions <- MCRegions
  scrollback = 2
  Chars = {"a"}
  Counts = {1, 2}
  MaxX = 1
  Bytes = {10, 24, 27, 28, 32, 49, 59, 65, 80, 91, 93, 127, 156, 158, 233}
  LongestRun = 2
  Longest = 1
  WRITE_BATCH_SIZE = 2
  MaxWrites = 5
  LongestList = 3
  MaxFirst = 3
INVARIANTS RowsExist Follows CutsUnseen Accounted OnItsLines
PROPERTIES BreaksOutside ViewStays 
CHECK_DEADLOCK FALSE
