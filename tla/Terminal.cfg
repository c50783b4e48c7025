SPECIFICATION FairSpec
CONSTANTS
  Sockets = {s1, s2}
  MaxShells = 2
  OnePage = FALSE
INVARIANTS OwnsItsChild SomeReader
PROPERTIES DisconnectEnds OutputForwarded ReadersEnd
CHECK_DEADLOCK FALSE
