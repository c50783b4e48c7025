SPECIFICATION Spec
CONSTANTS
  Sockets = {s1, s2}
  MaxShells = 2
  OnePage = TRUE
INVARIANT RefreshFindsShell
CHECK_DEADLOCK FALSE
