SPECIFICATION FairSpec
CONSTANTS
  Callers = {c1, c2}
  MaxTasks = 3
  MaxLines = 2
INVARIANTS OneFollower SomeForwarder
PROPERTIES StopObeyed PipeDrained
CHECK_DEADLOCK FALSE
