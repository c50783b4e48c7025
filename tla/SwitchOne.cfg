SPECIFICATION FairSpec
CONSTANTS
  Requests = {r1}
  Examples = {"l2switch"}
  Versions = {v1, v2}
PROPERTY SelectionRuns
