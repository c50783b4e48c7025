SPECIFICATION FairSpec
CONSTANTS
  s1 = s1
  s2 = s2
  s3 = s3
  Requests = {r1, r2}
  Settings = {s1, s2, s3}
  Shipped = s1
  Read <- MCRead
INVARIANTS FilesAgree NetworkRuns FormCurrent
PROPERTY PostEnds
