SPECIFICATION FairSpec
CONSTANTS
  Pages = {p1, p2}
  Tables <- MCTables
  Initial <- MCInitial
  Ids = {1}
  Room = 3
  Units <- MCUnits
  MaxEntries = 2
INVARIANTS ShownAsServed UpWhileShown MasklessStay
PROPERTY PageEnds
