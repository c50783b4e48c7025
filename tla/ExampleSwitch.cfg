SPECIFICATION SwitchSpec
CONSTANTS
  Endpoints <- TwoEndpoints
  Positions = {0, 1, 2}
  Hash <- MixedHash
  Keys <- MCKeys
  FilterPackets <- MCFilterPackets
  FilterKeys <- MCFilterKeys
INVARIANT BlocksCovered
PROPERTIES HashedFilter NewRuleOnlyBlocks
