SPECIFICATION Spec
CONSTANTS
  EthPorts = 4
  NbPorts = 3
  MaxLcore = 4
  Enabled = {1, 3}
  Masks <- MCMasks
  PortMaps <- MCPortMaps
  Queues = {1, 2, 16}
  Periods = {10, 86400}
INVARIANTS Mirrored PolledOnce OneSender
CHECK_DEADLOCK FALSE
