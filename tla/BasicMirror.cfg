SPECIFICATION FairMirror
CONSTANTS
  EthPorts = 4
  NbPorts = 2
  MaxLcore = 2
  Enabled = {0, 1}
  Masks = {{0, 1}}
  PortMaps <- Selfs
  Queues = {1, 2}
  Periods = {10}
  MAX_PKT_BURST = 2
  MaxRx = 2
INVARIANTS MirrorTypeOK Conserved InOrder
PROPERTIES Drains Stops
CHECK_DEADLOCK FALSE
