SPECIFICATION Spec
CONSTANTS
  Requests = {r1, r2}
  Examples = {"l2switch"}
  Versions = {v1}
SYMMETRY Symmetric
INVARIANTS RunsSelected OneSwitch
