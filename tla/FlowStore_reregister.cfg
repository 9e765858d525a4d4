SPECIFICATION Spec
CONSTANTS
  VMs = {v1, v2}
  Outside = {}
  None = None
  unregisteredInternalScope = "external_private"
  MaxIngests = 3
  MaxRegisters = 2
  MaxReaps = 0
  MaxRestarts = 0
SYMMETRY VMSymmetry
INVARIANTS
  NoDuplicateBucket
CHECK_DEADLOCK FALSE
