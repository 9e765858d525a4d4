SPECIFICATION Spec
CONSTANTS
  VMs = {v1, v2}
  Outside = {x}
  None = None
  unregisteredInternalScope = "unknown_internal"
  MaxIngests = 3
  MaxRegisters = 2
  MaxReaps = 1
  MaxRestarts = 1
SYMMETRY VMSymmetry
INVARIANTS
  
  OnePeerPerBucket
  NoDuplicateAtFirst
  InternalIffResolved
CHECK_DEADLOCK FALSE
