SPECIFICATION FairSpec
CONSTANTS
  a1 = a1
  a2 = a2
  Txns = {1, 2, 3}
  Agents = {a1, a2}
  Workloads <- MCWorkloads
INVARIANTS
  TelemetryNeverDeadlocks
PROPERTIES
  EveryTransactionEnds
