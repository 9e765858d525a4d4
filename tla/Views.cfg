SPECIFICATION Spec
CONSTANTS
  a = a
  b = b
  VMs = {a, b}
  NULL = NULL
  Probers = {a}
  Conversations <- MCConversations
  AgentIgnorePorts = {18080, 18081}
  Workloads <- MCWorkloads
  ExcludedPorts = {22, 53, 123}
INVARIANTS
  TypeOK
  
  FailureIsShown
  FailedEdgeIsUnhealthy
  
  NothingOfTheDeleted
CHECK_DEADLOCK FALSE
