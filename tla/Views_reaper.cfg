SPECIFICATION FairSpec
CONSTANTS
  a = a
  b = b
  VMs = {a, b}
  NULL = NULL
  Probers = {a}
  Conversations <- MCConversations
  AgentIgnorePorts = {18080, 18081}
  Workloads <- MCReturns
  ExcludedPorts = {22, 53, 123}
PROPERTY
  ExpiredIsDeleted
CHECK_DEADLOCK FALSE
