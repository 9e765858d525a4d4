SPECIFICATION FairSpec
CONSTANTS
  a1 = a1
  a2 = a2
  None = None
  Agents = {a1}
  Machine <- MCMachine
  MAC <- MCMAC
  OnlineWindow = 0
  StaleWindow = 1
  DeleteAfter = 2
  RequestTimeout = 1
  Workloads <- MCWorkloads
INVARIANTS
  AgentHasVM
  NeverOfflineEarly
PROPERTIES
  VMStable
  OwnVMReapedOnlyIfSilent
  Recovers
  SilentGoesOffline
