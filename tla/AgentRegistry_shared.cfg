SPECIFICATION Spec
CONSTANTS
  a1 = a1
  a2 = a2
  None = None
  Agents = {a1, a2}
  Machine <- MCMachine
  MAC <- MCMAC
  OnlineWindow = 1
  StaleWindow = 2
  DeleteAfter = 3
  RequestTimeout = 1
  Workloads <- MCShared
PROPERTIES
  ReapedOnlyIfSilent
