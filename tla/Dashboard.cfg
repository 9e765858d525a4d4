SPECIFICATION DashboardSpec
CONSTANTS
  Clients = {c1}
  ClientCap = 1
  MaxChanges = 2
INVARIANTS
  NoSendOnClosed
  

  
  
CHECK_DEADLOCK FALSE
