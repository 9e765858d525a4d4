SPECIFICATION FairSpec
CONSTANTS
  Events <- MCEvents
  Captures <- MCCaptures
  ControlPlane <- MCControlPlane
  IgnorePorts <- MCIgnorePorts
  AllowCIDRs <- MCAllowCIDRs
  DenyCIDRs <- MCDenyCIDRs
  LocalOnly <- MCLocalOnly
  BatchCap = 1
  MaxAttempts = 2
INVARIANTS
  NoEventLost
  NoEventTwice
  KeysSeparate
  OvercountBounded
  DroppedAfterAllAttempts
PROPERTIES
  SettledIsFinal
  EventuallySettled
  ImplementsDelivery
CHECK_DEADLOCK FALSE
