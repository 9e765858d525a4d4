SPECIFICATION Spec
CONSTANTS
  MetricEvents <- MCMetricEvents
  Protocols = {"tcp", "udp"}
  Directions = {"ingress", "egress"}
  MaxEvents = 4
  Scale = 12
INVARIANTS
  RTTIsReference
  MergeIsConcatenation
CHECK_DEADLOCK FALSE
