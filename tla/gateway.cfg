SPECIFICATION FairSpec
CONSTANTS
  MaxReplicas = 2
  Address = {a1}
  Dns = Dns
  None = None
  GatewaySpecs <- Specs
  MaxChanges = 1
INVARIANT TypeOK
INVARIANT RelaysAreServed
PROPERTY GatewayStays
PROPERTY GatewayConverges
CHECK_DEADLOCK FALSE
