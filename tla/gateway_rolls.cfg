SPECIFICATION FairSpec
CONSTANTS
  MaxReplicas = 1
  Address = {a1, a2}
  Dns = Dns
  None = None
  GatewaySpecs <- Unedited
  MaxChanges = 1
PROPERTY PodsConverge
CHECK_DEADLOCK FALSE
