SPECIFICATION FairRelaySpecification
CONSTANTS
  MaxReplicas = 2
  MaxPort = 3
  Address = {a1, a2}
  Dns = Dns
  None = None
  RelaySpecs <- Specs
  MaxChanges = 1
INVARIANT TypeOK
INVARIANT PartsCover
PROPERTY IsRelayBoard
PROPERTY RelaysStay
PROPERTY RelaysConverge
CHECK_DEADLOCK FALSE
