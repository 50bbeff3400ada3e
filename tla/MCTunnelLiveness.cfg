SPECIFICATION FairSpec
CONSTANTS
  Conn = {c1, c2}
  Endpoint = {e1}
  Registration = {w1, w2}
  Call = {k1}
  None = None
PROPERTIES
  ClosedConnCleansUp
  RegistryDrains
  OfferResolved
  TunnelEnds
  CancelReturns
