SPECIFICATION Spec
CONSTANTS
  Conn = {c1, c2}
  Endpoint = {e1, e2}
  Registration = {w1, w2, w3}
  Call = {k1}
  None = None
VIEW WithoutOver
SYMMETRY Symmetry
INVARIANTS
  TypeOK
  NobodyStranded
  PoolsHoldLiveWorkers
  RoutedToOwnEndpoint
  NoDeadName
  SharedUntilFirstDeparture
PROPERTY ImplementsTunnelService
