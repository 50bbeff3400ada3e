SPECIFICATION Spec
CONSTANTS
  Conn = {c1, c2}
  Endpoint = {e1}
  Registration = {w1, w2, w3}
  Call = {k1}
  None = None
SYMMETRY Symmetry
INVARIANT RegisteredReachable
