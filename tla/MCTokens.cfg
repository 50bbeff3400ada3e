CONSTANTS
  Client = {c1, c2}
  Token = {k1, k2}
  Owner = {o1, o2}
  TTL = {1, 2}
  Second = 4
  MaxNow = 4
  None = None
SPECIFICATION Spec
SYMMETRY Symmetry
INVARIANT TypeOK
PROPERTIES AcceptedIffLive HandedOutIsStored RevocationIsFinal
