CONSTANTS
  Tx = {t1, t2}
  None = None
  Absent = Absent
  pk = pk
  c1 = c1
  c2 = c2
  p = p
  q = q
  h1 = h1
  r1 = r1
  MaxEntries = 3
  PubKey = {pk}
  Config = {c1, c2}
  Permission = {p, q}
  Host = {h1}
  Registration = {r1}
  Key <- MCKey
  Value <- MCValue
  Time <- MCTime
  ValidFrom <- MCValidFrom
  ExpiresAt <- MCExpiresAt
  AllowedHosts <- MCAllowedHosts
  KeyOf <- MCKeyOf
SPECIFICATION KdbSpec
VIEW WithoutReply
SYMMETRY Symmetry
INVARIANTS KdbTypeOK IdleHoldsNothing
PROPERTIES GrantsAreCurrent GrantsSurvive ImplementsKeyTable
