CONSTANTS
  Tx = {t1, t2}
  Key = {k1, k2}
  Value = {v1, v2}
  None = None
  Absent = Absent
SPECIFICATION Spec
SYMMETRY Symmetry
INVARIANTS TypeOK ReadsStayTrue LocksReleased HandleTellsTx
PROPERTY ImplementsAtomicStore
