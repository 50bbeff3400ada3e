CONSTANTS
  Tx = {t1, t2}
  Key = {k1}
  Value = {v1}
  None = None
  Absent = Absent
SPECIFICATION Spec
PROPERTIES ReadsTheValue
