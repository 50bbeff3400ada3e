CONSTANTS
  a = a
  b = b
  new = new
  Process = {a, b, new}
  Files <- MCFiles
SPECIFICATION Spec
INVARIANTS
  TypeOK
  RecordsMatchSchema
  StartedUpToDate
PROPERTIES
  StartEnds
  AppliesNext
