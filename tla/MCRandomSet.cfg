SPECIFICATION Spec
CONSTANTS
  Item = {a, b, c, d, e}
  Zero = Zero
  Cap = 5
INVARIANTS
  TypeOK
  NoDuplicates
  NothingRetained
PROPERTY ImplementsPickSet
