CONSTANTS
  c1 = c1
  s1 = s1
  s2 = s2
  None = None
  Session = {s1, s2}
  Conn = {c1}
  Command <- Commands
  AdminCommand <- Admin
  WhoamiCommand <- Whoami
  MaxLines <- Lines
SPECIFICATION Spec
INVARIANTS
  TypeOK
  RunsOnceInOrder
  ExitCodeTells
PROPERTIES
  CommandDecides
  ShutdownCompletes
CHECK_DEADLOCK FALSE
