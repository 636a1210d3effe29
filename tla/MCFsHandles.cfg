CONSTANTS
  Handles = {h1, h2, h3}
  Null = null
  Unbound = unbound
  MaxDepth = 3
  MaxReloads = 1
SPECIFICATION Spec
CHECK_DEADLOCK FALSE
INVARIANTS
  TypeOK
  FidNamesItsFile
  CloseWhereOpenedIsFinal
