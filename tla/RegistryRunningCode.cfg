CONSTANTS
  plain = plain
  full = full
  handing = handing
  counter = counter
  cond = cond
  Modules = {counter, cond}
  Compiled = {cond}
  Units = {plain, full, handing}
  Hooks <- MCNoHooks
  Loader = loader
  None = none
  MaxStack = 4
SPECIFICATION Spec
CHECK_DEADLOCK FALSE
INVARIANTS
  RunningCodeStays
