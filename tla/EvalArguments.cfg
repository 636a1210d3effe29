CONSTANTS
  x = x
  y = y
  f = f
  g = g
  Names = {x, y}
  Lambdas = {f, g}
  Params <- MCTwoParams
  BodyLen <- MCBodyLen
  Data = {one, nil}
  One = one
  Nil = nil
  Unbound = unbound
  Fail = fail
  Pending = pending
  None = none
  MaxStack = 4
SPECIFICATION Spec
INVARIANT ArgumentsSeeCallerNames
