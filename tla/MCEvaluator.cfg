CONSTANTS
  x = x
  y = y
  f = f
  g = g
  Names = {x}
  Lambdas = {f, g}
  Params <- MCParams
  BodyLen <- MCBodyLen
  Data = {one, nil}
  One = one
  Nil = nil
  Unbound = unbound
  Fail = fail
  Pending = pending
  None = none
  MaxStack = 4
SPECIFICATION Spec
INVARIANTS
  TypeOK
  ScopesBalanced
  FailuresHaveACause
  TailCallsReplaceCaller
PROPERTY
  KeepsScopeDiscipline
