CONSTANTS
  a = a
  Names = {x}
  x = x
  Nil = Nil
  Items <- MCItems
  Arguments <- MCArguments
  MaxItems = 2
  MaxStack = 3
SPECIFICATION Spec
PROPERTY IterMapsItems
