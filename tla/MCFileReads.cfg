CONSTANTS
  Letters = {x}
  Newline = newline
  BufferSize = 3
  MaxText = 6
  MaxLine = 3
SPECIFICATION Spec
INVARIANTS
  TypeOK
  ResultFits
  ReadsAskedLines
