CONSTANTS
  MaxSignals = 3
  Arrays = {v1, v2, v3}
  MainArgs = 2
  MaxArgs = 2
  MaxNesting = 3
SPECIFICATION Spec
CHECK_DEADLOCK FALSE
INVARIANTS
  TypeOK
  EvaluatesEntriesOnce
  LateLinesAreDropped
  RuntimeWithinCore
  ScriptSeesItsArguments
  ArgumentsHeldExactly
PROPERTIES
  EndOfInputEndsProgram
  StopEndsLoop
