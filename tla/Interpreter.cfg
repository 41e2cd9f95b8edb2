SPECIFICATION Spec
CONSTANTS
  Fns = {0, 1, 2}
  Length = 7
  Alphabets <- MCAlphabets
  Modules <- MCModules
  MaxCallDepth = 2
  Trapped = {1}
INVARIANTS
  TypeOK
  OperandsAgree
  ControlAgrees
  ResultsDelivered
PROPERTIES
  StructuredControl
  JobEndsOrLoops
