SPECIFICATION Spec
CONSTANTS
  ByteBits = 2
  Cases <- MCCases
INVARIANTS
  TypeOK
  ScalarExact
  LanesExact
  TrapKeepsOperands
