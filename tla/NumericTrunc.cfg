SPECIFICATION Spec
CONSTANTS
  ByteBits = 2
  Cases <- MCCases
INVARIANT
  TruncMirrorsSat
