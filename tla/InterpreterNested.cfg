SPECIFICATION Spec
CONSTANTS
  Fns = {0, 1, 2}
  Length = 6
  Alphabets = {}
  Modules <- NestedCalls
  MaxCallDepth = 3
  Trapped = {}
PROPERTY CallerOperandsKept
