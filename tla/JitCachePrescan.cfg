SPECIFICATION Spec
CONSTANTS
  loopOp = loopOp
  addOp = addOp
  subOp = subOp
  badOp = badOp
  N = 3
  Ops <- MCOps
  Body <- MCBody
  ControlOps = {loopOp}
  NoDescriptor = {badOp}
  Unscannable = {}
  OpBytes = 2
  MaxOpsPerChunk = 1
  MaxChunks = 1
  CacheBudgets = {1, 2, 6}
  PrescanAtAttach = {TRUE}
  PrescanForced = {FALSE}
  StorePersists = TRUE
INVARIANTS
  DispatchFaithful
  SpilledRecoverable
PROPERTIES
  GrowthWithinBudget
  InstructionCompletes
