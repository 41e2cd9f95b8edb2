SPECIFICATION Spec
CONSTANTS
  loopOp = loopOp
  addOp = addOp
  subOp = subOp
  badOp = badOp
  N = 3
  Ops <- MCOps
  Body <- MCBody
  ControlOps = {loopOp}
  NoDescriptor = {badOp}
  Unscannable = {}
  OpBytes = 1
  MaxOpsPerChunk = 0
  MaxChunks = 0
  CacheBudgets = {3}
  PrescanAtAttach = {FALSE}
  PrescanForced = {FALSE}
  StorePersists = TRUE
INVARIANTS
  DispatchFaithful
