SPECIFICATION Spec
CONSTANTS
  loopOp = loopOp
  addOp = addOp
  subOp = subOp
  badOp = badOp
  N = 3
  Ops <- MCOps
  Body <- MCBody
  ControlOps = {loopOp}
  NoDescriptor = {badOp}
  Unscannable = {2}
  OpBytes = 1
  MaxOpsPerChunk = 0
  MaxChunks = 0
  CacheBudgets = {3}
  PrescanAtAttach = {TRUE, FALSE}
  PrescanForced = {TRUE, FALSE}
  StorePersists = FALSE
INVARIANTS
  TypeOK
  BytesAccounted
  EntryConsistent
  DispatchFaithful
  SpilledRecoverable
PROPERTIES
  GrowthWithinBudget
  RequesterKeepsProgram
  SpilledUntilReloaded
