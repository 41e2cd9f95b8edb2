CONSTANTS
  first = first
  second = second
  own = own
  any = any
  exact = exact
  name = name
  short = short
  long = long
  b1 = b1
  b2 = b2
  b3 = b3
  Cell = {0, 1}
  PageCells = 1
  Memories = {first, second}
  MinPages <- MCMin
  MaxPages <- MCMax
  Segments <- MCPassive
  Buffers = {b1, b2, b3}
  HostBuffers = {}
  HostSize <- MCNone
  Imported = {}
  Names = {}
  NameOf <- MCNone
  Top = 2
  MaxBytes = 2
  Widths = {1, 2}
  NULL = NULL
  Freed = Freed
  Unbound = Unbound
SPECIFICATION Spec
INVARIANTS TypeOK NoBufferLost GoneIsSpilled WithinLimits
PROPERTY LinearMemorySpec
