CONSTANTS
  first = first
  second = second
  own = own
  any = any
  exact = exact
  name = name
  short = short
  long = long
  b1 = b1
  b2 = b2
  Cell = {0, 1}
  PageCells = 1
  Memories = {own, any, exact}
  MinPages <- MCImportMin
  MaxPages <- MCImportMax
  Segments <- MCActive
  Buffers = {b1, b2}
  HostBuffers = {short, long}
  HostSize <- MCHostSize
  Imported = {any, exact}
  Names = {name}
  NameOf <- MCNameOf
  Top = 2
  MaxBytes = 1
  Widths = {1}
  NULL = NULL
  Freed = Freed
  Unbound = Unbound
SYMMETRY MCFree
SPECIFICATION Spec
INVARIANTS BindingInForce WithinLimits
PROPERTIES LostByRebind LinearMemorySpec
