SPECIFICATION Spec
CONSTANTS
  NULL = NULL
  shared = shared
  small = small
  large = large
  HostArrays = {small, large}
  Names = {shared}
  Length <- MCLength
  Modules <- MCModules
  Refs = {0, 1, 2}
  Words = {0, 1}
  Indices = {0, 1, 2}
INVARIANTS
  TypeOK
  AttachedAsDeclared
  TablesInForce
PROPERTIES
  GlobalsFollow
  ReferencesChecked
