SPECIFICATION LoadThenExecute
CONSTANTS
  Files <- MCFiles
  Window = 4
INVARIANTS
  TypeOK
  RunnableAsDeclared
  ImmediatesExact
PROPERTIES
  LoadersExact
