SPECIFICATION Spec
CONSTANT Scripts <- MCScripts
INVARIANTS
  TypeOK
  SplitAsWritten
CHECK_DEADLOCK FALSE
