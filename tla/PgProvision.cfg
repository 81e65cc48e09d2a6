\* Three server nodes provision one database with a namespace of its own.
SPECIFICATION FairSpec
CONSTANTS
  n1 = n1
  n2 = n2
  n3 = n3
  Nodes = {n1, n2, n3}
  Server = Server
  Total = 4
  SchemaEnd = 2
  VersionAt = 2
  Extension = {3}
  FileStarts = {1, 4}
  Named = TRUE
  MaxFaults = 2
INVARIANTS
  TypeOK
  ReadySchema
PROPERTIES
  UnfinishedForever
  EventuallyReady
  ImplementsImport
CHECK_DEADLOCK FALSE
