\* Two starts of a server with one provider of each family.
SPECIFICATION Spec
CONSTANTS
  HistoryProviders <- OneHistory
  TelemetryProviders <- OneTelemetry
  SharedNames = {"a", "b"}
  Configurations <- MCConfigurations
  MaxStarts = 2
  MaxUpdates = 1
INVARIANTS
  TypeOK
  NothingOld
  ExactDirectories
  OldFilesGone
  LeftoversHarmless
CHECK_DEADLOCK FALSE
