SPECIFICATION FairMigrationSpec
CONSTANTS
  m1 = m1
  m2 = m2
  m3 = m3
  NoRunner = NoRunner
  Runners <- MCRunners
  Retried <- MCRetried
  Guarded <- MCGuarded
  NumFiles = 4
INVARIANTS
  FilesInOrder
  OneCreator
  SuccessMeansComplete
PROPERTIES
  SchemaCompletes
