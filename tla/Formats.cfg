SPECIFICATION Spec
CONSTANTS
  MaxIdLength = 2
  CountModulus = 3
  Ends <- MCEnds
  Sendable <- MCSendable
  MaxMessages = 2
  MaxChunks = 1
  Databases <- MCDatabases
  DefaultBucket <- MCDefaultBucket
  DenyType = 0
  MaxDamages = 2
  PluginTypes = {10}
  IdLengthLimit = 3
  MaxVectorSize = 3
  CommandLines <- MCCommandLines
  Descriptions <- MCDescriptions
  BulkFiles <- MCBulkFiles
  FirstBases <- MCFirstBases
  MaxRuns = 3
INVARIANTS
  QuietMeansDelivered
  LoadedIsSaved
  ListingRestores
PROPERTIES
  ImplementsChannel
CHECK_DEADLOCK FALSE
