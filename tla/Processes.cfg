SPECIFICATION Spec
CONSTANTS
  Questions <- MCQuestions
  Capacity = 1
  MonitorCapacity = 1
  MaxVersion = 1
  MaxStops = 1
  MaxCalls = 3
  TypeOf <- MCTypeOf
  PluginOf <- MCPluginOf
  MaxRequests = 2
  MaxLosses = 2
  MaxCancels = 2
  Buckets = {"", "a", "x!"}
  Default = ""
  Invalid = {"x!"}
  Operations <- MCOperations
  MaxOps = 2
  MaxOthers = 1
  MaxStarts = 2
  Getters = {"g1", "g2"}
  MaxGets = 3
  MaxFlushes = 2
  MaxHangUps = 1
  StartLines <- MCStartLines
  Accounts <- MCAccounts
  Starters <- MCStarters
  Directories <- MCDirectories
  ServiceTypes = {10, 11, 12}
  MaxEvents = 2
INVARIANTS
  CrashOnlyByMissingPlugin
  DecisionFresh
  EntriesOnce
  NoLostUpdate
  SuccessMeansDone
  DeletedAfterGet
  LibraryOutlivesPlugin
  CrashNeedsOrphanType
  FirstClaimWins
PROPERTIES
  RequestFetched
  CallsReturn
CHECK_DEADLOCK FALSE
