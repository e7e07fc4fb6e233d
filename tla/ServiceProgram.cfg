SPECIFICATION Spec
CONSTANTS
  ConfTexts <- MCConfTexts
  Lower <- MCLower
  Programs <- MCPeers
  Self <- MCSelf
  Pids = {"2", "3"}
  BusFields <- MCBusFields
  MaxEdits = 1
  MaxProcs = 2
  Keys = {"k1", "k2"}
  Ids = {1, 2}
  MaxRequests = 2
  MaxOthers = 1
  MaxDepth = 2
  MaxStops = 1
  Capacity = 1
  MonitorCapacity = 2
  PluginOf <- MCPluginOf
INVARIANTS
  HelpersAgree
  OneCallbackEach
  FinishWhenQuiet
PROPERTIES
  RequestsAnswered
CHECK_DEADLOCK FALSE
