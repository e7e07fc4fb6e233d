SPECIFICATION SysSpec
CONSTANTS
  Clients = {x}
  ClientLinks = {c1, c2}
  AgentLinks = {a1, a2}
  AgentTypes = {"ask"}
  Keys = {k1, k2}
  CheckIds = {0, 1}
  IdModulus = 2
  NoLink = NoLink
  NoCheck = NoCheck
  NoData = NoData
  Policies <- AskPolicies
  DbStates = {FALSE}
  MaxRequests = 2
  Disturbances = {"leave", "change", "finish", "cancel", "stop"}
  MaxFaults = 1
SYMMETRY LinkSymmetry
INVARIANTS
  ResponsesExpected
  AnswersApplied
  ContextsSound
CHECK_DEADLOCK FALSE
