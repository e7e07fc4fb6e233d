SPECIFICATION FairSpec
CONSTANTS
  Clients = {x}
  ClientLinks = {c1, c2}
  AgentLinks = {a1, a2}
  AgentTypes = {"ask"}
  Keys = {k1}
  CheckIds = {0}
  IdModulus = 4
  NoLink = NoLink
  NoCheck = NoCheck
  NoData = NoData
  Policies <- AskPolicies
  DbStates = {FALSE}
  MaxRequests = 2
  Disturbances = {"cancel"}
  MaxFaults = 1
CHECK_DEADLOCK FALSE
PROPERTY CallbackEventually
