SPECIFICATION FairSpec
CONSTANTS
  Clients = {x}
  ClientLinks = {c1, c2}
  AgentLinks = {a1}
  AgentTypes = {"ask"}
  Keys = {k1}
  CheckIds = {0}
  IdModulus = 4
  NoLink = NoLink
  NoCheck = NoCheck
  NoData = NoData
  Policies <- MixedPolicies
  DbStates = {FALSE}
  MaxRequests = 2
  Disturbances = {"leave", "change", "finish", "stop", "simple", "late"}
  MaxFaults = 2
INVARIANTS
  CacheFresh
PROPERTIES
  ServiceSpec
  CallbackEventually
  ContextsEventuallyFreed
CHECK_DEADLOCK FALSE
