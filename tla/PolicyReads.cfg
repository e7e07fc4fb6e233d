SPECIFICATION ReadSpec
CONSTANTS
  BucketIds = {"", "a", "b"}
  DefaultBucket = ""
  InvalidIds = {}
  Features = {"x", "y"}
  PluginTypes = {10}
  OtherTypes = {}
  NoMeta = "no metadata"
  Inserts = {}
  Deletes = {}
  DefaultResults <- NoDefaults
  Filters <- OneFilter
  MaxPolicies = 3
INVARIANTS
  SearchSound
PROPERTIES
  EraseEnds
CHECK_DEADLOCK FALSE
