SPECIFICATION Spec
CONSTANTS
  BucketIds = {"", "a", "b", "?"}
  DefaultBucket = ""
  InvalidIds = {"?"}
  Features = {"x"}
  PluginTypes = {10}
  OtherTypes = {11}
  NoMeta = "no metadata"
  Inserts <- TreeInserts
  Deletes <- SomeDeletes
  DefaultResults <- SomeDefaults
  Filters <- SomeFilters
  MaxPolicies = 3
CONSTRAINT NearDisk
INVARIANTS
  DatabaseSound
  OkIsSaved
PROPERTIES
  RefusedUnchanged
  EraseExact
