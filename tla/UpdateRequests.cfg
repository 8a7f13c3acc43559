SPECIFICATION FairSpec
CHECK_DEADLOCK FALSE
CONSTANTS
  core = core
  os = os
  addon = addon
  Items = {os, addon}
  TypeOf <- MCTypeOf
  NameRank <- MCNameRank
  Versions <- MCVersions
  Bucket <- MCBucket
  Policies <- MCPolicies
  Old = 2
  OwnBackups = {1}
INVARIANTS NoVersionBeyondPolicy BackupIsKept UpdatedWasDone
PROPERTIES OsIsLast ActsAsAccount RunAdvances RunEnds
