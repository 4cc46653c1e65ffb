CONSTANTS
  Resources = {"nicA", "nicB", "vol", "vm", "obj", "iso", "img", "disk"}
  TypeOf <- MixedTypes
  KeyOf <- MixedKeys
  Cleans <- MixedCleans
  Configurations <- MixedConfigurations
  MaxEdits = 1
  MaxFaults = 2
  MaxMeddling = 1
SPECIFICATION FairSpec
INVARIANT NothingLost
INVARIANT RecordsOwnNewest
INVARIANT NoAlias
INVARIANT OkMeansThere
PROPERTY NeverDeletesForeign
PROPERTY EventuallySettled
