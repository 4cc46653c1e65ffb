CONSTANTS
  Resources = {"nicA", "nicB"}
  TypeOf <- TwinTypes
  KeyOf <- TwinKeys
  Cleans <- TwinCleans
  Configurations <- TwinConfigurations
  MaxEdits = 0
  MaxFaults = 0
  MaxMeddling = 0
SPECIFICATION Spec
INVARIANT NoAlias
