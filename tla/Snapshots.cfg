CONSTANTS
  Snapshots = {"before", "extra"}
  Target = "before"
  MaxEdits = 2
  MaxFaults = 1
  MaxMeddling = 1
  MaxWrites = 1
SPECIFICATION FairSpec
INVARIANT OnlyNewerDestroyed
INVARIANT FiresOncePerTrigger
PROPERTY ImplementsOneShot
PROPERTY EventuallyApplied
