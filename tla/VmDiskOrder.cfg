CONSTANTS
  Changing = {"vnc"}
  Values = {0}
  PowerWords = {"running", "stopped"}
  PowerManaged = TRUE
  Referring = {TRUE}
  Sources = {"a"}
  Settings = {"x", "y"}
  MaxEdits = 2
  MaxFaults = 0
  MaxMeddling = 0
SPECIFICATION FairDiskSpec
PROPERTY OrderedDiskArrives
