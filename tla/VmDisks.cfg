CONSTANTS
  Changing = {"vnc"}
  Values = {0, 1}
  PowerWords = {"running", "stopped"}
  PowerManaged = TRUE
  Referring = {TRUE, FALSE}
  Sources = {"a", "b"}
  Settings = {"x", "y"}
  MaxEdits = 1
  MaxFaults = 1
  MaxMeddling = 1
SPECIFICATION FairDiskSpec
INVARIANT FirstBootInOrder
PROPERTY NoHalfReplacement
PROPERTY StoppedVmArrives
