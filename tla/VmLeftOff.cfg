CONSTANTS
  Changing = {"cpu", "vnc"}
  Values = {0, 1}
  PowerWords = {"running", "stopped"}
  PowerManaged = FALSE
  Referring = {TRUE}
  MaxEdits = 1
  MaxFaults = 1
  MaxMeddling = 0
SPECIFICATION FairSpec
PROPERTY RebootIsBrief
