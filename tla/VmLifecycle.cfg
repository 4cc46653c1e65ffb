CONSTANTS
  Changing = {"cpu", "vnc", "cloudInit"}
  Values = {0, 1}
  PowerWords = {"running", "stopped"}
  PowerManaged = TRUE
  Referring = {TRUE}
  MaxEdits = 2
  MaxFaults = 2
  MaxMeddling = 1
SPECIFICATION FairSpec
INVARIANT TypeOK
INVARIANT NoSelfCollision
INVARIANT AtMostOneRestart
INVARIANT RecordedIsLive
INVARIANT FailureLeavesPrefix
PROPERTY EventuallyConverges
