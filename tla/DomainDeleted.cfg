CONSTANTS
  UnknownRoute = "page"
  MaxFaults = 0
  MaxMeddling = 1
  MaxQueue = 2
SPECIFICATION FairSpec
PROPERTY DeletionDetected
