CONSTANTS
  UnknownRoute = "page"
  MaxFaults = 2
  MaxMeddling = 2
  MaxQueue = 2
SPECIFICATION FairSpec
INVARIANT TypeOK
INVARIANT OkMeansReached
INVARIANT GoneMeansDeleted
INVARIANT EitherGenerationServed
PROPERTY EveryOpReturns
