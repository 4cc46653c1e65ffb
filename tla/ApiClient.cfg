CONSTANTS
  Calls = {"c1", "c2"}
  Decoding = {"c1"}
  MaxTokens = 4
SPECIFICATION FairSpec
INVARIANT TypeOK
INVARIANT AtMostOnce
INVARIANT LoginErrorMeansUntouched
INVARIANT OkMeansExecuted
PROPERTY TokenNeverRegresses
PROPERTY RetryIsFresher
PROPERTY ImplementsApiCall
PROPERTY EveryCallReturns
