SPECIFICATION Spec
CONSTANTS
  Configs <- BothModes
  Requests <- CallRequests
  Contents <- CleanOrExfil
  MaxRequests = 2
  MaxFrames = 2
INVARIANT TypeOK
INVARIANT OnlyTheDroppedIsUnanswered
INVARIANT NoResultAnsweredTwice
INVARIANT ActedUponUnlessUncorrelated
