SPECIFICATION SpecBothEnds
CONSTANTS
  Configs <- StrictBoth
  Requests <- ListRequests
  Contents <- Clean
  MaxRequests = 2
  MaxFrames = 3
 
INVARIANT NoOrphan
INVARIANT FirstListIsGated
