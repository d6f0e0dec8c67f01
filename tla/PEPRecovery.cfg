SPECIFICATION FairSpec
CONSTANTS
  w1 = w1
  w2 = w2
  r1 = r1
  Workers = {w1}
  Recoverers = {r1}
  Authority <- MixedAuthority
  Faults = {"raise", "lost-ack", "forged-ack", "torn", "crash", "rollback"}
  MaxFaults = 2
  MaxActions = 1
  MaxRequests = 2
CHECK_DEADLOCK FALSE
INVARIANTS
  TypeOK
  OutcomesAreBacked
  RecoveryFence
  EffectsSawHealthySystem
PROPERTIES
  LatchClearsLast
  ImplementsPromise
  EveryRequestReturns
