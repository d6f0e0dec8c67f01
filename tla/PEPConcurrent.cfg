SPECIFICATION Spec
CONSTANTS
  w1 = w1
  w2 = w2
  r1 = r1
  Workers = {w1, w2}
  Recoverers = {}
  Authority <- MixedAuthority
  Faults = {"raise", "lost-ack", "forged-ack", "torn", "crash", "rollback"}
  MaxFaults = 1
  MaxActions = 0
  MaxRequests = 2
CHECK_DEADLOCK FALSE
INVARIANTS
  EffectsOnProtectedChain
  LogLeadsByAtMostOne
  AuthorityNeverRollsBack
