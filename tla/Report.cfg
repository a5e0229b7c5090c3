CONSTANTS
  Regions = {east, west, asia}
  Collectors = {east}
  Labelled = {east, west, asia}
  Blocks = {b1, b2}
  Endpoints = {a, b, c, d}
  a = a
  b = b
  c = c
  d = d
  PoolOf <- MCPoolOf
  Rosters <- MCRosters
  Samples <- MCSamples
  Outcomes <- MCOutcomes
  TlsEndpoints = {c}
  Solo = {a, c, d}
  Worker = 0
  MaxSats = 100
  MaxStored = 1
  MinPools = 2
  MissPct = 60
  RetentionWindow = 1
  StaleAfter = 0
  LatencyWindow = 0
  FeeIncreaseWindow = 1
  MaxTime = 2
  MaxLog = 3
SPECIFICATION Spec
INVARIANTS
  RegionalAgreesWithGlobal NoObserverOutageIsCounted PoolOutagesStayVisible BlocksAreIndependent
  FirstArrivalWins WinsAreEligible WalletOverrides MissingEvidenceIsNotFailure
PROPERTIES RepeatedBatchIsInvisible
SYMMETRY Symmetry
CHECK_DEADLOCK FALSE
