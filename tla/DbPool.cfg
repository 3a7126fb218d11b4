\* More users than connections, one of two connections an overflow one.
CONSTANTS
  Masks = {m1, m2}
  Probes = {h1}
  Startup = lifespan
  Slots = {s1, s2}
  PoolSize = 1
  Closed = Closed
  Nobody = Nobody
  MaxRestarts = 2
SPECIFICATION FairSpec
INVARIANTS TypeOK HealthIsOfNow EveryConnectionIsOwed
PROPERTIES LostInItsOwnOutage ConnectionsComeBack AskersGetAnAnswer
\* Every request ends and nothing follows.
CHECK_DEADLOCK FALSE
