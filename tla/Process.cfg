\* Every deployment, two days, restarts, two log lines.
CONSTANTS
  NotGiven = NotGiven
  NoFile = NoFile
  Stopped = Stopped
  Deployments <- MCDeployments
  LastDay = 2
  MaxLines = 2
SPECIFICATION Spec
INVARIANTS TypeOK ProductionHidesInternals EnvironWins OwnFileOnly
