\* The log of a process that runs past midnight.
CONSTANTS
  NotGiven = NotGiven
  NoFile = NoFile
  Stopped = Stopped
  Deployments <- MCDeployments
  LastDay = 2
  MaxLines = 2
SPECIFICATION Spec
INVARIANT LinesInTheirDaysFile
