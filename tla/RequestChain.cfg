\* Two requests from one address, two callers, a limit of one per window.
CONSTANTS
  Requests = {r1, r2}
  Incoming <- MCIncoming
  NoToken = NoToken
  Nobody = Nobody
  NotString = NotString
  RequiredScopes = {"write"}
  Limits <- MCLimits
  MaxWindows = 2
SPECIFICATION Spec
INVARIANTS TypeOK LinesNameTheirCaller CountedAsAnswered WithinLimit RefusedWhenUsedUp
PROPERTIES KeepsTheGate
\* Every request is answered, and nothing follows.
CHECK_DEADLOCK FALSE
