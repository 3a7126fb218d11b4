\* Two requests, one policy id, three row contents, two writes to the table,
\* documents of two fields over two texts.
CONSTANTS
  Fields <- MCFields
  Values = {alice, bob}
  TokenOf <- MCTokenOf
  Requests = {r1, r2}
  PolicyIds = {p1}
  Rows <- MCRows
  DocIds = {d1, d2}
  NoPolicy = NoPolicy
  NoDocument = NoDocument
  NoDocId = NoDocId
  NoObject = NoObject
  NoResult = NoResult
  MaxPolicyChanges = 2
SPECIFICATION FairSpec
INVARIANTS TypeOK AnswerReverses RefusedLeavesNothing
PROPERTIES ObjectsAreFinal KeepsPromise 
\* Every request ends and nothing follows.
CHECK_DEADLOCK FALSE
