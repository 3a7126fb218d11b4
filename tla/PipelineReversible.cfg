\* The token map of every object in the bucket, against the steps mask_document documents.
CONSTANTS
  Fields <- MCFields
  Values = {alice, bob}
  TokenOf <- MCTokenOf
  Requests = {r1, r2}
  PolicyIds = {p1}
  Rows <- MCRows
  DocIds = {d1, d2}
  NoPolicy = NoPolicy
  NoDocument = NoDocument
  NoDocId = NoDocId
  NoObject = NoObject
  NoResult = NoResult
  MaxPolicyChanges = 2
SPECIFICATION Spec
INVARIANT EveryObjectReversible
\* Every request ends and nothing follows.
CHECK_DEADLOCK FALSE
