\* Every tree of up to two elements, three tags, two texts (one of them
\* the token of the other) and eight policies, three of
\* them with namespace prefixes.
CONSTANTS
  Names <- MCNames
  Namespaces = {none, p6}
  Values <- MCValues
  alice = alice
  Blank = blank
  NoName = noName
  Malformed = malformed
  MaxElements = 2
  Pieces <- MCPieces
  Strip <- MCStrip
  FieldLists <- MCFieldLists
  Upper <- MCUpper
  Digest <- MCDigest
SPECIFICATION Spec
INVARIANT MaskedAsDocumented
\* mask() returns or raises, and the run ends there.
CHECK_DEADLOCK FALSE
