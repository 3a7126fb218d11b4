\* Three runs of the script, two with --clear, and two rows that may be there,
\* each a number: rows lie before and behind those that come to be inserted.
CONSTANTS
  Seeders = {1, 3, 5}
  Clears = {3, 5}
  Existing = {2, 4}
  Sampled = {2}
SPECIFICATION FairSpec
INVARIANTS TypeOK OneRowPerName GoneOnlyInAGap SeededIsStored NoDeadlock
PROPERTY EverySeedEnds
\* Every run of the script ends.
CHECK_DEADLOCK FALSE
