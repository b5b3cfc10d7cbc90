SPECIFICATION OutboxFairSpec
CONSTANTS
    c1 = c1
    c2 = c2
    a1 = a1
    a1b = a1b
    a2 = a2
    k1 = k1
    Other = Other
    Publications = {c1, c2}
    Threads = {a1, a1b, a2, k1}
    Writes <- MCWrites
    MaxFailures = 2
    MaxDeaths = 2
INVARIANTS
  RecordMatchesOutbox
PROPERTIES
  PublicationIsRecorded
CHECK_DEADLOCK FALSE
