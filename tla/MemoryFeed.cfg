SPECIFICATION FeedSpec
CONSTANTS
    c1 = c1
    c2 = c2
    a1 = a1
    a2 = a2
    NoInput = NoInput
    Gone = Gone
    Claims = {c1, c2}
    InputOf <- MCInputOf
    Attempts = {a1, a2}
    ClaimOf <- MCClaimOf
    Corrections = {k1}
    Mirrored = {m1}
    Readers = {asker}
    Asker = asker
    Viewer = asker
    Texts = {t1}
    MaxRevokes = 1
    MaxEdits = 1
    MaxCrashes = 1
    Batch = 2
    Reloads = {r1}
INVARIANTS
  FeedTypeOK
  ResultsFollowTheirInputs
  NothingIsMissed
PROPERTIES
  CorrectionReplacesWhatWasRead
CHECK_DEADLOCK FALSE
