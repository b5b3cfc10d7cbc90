SPECIFICATION FairSpec
CONSTANTS
  k1 = k1
  Keys = {k1}
  MaxRecoveryAttempts = 2
  MaxStarts = 3
  MaxResumes = 1
  MayMiss = {k1}
INVARIANTS
  TypeOK
  EffectOnce
  ToldIsCheckpointed
  DrivenIsOpen
PROPERTIES
  StartLeavesNothingLive
  NothingIsLeftOpen
CHECK_DEADLOCK FALSE
