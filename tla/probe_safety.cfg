\* Every terminal, answers cut and mixed with keys, a self-pipe nobody drains.
SPECIFICATION FairSpec
CONSTANTS
  Envs <- Tiers
  Budget = 1
  Chunk = 3
  MaxJunk = 2
INVARIANTS
  TypeOK
  CapsAreWhatWasHeard
  AnswersReadAreHeard
PROPERTIES
  ImplementsLease
  ProbeEnds
CHECK_DEADLOCK FALSE
