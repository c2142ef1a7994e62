\* Two batches, of up to two lines and up to one, one at a time, and one restart.
SPECIFICATION FairSpec
CONSTANTS
  Batches = {1, 2}
  MaxLines = 2
  Sizes <- MCSizes
  MaxConcurrent = 1
  MaxAttempts = 2
  MaxLives = 2
INVARIANTS
  TypeOK
  NoReplay
  CancelSendsAtMostOne
  CompletedAccounts
  LoopOwnsBatch
PROPERTIES
  ImplementsLedger
  EndIsFinal
  BatchEnds
