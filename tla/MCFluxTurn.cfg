SPECIFICATION FairSpec
CONSTANTS
  MaxChunks = 4
  BlankChunks <- OddOnesBlank
  SourceFaults = {"network", "runtime", "other"}
  MaxFrames = 5
  MaxWarnings = 2
  EarlyMetadata = FALSE
INVARIANTS
  TypeOK
  OneContainer
  BatchSpeaksAllThatWasRead
  DrainsAlone
  FlushComesLast
  CleanEndWasSentWhole
  KeyRejectionSurfaces
PROPERTIES
  CancellationIsHeard
  ReceivingEnds
  AbandonedTurnIsClosed
  ContractSpec
