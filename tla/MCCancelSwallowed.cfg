SPECIFICATION Spec
CONSTANTS
  MaxChunks = 2
  BlankChunks <- NoneIsBlank
  SourceFaults = {}
  MaxFrames = 3
  MaxWarnings = 1
  EarlyMetadata = FALSE
INVARIANT
  CancelledTurnStops
