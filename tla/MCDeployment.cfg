SPECIFICATION FairSpec
CONSTANTS
  Files <- MCFiles
  Stale <- MCStale
  Others <- MCOthers
INVARIANTS
  RestartFindsItWhole
PROPERTIES
  RestartRunsTheNewCode
  TouchesOnlyWhatItMay
