SPECIFICATION Spec
CONSTANTS
  Files <- MCFiles
  Stale <- MCStale
  Others <- MCOthers
INVARIANTS
  DryRunListsDeletions
