SPECIFICATION EitherSpec
CONSTANTS
  Rates <- MCRates
  Lengths <- MCLengths
  MaxRuns = 2
  Runs = 2
  Chunks = 2
INVARIANT
  RateIsInTheReport
CHECK_DEADLOCK FALSE
