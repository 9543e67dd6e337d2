SPECIFICATION EitherSpec
CONSTANTS
  Rates <- MCRates
  Lengths <- MCLengths
  MaxRuns = 2
  Runs = 2
  Chunks = 2
INVARIANTS
  WrongRateIsNoticed
  QuietTurnPlaysOnTime
  MatchIsEarned
  CleanRunWasSpoken
  RunsAreMeasuredAlone
CHECK_DEADLOCK FALSE
