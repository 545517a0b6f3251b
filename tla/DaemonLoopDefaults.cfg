SPECIFICATION LoopSpec
CONSTANTS
  Tickers <- MCTickers
  Profiles <- DefaultProfiles
PROPERTIES
  EveryTaskRuns
