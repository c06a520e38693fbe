\* Three runs on a board in any state, three mishaps.
SPECIFICATION Spec
CONSTANTS
  NoApp = NoApp
  Images = {"short", "long"}
  Frames <- Lengths
  Versions = {0, 1}
  MaxRuns = 3
  MaxFaults = 3
INVARIANTS TypeOK FlashedHoldsImage SkippedHasVersion RetryRepairs
CHECK_DEADLOCK FALSE
