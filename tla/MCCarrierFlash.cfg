\* Runs of flash_dut and requests to the dashboard in the middle of them.
SPECIFICATION Spec
CONSTANTS
  p1 = p1
  Slots = {2, 3, 4}
  Duts = {"ams", "ecu"}
  Declares <- Bench
  Ids = {1, 2}
  ProfileId <- Profiles
  Pages = {p1}
  MaxRuns = 2
  MaxClicks = 2
INVARIANTS TypeOK OnlyTargetPowered
PROPERTIES OnlyTargetRewritten RelaysAsBefore
CHECK_DEADLOCK FALSE
