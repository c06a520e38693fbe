\* Sessions of the console, with late replies and a reset of the Pico.
SPECIFICATION FairSpec
CONSTANTS
  Modules = {0, 1}
  Indices = {9, 18}
  Raw <- Keys
  MaxCalls = 3
  MaxLate = 2
  MaxPlugs = 1
INVARIANTS TypeOK SeenAsMeant ReturnMeansDone
PROPERTY SessionsLeaveDefaults
CHECK_DEADLOCK FALSE
