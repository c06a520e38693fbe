\* One run, an operator, a hand run of flash_dut and the watchdog; one fault.
SPECIFICATION FairSpec
CONSTANTS
  b1 = b1
  j1 = j1
  o1 = o1
  wd = wd
  Free = Free
  Jobs = {j1}
  BenchOnly = {}
  Degraded = {}
  Operators = {o1}
  BareFlashers = {b1}
  Watchdog = wd
  NoOne = Free
  MaxFaults = 1
PROPERTIES Repaired RunsEnd
