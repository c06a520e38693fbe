\* Safety: two runs, one of them bench-only and degraded, an operator, the
\* watchdog; two faults.
SPECIFICATION Spec
CONSTANTS
  j1 = j1
  j2 = j2
  o1 = o1
  wd = wd
  Free = Free
  Jobs = {j1, j2}
  BenchOnly = {j2}
  Degraded = {j2}
  Operators = {o1}
  BareFlashers = {}
  Watchdog = wd
  NoOne = Free
  MaxFaults = 2
INVARIANTS TypeOK NeverBricked SuiteJudgesItsImage LadderLeavesNoStaleDacs
PROPERTIES WatchdogLeavesBusyBenchAlone KeepsBenchLock
