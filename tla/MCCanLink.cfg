\* Two handler threads, two controllers, a failing ip link, an outside restart.
SPECIFICATION Spec
CONSTANTS
  can0 = can0
  can2 = can2
  t1 = t1
  t2 = t2
  NoOne = NoOne
  Controllers = {can0, can2}
  Threads = {t1, t2}
  MaxFailures = 1
  MaxOutside = 1
SYMMETRY ThreadsAreAlike
INVARIANTS TypeOK HealthyTestsPass SocketFollowsLink
