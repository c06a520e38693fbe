\* docs/broker-api.md:224 and a link that was in loopback before.
SPECIFICATION Spec
CONSTANTS
  can0 = can0
  can2 = can2
  t1 = t1
  t2 = t2
  NoOne = NoOne
  Controllers = {can2}
  Threads = {t1}
  MaxFailures = 0
  MaxOutside = 0
INVARIANT NormalIsNotLoopback
