\* Two buses, one stream with a queue of one, four frames.
SPECIFICATION FairSpec
CONSTANTS
  can0 = can0
  can1 = can1
  s1 = s1
  Buses = {can0, can1}
  Streams = {s1}
  QueueMax = 1
  HistoryMax = 2
  BackfillMax = 2
  MaxFrames = 4
INVARIANTS TraceTypeOK StreamsHaveNoHole
PROPERTIES ReadersNeverWait DeadStreamsLeave
CHECK_DEADLOCK FALSE
