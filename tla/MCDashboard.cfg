\* Requests of two pages and a tool, the poll, and a call that fails.
SPECIFICATION FairSpec
CONSTANTS
  Threads = 2
  Poller = poller
  Tool = tool
  NoCall = NoCall
  Slots = {"K1", "K2"}
  Channels = {"A"}
  Volts = {1}
  MaxClicks = 2
  MaxFaults = 1
INVARIANTS TypeOK MemoryIsTrue
PROPERTIES KeepsBusContract StatusCatchesUp
