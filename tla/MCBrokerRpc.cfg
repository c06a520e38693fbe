\* A polling thread and a tool that also sends notifications, three calls each,
\* timeouts and a restart of the broker.
SPECIFICATION FairSpec
CONSTANTS
  poll = poll
  tool = tool
  Clients = {poll, tool}
  Cached = {poll}
  Notifiers = {tool}
  MaxCalls = 3
  MaxTimeouts = 1
  MaxStops = 1
INVARIANTS TypeOK OwnAnswer OrderOnOneConnection
PROPERTIES KeepsCallContract CallsEnd
CHECK_DEADLOCK FALSE
