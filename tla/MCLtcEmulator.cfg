\* Two chips, two channels, three transactions and one console command, one loss of power.
SPECIFICATION Spec
CONSTANTS
  ch0 = ch0
  ch1 = ch1
  NChips = 2
  PerModule = 1
  Groups = {"RDCVA"}
  Channels = {ch0, ch1}
  Channel0 = ch0
  Levels = {0, 1}
  Seed = 0
  FirstRead = "RDCVA"
  UsbWords = 12
  MaxXacts = 3
  MaxConsole = 1
  MaxAborts = 1
INVARIANTS TypeOK AnswersItsCommand NextOneIsRight SelectorIsKept
CHECK_DEADLOCK FALSE
