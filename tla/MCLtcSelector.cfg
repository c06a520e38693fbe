\* docs/pico_ltc_emulator.md:96-98 and a console that swallows a transaction.
SPECIFICATION Spec
CONSTANTS
  ch0 = ch0
  ch1 = ch1
  NChips = 2
  PerModule = 1
  Groups = {"RDCVA"}
  Channels = {ch0, ch1}
  Channel0 = ch0
  Levels = {0, 1}
  Seed = 0
  FirstRead = "RDCVA"
  UsbWords = 2
  MaxXacts = 2
  MaxConsole = 0
  MaxAborts = 0
INVARIANT SelectorIsFollowed
CHECK_DEADLOCK FALSE
