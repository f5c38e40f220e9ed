CONSTANTS
  Cookies = {1, 2, 3}
  Calls = {"u"}
  Caps = {"VF1", "VF2"}
  FirstRetr = {1, 2}
  CmdExp = 1
  HrtbExp = 3
  HrtbIval = 1
  RetrIval = 5
SPECIFICATION RtppFairSpec
INVARIANTS ClientSound
PROPERTIES BackOnline
