CONSTANTS
  N = 3
  Boards = {1, 2, 3}
  NoAddr = NoAddr
  Uid <- MCUid
  CapsOf <- MCCapsOf
  Preempt = {3}
  Keyboard = {}
  Mortal = {1, 2, 3}
  Cables = {}
  MaxPeers = 3
  HELLO = 1
  HOLD = 2
  LEARN = 2
  DEFER = 1
  MaxFaults = 1
  MaxLoss = 0
  MaxFlight = 0
SPECIFICATION Spec
PROPERTIES TakeoverReleases
