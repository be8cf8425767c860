CONSTANTS
  N = 2
  Boards = {1, 2}
  NoAddr = NoAddr
  Uid <- MCUid
  CapsOf <- MCCapsOf
  Preempt = {2}
  Keyboard = {1}
  Mortal = {1, 2}
  Cables = {1}
  MaxPeers = 2
  HELLO = 1
  HOLD = 3
  LEARN = 2
  DEFER = 1
  MaxFaults = 1
  MaxLoss = 1
  MaxFlight = 2
SPECIFICATION FairSpec
INVARIANT Converged
PROPERTIES RoleStable EventuallyAgreed
