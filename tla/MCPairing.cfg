CONSTANTS
  N = 3
  Coordinators = {3}
  Sharing = {1, 2, 3}
  NoKey = NoKey
  OldKey = OldKey
  MaxEvents = 3
SPECIFICATION Spec
INVARIANTS TypeOK KeysAreShared ThirdPartyAborts TwoButtonsPair
CHECK_DEADLOCK FALSE
