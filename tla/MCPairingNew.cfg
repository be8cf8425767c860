CONSTANTS
  N = 2
  Coordinators = {2}
  Sharing = {}
  NoKey = NoKey
  OldKey = OldKey
  MaxEvents = 3
SPECIFICATION Spec
INVARIANTS TwoButtonsPair
CHECK_DEADLOCK FALSE
