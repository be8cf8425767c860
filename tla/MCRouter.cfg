CONSTANTS
  N = 3
  Machines = {1, 2}
  Keyboard = 1
  Coordinators = {3}
  NoAddr = NoAddr
  SPAN = 1
  PUSH = 2
  GUARD = 1
  MaxHeld = 1
  MaxFaults = 1
  MaxFlight = 1
SPECIFICATION Spec
INVARIANTS TypeOK NoStuckKeys HandoverWaitsForKeys FocusAgrees PushMeansPinned
