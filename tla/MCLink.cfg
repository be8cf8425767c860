CONSTANTS
  N = 3
  Wirings = {FALSE, TRUE}
  Broadcast = Broadcast
  TTL = 3
  MaxSeen = 2
  SEQ = 4
  JUMP = 1
  Senders = {1}
  Types = {"PAIR", "OTHER"}
  Dsts = {3, Broadcast}
  MaxSend = 5
  MaxFaults = 2
  MaxRingFaults = 1
SPECIFICATION Spec
INVARIANTS TypeOK MapIsTrue DeafnessBounded EveryFrameArrives NoStorm
PROPERTIES DeliveredOnceInOrder
CHECK_DEADLOCK FALSE
