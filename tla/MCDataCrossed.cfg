CONSTANTS
  A = A
  B = B
  v = v
  w = w
  x = x
  y = y
  z = z
  Ends = {A, B}
  Transfers = {v, w, x, y, z}
  From <- MCFrom
  Bytes <- MCBytes
  ChunkBytes = 2
  SEQ = 5
  IDS = 3
  Slots = 1
  Window = 2
  MaxInbound = 11
  OfferRetries = 1
  MaxRetries = 1
  MaxBacklog = 0
  MaxFaults = 1
  Loads <- MCCrossed
SPECIFICATION LiveSpec
PROPERTIES EveryTransferEnds
CHECK_DEADLOCK FALSE
