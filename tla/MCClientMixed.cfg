CONSTANTS
  Clients = {1, 2, 3}
  None = None
  Helpers = {1}
  AcceptFiles = {}
  Texts <- MCTexts
  Files <- MCFiles
  Commands <- MCTextCommands
  Peer <- MCPeer
  RING = 1
  TIMEOUT = 2
  IDS = 3
  MaxActs = 2
  MaxFaults = 0
SPECIFICATION Spec
INVARIANT PastedIntact
