CONSTANTS
  Clients = {1, 2}
  None = None
  Helpers = {1, 2}
  AcceptFiles = {1}
  Texts <- MCTexts
  Files <- MCFiles
  Commands <- MCCommands
  Peer <- MCPeer
  RING = 1
  TIMEOUT = 2
  IDS = 3
  MaxActs = 2
  MaxFaults = 1
SPECIFICATION FairSpec
INVARIANTS TypeOK PastedIntact CapsAreLive ClipboardsAgree
PROPERTY Settles
