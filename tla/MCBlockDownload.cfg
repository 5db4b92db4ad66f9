SPECIFICATION Spec
CONSTANTS
  Peer <- MCPeer
  Prompt <- MCPrompt
  PeerTip <- MCTip
  Outbound = {"h", "s"}
  Whitelisted = {}
  Compact = {"h", "s"}
  Block <- MCBlock
  Parent <- MCParent
  Invalid = {4}
  Recent = {0, 1, 2, 3, 4}
  Fresh = {0, 1, 2, 3, 4}
  Mined = {}
  None = None
  MAX_BLOCKS_IN_TRANSIT_PER_PEER = 1
  BLOCK_DOWNLOAD_WINDOW = 2
  MAX_HEADERS_RESULTS = 2
  MAX_OUTBOUND_PEERS_TO_PROTECT = 1
  BLOCK_STALLING_TIMEOUT = 0
  BLOCK_DOWNLOAD_TIMEOUT_BASE = 0
  BLOCK_DOWNLOAD_TIMEOUT_PER_PEER = 0
  HEADERS_DOWNLOAD_TIMEOUT = 0
  CHAIN_SYNC_TIMEOUT = 0
  HEADERS_RESPONSE_TIME = 0
  MaxConnects = 1
  MaxAnnounces = 1
INVARIANTS TypeOK DownloadTablesAgree
CHECK_DEADLOCK FALSE
