SPECIFICATION Spec
CONSTANTS
  Peer <- MCPeer
  Prompt <- MCPrompt
  PeerTip <- MCTip
  Outbound = {"h", "s"}
  Whitelisted = {}
  Compact = {}
  Block <- MCBlock
  Parent <- MCParent
  Invalid = {4}
  Recent = {3, 4}
  Fresh = {3, 4}
  Mined = {2}
  None = None
  MAX_BLOCKS_IN_TRANSIT_PER_PEER = 1
  BLOCK_DOWNLOAD_WINDOW = 1
  MAX_HEADERS_RESULTS = 2
  MAX_OUTBOUND_PEERS_TO_PROTECT = 1
  BLOCK_STALLING_TIMEOUT = 0
  BLOCK_DOWNLOAD_TIMEOUT_BASE = 0
  BLOCK_DOWNLOAD_TIMEOUT_PER_PEER = 1
  HEADERS_DOWNLOAD_TIMEOUT = 0
  CHAIN_SYNC_TIMEOUT = 0
  HEADERS_RESPONSE_TIME = 0
  MaxConnects = 2
  MaxAnnounces = 0
INVARIANT PromptPeerKept
PROPERTY SyncsToPromptPeer
CHECK_DEADLOCK FALSE
