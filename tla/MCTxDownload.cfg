CONSTANTS
  Peers = {"h", "d"}
  Hashes = {1, 3, 9}
  Salt <- MCSalt
  Past = 0
  Txs = {"parent", "bare", "c1", "c2", "other"}
  TxData <- MCTxData
  ORPHAN_TX_EXPIRE_TIME = 1
  ORPHAN_TX_EXPIRE_INTERVAL = 1
  Preferred = {"d"}
  WtxidRelay = {"d"}
  Unlimited = {}
  Announces <- MCAnnounces
  Sends <- MCSends
  Honest = {"h"}
  Blocks <- MCBlocks
  MAX_PEER_TX_ANNOUNCEMENTS = 2
  MAX_PEER_TX_REQUEST_IN_FLIGHT = 1
  MaxOrphans = 2
  NONPREF_PEER_TX_DELAY = 1
  TXID_RELAY_DELAY = 1
  OVERLOADED_PEER_TX_DELAY = 1
  GETDATA_TX_INTERVAL = 2
SPECIFICATION Spec
INVARIANTS SanityCheck  OrphansQueued
PROPERTIES AskedOnce TxArrives
CHECK_DEADLOCK FALSE
