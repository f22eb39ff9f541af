SPECIFICATION Spec
CONSTANTS
  WIFI_QUEUE_SIZE = 2
  KEY_LONG_COUNT = 1
  MaxHold = 1
  KeyLevels = {}
  BLINK_ON = 1
  BLINK_PERIOD = 2
  Sockets = {0, 1}
  Peers = {p1, p2}
  Kinds = {"read", "write"}
  WriteAckLen = 1
  ReadAckLen = 2
  U16 = 4
  U32 = 8
  MboxSize = 1
  NetEvents = {"disconnect", "addrchange"}
  MayFail = {"alloc", "socket", "send"}
  Pipelined = TRUE
  NULL = NULL
  NoData = NoData
  Nobody = Nobody
INVARIANTS TypeOK RecordBeforeUse ConnMeansBound ReplyMatches
PROPERTY ServiceRefined
SYMMETRY PeerSymmetry
