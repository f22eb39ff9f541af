SPECIFICATION FairSpec
CONSTANTS
  WIFI_QUEUE_SIZE = 4
  KEY_LONG_COUNT = 1
  MaxHold = 1
  KeyLevels = {0, 1}
  BLINK_ON = 1
  BLINK_PERIOD = 2
  Sockets = {0, 1}
  Peers = {p1}
  Kinds = {"write", "junk", "empty"}
  WriteAckLen = 1
  ReadAckLen = 2
  U16 = 4
  U32 = 8
  MboxSize = 1
  NetEvents = {}
  MayFail = {}
  Pipelined = FALSE
  NULL = NULL
  NoData = NoData
  Nobody = Nobody
INVARIANT ReplyMatches
PROPERTIES RequestAnswered ServiceRecovers PromptServiceRefined
