SPECIFICATION Spec
CONSTANTS
  KEY_LONG_COUNT = 1
  MaxHold = 2
  BLINK_ON = 1
  BLINK_PERIOD = 2
  Times <- MCTimes
  MaxMsgs = 1
INVARIANTS PanelTypeOK OneMessagePerPress LongPressReported KeyInv IconTellsLink
PROPERTIES ScreenComplete EveryPressReported
