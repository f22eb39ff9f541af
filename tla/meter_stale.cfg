SPECIFICATION Spec
CONSTANTS
  WORD_BYTES = 2
  U32 = 65536
  Standard = 7027
  Measured <- MCMeasured
  ControlWrites <- MCControlWrites
  ErrorRegs <- MCErrorRegs
  CalibInit <- MCCalibInit
  MC0Word = 60544
  ReadOrder <- MCReadOrder
  TLS_UART_RX_BUF_SIZE = 20
  RX_CACHE_LIMIT = 8
  Faults = {"parity"}
  MaxFaults = 1
  MaxRounds = 3
INVARIANT AnswerProcessed
