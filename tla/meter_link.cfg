SPECIFICATION FairSpec
CONSTANTS
  WORD_BYTES = 2
  U32 = 65536
  Standard = 7027
  Measured <- MCMeasured
  ControlWrites <- MCControlWrites
  ErrorRegs <- MCErrorRegs
  CalibInit <- MCCalibInit
  MC0Word = 60544
  ReadOrder <- MCReadOrder
  TLS_UART_RX_BUF_SIZE = 20
  RX_CACHE_LIMIT = 8
  Faults = {"lost", "late", "split", "parity"}
  MaxFaults = 2
  MaxRounds = 3
INVARIANTS MeterTypeOK RingBounded BackBufIntact WholeAnswerProcessed VerifiedWrite AcceptedIsReading
PROPERTY MeteringStarts
