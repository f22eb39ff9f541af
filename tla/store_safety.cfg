SPECIFICATION Spec
CONSTANTS
  TIME_LEN = 2
  HOUR = 2
  TimeLimits <- MCTimeLimits
  TimeDefaults <- MCTimeDefaults
  ENERGY_LEN = 1
  CLEAR_LEN = 2
  Rom <- MCRom
  Addrs <- SafetyAddrs
  Sent <- SafetySent
  Noise = {0, 18}
  SaveOrder <- MCSaveOrder
  TimeInit <- MCTimeInit
  ClockReset = 102
  CALIB_LEN = 2
  VOLT_LEN = 1
  CalibBytes = {}
  BusTasks = {"rtc", "rcv"}
  UDPACK_SIZE = 8
  MaxClashes <- Unbounded
  MaxLoss = 1
INVARIANTS StoreTypeOK VerifiedAck OnlyIntactCommands AckWellFormed
PROPERTY NoStrayWrite
