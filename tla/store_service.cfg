SPECIFICATION FairSpec
CONSTANTS
  TIME_LEN = 1
  HOUR = 1
  TimeLimits <- HourLimits
  TimeDefaults <- HourDefaults
  ENERGY_LEN = 1
  CLEAR_LEN = 2
  Rom <- MCRom
  Addrs <- ServiceAddrs
  Sent <- ScreenSent
  Noise = {}
  SaveOrder <- HourOrder
  TimeInit <- HourInit
  ClockReset = 102
  CALIB_LEN = 1
  VOLT_LEN = 1
  CalibBytes = {7}
  BusTasks = {"lcd", "uart1", "rcv"}
  UDPACK_SIZE = 8
  MaxClashes <- Unbounded
  MaxLoss = 0
INVARIANT VerifiedAck
PROPERTIES NoStrayWrite CommandAnswered
