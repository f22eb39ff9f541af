SPECIFICATION Spec
CONSTANTS
  TIME_LEN = 2
  HOUR = 2
  TimeLimits <- MCTimeLimits
  TimeDefaults <- MCTimeDefaults
  ENERGY_LEN = 1
  CLEAR_LEN = 2
  Rom <- MCRom
  Addrs <- EnergyAddrs
  Sent <- ClearSent
  Noise = {}
  SaveOrder <- MCSaveOrder
  TimeInit <- MCTimeInit
  ClockReset = 102
  CALIB_LEN = 2
  VOLT_LEN = 1
  CalibBytes = {}
  BusTasks = {"rcv"}
  UDPACK_SIZE = 8
  MaxClashes = 2
  MaxLoss = 0
INVARIANT ClearedMeansZero
