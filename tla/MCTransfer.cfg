\* Four bytes, a buffer of three, a FIFO of two; two disturbances (signals, a device
\* clear, a bus error); ATN may come and go.
CONSTANTS
  Length = 4
  TalkerLength = 5
  BufferLength = 3
  MaxSignals = 2
  MaxClears = 1
  MaxErrors = 1
  MaxAtn = 2
  FifoSize = 2
  MaxDisturbances = 2
  Drivers = {"nec7210", "tnt4882", "ines", "cb7210", "agilent_82350b", "hp_82341",
             "fmh_fifo", "fmh_dma", "fluke", "tms9914"}
SPECIFICATION AccelSpec
CHECK_DEADLOCK FALSE
INVARIANTS AccelTypeOK EoiWithLast MissedAfterError SentInFull DeliveredWhole HoldoffTracked
PROPERTY Returns
