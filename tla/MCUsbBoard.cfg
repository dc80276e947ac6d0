CONSTANTS
  Programs <- UsbPrograms
  Drivers <- AllDrivers
  MaxAnswers = 2
  MaxTasks = 2
  Crossing <- KnownCrossing
  Forgetful <- KnownForgetful
  Leaky <- KnownLeaky
  Littering <- KnownLittering
  Careless <- KnownCareless
  Unguarded <- KnownUnguarded
  Hasty <- KnownHasty
SPECIFICATION Spec
INVARIANTS NotCrossed NothingKept Released UsedWhileThere
