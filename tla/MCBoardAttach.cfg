\* Two boards and every driver.  The system stops when an access faults, or
\* when isapnp_cfg_mutex has been left locked.
CONSTANTS
  b1 = b1
  b2 = b2
  Boards = {b1, b2}
  Drivers <- AllDrivers
  Leaky <- KnownLeaky
  Rash <- KnownRash
  Greedy <- KnownGreedy
  Wild <- KnownWild
  None = None
SPECIFICATION BoardsSpec
SYMMETRY Symmetry
CHECK_DEADLOCK FALSE
INVARIANTS Released OwnReleases SafeAccess
