CONSTANTS
  dev = dev
  late = late
  brd = brd
  other = other
  gpib0 = gpib0
  gpib1 = gpib1
  DeviceThreads = {dev, late}
  BoardThreads = {brd}
  Others = {other}
  Boards = {gpib0, gpib1}
  Home = gpib0
  Messages <- Lines
  Places = {1, 2}
  Calls <- CallsOfThreads
  Partners <- Addressers
  Openers <- Opening
  Aborting <- KnownAborting
  Deafening <- KnownDeafening
  Silent <- KnownSilent
  Losing <- KnownLosing
SPECIFICATION Spec
INVARIANTS FlowInv RightPartner LockReturned ErrorReported NothingLost
