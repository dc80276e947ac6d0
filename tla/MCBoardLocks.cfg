\* Two programs, one of two threads, every ioctl, callers of the library's discipline.
CONSTANTS
  p1 = p1
  p2 = p2
  p3 = p3
  f1 = f1
  f2 = f2
  Procs = {p1, p2, p3}
  Files = {f1, f2}
  Users <- TwoPrograms
  Ops <- UserAndAdmin
  Spoll = Spoll
  NoOne = NoOne
  Disciplined = TRUE
  MaxSpollers = 1
SPECIFICATION FairSpec
INVARIANTS TypeOK BusExclusion LockOrder HoldingMeansOwning
PROPERTY BigIsGranted
CHECK_DEADLOCK FALSE
