\* One device whose queue of one byte overflows.
CONSTANTS
  d1 = d1
  d2 = d2
  Devices = {d1}
  MaxBytes = 1
  MaxRequests = 3
  Awaited = {}
SPECIFICATION Spec
INVARIANT DropIsFlagged
