\* Two files, three handles, two addresses.
CONSTANTS
  f1 = f1
  f2 = f2
  a0 = a0
  a1 = a1
  Files = {f1, f2}
  Addrs = {a0, a1}
  Addr0 = a0
  NHandles = 3
  NoDesc = NoDesc
  Idle = Idle
  MaxRefs = 2
SYMMETRY Symmetry
CONSTRAINT Explored
SPECIFICATION Spec
INVARIANTS TypeOK Counted
