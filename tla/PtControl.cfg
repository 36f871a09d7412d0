SPECIFICATION Spec
CONSTANTS
  Main = 2
  Fallback = 1
  CR3s = {1, 2}
  Addrs = {0, 1}
  supported_addrn = 1
  MaxUnits = 3
INVARIANTS
  LoopIsTraced
  FiltersAgree
  BitmapIsExact
PROPERTY
  FullIsDrained
