SPECIFICATION Spec
CONSTANTS
  Heartbeats = {h1}
  hot = hot
  cold = cold
  swap = swap
  huge = huge
  NoOpp = NoOpp
  Opps = {hot, cold, swap, huge}
  Attr <- MCAttr
  Sources <- MCSources
  MaxFaults = 2
  MaxRestarts = 2
INVARIANTS
  AtMostOnce
  OrphanLatchStops
