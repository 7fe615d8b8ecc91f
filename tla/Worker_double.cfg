SPECIFICATION Spec
CONSTANTS
  Heartbeats = {h1, h2}
  hot = hot
  cold = cold
  swap = swap
  huge = huge
  NoOpp = NoOpp
  Opps = {hot}
  Attr <- MCAttr1
  Sources <- MCSources
  MaxFaults = 0
  MaxRestarts = 0
INVARIANTS
  AtMostOnce
