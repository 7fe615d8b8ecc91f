SPECIFICATION FairSpec
CONSTANTS
  Heartbeats = {h1, h2}
  hot = hot
  cold = cold
  swap = swap
  huge = huge
  NoOpp = NoOpp
  Opps = {hot, cold}
  Attr <- MCAttr2
  Sources <- MCSources
  MaxFaults = 1
  MaxRestarts = 1
INVARIANTS
  TypeOK
  NeverOrders
  StartsAreGated
PROPERTIES
  TerminalStays
  ExecutingResolves
