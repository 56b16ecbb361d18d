SPECIFICATION FairSpec
CONSTANTS
  config <- SmallDDR4
  Addr <- Lines
  DrainThreshold = 1
  Traffic <- GCNTraffic
  MaxInFlight = 3
  RegionOf <- RegionOfLine
INVARIANTS PendingOnItsWay NeverAborts RefreshKeepsUp
PROPERTIES ImplementsMemory AcceptsAgain
