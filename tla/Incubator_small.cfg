CONSTANTS
  Scanners = {"s1"}
  Pairs <- MCTwo
  ScannerOf <- MCScannerOf
  MaxFleet = 2
  PromoteAuto = TRUE
  MaxTrouble = 1
SPECIFICATION FairSpec
INVARIANTS DecisionStands
PROPERTIES Heals
