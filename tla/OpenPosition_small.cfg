SPECIFICATION Spec
CONSTANTS
  FloorAt = 2
  FloorKeep = 1
  TrailAfter = 1
  GiveBacks = {1}
  Split <- MCSplit
  Prices = {0, 2, 5, 6}
  Stop = 1
  Liq = 0
  Limit = 3
  Targets <- MCTargets
  Ladder <- MCLadder
  Quantities = {3}
  Sources = {"candles", "tape"}
  TrendExit = FALSE
  MaxMinute = 1
  MaxPrints = 3
  MaxTrouble = 1
INVARIANTS StopEarned StopHonoured FloorKept TargetsCover
PROPERTY NeverLoosens
CHECK_DEADLOCK FALSE
