CONSTANTS
  Entries <- MCEntries
  Exits <- MCExits
  Copied <- MCOneEntry
  Loops = {p1, p2}
  NoLoop = NoLoop
  MaxPos = 2
  MaxFaults = 1
  MaxStops = 1
  MaxResets = 1
  MaxChanges = 0
SPECIFICATION Spec
INVARIANTS TradesOnce MemoryIsBook ExitHitsItsTarget ResetIsFinal
SYMMETRY MCPasses
