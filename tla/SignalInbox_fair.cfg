CONSTANTS
  Entries <- MCOneEntry
  Exits <- MCExits
  Copied <- MCNone
  Loops = {1}
  NoLoop = 0
  MaxPos = 1
  MaxFaults = 1
  MaxStops = 1
  MaxResets = 0
  MaxChanges = 1
SPECIFICATION FairSpec
PROPERTIES ReceiptsSettle EntryStillValid
