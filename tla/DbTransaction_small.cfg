SPECIFICATION Spec
CONSTANTS
  Facts = {f1, f2, f3}
  MaxDepth = 3
INVARIANT AnnouncedIsDurable
PROPERTY OneLog
