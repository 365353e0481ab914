--------------------------- MODULE MCSignalInbox ---------------------------
EXTENDS SignalInbox, TLC

MCEntries == {"e1", "e2"}
MCExits == {"x1"}
MCOneEntry == {"e1"}
MCNone == {}

\* Overlapping recovery passes are interchangeable.
MCPasses == Permutations(Loops)
=============================================================================
