----------------------------- MODULE MCScanRuns -----------------------------
(* TLC instances of ScanRuns; the constants are numbers given in the .cfg files. *)
EXTENDS ScanRuns
=============================================================================
