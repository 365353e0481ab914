------------------------------ MODULE MCBarFeed ------------------------------
(* TLC instances of BarFeed; the constants are numbers and sets given in the .cfg files. *)
EXTENDS BarFeed
=============================================================================
