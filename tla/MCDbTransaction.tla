--------------------------- MODULE MCDbTransaction ---------------------------
(* DbTransaction on a few facts. *)
EXTENDS DbTransaction
=============================================================================
