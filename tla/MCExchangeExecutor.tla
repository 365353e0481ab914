-------------------------- MODULE MCExchangeExecutor --------------------------
(* TLC instances of ExchangeExecutor; the constants are numbers given in the .cfg files. *)
EXTENDS ExchangeExecutor
=============================================================================
