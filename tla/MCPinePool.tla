----------------------------- MODULE MCPinePool -----------------------------
(* Instance of PinePool: which jobs, of which tier, with which deadline. *)
EXTENDS PinePool, TLC

CONSTANTS l1, m1, b1

\* One job of each class of tier and a pool of two, so there is no reserve.
SmallPriority == (l1 :> "live") @@ (m1 :> "mirror") @@ (b1 :> "background")
SmallTimed == {l1, m1}
SmallFootprint == {l1}
=============================================================================
