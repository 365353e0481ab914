----------------------------- MODULE JobPromise -----------------------------
(***************************************************************************)
(* What a caller of the worker pool is promised (pine/pool.ts, run): a job *)
(* handed in stays open until it is answered, it is answered once, and an  *)
(* answer is never revised.  Several jobs may be failed together (stop,    *)
(* the timeout sweep, the memory guard); a result settles one job.         *)
(***************************************************************************)
CONSTANT Jobs

VARIABLES
    open,    \* the jobs handed in and not answered
    result   \* job -> "none", "ok" or "failed"

vars == <<open, result>>

Init == open = {} /\ result = [j \in Jobs |-> "none"]

HandIn(j) ==
    /\ j \notin open /\ result[j] = "none"
    /\ open' = open \cup {j}
    /\ UNCHANGED result

\* a job handed to a stopped pool is failed without ever being open
Refuse(j) ==
    /\ j \notin open /\ result[j] = "none"
    /\ result' = [result EXCEPT ![j] = "failed"]
    /\ UNCHANGED open

Answer(j) ==
    /\ j \in open
    /\ open' = open \ {j}
    /\ result' = [result EXCEPT ![j] = "ok"]

Fail(S) ==
    /\ S # {} /\ S \subseteq open
    /\ open' = open \ S
    /\ result' = [j \in Jobs |-> IF j \in S THEN "failed" ELSE result[j]]

Next == \/ \E j \in Jobs : HandIn(j) \/ Refuse(j) \/ Answer(j)
        \/ \E S \in SUBSET Jobs : Fail(S)

Spec == Init /\ [][Next]_vars
=============================================================================
