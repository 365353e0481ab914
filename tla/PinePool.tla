------------------------------ MODULE PinePool ------------------------------
(***************************************************************************)
(* The fixed-size pool of script workers (server/src/pine/pool.ts).  Jobs  *)
(* wait in four FIFO queues; a slot holds one worker process and the job   *)
(* it runs; workers are retired on a timeout, a crash, memory pressure or  *)
(* after MaxRuns jobs, and replaced when their process exits or a grace    *)
(* timer fires.                                                            *)
(*                                                                         *)
(* The pool is one JavaScript object: a handler runs to its end before     *)
(* another starts.  The handlers with a loop are taken one turn at a time: *)
(* pump() slot by slot (variable scan), sweepExpired() job by job          *)
(* (sweeping).  Every other handler waits until they are done (Idle), so   *)
(* no step of another handler falls between their turns.                   *)
(***************************************************************************)
EXTENDS Integers, Sequences, FiniteSets, SequencesExt

CONSTANTS
    Jobs,         \* the calls of run()
    NoJob,        \* slot.busy = null
    Priority,     \* [Jobs -> Tiers], opts.priority
    Timed,        \* the jobs with a deadline in the queue (every live job is one)
    Footprint,    \* the jobs whose source asks for footprint data: run() awaits the loader
    Size,         \* number of slots
    MaxRuns,      \* jobs a worker runs before it is recycled (WORKER_MAX_RUNS)
    MaxFaults     \* bound on the faults of the environment (crashes, hangs, failed spawns...)

Tiers == {"live", "mirror", "shadow", "background"}

ASSUME PoolAssumption ==
    /\ NoJob \notin Jobs
    /\ Priority \in [Jobs -> Tiers]
    /\ Timed \subseteq Jobs
    /\ \A j \in Jobs : Priority[j] = "live" => j \in Timed
    /\ Footprint \subseteq Jobs
    /\ Size \in Nat \ {0}
    /\ MaxRuns \in Nat \ {0}
    /\ MaxFaults \in Nat

Slots == 1..Size

\* Math.round(size / 4), and none below four workers
Reserved == IF Size >= 4 THEN (Size + 2) \div 4 ELSE 0

\* Pending.live: the flag is set for the mirror tier too
CountsAsLive(j) == Priority[j] \in {"live", "mirror"}

VARIABLES
    stage,    \* job -> "new", "loading" (awaiting footprints), "queued", "running" or "settled"
    settled,  \* job -> how often its promise was resolved
    outcome,  \* job -> "none", "ok" or "failed"
    late,     \* the jobs whose queue deadline has passed
    queue,    \* tier -> FIFO of the jobs waiting
    busy,     \* slot -> the job it runs, or NoJob
    ready,    \* slot -> the worker has reported ready
    retiring, \* slot -> the worker was told to terminate
    alive,    \* slot -> the worker's process has not exited
    runs,     \* slot -> jobs its worker completed
    timers,   \* slot -> which replacement timers are pending: "grace", "retry"
    overdue,  \* the slots whose job has run longer than timeoutMs
    scan,     \* the slot pump() looks at, 0 when no pump is under way
    sweeping, \* sweepExpired() is under way
    stopped,  \* stop() was called
    faults    \* faults so far

jobVars  == <<stage, settled, outcome, late>>
slotVars == <<busy, ready, retiring, alive, runs, timers, overdue>>
vars == <<jobVars, queue, slotVars, scan, sweeping, stopped, faults>>

TypeOK ==
    /\ stage \in [Jobs -> {"new", "loading", "queued", "running", "settled"}]
    /\ settled \in [Jobs -> Nat]
    /\ outcome \in [Jobs -> {"none", "ok", "failed"}]
    /\ late \subseteq Timed
    /\ queue \in [Tiers -> Seq(Jobs)]
    /\ busy \in [Slots -> Jobs \cup {NoJob}]
    /\ ready \in [Slots -> BOOLEAN]
    /\ retiring \in [Slots -> BOOLEAN]
    /\ alive \in [Slots -> BOOLEAN]
    /\ runs \in [Slots -> Nat]
    /\ timers \in [Slots -> SUBSET {"grace", "retry"}]
    /\ overdue \subseteq Slots
    /\ scan \in 0..Size
    /\ sweeping \in BOOLEAN
    /\ stopped \in BOOLEAN
    /\ faults \in Nat

\* The constructor spawns every slot; no worker has reported ready yet.
Init ==
    /\ stage = [j \in Jobs |-> "new"]
    /\ settled = [j \in Jobs |-> 0]
    /\ outcome = [j \in Jobs |-> "none"]
    /\ late = {}
    /\ queue = [t \in Tiers |-> <<>>]
    /\ busy = [s \in Slots |-> NoJob]
    /\ ready = [s \in Slots |-> FALSE]
    /\ retiring = [s \in Slots |-> FALSE]
    /\ alive = [s \in Slots |-> TRUE]
    /\ runs = [s \in Slots |-> 0]
    /\ timers = [s \in Slots |-> {}]
    /\ overdue = {}
    /\ scan = 0
    /\ sweeping = FALSE
    /\ stopped = FALSE
    /\ faults = 0

-----------------------------------------------------------------------------
(* Helpers.                                                                *)

Idle == scan = 0 /\ ~sweeping

\* One more fault of the environment.
Fault == faults < MaxFaults /\ faults' = faults + 1

\* resolve() of every job of S, with result r
Settle(S, r) ==
    /\ stage' = [j \in Jobs |-> IF j \in S THEN "settled" ELSE stage[j]]
    /\ settled' = [j \in Jobs |-> IF j \in S THEN settled[j] + 1 ELSE settled[j]]
    /\ outcome' = [j \in Jobs |-> IF j \in S THEN r ELSE outcome[j]]

RunningOn(S) == {busy[s] : s \in S} \ {NoJob}

\* mutant: retire() fails the busy job but keeps it on the slot
RetireKeepingJob(S) ==
    /\ retiring' = [s \in Slots |-> s \in S \/ retiring[s]]
    /\ ready' = [s \in Slots |-> s \notin S /\ ready[s]]
    /\ timers' = [s \in Slots |-> IF s \in S THEN timers[s] \cup {"grace"} ELSE timers[s]]
    /\ overdue' = overdue \ S
    /\ UNCHANGED busy

\* mutant: retire() sets no grace timer (the code before decision 184)
RetireWithoutGrace(S) ==
    /\ retiring' = [s \in Slots |-> s \in S \/ retiring[s]]
    /\ ready' = [s \in Slots |-> s \notin S /\ ready[s]]
    /\ busy' = [s \in Slots |-> IF s \in S THEN NoJob ELSE busy[s]]
    /\ overdue' = overdue \ S
    /\ UNCHANGED timers

\* retire() of the slots of S that are not retiring yet, apart from settling their jobs
Retire(S) ==
    /\ retiring' = [s \in Slots |-> s \in S \/ retiring[s]]
    /\ ready' = [s \in Slots |-> s \notin S /\ ready[s]]
    /\ busy' = [s \in Slots |-> IF s \in S THEN NoJob ELSE busy[s]]
    /\ timers' = [s \in Slots |-> IF s \in S THEN timers[s] \cup {"grace"} ELSE timers[s]]
    /\ overdue' = overdue \ S

\* retire() of S with its jobs failed
RetireFailing(S) == Retire(S) /\ Settle(RunningOn(S), "failed")

\* spawn(): a new Slot object takes the place of the old one
Fresh(s) ==
    /\ busy' = [busy EXCEPT ![s] = NoJob]
    /\ ready' = [ready EXCEPT ![s] = FALSE]
    /\ retiring' = [retiring EXCEPT ![s] = FALSE]
    /\ alive' = [alive EXCEPT ![s] = TRUE]
    /\ runs' = [runs EXCEPT ![s] = 0]
    /\ timers' = [timers EXCEPT ![s] = {}]
    /\ overdue' = overdue \ {s}

\* The tiers next() may take from for the slot: shadow and background only while the slots
\* that run such work leave the reserve free.
BusyOnBackground == {s \in Slots : busy[s] # NoJob /\ ~CountsAsLive(busy[s])}
CanTakeReserved == Cardinality(BusyOnBackground) < Size - Reserved

NextTier(t) ==
    /\ queue[t] # <<>>
    /\ t # "live" => queue["live"] = <<>>
    /\ t \in {"shadow", "background"} => queue["mirror"] = <<>> /\ CanTakeReserved
    /\ t = "background" => queue["shadow"] = <<>>

-----------------------------------------------------------------------------
(* run()                                                                   *)

\* the promise body of run(), entered at once or after the footprint loader answered
Enqueue(j) ==
    IF stopped
    THEN /\ Settle({j}, "failed")
         /\ UNCHANGED <<queue, scan>>
    ELSE /\ stage' = [stage EXCEPT ![j] = "queued"]
         /\ queue' = [queue EXCEPT ![Priority[j]] = Append(@, j)]
         /\ scan' = 1
         /\ UNCHANGED <<settled, outcome>>

Run(j) ==
    /\ Idle /\ stage[j] = "new"
    /\ IF j \in Footprint
       THEN /\ stage' = [stage EXCEPT ![j] = "loading"]
            /\ UNCHANGED <<settled, outcome, queue, scan>>
       ELSE Enqueue(j)
    /\ UNCHANGED <<late, slotVars, sweeping, stopped, faults>>

FootprintsLoaded(j) ==
    /\ Idle /\ stage[j] = "loading"
    /\ Enqueue(j)
    /\ UNCHANGED <<late, slotVars, sweeping, stopped, faults>>

\* The clock passes a job's deadline; `now` was read before the footprint await.
DeadlinePasses(j) ==
    /\ Idle /\ j \in Timed \ late /\ stage[j] \in {"loading", "queued"}
    /\ late' = late \cup {j}
    /\ UNCHANGED <<stage, settled, outcome, queue, slotVars, scan, sweeping, stopped, faults>>

-----------------------------------------------------------------------------
(* pump() and next()                                                       *)

AfterSlot == scan' = IF scan = Size THEN 0 ELSE scan + 1

Free(s) == ready[s] /\ ~retiring[s] /\ busy[s] = NoJob

PumpSkip ==
    /\ scan # 0
    /\ ~Free(scan) \/ \A t \in Tiers : ~NextTier(t)
    /\ AfterSlot
    /\ UNCHANGED <<jobVars, queue, slotVars, sweeping, stopped, faults>>

\* next() drops a job that waited past its deadline and looks again
PumpDrop(t) ==
    /\ scan # 0 /\ Free(scan)
    /\ NextTier(t) /\ Head(queue[t]) \in late
    /\ queue' = [queue EXCEPT ![t] = Tail(@)]
    /\ Settle({Head(queue[t])}, "failed")
    /\ UNCHANGED <<late, slotVars, scan, sweeping, stopped, faults>>

\* mutant: next() looks at the head of the queue and does not take it
PumpDispatchPeek(t) ==
    /\ scan # 0 /\ Free(scan)
    /\ NextTier(t) /\ Head(queue[t]) \notin late
    /\ stage' = [stage EXCEPT ![Head(queue[t])] = "running"]
    /\ busy' = [busy EXCEPT ![scan] = Head(queue[t])]
    /\ AfterSlot
    /\ UNCHANGED <<settled, outcome, late, queue, ready, retiring, alive, runs, timers, overdue,
                   sweeping, stopped, faults>>

PumpDispatch(t) ==
    /\ scan # 0 /\ Free(scan)
    /\ NextTier(t) /\ Head(queue[t]) \notin late
    /\ queue' = [queue EXCEPT ![t] = Tail(@)]
    /\ stage' = [stage EXCEPT ![Head(queue[t])] = "running"]
    /\ busy' = [busy EXCEPT ![scan] = Head(queue[t])]
    /\ AfterSlot
    /\ UNCHANGED <<settled, outcome, late, ready, retiring, alive, runs, timers, overdue,
                   sweeping, stopped, faults>>

\* postMessage throws: the job fails and its slot is retired
PumpDispatchFails(t) ==
    /\ scan # 0 /\ Free(scan)
    /\ NextTier(t) /\ Head(queue[t]) \notin late
    /\ Fault
    /\ queue' = [queue EXCEPT ![t] = Tail(@)]
    /\ Settle({Head(queue[t])}, "failed")
    /\ Retire({scan})
    /\ AfterSlot
    /\ UNCHANGED <<late, alive, runs, sweeping, stopped>>

Pump == \/ PumpSkip
        \/ \E t \in Tiers : PumpDrop(t) \/ PumpDispatch(t) \/ PumpDispatchFails(t)

-----------------------------------------------------------------------------
(* Events of the worker processes                                          *)

\* A message from a worker that was retired or replaced is ignored, and so is one after stop().
Listening(s) == ~stopped /\ ~retiring[s] /\ alive[s]

\* mutant: a worker that reports ready does not pump
WorkerReadyNoPump(s) ==
    /\ Idle /\ Listening(s) /\ ~ready[s]
    /\ ready' = [ready EXCEPT ![s] = TRUE]
    /\ UNCHANGED <<jobVars, queue, busy, retiring, alive, runs, timers, overdue, scan, sweeping, stopped, faults>>

WorkerReady(s) ==
    /\ Idle /\ Listening(s) /\ ~ready[s]
    /\ ready' = [ready EXCEPT ![s] = TRUE]
    /\ scan' = 1
    /\ UNCHANGED <<jobVars, queue, busy, retiring, alive, runs, timers, overdue, sweeping, stopped, faults>>

WorkerResult(s) ==
    /\ Idle /\ Listening(s) /\ busy[s] # NoJob
    /\ Settle({busy[s]}, "ok")
    /\ runs' = [runs EXCEPT ![s] = @ + 1]
    /\ IF runs[s] + 1 >= MaxRuns
       THEN Retire({s})
       ELSE /\ busy' = [busy EXCEPT ![s] = NoJob]
            /\ overdue' = overdue \ {s}
            /\ UNCHANGED <<ready, retiring, timers>>
    /\ scan' = 1
    /\ UNCHANGED <<late, queue, alive, sweeping, stopped, faults>>

\* 'error': the worker crashed or ran out of heap; the slot is only retired here
WorkerError(s) ==
    /\ Idle /\ alive[s] /\ ~retiring[s]
    /\ Fault
    /\ RetireFailing({s})
    /\ UNCHANGED <<late, queue, alive, runs, scan, sweeping, stopped>>

\* 'exit' when the slot can be spawned again: the busy job fails, a new worker takes the slot
WorkerExit(s) ==
    /\ Idle /\ alive[s] /\ ~stopped
    /\ IF retiring[s] THEN UNCHANGED faults ELSE Fault
    /\ Settle(RunningOn({s}), "failed")
    /\ Fresh(s)
    /\ UNCHANGED <<late, queue, scan, sweeping, stopped>>

\* 'exit' and createWorker throws: one retry is scheduled
WorkerExitNoSpawn(s) ==
    /\ Idle /\ alive[s] /\ ~stopped
    /\ Fault
    /\ Settle(RunningOn({s}), "failed")
    /\ busy' = [busy EXCEPT ![s] = NoJob]
    /\ ready' = [ready EXCEPT ![s] = FALSE]
    /\ retiring' = [retiring EXCEPT ![s] = TRUE]
    /\ alive' = [alive EXCEPT ![s] = FALSE]
    /\ timers' = [timers EXCEPT ![s] = @ \cup {"retry"}]
    /\ overdue' = overdue \ {s}
    /\ UNCHANGED <<late, queue, runs, scan, sweeping, stopped>>

\* after stop() an exit is only noted
WorkerExitStopped(s) ==
    /\ Idle /\ alive[s] /\ stopped
    /\ alive' = [alive EXCEPT ![s] = FALSE]
    /\ UNCHANGED <<jobVars, queue, busy, ready, retiring, runs, timers, overdue, scan, sweeping, stopped, faults>>

\* The grace timer of retire() and the retry timer of 'exit' both spawn when the slot was not
\* replaced meanwhile; a replaced slot's timers have gone with it (Fresh).
TimerFires(s, t) ==
    /\ Idle /\ t \in timers[s] /\ ~stopped
    /\ Fresh(s)
    /\ UNCHANGED <<jobVars, queue, scan, sweeping, stopped, faults>>

\* the retry's spawn throws too: it is logged and no further timer is set
RetryFails(s) ==
    /\ Idle /\ "retry" \in timers[s] /\ ~stopped
    /\ Fault
    /\ timers' = [timers EXCEPT ![s] = @ \ {"retry"}]
    /\ UNCHANGED <<jobVars, queue, busy, ready, retiring, alive, runs, overdue, scan, sweeping, stopped>>

-----------------------------------------------------------------------------
(* Timers and callers                                                      *)

\* a job has run longer than timeoutMs
RunsOver(s) ==
    /\ Idle /\ busy[s] # NoJob /\ s \notin overdue
    /\ overdue' = overdue \cup {s}
    /\ UNCHANGED <<jobVars, queue, busy, ready, retiring, alive, runs, timers, scan, sweeping, stopped, faults>>

\* reapTimeouts(), every five seconds: overdue slots are retired, then sweepExpired() runs
ReapTimeouts ==
    /\ Idle /\ ~stopped
    /\ overdue # {} \/ \E j \in late : stage[j] = "queued"
    /\ RetireFailing(overdue)
    /\ sweeping' = TRUE
    /\ UNCHANGED <<late, queue, alive, runs, scan, stopped, faults>>

\* mutant: the sweep fails a late job and leaves it in the queue
SweepDropKept(t, i) ==
    /\ sweeping /\ queue[t][i] \in late
    /\ Settle({queue[t][i]}, "failed")
    /\ sweeping' = FALSE
    /\ UNCHANGED <<late, queue, slotVars, scan, stopped, faults>>

\* sweepExpired(): one late job is cut out of its queue and failed
SweepDrop(t, i) ==
    /\ sweeping /\ queue[t][i] \in late
    /\ queue' = [queue EXCEPT ![t] = RemoveAt(@, i)]
    /\ Settle({queue[t][i]}, "failed")
    /\ UNCHANGED <<late, slotVars, scan, sweeping, stopped, faults>>

SweepDone ==
    /\ sweeping
    /\ \A t \in Tiers : \A i \in DOMAIN queue[t] : queue[t][i] \notin late
    /\ sweeping' = FALSE
    /\ UNCHANGED <<jobVars, queue, slotVars, scan, stopped, faults>>

Sweep == SweepDone \/ \E t \in Tiers : \E i \in DOMAIN queue[t] : SweepDrop(t, i)

MemoryTier == [live |-> 3, mirror |-> 2, shadow |-> 1, background |-> 0]
BusySlots == {s \in Slots : busy[s] # NoJob}
LowestBusy == {s \in BusySlots : \A r \in BusySlots :
                  MemoryTier[Priority[busy[s]]] <= MemoryTier[Priority[busy[r]]]}

\* reapMemory() with the resident size over the guard: the least urgent busy workers go
ReapMemory ==
    /\ Idle /\ ~stopped /\ BusySlots # {}
    /\ Fault
    /\ RetireFailing(LowestBusy)
    /\ UNCHANGED <<late, queue, alive, runs, scan, sweeping, stopped>>

\* recycleAll(): idle workers now, busy ones when their job completes
RecycleAll ==
    /\ Idle /\ ~stopped
    /\ Fault
    /\ Retire({s \in Slots : ~retiring[s] /\ busy[s] = NoJob})
    /\ runs' = [s \in Slots |-> IF ~retiring[s] /\ busy[s] # NoJob /\ runs[s] < MaxRuns - 1
                                THEN MaxRuns - 1 ELSE runs[s]]
    /\ UNCHANGED <<jobVars, queue, alive, scan, sweeping, stopped>>

Stop ==
    /\ Idle /\ ~stopped
    /\ stopped' = TRUE
    /\ queue' = [t \in Tiers |-> <<>>]
    /\ Settle(RunningOn(Slots) \cup {j \in Jobs : stage[j] = "queued"}, "failed")
    /\ busy' = [s \in Slots |-> NoJob]
    /\ ready' = [s \in Slots |-> FALSE]
    /\ retiring' = [s \in Slots |-> TRUE]
    /\ overdue' = {}
    /\ UNCHANGED <<late, alive, runs, timers, scan, sweeping, faults>>

Next ==
    \/ \E j \in Jobs : Run(j) \/ FootprintsLoaded(j) \/ DeadlinePasses(j)
    \/ Pump \/ Sweep
    \/ \E s \in Slots :
         \/ WorkerReady(s) \/ WorkerResult(s) \/ WorkerError(s)
         \/ WorkerExit(s) \/ WorkerExitNoSpawn(s) \/ WorkerExitStopped(s)
         \/ \E t \in timers[s] : TimerFires(s, t)
         \/ RetryFails(s) \/ RunsOver(s)
    \/ ReapTimeouts \/ ReapMemory \/ RecycleAll \/ Stop

Spec == Init /\ [][Next]_vars

\* What the program schedules itself: pump runs to its end, the interval timers tick and the
\* grace timers fire; and what the environment owes it: a started worker reports ready, a footprint
\* read answers, a job that gives no result runs past any limit.
Fairness ==
    /\ WF_vars(Pump) /\ WF_vars(Sweep)
    /\ WF_vars(ReapTimeouts)
    /\ \A j \in Jobs : WF_vars(FootprintsLoaded(j)) /\ WF_vars(DeadlinePasses(j))
    /\ \A s \in Slots : /\ WF_vars(WorkerReady(s)) /\ WF_vars(RunsOver(s))
                        /\ WF_vars(TimerFires(s, "grace")) /\ WF_vars(TimerFires(s, "retry"))

FairSpec == Spec /\ Fairness

-----------------------------------------------------------------------------
(* Properties                                                              *)

\* A job's promise is resolved exactly when the job is settled and never twice, whichever of the
\* result, timeout, crash, exit, memory guard, sweep and stop reaches it first (pool.ts fail, retire).
ResolvedOnce == \A j \in Jobs : settled[j] = IF stage[j] = "settled" THEN 1 ELSE 0

\* No job is lost or duplicated: a queued job stands in its tier's queue at one place, a running job
\* is the busy job of one slot, and no other job is in a queue or on a slot.
Accounted ==
    /\ \A j \in Jobs : stage[j] = "running" <=> \E s \in Slots : busy[s] = j
    /\ \A r, s \in Slots : busy[r] = busy[s] /\ busy[r] # NoJob => r = s
    /\ \A t \in Tiers : \A i \in DOMAIN queue[t] :
          stage[queue[t][i]] = "queued" /\ Priority[queue[t][i]] = t
    /\ \A t \in Tiers : \A i, k \in DOMAIN queue[t] : queue[t][i] = queue[t][k] => i = k
    /\ \A j \in Jobs : stage[j] = "queued" => \E i \in DOMAIN queue[Priority[j]] : queue[Priority[j]][i] = j

\* Shadow and background work never holds the reserved workers, whatever was retired, respawned or
\* recycled meanwhile (pool.ts reserved, next).
ReserveKept == Cardinality(BusyOnBackground) <= Size - Reserved

\* Between handlers no job of the live or mirror tier waits while a worker that could take it is
\* free: every event that frees or readies a worker pumps.
NoIdleWorkerWhileLiveWaits ==
    Idle /\ (queue["live"] # <<>> \/ queue["mirror"] # <<>>) => \A s \in Slots : ~Free(s)

\* After stop() nothing is queued or running, and a job handed in later (a footprint read that
\* answers after the stop) is failed at once.
StopsClean == stopped => \A j \in Jobs : stage[j] \in {"new", "loading", "settled"}

\* Every job handed to run() is settled, with crashes, hangs, a failed dispatch or a failed
\* respawn on the way.
EveryJobSettles == \A j \in Jobs : stage[j] # "new" ~> stage[j] = "settled"

\* What a caller is promised: a refinement of JobPromise, where a job is open until settled.
Promise == INSTANCE JobPromise WITH
    open <- {j \in Jobs : stage[j] \in {"loading", "queued", "running"}},
    result <- outcome

Promised == Promise!Spec
=============================================================================
