--------------------------- MODULE PinePool_proofs ---------------------------
(***************************************************************************)
(* Theorems about the worker pool for every number of slots and every set  *)
(* of jobs: types, the bookkeeping of jobs, slots and queues, the reserve  *)
(* of workers that background work leaves free, the refinement of          *)
(* JobPromise, and that no worker idles beside live work.                  *)
(***************************************************************************)
EXTENDS PinePool, TLAPS, FiniteSetTheorems, SequenceTheorems

SlotActions(s) ==
    \/ WorkerReady(s) \/ WorkerResult(s) \/ WorkerError(s)
    \/ WorkerExit(s) \/ WorkerExitNoSpawn(s) \/ WorkerExitStopped(s)
    \/ \E t \in timers[s] : TimerFires(s, t)
    \/ RetryFails(s) \/ RunsOver(s)

\* Removing one element of a sequence leaves a sequence of the others, in their order.
LEMMA RemoveAtProperties ==
    ASSUME NEW T, NEW q \in Seq(T), NEW i \in 1..Len(q)
    PROVE  /\ RemoveAt(q, i) \in Seq(T)
           /\ Len(RemoveAt(q, i)) = Len(q) - 1
           /\ \A k \in 1..(Len(q) - 1) : RemoveAt(q, i)[k] = IF k < i THEN q[k] ELSE q[k + 1]
<1> DEFINE a == SubSeq(q, 1, i - 1)
           b == SubSeq(q, i + 1, Len(q))
<1>1. Len(q) \in Nat /\ \A k \in 1..Len(q) : q[k] \in T
  OBVIOUS
<1>2. /\ a \in Seq(T) /\ Len(a) = i - 1
      /\ \A k \in 1..(i - 1) : a[k] = q[k]
  <2>1. \A k \in 1..(i - 1) : q[k] \in T
    BY <1>1
  <2>2. QED
    BY <2>1, SubSeqProperties
<1>3. /\ b \in Seq(T) /\ Len(b) = Len(q) - i
      /\ \A k \in 1..(Len(q) - i) : b[k] = q[i + k]
  OBVIOUS
<1>4. RemoveAt(q, i) = a \o b
  BY DEF RemoveAt
<1> HIDE DEF a, b
<1>5. /\ a \o b \in Seq(T) /\ Len(a \o b) = Len(a) + Len(b)
      /\ \A k \in 1..(Len(a) + Len(b)) :
            (a \o b)[k] = IF k <= Len(a) THEN a[k] ELSE b[k - Len(a)]
  BY <1>2, <1>3, ConcatProperties
<1>6. QED
  BY <1>1, <1>2, <1>3, <1>4, <1>5

\* What the assumption says of the constants, part by part.
LEMMA Constants ==
    /\ NoJob \notin Jobs
    /\ Priority \in [Jobs -> Tiers]
    /\ Size \in Nat /\ Size >= 1
    /\ MaxRuns \in Nat /\ MaxRuns >= 1
  BY PoolAssumption DEF PoolAssumption

\* The types of what Settle, Retire and Fresh write.
JobTypes == /\ stage \in [Jobs -> {"new", "loading", "queued", "running", "settled"}]
            /\ settled \in [Jobs -> Nat]
            /\ outcome \in [Jobs -> {"none", "ok", "failed"}]

SlotTypes == /\ busy \in [Slots -> Jobs \cup {NoJob}]
             /\ ready \in [Slots -> BOOLEAN]
             /\ retiring \in [Slots -> BOOLEAN]
             /\ timers \in [Slots -> SUBSET {"grace", "retry"}]
             /\ overdue \subseteq Slots

RestTypes == /\ late \subseteq Timed
             /\ queue \in [Tiers -> Seq(Jobs)]
             /\ alive \in [Slots -> BOOLEAN]
             /\ runs \in [Slots -> Nat]
             /\ scan \in 0..Size
             /\ sweeping \in BOOLEAN
             /\ stopped \in BOOLEAN
             /\ faults \in Nat

LEMMA TypeParts == TypeOK <=> JobTypes /\ SlotTypes /\ RestTypes
  BY DEF TypeOK, JobTypes, SlotTypes, RestTypes

LEMMA SettleTypes ==
    ASSUME JobTypes, NEW S, NEW r \in {"ok", "failed"}, Settle(S, r)
    PROVE  JobTypes'
  BY DEF JobTypes, Settle

LEMMA RetireTypes ==
    ASSUME SlotTypes, NEW S \in SUBSET Slots, Retire(S)
    PROVE  SlotTypes'
  BY DEF SlotTypes, Retire

LEMMA FreshTypes ==
    ASSUME SlotTypes, RestTypes, NEW s \in Slots, Fresh(s)
    PROVE  SlotTypes' /\ alive' \in [Slots -> BOOLEAN] /\ runs' \in [Slots -> Nat]
  BY DEF SlotTypes, RestTypes, Fresh

\* Every variable keeps its type, whatever the workers, the timers and the callers do (pool.ts).
THEOREM TypeInvariant == Spec => []TypeOK
<1>1. Init => TypeOK
  <2> SUFFICES ASSUME Init PROVE TypeOK
    OBVIOUS
  <2>1. JobTypes
    BY DEF Init, JobTypes
  <2>2. SlotTypes
    BY DEF Init, SlotTypes
  <2>3. RestTypes
    <3>1. queue \in [Tiers -> Seq(Jobs)]
      BY DEF Init
    <3>2. alive \in [Slots -> BOOLEAN] /\ runs \in [Slots -> Nat] /\ scan \in 0..Size
      BY Constants DEF Init
    <3>3. QED
      BY <3>1, <3>2, Constants DEF Init, RestTypes
  <2>4. QED
    BY <2>1, <2>2, <2>3, TypeParts
<1>2. TypeOK /\ [Next]_vars => TypeOK'
  <2> SUFFICES ASSUME JobTypes, SlotTypes, RestTypes, [Next]_vars
               PROVE  JobTypes' /\ SlotTypes' /\ RestTypes'
    BY DEF TypeOK, JobTypes, SlotTypes, RestTypes
  <2> USE Constants DEF Slots
  <2>1. ASSUME NEW j \in Jobs, Run(j) \/ FootprintsLoaded(j)
        PROVE  JobTypes' /\ SlotTypes' /\ RestTypes'
    <3>1. Append(queue[Priority[j]], j) \in Seq(Jobs)
      BY DEF RestTypes
    <3>2. JobTypes'
      BY <2>1, SettleTypes DEF Run, FootprintsLoaded, Enqueue, JobTypes
    <3>3. SlotTypes'
      BY <2>1 DEF Run, FootprintsLoaded, SlotTypes, slotVars
    <3>4. RestTypes'
      <4>1. queue' \in [Tiers -> Seq(Jobs)]
        BY <2>1, <3>1 DEF Run, FootprintsLoaded, Enqueue, RestTypes
      <4>2. scan' \in 0..Size
        BY <2>1 DEF Run, FootprintsLoaded, Enqueue, RestTypes
      <4>3. QED
        BY <2>1, <4>1, <4>2 DEF Run, FootprintsLoaded, RestTypes, slotVars
    <3>5. QED
      BY <3>2, <3>3, <3>4
  <2>2. ASSUME NEW j \in Jobs, DeadlinePasses(j) PROVE JobTypes' /\ SlotTypes' /\ RestTypes'
    BY <2>2 DEF DeadlinePasses, slotVars, JobTypes, SlotTypes, RestTypes
  <2>3. CASE PumpSkip
    BY <2>3 DEF PumpSkip, AfterSlot, slotVars, jobVars, JobTypes, SlotTypes, RestTypes
  <2>4. ASSUME NEW t \in Tiers, PumpDrop(t) \/ PumpDispatch(t) \/ PumpDispatchFails(t)
        PROVE  JobTypes' /\ SlotTypes' /\ RestTypes'
    <3>1. Head(queue[t]) \in Jobs /\ Tail(queue[t]) \in Seq(Jobs) /\ scan \in Slots
      BY <2>4 DEF PumpDrop, PumpDispatch, PumpDispatchFails, NextTier, RestTypes
    <3>2. JobTypes'
      BY <2>4, <3>1, SettleTypes DEF PumpDrop, PumpDispatch, PumpDispatchFails, JobTypes
    <3>3. SlotTypes'
      BY <2>4, <3>1, RetireTypes DEF PumpDrop, PumpDispatch, PumpDispatchFails, SlotTypes, slotVars
    <3>4. RestTypes'
      <4>1. queue' \in [Tiers -> Seq(Jobs)]
        BY <2>4, <3>1 DEF PumpDrop, PumpDispatch, PumpDispatchFails, RestTypes
      <4>2. scan' \in 0..Size
        BY <2>4, <3>1 DEF PumpDrop, PumpDispatch, PumpDispatchFails, AfterSlot, RestTypes
      <4>3. faults' \in Nat
        BY <2>4 DEF PumpDrop, PumpDispatch, PumpDispatchFails, Fault, RestTypes
      <4>4. QED
        BY <2>4, <4>1, <4>2, <4>3
           DEF PumpDrop, PumpDispatch, PumpDispatchFails, RestTypes, slotVars
    <3>5. QED
      BY <3>2, <3>3, <3>4
  <2>5. ASSUME NEW t \in Tiers, NEW i \in DOMAIN queue[t], SweepDrop(t, i)
        PROVE  JobTypes' /\ SlotTypes' /\ RestTypes'
    <3>1. queue[t] \in Seq(Jobs) /\ i \in 1..Len(queue[t])
      BY DEF RestTypes
    <3>2. RemoveAt(queue[t], i) \in Seq(Jobs)
      BY <3>1, RemoveAtProperties
    <3>3. JobTypes'
      BY <2>5, SettleTypes DEF SweepDrop
    <3>4. SlotTypes' /\ RestTypes'
      BY <2>5, <3>1, <3>2 DEF SweepDrop, slotVars, SlotTypes, RestTypes
    <3>5. QED
      BY <3>3, <3>4
  <2>6. CASE SweepDone
    BY <2>6 DEF SweepDone, slotVars, jobVars, JobTypes, SlotTypes, RestTypes
  <2>7. ASSUME NEW s \in Slots, SlotActions(s) PROVE JobTypes' /\ SlotTypes' /\ RestTypes'
    <3>1. CASE WorkerReady(s)
      BY <3>1 DEF WorkerReady, jobVars, JobTypes, SlotTypes, RestTypes
    <3>2. CASE WorkerResult(s)
      <4>1. JobTypes'
        BY <3>2, SettleTypes DEF WorkerResult
      <4>2. SlotTypes'
        BY <3>2, RetireTypes DEF WorkerResult, SlotTypes
      <4>3. RestTypes'
        BY <3>2 DEF WorkerResult, RestTypes
      <4>4. QED
        BY <4>1, <4>2, <4>3
    <3>3. CASE WorkerError(s)
      BY <3>3, SettleTypes, RetireTypes DEF WorkerError, RetireFailing, Fault, RestTypes
    <3>4. CASE WorkerExit(s)
      BY <3>4, SettleTypes, FreshTypes DEF WorkerExit, Fault, RestTypes
    <3>5. CASE WorkerExitNoSpawn(s)
      BY <3>5, SettleTypes DEF WorkerExitNoSpawn, Fault, SlotTypes, RestTypes
    <3>6. CASE WorkerExitStopped(s)
      BY <3>6 DEF WorkerExitStopped, jobVars, JobTypes, SlotTypes, RestTypes
    <3>7. ASSUME NEW t \in timers[s], TimerFires(s, t) PROVE JobTypes' /\ SlotTypes' /\ RestTypes'
      BY <3>7, FreshTypes DEF TimerFires, jobVars, JobTypes, RestTypes
    <3>8. CASE RetryFails(s)
      BY <3>8 DEF RetryFails, jobVars, Fault, JobTypes, SlotTypes, RestTypes
    <3>9. CASE RunsOver(s)
      BY <3>9 DEF RunsOver, jobVars, JobTypes, SlotTypes, RestTypes
    <3>10. QED
      BY <2>7, <3>1, <3>2, <3>3, <3>4, <3>5, <3>6, <3>7, <3>8, <3>9 DEF SlotActions
  <2>8. CASE ReapTimeouts
    <3>1. overdue \in SUBSET Slots
      BY DEF SlotTypes
    <3>2. QED
      BY <2>8, <3>1, SettleTypes, RetireTypes DEF ReapTimeouts, RetireFailing, RestTypes
  <2>9. CASE ReapMemory
    <3>1. LowestBusy \in SUBSET Slots
      BY DEF LowestBusy, BusySlots
    <3>2. QED
      BY <2>9, <3>1, SettleTypes, RetireTypes DEF ReapMemory, RetireFailing, Fault, RestTypes
  <2>10. CASE RecycleAll
    <3>1. SlotTypes'
      BY <2>10, RetireTypes DEF RecycleAll
    <3>2. JobTypes' /\ RestTypes'
      BY <2>10 DEF RecycleAll, jobVars, Fault, JobTypes, RestTypes
    <3>3. QED
      BY <3>1, <3>2
  <2>11. CASE Stop
    BY <2>11, SettleTypes DEF Stop, SlotTypes, RestTypes
  <2>12. CASE UNCHANGED vars
    BY <2>12 DEF vars, slotVars, jobVars, JobTypes, SlotTypes, RestTypes
  <2>13. QED
    BY <2>1, <2>2, <2>3, <2>4, <2>5, <2>6, <2>7, <2>8, <2>9, <2>10, <2>11, <2>12
       DEF Next, Pump, Sweep, SlotActions
<1>3. QED
  BY <1>1, <1>2, PTL DEF Spec

-----------------------------------------------------------------------------
(* The bookkeeping of jobs.  JobsOK relates the stage of a job to the      *)
(* queues and the slots; SlotState says that a slot with a replacement     *)
(* timer is retiring and a retiring slot runs nothing, without which a     *)
(* timer could replace a slot and lose its job.                            *)

JobsOK == /\ JobTypes
          /\ queue \in [Tiers -> Seq(Jobs)]
          /\ busy \in [Slots -> Jobs \cup {NoJob}]
          /\ ResolvedOnce
          /\ Accounted
          /\ \A j \in Jobs : outcome[j] = "none" <=> stage[j] # "settled"

SlotState == /\ \A s \in Slots : timers[s] # {} => retiring[s]
             /\ \A s \in Slots : retiring[s] => busy[s] = NoJob /\ ~ready[s]
             /\ stopped => \A s \in Slots : retiring[s]
             /\ stopped => scan = 0 /\ ~sweeping

Bookkeeping == JobsOK /\ SlotState /\ StopsClean

\* Slots of R lose their job and the jobs are settled: results, failures and reaped slots.
LEMMA SettleRunning ==
    ASSUME JobsOK, NEW R \in SUBSET Slots, NEW r \in {"ok", "failed"},
           Settle(RunningOn(R), r), queue' = queue,
           busy' = [s \in Slots |-> IF s \in R THEN NoJob ELSE busy[s]]
    PROVE  JobsOK'
<1> USE Constants
<1>1. JobTypes' /\ queue' \in [Tiers -> Seq(Jobs)] /\ busy' \in [Slots -> Jobs \cup {NoJob}]
  BY SettleTypes DEF JobsOK
<1>2. \A j \in RunningOn(R) : j \in Jobs /\ stage[j] = "running"
  BY DEF RunningOn, JobsOK, Accounted
<1>3. \A j \in Jobs \ RunningOn(R) : \A s \in Slots : busy[s] = j => s \notin R
  BY DEF RunningOn
<1>4. ResolvedOnce' /\ \A j \in Jobs : outcome'[j] = "none" <=> stage'[j] # "settled"
  BY <1>2 DEF Settle, JobsOK, ResolvedOnce, JobTypes
<1>5. \A j \in Jobs : stage'[j] = "running" <=> \E s \in Slots : busy'[s] = j
  <2> TAKE j \in Jobs
  <2>1. CASE j \in RunningOn(R)
    <3>1. \A s \in Slots : busy[s] = j => s \in R
      BY <2>1 DEF RunningOn, JobsOK, Accounted
    <3>2. QED
      BY <2>1, <3>1 DEF Settle, JobsOK, JobTypes
  <2>2. CASE j \notin RunningOn(R)
    BY <2>2, <1>3 DEF Settle, JobsOK, JobTypes, Accounted
  <2>3. QED
    BY <2>1, <2>2
<1>6. \A q, s \in Slots : busy'[q] = busy'[s] /\ busy'[q] # NoJob => q = s
  BY DEF JobsOK, Accounted
<1>7. \A j \in Jobs : stage[j] = "queued" <=> stage'[j] = "queued"
  BY <1>2 DEF Settle
<1>8. /\ \A t \in Tiers : \A i \in DOMAIN queue[t] :
            stage'[queue[t][i]] = "queued" /\ Priority[queue[t][i]] = t
      /\ \A t \in Tiers : \A i, k \in DOMAIN queue[t] : queue[t][i] = queue[t][k] => i = k
      /\ \A j \in Jobs : stage'[j] = "queued" =>
            \E i \in DOMAIN queue[Priority[j]] : queue[Priority[j]][i] = j
  BY <1>7 DEF JobsOK, Accounted
<1>9. QED
  BY <1>1, <1>4, <1>5, <1>6, <1>8 DEF JobsOK, Accounted

\* The queue of one tier without its element at place i.
Without(q, p, i) ==
    /\ p \in Seq(Jobs) /\ Len(p) = Len(q) - 1
    /\ \A k \in 1..(Len(q) - 1) : p[k] = IF k < i THEN q[k] ELSE q[k + 1]

LEMMA WithoutElements ==
    ASSUME NEW q \in Seq(Jobs), NEW p, NEW i \in 1..Len(q), Without(q, p, i),
           \A k, l \in DOMAIN q : q[k] = q[l] => k = l
    PROVE  /\ \A k \in DOMAIN p : p[k] # q[i] /\ \E l \in DOMAIN q : q[l] = p[k]
           /\ \A k, l \in DOMAIN p : p[k] = p[l] => k = l
           /\ \A l \in DOMAIN q : q[l] # q[i] => \E k \in DOMAIN p : p[k] = q[l]
<1>1. Len(q) \in Nat /\ DOMAIN q = 1..Len(q) /\ DOMAIN p = 1..(Len(q) - 1)
  BY DEF Without
<1>2. \A k \in DOMAIN p : p[k] # q[i] /\ \E l \in DOMAIN q : q[l] = p[k]
  <2> TAKE k \in DOMAIN p
  <2>1. CASE k < i
    <3>1. p[k] = q[k] /\ k \in DOMAIN q /\ i \in DOMAIN q /\ k # i
      BY <1>1, <2>1 DEF Without
    <3>2. QED
      BY <3>1
  <2>2. CASE ~(k < i)
    <3>1. p[k] = q[k + 1]
      BY <1>1, <2>2 DEF Without
    <3>2. k + 1 \in DOMAIN q /\ i \in DOMAIN q /\ k + 1 # i
      BY <1>1, <2>2
    <3>3. QED
      BY <3>1, <3>2
  <2>3. QED
    BY <2>1, <2>2
<1>3. \A k, l \in DOMAIN p : p[k] = p[l] => k = l
  <2> TAKE k, l \in DOMAIN p
  <2> DEFINE up(n) == IF n < i THEN n ELSE n + 1
  <2>1. p[k] = q[up(k)] /\ p[l] = q[up(l)] /\ up(k) \in DOMAIN q /\ up(l) \in DOMAIN q
    BY <1>1 DEF Without
  <2>2. p[k] = p[l] => up(k) = up(l)
    BY <2>1
  <2>3. up(k) = up(l) => k = l
    BY <1>1
  <2>4. QED
    BY <2>2, <2>3
<1>4. \A l \in DOMAIN q : q[l] # q[i] => \E k \in DOMAIN p : p[k] = q[l]
  <2> SUFFICES ASSUME NEW l \in DOMAIN q, l # i PROVE \E k \in DOMAIN p : p[k] = q[l]
    OBVIOUS
  <2>1. CASE l < i
    <3>1. l \in DOMAIN p /\ p[l] = q[l]
      BY <1>1, <2>1 DEF Without
    <3>2. QED
      BY <3>1
  <2>2. CASE ~(l < i)
    <3>1. l - 1 \in DOMAIN p /\ p[l - 1] = q[l]
      BY <1>1, <2>2 DEF Without
    <3>2. QED
      BY <3>1
  <2>3. QED
    BY <2>1, <2>2
<1>5. QED
  BY <1>2, <1>3, <1>4

\* The head of a queue is the element at place 1 and Tail leaves the others.
LEMMA TailIsWithout ==
    ASSUME NEW q \in Seq(Jobs), q # <<>>
    PROVE  1 \in 1..Len(q) /\ Head(q) = q[1] /\ Without(q, Tail(q), 1)
  BY HeadTailProperties DEF Without

LEMMA RemoveAtIsWithout ==
    ASSUME NEW q \in Seq(Jobs), NEW i \in 1..Len(q)
    PROVE  Without(q, RemoveAt(q, i), i)
  BY RemoveAtProperties DEF Without

\* A job leaves its queue, whether it is dropped or dispatched: the queues hold the other queued jobs.
LEMMA Dequeued ==
    ASSUME JobsOK, NEW t \in Tiers, NEW i \in 1..Len(queue[t]), NEW p, Without(queue[t], p, i),
           queue' = [queue EXCEPT ![t] = p],
           stage'[queue[t][i]] # "queued",
           \A j \in Jobs : j # queue[t][i] => stage'[j] = stage[j]
    PROVE  /\ queue' \in [Tiers -> Seq(Jobs)]
           /\ \A u \in Tiers : \A k \in DOMAIN queue'[u] :
                 stage'[queue'[u][k]] = "queued" /\ Priority[queue'[u][k]] = u
           /\ \A u \in Tiers : \A k, l \in DOMAIN queue'[u] : queue'[u][k] = queue'[u][l] => k = l
           /\ \A j \in Jobs : stage'[j] = "queued" =>
                 \E k \in DOMAIN queue'[Priority[j]] : queue'[Priority[j]][k] = j
<1> USE Constants
<1> DEFINE q == queue[t]
           x == q[i]
<1>0. /\ q \in Seq(Jobs) /\ i \in DOMAIN q /\ x \in Jobs /\ Priority[x] = t
      /\ queue' \in [Tiers -> Seq(Jobs)] /\ queue'[t] = p
      /\ \A u \in Tiers \ {t} : queue'[u] = queue[u]
      /\ \A k, l \in DOMAIN q : q[k] = q[l] => k = l
  <2>1. q \in Seq(Jobs) /\ i \in DOMAIN q /\ x \in Jobs /\ p \in Seq(Jobs)
    BY DEF JobsOK, Without
  <2>2. Priority[x] = t /\ \A k, l \in DOMAIN q : q[k] = q[l] => k = l
    BY <2>1 DEF JobsOK, Accounted
  <2>3. /\ queue' \in [Tiers -> Seq(Jobs)] /\ queue'[t] = p
        /\ \A u \in Tiers \ {t} : queue'[u] = queue[u]
    BY <2>1 DEF JobsOK
  <2>4. QED
    BY <2>1, <2>2, <2>3
<1>1. /\ \A k \in DOMAIN p : p[k] # x /\ \E l \in DOMAIN q : q[l] = p[k]
      /\ \A k, l \in DOMAIN p : p[k] = p[l] => k = l
      /\ \A l \in DOMAIN q : q[l] # x => \E k \in DOMAIN p : p[k] = q[l]
  BY <1>0, WithoutElements
<1>2. \A u \in Tiers : \A k \in DOMAIN queue[u] :
         queue[u][k] \in Jobs /\ stage[queue[u][k]] = "queued" /\ Priority[queue[u][k]] = u
  BY DEF JobsOK, Accounted
<1>3. ASSUME NEW u \in Tiers, NEW k \in DOMAIN queue'[u]
      PROVE  stage'[queue'[u][k]] = "queued" /\ Priority[queue'[u][k]] = u
  <2>1. CASE u = t
    BY <1>0, <1>1, <1>2, <2>1
  <2>2. CASE u # t
    BY <1>0, <1>2, <2>2
  <2>3. QED
    BY <2>1, <2>2
<1>4. ASSUME NEW u \in Tiers, NEW k \in DOMAIN queue'[u], NEW l \in DOMAIN queue'[u],
             queue'[u][k] = queue'[u][l]
      PROVE  k = l
  <2>1. CASE u = t
    BY <1>0, <1>1, <1>4, <2>1
  <2>2. CASE u # t
    BY <1>0, <1>4, <2>2 DEF JobsOK, Accounted
  <2>3. QED
    BY <2>1, <2>2
<1>5. ASSUME NEW j \in Jobs, stage'[j] = "queued"
      PROVE  \E k \in DOMAIN queue'[Priority[j]] : queue'[Priority[j]][k] = j
  <2>1. j # x /\ stage[j] = "queued"
    BY <1>5
  <2>2. PICK l \in DOMAIN queue[Priority[j]] : queue[Priority[j]][l] = j
    BY <2>1 DEF JobsOK, Accounted
  <2>3. CASE Priority[j] = t
    BY <1>0, <1>1, <2>1, <2>2, <2>3
  <2>4. CASE Priority[j] # t
    BY <1>0, <2>2, <2>4
  <2>5. QED
    BY <2>3, <2>4
<1>6. QED
  BY <1>0, <1>3, <1>4, <1>5

\* A queued job is dropped from its queue and failed.
LEMMA DropQueued ==
    ASSUME JobsOK, NEW t \in Tiers, NEW i \in 1..Len(queue[t]), NEW p, Without(queue[t], p, i),
           queue' = [queue EXCEPT ![t] = p],
           Settle({queue[t][i]}, "failed"), busy' = busy
    PROVE  JobsOK'
<1> USE Constants
<1> DEFINE x == queue[t][i]
<1>1. x \in Jobs /\ stage[x] = "queued"
  BY DEF JobsOK, Accounted
<1>2. JobTypes' /\ busy' \in [Slots -> Jobs \cup {NoJob}]
  BY SettleTypes DEF JobsOK
<1>3. \A j \in Jobs : stage'[j] = IF j = x THEN "settled" ELSE stage[j]
  BY DEF Settle
<1>4. ResolvedOnce' /\ \A j \in Jobs : outcome'[j] = "none" <=> stage'[j] # "settled"
  BY <1>1 DEF Settle, JobsOK, ResolvedOnce, JobTypes
<1>5. /\ \A j \in Jobs : stage'[j] = "running" <=> \E s \in Slots : busy'[s] = j
      /\ \A r, s \in Slots : busy'[r] = busy'[s] /\ busy'[r] # NoJob => r = s
  <2>1. ASSUME NEW j \in Jobs PROVE stage'[j] = "running" <=> \E s \in Slots : busy'[s] = j
    <3>1. CASE j = x
      BY <1>1, <1>3, <3>1 DEF JobsOK, Accounted
    <3>2. CASE j # x
      <4>1. stage[j] = "running" <=> \E s \in Slots : busy[s] = j
        BY DEF JobsOK, Accounted
      <4>2. QED
        BY <1>3, <3>2, <4>1
    <3>3. QED
      BY <3>1, <3>2
  <2>2. QED
    BY <2>1 DEF JobsOK, Accounted
<1> HIDE DEF x
<1>6. /\ queue' \in [Tiers -> Seq(Jobs)]
      /\ \A u \in Tiers : \A k \in DOMAIN queue'[u] :
            stage'[queue'[u][k]] = "queued" /\ Priority[queue'[u][k]] = u
      /\ \A u \in Tiers : \A k, l \in DOMAIN queue'[u] : queue'[u][k] = queue'[u][l] => k = l
      /\ \A j \in Jobs : stage'[j] = "queued" =>
            \E k \in DOMAIN queue'[Priority[j]] : queue'[Priority[j]][k] = j
  <2>1. stage'[queue[t][i]] # "queued" /\ \A j \in Jobs : j # queue[t][i] => stage'[j] = stage[j]
    BY <1>1, <1>3 DEF x
  <2>2. QED
    BY <2>1, Dequeued
<1>7. QED
  BY <1>2, <1>4, <1>5, <1>6 DEF JobsOK, Accounted

\* A queued job is given to a slot that runs nothing.
LEMMA DispatchQueued ==
    ASSUME JobsOK, NEW t \in Tiers, queue[t] # <<>>, NEW s \in Slots, busy[s] = NoJob,
           queue' = [queue EXCEPT ![t] = Tail(queue[t])],
           stage' = [stage EXCEPT ![Head(queue[t])] = "running"],
           busy' = [busy EXCEPT ![s] = Head(queue[t])],
           UNCHANGED <<settled, outcome>>
    PROVE  JobsOK'
<1> USE Constants
<1> DEFINE x == Head(queue[t])
<1>1. queue[t] \in Seq(Jobs) /\ 1 \in 1..Len(queue[t]) /\ x = queue[t][1]
      /\ Without(queue[t], Tail(queue[t]), 1)
  BY TailIsWithout DEF JobsOK
<1>2. x \in Jobs /\ stage[x] = "queued" /\ x # NoJob
  BY <1>1 DEF JobsOK, Accounted
<1>3. \A r \in Slots : busy[r] # x
  BY <1>2 DEF JobsOK, Accounted
<1>4. JobTypes' /\ busy' \in [Slots -> Jobs \cup {NoJob}]
  BY <1>2 DEF JobsOK, JobTypes
<1>5. \A j \in Jobs : stage'[j] = IF j = x THEN "running" ELSE stage[j]
  BY DEF JobsOK, JobTypes
<1>6. ResolvedOnce' /\ \A j \in Jobs : outcome'[j] = "none" <=> stage'[j] # "settled"
  BY <1>2, <1>5 DEF JobsOK, ResolvedOnce
<1>7. /\ \A j \in Jobs : stage'[j] = "running" <=> \E r \in Slots : busy'[r] = j
      /\ \A r, u \in Slots : busy'[r] = busy'[u] /\ busy'[r] # NoJob => r = u
  <2>1. \A r \in Slots : busy'[r] = IF r = s THEN x ELSE busy[r]
    BY DEF JobsOK
  <2>2. \A r, u \in Slots : busy'[r] = busy'[u] /\ busy'[r] # NoJob => r = u
    BY <1>3, <2>1 DEF JobsOK, Accounted
  <2>3. ASSUME NEW j \in Jobs PROVE stage'[j] = "running" <=> \E r \in Slots : busy'[r] = j
    <3>1. CASE j = x
      BY <1>5, <2>1, <3>1
    <3>2. CASE j # x
      <4>1. (\E r \in Slots : busy'[r] = j) <=> (\E r \in Slots : busy[r] = j)
        BY <2>1, <3>2, Constants
      <4>2. QED
        BY <1>5, <3>2, <4>1 DEF JobsOK, Accounted
    <3>3. QED
      BY <3>1, <3>2
  <2>4. QED
    BY <2>2, <2>3
<1>8. stage'[queue[t][1]] # "queued" /\ \A j \in Jobs : j # queue[t][1] => stage'[j] = stage[j]
  BY <1>1, <1>2, <1>5
<1>9. /\ queue' \in [Tiers -> Seq(Jobs)]
      /\ \A u \in Tiers : \A k \in DOMAIN queue'[u] :
            stage'[queue'[u][k]] = "queued" /\ Priority[queue'[u][k]] = u
      /\ \A u \in Tiers : \A k, l \in DOMAIN queue'[u] : queue'[u][k] = queue'[u][l] => k = l
      /\ \A j \in Jobs : stage'[j] = "queued" =>
            \E k \in DOMAIN queue'[Priority[j]] : queue'[Priority[j]][k] = j
  BY <1>1, <1>8, Dequeued
<1>10. QED
  BY <1>4, <1>6, <1>7, <1>9 DEF JobsOK, Accounted

\* run() puts a job at the end of its queue.
LEMMA EnqueueOK ==
    ASSUME JobsOK, NEW j \in Jobs, stage[j] \in {"new", "loading"}, Enqueue(j), busy' = busy
    PROVE  JobsOK'
<1> USE Constants
<1>1. CASE stopped
  <2>1. Settle({j}, "failed") /\ queue' = queue
    BY <1>1 DEF Enqueue
  <2>2. JobTypes' /\ busy' \in [Slots -> Jobs \cup {NoJob}] /\ queue' \in [Tiers -> Seq(Jobs)]
    BY <2>1, SettleTypes DEF JobsOK
  <2>3. ResolvedOnce' /\ \A k \in Jobs : outcome'[k] = "none" <=> stage'[k] # "settled"
    BY <2>1 DEF Settle, JobsOK, ResolvedOnce, JobTypes
  <2>4. \A k \in Jobs : /\ stage'[k] = "running" <=> stage[k] = "running"
                        /\ stage'[k] = "queued" <=> stage[k] = "queued"
    BY <2>1 DEF Settle
  <2>5. Accounted'
    BY <2>1, <2>4 DEF JobsOK, Accounted
  <2>6. QED
    BY <2>2, <2>3, <2>5 DEF JobsOK
<1>2. CASE ~stopped
  <2> DEFINE t == Priority[j]
             q == queue[t]
  <2>1. /\ queue' = [queue EXCEPT ![t] = Append(q, j)]
        /\ stage' = [stage EXCEPT ![j] = "queued"]
        /\ UNCHANGED <<settled, outcome>>
    BY <1>2 DEF Enqueue
  <2>2. t \in Tiers /\ q \in Seq(Jobs) /\ Append(q, j) \in Seq(Jobs)
    BY DEF JobsOK
  <2>3. /\ queue'[t] = Append(q, j) /\ queue' \in [Tiers -> Seq(Jobs)]
        /\ \A u \in Tiers \ {t} : queue'[u] = queue[u]
    BY <2>1, <2>2 DEF JobsOK
  <2>4. /\ DOMAIN q = 1..Len(q) /\ Len(q) \in Nat
        /\ DOMAIN Append(q, j) = 1..(Len(q) + 1)
        /\ Append(q, j)[Len(q) + 1] = j
        /\ \A k \in 1..Len(q) : Append(q, j)[k] = q[k]
    BY <2>2
  <2>5. \A k \in Jobs : stage'[k] = IF k = j THEN "queued" ELSE stage[k]
    BY <2>1 DEF JobsOK, JobTypes
  <2>6. \A u \in Tiers : \A k \in DOMAIN queue[u] :
           /\ queue[u][k] \in Jobs \ {j}
           /\ stage[queue[u][k]] = "queued" /\ Priority[queue[u][k]] = u
    BY DEF JobsOK, Accounted
  <2>7. JobTypes' /\ busy' \in [Slots -> Jobs \cup {NoJob}]
    BY <2>1 DEF JobsOK, JobTypes
  <2>8. ResolvedOnce' /\ \A k \in Jobs : outcome'[k] = "none" <=> stage'[k] # "settled"
    BY <2>1, <2>5 DEF JobsOK, ResolvedOnce
  <2>9. \A k \in Jobs : stage'[k] = "running" <=> \E s \in Slots : busy'[s] = k
    BY <2>5 DEF JobsOK, Accounted
  <2>10. ASSUME NEW u \in Tiers, NEW k \in DOMAIN queue'[u]
         PROVE  stage'[queue'[u][k]] = "queued" /\ Priority[queue'[u][k]] = u
    <3>1. CASE u = t /\ k = Len(q) + 1
      BY <2>3, <2>4, <2>5, <3>1
    <3>2. CASE u = t /\ k # Len(q) + 1
      <4>1. k \in DOMAIN q /\ queue'[u][k] = q[k]
        BY <2>3, <2>4, <3>2
      <4>2. QED
        BY <2>2, <2>5, <2>6, <3>2, <4>1
    <3>3. CASE u # t
      <4>1. queue'[u] = queue[u]
        BY <2>3, <3>3
      <4>2. QED
        BY <2>5, <2>6, <4>1
    <3>4. QED
      BY <3>1, <3>2, <3>3
  <2>11. ASSUME NEW u \in Tiers, NEW k \in DOMAIN queue'[u], NEW l \in DOMAIN queue'[u],
                queue'[u][k] = queue'[u][l]
         PROVE  k = l
    <3>1. CASE u = t
      <4>1. \A m, n \in DOMAIN q : q[m] = q[n] => m = n
        BY <2>2 DEF JobsOK, Accounted
      <4>2. \A m \in DOMAIN q : q[m] # j
        BY <2>2, <2>6
      <4>3. k \in 1..(Len(q) + 1) /\ l \in 1..(Len(q) + 1)
        BY <2>3, <2>4, <3>1
      <4>4. Append(q, j)[k] = Append(q, j)[l]
        BY <2>3, <2>11, <3>1
      <4> HIDE DEF q
      <4>5. QED
        BY <2>4, <4>1, <4>2, <4>3, <4>4
    <3>2. CASE u # t
      BY <2>3, <2>11, <3>2 DEF JobsOK, Accounted
    <3>3. QED
      BY <3>1, <3>2
  <2>12. ASSUME NEW k \in Jobs, stage'[k] = "queued"
         PROVE  \E i \in DOMAIN queue'[Priority[k]] : queue'[Priority[k]][i] = k
    <3>1. CASE k = j
      <4>1. Len(q) + 1 \in DOMAIN queue'[t] /\ queue'[t][Len(q) + 1] = j
        BY <2>3, <2>4
      <4>2. QED
        BY <3>1, <4>1
    <3>2. CASE k # j
      <4>1. PICK i \in DOMAIN queue[Priority[k]] : queue[Priority[k]][i] = k
        BY <2>5, <2>12, <3>2 DEF JobsOK, Accounted
      <4>2. i \in DOMAIN queue'[Priority[k]] /\ queue'[Priority[k]][i] = k
        <5>1. CASE Priority[k] = t
          <6>1. i \in 1..Len(q) /\ q[i] = k
            BY <2>4, <4>1, <5>1
          <6>2. i \in DOMAIN Append(q, j) /\ Append(q, j)[i] = k
            BY <2>4, <6>1
          <6>3. QED
            BY <2>3, <5>1, <6>2
        <5>2. CASE Priority[k] # t
          BY <2>3, <4>1, <5>2
        <5>3. QED
          BY <5>1, <5>2
      <4>3. QED
        BY <4>2
    <3>3. QED
      BY <3>1, <3>2
  <2>13. \A r, s \in Slots : busy'[r] = busy'[s] /\ busy'[r] # NoJob => r = s
    BY DEF JobsOK, Accounted
  <2>14. QED
    BY <2>3, <2>7, <2>8, <2>9, <2>10, <2>11, <2>12, <2>13 DEF JobsOK, Accounted
<1>3. QED
  BY <1>1, <1>2

\* stop() fails every queued and running job and empties the queues and the slots.
LEMMA StopOK ==
    ASSUME JobsOK, Stop
    PROVE  JobsOK'
<1> USE Constants
<1> DEFINE S == RunningOn(Slots) \cup {j \in Jobs : stage[j] = "queued"}
<1>1. /\ Settle(S, "failed")
      /\ queue' = [t \in Tiers |-> <<>>]
      /\ busy' = [s \in Slots |-> NoJob]
  BY DEF Stop
<1>2. \A j \in Jobs : j \in S <=> stage[j] \in {"queued", "running"}
  BY DEF RunningOn, JobsOK, Accounted
<1> HIDE DEF S
<1>3. JobTypes' /\ queue' \in [Tiers -> Seq(Jobs)] /\ busy' \in [Slots -> Jobs \cup {NoJob}]
  <2>1. JobTypes'
    BY <1>1, SettleTypes DEF JobsOK
  <2>2. <<>> \in Seq(Jobs)
    OBVIOUS
  <2>3. QED
    BY <1>1, <2>1, <2>2
<1>4. ResolvedOnce' /\ \A j \in Jobs : outcome'[j] = "none" <=> stage'[j] # "settled"
  <2>1. ASSUME NEW j \in Jobs
        PROVE  /\ settled'[j] = IF stage'[j] = "settled" THEN 1 ELSE 0
               /\ outcome'[j] = "none" <=> stage'[j] # "settled"
    <3>1. CASE j \in S
      <4>1. settled[j] = 0
        BY <1>2, <3>1 DEF JobsOK, ResolvedOnce
      <4>2. settled'[j] = settled[j] + 1 /\ stage'[j] = "settled" /\ outcome'[j] = "failed"
        BY <1>1, <3>1 DEF Settle
      <4>3. QED
        BY <4>1, <4>2
    <3>2. CASE j \notin S
      BY <1>1, <3>2 DEF Settle, JobsOK, ResolvedOnce, JobTypes
    <3>3. QED
      BY <3>1, <3>2
  <2>2. QED
    BY <2>1 DEF ResolvedOnce
<1>5. \A j \in Jobs : stage'[j] \notin {"queued", "running"}
  BY <1>1, <1>2 DEF Settle, JobsOK, JobTypes
<1>6. Accounted'
  BY <1>1, <1>5 DEF Accounted
<1>7. QED
  BY <1>3, <1>4, <1>6 DEF JobsOK

\* A step that leaves stage, results, queues and slots' jobs as they are.
LEMMA Untouched ==
    ASSUME JobsOK, UNCHANGED <<stage, settled, outcome, queue, busy>>
    PROVE  JobsOK'
  BY DEF JobsOK, JobTypes, ResolvedOnce, Accounted

LEMMA JobsStep == ASSUME Bookkeeping, SlotTypes, RestTypes, [Next]_vars PROVE JobsOK'
<1> USE Constants
<1>0. JobsOK /\ SlotState
  BY DEF Bookkeeping
<1>1. ASSUME NEW j \in Jobs, Run(j) PROVE JobsOK'
  <2>1. CASE j \in Footprint
    <3>1. /\ stage[j] = "new" /\ stage' = [stage EXCEPT ![j] = "loading"]
          /\ UNCHANGED <<settled, outcome, queue, busy>>
      BY <1>1, <2>1 DEF Run, slotVars
    <3>2. /\ JobTypes'
          /\ \A k \in Jobs : stage'[k] = IF k = j THEN "loading" ELSE stage[k]
      BY <1>0, <3>1 DEF JobsOK, JobTypes
    <3>3. QED
      BY <1>0, <3>1, <3>2 DEF JobsOK, ResolvedOnce, Accounted
  <2>2. CASE j \notin Footprint
    <3>1. stage[j] \in {"new", "loading"} /\ Enqueue(j) /\ busy' = busy
      BY <1>1, <2>2 DEF Run, slotVars
    <3>2. QED
      BY <1>0, <3>1, EnqueueOK
  <2>3. QED
    BY <2>1, <2>2
<1>2. ASSUME NEW j \in Jobs, FootprintsLoaded(j) PROVE JobsOK'
  <2>1. stage[j] \in {"new", "loading"} /\ Enqueue(j) /\ busy' = busy
    BY <1>2 DEF FootprintsLoaded, slotVars
  <2>2. QED
    BY <1>0, <2>1, EnqueueOK
<1>3. ASSUME NEW t \in Tiers, PumpDrop(t) \/ PumpDispatchFails(t) PROVE JobsOK'
  <2>1. queue[t] \in Seq(Jobs) /\ queue[t] # <<>> /\ scan \in Slots
    BY <1>0, <1>3 DEF JobsOK, PumpDrop, PumpDispatchFails, NextTier, RestTypes, Slots
  <2>2. /\ 1 \in 1..Len(queue[t]) /\ Head(queue[t]) = queue[t][1]
        /\ Without(queue[t], Tail(queue[t]), 1)
    BY <2>1, TailIsWithout
  <2>3. /\ queue' = [queue EXCEPT ![t] = Tail(queue[t])]
        /\ Settle({queue[t][1]}, "failed")
    BY <1>3, <2>2 DEF PumpDrop, PumpDispatchFails
  <2>4. busy' = busy
    <3>1. CASE PumpDrop(t)
      BY <3>1 DEF PumpDrop, slotVars
    <3>2. CASE PumpDispatchFails(t)
      BY <1>0, <2>1, <3>2 DEF PumpDispatchFails, Retire, Free, JobsOK
    <3>3. QED
      BY <1>3, <3>1, <3>2
  <2>5. QED
    BY <1>0, <2>2, <2>3, <2>4, DropQueued
<1>4. ASSUME NEW t \in Tiers, PumpDispatch(t) PROVE JobsOK'
  <2>1. /\ queue[t] # <<>> /\ scan \in Slots /\ busy[scan] = NoJob
        /\ queue' = [queue EXCEPT ![t] = Tail(queue[t])]
        /\ stage' = [stage EXCEPT ![Head(queue[t])] = "running"]
        /\ busy' = [busy EXCEPT ![scan] = Head(queue[t])]
        /\ UNCHANGED <<settled, outcome>>
    BY <1>4 DEF PumpDispatch, NextTier, Free, RestTypes, Slots
  <2>2. QED
    BY <1>0, <2>1, DispatchQueued
<1>5. ASSUME NEW t \in Tiers, NEW i \in DOMAIN queue[t], SweepDrop(t, i) PROVE JobsOK'
  <2>1. queue[t] \in Seq(Jobs) /\ i \in 1..Len(queue[t])
    BY <1>0 DEF JobsOK
  <2>2. Without(queue[t], RemoveAt(queue[t], i), i)
    BY <2>1, RemoveAtIsWithout
  <2>3. /\ queue' = [queue EXCEPT ![t] = RemoveAt(queue[t], i)]
        /\ Settle({queue[t][i]}, "failed") /\ busy' = busy
    BY <1>5 DEF SweepDrop, slotVars
  <2>4. QED
    BY <1>0, <2>1, <2>2, <2>3, DropQueued
<1>6. ASSUME NEW s \in Slots,
             WorkerResult(s) \/ WorkerError(s) \/ WorkerExit(s) \/ WorkerExitNoSpawn(s)
      PROVE  JobsOK'
  <2>1. queue' = queue /\ {s} \in SUBSET Slots
    BY <1>6 DEF WorkerResult, WorkerError, WorkerExit, WorkerExitNoSpawn
  <2>2. \E r \in {"ok", "failed"} : Settle(RunningOn({s}), r)
    <3>1. CASE WorkerResult(s)
      <4>1. RunningOn({s}) = {busy[s]}
        BY <3>1 DEF RunningOn, WorkerResult
      <4>2. QED
        BY <3>1, <4>1 DEF WorkerResult
    <3>2. QED
      BY <1>6, <3>1 DEF WorkerError, WorkerExit, WorkerExitNoSpawn, RetireFailing
  <2>3. busy' = [r \in Slots |-> IF r \in {s} THEN NoJob ELSE busy[r]]
    BY <1>0, <1>6 DEF WorkerResult, WorkerError, WorkerExit, WorkerExitNoSpawn, RetireFailing, Retire,
                      Fresh, JobsOK
  <2>4. QED
    BY <1>0, <2>1, <2>2, <2>3, SettleRunning
<1>7. ASSUME ReapTimeouts \/ ReapMemory PROVE JobsOK'
  <2>1. \E S \in SUBSET Slots : RetireFailing(S) /\ queue' = queue
    BY <1>7 DEF ReapTimeouts, ReapMemory, LowestBusy, BusySlots, SlotTypes
  <2>2. QED
    BY <1>0, <2>1, SettleRunning DEF RetireFailing, Retire
<1>8. CASE RecycleAll
  <2>1. busy' = busy
    BY <1>0, <1>8 DEF RecycleAll, Retire, JobsOK
  <2>2. UNCHANGED <<stage, settled, outcome, queue, busy>>
    BY <1>8, <2>1 DEF RecycleAll, jobVars
  <2>3. QED
    BY <1>0, <2>2, Untouched
<1>9. ASSUME NEW s \in Slots, NEW t \in timers[s], TimerFires(s, t) PROVE JobsOK'
  <2>1. busy[s] = NoJob
    BY <1>0 DEF SlotState
  <2>2. UNCHANGED <<stage, settled, outcome, queue, busy>>
    BY <1>0, <1>9, <2>1 DEF TimerFires, Fresh, jobVars, JobsOK
  <2>3. QED
    BY <1>0, <2>2, Untouched
<1>10. ASSUME \/ \E j \in Jobs : DeadlinePasses(j)
              \/ PumpSkip \/ SweepDone
              \/ \E s \in Slots : WorkerReady(s) \/ WorkerExitStopped(s) \/ RetryFails(s) \/ RunsOver(s)
              \/ UNCHANGED vars
       PROVE  JobsOK'
  <2>1. UNCHANGED <<stage, settled, outcome, queue, busy>>
    BY <1>10 DEF DeadlinePasses, PumpSkip, SweepDone, WorkerReady, WorkerExitStopped, RetryFails,
                 RunsOver, vars, jobVars, slotVars
  <2>2. QED
    BY <1>0, <2>1, Untouched
<1>11. CASE Stop
  BY <1>0, <1>11, StopOK
<1>12. QED
  BY <1>1, <1>2, <1>3, <1>4, <1>5, <1>6, <1>7, <1>8, <1>9, <1>10, <1>11 DEF Next, Pump, Sweep

LEMMA SlotStep == ASSUME Bookkeeping, SlotTypes, RestTypes, [Next]_vars PROVE SlotState'
<1> USE Constants DEF Slots
<1>0. SlotState /\ \A s \in Slots : busy[s] # NoJob => ~retiring[s]
  BY DEF Bookkeeping, SlotState
<1> USE DEF SlotState, SlotTypes
<1>1. ASSUME NEW j \in Jobs, Run(j) \/ FootprintsLoaded(j) PROVE SlotState'
  BY <1>0, <1>1 DEF Run, FootprintsLoaded, Enqueue, Idle, slotVars
<1>2. ASSUME NEW t \in Tiers, PumpDrop(t) PROVE SlotState'
  BY <1>0, <1>2 DEF PumpDrop, slotVars
<1>3. ASSUME NEW t \in Tiers, PumpDispatch(t) PROVE SlotState'
  BY <1>0, <1>3 DEF PumpDispatch, Free, AfterSlot, RestTypes
<1>4. ASSUME NEW t \in Tiers, PumpDispatchFails(t) PROVE SlotState'
  BY <1>0, <1>4 DEF PumpDispatchFails, Retire, AfterSlot, RestTypes
<1>5. ASSUME NEW t \in Tiers, NEW i \in DOMAIN queue[t], SweepDrop(t, i) PROVE SlotState'
  BY <1>0, <1>5 DEF SweepDrop, slotVars
<1>6. CASE PumpSkip
  BY <1>0, <1>6 DEF PumpSkip, AfterSlot, slotVars, RestTypes
<1>7. CASE SweepDone
  BY <1>0, <1>7 DEF SweepDone, slotVars
<1>8. ASSUME NEW s \in Slots, WorkerReady(s) \/ WorkerExitStopped(s) \/ RunsOver(s) PROVE SlotState'
  BY <1>0, <1>8 DEF WorkerReady, WorkerExitStopped, RunsOver, Listening, Idle
<1>9. ASSUME NEW s \in Slots, WorkerResult(s) PROVE SlotState'
  <2>1. CASE runs[s] + 1 >= MaxRuns
    BY <1>0, <1>9, <2>1 DEF WorkerResult, Retire, Listening, Idle
  <2>2. CASE ~(runs[s] + 1 >= MaxRuns)
    BY <1>0, <1>9, <2>2 DEF WorkerResult, Listening, Idle
  <2>3. QED
    BY <2>1, <2>2
<1>10. ASSUME NEW s \in Slots, WorkerError(s) PROVE SlotState'
  BY <1>0, <1>10 DEF WorkerError, RetireFailing, Retire, Idle
<1>11. ASSUME NEW s \in Slots, WorkerExit(s) \/ WorkerExitNoSpawn(s) \/ RetryFails(s) PROVE SlotState'
  <2>1. CASE WorkerExit(s)
    BY <1>0, <2>1 DEF WorkerExit, Fresh, Idle
  <2>2. CASE WorkerExitNoSpawn(s)
    BY <1>0, <2>2 DEF WorkerExitNoSpawn, Idle
  <2>3. CASE RetryFails(s)
    <3>1. \A r \in Slots : timers'[r] # {} => timers[r] # {}
      BY <2>3 DEF RetryFails
    <3>2. UNCHANGED <<retiring, busy, ready, scan, sweeping, stopped>>
      BY <2>3 DEF RetryFails
    <3>3. QED
      BY <1>0, <3>1, <3>2
  <2>4. QED
    BY <1>11, <2>1, <2>2, <2>3
<1>12. ASSUME NEW s \in Slots, NEW t \in timers[s], TimerFires(s, t) PROVE SlotState'
  BY <1>0, <1>12 DEF TimerFires, Fresh, Idle
<1>13. CASE ReapTimeouts \/ ReapMemory \/ RecycleAll
  <2>1. \E S \in SUBSET Slots : Retire(S) /\ UNCHANGED <<scan, stopped>> /\ ~stopped
    BY <1>13 DEF ReapTimeouts, ReapMemory, RecycleAll, RetireFailing, LowestBusy, BusySlots
  <2>2. PICK S \in SUBSET Slots : Retire(S) /\ UNCHANGED <<scan, stopped>> /\ ~stopped
    BY <2>1
  <2>3. \A s \in Slots : retiring'[s] <=> s \in S \/ retiring[s]
    BY <2>2 DEF Retire
  <2>4. \A s \in Slots : timers'[s] # {} => retiring'[s]
    BY <1>0, <2>2, <2>3 DEF Retire
  <2>5. \A s \in Slots : retiring'[s] => busy'[s] = NoJob /\ ~ready'[s]
    BY <1>0, <2>2, <2>3 DEF Retire
  <2>6. QED
    BY <2>2, <2>4, <2>5
<1>14. CASE Stop
  BY <1>0, <1>14 DEF Stop, Idle
<1>15. CASE UNCHANGED vars \/ \E j \in Jobs : DeadlinePasses(j)
  BY <1>0, <1>15 DEF vars, slotVars, DeadlinePasses
<1>16. QED
  BY <1>1, <1>2, <1>3, <1>4, <1>5, <1>6, <1>7, <1>8, <1>9, <1>10, <1>11, <1>12, <1>13, <1>14, <1>15
     DEF Next, Pump, Sweep

\* After stop() a job can only be handed in or refused.
LEMMA StopsCleanStep == ASSUME Bookkeeping, [Next]_vars PROVE StopsClean'
<1> SUFFICES ASSUME stopped', NEW j \in Jobs PROVE stage'[j] \in {"new", "loading", "settled"}
  BY DEF StopsClean
<1>1. CASE ~stopped
  <2>1. Stop
    BY <1>1 DEF Next, Pump, Sweep, vars, Run, FootprintsLoaded, DeadlinePasses, PumpSkip, PumpDrop,
       PumpDispatch, PumpDispatchFails, SweepDrop, SweepDone, WorkerReady, WorkerResult, WorkerError,
       WorkerExit, WorkerExitNoSpawn, WorkerExitStopped, TimerFires, RetryFails, RunsOver,
       ReapTimeouts, ReapMemory, RecycleAll
  <2>2. JobsOK
    BY DEF Bookkeeping
  <2>3. stage[j] = "running" => j \in RunningOn(Slots)
    BY <2>2, Constants DEF JobsOK, Accounted, RunningOn
  <2>4. QED
    BY <2>1, <2>2, <2>3 DEF Stop, Settle, JobsOK, JobTypes
<1>2. CASE stopped
  <2>1. /\ stage[j] \in {"new", "loading", "settled"} /\ scan = 0 /\ ~sweeping
        /\ \A s \in Slots : busy[s] = NoJob /\ retiring[s]
    BY <1>2 DEF Bookkeeping, StopsClean, SlotState
  <2>2. \/ \E k \in Jobs : Run(k) \/ FootprintsLoaded(k) \/ DeadlinePasses(k)
        \/ \E s \in Slots : WorkerExitStopped(s) \/ RunsOver(s)
        \/ UNCHANGED vars
    BY <1>2, <2>1 DEF Next, Pump, Sweep, PumpSkip, PumpDrop, PumpDispatch, PumpDispatchFails,
       SweepDrop, SweepDone, WorkerReady, WorkerResult, WorkerError, Listening, WorkerExit,
       WorkerExitNoSpawn, TimerFires, RetryFails, ReapTimeouts, ReapMemory, RecycleAll, Stop
  <2>3. QED
    BY <1>2, <2>1, <2>2 DEF Run, FootprintsLoaded, Enqueue, Settle, DeadlinePasses,
       WorkerExitStopped, RunsOver, vars, jobVars, Bookkeeping, JobsOK, JobTypes
<1>3. QED
  BY <1>1, <1>2

\* The bookkeeping of jobs, slots and queues holds in every reachable state.
LEMMA BookkeepingInvariant == Spec => []Bookkeeping
<1>1. Init => Bookkeeping
  <2> SUFFICES ASSUME Init PROVE Bookkeeping
    OBVIOUS
  <2>1. JobTypes /\ queue \in [Tiers -> Seq(Jobs)] /\ busy \in [Slots -> Jobs \cup {NoJob}]
    BY DEF Init, JobTypes
  <2>2. ResolvedOnce /\ \A j \in Jobs : outcome[j] = "none" <=> stage[j] # "settled"
    BY DEF Init, ResolvedOnce
  <2>3. Accounted
    BY Constants DEF Init, Accounted
  <2>4. SlotState /\ StopsClean
    BY DEF Init, SlotState, StopsClean
  <2>5. QED
    BY <2>1, <2>2, <2>3, <2>4 DEF Bookkeeping, JobsOK
<1>2. TypeOK /\ Bookkeeping /\ [Next]_vars => Bookkeeping'
  BY TypeParts, JobsStep, SlotStep, StopsCleanStep DEF Bookkeeping
<1>3. QED
  BY <1>1, <1>2, TypeInvariant, PTL DEF Spec

\* Every promise is resolved exactly when its job is settled, and never twice.
THEOREM ResolvedOnceHolds == Spec => []ResolvedOnce
<1>1. Bookkeeping => ResolvedOnce
  BY DEF Bookkeeping, JobsOK
<1>2. QED
  BY <1>1, BookkeepingInvariant, PTL

\* No job is lost, duplicated or on two slots.
THEOREM AccountedHolds == Spec => []Accounted
<1>1. Bookkeeping => Accounted
  BY DEF Bookkeeping, JobsOK
<1>2. QED
  BY <1>1, BookkeepingInvariant, PTL

\* After stop() nothing is queued or running.
THEOREM StopsCleanHolds == Spec => []StopsClean
<1>1. Bookkeeping => StopsClean
  BY DEF Bookkeeping
<1>2. QED
  BY <1>1, BookkeepingInvariant, PTL

-----------------------------------------------------------------------------
(* The reserve.  Only a dispatch adds a slot to BusyOnBackground, it adds  *)
(* one, and for a shadow or background job only below the limit.           *)

LEMMA ReservedFits == Reserved \in Nat /\ Reserved <= Size
  BY Constants DEF Reserved

LEMMA BackgroundSlotsFinite == IsFiniteSet(BusyOnBackground) /\ Cardinality(BusyOnBackground) \in Nat
<1>1. IsFiniteSet(Slots)
  BY Constants, FS_Interval DEF Slots
<1>2. BusyOnBackground \subseteq Slots
  BY DEF BusyOnBackground
<1>3. QED
  BY <1>1, <1>2, FS_Subset, FS_CardinalityType

\* A step after which every busy slot was busy with the same job before keeps the reserve.
LEMMA FewerBusy ==
    ASSUME ReserveKept, \A s \in Slots : busy'[s] # NoJob => busy'[s] = busy[s]
    PROVE  ReserveKept'
<1>1. BusyOnBackground' \subseteq BusyOnBackground
  BY DEF BusyOnBackground, CountsAsLive
<1>2. Cardinality(BusyOnBackground') <= Cardinality(BusyOnBackground)
      /\ Cardinality(BusyOnBackground') \in Nat
  BY <1>1, BackgroundSlotsFinite, FS_Subset, FS_CardinalityType
<1>3. QED
  BY <1>2, BackgroundSlotsFinite, ReservedFits, Constants DEF ReserveKept, Reserved

LEMMA DispatchKeepsReserve ==
    ASSUME ReserveKept, JobsOK, RestTypes, NEW t \in Tiers, PumpDispatch(t)
    PROVE  ReserveKept'
<1> DEFINE x == Head(queue[t])
<1>1. /\ queue[t] # <<>> /\ scan \in Slots /\ busy[scan] = NoJob
      /\ busy' = [busy EXCEPT ![scan] = x]
  BY DEF PumpDispatch, NextTier, Free, RestTypes, Slots
<1>2. x \in Jobs /\ Priority[x] = t
  <2>1. queue[t] \in Seq(Jobs) /\ 1 \in DOMAIN queue[t] /\ x = queue[t][1]
    BY <1>1, TailIsWithout DEF JobsOK
  <2>2. QED
    BY <2>1 DEF JobsOK, Accounted
<1>3. \A s \in Slots : busy'[s] = IF s = scan THEN x ELSE busy[s]
  BY <1>1 DEF JobsOK
<1> HIDE DEF x
<1>4. CASE t \in {"live", "mirror"}
  <2>1. BusyOnBackground' = BusyOnBackground
    BY <1>1, <1>2, <1>3, <1>4, Constants DEF BusyOnBackground, CountsAsLive
  <2>2. QED
    BY <2>1 DEF ReserveKept, Reserved
<1>5. CASE t \in {"shadow", "background"}
  <2>1. CanTakeReserved
    BY <1>5 DEF PumpDispatch, NextTier
  <2>2. BusyOnBackground' = BusyOnBackground \cup {scan}
    BY <1>1, <1>2, <1>3, <1>5, Constants DEF BusyOnBackground, CountsAsLive
  <2>3. scan \notin BusyOnBackground
    BY <1>1 DEF BusyOnBackground
  <2>4. Cardinality(BusyOnBackground') = Cardinality(BusyOnBackground) + 1
    BY <2>2, <2>3, BackgroundSlotsFinite, FS_AddElement
  <2>5. QED
    BY <2>1, <2>4, BackgroundSlotsFinite, ReservedFits, Constants
       DEF ReserveKept, CanTakeReserved, Reserved
<1>6. QED
  BY <1>4, <1>5 DEF Tiers

\* Shadow and background work never holds the reserved workers (pool.ts reserved, next).
THEOREM ReserveKeptHolds == Spec => []ReserveKept
<1>1. Init => ReserveKept
  <2> SUFFICES ASSUME Init PROVE ReserveKept
    OBVIOUS
  <2>1. BusyOnBackground = {}
    BY DEF Init, BusyOnBackground
  <2>2. QED
    BY <2>1, FS_EmptySet, ReservedFits, Constants DEF ReserveKept
<1>2. TypeOK /\ Bookkeeping /\ ReserveKept /\ [Next]_vars => ReserveKept'
  <2> SUFFICES ASSUME TypeOK, Bookkeeping, ReserveKept, [Next]_vars PROVE ReserveKept'
    OBVIOUS
  <2>1. JobsOK /\ RestTypes /\ SlotState
    BY TypeParts DEF Bookkeeping
  <2>2. CASE \E t \in Tiers : PumpDispatch(t)
    BY <2>1, <2>2, DispatchKeepsReserve
  <2>3. CASE ~\E t \in Tiers : PumpDispatch(t)
    <3>1. \A s \in Slots : busy'[s] # NoJob => busy'[s] = busy[s]
      BY <2>1, <2>3 DEF Next, vars, slotVars, Pump, Sweep, Run, FootprintsLoaded, DeadlinePasses,
         PumpSkip, PumpDrop, PumpDispatchFails, SweepDrop, SweepDone, WorkerReady, WorkerResult,
         WorkerError, WorkerExit, WorkerExitNoSpawn, WorkerExitStopped, TimerFires, RetryFails,
         RunsOver, ReapTimeouts, ReapMemory, RecycleAll, Stop, RetireFailing, Retire, Fresh, JobsOK
    <3>2. QED
      BY <3>1, FewerBusy
  <2>4. QED
    BY <2>2, <2>3
<1>3. QED
  BY <1>1, <1>2, TypeInvariant, BookkeepingInvariant, PTL DEF Spec

-----------------------------------------------------------------------------
(* No worker idles beside live work: while jobs of the live or mirror tier *)
(* wait, no slot that the pump has passed is free.                         *)

LiveWaits == queue["live"] # <<>> \/ queue["mirror"] # <<>>
Pumped == LiveWaits => \A s \in Slots : scan = 0 \/ s < scan => ~Free(s)
StaysFree(s) == ready'[s] /\ ~retiring'[s] /\ busy'[s] = NoJob

\* A step that brings no live work, frees no slot and leaves the pump where it is keeps it.
LEMMA NothingFreed ==
    ASSUME Pumped, LiveWaits' => LiveWaits, scan' = scan, \A s \in Slots : StaysFree(s) => Free(s)
    PROVE  Pumped'
  BY DEF Pumped, StaysFree, Free, Slots

\* A pump that starts has passed no slot.
LEMMA PumpStarts ==
    ASSUME scan' = 1
    PROVE  Pumped'
  BY Constants DEF Pumped, Slots

\* A pump that is done with a slot leaves it taken, or no live work.
LEMMA SlotDone ==
    ASSUME TypeOK, Pumped, scan # 0, AfterSlot, LiveWaits' => LiveWaits,
           \A s \in Slots : StaysFree(s) => Free(s), LiveWaits' => ~StaysFree(scan)
    PROVE  Pumped'
<1>1. ASSUME LiveWaits', NEW s \in Slots, scan' = 0 \/ s < scan' PROVE ~StaysFree(s)
  <2>1. scan \in 1..Size /\ s \in 1..Size /\ Size \in Nat
    BY Constants DEF TypeOK, Slots
  <2>2. s = scan \/ s < scan
    BY <1>1, <2>1 DEF AfterSlot
  <2>3. CASE s = scan
    BY <1>1, <2>3
  <2>4. CASE s < scan
    BY <1>1, <2>4 DEF Pumped
  <2>5. QED
    BY <2>2, <2>3, <2>4
<1>2. QED
  BY <1>1 DEF Pumped, StaysFree, Free, Slots

\* Taking a job out of the queue of its tier brings no live work.
LEMMA QueueShrinks ==
    ASSUME TypeOK, NEW t \in Tiers, queue[t] # <<>>, NEW p, queue' = [queue EXCEPT ![t] = p]
    PROVE  LiveWaits' => LiveWaits
  BY DEF LiveWaits, TypeOK, Tiers

LEMMA PumpedStep == ASSUME TypeOK, Pumped, [Next]_vars PROVE Pumped'
<1> USE Constants
<1>0. /\ queue \in [Tiers -> Seq(Jobs)] /\ busy \in [Slots -> Jobs \cup {NoJob}] /\ ready \in [Slots -> BOOLEAN]
      /\ retiring \in [Slots -> BOOLEAN] /\ scan \in 0..Size
  BY DEF TypeOK
<1>1. ASSUME NEW S, Retire(S) PROVE \A s \in Slots : StaysFree(s) => Free(s) /\ s \notin S
  BY <1>1 DEF Retire, StaysFree, Free
<1>2. ASSUME NEW r \in Slots, Fresh(r) PROVE \A s \in Slots : StaysFree(s) => Free(s)
  BY <1>0, <1>2 DEF Fresh, StaysFree, Free
<1>3. ASSUME UNCHANGED <<busy, ready, retiring>> PROVE \A s \in Slots : StaysFree(s) => Free(s)
  BY <1>3 DEF StaysFree, Free
<1>4. ASSUME UNCHANGED queue PROVE LiveWaits' => LiveWaits
  BY <1>4 DEF LiveWaits
<1>5. ASSUME NEW j \in Jobs, Run(j) \/ FootprintsLoaded(j) PROVE Pumped'
  <2>1. scan' = 1 \/ (queue' = queue /\ scan' = scan)
    BY <1>5 DEF Run, FootprintsLoaded, Enqueue
  <2>2. UNCHANGED <<busy, ready, retiring>>
    BY <1>5 DEF Run, FootprintsLoaded, slotVars
  <2>3. QED
    BY <1>3, <1>4, <2>1, <2>2, NothingFreed, PumpStarts
<1>6. CASE PumpSkip
  <2>1. scan # 0 /\ AfterSlot /\ UNCHANGED <<queue, busy, ready, retiring>>
    BY <1>6 DEF PumpSkip, slotVars
  <2>2. ~Free(scan) \/ \A t \in Tiers : ~NextTier(t)
    BY <1>6 DEF PumpSkip
  <2>3. LiveWaits => NextTier("live") \/ NextTier("mirror")
    BY DEF LiveWaits, NextTier
  <2>4. LiveWaits' => ~StaysFree(scan)
    BY <1>4, <2>1, <2>2, <2>3 DEF Tiers, StaysFree, Free
  <2>5. QED
    BY <1>3, <1>4, <2>1, <2>4, SlotDone
<1>7. ASSUME NEW t \in Tiers, PumpDrop(t) PROVE Pumped'
  <2>1. queue[t] # <<>> /\ queue' = [queue EXCEPT ![t] = Tail(queue[t])] /\ scan' = scan
        /\ UNCHANGED <<busy, ready, retiring>>
    BY <1>7 DEF PumpDrop, NextTier, slotVars
  <2>2. QED
    BY <1>3, <2>1, QueueShrinks, NothingFreed
<1>8. ASSUME NEW t \in Tiers, PumpDispatch(t) PROVE Pumped'
  <2>1. /\ queue[t] # <<>> /\ queue' = [queue EXCEPT ![t] = Tail(queue[t])] /\ scan # 0 /\ AfterSlot
        /\ busy' = [busy EXCEPT ![scan] = Head(queue[t])] /\ UNCHANGED <<ready, retiring>>
    BY <1>8 DEF PumpDispatch, NextTier
  <2>2. scan \in Slots /\ Head(queue[t]) \in Jobs
    BY <1>0, <2>1 DEF Slots
  <2>3. ~StaysFree(scan)
    BY <1>0, <2>1, <2>2 DEF StaysFree
  <2>4. \A s \in Slots : StaysFree(s) => Free(s)
    BY <1>0, <2>1, <2>3 DEF StaysFree, Free
  <2>5. QED
    BY <2>1, <2>3, <2>4, QueueShrinks, SlotDone
<1>9. ASSUME NEW t \in Tiers, PumpDispatchFails(t) PROVE Pumped'
  <2>1. /\ queue[t] # <<>> /\ queue' = [queue EXCEPT ![t] = Tail(queue[t])] /\ scan # 0 /\ AfterSlot
        /\ Retire({scan})
    BY <1>9 DEF PumpDispatchFails, NextTier
  <2>2. scan \in Slots
    BY <1>0, <2>1 DEF Slots
  <2>3. QED
    BY <1>1, <2>1, <2>2, QueueShrinks, SlotDone
<1>10. ASSUME NEW t \in Tiers, NEW i \in DOMAIN queue[t], SweepDrop(t, i) PROVE Pumped'
  <2>1. queue' = [queue EXCEPT ![t] = RemoveAt(queue[t], i)] /\ scan' = scan /\ UNCHANGED <<busy, ready, retiring>>
    BY <1>10 DEF SweepDrop, slotVars
  <2>2. queue[t] # <<>>
    BY <1>0
  <2>3. QED
    BY <1>3, <2>1, <2>2, QueueShrinks, NothingFreed
<1>11. ASSUME NEW s \in Slots, WorkerReady(s) \/ WorkerResult(s) PROVE Pumped'
  BY <1>11, PumpStarts DEF WorkerReady, WorkerResult
<1>12. ASSUME NEW s \in Slots, WorkerError(s) PROVE Pumped'
  BY <1>1, <1>4, <1>12, NothingFreed DEF WorkerError, RetireFailing
<1>13. ASSUME NEW s \in Slots, WorkerExit(s) PROVE Pumped'
  BY <1>2, <1>4, <1>13, NothingFreed DEF WorkerExit
<1>14. ASSUME NEW s \in Slots, WorkerExitNoSpawn(s) PROVE Pumped'
  <2>1. UNCHANGED <<queue, scan>>
    BY <1>14 DEF WorkerExitNoSpawn
  <2>2. \A r \in Slots : StaysFree(r) => Free(r)
    BY <1>0, <1>14 DEF WorkerExitNoSpawn, StaysFree, Free
  <2>3. QED
    BY <1>4, <2>1, <2>2, NothingFreed
<1>15. ASSUME NEW s \in Slots, NEW t \in timers[s], TimerFires(s, t) PROVE Pumped'
  BY <1>2, <1>4, <1>15, NothingFreed DEF TimerFires
<1>16. ASSUME NEW s \in Slots, WorkerExitStopped(s) \/ RetryFails(s) \/ RunsOver(s) PROVE Pumped'
  BY <1>3, <1>4, <1>16, NothingFreed DEF WorkerExitStopped, RetryFails, RunsOver
<1>17. CASE ReapTimeouts \/ ReapMemory \/ RecycleAll
  <2>1. UNCHANGED <<queue, scan>> /\ \E S : Retire(S)
    BY <1>17 DEF ReapTimeouts, ReapMemory, RecycleAll, RetireFailing
  <2>2. QED
    BY <1>1, <1>4, <2>1, NothingFreed
<1>18. CASE Stop
  BY <1>18 DEF Stop, Pumped, LiveWaits, Tiers
<1>19. ASSUME (\E j \in Jobs : DeadlinePasses(j)) \/ SweepDone \/ UNCHANGED vars PROVE Pumped'
  BY <1>3, <1>4, <1>19, NothingFreed DEF DeadlinePasses, SweepDone, vars, slotVars
<1>20. QED
  BY <1>5, <1>6, <1>7, <1>8, <1>9, <1>10, <1>11, <1>12, <1>13, <1>14, <1>15, <1>16, <1>17, <1>18, <1>19
     DEF Next, Pump, Sweep

\* Between handlers no job of the live or mirror tier waits beside a worker that could take it: every
\* handler that brings such a job or frees or readies a worker pumps (pool.ts pump, next).
THEOREM NoIdleWorkerHolds == Spec => []NoIdleWorkerWhileLiveWaits
<1>1. Init => Pumped
  BY DEF Init, Pumped, LiveWaits, Tiers
<1>2. TypeOK /\ Pumped /\ [Next]_vars => Pumped'
  BY PumpedStep
<1>3. Pumped => NoIdleWorkerWhileLiveWaits
  BY DEF Pumped, LiveWaits, NoIdleWorkerWhileLiveWaits, Idle
<1>4. QED
  BY <1>1, <1>2, <1>3, TypeInvariant, PTL DEF Spec

-----------------------------------------------------------------------------
(* The pool implements JobPromise: a job is open from run() until it is    *)
(* settled, and its answer is the first one.                               *)

Open == {j \in Jobs : stage[j] \in {"loading", "queued", "running"}}

LEMMA SettleMapsToFail ==
    ASSUME JobsOK, NEW S \in SUBSET Jobs, Settle(S, "failed"),
           \A j \in S : stage[j] \in {"loading", "queued", "running"}
    PROVE  [Promise!Next]_(Promise!vars)
<1>1. Open' = Open \ S /\ outcome' = [j \in Jobs |-> IF j \in S THEN "failed" ELSE outcome[j]]
  BY DEF Open, Settle, JobsOK, JobTypes
<1>2. S \subseteq Open
  BY DEF Open
<1>3. CASE S = {}
  BY <1>1, <1>3 DEF Promise!vars, Open, JobsOK, JobTypes
<1>4. CASE S # {}
  BY <1>1, <1>2, <1>4 DEF Promise!Next, Promise!Fail, Open
<1>5. QED
  BY <1>3, <1>4

\* A step that changes neither which jobs are open nor the results is a stutter.
LEMMA SameOpen ==
    ASSUME Open' = Open, outcome' = outcome
    PROVE  [Promise!Next]_(Promise!vars)
  BY DEF Open, Promise!vars

\* Every initial state and every step of the pool is one of JobPromise: a job is answered once and
\* its answer is never revised (pool.ts run, fail, spawn).
THEOREM PoolImplementsPromise == Spec => Promised
<1>1. Init => Promise!Init
  BY DEF Init, Promise!Init
<1>2. TypeOK /\ Bookkeeping /\ [Next]_vars => [Promise!Next]_(Promise!vars)
  <2> SUFFICES ASSUME TypeOK, Bookkeeping, [Next]_vars PROVE [Promise!Next]_(Promise!vars)
    OBVIOUS
  <2> USE Constants
  <2>0. JobsOK /\ SlotTypes /\ \A s \in Slots : \A j \in Jobs : busy[s] = j => stage[j] = "running"
    BY TypeParts DEF Bookkeeping, JobsOK, Accounted
  <2>0a. \A R \in SUBSET Slots : /\ RunningOn(R) \in SUBSET Jobs
                                 /\ \A j \in RunningOn(R) : stage[j] = "running"
    BY <2>0 DEF RunningOn, JobsOK
  <2>1. ASSUME NEW j \in Jobs, Run(j) PROVE [Promise!Next]_(Promise!vars)
    <3>1. stage[j] = "new" /\ outcome[j] = "none" /\ j \notin Open
      BY <2>0, <2>1 DEF Run, JobsOK, Open
    <3>2. CASE j \notin Footprint /\ stopped
      <4>1. Settle({j}, "failed")
        BY <2>1, <3>2 DEF Run, Enqueue
      <4>2. Open' = Open /\ outcome' = [outcome EXCEPT ![j] = "failed"]
        BY <2>0, <3>1, <4>1 DEF Settle, Open, JobsOK, JobTypes
      <4>3. QED
        BY <3>1, <4>2 DEF Promise!Next, Promise!Refuse, Open
    <3>3. CASE ~(j \notin Footprint /\ stopped)
      <4>1. /\ \E v \in {"loading", "queued"} : stage' = [stage EXCEPT ![j] = v]
            /\ UNCHANGED outcome
        BY <2>1, <3>3 DEF Run, Enqueue
      <4>2. Open' = Open \cup {j} /\ UNCHANGED outcome
        BY <2>0, <4>1 DEF Open, JobsOK, JobTypes
      <4>3. QED
        BY <3>1, <4>2 DEF Promise!Next, Promise!HandIn, Open
    <3>4. QED
      BY <3>2, <3>3
  <2>2. ASSUME NEW j \in Jobs, FootprintsLoaded(j) PROVE [Promise!Next]_(Promise!vars)
    <3>1. CASE stopped
      <4>1. Settle({j}, "failed") /\ stage[j] = "loading"
        BY <2>2, <3>1 DEF FootprintsLoaded, Enqueue
      <4>2. QED
        BY <2>0, <4>1, SettleMapsToFail
    <3>2. CASE ~stopped
      <4>1. stage[j] = "loading" /\ stage' = [stage EXCEPT ![j] = "queued"] /\ outcome' = outcome
        BY <2>2, <3>2 DEF FootprintsLoaded, Enqueue
      <4>2. Open' = Open
        BY <2>0, <4>1 DEF Open, JobsOK, JobTypes
      <4>3. QED
        BY <4>1, <4>2, SameOpen
    <3>3. QED
      BY <3>1, <3>2
  <2>3. ASSUME NEW t \in Tiers, PumpDrop(t) \/ PumpDispatchFails(t)
        PROVE  [Promise!Next]_(Promise!vars)
    <3>1. Head(queue[t]) \in Jobs /\ stage[Head(queue[t])] = "queued"
      <4>1. queue[t] \in Seq(Jobs) /\ queue[t] # <<>>
        BY <2>0, <2>3 DEF JobsOK, PumpDrop, PumpDispatchFails, NextTier
      <4>2. 1 \in DOMAIN queue[t] /\ Head(queue[t]) = queue[t][1]
        BY <4>1, TailIsWithout
      <4>3. QED
        BY <2>0, <4>1, <4>2 DEF JobsOK, Accounted
    <3>2. Settle({Head(queue[t])}, "failed")
      BY <2>3 DEF PumpDrop, PumpDispatchFails
    <3>3. QED
      BY <2>0, <3>1, <3>2, SettleMapsToFail
  <2>4. ASSUME NEW t \in Tiers, PumpDispatch(t) PROVE [Promise!Next]_(Promise!vars)
    <3>1. queue[t] \in Seq(Jobs) /\ queue[t] # <<>>
      BY <2>0, <2>4 DEF JobsOK, PumpDispatch, NextTier
    <3>2. Head(queue[t]) \in Jobs /\ stage[Head(queue[t])] = "queued"
      <4>1. 1 \in DOMAIN queue[t] /\ Head(queue[t]) = queue[t][1]
        BY <3>1, TailIsWithout
      <4>2. QED
        BY <2>0, <3>1, <4>1 DEF JobsOK, Accounted
    <3>3. stage' = [stage EXCEPT ![Head(queue[t])] = "running"] /\ outcome' = outcome
      BY <2>4 DEF PumpDispatch
    <3>4. Open' = Open
      BY <2>0, <3>2, <3>3 DEF Open, JobsOK, JobTypes
    <3>5. QED
      BY <3>3, <3>4, SameOpen
  <2>5. ASSUME NEW t \in Tiers, NEW i \in DOMAIN queue[t], SweepDrop(t, i)
        PROVE  [Promise!Next]_(Promise!vars)
    <3>1. Settle({queue[t][i]}, "failed")
      BY <2>5 DEF SweepDrop
    <3>2. queue[t][i] \in Jobs /\ stage[queue[t][i]] = "queued"
      BY <2>0 DEF JobsOK, Accounted
    <3>3. QED
      BY <2>0, <3>1, <3>2, SettleMapsToFail
  <2>6. ASSUME NEW s \in Slots, WorkerResult(s) PROVE [Promise!Next]_(Promise!vars)
    <3>1. busy[s] \in Jobs /\ stage[busy[s]] = "running" /\ Settle({busy[s]}, "ok")
      BY <2>0, <2>6 DEF WorkerResult, JobsOK
    <3>2. /\ Open' = Open \ {busy[s]} /\ busy[s] \in Open
          /\ outcome' = [outcome EXCEPT ![busy[s]] = "ok"]
      BY <2>0, <3>1 DEF Settle, Open, JobsOK, JobTypes
    <3>3. QED
      BY <3>1, <3>2 DEF Promise!Next, Promise!Answer, Open
  <2>7. ASSUME NEW s \in Slots, WorkerError(s) \/ WorkerExit(s) \/ WorkerExitNoSpawn(s)
        PROVE  [Promise!Next]_(Promise!vars)
    <3>1. Settle(RunningOn({s}), "failed")
      BY <2>7 DEF WorkerError, WorkerExit, WorkerExitNoSpawn, RetireFailing
    <3>2. QED
      BY <2>0, <2>0a, <3>1, SettleMapsToFail
  <2>8. CASE ReapTimeouts \/ ReapMemory
    <3>1. \E S \in SUBSET Slots : Settle(RunningOn(S), "failed")
      BY <2>0, <2>8 DEF ReapTimeouts, ReapMemory, LowestBusy, BusySlots, RetireFailing, SlotTypes
    <3>2. QED
      BY <2>0, <2>0a, <3>1, SettleMapsToFail
  <2>9. CASE Stop
    <3> DEFINE S == RunningOn(Slots) \cup {j \in Jobs : stage[j] = "queued"}
    <3>1. Settle(S, "failed")
      BY <2>9 DEF Stop
    <3>2. S \in SUBSET Jobs /\ \A j \in S : stage[j] \in {"loading", "queued", "running"}
      BY <2>0a
    <3>3. QED
      BY <2>0, <3>1, <3>2, SettleMapsToFail
  <2>10. ASSUME \/ \E j \in Jobs : DeadlinePasses(j)
                \/ PumpSkip \/ SweepDone \/ RecycleAll
                \/ \E s \in Slots : \/ WorkerReady(s) \/ WorkerExitStopped(s) \/ RetryFails(s)
                                    \/ RunsOver(s) \/ \E t \in timers[s] : TimerFires(s, t)
                \/ UNCHANGED vars
         PROVE  [Promise!Next]_(Promise!vars)
    <3>1. UNCHANGED <<stage, outcome>>
      BY <2>10 DEF DeadlinePasses, PumpSkip, SweepDone, RecycleAll, WorkerReady, WorkerExitStopped,
         RetryFails, RunsOver, TimerFires, vars, jobVars
    <3>2. Open' = Open
      BY <3>1 DEF Open
    <3>3. QED
      BY <3>1, <3>2, SameOpen
  <2>11. QED
    BY <2>1, <2>2, <2>3, <2>4, <2>5, <2>6, <2>7, <2>8, <2>9, <2>10 DEF Next, Pump, Sweep
<1>3. QED
  BY <1>1, <1>2, TypeInvariant, BookkeepingInvariant, PTL DEF Spec, Promised, Promise!Spec
=============================================================================
