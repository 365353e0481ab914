----------------------------- MODULE SignalInbox -----------------------------
(***************************************************************************)
(* The durable signal inbox of the scanner engine: a receipt is committed   *)
(* before a signal is prepared, the decision (fills, position, receipt      *)
(* outcome) is one SQLite transaction, and receipts left pending by a       *)
(* failure, a shutdown or a SIGKILL are retried by a timer.                 *)
(*   scanners/inbox.ts             the receipt rows                         *)
(*   scanners/engine.ts 602-711    handleLiveEvent, processReceipt, decide  *)
(*   scanners/entryCoordinator.ts  entries decided in batches               *)
(*   paper/engine.ts 101-119       commitDecision: commit or restore memory *)
(*                                                                         *)
(* One cell (scanner, market, timeframe) of the live account is modelled.   *)
(* JavaScript runs a handler to its next await without interruption; where  *)
(* such a run commits twice, `run` holds it between the two commits: no     *)
(* other handler acts then, but a SIGKILL may fall there.                   *)
(***************************************************************************)
EXTENDS Naturals, FiniteSets

CONSTANTS
  Entries, Exits,     \* identities (eventKey) of the entry and exit events
  Copied,             \* entries a shadow pair offered (ingestEvent)
  Loops,              \* passes of recoverSignals that may overlap
  NoLoop,             \* the caller is a live run, not a recovery pass
  MaxPos,             \* bound: positions the account opens
  MaxFaults,          \* bound: failed writes and failed preparations
  MaxStops,           \* bound: shutdowns and crashes
  MaxResets,          \* bound: operator resets
  MaxChanges          \* bound: changes of policy, allocation, mode and price

Events == Entries \cup Exits
Positions == 1..MaxPos

ASSUME InboxAssumption ==
  /\ Entries \cap Exits = {}
  /\ Copied \subseteq Entries
  /\ NoLoop \notin Loops
  /\ MaxPos \in Nat \ {0}
  /\ {MaxFaults, MaxStops, MaxResets, MaxChanges} \subseteq Nat

VARIABLES
  receipt,   \* durable: state of each event's signal_inbox row
  tried,     \* durable: events whose row has attempts > 0
  payload,   \* durable: what the delivery recorded when it was received
  expired,   \* entries older than the recovery window (received_at is durable)
  book,      \* durable: the open position (0: none), next id, paper.resetAt
  open,      \* memory: the position the engine holds open
  task,      \* memory: processReceipt of each event, at the await it is in
  todo,      \* memory: rows each recovery pass still has to process
  run,       \* the synchronous run in progress, between two of its commits
  life,      \* "down", "up" or "stopping"
  cfg,       \* policy version, allocation, execution.mode = 'paper'
  price,     \* market price in memory: "none" since start, "fresh", "stale"
  used,      \* the bounds spent
  \* what happened, for the properties:
  resets,           \* operator resets so far
  unstamped,        \* those whose paper.resetAt a SIGKILL kept from being written
  era, seen,        \* at each receipt: resets, the position held
  trades,           \* per event, its decisions that traded
  opener, closer    \* per position, <<entry, resets then>> and the exits

durable == <<receipt, tried, payload, expired, book>>
world   == <<life, cfg, price>>
history == <<resets, unstamped, era, seen, trades, opener, closer>>
vars    == <<durable, open, task, todo, run, world, history, used>>

Idle    == [at |-> "idle", recovery |-> FALSE, loop |-> NoLoop]
NoRun   == [kind |-> "none", on |-> {}]
Busy(e) == task[e].at # "idle"
Turn    == run = NoRun /\ life # "down"

Init ==
  /\ receipt = [e \in Events |-> "none"]
  /\ tried = {}
  /\ payload = [e \in Events |-> [target |-> 0, resetAt |-> 0, policy |-> 0]]
  /\ expired = {}
  /\ book = [held |-> 0, next |-> 1, resetAt |-> 0]
  /\ open = 0
  /\ task = [e \in Events |-> Idle]
  /\ todo = [l \in Loops |-> {}]
  /\ run = NoRun
  /\ life = "up"
  /\ cfg = [policy |-> 0, active |-> TRUE, paper |-> TRUE]
  /\ price = "none"
  /\ resets = 0
  /\ unstamped = {}
  /\ era = [e \in Events |-> 0]
  /\ seen = [e \in Events |-> 0]
  /\ trades = [e \in Events |-> 0]
  /\ opener = [p \in Positions |-> {}]
  /\ closer = [p \in Positions |-> {}]
  /\ used = [faults |-> 0, stops |-> 0, changes |-> 0]

Spend(what, max) == used[what] < max /\ used' = [used EXCEPT ![what] = @ + 1]

----------------------------------------------------------------------------
(* The decision: commitDecision around applyDelivery and inbox.complete.    *)

\* Mutant: the reset time recorded at receipt is not compared.
MutIgnoresReset(e) ==
  /\ e \in Entries
  /\ e \in expired \/ payload[e].policy # cfg.policy \/ (e \notin Copied /\ ~cfg.active)

\* invalidEntry: why an entry is refused without being applied.
Invalid(e) ==
  /\ e \in Entries
  /\ \/ payload[e].resetAt # book.resetAt
     \/ e \in expired
     \/ payload[e].policy # cfg.policy
     \/ e \notin Copied /\ ~cfg.active

\* Mutant: the check made before the awaits is trusted at the commit.
MutTrustsFirstCheck(e) == FALSE

\* decide() asks again inside the transaction, after the last await.
RefusedAtCommit(e) == Invalid(e)

\* Mutant: a script exit closes whatever the cell holds.
MutAnyTarget(e) == open # 0

\* onScriptExit moves only the position the delivery was received against.
OnTarget(e) == open # 0 /\ open = payload[e].target

\* What applying the delivery may do: the position left open, the next id,
\* and whether it traded. The paper engine may always decline (risk gate,
\* price, size, script exits ignored by policy); an exit may fill a part.
Outcome(held, next, traded) == [held |-> held, next |-> next, traded |-> traded]

MayOpen(e) == e \in Entries /\ ~RefusedAtCommit(e) /\ open = 0 /\ book.next <= MaxPos

Outcomes(e) ==
  {Outcome(open, book.next, FALSE)}
  \cup (IF MayOpen(e) THEN {Outcome(book.next, book.next + 1, TRUE)} ELSE {})
  \cup (IF e \in Exits /\ OnTarget(e)
        THEN {Outcome(0, book.next, TRUE), Outcome(open, book.next, TRUE)} ELSE {})

\* Mutant: the receipt is completed outside the decision's transaction.
MutCompletedLater(e) == receipt

\* inbox.complete, inside the same transaction.
Completed(e) == [receipt EXCEPT ![e] = "done"]

\* Mutant: the rolled back decision stays in memory.
MutNotRestored(outcome) == outcome.held

\* commitDecision's catch: memory goes back to what it was before the run.
Restored(outcome) == open

Recorded(e, outcome) ==
  /\ trades' = IF outcome.traded THEN [trades EXCEPT ![e] = @ + 1] ELSE trades
  /\ opener' = IF outcome.traded /\ e \in Entries
               THEN [opener EXCEPT ![outcome.held] = @ \cup {<<e, resets>>}]
               ELSE opener
  /\ closer' = IF outcome.traded /\ e \in Exits
               THEN [closer EXCEPT ![open] = @ \cup {e}]
               ELSE closer
  /\ UNCHANGED <<resets, unstamped, era, seen>>

Decide(e) ==
  \E outcome \in Outcomes(e) :
    \/ /\ receipt' = Completed(e)
       /\ book' = [book EXCEPT !.held = outcome.held, !.next = outcome.next]
       /\ open' = outcome.held
       /\ Recorded(e, outcome)
       /\ UNCHANGED used
    \/ /\ Spend("faults", MaxFaults)          \* a write or the commit fails
       /\ open' = Restored(outcome)
       /\ UNCHANGED <<receipt, book, history>>

Undecided == UNCHANGED <<receipt, book, open, history, used>>

----------------------------------------------------------------------------
(* processReceipt, from its start to its first await.                       *)

\* A recovered delivery that would trade waits for a price of this process.
NeedsPrice(e) == (e \in Entries \/ OnTarget(e)) /\ price # "fresh"

Await(e, where, recovery, loop) ==
  task' = [task EXCEPT ![e] = [at |-> where, recovery |-> recovery, loop |-> loop]]

\* A recovered delivery stays pending: outside paper mode everything does, to
\* be reconciled first, and an exit does without a price.
StaysPending(e, recovery) == recovery /\ (~cfg.paper \/ (e \in Exits /\ NeedsPrice(e)))

Process(e, recovery, loop) ==
  \/ /\ tried' = tried \cup {e}
     /\ IF StaysPending(e, recovery) THEN Undecided /\ UNCHANGED task
        ELSE IF e \in Entries /\ ~Invalid(e) THEN Await(e, "depth", recovery, loop) /\ Undecided
        ELSE Decide(e) /\ UNCHANGED task
  \/ /\ Spend("faults", MaxFaults)                     \* inbox.attempt fails
     /\ UNCHANGED <<tried, task, receipt, book, open, history>>

\* The depth gate answered: a refused entry is decided at once, an admitted
\* one joins the coordinator's batch.
DepthReady(e) ==
  /\ Turn /\ task[e].at = "depth"
  /\ IF life = "up" /\ Invalid(e)
     THEN task' = [task EXCEPT ![e] = Idle] /\ Decide(e)
     ELSE IF life = "up" /\ (task[e].recovery => ~NeedsPrice(e))
     THEN Await(e, "batch", task[e].recovery, task[e].loop) /\ Undecided
     ELSE task' = [task EXCEPT ![e] = Idle] /\ Undecided
  /\ UNCHANGED <<tried, payload, expired, todo, run, world>>

\* prepareEntryDepth rejects: the receipt stays pending with its error.
DepthFails(e) ==
  /\ Turn /\ task[e].at = "depth"
  /\ Spend("faults", MaxFaults)
  /\ task' = [task EXCEPT ![e] = Idle]
  /\ UNCHANGED <<durable, open, todo, run, world, history>>

\* EntryCoordinator.flush: the batch is decided task by task, in one run.
Flush(batch) ==
  /\ Turn /\ batch # {} /\ \A e \in batch : task[e].at = "batch"
  /\ run' = [kind |-> "flush", on |-> batch]
  /\ UNCHANGED <<durable, open, task, todo, world, history, used>>

FlushOne(e) ==
  /\ life # "down" /\ run.kind = "flush" /\ e \in run.on
  /\ run' = IF run.on = {e} THEN NoRun ELSE [run EXCEPT !.on = @ \ {e}]
  /\ Decide(e)
  /\ task' = [task EXCEPT ![e] = Idle]
  /\ UNCHANGED <<tried, payload, expired, todo, world>>

----------------------------------------------------------------------------
(* handleLiveEvent: a run, or a shadow pair's mirror, delivers an event.    *)
(* An event already done is ignored; one already being processed returns.   *)

Delivery == [target |-> open, resetAt |-> book.resetAt, policy |-> cfg.policy]

Receive(e) ==
  /\ Turn /\ life = "up" /\ receipt[e] # "done" /\ ~Busy(e)
  /\ run' = [kind |-> "receipt", on |-> {e}]
  /\ IF receipt[e] = "pending"           \* the first delivery is kept
     THEN UNCHANGED <<receipt, payload, history>>
     ELSE /\ receipt' = [receipt EXCEPT ![e] = "pending"]
          /\ payload' = [payload EXCEPT ![e] = Delivery]
          /\ era' = [era EXCEPT ![e] = resets]
          /\ seen' = [seen EXCEPT ![e] = book.held]
          /\ UNCHANGED <<resets, unstamped, trades, opener, closer>>
  /\ UNCHANGED <<tried, expired, book, open, task, todo, world, used>>

ProcessLive(e) ==
  /\ life = "up" /\ run = [kind |-> "receipt", on |-> {e}]
  /\ run' = NoRun
  /\ Process(e, e \in tried, NoLoop)
  /\ UNCHANGED <<payload, expired, todo, world>>

----------------------------------------------------------------------------
(* recoverSignals: every five seconds, and once when the engine starts.     *)

Waiting(l) == \E e \in Events : Busy(e) /\ task[e].loop = l

\* Mutant: a row that failed once is not picked up again.
MutOnlyUntried == {e \in Events : receipt[e] = "pending" /\ e \notin tried}

PendingRows == {e \in Events : receipt[e] = "pending"}

RecoverTick(l) ==
  /\ Turn /\ life = "up" /\ todo[l] = {} /\ ~Waiting(l)
  /\ todo' = [todo EXCEPT ![l] = PendingRows]
  /\ UNCHANGED <<durable, open, task, run, world, history, used>>

\* Exits first. A row done or being processed meanwhile, and every row once
\* the engine stops, returns without effect.
RecoverStep(l) ==
  /\ Turn /\ ~Waiting(l)
  /\ \E e \in todo[l] :
       /\ e \in Exits \/ todo[l] \cap Exits = {}
       /\ todo' = [todo EXCEPT ![l] = @ \ {e}]
       /\ IF life = "stopping" \/ Busy(e) \/ receipt[e] = "done"
          THEN UNCHANGED <<tried, task, receipt, book, open, history, used>>
          ELSE Process(e, TRUE, l)
  /\ UNCHANGED <<payload, expired, run, world>>

----------------------------------------------------------------------------
(* The account outside the inbox, the operator, the feed and the process.   *)

\* A stop, a target or the operator closes the position (applyFills).
BookCloses ==
  /\ Turn /\ open # 0
  /\ book' = [book EXCEPT !.held = 0] /\ open' = 0
  /\ UNCHANGED <<receipt, tried, payload, expired, task, todo, run, world, history, used>>

\* PaperEngine.reset archives the book in one transaction ...
ResetArchives ==
  /\ Turn /\ resets < MaxResets
  /\ run' = [kind |-> "reset", on |-> {}]
  /\ book' = [book EXCEPT !.held = 0]
  /\ resets' = resets + 1
  /\ UNCHANGED <<receipt, tried, payload, expired, open, task, todo, world, used,
                 unstamped, era, seen, trades, opener, closer>>

\* ... clears memory, and stamps paper.resetAt in a write of its own.
ResetStamps ==
  /\ life # "down" /\ run.kind = "reset"
  /\ run' = NoRun
  /\ book' = [book EXCEPT !.resetAt = resets]
  /\ open' = 0
  /\ UNCHANGED <<receipt, tried, payload, expired, task, todo, world, history, used>>

\* A pending entry outlives min(60 s, maxSignalAgeSec).
Expires(e) ==
  /\ run = NoRun /\ receipt[e] = "pending" /\ e \notin expired
  /\ expired' = expired \cup {e}
  /\ UNCHANGED <<receipt, tried, payload, book, open, task, todo, run, world, history, used>>

\* The operator changes a policy the fingerprint covers, or the allocation.
Configure ==
  /\ run = NoRun /\ Spend("changes", MaxChanges)
  /\ \/ cfg' = [cfg EXCEPT !.policy = 1 - @]
     \/ cfg' = [cfg EXCEPT !.active = ~@]
  /\ UNCHANGED <<durable, open, task, todo, run, life, price, history>>

PriceArrives ==
  /\ Turn /\ price # "fresh" /\ price' = "fresh"
  /\ UNCHANGED <<durable, open, task, todo, run, life, cfg, history, used>>

PriceAges ==
  /\ Turn /\ price = "fresh" /\ price' = "stale" /\ Spend("changes", MaxChanges)
  /\ UNCHANGED <<durable, open, task, todo, run, life, cfg, history>>

\* ScannerEngine.stop: the coordinator rejects its batch, the receipts stay.
Stop ==
  /\ Turn /\ life = "up" /\ Spend("stops", MaxStops)
  /\ life' = "stopping"
  /\ task' = [e \in Events |-> IF task[e].at = "batch" THEN Idle ELSE task[e]]
  /\ UNCHANGED <<durable, open, todo, run, cfg, price, history>>

Die ==
  /\ life' = "down" /\ run' = NoRun /\ open' = 0 /\ price' = "none"
  /\ task' = [e \in Events |-> Idle]
  /\ todo' = [l \in Loops |-> {}]
  /\ UNCHANGED <<durable, cfg, resets, era, seen, trades, opener, closer>>

Exit  == Turn /\ life = "stopping" /\ Die /\ UNCHANGED <<unstamped, used>>
Crash == /\ life # "down" /\ Spend("stops", MaxStops) /\ Die
         /\ unstamped' = IF run.kind = "reset" THEN unstamped \cup {resets} ELSE unstamped

\* The book is read back; the execution mode may have been changed meanwhile.
Restart ==
  /\ life = "down" /\ life' = "up"
  /\ open' = book.held
  /\ \/ UNCHANGED <<cfg, used>>
     \/ Spend("changes", MaxChanges) /\ cfg' = [cfg EXCEPT !.paper = ~@]
  /\ UNCHANGED <<durable, task, todo, run, price, history>>

Next ==
  \/ \E e \in Entries : DepthReady(e) \/ DepthFails(e) \/ FlushOne(e) \/ Expires(e)
  \/ \E batch \in SUBSET Entries : Flush(batch)
  \/ \E e \in Events : Receive(e) \/ ProcessLive(e)
  \/ \E l \in Loops : RecoverTick(l) \/ RecoverStep(l)
  \/ BookCloses \/ ResetArchives \/ ResetStamps
  \/ Configure \/ PriceArrives \/ PriceAges
  \/ Stop \/ Exit \/ Crash \/ Restart

Spec == Init /\ [][Next]_vars

\* The event loop runs every callback that is due: no stream of deliveries
\* starves a timer or a settled await (strong fairness, since a synchronous
\* run disables the others for its duration). The supervisor restarts the
\* service, and the feed keeps delivering prices while the process runs.
Fairness ==
  /\ \A e \in Entries : /\ SF_vars(DepthReady(e))
                        /\ WF_vars(FlushOne(e))
                        /\ SF_vars(\E batch \in SUBSET Entries : e \in batch /\ Flush(batch))
  /\ \A e \in Events : WF_vars(ProcessLive(e))
  /\ \A l \in Loops : SF_vars(RecoverTick(l)) /\ SF_vars(RecoverStep(l))
  /\ WF_vars(ResetStamps) /\ SF_vars(PriceArrives) /\ SF_vars(Exit) /\ WF_vars(Restart)

FairSpec == Spec /\ Fairness

----------------------------------------------------------------------------
(* Properties                                                               *)

TypeOK ==
  /\ receipt \in [Events -> {"none", "pending", "done"}]
  /\ tried \subseteq Events
  /\ payload \in [Events -> [target : 0..MaxPos, resetAt : 0..MaxResets, policy : 0..1]]
  /\ expired \subseteq Entries
  /\ book \in [held : 0..MaxPos, next : 1..(MaxPos + 1), resetAt : 0..MaxResets]
  /\ open \in 0..MaxPos
  /\ task \in [Events -> [at : {"idle", "depth", "batch"}, recovery : BOOLEAN,
                          loop : Loops \cup {NoLoop}]]
  /\ todo \in [Loops -> SUBSET Events]
  /\ run \in [kind : {"none", "receipt", "flush", "reset"}, on : SUBSET Events]
  /\ life \in {"down", "up", "stopping"}
  /\ cfg \in [policy : 0..1, active : BOOLEAN, paper : BOOLEAN]
  /\ price \in {"none", "fresh", "stale"}

\* A received signal trades at most once, whatever duplicates, retries and
\* crashes happen between its receipt and its outcome: a decision that traded
\* is never pending, so nothing can decide it again (inbox.ts 28, engine.ts
\* 680-686: the outcome, the fills and the receipt share one commit).
TradesOnce ==
  \A e \in Events : /\ trades[e] <= 1
                    /\ trades[e] = 1 => receipt[e] = "done"

\* The engine's open positions are the committed ones whenever a handler can
\* look at them, after any mix of rolled back decisions (paper/engine.ts 99).
MemoryIsBook == life # "down" /\ run.kind # "reset" => open = book.held

\* An exit retried later fills only the position that was open when it was
\* received, never one opened since (engine.ts 637, paper/engine.ts 1023).
ExitHitsItsTarget ==
  \A p \in Positions : \A e \in closer[p] : seen[e] = p

\* An entry received before an operator reset never opens a position after it
\* (inboxRecovery.test.ts 92: pending entries cannot reopen the account), unless
\* a SIGKILL fell between the archive of every such reset and its stamp.
ResetIsFinal ==
  \A p \in Positions : \A o \in opener[p] : (era[o[1]] + 1)..o[2] \subseteq unstamped

Trades(e) == trades'[e] > trades[e]

\* Between the first check of an entry and its commit the depth gate and the
\* batch window are awaited: what was valid then must still be valid when the
\* position opens (engine.ts 682).
EntryStillValid ==
  [][\A e \in Entries : Trades(e) =>
       /\ e \notin expired
       /\ payload[e].policy = cfg.policy
       /\ e \in Copied \/ cfg.active]_vars

\* Every receipt is settled: failures, restarts and stale prices delay an
\* outcome, only a mode other than paper suspends it (engine.ts 617-622, 653).
ReceiptsSettle ==
  \A e \in Events : receipt[e] = "pending" /\ cfg.paper ~> receipt[e] = "done" \/ ~cfg.paper
=============================================================================
