# Formal models of VN EDGE

TLA+ models of the trading service in `server/src`, checked with TLC on small
instances and, where it matters most, proved with TLAPS for every value of the
constants. All references below are to `server/src` unless they say otherwise.

1. [The system](#1-the-system)
2. [The models](#2-the-models)
3. [What is checked](#3-what-is-checked)
4. [What is proved](#4-what-is-proved)
5. [Disagreements between code and documents](#5-disagreements-between-code-and-documents)
6. [What is left out](#6-what-is-left-out)
7. [Plan](#7-plan)

## 1. The system

VN EDGE is a modular monolith in one Node.js process with a SQLite database and a
pool of worker threads. A handler runs to its next `await` without interruption;
everything below interleaves at awaits, timers, worker and socket messages, and is cut
off by a SIGKILL at any statement.

```
Delta websocket + REST -> CandleStore -> ScannerEngine -> PinePool (workers)
                                  |            |
                                  |            v  events
                                  |      signal inbox -> RiskManager -> PaperEngine (SQLite)
                                  |                                        |  orders, positions
                                  +--- bars, marks ------------------------+
                                                                           v
                                                                   ExchangeExecutor -> Delta
Incubator (stages, shadow book) -> scanner allocation        ApiServer -> dashboard
```

### Inventory

| Component | State it keeps | Operations | What makes it hard | What makes it correct |
|---|---|---|---|---|
| Feed link and candle store (`delta/ws.ts`, `data/candleStore.ts`) | connection, generation; per series bars, last announced bar, recovery barrier, resyncs, gaps | websocket candle, clock ticker, disconnect, reconnect, resync, gap backfill, load, maintenance | REST answers race websocket updates, disconnects and each other | every close announced once and whole; no bar goes back; series whole in the end |
| Script worker pool (`pine/pool.ts`) | slots, queues by tier, running jobs, timers | run, dispatch, result, error, exit, retire, respawn, timeout sweep, memory guard, recycle, stop | six ways to end a job; respawn while pumping | each promise settled once; no job lost; live work never waits beside an idle worker; every job settles |
| Scanner runs (`scanners/engine.ts` runOnce, `scanners/watermark.ts`, `scanners/recovery.ts`) | run in flight, deferred request, watermark (disk and memory), labels seen | bar closed, run now, backtest, job answer, delivery, stop | a request while a run is in flight; failures between delivery and save | no exit lost; a requested live run happens; exits before entries |
| Signal inbox (`scanners/inbox.ts`, handleLiveEvent, processReceipt, `scanners/entryCoordinator.ts`, commitDecision) | receipts, attempts, payloads; in-flight decisions; entry batch | receive, prepare, decide, retry timer, stop, restart | awaits between check and commit; duplicates; rollback of memory; crashes | a signal trades at most once; memory equals the book; an exit hits its target; every receipt settles |
| Paper engine (`paper/engine.ts`) | open positions, pendings, resting limits, their rows and the outcome written with the signal; books account and shadow | entry, fill, candle, print, mark, housekeeping, script exit, commands, void, reset | three price sources; each commit may fail and is undone in memory; restarts drop or keep pendings | memory, rows and outcomes agree; limits hold when a pending fills; it fills in its window |
| Position logic (`paper/logic.ts`) | of one position: stop, break-even, trail, targets, legs, the candle it has seen | candle, print, mark, script target, entry crossed by its stop | a candle repeats its whole minute; prints are missed; writes fail | the stop never loosens, is hit by every new price past it and by no old one; the targets hold the open contracts |
| Exchange executor (`execution/testnet.ts`, `outbox.ts`, `ledger.ts`, `accounting.ts`) | outbox commands, order ledger, exposure, stranded and unconfirmed positions, brackets | recover, drain, enter, exit, confirm, sweep, close stranded, brackets, close all | a request may be lost, late or unanswered; SIGKILL around a POST; the book moves meanwhile | a command is sent once; exits never exceed what is held; no contract is forgotten; a closed position gets flat |
| Risk manager and gates (`risk/`) | day and week windows, halts, cooldowns, close receipts | tick, gate, trade closed, kill, reset | crash between close and receipt; pendings count against limits | each close counted once; limits hold when pendings fill |
| Incubator (`incubator/`) | stage of each pair, gates, slots, proposals, screen queue | screen, admit, judge, propose, promote, demote, reject, rotate, sync with the configuration | two records of what trades, written one after the other by two processes; promotions judged on an old configuration | a promotion takes no cell that traded before its hunt; rows and configuration agree in the end |
| Database (`db.ts`) | open transactions, savepoints, commit callbacks | transaction, afterCommit | nested rollback, listeners that open transactions, crashes | nobody hears of what can still be taken back; callbacks run once, in order |
| Script health (`scanners/health.ts`) | failure counts, quarantine | record, timeout, quarantine, release | several reasons for one flag | a quarantine stays until it is lifted |
| Alerts and monitor (`ops/alerts.ts`, `ops/monitor.ts`) | active conditions, send times | raise, clear, notify | hourly cap against first and last note | a condition is announced before it is resolved |
| Authentication, connections, API, events, dashboard | sessions, credentials | login, revoke, routes | expiry | a revoked session is refused |
| Validation, ML, library, context, analytics, research tools | derived figures | batch jobs | none of state | outside these models |

Interactions: the candle store emits `closed` bars that request scanner runs; a run's
job goes to the pool by a promise; its answer is delivered event by event to the inbox;
the inbox decides inside one SQLite transaction that also writes the paper fills and the
outbox commands; the executor drains the outbox through a promise queue and writes back
adopted fills and voids; the incubator rewrites the scanner configuration that runs and
receipts are compared with. `PROJECT.json` lists every component with its sources, and
the hazards at their lines.

## 2. The models

| Module | Models | Composes |
|---|---|---|
| `BarFeed` | one candle series between the exchange and its subscribers | the link of `delta/ws.ts`, the store, `resyncAll` of `app.ts` |
| `PinePool` | the pool: every operation | refines `JobPromise` |
| `JobPromise` | what a caller of `run()` is promised: settled at most once, not after it was refused | abstract |
| `ScanRuns` | runs, deferral, watermark and delivery of one cell | `watermark.ts`, `recovery.ts`, `ScannerEngine.runOnce` |
| `SignalInbox` | receipts, decisions, retries of one cell of the live account | inbox, coordinator, `commitDecision`, the recovery timer |
| `ExchangeExecutor` | the executor, its tables, the paper book as it sees it, and the exchange, for one position | testnet, outbox, ledger, accounting |
| `PaperBook` | the book of the paper account: rows, outcomes and maps, and what each group of statements does to both | operators |
| `RiskManager` | loss window, kill switch, halt, streaks, cooldowns, close receipts, the gate | extends `PaperBook` |
| `LiveAccount` | the handlers of the paper engine and the risk manager over one database | `PaperBook` and `RiskManager` |
| `PositionLogic` | what one observed price does to a position | operators |
| `OpenPosition` | one position under the prices its book is fed, its row, failed writes and restarts | `PositionLogic` and the price handlers of `paper/engine.ts` |
| `DbTransaction` | nested transactions and commit callbacks | refines `CommitLog` |
| `CommitLog` | what callers of `Db.transaction` rely on: one piece of work, durable and announced as a whole | abstract |
| `ScannerConfig` | the scanners' settings, and the cap a write of them passes | `setScanner` of `config.ts` |
| `Incubator` | stages and configuration under the bot and the nightly screen | extends `ScannerConfig`; `incubator/`, hunt and decisions of `app.ts`, `cli/incubate.ts` |
| `MC*` | the instances TLC runs | |
| `LiveInvariants` | the invariants of `LiveAccount` and what its operations do, as the theorems state them | |
| `*_proofs` | the theorems | |

A model's action is a whole handler up to its next await; where a handler commits twice
in one synchronous run the model splits it there, so a SIGKILL may fall between the two
commits while no other handler can.

### BarFeed

`clock` is the bar that forms by the local clock, `trades[b]` the exchange's version of
bar *b* (the number of trades it has seen), `bars[b]` the version held; a smaller number
is a fragment. `link` is up, down, or *dead*: the connection broke silently and counts as
up until the heartbeat is missed. `barrier` is `recovery.from`, `repair` the resync in
flight (`sent`, `answered`, `merged` while it awaits the gaps), `waiters` the calls of
`resync` that await it, `fill` the gap backfill. A websocket candle carries the whole bar
and is delivered at once while the link is up: the 1.5 s of `CLOSE_GRACE_MS` are taken to
be enough for the period's last prints. The market has traded before the series is
tracked. A gap answer is complete; a resync may fail or answer nothing.

Three things of the environment are always possible: the exchange starts a period before
the local clock does, maintenance asks for a resync while the link is down, and the link
breaks before the series is loaded. Trades can then be lost for good, because no request
the code makes is due to fetch them. Three histories name exactly these, and the
properties except the bars in them and no others: `late`, the bars that traded while the
link was down and after the answer of the resync in flight; `unsure`, the late bars of a
resync that then lifted the barrier, and those traded unseen before the load had ended or
the local clock had begun them; `overrun`, the bars the clock had not ended when the next
one traded. Each is a disagreement with the code's own comments (section 5).

### PinePool

Slots, tiers, queues and timers are the pool's own. A worker is seen by its messages:
ready, result, error, exit. `scan` is the position of `pump` in its loop over the slots;
no other handler runs before it is back at 0. `Size` workers, `MaxRuns` jobs before a
worker is recycled, `MaxFaults` bounds failures of the environment. Left out: the memory
figures (the guard fires whenever it may) and the statistics.

### ScanRuns

One cell. Every bar raises one exit, one entry and one label, so whatever is not received
was lost on the way; `received` is the set of committed receipts. `run.at` follows runOnce
through its awaits: the job, the wait for memory (`wait`, `retry`), the delivery (with
`awaiting` set inside `handleLiveEvent`). `mark` and `saved` are the watermark in memory
and on disk. `beyond` is a history of the bars missed beyond
`MAX_CATCHUP_BARS`: it is computed from the cap and the bar of the run, not from the
window the run read, so a window a bar short loses an exit in the model too. Runs with fewer than fifty bars count as failed jobs.

### SignalInbox

One cell of the live account, with all entries on one side. A receipt is `pending` until
the transaction that also trades marks it `done`. `task` is processReceipt of each event
at its await (the depth gate or the entry batch), `todo` the rows a recovery pass still
has, `run` the synchronous run between two commits. Windows of the batch are any subset of
the waiting tasks. A fill that stays pending in the paper engine counts as opened at the
decision. `inbox.pending()`'s limit of 100 rows is not reached, so that a hundred exits
waiting for a price keep every entry waiting is outside the model. A SIGKILL may split
every synchronous run, a reset as well: `unstamped` are the resets whose time stamp it
kept from being written.

### ExchangeExecutor

The configuration `execution.bracket = false`, one position of `Qty` contracts and at most
one partial exit. `cmds` is the outbox, `ledger` the orders, `exch` what the exchange made
of each request (on the wire, lost, refused, open, done), `mem` the maps a restart loses,
`tasks` the promise queue, `ctl` the task that runs and the await it is in; what a query
returned in order of ids and a loop still has before it (`todo`, `rows`) is a set, taken
oldest first. The two ledger
writes of an answered lookup are one step; prices, fees and accounting amounts are left
out. The book moves at any time, also while `start()` is still recovering (`app.ts:295-310`),
and `products` says whether the catalogue is known: without it commands wait, and neither
`strand` (`testnet.ts:418`) nor step 4 of `recover` (716) puts a closed position on record.
`unheard` is a history: the position closed before this process had its listeners, and no
`recover` that knew the fate of its entry has looked since.

### PaperBook, RiskManager, LiveAccount

A book is one record: the rows of `positions`, the `action` of the signals, the close
receipts and the saved risk state (durable), and the maps of open positions and pending
entries and the risk state in memory (volatile). Operators of `PaperBook` and
`RiskManager` are the groups of statements that commit together; they take a book to a
book. `LiveAccount` holds what is on disk and in memory and lets the handlers run: `work`
is what the running handler still has to do, one commit per item, in the order of the
code's loops over snapshots of its maps. A write may fail at an item (the item's effects
on memory are undone as the code undoes them), and the process may be killed between any
two. Trade events run after the commit that closed the trade, where `onTradeClosed` opens
a transaction of its own.

One market, one scanner, two cells: the first rests its entries as limits (`limitEntry`),
the second defers them. Prices are choices of the environment; a position closes in one
piece and realises one unit of profit or loss, and its unrealised profit is 0 until then.
Rules on prices (levels, fees, depth, regime, burst, re-entry) are a verdict of the
environment, before or after the gate. The weekly window, the caps per market and the
daily budget of a scanner are left out, as are reclaim trials, execution plans, adopted
fills and funding.

### PositionLogic, OpenPosition

Prices are whole ticks in the position's favour, so a short is a long in a mirror, and a
distance in R is a number of ticks. `PositionLogic` translates the exits of a candle
(`ApplyBar`), of the new part of a growing candle (`ApplyLiveBar`), of a print
(`ApplyTrade`) and of a script (`ScriptTarget`), with the break-even move, the profit
floor and the trail; what the trail gives back of the peak is a choice from `GiveBacks`.

`OpenPosition` feeds them as the engine does: `bar` is the candle of the running minute as
the exchange has it, `seen` the one the book was given last, `due` final candles still to
come; a print is heard, or missed and shown only by a candle. `pos` is the position in
memory, `row` its row: the code writes it with every fill, at the end of a candle and when
a print moved the stop. A failed write brings `pos` back from `row`, without its policy
(`engine.ts:1422`), so it then runs under the settings of today (`on`). An entry at the
mark starts from the candle given last, which may lag behind the minute. The rest are
histories for the properties: `low`, the worst price since the stop was put where it is,
and `before`, the worst one from before an entry at the mark that its lagging candle will
show as new; `owed` and `shown`, the prices at the stop and the prices at all that candles
or the tape show; and `lost`, those of them that nothing shows again, though what the book
made of them was undone or never was. A price is lost in two ways: the write of the fill on
the print or on the last candle of its minute fails, or that candle comes while the process
is down.

### DbTransaction, CommitLog

`frames` is the stack of open transactions: the state each began from and the calls
registered in it. A fact stands for a version of a row; a program announces what it has
written or read. `queue` holds the calls of committed transactions, which run one by one
and may open transactions of their own. `CommitLog` knows one piece of work; its `Fail`
goes back to where a transaction was opened and its `Close` of the outermost one makes
work durable and owes its announcements. A `ROLLBACK` that fails and a transaction that
SQLite ends by itself are not modelled.

### ScannerConfig, Incubator

`config` says what trades, `stage` what the rows say. `bot` is the handler in hand and the
rows it still has to write; a decision writes the configuration first. `known` is the
configuration that automatic promotion was handed at the start of a hunt. `night` is the
nightly process, which writes rows from what it read before. The gates' evidence, the
weekly limit, slots and diversity caps are the environment's verdict.

## 3. What is checked

| Run | Instance | States | Shows |
|---|---|---|---|
| `feed_small` | 3 bars of 2 trades, 4 in all, 2 interruptions (seen or silent), 1 REST fault | 3 442 000 | `WholeHistory`, `NeverRegresses`, `NonePassedOver` |
| `feed_fair` | the same with 2 bars | 332 000 | under fairness `ClosesAnnounced`, `EventuallyWhole` |
| `pool_small` | 2 workers, a live, a mirror and a background job, 2 faults of any kind, 2 runs a worker | 96 000 | `ResolvedOnce`, `Accounted`, `NoIdleWorkerWhileLiveWaits`, the refinement `Promised`, and `EveryJobSettles` |
| `scans_small` | 4 bars, a catch-up cap of 1, 2 incidents of any kind | 151 000 | `ExitsRead`, `LiveKept`, `ExitsFirst`, `BarsAreServed` |
| `inbox_small` | 2 entries (one copied from a shadow pair), 1 exit, 2 overlapping recovery passes, 1 fault, 1 stop or crash (at any step), 1 reset | 2 370 000 | `TradesOnce`, `MemoryIsBook`, `ExitHitsItsTarget`, `ResetIsFinal` |
| `inbox_fair` | 1 entry, 1 exit, configuration and mode changes, 1 stop or crash | 19 000 | `EntryStillValid`, and under fairness `ReceiptsSettle` |
| `executor` | 2 contracts, 1 fault, 1 short fill, 1 SIGKILL, fills at any time, a catalogue that may be missing | 408 000 | `OncePerCommand`, `NeverOverclosed`, `LedgerTruthful` (a voided position holds nothing), `NothingForgotten`, `EntryOnlyWhileOpen`, and under fairness `ClosedGetsFlat` |
| `paper` | 2 cells, 2 signals, 5 ticks with a change of day, one failed write, kill or command, all price sources | 638 000 (up to the mirror of the sides) | `RecordsAgree`, `EntriesBounded`, `FillsOnTime`, `NoEntryInCooldown`, `NoEntryWhenHalted` |
| `paper_kill` | the same without trouble | 48 000 | violates `TickTrips` (section 5) |
| `position` | 3 contracts, 2 targets, 2 minutes, 3 prints at 4 prices, 1 failed write or restart, candles or tape, entries on candles that lag | 1 840 000 | `NeverLoosens`, `StopEarned`, `StopHonoured`, `FloorKept`, `TargetsCover` |
| `db` | 3 facts, 3 levels of nesting, crashes at any time | 8 000 | `AnnouncedIsDurable`, and the refinement `OneLog` |
| `incubator` | 2 pairs of one scanner, a fleet of 2, 1 kill of either process | 297 000 | `DecisionStands`, and under fairness `Heals` |

The type invariants of the modules with proofs are proved rather than run (section 4).
Every property has a mutant beside the definition it changes (`Mut...` or a name close to
the original's): a dropped guard, a swapped order or a missing reset that a plausible
edit could introduce, and that the run finds.

**Why the bounds are enough to be interesting.** Two interruptions are the least for a
barrier that must survive a second one, and for a waiter of an outdated resync; three bars
give a gap, a bar passed over and a quiet series; four trades leave one bar to be held as
a fragment while the others trade. The two bars of `feed_fair` leave no gap to
fill; a fragment, a missed close and a barrier left standing need no third. Two workers and
three tiers give every order of precedence in `next()`; a worker reaches its recycling
limit at its second job. Four bars with a cap of one make a run fall behind the cap; two
incidents reach, for example, a failed save followed by a crash. Two entries and an exit
are the least for a batch, a reversal and a stale target; two contracts are the least for
a partial exit and a short fill. Two signals and a cap of one make a pending count
against a limit, a reversal replace a position and a cooldown meet an entry placed before
it; five ticks hold the life of a limit, its lateness and a new day. Two minutes are the
least for a candle that began before the entry or comes late; four prices stand at the
liquidation, between stop and entry, at each target, and by the floor and the trail stop
and entry fall between them. Three levels of nesting give a savepoint within a savepoint.
Two pairs with room for both let a hunt promote one on a list from before it promoted the
other, and one pair trade before the hunt.

**What the bounds leave out.** Two faults lose one of the pool's two workers at most: a
respawn that fails twice leaves its slot empty for good (`pool.ts:282`), and a pool that
loses all of them so does not keep `EveryJobSettles`. `CooldownAfter` is 1 in `paper`, and
`NoEntryInCooldown` says nothing once a write of the risk manager has failed (`torn`). The
runs of `inbox`, `executor`, `scans`, `db` and `incubator` allow one SIGKILL between any two
commits, `paper` and `position` one in place of the failed write.

**Fairness and why the code justifies it.** Timers fire and promise continuations run, so
handlers that stay enabled are weakly fair: the sweep, maintenance, ticker, heartbeat and
retry timers are `setInterval`s that nothing but `stop` clears. The feed reconnects for
ever (`ws.ts:200-205`) and REST answers all but the bounded faults. In `PinePool` a run
that is over is weakly fair because `reapTimeouts` is a timer; a worker's *answer* is not
fair, which is why a hung script is part of the model. In `SignalInbox` recovery steps and
the depth gate are strongly fair: overlapping passes and stops disable them again and
again, but the event loop takes callbacks in order; a restart is fair because the service
manager restarts the process. In `ScanRuns` a job is answered because every pool job
settles (`EveryJobSettles` of `PinePool`). In `ExchangeExecutor` the exchange accepts what
reaches it and works market orders to an end; a request that never reached it is a fault,
and `ClosedGetsFlat` says what remains then: an order whose fate is unknown blocks further
exits, by design. In `Incubator` handlers end, the service manager restarts the bot, and
the timers of the hunt (ten minutes) and the nightly (a day) come round; a night's screen
stops at its time budget and then judges, and it starts when the bot has nothing due.
Trades, faults, stops, decisions and operator actions are never fair.

Deadlock is not checked where the bounds end the run: when the last bar is reached, every
job is settled, or the shutdown is complete.

## 4. What is proved

| Module | Theorems |
|---|---|
| `PinePool_proofs` | `TypeInvariant`, `ResolvedOnceHolds`, `AccountedHolds`, `StopsCleanHolds`, `ReserveKeptHolds`, `PoolImplementsPromise`, `NoIdleWorkerHolds` |
| `SignalInbox_proofs` | `TypeInvariant`, `TradesOnceHolds`, `MemoryIsBookHolds`, `ExitHitsItsTargetHolds`, `ResetIsFinalHolds`, `EntryStillValidHolds` |
| `ScanRuns_proofs` | `TypeInvariant`, `ExitsReadHolds`, `LiveKeptHolds`, `ExitsFirstHolds`; of `Incubator`: `IncubatorTypes`, `DecisionStandsHolds` |
| `BarFeed_proofs` | `TypeInvariant`, `NeverRegressesHolds`, `WholeHistoryHolds`, `NonePassedOverHolds` |
| `DbTransaction_proofs` | `TypeInvariant`, `AnnouncedIsDurableHolds`, `OneLogHolds` |
| `LiveAccount_proofs` | `TypeInvariant`, `NoEntryWhenHaltedHolds`, `AgreeInvariant`, `RecordsAgreeHolds`, `FillsOnTimeHolds`, `SeatsInvariant`, `EntriesBoundedHolds`, `StreaksInvariant`, `NoEntryInCooldownHolds` |
| `OpenPosition_proofs` | `StopNeverLoosens`, `TargetsCoverHolds`, `StopHonouredHolds`, `StopEarnedHolds`, `FloorKeptHolds` |
| `ExchangeExecutor_proofs` | `TypeInvariant`, `OncePerCommandHolds`, `NeverOverclosedHolds`, `LedgerTruthfulHolds`, `EntryOnlyWhileOpenHolds`, `NothingForgottenHolds` |

They hold for every set of jobs, events, facts or pairs, every number of bars, workers,
passes, contracts, prices and targets, and every bound; the only assumptions are the named
`ASSUME`s of the modules and those stated below.

- **PinePool.** The inductive invariant is *Bookkeeping*: a job has one stage, and the
  stage says where it stands (one place of its tier's queue, one slot, or nowhere), slots
  and queues hold nothing else, and a stopped pool holds nothing. `Accounted` alone is
  not inductive because retiring a slot must know that no second slot runs the job. From
  it follow the exactly-once answer, the clean stop and the refinement: each step of the
  pool settles, hands in or refuses jobs as `JobPromise` allows, or changes none of its
  variables. `ReserveKept` (background work leaves the reserved workers free) is proved
  for every pool size; it needs finite cardinalities, since a dispatch adds one busy slot
  and a retirement takes some away. `NoIdleWorkerWhileLiveWaits` needs the state inside a
  handler too: while live work waits, no slot the pump has passed is free (*Pumped*), and
  whatever brings live work or makes a worker ready or free starts the pump over.
- **SignalInbox.** A decision happens only on a pending receipt and ends it in the same
  commit, so `trades[e] = 1 => receipt[e] = "done"` needs that every task in flight was
  pending when it started and that whoever finds it done leaves it alone. `MemoryIsBook`
  needs the position counter to move with the commit; `ExitHitsItsTarget` that a
  payload's target was the position held at receipt; `ResetIsFinal` that
  the stamp in a payload lies behind the reset era it was written in by resets that a kill
  left unstamped, and by no others. `EntryStillValid` is about a step: only a decision trades,
  only the event it decides, and an entry only if the check inside the transaction passed.
- **ScanRuns.** `ExitsRead` is strengthened with what a run in flight still owes: every
  exit from its `since` to its bar is received or in its `todo`, and whatever lies between
  the watermark and `since` is more than the cap behind the run's bar (*WindowInv*, from
  lemma `SinceReaches` about the window). `LiveKept` is strengthened with the requests that
  the deferred slot and `setImmediate` carry.

- **BarFeed.** Type correctness needs that every call waiting for a resync stands for a
  reconnection of its own. `NeverRegresses` is strengthened with what may be on its way:
  nothing held or answered exceeds what the exchange has; a gap lies below a bar held;
  and if an answer of the current connection is behind the exchange for a bar that no
  candle touched, the bar is late, or the link has been silent since and nothing newer is
  held, so no gap backfill can overtake the answer.
  `WholeHistory` follows from *Live*: on a live link with no recovery pending the bars held
  are the exchange's bars, `unsure` ones aside, and only such a series announces. To lift the barrier a resync
  must bring that about, so the proof keeps what holds while it runs. Everything before the
  barrier is whole (*Anchored*), and the window starts there (*Window*). What the websocket
  brought since the request is whole, and the answer is whole for the rest of the window
  (*Heard*, *Told*). When the link is dead, seen as up, both hold below the newest bar held
  only, and that bar was brought since the request or is in the answer (*Tip*). So a
  merged answer completes what is held (*Mended*), unless the generation changed.
  `NonePassedOver` adds that a bar between the last announced and the newest held never
  traded (*Passed*), except between the merge and the end of a resync on a dead link.
  Neither assumes anything of the environment. A link that breaks before the load leaves no
  barrier; until the next connection, which makes every bar so far unsure, the proof says
  nothing of that series (*Astray*).

- **DbTransaction.** `AnnouncedIsDurable` follows from *Durable*: what is told or queued
  is on disk; the states the nested transactions began from grow with the depth and the
  first is what is on disk (*Nested*); and every registered call is of a fact that was
  visible where it was registered and still is in the frame that holds it (*Waiting*). A
  rollback takes a frame's calls away together with the facts it undoes, and a release
  hands both on; either alone would let a call outlive its fact. For `OneLog` the work of
  the log is what is seen and not committed, with the calls of all transactions in a row.
  That row is a flattened list, a recursive function; the proof shows by counting that it
  exists and that one transaction more appends its calls (`FlatExists`, `CallsOn`). Then
  each operation of the connection is one of the log: none is a stutter.
- **Incubator.** `DecisionStands` follows from what the list a hunt was handed still has in
  common with the configuration (*NoneTaken*): every promotion of the hunt writes that list
  and one pair, so a scanner it has changed still has all of it. No handler of the bot runs
  in between, and the nightly process writes rows only.
- **OpenPosition.** Two things keep the stop from loosening. While the break-even move is
  still to come the stop is behind the entry, so the move cannot lower it (*Sound*): a
  trail that passes the entry marks the move as done. And the row of an open position has
  the stop of the position in memory (*SameStop*), so a failed write or a restart brings
  back no older one: a candle that moved the stop is a new candle and is saved at its end,
  a print that moved it saves it at once. The theorem assumes `~TrendExit`, the default; with the trend
  exit on the candle's save is skipped and TLC finds the stop lower after a restart.
  The other three about the stop assume it too, for they need that where candles decide
  the row *is* the position, and that a tape moves only the known candle and the best
  price without it (*TradeInv*).
  They follow the candles still to come. A candle grows, is overtaken by the next minute,
  is given late or not at all, so what it owes the position cannot be read off one state:
  the invariants name a witness, a candle not yet given that lies *Ahead* of the position
  and still shows a low (or a high) past the known one. *HonourInv*: each price at the
  stop that is owed is shown by such a candle, or it is lost; a candle given with it takes
  the stop, any other stays ahead (lemmas `TakesFrom`, `StaysAhead`, `StillAhead`). A book
  that is caught up has none ahead, which is `StopHonoured`. *EarnedInv* is the converse:
  every candle ahead shows nothing worse than the worst price since the stop was moved, or
  than the worst one from before an entry at the mark, so the candle that takes the stop
  proves `StopEarned`. *FloorInv* does for highs what HonourInv does for lows. Here too the
  histories, not assumptions, say what is excepted (section 5).
  `TargetsCover` needs no assumption: legs are whole contracts of fractions that sum to
  one, so all but the last fit into the quantity (`SplitFits`), the last takes the rest,
  and every sale takes whole legs until it takes what is left (*Covered*). The sums are
  recursive functions, and `TotalAdd` and `TotalAppend` are shown by the least number of
  terms that would break them. The order of the script's targets matters here: the model
  takes them increasing, as `resolveLevels` sorts them and drops repeated ones.
- **ExchangeExecutor.** Every step does one of five things to the orders (lemma
  `StepKinds`): nothing, a move of the exchange, a mark, a reading, a new order; the
  invariant *IInv* is argued over these and only its control part over the actions. Each
  row agrees with its order at the exchange (*Records*); the only entry command is the
  first; whoever stands before a POST has found no row of its command, which gives
  `OncePerCommand`. A position is voided only when its entry ended unfilled, and as there
  is one entry order it was never held (*Voided*). For `NeverOverclosed` the exposure in
  memory is the ledger's or 0 (*Counted*): an exit is sized by it while no other exit is
  unsettled, all settled rows are exact, and an unsettled entry only has more filled than
  is on record. The exposure and the live exits are sums over the ledger; a sum is a
  recursive function, and what it does under an append or a change of one row (lemmas
  `TotalAppend`, `TotalUpdate`) is shown by the least number of terms that would break it.
  `NothingForgotten` needs what the program takes for granted between tasks
  (*Remembered*): `start()` runs first; the exposure map equals the ledger once
  it is rebuilt; the exit that closed the position stays pending in the outbox while the
  fate of the entry is open; and a closed position with exposure is stranded, deferred, or
  its `closed` event is still queued, or this process has overlooked the close
  (*Overlooks*: no catalogue, or a close that nobody heard). The next process looks afresh.
  The proof also showed that the map of unconfirmed entries
  is not needed as a reminder, so the property does not mention it.

- **LiveAccount.** The operators of the book take a whole book to a book, so each is first
  reduced to what it does to one row and leaves of the others (*PlacedAs*, *Started*,
  *Cancelled*, *Shut*, *Beside*), and a handler's commit to one of a few such steps. The
  loops are over sets of ids in order; that an order exists is
  shown by the least number of ids that would break it (`OrderExists`,
  `InOrderLists`). Four invariants, stated in
  `LiveInvariants`, carry the rest.
  *Types* says, beside the types, that what is left of a handler stands in an order the
  code can have put it in: announcements before fills, fills before exits, rows to drop
  before missed closes and the first tick last. Without it a restart could be resumed
  by an item that no restart has.
  *Agree* is `RecordsAgree` made inductive. While a restart still has rows to drop the
  table holds pendings that memory does not (`Drops`), and an item may be carried out
  after its entry has gone: an entry that was offered a price and cancelled meanwhile by the
  kill switch is still in the list. So *Known* and *Fits* say what an item may find: a fill
  finds its entry waiting, or gone with the switch on, which the gate then refuses; a
  cancel, a drop and the end of a drop find their rows in the state they were written for.
  `FillsOnTime` needs the same: no price in the list is of a time that has not come, and
  housekeeping offers only what is due.
  `NoEntryWhenHalted` follows from what the gate leaves behind, since a position opens only
  after the gate has passed on the book it then opens in (*Allowed*, *Enters*).
  For `EntriesBounded` counting entries is not enough, for a reversal counts a position and
  its successor as one: *DiskSeated* counts the cells held, and says that a cell has one
  position and one entry at most and both only if the entry names the position. A gate that
  passed leaves a seat for the entry (`SeatPlaced`); a fill closes what it replaces before
  it opens (`OpenSeated`); everything else only frees seats (`LessSeated`).
  `NoEntryInCooldown` compares the running streak with the losses in a row that any set of
  closed rows shows, so the trades must have been counted in the order of their exits.
  *Streaks* says so: the streak bounds the losses after the last win, any run of
  `CooldownAfter` losses has set the cooldown (*Streak*), and nothing counted is younger
  than what has no receipt yet (*Counts*). That order is kept because a close without a
  receipt waits in the running handler, oldest first, or closes at this moment (*Told*,
  *Lined*); and because an entry that opens has passed a gate after which nothing is
  uncounted (`GateLasts`). A restart that finds its account swept by the switch announces
  nothing; *Told* holds there because nothing is held any more, and the next gate
  recovers what is missing. A failed write of the risk manager leaves closes uncounted
  and out of order, which is why the property speaks of runs without one (`torn`).
  Writing the proof showed that the `CASE` in which `ExecuteEntry` was first written did
  not say which of two guards that both hold comes first; it is now the chain of early
  returns that the code has. The folds over sets of ids became pointwise definitions and a
  recursive function.

Model-checked only: liveness, that is `EveryJobSettles`, `ReceiptsSettle`, `BarsAreServed`,
`ClosesAnnounced`, `EventuallyWhole`, `ClosedGetsFlat` and `Heals` (TLAPS has no support for
it under fairness). Every safety property of a passing run is a theorem; `TickTrips` is the
property that the code violates.

## 5. Disagreements between code and documents

**By a run** (TLC is expected to find it violated):

- **`paper_kill`**: the daily loss limit is reached while an entry is pending and
  `closeAllOnKill` is on. The risk manager's tick calls `closeAll` inside its own
  transaction; cancelling the pending entry opens a decision, and `commitDecision` refuses
  to run inside a transaction it does not own. The exception rolls the tick back, the
  switch with it, and every later tick fails in the same way while the entry waits
  (`risk/manager.ts:157`; in the constructor the same exception keeps the service from
  starting). `docs/calculations.md` says the positions are closed when the switch trips.

**By changing an instance** (the property named is then violated):

| Where | What the code does | Reproduce |
|---|---|---|
| `scanners/engine.ts:540` | settings are compared once, before a delivery loop that awaits; a change during one entry lets the next be received under the new fingerprint | `scans_small` with the property `NoTradeAfterChange` |
| `incubator/cycle.ts:585` | `autoPromote` approves all proposals of a hunt on the configuration taken once (`app.ts:951`), while `setScanner` replaces it (`config.ts:1062`): the second promotion of a scanner takes the first pair off its list again (`docs/DECISIONS.md:1560` says each is promoted) | `incubator` with the property `PromotionsKept`; what `DecisionStands` keeps is that only pairs of the same hunt go |
| `paper/engine.ts:1105` | with `trendExit` on, the `else` that saves the candle belongs to the trend exit's `if`; stop and seen candle are not saved, and a restart brings an older stop back | `position` with `TrendExit = TRUE`: `NeverLoosens` |
| `ARCHITECTURE.md:224` | when the tape falls silent "only movement since the last print counts"; the candle given last may lag behind the last print, and a stop raised by a print is then hit by a price from before it | `position` with `Sources = {"tape"}` and the invariant `OnlyNewMovement` |

**By a history of what is lost** (in the model, always possible, and excepted by the
property named; leave the exception out and TLC shows the trace):

| Where | What the code does | Excepted by |
|---|---|---|
| `candleStore.ts:470` | the exchange's clock is ahead: the first candle of the next period arrives before the old bar is over locally, the ticker looks only at the newest bar held, and the old bar's close is never announced ("otherwise the clock ticker announces it") | `overrun` in `NonePassedOver` |
| `candleStore.ts:371`, 395 | maintenance resyncs a series while the feed is down; connecting does not change `connectionGeneration`, so an answer from before the last trades lifts the barrier ("An older connection's request cannot clear this connection's barrier"), a fragment is announced, and a gap backfill may be undone by it | `late`, `unsure` in `WholeHistory`, `NonePassedOver`, `EventuallyWhole`, `NeverRegresses` |
| `candleStore.ts:128` | the link breaks before a series is loaded: the series gets no barrier, and no resync reaches back to the trades of that time | `unsure`, as before |
| `paper/engine.ts:1269` | `reset` archives the book and stamps the reset in two commits; after a kill between them an entry from before the reset may trade (`inboxRecovery.test.ts:92`) | `unstamped` in `ResetIsFinal` |
| `execution/testnet.ts:133` | a position that closes while `start()` is still draining emits its event to nobody; when its exit is then rejected the contracts are forgotten until the next start (`docs/DECISIONS.md:1611`) | `Overlooks` in `NothingForgotten`, `ClosedGetsFlat` |
| `execution/testnet.ts:418`, 716 | without the product catalogue a closed position that is still held is put on no record; a later sweep loads the catalogue only for a pending command (547) and does not look again | `Overlooks`, as before |
| `paper/engine.ts:1417` | "let the next price re-trigger the exit": when the write fails on the last candle of a minute, or on the tape's last print, nothing shows that price again; the stop passed stays open, the floor that was armed is not raised (`config.ts`: "the stop may never sit below `floorKeepR` of profit"). The same happens to the last candle of a minute that comes while the process is down | `lost` in `StopHonoured`, `FloorKept` |
| `paper/engine.ts:913` | an entry without a print fills at the mark while the last candle known lags behind; of that candle's next update a low from before the entry counts as new (`logic.ts:812`: "only price information newly observed since entry") | `before` in `StopEarned` |

**Read in the code and not modelled**:

- Executor, scanners: recovery voids an unfilled entry only if nothing was exited on paper
  yet (`testnet.ts:649`); labels seen are shared by live and backtest-only runs
  (`engine.ts:526`); a receipt that was never attempted may be executed by a later
  delivery at an old price (`engine.ts:644`).
- Paper engine: a failed exit is read back by `rowToPosition`, which loses the policy until
  a restart (`engine.ts:1425`, against `docs/DECISIONS.md:2440`; modelled in `OpenPosition`,
  where no property forbids it); `voidPosition` changes memory before its transaction; a
  tick rolled back after its `closeAll` closed positions leaves memory without them; a
  restart deletes a pending row and updates its signal in two statements; a receipt that
  failed and is recovered later counts the closes out of order.
- Position logic: a script's `tp1` label while the price is below the entry moves the stop
  above the market, and candles then book the stop at the entry although no price was
  there; within a minute a dip past
  a newly raised stop that stays above the minute's low shows in no candle; a gap of the
  tape shorter than `tapeFallbackMs` loses its prints; the structure trail may raise the
  stop on a candle that is not saved; a restated entry may move below a trailed stop, and
  the break-even move then loosens it.
- Incubator: demoting a scanner's last pair leaves it on the list of a switched-off scanner,
  and a later promotion switches it on again (`cycle.ts:557`); a kill between the two writes of a demotion retires the row, with its
  thirty days of cooldown, instead of sending it to shadow; the nightly's old snapshot may
  retire a pair just promoted or mark a demoted one live until the next hunt, and with the
  admit timer overfill the shadow slots; diversity caps are checked on one snapshot per
  hunt (`docs/DECISIONS.md:3090`).

## 6. What is left out

- Resting brackets, `reconcile` and `closeAll` of the executor; the quarantine, overlays,
  ML samples and auto-tuning of runOnce; legacy rows of the inbox; retention, drift and
  symbol checks of the candle store. Each module's head comment says what it abstracts.
- Of the paper engine: reclaim trials, execution plans, funding, fills adopted from the
  exchange, faults at the risk manager's last write after a `closeAll`; of the position
  logic: sizing, fees, slippage, the bankruptcy cap, the structure and research trails,
  the target-first order of the backtester, and when the rules of time, stall and trend
  fire (that they leave at the market is modelled).
- Of the incubator: trackers, evidence windows, legacy symbol lists, edits of the file by
  hand, and the whole-configuration update of the API, which is not held to `maxFleet`.
- Of the database: the schema, migrations and backups.
- Fees, indicator values and statistics (backtests, validation, ML): no property here
  reads them; they need reference computations rather than state machines.
- Pine scripts and the interpreter: the pool sees messages, the engine sees events.
- The dashboard, the deployment scripts and the research tools and data: no state the
  service depends on.

## 7. Plan

Next, in order of weight:

1. `BracketExecutor`: resting stops and targets, their replacement and the sweep, with a
   kill between placing the new stop and cancelling the old.
2. An abstract book that `SignalInbox` decides on and `LiveAccount` implements.
3. `ScriptHealth` (what raises and lifts a quarantine), `AlertManager` (raise, repeat,
   clear under the hourly cap), `ScreenQueue`, `MarkStore`, `TradingStatus`, `AuthStore`.
