------------------------------- MODULE ScanRuns -------------------------------
(***************************************************************************)
(* The runs of one scanner cell (scanner, market, timeframe): a closed bar  *)
(* requests a run, a run in flight defers the request, the script's output  *)
(* is read back to the cell's watermark and delivered event by event.       *)
(*   scanners/engine.ts 402-412   onBarClosed                               *)
(*   scanners/engine.ts 458-585   runOnce                                   *)
(*   scanners/watermark.ts        liveWindow, BarWatermark                  *)
(*   scanners/recovery.ts         the retry after memory pressure           *)
(*                                                                         *)
(* Every bar raises an exit, an entry and a label, so what is not received  *)
(* was lost on the way. An event is received when handleLiveEvent commits   *)
(* its receipt; what becomes of the receipt is SignalInbox's subject.       *)
(* JavaScript runs a handler to its next await without interruption: a      *)
(* delivery between two awaits is synchronous, only a SIGKILL splits it.    *)
(***************************************************************************)
EXTENDS Naturals, FiniteSets

CONSTANTS
  MaxBar,       \* bound: bars that close
  Cap,          \* MAX_CATCHUP_BARS
  Incidents,    \* kinds of incident that may happen, of
                \*   "fault"   a failed job, receipt, decision or save
                \*   "crash"   a shutdown or a SIGKILL
                \*   "change"  of the scanner's configuration
                \*   "extra"   a run asked for by the operator or the re-backtest
  MaxIncidents, \* bound: how many of them
  LateBars      \* BOOLEAN: a run may find its bar older than maxSignalAgeSec

ASSUME ScanAssumption ==
  /\ MaxBar \in Nat \ {0} /\ Cap \in Nat \ {0} /\ LateBars \in BOOLEAN
  /\ Incidents \subseteq {"fault", "crash", "change", "extra"} /\ MaxIncidents \in Nat

Bars   == 1..MaxBar
Kinds  == {"exit", "entry", "label"}
Events == Kinds \X Bars
Modes  == SUBSET {"backtest", "live"}

VARIABLES
  bar,        \* last bar the clock has closed
  announced,  \* last bar the candle store has announced
  life,       \* "up", "stopping" or "down"
  cfg,        \* the scanner's settings (a version) and whether it is active
  mark,       \* the cell's watermark in memory; 0: none yet
  saved,      \* the watermark on disk
  seen,       \* the last bar whose labels a run has seen; 0: no run yet
  run,        \* the run in flight
  deferred,   \* the request waiting for it to end, {}: none
  kick,       \* the request handed to setImmediate when it ended
  received,   \* durable: events with a receipt
  asked,      \* last bar whose closing was answered with a request
  served,     \* last bar a live run was made for
  since0,     \* the bar the watermark has been known from
  beyond,     \* history: bars more than Cap behind the bar of the run that passed them
  used        \* incidents so far

request == <<deferred, kick, asked, served>>
clock   == <<bar, announced>>
vars == <<clock, life, cfg, mark, saved, seen, run, request, received,
          since0, beyond, used>>

NoRun == [at |-> "none", mode |-> {}, bar |-> 0, since |-> 0, cfg |-> 0,
          todo |-> {}, awaiting |-> FALSE]

Init ==
  /\ bar = 1 /\ announced = 1
  /\ life = "up"
  /\ cfg = [version |-> 0, active |-> TRUE]
  /\ mark = 0 /\ saved = 0 /\ seen = 0
  /\ run = NoRun
  /\ deferred = {} /\ kick = {}
  /\ received = {}
  /\ asked = 0 /\ served = 0 /\ since0 = 0
  /\ beyond = {}
  /\ used = 0

Spend(what) == what \in Incidents /\ used < MaxIncidents /\ used' = used + 1

Larger(a, b)  == IF a > b THEN a ELSE b
Smaller(a, b) == IF a < b THEN a ELSE b

\* A delivery is between two awaits: nothing else runs.
Sync == run.at = "deliver" /\ ~run.awaiting
Turn == ~Sync /\ life # "down"

----------------------------------------------------------------------------
(* The window and the requests.                                             *)

\* Mutant: the window reaches one bar less far back than the cap.
MutShortWindow(m, n) ==
  IF m = 0 \/ m >= n THEN n ELSE Larger(m + 1, n - Smaller(n - m - 1, Cap - 1))

\* liveWindow: the bars after the watermark m, at most Cap bars back from n.
Since(m, n) ==
  IF m = 0 \/ m >= n THEN n ELSE Larger(m + 1, n - Smaller(n - m - 1, Cap))

\* Mutant: the newest request replaces the deferred one.
MutNewestOnly(mode) == mode

\* A deferred live run is never lost behind a backtest-only one.
Merged(mode) == deferred \cup mode

\* The bars, the window and the settings a run captures when it starts.
Job(mode, m) ==
  [at |-> "job", mode |-> mode, bar |-> bar, since |-> Since(m, bar),
   cfg |-> cfg.version, todo |-> {}, awaiting |-> FALSE]

\* runOnce up to its first await.
RunOnce(mode) ==
  IF run.at # "none"
  THEN deferred' = Merged(mode) /\ UNCHANGED run
  ELSE run' = Job(mode, mark) /\ UNCHANGED deferred

----------------------------------------------------------------------------
(* Bars, the operator, configuration and the process.                       *)

BarCloses ==
  /\ ~Sync /\ bar < MaxBar
  /\ bar' = bar + 1
  /\ UNCHANGED <<announced, life, cfg, mark, saved, seen, run, request, received,
                 since0, beyond, used>>

\* onBarClosed: the newest closed bar; an inactive scanner, a stopping engine
\* or a live queue more than 500 deep lets it pass.
BarAnnounced ==
  /\ Turn /\ announced < bar
  /\ announced' = bar
  /\ \/ /\ life = "up" /\ cfg.active
        /\ RunOnce({"live"})
        /\ asked' = bar
     \/ UNCHANGED <<run, deferred, asked>>
  /\ UNCHANGED <<bar, life, cfg, mark, saved, seen, kick, served, received,
                 since0, beyond, used>>

\* runBacktestNow and the scheduled re-backtest; runNow and warm.
ExtraRun(mode) ==
  /\ Turn /\ Spend("extra")
  /\ RunOnce(mode)
  /\ UNCHANGED <<clock, life, cfg, mark, saved, seen, kick, asked, served, received,
                 since0, beyond>>

Kick ==
  /\ Turn /\ kick # {}
  /\ RunOnce(kick) /\ kick' = {}
  /\ UNCHANGED <<clock, life, cfg, mark, saved, seen, asked, served, received,
                 since0, beyond, used>>

Configure ==
  /\ Turn /\ Spend("change")
  /\ \/ cfg' = [cfg EXCEPT !.version = 1 - @]
     \/ cfg' = [cfg EXCEPT !.active = ~@]
  /\ UNCHANGED <<clock, life, mark, saved, seen, run, request, received, since0, beyond>>

Stop ==
  /\ Turn /\ life = "up" /\ Spend("crash")
  /\ life' = "stopping"
  /\ UNCHANGED <<clock, cfg, mark, saved, seen, run, request, received, since0, beyond>>

Die ==
  /\ life' = "down"
  /\ run' = NoRun /\ deferred' = {} /\ kick' = {} /\ seen' = 0
  /\ asked' = 0 /\ served' = 0
  /\ UNCHANGED <<clock, cfg, mark, saved, received, since0, beyond>>

Exit  == life = "stopping" /\ ~Sync /\ Die /\ UNCHANGED used
Crash == life # "down" /\ Spend("crash") /\ Die

\* The watermark comes back from disk; start() warms the cell unless its last
\* backtest is recent.
Restart ==
  /\ life = "down" /\ life' = "up"
  /\ announced' = bar
  /\ mark' = saved
  /\ since0' = IF saved = 0 THEN 0 ELSE since0
  /\ \/ UNCHANGED run
     \/ cfg.active /\ run' = Job({"backtest", "live"}, saved)
  /\ UNCHANGED <<bar, cfg, saved, seen, request, received, beyond, used>>

----------------------------------------------------------------------------
(* The job and the delivery of what it found.                               *)

\* Mutant: the deferred request is dropped with the run it waited for.
MutDropsDeferred == {}

\* runOnce's finally: the deferred request starts on the next tick.
Kicked == deferred

End ==
  /\ run' = NoRun
  /\ kick' = kick \cup Kicked /\ deferred' = {}
  /\ served' = IF "live" \in run.mode THEN Larger(served, run.bar) ELSE served
  /\ UNCHANGED asked

Working == run.at \in {"job", "retry"}

\* The script failed, timed out or found too few bars.
JobFails ==
  /\ Turn /\ Working /\ Spend("fault")
  /\ End
  /\ UNCHANGED <<clock, life, cfg, mark, saved, seen, received, since0, beyond>>

\* Shared memory pressure: one retry, of a cell that is still current.
MemoryShort ==
  /\ Turn /\ run.at = "job" /\ "live" \in run.mode /\ Spend("fault")
  /\ run' = [run EXCEPT !.at = "wait"]
  /\ UNCHANGED <<clock, life, cfg, mark, saved, seen, request, received, since0, beyond>>

Current == cfg.active /\ cfg.version = run.cfg /\ bar = run.bar

Retry ==
  /\ Turn /\ run.at = "wait" /\ Current
  /\ run' = [run EXCEPT !.at = "retry"]
  /\ UNCHANGED <<clock, life, cfg, mark, saved, seen, request, received,
                 since0, beyond, used>>

\* The deep job before it may have succeeded: its labels are seen.
GiveUp ==
  /\ Turn /\ run.at = "wait"
  /\ seen' \in IF "backtest" \in run.mode THEN {seen, run.bar} ELSE {seen}
  /\ End
  /\ UNCHANGED <<clock, life, cfg, mark, saved, received, since0, beyond, used>>

Exits == {"exit"} \X (run.since..run.bar)

\* Mutant: the stale branch advances the watermark without the exits.
MutStaleReadsNothing == {}

\* A bar too old to act on: its entries are dropped, the exits are not.
StaleEvents == Exits

\* Labels no earlier run has seen make one entry on the run's bar.
Fresh == seen # 0 /\ run.bar > seen

LiveEvents ==
  Exits \cup {<<"entry", run.bar>>}
        \cup {<<"label", b>> : b \in IF Fresh THEN {run.bar} ELSE {}}

MayAct == "live" \in run.mode /\ cfg.active /\ cfg.version = run.cfg

Deliver(events) ==
  /\ run' = [run EXCEPT !.at = "deliver", !.todo = events]
  /\ UNCHANGED request

\* Whatever the run is for, the labels it saw are seen. A separate live job
\* of a backtest run may have failed where the deep one succeeded.
JobAnswers ==
  /\ Turn /\ Working
  /\ seen' = run.bar
  /\ \/ /\ MayAct
        /\ Deliver(LiveEvents)
        /\ UNCHANGED used
     \/ /\ MayAct /\ LateBars
        /\ Deliver(StaleEvents)
        /\ UNCHANGED used
     \/ ~MayAct /\ End /\ UNCHANGED used
     \/ MayAct /\ "backtest" \in run.mode /\ Spend("fault") /\ End
  /\ UNCHANGED <<clock, life, cfg, mark, saved, received, since0, beyond>>

\* Mutant: the events are delivered in the order they were extracted.
MutUnsorted(e) == TRUE

\* Exits are delivered before entries.
InTurn(e) == e[1] = "exit" \/ ~\E f \in run.todo : f[1] = "exit"

\* handleLiveEvent. An entry that is still valid awaits the depth gate and the
\* batch; an exit and a refused entry are decided at once.
Handle(e) ==
  /\ Sync /\ life = "up" /\ e \in run.todo /\ InTurn(e)
  /\ received' = received \cup {e}
  /\ \E wait \in IF e[1] = "exit" THEN {FALSE} ELSE BOOLEAN :
       run' = [run EXCEPT !.todo = @ \ {e}, !.awaiting = wait]
  /\ UNCHANGED <<clock, life, cfg, mark, saved, seen, request, since0, beyond, used>>

Awaited ==
  /\ life # "down" /\ run.awaiting
  /\ run' = [run EXCEPT !.awaiting = FALSE]
  /\ UNCHANGED <<clock, life, cfg, mark, saved, seen, request, received,
                 since0, beyond, used>>

\* The receipt, the preparation or the decision fails, or the engine stops:
\* the run ends where it is and the watermark stays.
HandleFails ==
  /\ life # "down" /\ run.at = "deliver"
  /\ \/ life = "stopping" /\ Sync /\ run.todo # {} /\ UNCHANGED <<received, used>>
     \/ run.awaiting /\ Spend("fault") /\ UNCHANGED received
     \/ /\ Sync /\ Spend("fault")
        /\ \E e \in run.todo : InTurn(e) /\ received' \in {received, received \cup {e}}
  /\ End
  /\ UNCHANGED <<clock, life, cfg, mark, saved, seen, since0, beyond>>

\* BarWatermark.advance: never backwards; a failed save keeps it in memory.
Advance ==
  /\ life # "down" /\ Sync /\ run.todo = {}
  /\ mark' = Larger(mark, run.bar)
  /\ since0' = IF mark = 0 THEN run.bar ELSE since0
  /\ beyond' = IF mark = 0 THEN beyond
               ELSE beyond \cup {b \in (mark + 1)..run.bar : b + Cap < run.bar}
  /\ \/ saved' = mark' /\ UNCHANGED used
     \/ UNCHANGED saved /\ Spend("fault")
  /\ End
  /\ UNCHANGED <<clock, life, cfg, seen, received>>

Next ==
  \/ BarCloses \/ BarAnnounced \/ Kick
  \/ \E mode \in {{"backtest"}, {"backtest", "live"}} : ExtraRun(mode)
  \/ Configure \/ Stop \/ Exit \/ Crash \/ Restart
  \/ JobFails \/ MemoryShort \/ Retry \/ GiveUp \/ JobAnswers
  \/ \E e \in Events : Handle(e)
  \/ Awaited \/ HandleFails \/ Advance

Spec == Init /\ [][Next]_vars

\* The pool settles every job (PinePool's EveryJobSettles), the inbox settles
\* or fails every preparation, a retry waits 30 seconds at most, and the event
\* loop runs setImmediate and continuations.
Fairness ==
  /\ WF_vars(JobAnswers \/ JobFails \/ GiveUp)
  /\ WF_vars(\E e \in Events : Handle(e)) /\ WF_vars(Awaited \/ HandleFails) /\ WF_vars(Advance)
  /\ SF_vars(Kick)

FairSpec == Spec /\ Fairness

----------------------------------------------------------------------------
(* Properties                                                               *)

TypeOK ==
  /\ bar \in Bars /\ announced \in Bars
  /\ life \in {"up", "stopping", "down"}
  /\ cfg \in [version : 0..1, active : BOOLEAN]
  /\ mark \in 0..MaxBar /\ saved \in 0..MaxBar /\ seen \in 0..MaxBar
  /\ run \in [at : {"none", "job", "wait", "retry", "deliver"}, mode : Modes, bar : 0..MaxBar,
              since : 0..MaxBar, cfg : 0..1, todo : SUBSET Events, awaiting : BOOLEAN]
  /\ deferred \in Modes /\ kick \in Modes
  /\ received \subseteq Events
  /\ used \in 0..MaxIncidents /\ asked \in 0..MaxBar /\ served \in 0..MaxBar /\ since0 \in 0..MaxBar
  /\ beyond \subseteq Bars

\* A bar behind the watermark has had its exit received, or was further back
\* than the catch-up cap when a run passed it: no deferral, skipped bar, stale
\* run, failure, crash or retry loses an exit, and no window is a bar short
\* (watermark.ts 1-8, 16-28, engine.ts 551-557).
ExitsRead ==
  \A b \in Bars : since0 # 0 /\ since0 <= b /\ b <= mark =>
    <<"exit", b>> \in received \/ b \in beyond

\* A closed bar that was answered with a request has had its live run, or one
\* that covers it is in flight, deferred or about to start (engine.ts 460-463).
LiveKept ==
  asked > served =>
    \/ "live" \in run.mode /\ run.bar >= asked
    \/ "live" \in deferred \cup kick

\* An entry is received after every exit the same run can see, so a reversal
\* closes before it opens (engine.ts 570).
ExitsFirst ==
  [][\A e \in received' \ received : e[1] # "exit" =>
       \A b \in run.since..run.bar : <<"exit", b>> \in received]_vars

\* A bar whose run was requested gets it, however long the run before takes.
BarsAreServed == \A b \in Bars : asked >= b ~> served >= b \/ asked < b

\* engine.ts 540 "A pending job cannot trade after disable/removal or a
\* configuration change": an entry is received only under the settings its run
\* was computed with. The code does not keep it: the settings are compared once,
\* before a delivery loop that awaits (README, section 5).
NoTradeAfterChange ==
  [][\A e \in received' \ received : e[1] # "exit" => cfg.version = run.cfg]_vars
=============================================================================
