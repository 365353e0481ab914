---------------------------- MODULE ScanRuns_proofs ----------------------------
(***************************************************************************)
(* Theorems about the runs of a scanner cell for any number of bars, any   *)
(* catch-up cap and any number of incidents: no exit behind the watermark  *)
(* is lost, a requested live run is never lost behind another, and exits   *)
(* are received before entries. The last part is about the incubator, which *)
(* decides which cells there are: its two records tell of one decision, and *)
(* a hunt's promotions take no cell that traded before it.                  *)
(***************************************************************************)
EXTENDS ScanRuns, ScannerConfig, TLAPS

LEMMA Constants ==
  /\ MaxBar \in Nat /\ MaxBar >= 1 /\ Cap \in Nat /\ Cap >= 1
  /\ MaxIncidents \in Nat
  BY ScanAssumption DEF ScanAssumption

RunType ==
  run \in [at : {"none", "job", "wait", "retry", "deliver"}, mode : Modes, bar : 0..MaxBar,
           since : 0..MaxBar, cfg : 0..1, todo : SUBSET Events, awaiting : BOOLEAN]

MarkTypes ==
  /\ mark \in 0..MaxBar /\ saved \in 0..MaxBar /\ since0 \in 0..MaxBar
  /\ beyond \subseteq Bars
  /\ received \subseteq Events

RequestTypes ==
  /\ deferred \in Modes /\ kick \in Modes
  /\ asked \in 0..MaxBar /\ served \in 0..MaxBar

RestTypes ==
  /\ bar \in Bars /\ announced \in Bars
  /\ life \in {"up", "stopping", "down"}
  /\ cfg \in [version : 0..1, active : BOOLEAN]
  /\ seen \in 0..MaxBar 
  /\ used \in 0..MaxIncidents

\* A run reads back from the bar it captured, which has closed; its exits are
\* received or still to be delivered.
RunInv ==
  /\ run.at = "none" => run.mode = {} /\ ~run.awaiting
  /\ run.at # "none" => run.since <= run.bar /\ run.bar <= bar /\ 1 <= run.since
  /\ run.at = "deliver" => \A b \in run.since..run.bar : <<"exit", b>> \in received \cup run.todo
  /\ run.at # "deliver" => ~run.awaiting

\* A dead process runs nothing; the watermark on disk is never ahead.
DownIsIdle == life = "down" => run.mode = {}
SavedBehind == saved <= mark

IInv == /\ DownIsIdle /\ SavedBehind
        /\ RunType /\ MarkTypes /\ RequestTypes /\ RestTypes
        /\ RunInv /\ asked <= bar /\ ExitsRead /\ LiveKept

\* What the window leaves out between the watermark and its start is further
\* back than the catch-up cap.
WindowInv ==
  /\ life = "down" => run.at = "none"
  /\ run.at # "none" /\ mark # 0 =>
       \A b \in Bars : mark < b /\ b < run.since => b + Cap < run.bar

LEMMA LargerType == \A a, b \in 0..MaxBar : Larger(a, b) \in 0..MaxBar /\ Larger(a, b) >= a /\ Larger(a, b) >= b
  BY Constants DEF Larger

\* The window ends at the last bar and starts after the first.
LEMMA SinceType ==
  ASSUME NEW m \in 0..MaxBar, NEW n \in Bars
  PROVE  Since(m, n) \in 1..n
<1> USE Constants DEF Bars
<1>1. CASE m = 0 \/ m >= n
  BY <1>1 DEF Since
<1>2. CASE ~(m = 0 \/ m >= n)
  <2>1. n - m - 1 \in Nat /\ m + 1 \in 1..n
    BY <1>2
  <2>2. Smaller(n - m - 1, Cap) \in Nat /\ Smaller(n - m - 1, Cap) <= n - m - 1
    BY <2>1 DEF Smaller
  <2>3. n - Smaller(n - m - 1, Cap) \in 1..n
    BY <1>2, <2>1, <2>2
  <2>4. QED
    BY <1>2, <2>1, <2>3 DEF Since, Larger
<1>3. QED
  BY <1>1, <1>2

LEMMA SinceReaches ==
  ASSUME NEW m \in 1..MaxBar, NEW n \in Bars, NEW b \in Bars, m < b, b < Since(m, n)
  PROVE  b + Cap < n
<1> USE Constants DEF Bars
<1>1. CASE m >= n
  BY <1>1 DEF Since
<1>2. CASE m < n
  <2>1. Since(m, n) = Larger(m + 1, n - Smaller(n - m - 1, Cap))
    BY <1>2 DEF Since
  <2>2. b < n - Smaller(n - m - 1, Cap)
    BY <1>2, <2>1 DEF Larger, Smaller
  <2>3. QED
    BY <1>2, <2>2 DEF Smaller
<1>3. QED
  BY <1>1, <1>2

LEMMA JobProperties ==
  ASSUME RestTypes, NEW mode \in Modes, NEW m \in 0..MaxBar
  PROVE  LET j == Job(mode, m) IN
           /\ j \in [at : {"none", "job", "wait", "retry", "deliver"}, mode : Modes, bar : 0..MaxBar,
                     since : 0..MaxBar, cfg : 0..1, todo : SUBSET Events, awaiting : BOOLEAN]
           /\ j.at = "job" /\ j.mode = mode /\ j.bar = bar /\ j.awaiting = FALSE
           /\ j.since <= bar /\ 1 <= j.since
<1>1. bar \in Bars /\ Since(m, bar) \in 1..bar /\ cfg.version \in 0..1
  BY SinceType DEF RestTypes
<1>2. Job(mode, m) = [at |-> "job", mode |-> mode, bar |-> bar, since |-> Since(m, bar),
                      cfg |-> cfg.version, todo |-> {}, awaiting |-> FALSE]
  BY DEF Job
<1>3. bar \in 0..MaxBar /\ Since(m, bar) \in 0..MaxBar /\ Since(m, bar) <= bar /\ 1 <= Since(m, bar)
  BY <1>1, Constants DEF Bars
<1>4. QED
  BY <1>1, <1>2, <1>3

\* A request starts a run or joins the deferred one; a live request is kept.
LEMMA RequestKeeps ==
  ASSUME IInv, NEW mode \in Modes, RunOnce(mode), UNCHANGED <<bar, received>>
  PROVE  /\ RunType' /\ RunInv' /\ deferred' \in Modes
         /\ deferred \subseteq deferred'
         /\ \/ run' = run /\ mode \subseteq deferred'
            \/ run.mode = {} /\ run'.bar = bar /\ run'.mode = mode
<1>1. CASE run.at # "none"
  <2>1. run' = run /\ deferred' = deferred \cup mode
    BY <1>1 DEF RunOnce, Merged
  <2>2. RunType' /\ RunInv'
    BY <2>1 DEF IInv, RunType, RunInv
  <2>3. QED
    BY <2>1, <2>2 DEF IInv, RequestTypes, Modes
<1>2. CASE run.at = "none"
  <2>1. run' = Job(mode, mark) /\ deferred' = deferred
    BY <1>2 DEF RunOnce
  <2>2. RestTypes /\ mark \in 0..MaxBar
    BY DEF IInv, MarkTypes
  <2>3. RunType' /\ run'.at = "job" /\ run'.mode = mode /\ run'.bar = bar /\ run'.awaiting = FALSE
        /\ run'.since <= bar /\ 1 <= run'.since
    BY <2>1, <2>2, JobProperties DEF RunType
  <2>4. RunInv'
    BY <2>3, <2>2, Constants DEF RunInv, RestTypes, Bars
  <2>5. QED
    BY <1>2, <2>1, <2>3, <2>4 DEF IInv, RequestTypes, RunInv
<1>3. QED
  BY <1>1, <1>2

\* The end of a run: what it was deferring starts, its own request is served.
LEMMA EndKeeps ==
  ASSUME IInv, End, UNCHANGED bar
  PROVE  RunType' /\ RequestTypes' /\ RunInv' /\ (asked <= bar)' /\ LiveKept'
<1> USE Constants
<1>1. /\ run' = NoRun /\ kick' = kick \cup deferred /\ deferred' = {}
      /\ served' = IF "live" \in run.mode THEN Larger(served, run.bar) ELSE served
      /\ asked' = asked
  BY DEF End, Kicked
<1>2. served' \in 0..MaxBar /\ ("live" \in run.mode => served' >= run.bar) /\ served' >= served
  <2>1. served \in 0..MaxBar /\ run.bar \in 0..MaxBar
    BY DEF IInv, RunType, RequestTypes
  <2>2. /\ Larger(served, run.bar) \in 0..MaxBar
        /\ Larger(served, run.bar) >= served /\ Larger(served, run.bar) >= run.bar
    BY <2>1, LargerType
  <2>3. QED
    BY <1>1, <2>1, <2>2
<1>3. RunType' /\ RunInv'
  BY <1>1 DEF RunType, RunInv, NoRun, Modes
<1>4. RequestTypes'
  BY <1>1, <1>2 DEF IInv, RequestTypes, Modes
<1>5. LiveKept'
  BY <1>1, <1>2 DEF IInv, LiveKept, RequestTypes, RunType
<1>6. QED
  BY <1>1, <1>3, <1>4, <1>5 DEF IInv

LEMMA InitInvariant == Init => IInv
<1> SUFFICES ASSUME Init PROVE IInv
  OBVIOUS
<1> USE Constants
<1>1. RunType /\ MarkTypes /\ RequestTypes
  BY DEF Init, RunType, MarkTypes, RequestTypes, NoRun, Modes
<1>2. RestTypes
  BY DEF Init, RestTypes, Bars
<1>3. RunInv /\ asked <= bar /\ ExitsRead /\ LiveKept
  BY DEF Init, RunInv, NoRun, ExitsRead, LiveKept
<1>5. DownIsIdle /\ SavedBehind
  BY DEF Init, DownIsIdle, SavedBehind
<1>4. QED
  BY <1>1, <1>2, <1>3, <1>5 DEF IInv

\* Steps that move neither watermark nor receipts, nor end a run.
LEMMA QuietKeeps ==
  ASSUME IInv, UNCHANGED <<mark, saved, since0, beyond, received>>,
         RunType', RunInv', RequestTypes', RestTypes', (asked <= bar)', LiveKept', DownIsIdle'
  PROVE  IInv'
  BY DEF IInv, MarkTypes, ExitsRead, SavedBehind

\* A run in flight moves to another phase: requests and bars as they were.
LEMMA PhaseKeeps ==
  ASSUME IInv, UNCHANGED <<bar, request>>, run'.mode = run.mode, run'.bar = run.bar
  PROVE  RequestTypes' /\ (asked <= bar)' /\ LiveKept'
  BY DEF IInv, request, RequestTypes, LiveKept

LEMMA RequestSteps ==
  ASSUME IInv, BarCloses \/ BarAnnounced \/ Kick
               \/ \E mode \in {{"backtest"}, {"backtest", "live"}} : ExtraRun(mode)
  PROVE  IInv'
<1> USE Constants
<1>1. CASE BarCloses
  <2>1. /\ bar < MaxBar /\ bar' = bar + 1
        /\ UNCHANGED <<announced, life, cfg, mark, saved, seen, run, request, received,
                       since0, beyond, used>>
    BY <1>1 DEF BarCloses
  <2>2. RestTypes'
    BY <2>1 DEF IInv, RestTypes, Bars
  <2>3. RunType' /\ RunInv' /\ RequestTypes' /\ (asked <= bar)' /\ LiveKept'
    BY <2>1 DEF IInv, RunType, RunInv, RequestTypes, LiveKept, request, RestTypes, Bars
  <2>4. DownIsIdle'
    BY <2>1 DEF IInv, DownIsIdle
  <2>5. QED
    BY <2>1, <2>2, <2>3, <2>4, QuietKeeps
<1>2. CASE BarAnnounced
  <2>1. /\ announced' = bar
        /\ UNCHANGED <<bar, life, cfg, mark, saved, seen, kick, served, received,
                       since0, beyond, used>>
    BY <1>2 DEF BarAnnounced
  <2>2. RestTypes' /\ bar \in 1..MaxBar
    BY <2>1 DEF IInv, RestTypes, Bars
  <2>6. DownIsIdle'
    BY <1>2, <2>1 DEF BarAnnounced, Turn, DownIsIdle
  <2>3. CASE UNCHANGED <<run, deferred, asked>>
    <3>1. RunType' /\ RunInv' /\ RequestTypes' /\ (asked <= bar)' /\ LiveKept'
      BY <2>1, <2>3 DEF IInv, RunType, RunInv, RequestTypes, LiveKept
    <3>2. QED
      BY <2>1, <2>2, <2>6, <3>1, QuietKeeps
  <2>4. CASE RunOnce({"live"}) /\ asked' = bar
    <3>1. {"live"} \in Modes
      BY DEF Modes
    <3>2. /\ RunType' /\ RunInv' /\ deferred' \in Modes
          /\ \/ "live" \in deferred'
             \/ run'.bar = bar /\ "live" \in run'.mode
      BY <2>1, <2>4, <3>1, RequestKeeps
    <3>3. RequestTypes' /\ (asked <= bar)'
      BY <2>1, <2>2, <2>4, <3>2 DEF IInv, RequestTypes, Bars
    <3>4. LiveKept'
      BY <2>1, <2>2, <2>4, <3>2 DEF LiveKept
    <3>5. QED
      BY <2>1, <2>2, <2>6, <3>2, <3>3, <3>4, QuietKeeps
  <2>5. QED
    BY <1>2, <2>3, <2>4 DEF BarAnnounced
<1>3. ASSUME NEW mode \in Modes, RunOnce(mode),
             (mode = kick /\ kick' = {}) \/ kick' = kick,
             UNCHANGED <<clock, life, cfg, mark, saved, seen, asked, served, received,
                         since0, beyond>>,
             used' \in 0..MaxIncidents, life # "down"
      PROVE  IInv'
  <2>1. UNCHANGED <<bar, announced>>
    BY <1>3 DEF clock
  <2>2. /\ RunType' /\ RunInv' /\ deferred' \in Modes
        /\ deferred \subseteq deferred'
        /\ \/ run' = run /\ mode \subseteq deferred'
           \/ run.mode = {} /\ run'.bar = bar /\ run'.mode = mode
    BY <1>3, <2>1, RequestKeeps
  <2>3. RequestTypes' /\ (asked <= bar)' /\ RestTypes'
    BY <1>3, <2>1, <2>2 DEF IInv, RequestTypes, RestTypes, Modes
  <2>4. LiveKept'
    BY <1>3, <2>1, <2>2 DEF IInv, LiveKept
  <2>5. DownIsIdle'
    BY <1>3 DEF DownIsIdle
  <2>6. QED
    BY <1>3, <2>2, <2>3, <2>4, <2>5, QuietKeeps
<1>4. CASE Kick
  <2>1. kick \in Modes
    BY DEF IInv, RequestTypes
  <2>2. used' \in 0..MaxIncidents
    BY <1>4 DEF Kick, IInv, RestTypes
  <2>3. QED
    BY <1>3, <1>4, <2>1, <2>2 DEF Kick, Turn
<1>5. ASSUME NEW mode \in {{"backtest"}, {"backtest", "live"}}, ExtraRun(mode) PROVE IInv'
  <2>1. mode \in Modes
    BY DEF Modes
  <2>2. used' \in 0..MaxIncidents
    BY <1>5 DEF ExtraRun, Spend, IInv, RestTypes
  <2>3. QED
    BY <1>3, <1>5, <2>1, <2>2 DEF ExtraRun, Turn
<1>6. QED
  BY <1>1, <1>2, <1>4, <1>5

LEMMA WorldSteps ==
  ASSUME IInv, Configure \/ Stop \/ Exit \/ Crash \/ Restart
  PROVE  IInv'
<1> USE Constants
<1>1. CASE Configure \/ Stop
  <2>1. /\ UNCHANGED <<clock, mark, saved, seen, run, request, received, since0, beyond>>
        /\ life' \in {"up", "stopping", "down"}
        /\ used' \in 0..MaxIncidents
    BY <1>1 DEF Configure, Stop, Spend, IInv, RestTypes
  <2>2. cfg' \in [version : 0..1, active : BOOLEAN]
    <3>1. cfg.version \in {0, 1} /\ 1 - cfg.version \in {0, 1}
      BY DEF IInv, RestTypes
    <3>2. CASE cfg' = [cfg EXCEPT !.version = 1 - @]
      BY <3>1, <3>2 DEF IInv, RestTypes
    <3>3. CASE cfg' = [cfg EXCEPT !.active = ~@]
      <4>1. (~cfg.active) \in BOOLEAN
        OBVIOUS
      <4>2. QED
        BY <3>3, <4>1, Zenon DEF IInv, RestTypes
    <3>4. CASE Stop
      BY <3>4 DEF Stop, IInv, RestTypes
    <3>5. QED
      BY <1>1, <3>2, <3>3, <3>4 DEF Configure
  <2>3. RestTypes'
    BY <2>1, <2>2 DEF IInv, RestTypes, clock
  <2>4. RunType' /\ RunInv' /\ RequestTypes' /\ (asked <= bar)' /\ LiveKept'
    BY <2>1 DEF IInv, RunType, RunInv, RequestTypes, LiveKept, request, clock
  <2>5. DownIsIdle'
    BY <1>1, <2>1 DEF Configure, Stop, Turn, DownIsIdle
  <2>6. QED
    BY <2>1, <2>3, <2>4, <2>5, QuietKeeps
<1>2. CASE Exit \/ Crash
  <2>1. Die /\ used' \in 0..MaxIncidents
    BY <1>2 DEF Exit, Crash, Spend, IInv, RestTypes
  <2>2. RunType' /\ RunInv' /\ RequestTypes' /\ (asked <= bar)' /\ LiveKept'
    BY <2>1 DEF Die, IInv, RunType, RunInv, NoRun, RequestTypes, LiveKept, Modes, clock, RestTypes, Bars
  <2>3. RestTypes'
    BY <2>1 DEF Die, IInv, RestTypes, clock
  <2>4. DownIsIdle'
    BY <2>1 DEF Die, DownIsIdle, NoRun
  <2>5. QED
    BY <2>1, <2>2, <2>3, <2>4, QuietKeeps DEF Die
<1>3. CASE Restart
  <2>1. /\ life' = "up" /\ announced' = bar /\ mark' = saved
        /\ since0' = IF saved = 0 THEN 0 ELSE since0
        /\ UNCHANGED <<bar, cfg, saved, seen, request, received, beyond, used>>
    BY <1>3 DEF Restart
  <2>2. RestTypes' /\ MarkTypes'
    BY <2>1 DEF IInv, RestTypes, MarkTypes
  <2>3. /\ RunType' /\ RunInv'
        /\ run' = run \/ run.mode = {}
    <3>1. CASE run' = run
      BY <2>1, <3>1 DEF IInv, RunType, RunInv
    <3>2. CASE run' = Job({"backtest", "live"}, saved)
      <4>1. RestTypes /\ saved \in 0..MaxBar /\ {"backtest", "live"} \in Modes
        BY DEF IInv, MarkTypes, Modes
      <4>2. RunType' /\ run'.at = "job" /\ run'.bar = bar /\ run'.awaiting = FALSE
            /\ run'.since <= bar /\ 1 <= run'.since
        BY <3>2, <4>1, JobProperties DEF RunType
      <4>3. run.mode = {}
        BY <1>3 DEF Restart, IInv, DownIsIdle
      <4>4. QED
        BY <2>1, <4>1, <4>2, <4>3 DEF RunInv, RestTypes, Bars
    <3>3. QED
      BY <1>3, <3>1, <3>2 DEF Restart
  <2>4. RequestTypes' /\ (asked <= bar)' /\ LiveKept'
    BY <2>1, <2>3 DEF IInv, RequestTypes, LiveKept, request
  <2>5. ExitsRead'
    BY <2>1 DEF IInv, ExitsRead, MarkTypes, SavedBehind, Bars
  <2>6. DownIsIdle' /\ SavedBehind'
    BY <2>1 DEF IInv, DownIsIdle, SavedBehind, MarkTypes
  <2>7. QED
    BY <2>2, <2>3, <2>4, <2>5, <2>6 DEF IInv
<1>4. QED
  BY <1>1, <1>2, <1>3

\* The job and the wait before its retry: nothing is received.
LEMMA JobSteps ==
  ASSUME IInv, JobFails \/ MemoryShort \/ Retry \/ GiveUp
  PROVE  IInv'
<1> USE Constants
<1>1. CASE JobFails \/ GiveUp
  <2>1. /\ End /\ life # "down" /\ used' \in 0..MaxIncidents
        /\ seen' \in 0..MaxBar
        /\ UNCHANGED <<clock, life, cfg, mark, saved, received, since0, beyond>>
    BY <1>1 DEF JobFails, GiveUp, Spend, Turn, IInv, RestTypes, RunType
  <2>2. RunType' /\ RequestTypes' /\ RunInv' /\ (asked <= bar)' /\ LiveKept'
    BY <2>1, EndKeeps DEF clock
  <2>3. RestTypes' /\ DownIsIdle'
    BY <2>1 DEF IInv, RestTypes, clock, DownIsIdle
  <2>4. QED
    BY <2>1, <2>2, <2>3, QuietKeeps
<1>2. ASSUME NEW at \in {"retry", "wait"}, run' = [run EXCEPT !.at = at],
             run.at \in {"job", "wait"}, life # "down", used' \in 0..MaxIncidents,
             UNCHANGED <<clock, life, cfg, mark, saved, seen, request, received, since0, beyond>>
      PROVE  IInv'
  <2>1. RunType' /\ run'.mode = run.mode /\ run'.bar = run.bar /\ run'.since = run.since
        /\ run'.awaiting = run.awaiting /\ run'.at = at
    BY <1>2 DEF IInv, RunType
  <2>2. RunInv'
    BY <1>2, <2>1 DEF IInv, RunInv, clock
  <2>3. RequestTypes' /\ (asked <= bar)' /\ LiveKept'
    BY <1>2, <2>1, PhaseKeeps DEF clock
  <2>4. RestTypes' /\ DownIsIdle'
    BY <1>2 DEF IInv, RestTypes, clock, DownIsIdle
  <2>5. QED
    BY <1>2, <2>1, <2>2, <2>3, <2>4, QuietKeeps
<1>3. CASE MemoryShort
  BY <1>2, <1>3 DEF MemoryShort, Spend, Turn, IInv, RestTypes
<1>4. CASE Retry
  BY <1>2, <1>4 DEF Retry, Turn, IInv, RestTypes
<1>5. QED
  BY <1>1, <1>3, <1>4

\* Both branches deliver every exit of the window.
LEMMA EventsOfRun ==
  ASSUME IInv, run.at # "none"
  PROVE  /\ StaleEvents \in SUBSET Events /\ LiveEvents \in SUBSET Events
         /\ \A b \in run.since..run.bar : <<"exit", b>> \in StaleEvents /\ <<"exit", b>> \in LiveEvents
<1>1. /\ run.since..run.bar \subseteq Bars /\ run.bar \in Bars
  BY Constants DEF IInv, RunInv, RunType, Bars
<1>2. /\ Exits \subseteq Events
      /\ \A b \in run.since..run.bar : <<"exit", b>> \in Exits
  BY <1>1 DEF Exits, Events, Kinds
<1>3. LiveEvents \subseteq Events /\ Exits \subseteq LiveEvents
  BY <1>1, <1>2 DEF LiveEvents, Events, Kinds
<1>4. QED
  BY <1>2, <1>3 DEF StaleEvents

LEMMA AnswerStep ==
  ASSUME IInv, JobAnswers
  PROVE  IInv'
<1> USE Constants
<1>1. /\ life # "down" /\ run.at \in {"job", "retry"} /\ seen' = run.bar
      /\ used' \in 0..MaxIncidents
      /\ UNCHANGED <<clock, life, cfg, mark, saved, received, since0, beyond>>
  BY DEF JobAnswers, Working, Spend, Turn, IInv, RestTypes
<1>2. run.bar \in 0..MaxBar /\ run.bar \in Bars
  BY <1>1 DEF IInv, RunInv, RunType, Bars
<1>3. RestTypes' /\ DownIsIdle'
  BY <1>1, <1>2 DEF IInv, RestTypes, clock, DownIsIdle
<1>4. RunType' /\ RunInv' /\ RequestTypes' /\ (asked <= bar)' /\ LiveKept'
  <2>1. CASE End
    BY <1>1, <2>1, EndKeeps DEF clock
  <2>2. ASSUME NEW events \in {StaleEvents, LiveEvents}, Deliver(events)
        PROVE  RunType' /\ RunInv' /\ RequestTypes' /\ (asked <= bar)' /\ LiveKept'
    <3>1. events \in SUBSET Events /\ \A b \in run.since..run.bar : <<"exit", b>> \in events
      BY <1>1, <2>2, EventsOfRun
    <3>2. run' = [run EXCEPT !.at = "deliver", !.todo = events] /\ UNCHANGED request
      BY <2>2 DEF Deliver
    <3>3. RunType' /\ run'.mode = run.mode /\ run'.bar = run.bar /\ run'.since = run.since
          /\ run'.awaiting = run.awaiting /\ run'.at = "deliver" /\ run'.todo = events
      BY <3>1, <3>2 DEF IInv, RunType
    <3>4. RunInv'
      BY <1>1, <3>1, <3>3 DEF IInv, RunInv, clock
    <3>5. QED
      BY <1>1, <3>2, <3>3, <3>4, PhaseKeeps DEF clock
  <2>3. QED
    BY <2>1, <2>2 DEF JobAnswers
<1>5. QED
  BY <1>1, <1>3, <1>4, QuietKeeps

\* A delivery receives an event that was to be delivered, or waits.
LEMMA DeliverySteps ==
  ASSUME IInv, (\E e \in Events : Handle(e)) \/ Awaited
  PROVE  IInv'
<1> USE Constants
<1>1. ASSUME NEW todo \in SUBSET Events, NEW got \in SUBSET Events, NEW wait \in BOOLEAN,
             run.todo \subseteq todo \cup got, received' = received \cup got,
             run.at = "deliver", life # "down",
             run' = [run EXCEPT !.todo = todo, !.awaiting = wait],
             UNCHANGED <<clock, life, cfg, mark, saved, seen, request, since0, beyond, used>>
      PROVE  IInv'
  <2>1. RunType' /\ run'.mode = run.mode /\ run'.bar = run.bar /\ run'.since = run.since
        /\ run'.awaiting = wait /\ run'.at = "deliver" /\ run'.todo = todo
    BY <1>1 DEF IInv, RunType
  <2>2. RunInv'
    BY <1>1, <2>1 DEF IInv, RunInv, clock
  <2>3. RequestTypes' /\ (asked <= bar)' /\ LiveKept'
    BY <1>1, <2>1, PhaseKeeps DEF clock
  <2>4. RestTypes' /\ DownIsIdle' /\ MarkTypes' /\ SavedBehind'
    BY <1>1 DEF IInv, RestTypes, clock, DownIsIdle, MarkTypes, SavedBehind
  <2>5. ExitsRead'
    BY <1>1 DEF IInv, ExitsRead
  <2>6. QED
    BY <2>1, <2>2, <2>3, <2>4, <2>5 DEF IInv
<1>2. ASSUME NEW e \in Events, Handle(e) PROVE IInv'
  <2>1. /\ run.at = "deliver" /\ life # "down" /\ received' = received \cup {e}
        /\ UNCHANGED <<clock, life, cfg, mark, saved, seen, request, since0, beyond, used>>
    BY <1>2 DEF Handle, Sync
  <2>2. PICK wait \in BOOLEAN : run' = [run EXCEPT !.todo = run.todo \ {e}, !.awaiting = wait]
    BY <1>2 DEF Handle
  <2>3. /\ run.todo \ {e} \in SUBSET Events /\ {e} \in SUBSET Events
        /\ run.todo \subseteq (run.todo \ {e}) \cup {e}
    BY <1>2 DEF IInv, RunType
  <2>4. QED
    BY <1>1, <2>1, <2>2, <2>3
<1>3. CASE Awaited
  <2>1. /\ life # "down" /\ run.awaiting /\ run' = [run EXCEPT !.awaiting = FALSE]
        /\ UNCHANGED <<clock, life, cfg, mark, saved, seen, request, received,
                       since0, beyond, used>>
    BY <1>3 DEF Awaited
  <2>2. run.at = "deliver" /\ run.todo \in SUBSET Events
    BY <2>1 DEF IInv, RunInv, RunType
  <2>3. run' = [run EXCEPT !.todo = run.todo, !.awaiting = FALSE] /\ received' = received \cup {}
        /\ {} \in SUBSET Events /\ run.todo \subseteq run.todo \cup {} /\ FALSE \in BOOLEAN
    BY <2>1 DEF IInv, RunType
  <2>4. QED
    BY <1>1, <2>1, <2>2, <2>3
<1>4. QED
  BY <1>2, <1>3

\* A failed delivery keeps what it received and leaves the watermark.
LEMMA FailureStep ==
  ASSUME IInv, HandleFails
  PROVE  IInv'
<1> USE Constants
<1>1. /\ End /\ life # "down" /\ used' \in 0..MaxIncidents
      /\ UNCHANGED <<clock, life, cfg, mark, saved, seen, since0, beyond>>
  BY DEF HandleFails, Spend, IInv, RestTypes
<1>2. received \subseteq received' /\ received' \subseteq Events
  BY DEF HandleFails, IInv, RunType, MarkTypes
<1>3. RunType' /\ RequestTypes' /\ RunInv' /\ (asked <= bar)' /\ LiveKept'
  BY <1>1, EndKeeps DEF clock
<1>4. RestTypes' /\ DownIsIdle' /\ MarkTypes' /\ SavedBehind'
  BY <1>1, <1>2 DEF IInv, RestTypes, clock, DownIsIdle, MarkTypes, SavedBehind
<1>5. ExitsRead'
  BY <1>1, <1>2 DEF IInv, ExitsRead
<1>6. QED
  BY <1>3, <1>4, <1>5 DEF IInv

\* The watermark moves over bars whose exits the run has received; those
\* before its window are beyond the cap.
LEMMA AdvanceStep ==
  ASSUME IInv, WindowInv, Advance
  PROVE  IInv'
<1> USE Constants
<1>1. /\ End /\ life # "down" /\ run.at = "deliver" /\ run.todo = {}
      /\ mark' = Larger(mark, run.bar)
      /\ since0' = IF mark = 0 THEN run.bar ELSE since0
      /\ beyond' = IF mark = 0 THEN beyond
                   ELSE beyond \cup {b \in (mark + 1)..run.bar : b + Cap < run.bar}
      /\ saved' = mark' \/ saved' = saved
      /\ used' \in 0..MaxIncidents
      /\ UNCHANGED <<clock, life, cfg, seen, received>>
  BY DEF Advance, Sync, Spend, IInv, RestTypes
<1>2. /\ mark \in 0..MaxBar /\ saved \in 0..MaxBar /\ saved <= mark
      /\ run.bar \in 1..MaxBar /\ run.since \in 1..run.bar
      /\ \A b \in run.since..run.bar : <<"exit", b>> \in received
  BY <1>1 DEF IInv, RunInv, RunType, MarkTypes, SavedBehind
<1>3. mark' \in 0..MaxBar /\ mark' = IF mark > run.bar THEN mark ELSE run.bar
  BY <1>1, <1>2 DEF Larger
<1>4. RunType' /\ RequestTypes' /\ RunInv' /\ (asked <= bar)' /\ LiveKept'
  BY <1>1, EndKeeps DEF clock
<1>5. RestTypes' /\ DownIsIdle'
  BY <1>1 DEF IInv, RestTypes, clock, DownIsIdle
<1>6. MarkTypes' /\ SavedBehind'
  <2>1. (mark + 1)..run.bar \subseteq Bars
    BY <1>2 DEF Bars
  <2>2. MarkTypes'
    BY <1>1, <1>2, <1>3, <2>1 DEF IInv, MarkTypes
  <2>3. SavedBehind'
    BY <1>1, <1>2, <1>3 DEF SavedBehind
  <2>4. QED
    BY <2>2, <2>3
<1>7. ExitsRead'
  <2> SUFFICES ASSUME NEW b \in Bars, since0' # 0, since0' <= b, b <= mark'
               PROVE  <<"exit", b>> \in received \/ b \in beyond'
    BY <1>1 DEF ExitsRead
  <2> b \in Nat
    BY DEF Bars
  <2>1. CASE mark = 0
    <3>1. b = run.bar
      BY <1>1, <1>2, <1>3, <2>1
    <3>2. QED
      BY <1>2, <3>1
  <2>2. CASE mark # 0 /\ b <= mark
    BY <1>1, <2>2 DEF IInv, ExitsRead
  <2>3. CASE mark # 0 /\ mark < b
    <3>1. b <= run.bar
      BY <1>2, <1>3, <2>3
    <3>2. CASE run.since <= b
      BY <1>2, <3>1, <3>2
    <3>3. CASE b < run.since
      <4>1. b + Cap < run.bar
        BY <1>1, <2>3, <3>3 DEF WindowInv
      <4>2. QED
        BY <1>1, <1>2, <2>3, <3>1, <4>1
    <3>4. QED
      BY <1>2, <3>2, <3>3
  <2>4. QED
    BY <1>2, <2>1, <2>2, <2>3
<1>8. QED
  BY <1>4, <1>5, <1>6, <1>7 DEF IInv

\* A run that begins reads back from the watermark, which moves only when a run
\* ends; a dead process has no run.
LEMMA JobWindow ==
  ASSUME IInv, NEW m \in 0..MaxBar, NEW mode \in Modes
  PROVE  LET j == Job(mode, m) IN
           m # 0 => \A b \in Bars : m < b /\ b < j.since => b + Cap < j.bar
<1>1. bar \in Bars
  BY DEF IInv, RestTypes
<1>2. Job(mode, m).since = Since(m, bar) /\ Job(mode, m).bar = bar
  BY DEF Job
<1>3. QED
  BY <1>1, <1>2, SinceReaches

LEMMA WindowStep ==
  ASSUME IInv, WindowInv, [Next]_vars
  PROVE  WindowInv'
<1>1. ASSUME UNCHANGED mark, run'.since = run.since, run'.bar = run.bar, run.at # "none",
             life' # "down"
      PROVE  WindowInv'
  BY <1>1 DEF WindowInv
<1>2. ASSUME run' = NoRun PROVE WindowInv'
  BY <1>2 DEF WindowInv, NoRun
<1>3. ASSUME UNCHANGED <<mark, run, life>> PROVE WindowInv'
  BY <1>3 DEF WindowInv
<1>4. ASSUME NEW m \in 0..MaxBar, NEW mode \in Modes, run' = Job(mode, m), mark' = m, life' # "down"
      PROVE  WindowInv'
  BY <1>4, JobWindow DEF WindowInv
<1>5. ASSUME NEW mode \in Modes, RunOnce(mode), UNCHANGED <<mark, life>>, life # "down"
      PROVE  WindowInv'
  BY <1>3, <1>4, <1>5 DEF RunOnce, IInv, MarkTypes
<1>6. CASE BarCloses \/ Configure \/ Stop
  BY <1>6, <1>3 DEF BarCloses, Configure, Stop, Turn, WindowInv
<1>7. CASE BarAnnounced
  BY <1>7, <1>3, <1>5 DEF BarAnnounced, Turn, Modes
<1>8. CASE Kick
  BY <1>8, <1>5 DEF Kick, Turn, IInv, RequestTypes
<1>9. ASSUME NEW mode \in {{"backtest"}, {"backtest", "live"}}, ExtraRun(mode) PROVE WindowInv'
  BY <1>9, <1>5 DEF ExtraRun, Turn, Modes
<1>10. CASE Exit \/ Crash \/ JobFails \/ GiveUp \/ HandleFails \/ Advance
  BY <1>10, <1>2 DEF Exit, Crash, Die, JobFails, GiveUp, HandleFails, Advance, End
<1>11. CASE Restart
  <2>1. life = "down" /\ life' = "up" /\ mark' = saved /\ saved \in 0..MaxBar
    BY <1>11 DEF Restart, IInv, MarkTypes
  <2>2. CASE UNCHANGED run
    BY <2>1, <2>2 DEF WindowInv
  <2>3. CASE run' = Job({"backtest", "live"}, saved)
    BY <2>1, <2>3, <1>4 DEF Modes
  <2>4. QED
    BY <1>11, <2>2, <2>3 DEF Restart
<1>12. CASE MemoryShort \/ Retry \/ Awaited
  <2>1. UNCHANGED mark /\ life' = life /\ life # "down" /\ run.at # "none"
    BY <1>12 DEF MemoryShort, Retry, Awaited, Turn, IInv, RunInv
  <2>2. run'.since = run.since /\ run'.bar = run.bar
    BY <1>12 DEF MemoryShort, Retry, Awaited, IInv, RunType
  <2>3. QED
    BY <2>1, <2>2, <1>1
<1>13. CASE JobAnswers
  <2>1. UNCHANGED mark /\ life' = life /\ life # "down" /\ run.at # "none"
    BY <1>13 DEF JobAnswers, Turn, Working
  <2>2. CASE End
    BY <2>2, <1>2 DEF End
  <2>3. ASSUME NEW events, Deliver(events) PROVE WindowInv'
    <3>1. run'.since = run.since /\ run'.bar = run.bar
      BY <2>3 DEF Deliver, IInv, RunType
    <3>2. QED
      BY <2>1, <3>1, <1>1
  <2>4. QED
    BY <1>13, <2>2, <2>3 DEF JobAnswers
<1>14. ASSUME NEW e \in Events, Handle(e) PROVE WindowInv'
  <2>1. UNCHANGED mark /\ life' = life /\ life # "down" /\ run.at # "none"
    BY <1>14 DEF Handle, Sync
  <2>2. run'.since = run.since /\ run'.bar = run.bar
    BY <1>14 DEF Handle, IInv, RunType
  <2>3. QED
    BY <2>1, <2>2, <1>1
<1>15. CASE UNCHANGED vars
  BY <1>15, <1>3 DEF vars
<1>16. QED
  BY <1>6, <1>7, <1>8, <1>9, <1>10, <1>11, <1>12, <1>13, <1>14, <1>15 DEF Next

LEMMA NextInvariant == IInv /\ WindowInv /\ [Next]_vars => IInv' /\ WindowInv'
<1> SUFFICES ASSUME IInv, WindowInv, [Next]_vars PROVE IInv' /\ WindowInv'
  OBVIOUS
<1>1. CASE UNCHANGED vars
  BY <1>1, WindowStep DEF vars, clock, request, IInv, DownIsIdle, SavedBehind, RunType, MarkTypes,
     RequestTypes, RestTypes, RunInv, ExitsRead, LiveKept
<1>2. CASE Next
  <2>1. IInv'
    BY <1>2, RequestSteps, WorldSteps, JobSteps, AnswerStep, DeliverySteps, FailureStep, AdvanceStep
       DEF Next
  <2>2. QED
    BY <2>1, WindowStep
<1>3. QED
  BY <1>1, <1>2

THEOREM Invariance == Spec => [](IInv /\ WindowInv)
<1>1. Init => WindowInv
  BY DEF Init, WindowInv, NoRun
<1>2. QED
  BY <1>1, InitInvariant, NextInvariant, PTL DEF Spec

\* Every variable stays in its range, for any number of bars and incidents.
THEOREM TypeInvariant == Spec => []TypeOK
<1>1. IInv => TypeOK
  BY DEF IInv, TypeOK, RunType, MarkTypes, RequestTypes, RestTypes
<1>2. QED
  BY <1>1, Invariance, PTL

\* No deferral, skipped bar, stale run, failure or crash loses an exit the
\* watermark has passed, whatever the catch-up cap.
THEOREM ExitsReadHolds == Spec => []ExitsRead
<1>1. IInv => ExitsRead
  BY DEF IInv
<1>2. QED
  BY <1>1, Invariance, PTL

\* A live run that was requested is never lost behind another run.
THEOREM LiveKeptHolds == Spec => []LiveKept
<1>1. IInv => LiveKept
  BY DEF IInv
<1>2. QED
  BY <1>1, Invariance, PTL

\* Only a delivery receives; in its turn, an entry finds no exit waiting.
LEMMA TurnOrder ==
  ASSUME IInv, [Next]_vars, NEW e \in received' \ received, e[1] # "exit",
         NEW b \in run.since..run.bar
  PROVE  <<"exit", b>> \in received
<1>1. /\ run.at = "deliver" /\ InTurn(e)
  <2>1. CASE UNCHANGED received
    BY <2>1
  <2>2. ASSUME NEW f \in Events, Handle(f) PROVE run.at = "deliver" /\ InTurn(e)
    BY <2>2 DEF Handle, Sync
  <2>3. CASE HandleFails
    BY <2>3 DEF HandleFails
  <2>4. QED
    BY <2>1, <2>2, <2>3 DEF Next, vars, BarCloses, BarAnnounced, Kick, ExtraRun, Configure, Stop,
       Exit, Crash, Die, Restart, JobFails, MemoryShort, Retry, GiveUp, JobAnswers, Awaited, Advance
<1>2. ~\E f \in run.todo : f[1] = "exit"
  BY <1>1 DEF InTurn
<1>3. <<"exit", b>> \in received \cup run.todo
  BY <1>1 DEF IInv, RunInv
<1>4. QED
  BY <1>2, <1>3

\* A reversal closes before it opens: exits are received before entries.
THEOREM ExitsFirstHolds == Spec => ExitsFirst
<1> DEFINE Ordered == \A e \in received' \ received : e[1] # "exit" =>
                        \A b \in run.since..run.bar : <<"exit", b>> \in received
<1>1. IInv /\ [Next]_vars => [Ordered]_vars
  BY TurnOrder
<1>2. QED
  BY <1>1, Invariance, PTL DEF Spec, ExitsFirst

-----------------------------------------------------------------------------
(* The incubator decides which cells there are at all: the engine follows   *)
(* the configuration it writes. Its variables are its own; its kills are    *)
(* counted apart from the incidents of a cell.                              *)
CONSTANTS PromoteAuto, MaxTrouble
VARIABLES stage, bot, known, night, due, kills

Inc == INSTANCE Incubator WITH used <- kills

\* what the incubator's module assumes of its bounds
BoundsAssumed == PromoteAuto \in BOOLEAN /\ MaxTrouble \in Nat

\* A plan with one move in it is a plan.
LEMMA MoveIsPlan ==
  ASSUME NEW p \in Pairs, NEW to \in Inc!Stages
  PROVE  Inc!Move(p, to) \in Inc!Plans
BY DEF Inc!Move, Inc!Nothing, Inc!Plans

LEMMA NothingIsPlan == Inc!Nothing \in Inc!Plans
BY DEF Inc!Nothing, Inc!Plans

\* What a synchronisation makes of the rows, and what it plans to write.
LEMMA SyncTypes ==
  ASSUME Inc!TypeOK
  PROVE  Inc!SyncPlan \in Inc!Plans /\ Inc!SyncLive \in [Pairs -> Inc!Stages]
BY DEF Inc!TypeOK, Inc!SyncPlan, Inc!SyncLive, Inc!Synced, Inc!Plans, Inc!Stages

\* The setting setScanner is given is one of the scanner's.
LEMMA SettingTypes ==
  ASSUME Inc!TypeOK, NEW s \in Scanners, NEW v \in [on : BOOLEAN, pairs : SUBSET Pairs],
         Inc!SetScanner(s, v)
  PROVE  config' \in [Scanners -> [on : BOOLEAN, pairs : SUBSET Pairs]]
BY DEF Inc!TypeOK, Inc!SetScanner

LEMMA ApproveTypes ==
  ASSUME Inc!TypeOK, NEW p \in Pairs,
         NEW given \in [Scanners -> [on : BOOLEAN, pairs : SUBSET Pairs]],
         Inc!Approve(p, given)
  PROVE  config' \in [Scanners -> [on : BOOLEAN, pairs : SUBSET Pairs]]
<1>1. ScannerOf[p] \in Scanners
  BY ScannerAssumption
<1>2. [on |-> TRUE, pairs |-> given[ScannerOf[p]].pairs \cup {p}]
        \in [on : BOOLEAN, pairs : SUBSET Pairs]
  BY <1>1
<1> QED
  BY <1>1, <1>2, SettingTypes DEF Inc!Approve

LEMMA WithoutTypes ==
  ASSUME NEW p \in Pairs, NEW v \in [on : BOOLEAN, pairs : SUBSET Pairs]
  PROVE  Inc!Without(v, p) \in [on : BOOLEAN, pairs : SUBSET Pairs]
BY DEF Inc!Without

-----------------------------------------------------------------------------
\* Every variable keeps its type: the configuration stays one setting per
\* scanner, the rows keep one of the seven stages, and plans are plans.
THEOREM IncubatorTypes ==
  ASSUME BoundsAssumed
  PROVE  Inc!Spec => []Inc!TypeOK
<1>1. Inc!Init => Inc!TypeOK
  <2> SUFFICES ASSUME Inc!Init PROVE Inc!TypeOK
    OBVIOUS
  <2>1. Inc!NoConfig \in [Scanners -> [on : BOOLEAN, pairs : SUBSET Pairs]]
    BY DEF Inc!NoConfig
  <2>2. stage \in [Pairs -> Inc!Stages]
    BY DEF Inc!Init, Inc!Stages
  <2>3. Inc!Idle \in [at : {"down", "idle", "deciding", "hunting", "judging", "proposing", "promoting"},
                  plan : Inc!Plans, todo : SUBSET Pairs]
    BY NothingIsPlan DEF Inc!Idle
  <2>4. Inc!Off \in [at : {"off", "screening", "judging"}, plan : Inc!Plans]
    BY NothingIsPlan DEF Inc!Off
  <2>5. due \in BOOLEAN
    BY DEF Inc!Init
  <2>6. kills \in 0..MaxTrouble
    BY DEF BoundsAssumed, Inc!Init
  <2>7. config = Inc!NoConfig /\ known = Inc!NoConfig /\ bot = Inc!Idle /\ night = Inc!Off
    BY DEF Inc!Init
  <2> QED
    BY <2>1, <2>2, <2>3, <2>4, <2>5, <2>6, <2>7 DEF Inc!TypeOK
<1>2. Inc!TypeOK /\ [Inc!Next]_(Inc!vars) => Inc!TypeOK'
  <2> SUFFICES ASSUME Inc!TypeOK, [Inc!Next]_(Inc!vars) PROVE Inc!TypeOK'
    OBVIOUS
  <2> USE DEF Inc!TypeOK
  <2>1. CASE Inc!BotStep
    <3>1. CASE Inc!Judge
      BY <3>1 DEF Inc!Judge, Inc!Judgements
    <3>2. CASE Inc!StartPromotions
      BY <3>2 DEF Inc!StartPromotions
    <3>3. CASE Inc!Finish
      BY <3>3, NothingIsPlan DEF Inc!Finish, Inc!Idle, Inc!NoConfig
    <3>4. ASSUME NEW p \in Pairs, Inc!WriteRow(p) PROVE Inc!TypeOK'
      <4>1. bot.plan[p] \in Inc!Stages
        BY <3>4 DEF Inc!WriteRow, Inc!Plans
      <4>2. [bot.plan EXCEPT ![p] = "keep"] \in Inc!Plans
        BY DEF Inc!Plans
      <4> QED
        BY <3>4, <4>1, <4>2 DEF Inc!WriteRow
    <3>5. ASSUME NEW p \in Pairs, Inc!AutoPromote(p) PROVE Inc!TypeOK'
      <4>1. config' \in [Scanners -> [on : BOOLEAN, pairs : SUBSET Pairs]]
        BY <3>5, ApproveTypes DEF Inc!AutoPromote
      <4>2. Inc!Move(p, "live") \in Inc!Plans
        BY MoveIsPlan DEF Inc!Stages
      <4> QED
        BY <3>5, <4>1, <4>2 DEF Inc!AutoPromote
    <3> QED
      BY <2>1, <3>1, <3>2, <3>3, <3>4, <3>5 DEF Inc!BotStep
  <2>2. ASSUME NEW p \in Pairs, Inc!Promote(p) PROVE Inc!TypeOK'
    <3>1. config' \in [Scanners -> [on : BOOLEAN, pairs : SUBSET Pairs]]
      BY <2>2, ApproveTypes DEF Inc!Promote
    <3>2. Inc!Move(p, "live") \in Inc!Plans
      BY MoveIsPlan DEF Inc!Stages
    <3> QED
      BY <2>2, <3>1, <3>2 DEF Inc!Promote
  <2>3. ASSUME NEW p \in Pairs, Inc!Demote(p) PROVE Inc!TypeOK'
    <3>1. ScannerOf[p] \in Scanners
      BY ScannerAssumption
    <3>2. Inc!Without(config[ScannerOf[p]], p) \in [on : BOOLEAN, pairs : SUBSET Pairs]
      BY <3>1, WithoutTypes
    <3>3. config' \in [Scanners -> [on : BOOLEAN, pairs : SUBSET Pairs]]
      BY <2>3, <3>1, <3>2, SettingTypes DEF Inc!Demote
    <3>4. Inc!Move(p, "shadow") \in Inc!Plans
      BY MoveIsPlan DEF Inc!Stages
    <3> QED
      BY <2>3, <3>3, <3>4 DEF Inc!Demote
  <2>4. ASSUME NEW p \in Pairs, Inc!Reject(p) PROVE Inc!TypeOK'
    BY <2>4 DEF Inc!Reject, Inc!Stages
  <2>5. CASE Inc!Hunt
    BY <2>5, SyncTypes DEF Inc!Hunt
  <2>6. CASE Inc!Admit
    BY <2>6 DEF Inc!Admit, Inc!Admissions, Inc!Judgements
  <2>7. ASSUME NEW s \in Scanners, Inc!Configure(s) PROVE Inc!TypeOK'
    <3>1. PICK on \in BOOLEAN, own \in SUBSET Inc!PairsOf(s) :
            Inc!SetScanner(s, [on |-> on, pairs |-> own])
      BY <2>7 DEF Inc!Configure
    <3>2. [on |-> on, pairs |-> own] \in [on : BOOLEAN, pairs : SUBSET Pairs]
      BY DEF Inc!PairsOf
    <3>3. config' \in [Scanners -> [on : BOOLEAN, pairs : SUBSET Pairs]]
      BY <3>1, <3>2, SettingTypes
    <3> QED
      BY <2>7, <3>3 DEF Inc!Configure
  <2>8. ASSUME NEW old \in Pairs, NEW next \in Pairs, Inc!Rotate(old, next) PROVE Inc!TypeOK'
    BY <2>8 DEF Inc!Rotate, Inc!Stages
  <2>9. CASE Inc!NightStarts
    BY <2>9, SyncTypes DEF Inc!NightStarts
  <2>10. CASE Inc!NightEnds
    BY <2>10, NothingIsPlan DEF Inc!NightEnds, Inc!Off
  <2>11. ASSUME NEW p \in Pairs, Inc!NightWrites(p) PROVE Inc!TypeOK'
    <3>1. night.plan[p] \in Inc!Stages
      BY <2>11 DEF Inc!NightWrites, Inc!Plans
    <3>2. [night.plan EXCEPT ![p] = "keep"] \in Inc!Plans
      BY DEF Inc!Plans
    <3> QED
      BY <2>11, <3>1, <3>2 DEF Inc!NightWrites
  <2>12. CASE Inc!NightJudges
    BY <2>12 DEF Inc!NightJudges, Inc!Judgements
  <2>13. CASE Inc!NightKilled
    BY <2>13, NothingIsPlan DEF BoundsAssumed, Inc!NightKilled, Inc!Off
  <2>14. ASSUME NEW p \in Pairs, Inc!Screen(p) PROVE Inc!TypeOK'
    <3>1. Inc!Move(p, "candidate") \in Inc!Plans
      BY MoveIsPlan DEF Inc!Stages
    <3> QED
      BY <2>14, <3>1 DEF Inc!Screen
  <2>15. CASE Inc!Crash
    BY <2>15, NothingIsPlan DEF BoundsAssumed, Inc!Crash, Inc!Down, Inc!Idle, Inc!NoConfig
  <2>16. CASE Inc!Start
    BY <2>16, SyncTypes, NothingIsPlan DEF Inc!Start, Inc!Idle
  <2>17. CASE UNCHANGED Inc!vars
    BY <2>17 DEF Inc!vars
  <2> QED
    BY <2>1, <2>2, <2>3, <2>4, <2>5, <2>6, <2>7, <2>8, <2>9, <2>10, <2>11, <2>12,
       <2>13, <2>14, <2>15, <2>16, <2>17 DEF Inc!Next, Inc!Decision, Inc!NightStep
<1> QED
  BY <1>1, <1>2, PTL DEF Inc!Spec

-----------------------------------------------------------------------------
(* A decision's first write and its second, and the hunt's old list.        *)

Setting == [on : BOOLEAN, pairs : SUBSET Pairs]

\* Every setting of the list the promotions were handed is still in force, with
\* no pair removed.
NoneTaken ==
  bot.at = "promoting" =>
    \A s \in Scanners : /\ known[s].on => config[s].on
                        /\ known[s].pairs \subseteq config[s].pairs

RowsFollow ==
  bot.at \in {"deciding", "promoting"} =>
    \A p \in Pairs : /\ bot.plan[p] = "live" => p \in Inc!Fleet(config)
                     /\ bot.plan[p] = "shadow" => p \notin Inc!Fleet(config)

DInv == Inc!TypeOK /\ NoneTaken /\ RowsFollow

LEMMA InFleet ==
  ASSUME NEW c, NEW p
  PROVE  p \in Inc!Fleet(c) <=> /\ p \in Pairs /\ c[ScannerOf[p]].on
                                /\ p \in c[ScannerOf[p]].pairs
  BY DEF Inc!Fleet

\* What an approval writes: the scanner is on, its list is the old one and the pair.
LEMMA ApproveWrites ==
  ASSUME Inc!TypeOK, NEW p \in Pairs, NEW given \in [Scanners -> Setting], Inc!Approve(p, given)
  PROVE  /\ p \in Inc!Fleet(config')
         /\ \A s \in Scanners :
              config'[s] = IF s = ScannerOf[p]
                           THEN [on |-> TRUE, pairs |-> given[s].pairs \cup {p}] ELSE config[s]
<1>1. ScannerOf[p] \in Scanners
  BY ScannerAssumption
<1>2. config' = [config EXCEPT ![ScannerOf[p]] =
                   [on |-> TRUE, pairs |-> given[ScannerOf[p]].pairs \cup {p}]]
  BY DEF Inc!Approve, Inc!SetScanner
<1>3. \A s \in Scanners :
        config'[s] = IF s = ScannerOf[p]
                     THEN [on |-> TRUE, pairs |-> given[s].pairs \cup {p}] ELSE config[s]
  BY <1>1, <1>2 DEF Inc!TypeOK
<1>4. config'[ScannerOf[p]] = [on |-> TRUE, pairs |-> given[ScannerOf[p]].pairs \cup {p}]
  BY <1>1, <1>3
<1>5. config'[ScannerOf[p]].on /\ p \in config'[ScannerOf[p]].pairs
  BY <1>4
<1>6. QED
  BY <1>3, <1>5, InFleet

LEMMA PlanOfMove ==
  ASSUME NEW p \in Pairs, NEW q \in Pairs, NEW to \in Inc!Stages
  PROVE  Inc!Move(p, to)[q] = IF q = p THEN to ELSE "keep"
  BY DEF Inc!Move, Inc!Nothing

\* A handler that is neither of the two says nothing of its plan.
LEMMA Elsewhere ==
  ASSUME bot'.at \notin {"deciding", "promoting"}
  PROVE  NoneTaken' /\ RowsFollow'
  BY DEF NoneTaken, RowsFollow

LEMMA PromotionSteps ==
  ASSUME DInv, NEW p \in Pairs, Inc!AutoPromote(p) \/ Inc!Promote(p) \/ Inc!Demote(p)
  PROVE  NoneTaken' /\ RowsFollow'
<1> USE DEF DInv
<1>1. CASE Inc!AutoPromote(p)
  <2>1. bot.at = "promoting" /\ bot.plan = Inc!Nothing /\ known' = known
    BY <1>1 DEF Inc!AutoPromote
  <2>2. known \in [Scanners -> Setting] /\ config \in [Scanners -> Setting]
    BY DEF Inc!TypeOK, Setting
  <2>3. CASE Inc!Approve(p, known) /\ bot' = [bot EXCEPT !.todo = @ \ {p}, !.plan = Inc!Move(p, "live")]
    <3>1. /\ p \in Inc!Fleet(config')
          /\ \A s \in Scanners :
               config'[s] = IF s = ScannerOf[p]
                            THEN [on |-> TRUE, pairs |-> known[s].pairs \cup {p}] ELSE config[s]
      BY <2>2, <2>3, ApproveWrites
    <3>2. ASSUME NEW s \in Scanners
          PROVE  (known[s].on => config'[s].on) /\ known[s].pairs \subseteq config'[s].pairs
      <4>1. CASE s = ScannerOf[p]
        <5>1. config'[s] = [on |-> TRUE, pairs |-> known[s].pairs \cup {p}]
          BY <3>1, <4>1
        <5>2. QED
          BY <5>1
      <4>2. CASE s # ScannerOf[p]
        <5>1. config'[s] = config[s]
          BY <3>1, <4>2
        <5>2. (known[s].on => config[s].on) /\ known[s].pairs \subseteq config[s].pairs
          BY <2>1 DEF NoneTaken
        <5>3. QED
          BY <5>1, <5>2
      <4>3. QED
        BY <4>1, <4>2
    <3>6. NoneTaken'
      BY <2>1, <3>2 DEF NoneTaken
    <3>3. bot'.plan = Inc!Move(p, "live")
      BY <2>3 DEF Inc!TypeOK
    <3>4. RowsFollow'
      BY <3>1, <3>3, PlanOfMove DEF RowsFollow, Inc!Stages
    <3>5. QED
      BY <3>4, <3>6
  <2>4. CASE bot' = [bot EXCEPT !.todo = @ \ {p}] /\ UNCHANGED config
    <3>1. bot'.at = bot.at /\ bot'.plan = bot.plan
      BY <2>4 DEF Inc!TypeOK
    <3>2. QED
      BY <2>1, <2>4, <3>1 DEF NoneTaken, RowsFollow
  <2>5. QED
    BY <1>1, <2>3, <2>4 DEF Inc!AutoPromote
<1>2. CASE Inc!Promote(p)
  <2>1. /\ Inc!Approve(p, config)
        /\ bot' = [bot EXCEPT !.at = "deciding", !.plan = Inc!Move(p, "live")]
    BY <1>2 DEF Inc!Promote
  <2>2. bot'.at = "deciding" /\ bot'.plan = Inc!Move(p, "live")
    BY <2>1 DEF Inc!TypeOK
  <2>3. p \in Inc!Fleet(config')
    BY <2>1, ApproveWrites DEF Inc!TypeOK, Setting
  <2>4. QED
    BY <2>2, <2>3, PlanOfMove DEF NoneTaken, RowsFollow, Inc!Stages
<1>3. CASE Inc!Demote(p)
  <2>1. /\ config' = [config EXCEPT ![ScannerOf[p]] = Inc!Without(config[ScannerOf[p]], p)]
        /\ bot' = [bot EXCEPT !.at = "deciding", !.plan = Inc!Move(p, "shadow")]
    BY <1>3 DEF Inc!Demote, Inc!SetScanner
  <2>2. bot'.at = "deciding" /\ bot'.plan = Inc!Move(p, "shadow")
    BY <2>1 DEF Inc!TypeOK
  <2>3. ScannerOf[p] \in Scanners /\ config[ScannerOf[p]] \in Setting
    BY ScannerAssumption DEF Inc!TypeOK, Setting
  <2>4. config'[ScannerOf[p]] = Inc!Without(config[ScannerOf[p]], p)
    BY <2>1, <2>3 DEF Inc!TypeOK
  <2>5. LET v == Inc!Without(config[ScannerOf[p]], p) IN ~v.on \/ p \notin v.pairs
    BY <2>3 DEF Inc!Without, Setting
  <2>6. p \notin Inc!Fleet(config')
    BY <2>4, <2>5, InFleet
  <2>7. QED
    BY <2>2, <2>6, PlanOfMove DEF NoneTaken, RowsFollow, Inc!Stages
<1>4. QED
  BY <1>1, <1>2, <1>3

\* Writing a row, and every step that touches neither record of a decision.
LEMMA OtherBotSteps ==
  ASSUME DInv, Inc!Judge \/ Inc!StartPromotions \/ Inc!Finish \/ (\E p \in Pairs : Inc!WriteRow(p))
  PROVE  NoneTaken' /\ RowsFollow'
<1> USE DEF DInv
<1>1. CASE Inc!Judge
  <2>1. bot'.at \in {"judging", "proposing"}
    BY <1>1 DEF Inc!Judge, Inc!TypeOK
  <2>2. QED
    BY <2>1, Elsewhere
<1>2. CASE Inc!StartPromotions
  <2>1. bot'.plan = Inc!Nothing /\ known' = config /\ config' = config
    BY <1>2 DEF Inc!StartPromotions, Inc!TypeOK
  <2>2. QED
    BY <2>1 DEF NoneTaken, RowsFollow, Inc!Nothing
<1>3. CASE Inc!Finish
  BY <1>3, Elsewhere DEF Inc!Finish, Inc!Idle
<1>4. ASSUME NEW p \in Pairs, Inc!WriteRow(p) PROVE NoneTaken' /\ RowsFollow'
  <2>1. /\ bot' = [bot EXCEPT !.plan[p] = "keep"]
        /\ UNCHANGED <<config, known>>
    BY <1>4 DEF Inc!WriteRow
  <2>2. bot'.at = bot.at /\ bot'.plan = [bot.plan EXCEPT ![p] = "keep"]
    BY <2>1 DEF Inc!TypeOK
  <2>3. \A q \in Pairs : bot'.plan[q] = "keep" \/ bot'.plan[q] = bot.plan[q]
    BY <2>2 DEF Inc!TypeOK, Inc!Plans
  <2>4. QED
    BY <2>1, <2>2, <2>3 DEF NoneTaken, RowsFollow
<1>5. QED
  BY <1>1, <1>2, <1>3, <1>4

LEMMA DecisionStep ==
  ASSUME DInv, [Inc!Next]_(Inc!vars)
  PROVE  NoneTaken' /\ RowsFollow'
<1> USE DEF DInv
<1>1. ASSUME UNCHANGED <<config, bot, known>> PROVE NoneTaken' /\ RowsFollow'
  BY <1>1 DEF NoneTaken, RowsFollow
<1>2. CASE Inc!BotStep \/ Inc!Decision
  BY <1>2, <1>1, PromotionSteps, OtherBotSteps DEF Inc!BotStep, Inc!Decision, Inc!Reject
<1>3. CASE Inc!Hunt \/ Inc!Admit
  <2>1. bot'.at \in {"hunting", "judging"}
    BY <1>3 DEF Inc!Hunt, Inc!Admit, Inc!TypeOK
  <2>2. QED
    BY <2>1, Elsewhere
<1>4. ASSUME NEW s \in Scanners, Inc!Configure(s) PROVE NoneTaken' /\ RowsFollow'
  BY <1>4, Elsewhere DEF Inc!Configure
<1>5. CASE Inc!Crash \/ Inc!Start
  BY <1>5, Elsewhere DEF Inc!Crash, Inc!Start, Inc!Down, Inc!Idle
<1>6. CASE \/ \E old, next \in Pairs : Inc!Rotate(old, next)
           \/ Inc!NightStarts \/ Inc!NightStep \/ Inc!NightJudges \/ Inc!NightKilled
           \/ \E p \in Pairs : Inc!Screen(p)
           \/ UNCHANGED Inc!vars
  BY <1>6, <1>1 DEF Inc!Rotate, Inc!NightStarts, Inc!NightStep, Inc!NightEnds, Inc!NightWrites,
     Inc!NightJudges, Inc!NightKilled, Inc!Screen, Inc!vars
<1>7. QED
  BY <1>2, <1>3, <1>4, <1>5, <1>6 DEF Inc!Next

\* A decision's row tells what its first write made of the pair, and no promotion
\* of a hunt takes a cell that traded when it began: for every set of pairs and
\* scanners, any cap, decisions by hand or by the hunt, and kills anywhere.
THEOREM DecisionStandsHolds ==
  ASSUME BoundsAssumed
  PROVE  Inc!Spec => []Inc!DecisionStands
<1>1. Inc!Init => NoneTaken /\ RowsFollow
  BY DEF Inc!Init, Inc!Idle, NoneTaken, RowsFollow
<1>2. Inc!TypeOK /\ NoneTaken /\ RowsFollow /\ [Inc!Next]_(Inc!vars) => NoneTaken' /\ RowsFollow'
  BY DecisionStep DEF DInv
<1>3. Inc!TypeOK /\ NoneTaken /\ RowsFollow => Inc!DecisionStands
  BY ScannerAssumption, InFleet DEF NoneTaken, RowsFollow, Inc!DecisionStands
<1>4. QED
  BY <1>1, <1>2, <1>3, IncubatorTypes, PTL DEF Inc!Spec
=============================================================================
