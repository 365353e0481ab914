------------------------------- MODULE BarFeed -------------------------------
(***************************************************************************)
(* One candle series between the exchange and its subscribers.              *)
(*   delta/ws.ts 85-99, 153-205   heartbeat, open, close, reconnect         *)
(*   data/candleStore.ts          merge, announce, resync, gaps, load       *)
(*   app.ts 219-221               connected -> resyncAll                    *)
(*                                                                         *)
(* A bar is numbered by its period; its content is the number of trades it  *)
(* has seen, so a smaller number is a fragment.  A websocket candle carries *)
(* the whole bar so far and, while the link is up, is delivered at once     *)
(* (the last prints of a period land within CLOSE_GRACE_MS).                *)
(***************************************************************************)
EXTENDS Naturals, FiniteSetsExt

CONSTANTS
  LastBar,      \* bound: the last bar that trades; the clock goes two periods past it
  MaxTrades,    \* bound: trades of one bar
  MaxTotal,     \* bound: trades of all bars
  MaxCuts,      \* bound: interruptions of the link
  MaxFaults     \* bound: REST requests that fail or answer nothing

Bars    == 1..LastBar
Periods == 1..LastBar + 2

ASSUME FeedAssumption ==
  /\ {LastBar, MaxTrades, MaxTotal, MaxCuts, MaxFaults} \subseteq Nat
  /\ LastBar >= 2

VARIABLES
  clock,      \* the bar forming by the local clock
  trades,     \* exchange: trades of each bar (0: it has no candle)
  link,       \* "up", "dead" (connected by its own account) or "down"
  gen,        \* connectionGeneration
  queued,     \* resyncAll still has this series in its queue
  series,     \* at: "loading" (request sent), "answered", "loaded"
  bars,       \* s.bars: version held of each bar (0: not held)
  emitted,    \* lastClosedEmitted
  barrier,    \* recovery.from (0: no recovery pending)
  unfillable,
  repair,     \* the resync in flight (repairSeries)
  waiters,    \* calls of resync that await it
  fill,       \* the gap backfill in flight (s.backfilling): bars wanted
  used,       \* the bounds spent
  late,       \* history: bars that traded unseen after the resync in flight was answered
  unsure,     \* history: bars whose unseen trades no resync was due to fetch
  overrun     \* history: bars the local clock had not ended when the next one traded

exchange == <<clock, trades>>
wire     == <<link, gen, queued>>
store    == <<bars, emitted, barrier, unfillable>>
requests == <<series, repair, waiters, fill>>
history  == <<late, unsure, overrun>>
vars     == <<exchange, wire, store, requests, used, history>>

Nothing   == [b \in Bars |-> 0]
NoRepair  == [at |-> "none", gen |-> 0, from |-> 1, upto |-> 1, touched |-> {}, snap |-> Nothing]
Connected == link # "down"
Loaded    == series.at = "loaded"
Closed(b) == b < clock

\* The bars the exchange may be trading: its period may start before the local
\* one (bound: not the last), and it does not return to an earlier bar.
Forming ==
  {b \in Bars : /\ b = clock \/ b = clock + 1
               /\ \A c \in Bars : c > b => trades[c] = 0}

Newest(held)       == Max({0} \cup {b \in Bars : held[b] # 0})
NewestClosed(held) == Max({0} \cup {b \in Bars : held[b] # 0 /\ Closed(b)})

Init ==
  /\ clock = 1
  /\ trades \in {f \in [Bars -> 0..MaxTrades] : f[1] # 0 /\ \A b \in Bars : b > 1 => f[b] = 0}
  /\ link = "up"
  /\ gen = 0
  /\ queued = FALSE
  /\ series = [at |-> "loading", snap |-> Nothing]
  /\ bars = Nothing
  /\ emitted = 0
  /\ barrier = 0
  /\ unfillable = {}
  /\ repair = NoRepair
  /\ waiters = 0
  /\ fill = {}
  /\ used = [cuts |-> 0, faults |-> 0]
  /\ late = {} /\ unsure = {} /\ overrun = {}

\* The gaps of a repair are settled: its await continues before any timer or message.
Resumes == repair.at = "merged" /\ fill = {}
Turn    == ~Resumes

Spend(what, max) == used[what] < max /\ used' = [used EXCEPT ![what] = @ + 1]

----------------------------------------------------------------------------
(* Announcing and gaps.                                                     *)

\* emitClosed: nothing while down, twice, or behind the recovery barrier.
EmitClosed(b) ==
  emitted' = IF Connected /\ b > emitted /\ barrier' = 0 THEN b ELSE emitted

\* findGaps over the bars held, without those REST could not supply.
Missing(held) ==
  {b \in Bars \ unfillable : held[b] = 0 /\ b < Newest(held) /\ \E c \in 1..b : held[c] # 0}

\* checkGaps: one backfill at a time; the second caller joins the first.
CheckGaps(held) == fill' = IF fill = {} THEN Missing(held) ELSE fill

----------------------------------------------------------------------------
(* The exchange and the websocket.                                          *)

Tick ==
  /\ Turn
  /\ clock < LastBar + 2
  /\ clock' = clock + 1
  /\ UNCHANGED <<trades, wire, store, requests, used, history>>

\* Mutant: only the clock announces.
MutNoFirstCandle(b) == FALSE

\* merge: the first candle of a new bar announces the one before, once the clock agrees.
Announces(b) == Loaded /\ Newest(bars) # 0 /\ b > Newest(bars) /\ Closed(Newest(bars))

\* merge: more than one period between the new bar and the last.
Jumped(b) == Loaded /\ Newest(bars) # 0 /\ b > Newest(bars) + 1

OnWsCandle(b) ==
  /\ bars' = [bars EXCEPT ![b] = trades'[b]]
  /\ repair' = IF repair.at = "none" THEN repair ELSE [repair EXCEPT !.touched = @ \cup {b}]
  /\ IF Jumped(b) THEN CheckGaps(bars') ELSE UNCHANGED fill
  /\ UNCHANGED barrier
  /\ IF Announces(b) THEN EmitClosed(Newest(bars)) ELSE UNCHANGED emitted

\* The answer in flight does not hold this trade, and its generation stays current.
Overtaken(b) ==
  /\ link = "down" /\ repair.at # "none" /\ repair.gen = gen
  /\ repair.at # "sent" \/ b > repair.upto

\* No barrier stands or will be raised for this trade, or REST is not asked for its bar.
Unsecured(b) == b > clock \/ ~Loaded

\* The bound on all trades.
InTotal == MapThenSumSet(LAMBDA b : trades[b], Bars) < MaxTotal

\* A trade that the websocket brings, or that nobody sees.
Trade ==
  /\ Turn /\ InTotal
  /\ \E b \in Forming :
       /\ trades[b] < MaxTrades
       /\ trades' = [trades EXCEPT ![b] = @ + 1]
       /\ IF link = "up"
          THEN OnWsCandle(b) /\ UNCHANGED <<late, unsure>>
          ELSE /\ late' = IF Overtaken(b) THEN late \cup {b} ELSE late
               /\ unsure' = IF Unsecured(b) THEN unsure \cup {b} ELSE unsure
               /\ UNCHANGED <<bars, emitted, barrier, repair, fill>>
       /\ overrun' = IF b > clock THEN overrun \cup {clock} ELSE overrun
  /\ UNCHANGED <<clock, wire, unfillable, series, waiters, used>>

\* Mutant: the ticker is not started.
MutNoTicker == FALSE

\* announceDueCloses: the last bar held, when its period ended.
Due == Connected /\ Loaded /\ fill = {} /\ barrier = 0 /\ Newest(bars) > emitted /\ Closed(Newest(bars))

AnnounceDue ==
  /\ Turn
  /\ Due
  /\ UNCHANGED barrier
  /\ EmitClosed(Newest(bars))
  /\ UNCHANGED <<exchange, wire, bars, unfillable, requests, used, history>>

\* The connection dies without a close: nothing arrives and nothing tells.
Dies ==
  /\ Turn
  /\ link = "up"
  /\ Spend("cuts", MaxCuts)
  /\ link' = "dead"
  /\ UNCHANGED <<exchange, gen, queued, store, requests, history>>

\* Mutant: a second interruption forgets the first bar that was interrupted.
MutLatestFrom == IF Newest(bars) # 0 THEN Newest(bars) ELSE clock

\* The status handler: the first interrupted bar is kept until a repair.
From ==
  IF barrier # 0 THEN barrier ELSE IF Newest(bars) # 0 THEN Newest(bars) ELSE clock

Disconnected ==
  /\ link' = "down"
  /\ gen' = gen + 1
  /\ queued' = FALSE
  /\ barrier' = IF Loaded THEN From ELSE barrier
  /\ UNCHANGED <<exchange, bars, emitted, unfillable, requests, history>>

\* ws.onclose.
Drops == Turn /\ link = "up" /\ Spend("cuts", MaxCuts) /\ Disconnected

\* No heartbeat for 35 s.
HeartbeatLost == Turn /\ link = "dead" /\ Disconnected /\ UNCHANGED used

\* ws.onopen: the subscriptions are sent and the loaded series queued for a resync.
Connect ==
  /\ Turn
  /\ link = "down"
  /\ link' = "up"
  /\ queued' = Loaded
  /\ unsure' = IF Loaded /\ barrier = 0 THEN unsure \cup {b \in Bars : b <= clock} ELSE unsure
  /\ UNCHANGED <<exchange, gen, store, requests, used, late, overrun>>

----------------------------------------------------------------------------
(* Resync: repairSeries and the calls that wait for it.                     *)

\* One period before the anchor; the whole window for an empty series.
Earlier(b) == IF b <= 1 THEN 1 ELSE b - 1

Request(from) ==
  [at |-> "sent", gen |-> gen, upto |-> clock, touched |-> {}, snap |-> Nothing,
   from |-> Earlier(IF from # 0 THEN from ELSE Newest(bars))]

\* resyncAll comes to this series; a resync in flight is awaited.
ResyncTurn ==
  /\ Turn
  /\ queued
  /\ queued' = FALSE
  /\ IF repair.at = "none"
     THEN repair' = Request(barrier) /\ UNCHANGED waiters
     ELSE waiters' = waiters + 1 /\ UNCHANGED repair
  /\ UNCHANGED <<exchange, link, gen, store, series, fill, used, history>>

\* The candles of the window as they are now; the window ends when it was asked for.
RestAnswers ==
  /\ Turn
  /\ repair.at = "sent"
  /\ repair' = [repair EXCEPT !.at = "answered",
                  !.snap = [b \in Bars |-> IF b \in repair.from..repair.upto THEN trades[b] ELSE 0]]
  /\ UNCHANGED <<exchange, wire, store, series, waiters, fill, used, history>>

RestAnswersNothing ==
  /\ Turn
  /\ repair.at = "sent"
  /\ Spend("faults", MaxFaults)
  /\ repair' = [repair EXCEPT !.at = "answered"]
  /\ UNCHANGED <<exchange, wire, store, series, waiters, fill, history>>

\* The request fails; the calls that wait fail with it.
RepairFails ==
  /\ Turn
  /\ repair.at = "sent"
  /\ Spend("faults", MaxFaults)
  /\ repair' = NoRepair
  /\ waiters' = 0
  /\ late' = {}
  /\ UNCHANGED <<exchange, wire, store, series, fill, unsure, overrun>>

\* A call that waited asks again if the barrier still stands.
EndRepair ==
  IF waiters # 0 /\ barrier' # 0 /\ Connected
  THEN repair' = Request(barrier') /\ waiters' = waiters - 1 /\ late' = {}
  ELSE repair' = NoRepair /\ waiters' = 0 /\ late' = {}

\* Mutant: the answer overwrites what the websocket brought since.
MutRestWins(b) == repair.snap[b] # 0

\* A candle of the answer is merged unless the websocket updated it since the request.
TakesSnap(b) == repair.snap[b] # 0 /\ b \notin repair.touched

RepairMerges ==
  /\ Turn
  /\ repair.at = "answered"
  /\ IF repair.gen # gen
     THEN UNCHANGED <<bars, barrier, fill>> /\ EndRepair
     ELSE /\ bars' = [b \in Bars |-> IF TakesSnap(b) THEN repair.snap[b] ELSE bars[b]]
          /\ CheckGaps(bars')
          /\ repair' = [repair EXCEPT !.at = "merged"]
          /\ UNCHANGED <<barrier, waiters, late>>
  /\ UNCHANGED <<exchange, wire, emitted, unfillable, series, used, unsure, overrun>>

\* An empty answer certifies nothing.
Fresh == repair.snap # Nothing

RepairEnds ==
  /\ Resumes
  /\ IF repair.gen = gen /\ Connected /\ Fresh
     THEN barrier' = 0 /\ EmitClosed(NewestClosed(bars)) /\ unsure' = unsure \cup late
     ELSE UNCHANGED <<barrier, emitted, unsure>>
  /\ EndRepair
  /\ UNCHANGED <<exchange, wire, bars, unfillable, series, fill, used, overrun>>

----------------------------------------------------------------------------
(* Gap backfill, maintenance and the first load.                            *)

FillReturns ==
  /\ Turn
  /\ fill # {}
  /\ bars' = [b \in Bars |-> IF b \in fill /\ trades[b] # 0 THEN trades[b] ELSE bars[b]]
  /\ unfillable' = unfillable \cup {b \in fill : trades[b] = 0}
  /\ fill' = {}
  /\ UNCHANGED barrier
  /\ IF \E b \in fill : trades[b] # 0 THEN EmitClosed(NewestClosed(bars')) ELSE UNCHANGED emitted
  /\ UNCHANGED <<exchange, wire, series, repair, waiters, used, history>>

FillFails ==
  /\ Turn
  /\ fill # {}
  /\ Spend("faults", MaxFaults)
  /\ fill' = {}
  /\ UNCHANGED <<exchange, wire, store, series, repair, waiters, history>>

\* Mutant: maintenance looks at the silence only.
MutSilenceOnly == clock >= Newest(bars) + 3

\* A recovery is pending, or two periods went by without a candle.
Quiet == barrier # 0 \/ clock >= Newest(bars) + 3

\* The maintenance timer: gaps first; a quiet series is resynced.
Maintain ==
  /\ Turn
  /\ Loaded /\ fill = {}
  /\ \/ Missing(bars) # {} /\ CheckGaps(bars) /\ UNCHANGED repair
     \/ /\ Missing(bars) = {} /\ repair.at = "none" /\ Quiet
        /\ repair' = Request(barrier)
        /\ UNCHANGED fill
  /\ UNCHANGED <<exchange, wire, store, series, waiters, used, history>>

LoadAnswers ==
  /\ Turn
  /\ series.at = "loading"
  /\ series' = [at |-> "answered", snap |-> [b \in Bars |-> IF b <= clock THEN trades[b] ELSE 0]]
  /\ UNCHANGED <<exchange, wire, store, repair, waiters, fill, used, history>>

\* backfill: what the websocket brought meanwhile is merged over the history;
\* the history's closed bars are never announced.
LoadReceives ==
  /\ Turn
  /\ series.at = "answered"
  /\ series' = [at |-> "loaded", snap |-> Nothing]
  /\ bars' = [b \in Bars |->
                IF bars[b] # 0 /\ (b >= Newest(series.snap) \/ series.snap[b] = 0)
                THEN bars[b] ELSE series.snap[b]]
  /\ emitted' = Max({emitted, NewestClosed(bars')})
  /\ CheckGaps(bars')
  /\ UNCHANGED <<exchange, wire, barrier, unfillable, repair, waiters, used, history>>

----------------------------------------------------------------------------
Next ==
  \/ Tick \/ Trade \/ AnnounceDue
  \/ Dies \/ Drops \/ HeartbeatLost \/ Connect
  \/ ResyncTurn \/ RestAnswers \/ RestAnswersNothing \/ RepairFails \/ RepairMerges \/ RepairEnds
  \/ FillReturns \/ FillFails \/ Maintain \/ LoadAnswers \/ LoadReceives

Spec == Init /\ [][Next]_vars

\* Timers run, the feed reconnects for ever (ws.ts 200-205), REST answers.
Fairness ==
  /\ WF_vars(Tick) /\ WF_vars(AnnounceDue)
  /\ WF_vars(HeartbeatLost) /\ SF_vars(Connect)
  /\ WF_vars(ResyncTurn) /\ WF_vars(RestAnswers) /\ WF_vars(RepairMerges) /\ WF_vars(RepairEnds)
  /\ WF_vars(FillReturns) /\ WF_vars(Maintain)
  /\ WF_vars(LoadAnswers) /\ WF_vars(LoadReceives)

FairSpec == Spec /\ Fairness

----------------------------------------------------------------------------
Counts == 0..MaxTrades

\* Type invariant.
TypeOK ==
  /\ clock \in Periods
  /\ trades \in [Bars -> Counts]
  /\ link \in {"up", "dead", "down"} /\ gen \in 0..MaxCuts /\ queued \in BOOLEAN
  /\ series \in [at : {"loading", "answered", "loaded"}, snap : [Bars -> Counts]]
  /\ bars \in [Bars -> Counts]
  /\ emitted \in 0..LastBar /\ barrier \in 0..LastBar + 2
  /\ unfillable \subseteq Bars /\ fill \subseteq Bars
  /\ repair \in [at : {"none", "sent", "answered", "merged"}, gen : 0..MaxCuts, from : Periods,
                 upto : Periods, touched : SUBSET Bars, snap : [Bars -> Counts]]
  /\ waiters \in 0..MaxCuts
  /\ used \in [cuts : 0..MaxCuts, faults : 0..MaxFaults]
  /\ late \subseteq Bars /\ unsure \subseteq Bars /\ overrun \subseteq Bars

\* When a close is announced on a live link, the announced bar and every bar
\* before it hold all the trades the exchange has: scanners never compute on a
\* fragment an interruption left behind (emitClosed, recovery, repairSeries).
\* Excepted are the bars of `unsure`: traded unseen before the load had ended or
\* the local clock begun them, or after the answer of a resync that maintenance
\* had asked for while the link was down, and that lifted the barrier later.
WholeHistory ==
  [][emitted' > emitted /\ link = "up" => \A b \in (1..emitted') \ unsure' : bars'[b] = trades'[b]]_vars

\* A bar held never goes back to an earlier version, whichever of the
\* websocket, a resync and a gap backfill answers last (wsVersions).  Excepted
\* are bars that traded while the link was down and such an answer under way.
NeverRegresses == [][\A b \in Bars \ late : bars'[b] >= bars[b]]_vars

\* Only a repair or the load, which catch up, pass over a bar; the live
\* announcements (the next candle, the clock ticker) pass over none that the
\* store could know of, unless the exchange's clock ran ahead (`overrun`).
CatchesUp == repair.at # repair'.at \/ series # series' \/ (fill # {} /\ fill' = {})
NonePassedOver ==
  [][emitted' > emitted /\ ~CatchesUp =>
       \A b \in Bars \ (unsure \cup overrun) : b > emitted /\ b < emitted' => trades[b] = 0]_vars

\* A bar that traded is announced, or passed by the announcement of a later
\* one, however often the link breaks and REST fails.
Overdue(b) == Closed(b) /\ trades[b] # 0 /\ emitted < b
ClosesAnnounced == []<>(\A b \in Bars : ~Overdue(b))

\* Once interruptions and faults end, the series held becomes and stays whole,
\* but for the trades that no resync is due to fetch.
EventuallyWhole == <>[](\A b \in Bars \ unsure : bars[b] = trades[b])
=============================================================================
