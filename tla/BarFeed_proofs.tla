---------------------------- MODULE BarFeed_proofs ----------------------------
(***************************************************************************)
(* Theorems about BarFeed: type correctness, with the bound on the calls    *)
(* that wait for a resync, NeverRegresses, WholeHistory and NonePassedOver. *)
(* No behaviour of the link, the clocks, the load or the maintenance timer  *)
(* is assumed away: the properties name the bars the code answers for.      *)
(***************************************************************************)
EXTENDS BarFeed, TLAPS, WellFoundedInduction

LEMMA Constants ==
  /\ LastBar \in Nat /\ LastBar >= 2 /\ MaxTrades \in Nat
  /\ MaxCuts \in Nat /\ MaxFaults \in Nat
BY FeedAssumption DEF FeedAssumption

----------------------------------------------------------------------------
(* The newest bar held.                                                     *)

\* A nonempty set of naturals with an upper bound has a largest element.
LEMMA MaxOf ==
  ASSUME NEW N \in Nat, NEW T \in SUBSET (0..N), T # {}
  PROVE  Max(T) \in T /\ \A y \in T : Max(T) >= y
<1> DEFINE U == {N - x : x \in T}
<1>1. U \subseteq Nat /\ U # {}
  <2>1. \A x \in T : x \in Nat /\ x <= N /\ N - x \in Nat
    OBVIOUS
  <2>2. QED
    BY <2>1
<1>2. PICK u \in U : \A y \in U : ~(<<y, u>> \in OpToRel(<, Nat))
  BY <1>1, NatLessThanWellFounded, WFMin
<1>3. \A y \in U : ~(y < u)
  BY <1>1, <1>2 DEF OpToRel
<1>4. PICK x \in T : u = N - x
  OBVIOUS
<1>5. \A y \in T : x >= y
  <2>1. TAKE y \in T
  <2>2. N - y \in U /\ ~(N - y < N - x)
    BY <1>3, <1>4
  <2>3. QED
    BY <2>2
<1>6. QED
  BY <1>5 DEF Max

LEMMA NewestHeld ==
  ASSUME NEW h \in [Bars -> Nat]
  PROVE  /\ Newest(h) \in 0..LastBar
         /\ \A b \in Bars : h[b] # 0 => b <= Newest(h)
         /\ Newest(h) # 0 => Newest(h) \in Bars /\ h[Newest(h)] # 0
<1> DEFINE T == {0} \cup {b \in Bars : h[b] # 0}
<1>1. T \in SUBSET (0..LastBar) /\ T # {}
  BY Constants DEF Bars
<1>2. Max(T) \in T /\ \A y \in T : Max(T) >= y
  BY <1>1, Constants, MaxOf
<1>3. Newest(h) = Max(T)
  BY DEF Newest
<1> HIDE DEF T
<1>4. Newest(h) \in T /\ \A y \in T : Newest(h) >= y
  BY <1>2, <1>3
<1> USE DEF T
<1>5. QED
  BY <1>1, <1>4, Constants DEF Bars

LEMMA NewestClosedHeld ==
  ASSUME NEW h \in [Bars -> Nat]
  PROVE  NewestClosed(h) \in 0..LastBar
<1> DEFINE T == {0} \cup {b \in Bars : h[b] # 0 /\ Closed(b)}
<1>1. T \in SUBSET (0..LastBar) /\ T # {}
  BY Constants DEF Bars
<1>2. Max(T) \in T
  BY <1>1, Constants, MaxOf
<1>3. QED
  BY <1>1, <1>2 DEF NewestClosed

----------------------------------------------------------------------------
(* Type correctness.                                                        *)

Flag(c) == IF c THEN 1 ELSE 0

\* A cut is counted once, when the connection knows of it or before; every call
\* that waits for a resync, or will, stands for a reconnection of its own.
CountersAgree ==
  /\ gen + Flag(link = "dead") = used.cuts
  /\ waiters + Flag(queued) + Flag(link = "down") <= gen

ClockTypes == clock \in Periods /\ trades \in [Bars -> Counts]
WireTypes  == link \in {"up", "dead", "down"} /\ gen \in 0..MaxCuts /\ queued \in BOOLEAN
StoreTypes ==
  /\ bars \in [Bars -> Counts] /\ emitted \in 0..LastBar
  /\ barrier \in 0..LastBar + 2 /\ unfillable \subseteq Bars
SeriesType == series \in [at : {"loading", "answered", "loaded"}, snap : [Bars -> Counts]]
RepairType ==
  repair \in [at : {"none", "sent", "answered", "merged"}, gen : 0..MaxCuts, from : Periods,
              upto : Periods, touched : SUBSET Bars, snap : [Bars -> Counts]]
WaiterTypes == waiters \in 0..MaxCuts /\ fill \subseteq Bars
UsedType    == used \in [cuts : 0..MaxCuts, faults : 0..MaxFaults]
HistoryType == late \subseteq Bars /\ unsure \subseteq Bars /\ overrun \subseteq Bars

Parts ==
  /\ ClockTypes /\ WireTypes /\ StoreTypes /\ SeriesType /\ RepairType /\ WaiterTypes /\ UsedType
  /\ CountersAgree

LEMMA PartsAreTypes == (Parts /\ HistoryType => TypeOK) /\ (Parts => CountersAgree)
BY DEF Parts, TypeOK, ClockTypes, WireTypes, StoreTypes, SeriesType, RepairType, WaiterTypes, UsedType,
       HistoryType

LEMMA NothingType == Nothing \in [Bars -> Counts]
BY Constants DEF Nothing, Counts

LEMMA HeldNumbers == [Bars -> Counts] \subseteq [Bars -> Nat]
BY Constants DEF Counts

LEMMA RequestIs ==
  ASSUME Parts, NEW from \in 0..LastBar + 2
  PROVE  /\ Request(from) = [at |-> "sent", gen |-> gen, from |-> Request(from).from,
                             upto |-> clock, touched |-> {}, snap |-> Nothing]
         /\ Request(from).from \in Periods
<1>1. Newest(bars) \in 0..LastBar
  BY NewestHeld, HeldNumbers DEF Parts, StoreTypes
<1>2. \A b \in 0..LastBar + 2 : Earlier(b) \in Periods
  BY Constants DEF Earlier, Periods
<1> DEFINE start == Earlier(IF from # 0 THEN from ELSE Newest(bars))
<1>3. start \in Periods
  BY <1>1, <1>2, Constants
<1> HIDE DEF start
<1>4. Request(from) = [at |-> "sent", gen |-> gen, from |-> start,
                       upto |-> clock, touched |-> {}, snap |-> Nothing]
  BY DEF Request, start
<1>5. QED
  BY <1>3, <1>4

LEMMA RequestType ==
  ASSUME Parts, NEW from \in 0..LastBar + 2
  PROVE  Request(from) \in
           [at : {"none", "sent", "answered", "merged"}, gen : 0..MaxCuts, from : Periods,
            upto : Periods, touched : SUBSET Bars, snap : [Bars -> Counts]]
BY RequestIs, NothingType DEF Parts, WireTypes, ClockTypes

LEMMA NoRepairType ==
  NoRepair \in [at : {"none", "sent", "answered", "merged"}, gen : 0..MaxCuts, from : Periods,
                upto : Periods, touched : SUBSET Bars, snap : [Bars -> Counts]]
BY NothingType, Constants DEF NoRepair, Periods

LEMMA EmitClosedType ==
  ASSUME emitted \in 0..LastBar, NEW b \in 0..LastBar, EmitClosed(b)
  PROVE  emitted' \in 0..LastBar
BY DEF EmitClosed

LEMMA CheckGapsType ==
  ASSUME fill \subseteq Bars, NEW held, CheckGaps(held)
  PROVE  fill' \subseteq Bars
BY DEF CheckGaps, Missing

\* A call stops waiting when it asks again; no call is added.
LEMMA EndRepairType ==
  ASSUME Parts, EndRepair, barrier' \in 0..LastBar + 2
  PROVE  RepairType' /\ waiters' \in 0..MaxCuts /\ waiters' <= waiters
<1>1. CASE waiters # 0 /\ barrier' # 0 /\ Connected
  <2>1. repair' = Request(barrier') /\ waiters' = waiters - 1
    BY <1>1 DEF EndRepair
  <2>2. QED
    BY <1>1, <2>1, RequestType, Constants DEF Parts, WaiterTypes, RepairType
<1>2. CASE ~(waiters # 0 /\ barrier' # 0 /\ Connected)
  <2>1. repair' = NoRepair /\ waiters' = 0
    BY <1>2 DEF EndRepair
  <2>2. QED
    BY <2>1, NoRepairType, Constants DEF Parts, WaiterTypes, RepairType
<1>3. QED
  BY <1>1, <1>2

LEMMA SpendCut ==
  ASSUME Parts, Spend("cuts", MaxCuts)
  PROVE  UsedType' /\ used'.cuts = used.cuts + 1
BY Constants DEF Spend, Parts, UsedType

LEMMA SpendFault ==
  ASSUME Parts, Spend("faults", MaxFaults)
  PROVE  UsedType' /\ used'.cuts = used.cuts
BY Constants DEF Spend, Parts, UsedType

LEMMA InitParts == Init => Parts
<1> SUFFICES ASSUME Init PROVE Parts
  OBVIOUS
<1>1. ClockTypes
  BY Constants DEF Init, ClockTypes, Counts, Bars, Periods
<1>2. WireTypes /\ WaiterTypes /\ SeriesType /\ UsedType
  <2>1. WireTypes /\ WaiterTypes
    <3>1. link = "up" /\ gen = 0 /\ queued = FALSE /\ waiters = 0 /\ fill = {}
      BY DEF Init
    <3>2. 0 \in 0..MaxCuts
      BY Constants
    <3>3. QED
      BY <3>1, <3>2 DEF WireTypes, WaiterTypes
  <2>2. SeriesType
    BY NothingType DEF Init, SeriesType
  <2>3. UsedType
    BY Constants DEF Init, UsedType
  <2>4. QED
    BY <2>1, <2>2, <2>3
<1>5. StoreTypes
  BY Constants, NothingType DEF Init, StoreTypes
<1>3. RepairType
  BY NoRepairType DEF Init, RepairType
<1>4. CountersAgree
  BY DEF Init, CountersAgree, Flag
<1>6. QED
  BY <1>1, <1>2, <1>3, <1>4, <1>5 DEF Parts

\* The clock, the exchange and the ticker.
LEMMA MarketKeepsTypes ==
  ASSUME Parts, Tick \/ Trade \/ AnnounceDue
  PROVE  Parts'
<1>1. CASE Tick
  <2>1. ClockTypes'
    BY <1>1, Constants DEF Tick, Parts, ClockTypes, Periods
  <2>2. QED
    BY <1>1, <2>1 DEF Tick, Parts, WireTypes, StoreTypes, SeriesType, RepairType, WaiterTypes,
          UsedType, CountersAgree, wire, store, requests
<1>2. CASE Trade
  <2>1. PICK b \in Forming :
          /\ trades[b] < MaxTrades
          /\ trades' = [trades EXCEPT ![b] = @ + 1]
          /\ IF link = "up" THEN OnWsCandle(b) ELSE UNCHANGED <<bars, emitted, barrier, repair, fill>>
    BY <1>2 DEF Trade
  <2>2. b \in Bars
    BY DEF Forming
  <2>3. ClockTypes'
    BY <1>2, <2>1, <2>2, Constants DEF Trade, Parts, ClockTypes, Counts
  <2>4. StoreTypes' /\ RepairType' /\ fill' \subseteq Bars
    <3>1. CASE link = "up"
      <4>1. OnWsCandle(b) /\ UNCHANGED unfillable
        BY <1>2, <2>1, <3>1 DEF Trade
      <4>2. bars' \in [Bars -> Counts] /\ barrier' = barrier
        BY <2>2, <2>3, <4>1 DEF OnWsCandle, Parts, StoreTypes, ClockTypes
      <4>3. emitted' \in 0..LastBar
        <5>1. Newest(bars) \in 0..LastBar
          BY NewestHeld, HeldNumbers DEF Parts, StoreTypes
        <5>2. QED
          BY <4>1, <5>1, EmitClosedType DEF OnWsCandle, Parts, StoreTypes
      <4>4. fill' \subseteq Bars
        BY <4>1, CheckGapsType DEF OnWsCandle, Parts, WaiterTypes
      <4>5. RepairType'
        BY <2>2, <4>1 DEF OnWsCandle, Parts, RepairType
      <4>6. QED
        BY <4>1, <4>2, <4>3, <4>4, <4>5 DEF Parts, StoreTypes
    <3>2. CASE link # "up"
      BY <1>2, <2>1, <3>2 DEF Trade, Parts, StoreTypes, RepairType, WaiterTypes
    <3>3. QED
      BY <3>1, <3>2
  <2>5. QED
    BY <1>2, <2>3, <2>4 DEF Trade, Parts, WireTypes, SeriesType, WaiterTypes, UsedType,
          CountersAgree, wire
<1>3. CASE AnnounceDue
  <2>1. Newest(bars) \in 0..LastBar
    BY NewestHeld, HeldNumbers DEF Parts, StoreTypes
  <2>2. emitted' \in 0..LastBar
    BY <1>3, <2>1, EmitClosedType DEF AnnounceDue, Parts, StoreTypes
  <2>3. QED
    BY <1>3, <2>2 DEF AnnounceDue, Parts, ClockTypes, WireTypes, StoreTypes, SeriesType,
          RepairType, WaiterTypes, UsedType, CountersAgree, exchange, wire, requests
<1>4. QED
  BY <1>1, <1>2, <1>3

\* The connection.
LEMMA LinkKeepsTypes ==
  ASSUME Parts, Dies \/ Drops \/ HeartbeatLost \/ Connect
  PROVE  Parts'
<1>1. CASE Dies
  <2>1. UsedType' /\ used'.cuts = used.cuts + 1
    BY <1>1, SpendCut DEF Dies
  <2>2. WireTypes' /\ CountersAgree'
    BY <1>1, <2>1 DEF Dies, Parts, WireTypes, WaiterTypes, CountersAgree, Flag, UsedType, requests
  <2>3. QED
    BY <1>1, <2>1, <2>2 DEF Dies, Parts, ClockTypes, StoreTypes, SeriesType, RepairType,
          WaiterTypes, exchange, store, requests
<1>2. CASE Drops \/ HeartbeatLost
  <2>1. /\ Disconnected /\ UsedType'
        /\ used'.cuts = gen + 1
        /\ link # "down"
    BY <1>2, SpendCut, Constants DEF Drops, HeartbeatLost, Parts, UsedType, CountersAgree, Flag, WireTypes
  <2>2. barrier' \in 0..LastBar + 2
    <3>1. From \in 0..LastBar + 2
      <4>1. Newest(bars) \in 0..LastBar
        BY NewestHeld, HeldNumbers DEF Parts, StoreTypes
      <4>2. QED
        BY <4>1, Constants DEF From, Parts, StoreTypes, ClockTypes, Periods
    <3>2. QED
      BY <2>1, <3>1 DEF Disconnected, Parts, StoreTypes
  <2>3. WireTypes' /\ CountersAgree'
    <3>1. used'.cuts \in 0..MaxCuts
      BY <2>1 DEF UsedType
    <3>2. link' = "down" /\ gen' = gen + 1 /\ queued' = FALSE /\ waiters' = waiters
      BY <2>1 DEF Disconnected, requests
    <3>3. gen \in Nat /\ waiters \in Nat /\ waiters <= gen
      BY <2>1, Constants DEF Parts, WireTypes, WaiterTypes, CountersAgree, Flag
    <3>4. Flag(link' = "dead") = 0 /\ Flag(link' = "down") = 1 /\ Flag(queued') = 0
      BY <3>2 DEF Flag
    <3>5. gen' + Flag(link' = "dead") = used'.cuts
      BY <2>1, <3>2, <3>3, <3>4
    <3>6. waiters' + Flag(queued') + Flag(link' = "down") <= gen'
      BY <3>2, <3>3, <3>4
    <3>7. WireTypes'
      BY <2>1, <3>1, <3>2, <3>3, Constants DEF WireTypes
    <3>8. QED
      BY <3>5, <3>6, <3>7 DEF CountersAgree, Flag
  <2>4. QED
    BY <2>1, <2>2, <2>3 DEF Disconnected, Parts, ClockTypes, StoreTypes, SeriesType, RepairType,
          WaiterTypes, exchange, requests
<1>3. CASE Connect
  <2>1. queued' \in BOOLEAN
    BY <1>3 DEF Connect, Loaded
  <2>2. WireTypes' /\ CountersAgree'
    BY <1>3, <2>1, Constants DEF Connect, Parts, WireTypes, WaiterTypes, CountersAgree, Flag, requests
  <2>3. QED
    BY <1>3, <2>2 DEF Connect, Parts, ClockTypes, StoreTypes, SeriesType, RepairType,
          WaiterTypes, UsedType, exchange, store, requests
<1>4. QED
  BY <1>1, <1>2, <1>3

LEMMA FewerWaiters ==
  ASSUME Parts, UNCHANGED <<wire, used>>, waiters' \in Nat, waiters' <= waiters
  PROVE  CountersAgree'
<1>1. gen' = gen /\ link' = link /\ queued' = queued /\ used' = used
  BY DEF wire
<1>2. gen \in Nat /\ waiters \in Nat
  BY Constants DEF Parts, WireTypes, WaiterTypes
<1>3. Flag(queued) \in {0, 1} /\ Flag(link = "down") \in {0, 1}
  BY DEF Flag
<1>4. waiters' + Flag(queued) + Flag(link = "down") <= gen
  BY <1>2, <1>3 DEF Parts, CountersAgree
<1>5. QED
  BY <1>1, <1>4 DEF Parts, CountersAgree

\* A resync.
LEMMA ResyncKeepsTypes ==
  ASSUME Parts,
         ResyncTurn \/ RestAnswers \/ RestAnswersNothing \/ RepairFails \/ RepairMerges \/ RepairEnds
  PROVE  Parts'
<1>1. CASE ResyncTurn
  <2>1. queued = TRUE /\ queued' = FALSE /\ waiters' \in {waiters, waiters + 1}
    BY <1>1 DEF ResyncTurn, Parts, WireTypes
  <2>2. WireTypes' /\ WaiterTypes' /\ CountersAgree'
    <3>1. gen' = gen /\ link' = link /\ fill' = fill /\ used' = used
      BY <1>1 DEF ResyncTurn
    <3>2. gen \in 0..MaxCuts /\ waiters \in Nat /\ waiters + 1 + Flag(link = "down") <= gen
      BY <2>1, Constants DEF Parts, WireTypes, WaiterTypes, CountersAgree, Flag
    <3>3. Flag(link = "down") \in {0, 1} /\ Flag(queued') = 0
      BY <2>1 DEF Flag
    <3>4. waiters' \in 0..MaxCuts /\ waiters' + Flag(queued') + Flag(link = "down") <= gen
      BY <2>1, <3>2, <3>3, Constants
    <3>5. WireTypes' /\ WaiterTypes'
      BY <2>1, <3>1, <3>4 DEF WireTypes, WaiterTypes, Parts
    <3>6. QED
      BY <3>1, <3>4, <3>5 DEF CountersAgree, Parts
  <2>3. RepairType'
    <3>1. Request(barrier) \in
            [at : {"none", "sent", "answered", "merged"}, gen : 0..MaxCuts, from : Periods,
             upto : Periods, touched : SUBSET Bars, snap : [Bars -> Counts]]
      BY RequestType DEF Parts, StoreTypes
    <3>2. QED
      BY <1>1, <3>1 DEF ResyncTurn, Parts, RepairType
  <2>4. QED
    BY <1>1, <2>2, <2>3 DEF ResyncTurn, Parts, ClockTypes, StoreTypes, SeriesType, UsedType,
          exchange, store
<1>2. CASE RestAnswers \/ RestAnswersNothing
  <2>1. RepairType'
    <3>1. \A b \in Bars : (IF b \in repair.from..repair.upto THEN trades[b] ELSE 0) \in Counts
      BY Constants DEF Parts, ClockTypes, Counts
    <3>2. CASE RestAnswers
      BY <3>1, <3>2 DEF RestAnswers, Parts, RepairType
    <3>3. CASE RestAnswersNothing
      BY <3>3 DEF RestAnswersNothing, Parts, RepairType
    <3>4. QED
      BY <1>2, <3>2, <3>3
  <2>2. UsedType' /\ used'.cuts = used.cuts
    BY <1>2, SpendFault DEF RestAnswers, RestAnswersNothing, Parts, UsedType
  <2>3. UNCHANGED <<exchange, wire, store, series, waiters, fill>>
    BY <1>2 DEF RestAnswers, RestAnswersNothing
  <2>4. QED
    BY <2>1, <2>2, <2>3 DEF Parts, ClockTypes, WireTypes, StoreTypes, SeriesType, WaiterTypes,
          CountersAgree, exchange, wire, store
<1>3. CASE RepairFails
  <2>1. RepairType'
    BY <1>3, NoRepairType DEF RepairFails, RepairType
  <2>2. UsedType' /\ used'.cuts = used.cuts
    BY <1>3, SpendFault DEF RepairFails
  <2>3. UNCHANGED <<exchange, wire, store, series, fill>> /\ waiters' = 0
    BY <1>3 DEF RepairFails
  <2>4. WaiterTypes'
    BY <2>3, Constants DEF Parts, WaiterTypes
  <2>5. CountersAgree'
    BY <2>2, <2>3, Constants DEF Parts, WireTypes, WaiterTypes, CountersAgree, Flag, wire
  <2>6. QED
    BY <2>1, <2>2, <2>3, <2>4, <2>5 DEF Parts, ClockTypes, WireTypes, StoreTypes, SeriesType,
          exchange, wire, store
<1>4. CASE RepairMerges
  <2>1. UNCHANGED <<exchange, wire, emitted, unfillable, series, used>> /\ barrier' = barrier
    BY <1>4 DEF RepairMerges
  <2>2. bars' \in [Bars -> Counts] /\ fill' \subseteq Bars
    BY <1>4, CheckGapsType DEF RepairMerges, Parts, StoreTypes, RepairType, WaiterTypes
  <2>3. RepairType' /\ waiters' \in 0..MaxCuts /\ waiters' <= waiters
    <3>1. CASE repair.gen # gen
      BY <1>4, <2>1, <3>1, EndRepairType DEF RepairMerges, Parts, StoreTypes
    <3>2. CASE repair.gen = gen
      <4>1. repair' = [repair EXCEPT !.at = "merged"] /\ waiters' = waiters
        BY <1>4, <3>2 DEF RepairMerges
      <4>2. QED
        BY <4>1, Constants DEF Parts, RepairType, WaiterTypes
    <3>3. QED
      BY <3>1, <3>2
  <2>4. CountersAgree'
    BY <2>1, <2>3, FewerWaiters, Constants
  <2>5. StoreTypes' /\ WaiterTypes'
    BY <2>1, <2>2, <2>3 DEF Parts, StoreTypes, WaiterTypes
  <2>6. QED
    BY <2>1, <2>3, <2>4, <2>5 DEF Parts, ClockTypes, WireTypes, SeriesType, UsedType, exchange, wire
<1>5. CASE RepairEnds
  <2>1. UNCHANGED <<exchange, wire, bars, unfillable, series, fill, used>>
    BY <1>5 DEF RepairEnds
  <2>2. barrier' \in 0..LastBar + 2 /\ emitted' \in 0..LastBar
    <3>1. NewestClosed(bars) \in 0..LastBar
      BY NewestClosedHeld, HeldNumbers DEF Parts, StoreTypes
    <3>2. QED
      BY <1>5, <3>1, EmitClosedType, Constants DEF RepairEnds, Parts, StoreTypes
  <2>3. RepairType' /\ waiters' \in 0..MaxCuts /\ waiters' <= waiters
    BY <1>5, <2>2, EndRepairType DEF RepairEnds
  <2>4. CountersAgree'
    BY <2>1, <2>3, FewerWaiters, Constants
  <2>5. StoreTypes' /\ WaiterTypes'
    BY <2>1, <2>2, <2>3 DEF Parts, StoreTypes, WaiterTypes
  <2>6. QED
    BY <2>1, <2>3, <2>4, <2>5 DEF Parts, ClockTypes, WireTypes, SeriesType, UsedType, exchange, wire
<1>6. QED
  BY <1>1, <1>2, <1>3, <1>4, <1>5

\* Gaps, maintenance and the load.
LEMMA StoreKeepsTypes ==
  ASSUME Parts, FillReturns \/ FillFails \/ Maintain \/ LoadAnswers \/ LoadReceives
  PROVE  Parts'
<1>1. CASE FillReturns
  <2>1. /\ UNCHANGED <<exchange, wire, series, repair, waiters, used>>
        /\ barrier' = barrier /\ fill' = {}
        /\ unfillable' \subseteq Bars
    BY <1>1 DEF FillReturns, Parts, WaiterTypes, StoreTypes
  <2>2. bars' \in [Bars -> Counts]
    BY <1>1 DEF FillReturns, Parts, StoreTypes, ClockTypes
  <2>3. emitted' \in 0..LastBar
    <3>1. NewestClosed(bars') \in 0..LastBar
      BY <2>2, NewestClosedHeld, HeldNumbers
    <3>2. QED
      BY <1>1, <3>1, EmitClosedType DEF FillReturns, Parts, StoreTypes
  <2>4. QED
    BY <2>1, <2>2, <2>3 DEF Parts, ClockTypes, WireTypes, StoreTypes, SeriesType, RepairType,
          WaiterTypes, UsedType, CountersAgree, exchange, wire
<1>2. CASE FillFails
  <2>1. UsedType' /\ used'.cuts = used.cuts
    BY <1>2, SpendFault DEF FillFails
  <2>2. QED
    BY <1>2, <2>1 DEF FillFails, Parts, ClockTypes, WireTypes, StoreTypes, SeriesType, RepairType,
          WaiterTypes, CountersAgree, exchange, wire, store
<1>3. CASE Maintain
  <2>1. RepairType'
    <3>1. Request(barrier) \in
            [at : {"none", "sent", "answered", "merged"}, gen : 0..MaxCuts, from : Periods,
             upto : Periods, touched : SUBSET Bars, snap : [Bars -> Counts]]
      BY RequestType DEF Parts, StoreTypes
    <3>2. QED
      BY <1>3, <3>1 DEF Maintain, Parts, RepairType
  <2>2. fill' \subseteq Bars
    BY <1>3, CheckGapsType DEF Maintain, Parts, WaiterTypes
  <2>3. QED
    BY <1>3, <2>1, <2>2 DEF Maintain, Parts, ClockTypes, WireTypes, StoreTypes, SeriesType,
          WaiterTypes, UsedType, CountersAgree, exchange, wire, store
<1>4. CASE LoadAnswers
  <2>1. SeriesType'
    <3>1. \A b \in Bars : (IF b <= clock THEN trades[b] ELSE 0) \in Counts
      BY Constants DEF Parts, ClockTypes, Counts
    <3>2. QED
      BY <1>4, <3>1 DEF LoadAnswers, SeriesType
  <2>2. QED
    BY <1>4, <2>1 DEF LoadAnswers, Parts, ClockTypes, WireTypes, StoreTypes, RepairType,
          WaiterTypes, UsedType, CountersAgree, exchange, wire, store
<1>5. CASE LoadReceives
  <2>1. bars' \in [Bars -> Counts]
    BY <1>5 DEF LoadReceives, Parts, StoreTypes, SeriesType
  <2>2. emitted' \in 0..LastBar
    <3>1. NewestClosed(bars') \in 0..LastBar
      BY <2>1, NewestClosedHeld, HeldNumbers
    <3>2. {emitted, NewestClosed(bars')} \in SUBSET (0..LastBar)
      BY <3>1 DEF Parts, StoreTypes
    <3>3. Max({emitted, NewestClosed(bars')}) \in 0..LastBar
      BY <3>2, MaxOf, Constants
    <3>4. QED
      BY <1>5, <3>3 DEF LoadReceives
  <2>3. fill' \subseteq Bars
    BY <1>5, CheckGapsType DEF LoadReceives, Parts, WaiterTypes
  <2>4. SeriesType'
    BY <1>5, NothingType DEF LoadReceives, SeriesType
  <2>5. QED
    BY <1>5, <2>1, <2>2, <2>3, <2>4 DEF LoadReceives, Parts, ClockTypes, WireTypes, StoreTypes,
          RepairType, WaiterTypes, UsedType, CountersAgree, exchange, wire
<1>6. QED
  BY <1>1, <1>2, <1>3, <1>4, <1>5

LEMMA StutterKeepsTypes == Parts /\ UNCHANGED vars => Parts'
BY DEF Parts, ClockTypes, WireTypes, StoreTypes, SeriesType, RepairType, WaiterTypes, UsedType,
       CountersAgree, vars, exchange, wire, store, requests

\* Type correctness and the counters behind it: no more calls wait for a resync
\* than there were interruptions (candleStore.ts resync, ws.ts reconnects).
THEOREM PartsHold == Spec => []Parts
<1>1. Init => Parts
  BY InitParts
<1>2. Parts /\ [Next]_vars => Parts'
  BY MarketKeepsTypes, LinkKeepsTypes, ResyncKeepsTypes, StoreKeepsTypes, StutterKeepsTypes DEF Next
<1>3. QED
  BY <1>1, <1>2, PTL DEF Spec

\* The histories hold bars only.
LEMMA HistoryKeepsType ==
  ASSUME Parts, HistoryType, [Next]_vars
  PROVE  HistoryType'
<1>1. CASE Trade
  <2>1. PICK b \in Forming :
          /\ IF link = "up"
             THEN UNCHANGED <<late, unsure>>
             ELSE /\ late' = IF Overtaken(b) THEN late \cup {b} ELSE late
                  /\ unsure' = IF Unsecured(b) THEN unsure \cup {b} ELSE unsure
          /\ overrun' = IF b > clock THEN overrun \cup {clock} ELSE overrun
    BY <1>1 DEF Trade
  <2>2. b \in Bars /\ (b > clock => clock \in Bars)
    BY Constants DEF Forming, Parts, ClockTypes, Bars, Periods
  <2>3. late' \subseteq Bars /\ unsure' \subseteq Bars
    BY <2>1, <2>2 DEF HistoryType
  <2>4. overrun' \subseteq Bars
    BY <2>1, <2>2 DEF HistoryType
  <2>5. QED
    BY <2>3, <2>4 DEF HistoryType
<1>2. CASE Connect \/ RepairFails \/ RepairMerges \/ RepairEnds
  <2>1. late' \in {late, {}} /\ overrun' = overrun
    BY <1>2 DEF Connect, RepairFails, RepairMerges, RepairEnds, EndRepair
  <2>2. unsure' \subseteq Bars
    BY <1>2 DEF Connect, RepairFails, RepairMerges, RepairEnds, HistoryType
  <2>3. QED
    BY <2>1, <2>2 DEF HistoryType
<1>3. CASE UNCHANGED history
  BY <1>3 DEF HistoryType, history
<1>4. QED
  BY <1>1, <1>2, <1>3 DEF Next, vars, Tick, AnnounceDue, Dies, Drops, HeartbeatLost, Disconnected,
     ResyncTurn, RestAnswers, RestAnswersNothing, FillReturns, FillFails, Maintain, LoadAnswers,
     LoadReceives

\* The model's states are what the store and the feed can hold, for every number
\* of bars, trades, interruptions and faults.
THEOREM TypeInvariant == Spec => []TypeOK
<1>1. Init => HistoryType
  BY DEF Init, HistoryType
<1>2. Parts /\ HistoryType /\ [Next]_vars => HistoryType'
  BY HistoryKeepsType
<1>3. QED
  BY <1>1, <1>2, PartsHold, PartsAreTypes, PTL DEF Spec

----------------------------------------------------------------------------
(* NeverRegresses.  What is held, on the way or answered never exceeds what *)
(* the exchange has.  An answer behind the exchange for a bar no websocket  *)
(* candle touched, and that did not trade while the connection was known to *)
(* be down, waits on a dead connection: nothing newer than that bar is held *)
(* and no gap backfill can overtake it.                                     *)

Held == \A b \in Bars : bars[b] <= trades[b]

GapsBelow == \A b \in fill : \E c \in Bars : c > b /\ bars[c] # 0

LoadSound ==
  series.at = "answered" =>
    \A b \in Bars : /\ series.snap[b] <= trades[b]
                    /\ \A c \in Bars : c > b /\ series.snap[c] # 0 => series.snap[b] = trades[b]

RepairSound ==
  /\ repair.at # "none" => Loaded /\ repair.gen <= gen
  /\ repair.at = "sent" => repair.snap = Nothing
  /\ queued => Loaded /\ link # "down"

\* The answer to a repair of this connection.
Current == repair.at = "answered" /\ repair.gen = gen

AnswerSound ==
  /\ Current => \A b \in Bars : repair.snap[b] <= trades[b]
  /\ Current =>
       \A b \in Bars \ (repair.touched \cup late) : repair.snap[b] # 0 =>
         /\ bars[b] <= repair.snap[b]
         /\ repair.snap[b] # trades[b] => link = "dead" /\ \A c \in Bars : c > b => bars[c] = 0

Sound == Parts /\ Held /\ GapsBelow /\ LoadSound /\ RepairSound /\ AnswerSound

NoneRegresses ==
  /\ \A b \in Bars \ late : bars'[b] >= bars[b]
  /\ \A b \in Bars : bars[b] # 0 => bars'[b] # 0

LEMMA Numbers ==
  ASSUME Parts
  PROVE  /\ \A b \in Bars : bars[b] \in Nat /\ trades[b] \in Nat
                            /\ series.snap[b] \in Nat /\ repair.snap[b] \in Nat
         /\ \A b \in Bars : b \in Nat
         /\ gen \in Nat /\ repair.gen \in Nat
<1>1. \A f \in [Bars -> Counts] : \A b \in Bars : f[b] \in Nat
  BY Constants DEF Counts
<1>2. bars \in [Bars -> Counts] /\ trades \in [Bars -> Counts]
      /\ series.snap \in [Bars -> Counts] /\ repair.snap \in [Bars -> Counts]
  BY DEF Parts, StoreTypes, ClockTypes, SeriesType, RepairType
<1>3. gen \in Nat /\ repair.gen \in Nat
  BY Constants DEF Parts, WireTypes, RepairType
<1>4. \A b \in Bars : bars[b] \in Nat /\ trades[b] \in Nat
  BY <1>1, <1>2
<1>5. \A b \in Bars : series.snap[b] \in Nat /\ repair.snap[b] \in Nat
  BY <1>1, <1>2
<1>6. \A b \in Bars : b \in Nat
  BY DEF Bars
<1>7. QED
  BY <1>3, <1>4, <1>5, <1>6

\* A gap lies below a bar held.
LEMMA MissingBelow ==
  ASSUME NEW held \in [Bars -> Nat]
  PROVE  \A b \in Missing(held) : b \in Bars /\ held[b] = 0 /\ \E c \in Bars : c > b /\ held[c] # 0
<1>1. TAKE b \in Missing(held)
<1>2. b \in Bars /\ held[b] = 0 /\ b < Newest(held)
  BY DEF Missing
<1>3. Newest(held) # 0 /\ Newest(held) \in 0..LastBar
  BY <1>2, NewestHeld DEF Bars
<1>4. Newest(held) \in Bars /\ held[Newest(held)] # 0
  BY <1>3, NewestHeld
<1>5. QED
  BY <1>2, <1>3, <1>4 DEF Bars

LEMMA CheckGapsBelow ==
  ASSUME Parts', GapsBelow, NoneRegresses, Parts, CheckGaps(bars')
  PROVE  GapsBelow'
<1>1. bars' \in [Bars -> Nat]
  BY HeldNumbers DEF Parts, StoreTypes
<1>2. \A c \in Bars : bars[c] # 0 => bars'[c] # 0
  BY DEF NoneRegresses
<1>3. CASE fill = {}
  BY <1>1, <1>3, MissingBelow DEF CheckGaps, GapsBelow
<1>4. CASE fill # {}
  BY <1>2, <1>4 DEF CheckGaps, GapsBelow
<1>5. QED
  BY <1>3, <1>4

LEMMA FillStays ==
  ASSUME Parts', Parts, GapsBelow, NoneRegresses, fill' = fill
  PROVE  GapsBelow'
BY DEF GapsBelow, NoneRegresses

\* The exchange trades no bar before one that has traded.
LEMMA TradeIsLast ==
  ASSUME Parts, NEW b \in Forming
  PROVE  b \in Bars /\ \A c \in Bars : c > b => trades[c] = 0
BY DEF Forming

LEMMA InitSound == Init => Sound
<1> SUFFICES ASSUME Init PROVE Sound
  OBVIOUS
<1>1. Parts
  BY InitParts
<1>2. Held
  BY <1>1, Numbers DEF Init, Held, Nothing
<1>3. GapsBelow /\ LoadSound /\ RepairSound /\ AnswerSound
  BY DEF Init, GapsBelow, LoadSound, RepairSound, AnswerSound, Current, NoRepair
<1>4. QED
  BY <1>1, <1>2, <1>3 DEF Sound

\* What leaves the bars, the exchange, the load and the requests alone, and
\* only breaks the link or lets time pass.
LEMMA QuietSteps ==
  ASSUME Sound, Parts', Tick \/ AnnounceDue \/ Dies \/ Drops \/ HeartbeatLost \/ Connect
  PROVE  Sound' /\ NoneRegresses
<1>1. /\ UNCHANGED <<trades, bars, series, repair, fill, late>>
      /\ \/ UNCHANGED <<link, gen, queued>>
         \/ link = "up" /\ link' = "dead" /\ gen' = gen /\ queued' = queued
         \/ link' = "down" /\ gen' = gen + 1 /\ queued' = FALSE
         \/ link = "down" /\ link' = "up" /\ gen' = gen /\ queued' = Loaded
  BY DEF Tick, AnnounceDue, Dies, Drops, HeartbeatLost, Connect, Disconnected,
         exchange, wire, store, requests, history
<1>2. NoneRegresses
  BY <1>1, Numbers DEF NoneRegresses, Sound
<1>3. Held' /\ GapsBelow' /\ LoadSound'
  BY <1>1 DEF Sound, Held, GapsBelow, LoadSound
<1>4. gen \in Nat /\ repair.gen \in Nat
  BY Numbers DEF Sound
<1>5. RepairSound
  BY DEF Sound
<1>6. Loaded' = Loaded
  BY <1>1 DEF Loaded
<1>7. queued' => Loaded' /\ link' # "down"
  BY <1>1, <1>5, <1>6 DEF RepairSound
<1>8. repair'.at # "none" => Loaded' /\ repair'.gen <= gen'
  BY <1>1, <1>4, <1>5, <1>6 DEF RepairSound
<1>9. RepairSound'
  BY <1>1, <1>5, <1>7, <1>8 DEF RepairSound
<1>10. AnswerSound'
  <2> SUFFICES ASSUME Current' PROVE AnswerSound'
    BY DEF AnswerSound
  <2>1. repair.at = "answered" /\ repair.gen = gen'
    BY <1>1 DEF Current
  <2>2. gen' = gen /\ (link = "dead" => link' = "dead")
    <3>1. repair.gen <= gen
      BY <1>5, <2>1 DEF RepairSound
    <3>2. QED
      BY <1>1, <1>4, <2>1, <3>1
  <2>3. Current /\ AnswerSound
    BY <2>1, <2>2 DEF Current, Sound
  <2>4. QED
    BY <1>1, <2>2, <2>3 DEF AnswerSound
<1>11. QED
  BY <1>2, <1>3, <1>9, <1>10 DEF Sound

\* A trade, seen or not.
LEMMA TradeStep ==
  ASSUME Sound, Parts', Trade
  PROVE  Sound' /\ NoneRegresses
<1>1. PICK b \in Forming :
        /\ trades' = [trades EXCEPT ![b] = @ + 1]
        /\ IF link = "up" THEN OnWsCandle(b) ELSE UNCHANGED <<bars, emitted, barrier, repair, fill>>
        /\ late' = IF link # "up" /\ Overtaken(b) THEN late \cup {b} ELSE late
  BY DEF Trade
<1>2. b \in Bars /\ \A c \in Bars : c > b => trades[c] = 0
  BY TradeIsLast DEF Sound
<1>3. /\ UNCHANGED <<link, gen, queued, series>>
      /\ \A c \in Bars : trades'[c] = IF c = b THEN trades[b] + 1 ELSE trades[c]
  BY <1>1, <1>2 DEF Trade, wire, Sound, Parts, ClockTypes
<1>4. /\ \A c \in Bars : /\ bars[c] \in Nat /\ trades[c] \in Nat /\ c \in Nat
                         /\ series.snap[c] \in Nat /\ repair.snap[c] \in Nat
      /\ \A c \in Bars : bars[c] <= trades[c]
  BY Numbers DEF Sound, Held
<1>5. /\ \A c \in Bars : bars'[c] = IF c = b /\ link = "up" THEN trades'[b] ELSE bars[c]
  BY <1>1, <1>2 DEF OnWsCandle, Sound, Parts, StoreTypes
<1>6. NoneRegresses /\ Held'
  BY <1>2, <1>3, <1>4, <1>5 DEF NoneRegresses, Held
<1>7. GapsBelow'
  BY <1>1, <1>6, CheckGapsBelow, FillStays DEF OnWsCandle, Sound
<1>8. LoadSound'
  BY <1>2, <1>3, <1>4 DEF Sound, LoadSound
<1>9. /\ repair'.at = repair.at /\ repair'.gen = repair.gen /\ repair'.snap = repair.snap
      /\ repair.touched \subseteq repair'.touched
      /\ link = "up" /\ repair.at # "none" => repair'.touched = repair.touched \cup {b}
  BY <1>1 DEF OnWsCandle, Sound, Parts, RepairType
<1>10. RepairSound'
  BY <1>3, <1>9 DEF Sound, RepairSound, Loaded
<1>11. AnswerSound'
  <2>1. ASSUME Current', NEW c \in Bars
        PROVE  repair.snap[c] <= trades'[c]
    BY <1>3, <1>4, <1>9, <2>1 DEF Sound, AnswerSound, Current
  <2>2. ASSUME Current', NEW c \in Bars, c \notin repair'.touched \cup late', repair.snap[c] # 0
        PROVE  /\ bars'[c] <= repair.snap[c]
               /\ repair.snap[c] # trades'[c] =>
                    link = "dead" /\ \A d \in Bars : d > c => bars'[d] = 0
    <3>1. Current /\ c \notin repair.touched /\ c \notin late /\ repair.at = "answered"
      BY <1>1, <1>3, <1>9, <2>2 DEF Current
    <3>2. /\ bars[c] <= repair.snap[c]
          /\ repair.snap[c] # trades[c] => link = "dead" /\ \A d \in Bars : d > c => bars[d] = 0
      BY <2>2, <3>1 DEF Sound, AnswerSound
    <3>3. CASE link = "up"
      BY <1>3, <1>5, <1>9, <2>2, <3>1, <3>2, <3>3
    <3>4. CASE link = "dead"
      <4>1. \A d \in Bars : bars'[d] = bars[d]
        BY <1>5, <3>4
      <4>2. c = b => \A d \in Bars : d > c => bars[d] = 0
        BY <1>2, <1>4
      <4>3. QED
        BY <1>3, <1>4, <3>2, <3>4, <4>1, <4>2
    <3>5. CASE link = "down"
      <4>1. c # b
        BY <1>1, <2>2, <3>1, <3>5 DEF Overtaken, Current
      <4>2. QED
        BY <1>3, <1>5, <3>2, <3>5, <4>1
    <3>6. QED
      BY <3>3, <3>4, <3>5 DEF Sound, Parts, WireTypes
  <2>3. QED
    BY <1>3, <1>9, <2>1, <2>2 DEF AnswerSound
<1>12. QED
  BY <1>6, <1>7, <1>8, <1>10, <1>11 DEF Sound

\* A request, or none, has no answer to be sound.
LEMMA FreshRequest ==
  ASSUME RepairSound, gen \in Nat, UNCHANGED <<gen, link, series>>, queued' => queued,
         \/ repair'.at = "none"
         \/ /\ repair'.at = "sent" /\ repair'.gen = gen /\ repair'.snap = Nothing
            /\ Loaded
  PROVE  RepairSound' /\ AnswerSound'
<1>1. ~Current'
  BY DEF Current
<1>2. gen <= gen
  OBVIOUS
<1>3. QED
  BY <1>1, <1>2 DEF RepairSound, AnswerSound, Loaded, Nothing

LEMMA RequestFresh ==
  ASSUME Parts, NEW from \in 0..LastBar + 2, repair' = Request(from)
  PROVE  repair'.at = "sent" /\ repair'.gen = gen /\ repair'.snap = Nothing
BY RequestIs

LEMMA EndRepairSound ==
  ASSUME Sound, EndRepair, barrier' \in 0..LastBar + 2, UNCHANGED <<gen, link, queued, series>>,
         repair.at # "none"
  PROVE  RepairSound' /\ AnswerSound'
<1>1. RepairSound /\ Loaded /\ Parts /\ gen \in Nat /\ (queued' => queued)
  BY Numbers DEF Sound, RepairSound
<1>2. CASE waiters # 0 /\ barrier' # 0 /\ Connected
  <2>1. repair'.at = "sent" /\ repair'.gen = gen /\ repair'.snap = Nothing
    BY <1>1, <1>2, RequestFresh DEF EndRepair
  <2>2. QED
    BY <1>1, <2>1, FreshRequest
<1>3. CASE ~(waiters # 0 /\ barrier' # 0 /\ Connected)
  BY <1>1, <1>3, FreshRequest DEF EndRepair, NoRepair
<1>4. QED
  BY <1>2, <1>3

\* A resync.
LEMMA ResyncStep ==
  ASSUME Sound, Parts',
         ResyncTurn \/ RestAnswers \/ RestAnswersNothing \/ RepairFails \/ RepairMerges \/ RepairEnds
  PROVE  Sound' /\ NoneRegresses
<1>1. /\ UNCHANGED <<trades, link, gen, series>> /\ (queued' => queued)
      /\ repair.at # "none" \/ ResyncTurn
  BY DEF ResyncTurn, RestAnswers, RestAnswersNothing, RepairFails, RepairMerges, RepairEnds,
         Resumes, exchange, wire
<1>2. /\ Parts /\ RepairSound /\ LoadSound' /\ barrier \in 0..LastBar + 2
      /\ gen \in Nat
  BY <1>1, Numbers DEF Sound, LoadSound, Parts, StoreTypes
<1>3. ASSUME UNCHANGED <<bars, fill>>, RepairSound', AnswerSound'
      PROVE  Sound' /\ NoneRegresses
  <2>1. Held' /\ GapsBelow'
    BY <1>1, <1>3 DEF Sound, Held, GapsBelow
  <2>2. NoneRegresses
    <3>1. \A b \in Bars : bars[b] \in Nat
      BY <1>2, Numbers
    <3>2. QED
      BY <1>3, <3>1 DEF NoneRegresses
  <2>3. QED
    BY <1>2, <1>3, <2>1, <2>2 DEF Sound
<1>4. CASE ResyncTurn
  <2>1. UNCHANGED <<bars, fill>> /\ queued
    BY <1>4 DEF ResyncTurn, store
  <2>2. Loaded /\ late' = late
    BY <1>2, <1>4, <2>1 DEF RepairSound, ResyncTurn, history
  <2>3. RepairSound' /\ AnswerSound'
    <3>1. CASE repair.at = "none"
      <4>1. repair'.at = "sent" /\ repair'.gen = gen /\ repair'.snap = Nothing
        BY <1>2, <1>4, <3>1, RequestFresh DEF ResyncTurn
      <4>2. QED
        BY <1>1, <1>2, <2>2, <4>1, FreshRequest
    <3>2. CASE repair.at # "none"
      <4>1. repair' = repair
        BY <1>4, <3>2 DEF ResyncTurn
      <4>2. RepairSound'
        BY <1>1, <1>2, <4>1 DEF RepairSound, Loaded
      <4>3. AnswerSound'
        BY <1>1, <2>1, <2>2, <4>1 DEF Sound, AnswerSound, Current
      <4>4. QED
        BY <4>2, <4>3
    <3>3. QED
      BY <3>1, <3>2
  <2>4. QED
    BY <1>3, <2>1, <2>3
<1>5. CASE RestAnswers
  <2>1. UNCHANGED <<bars, fill>> /\ repair.at = "sent"
    BY <1>5 DEF RestAnswers, store
  <2>2. /\ repair'.at = "answered" /\ repair'.gen = repair.gen
        /\ \A b \in Bars : repair'.snap[b] \in {trades[b], 0}
    BY <1>2, <1>5 DEF RestAnswers, Parts, RepairType
  <2>3. RepairSound'
    BY <1>1, <1>2, <2>1, <2>2 DEF RepairSound, Loaded
  <2>4. \A b \in Bars : bars[b] <= trades[b] /\ trades[b] <= trades[b] /\ 0 <= trades[b]
    BY <1>2, Numbers DEF Sound, Held
  <2>5. AnswerSound'
    BY <1>1, <2>1, <2>2, <2>4 DEF AnswerSound
  <2>6. QED
    BY <1>3, <2>1, <2>3, <2>5
<1>6. CASE RestAnswersNothing
  <2>1. UNCHANGED <<bars, fill>> /\ repair.at = "sent"
    BY <1>6 DEF RestAnswersNothing, store
  <2>2. repair'.at = "answered" /\ repair'.gen = repair.gen /\ repair'.snap = repair.snap
    BY <1>2, <1>6 DEF RestAnswersNothing, Parts, RepairType
  <2>3. RepairSound'
    BY <1>1, <1>2, <2>1, <2>2 DEF RepairSound, Loaded
  <2>4. \A b \in Bars : repair'.snap[b] = 0 /\ 0 <= trades[b]
    BY <1>2, <2>1, <2>2, Numbers DEF RepairSound, Nothing
  <2>5. AnswerSound'
    BY <1>1, <2>4 DEF AnswerSound
  <2>6. QED
    BY <1>3, <2>1, <2>3, <2>5
<1>7. CASE RepairFails
  <2>1. UNCHANGED <<bars, fill>> /\ repair'.at = "none"
    BY <1>7 DEF RepairFails, store, NoRepair
  <2>2. QED
    BY <1>1, <1>2, <1>3, <2>1, FreshRequest
<1>8. CASE RepairMerges
  <2>1. barrier' = barrier /\ repair.at = "answered" /\ queued' = queued
    BY <1>8 DEF RepairMerges, wire
  <2>2. CASE repair.gen # gen
    BY <1>1, <1>2, <1>3, <1>8, <2>1, <2>2, EndRepairSound DEF RepairMerges
  <2>3. CASE repair.gen = gen
    <3>1. /\ bars' = [b \in Bars |-> IF TakesSnap(b) THEN repair.snap[b] ELSE bars[b]]
          /\ CheckGaps(bars')
          /\ repair' = [repair EXCEPT !.at = "merged"]
      BY <1>8, <2>3 DEF RepairMerges
    <3>2. \A b \in Bars : /\ repair.snap[b] <= trades[b]
                          /\ TakesSnap(b) /\ b \notin late => bars[b] <= repair.snap[b]
      BY <2>1, <2>3 DEF Sound, AnswerSound, Current, TakesSnap
    <3>3. \A b \in Bars : /\ bars[b] \in Nat /\ repair.snap[b] \in Nat /\ trades[b] \in Nat
                          /\ bars[b] <= trades[b]
      BY <1>2, Numbers DEF Sound, Held
    <3>4. NoneRegresses
      BY <3>1, <3>2, <3>3 DEF NoneRegresses, TakesSnap
    <3>5. Held'
      BY <1>1, <3>1, <3>2, <3>3 DEF Held
    <3>6. GapsBelow'
      BY <1>2, <3>1, <3>4, CheckGapsBelow DEF Sound
    <3>7. repair'.at = "merged" /\ repair'.gen = repair.gen
      BY <1>2, <3>1 DEF Parts, RepairType
    <3>8. RepairSound' /\ AnswerSound'
      BY <1>1, <1>2, <2>1, <3>7 DEF RepairSound, AnswerSound, Current, Loaded
    <3>9. QED
      BY <1>2, <3>4, <3>5, <3>6, <3>8 DEF Sound
  <2>4. QED
    BY <2>2, <2>3
<1>9. CASE RepairEnds
  <2>1. UNCHANGED <<bars, fill, queued>> /\ EndRepair
    BY <1>9 DEF RepairEnds, wire
  <2>2. barrier' \in 0..LastBar + 2
    BY DEF Parts, StoreTypes
  <2>3. repair.at # "none"
    BY <1>9 DEF RepairEnds, Resumes
  <2>4. QED
    BY <1>1, <1>3, <2>1, <2>2, <2>3, EndRepairSound
<1>10. QED
  BY <1>4, <1>5, <1>6, <1>7, <1>8, <1>9

\* A gap backfill overtakes no answer on the way.
LEMMA FillStep ==
  ASSUME Sound, Parts', FillReturns \/ FillFails
  PROVE  Sound' /\ NoneRegresses
<1>1. /\ UNCHANGED <<trades, link, gen, queued, series, repair, late>> /\ fill' = {}
  BY DEF FillReturns, FillFails, exchange, wire, history
<1>2. \A b \in Bars : bars'[b] \in {bars[b], trades[b]} /\ (b \notin fill => bars'[b] = bars[b])
  BY DEF FillReturns, FillFails, store, Sound, Parts, StoreTypes
<1>3. \A b \in Bars : /\ b \in Nat /\ bars[b] \in Nat /\ trades[b] \in Nat /\ repair.snap[b] \in Nat
                      /\ bars[b] <= trades[b]
  BY Numbers DEF Sound, Held
<1>4. NoneRegresses /\ Held'
  BY <1>1, <1>2, <1>3 DEF NoneRegresses, Held
<1>5. GapsBelow' /\ LoadSound' /\ RepairSound'
  BY <1>1 DEF Sound, GapsBelow, LoadSound, RepairSound, Loaded
<1>6. AnswerSound'
  <2> SUFFICES ASSUME Current, NEW b \in Bars \ (repair.touched \cup late), repair.snap[b] # 0
               PROVE  /\ bars'[b] <= repair.snap[b]
                      /\ repair.snap[b] # trades[b] =>
                           link = "dead" /\ \A c \in Bars : c > b => bars'[c] = 0
    <3>1. Current' = Current /\ UNCHANGED <<repair, trades, link, late>>
      BY <1>1 DEF Current
    <3>2. Current => \A b \in Bars : repair.snap[b] <= trades[b]
      BY DEF Sound, AnswerSound
    <3>3. QED
      BY <3>1, <3>2 DEF AnswerSound
  <2>1. /\ bars[b] <= repair.snap[b]
        /\ repair.snap[b] # trades[b] => link = "dead" /\ \A c \in Bars : c > b => bars[c] = 0
    BY DEF Sound, AnswerSound
  <2>2. CASE repair.snap[b] = trades[b]
    BY <1>2, <1>3, <2>1, <2>2
  <2>3. CASE repair.snap[b] # trades[b]
    <3>1. \A c \in Bars : c > b => bars[c] = 0
      BY <2>1, <2>3
    <3>2. \A c \in Bars : c \in fill => \E d \in Bars : d > c /\ bars[d] # 0
      BY DEF Sound, GapsBelow
    <3>3. \A c \in Bars : c > b \/ c = b => c \notin fill
      BY <1>3, <3>1, <3>2
    <3>4. bars'[b] = bars[b] /\ \A c \in Bars : c > b => bars'[c] = bars[c]
      BY <1>2, <3>3
    <3>5. QED
      BY <2>1, <2>3, <3>1, <3>4
  <2>4. QED
    BY <2>2, <2>3
<1>7. QED
  BY <1>4, <1>5, <1>6 DEF Sound

\* Maintenance, whether the link is up or not.
LEMMA MaintainStep ==
  ASSUME Sound, Parts', Maintain
  PROVE  Sound' /\ NoneRegresses
<1>1. /\ UNCHANGED <<trades, bars, link, gen, queued, series, late>> /\ Loaded
      /\ \/ CheckGaps(bars) /\ repair' = repair
         \/ repair' = Request(barrier) /\ fill' = fill
  BY DEF Maintain, exchange, wire, store, history
<1>2. Parts /\ RepairSound /\ gen \in Nat /\ barrier \in 0..LastBar + 2 /\ (queued' => queued)
  BY <1>1, Numbers DEF Sound, Parts, StoreTypes
<1>3. NoneRegresses
  BY <1>1, <1>2, Numbers DEF NoneRegresses
<1>4. Held' /\ LoadSound'
  BY <1>1 DEF Sound, Held, LoadSound
<1>5. CASE CheckGaps(bars) /\ repair' = repair
  <2>1. CheckGaps(bars')
    BY <1>1, <1>5
  <2>2. GapsBelow'
    BY <1>2, <1>3, <2>1, CheckGapsBelow DEF Sound
  <2>3. RepairSound' /\ AnswerSound'
    BY <1>1, <1>5 DEF Sound, RepairSound, AnswerSound, Current, Loaded
  <2>4. QED
    BY <1>3, <1>4, <2>2, <2>3 DEF Sound
<1>6. CASE repair' = Request(barrier) /\ fill' = fill
  <2>1. GapsBelow'
    BY <1>1, <1>6 DEF Sound, GapsBelow
  <2>2. repair'.at = "sent" /\ repair'.gen = gen /\ repair'.snap = Nothing
    BY <1>2, <1>6, RequestFresh
  <2>3. RepairSound' /\ AnswerSound'
    BY <1>1, <1>2, <2>2, FreshRequest
  <2>4. QED
    BY <1>3, <1>4, <2>1, <2>3 DEF Sound
<1>7. QED
  BY <1>1, <1>5, <1>6

\* The first load: its closed bars are whole, and no resync runs beside it.
LEMMA LoadStep ==
  ASSUME Sound, Parts', LoadAnswers \/ LoadReceives
  PROVE  Sound' /\ NoneRegresses
<1>1. /\ UNCHANGED <<trades, link, gen, queued, repair>>
      /\ ~Loaded /\ repair.at = "none" /\ ~queued
  BY DEF LoadAnswers, LoadReceives, Loaded, exchange, wire, Sound, RepairSound
<1>2. \A b \in Bars : /\ b \in Nat /\ bars[b] \in Nat /\ trades[b] \in Nat
                      /\ series.snap[b] \in Nat /\ bars[b] <= trades[b]
  BY Numbers DEF Sound, Held
<1>3. RepairSound' /\ AnswerSound'
  BY <1>1 DEF RepairSound, AnswerSound, Current
<1>4. CASE LoadAnswers
  <2>1. UNCHANGED <<bars, fill>>
    BY <1>4 DEF LoadAnswers, store
  <2>2. NoneRegresses /\ Held' /\ GapsBelow'
    BY <1>1, <1>2, <2>1 DEF Sound, NoneRegresses, Held, GapsBelow
  <2>3. \A b \in Bars : series'.snap[b] = IF b <= clock THEN trades[b] ELSE 0
    BY <1>4 DEF LoadAnswers
  <2>4. clock \in Nat
    BY DEF Sound, Parts, ClockTypes, Periods
  <2>5. \A b \in Bars : series'.snap[b] <= trades[b]
    BY <1>2, <2>3
  <2>6. ASSUME NEW b \in Bars, NEW c \in Bars, c > b, series'.snap[c] # 0
        PROVE  series'.snap[b] = trades[b]
    BY <1>2, <2>3, <2>4, <2>6
  <2>7. LoadSound'
    BY <1>1, <2>5, <2>6 DEF LoadSound
  <2>8. QED
    BY <1>3, <2>2, <2>7 DEF Sound
<1>5. CASE LoadReceives
  <2>1. /\ series.at = "answered" /\ series'.at = "loaded"
        /\ bars' = [b \in Bars |->
                      IF bars[b] # 0 /\ (b >= Newest(series.snap) \/ series.snap[b] = 0)
                      THEN bars[b] ELSE series.snap[b]]
        /\ CheckGaps(bars')
    BY <1>5 DEF LoadReceives
  <2>2. \A b \in Bars : /\ series.snap[b] <= trades[b]
                        /\ \A c \in Bars : c > b /\ series.snap[c] # 0 => series.snap[b] = trades[b]
    BY <2>1 DEF Sound, LoadSound
  <2>3. series.snap \in [Bars -> Nat]
    BY HeldNumbers DEF Sound, Parts, SeriesType
  <2>4. ASSUME NEW b \in Bars
        PROVE  bars'[b] >= bars[b] /\ bars'[b] <= trades[b]
    <3>1. CASE bars[b] # 0 /\ (b >= Newest(series.snap) \/ series.snap[b] = 0)
      BY <1>2, <2>1, <3>1
    <3>2. CASE bars[b] = 0
      BY <1>2, <2>1, <2>2, <3>2
    <3>3. CASE bars[b] # 0 /\ ~(b >= Newest(series.snap)) /\ series.snap[b] # 0
      <4>1. Newest(series.snap) \in Bars /\ series.snap[Newest(series.snap)] # 0
            /\ Newest(series.snap) > b
        BY <1>2, <2>3, <3>3, NewestHeld
      <4>2. series.snap[b] = trades[b]
        BY <2>2, <4>1
      <4>3. bars'[b] = series.snap[b]
        BY <2>1, <3>3
      <4>4. QED
        BY <1>2, <4>2, <4>3
    <3>4. QED
      BY <3>1, <3>2, <3>3
  <2>5. NoneRegresses /\ Held'
    <3>1. \A b \in Bars : bars[b] # 0 => bars'[b] # 0
      BY <1>2, <2>1
    <3>2. QED
      BY <1>1, <2>4, <3>1 DEF NoneRegresses, Held
  <2>6. GapsBelow'
    BY <2>1, <2>5, CheckGapsBelow DEF Sound
  <2>7. LoadSound'
    BY <2>1 DEF LoadSound
  <2>8. QED
    BY <1>3, <2>5, <2>6, <2>7 DEF Sound
<1>6. QED
  BY <1>4, <1>5

LEMMA SoundStep ==
  ASSUME Sound, [Next]_vars
  PROVE  Sound' /\ NoneRegresses
<1>1. Parts'
  BY MarketKeepsTypes, LinkKeepsTypes, ResyncKeepsTypes, StoreKeepsTypes, StutterKeepsTypes
  DEF Sound, Next
<1>2. CASE Next
  BY <1>1, <1>2, QuietSteps, TradeStep, ResyncStep, FillStep, MaintainStep, LoadStep DEF Next
<1>3. CASE UNCHANGED vars
  <2>1. NoneRegresses
    BY <1>3, Numbers DEF NoneRegresses, vars, store, Sound
  <2>2. Sound'
    BY <1>1, <1>3 DEF Sound, Held, GapsBelow, LoadSound, RepairSound, AnswerSound, Current, Loaded,
          vars, exchange, wire, store, requests, history
  <2>3. QED
    BY <2>1, <2>2
<1>4. QED
  BY <1>2, <1>3

\* A bar held never goes back to an earlier version (wsVersions and the merges of
\* candleStore.ts), for every number of bars, trades, interruptions and faults,
\* whether the clocks agree, whenever the link breaks and whenever maintenance
\* resyncs, except for a bar that traded while the connection was down, after an
\* answer that is still to be merged.
THEOREM NeverRegressesHolds == Spec => NeverRegresses
<1>1. Init => Sound
  BY InitSound
<1>2. Sound /\ [Next]_vars => Sound'
  BY SoundStep
<1>3. Sound /\ [Next]_vars => [\A b \in Bars \ late : bars'[b] >= bars[b]]_vars
  BY SoundStep DEF NoneRegresses
<1>4. QED
  BY <1>1, <1>2, <1>3, PTL DEF Spec, NeverRegresses

----------------------------------------------------------------------------
(* WholeHistory.  While the link is up and no recovery pending, the bars    *)
(* held are the exchange's bars, unsure ones aside; a recovery keeps        *)
(* everything before its barrier, and the answer to a resync that may lift  *)
(* the barrier completes the rest, what traded behind its back (late)       *)
(* aside.  A link that breaks before the load leaves no barrier (Astray):   *)
(* nothing is said of the bars until the next connection.                   *)

Behind(b) == \E c \in Bars : c > b /\ bars[c] # 0

\* The link broke before the load: no barrier stands, and the next connection
\* leaves every bar so far unsure.
Astray == link = "down" /\ barrier = 0

\* Only the bar after the local clock's may have traded ahead of it.
Market ==
  /\ trades[1] # 0
  /\ \A b \in Bars : b > clock /\ trades[b] # 0 => b = clock + 1 /\ clock \in overrun

\* What traded ahead of the local clock was brought by the websocket.
Ahead == \A b \in Bars \ unsure : b > clock => bars[b] = trades[b]

\* Before the load nothing is pending, and what is held is whole.
Loading ==
  ~Loaded => /\ barrier = 0 /\ fill = {} /\ late = {}
             /\ \A b \in Bars \ unsure : bars[b] # 0 => bars[b] = trades[b]

\* What has traded since the history was read is held, and the history ends there.
LoadWhole ==
  series.at = "answered" =>
    /\ series.snap[1] # 0
    /\ \A b \in Bars \ unsure :
         \/ series.snap[b] = trades[b]
         \/ bars[b] # 0 /\ \A c \in Bars : c > b => series.snap[c] = 0

Live == Loaded /\ link = "up" /\ barrier = 0 => \A b \in Bars \ unsure : bars[b] = trades[b]

\* What lies before the barrier, or before the newest bar held, is whole.
Anchored ==
  Loaded => /\ bars[1] # 0
            /\ barrier = 0 /\ ~Astray => \A b \in Bars \ unsure : Behind(b) => bars[b] = trades[b]
            /\ barrier # 0 => /\ barrier \in Bars /\ bars[barrier] # 0
                              /\ \A b \in Bars \ unsure : b < barrier => bars[b] = trades[b]

\* What traded behind the back of an answer lies at the barrier or after it.
Overtook ==
  /\ late \subseteq Bars
  /\ \A b \in late \ unsure : b <= clock /\ (~Astray => barrier # 0 /\ barrier <= b)

\* A resync of this connection that is not merged yet.
Open        == repair.at \in {"sent", "answered"} /\ repair.gen = gen
Answered    == repair.at = "answered" /\ Fresh
InWindow(b) == b \in repair.from..repair.upto /\ b \notin repair.touched

\* Its window: a bar held lies in it or after it, the websocket touches its last
\* bar or later ones.
Window ==
  Open => /\ repair.upto <= clock
          /\ link = "down" => repair.touched = {}
          /\ \A b \in repair.touched : b >= repair.upto /\ bars[b] # 0
          /\ \E c \in Bars : c >= repair.from /\ bars[c] # 0
          /\ \A b \in Bars : repair.snap[b] # 0 => b \in repair.from..repair.upto

\* The bars that the answer has to be right about.
Vouched == Bars \ (unsure \cup late)

\* What lies before the window is whole.
Started == Open /\ ~Astray => \A b \in Bars \ unsure : b < repair.from => bars[b] = trades[b]

\* What the websocket has brought since the request is whole; once the link is
\* dead, below the newest bar held.
Heard ==
  Open /\ ~Astray =>
    \A b \in Vouched : (b \in repair.touched \/ b > repair.upto) /\ (link # "dead" \/ Behind(b))
                         => bars[b] = trades[b]

\* The answer is whole for the other bars of the window, with the same reservation.
Told ==
  Open /\ Answered /\ ~Astray =>
    \A b \in Vouched :
      InWindow(b) /\ (link # "dead" \/ Behind(b) \/ \E c \in Bars : c > b /\ repair.snap[c] # 0)
        => repair.snap[b] = trades[b]

\* A merged answer that may lift the barrier has completed the bars held.
Merged == repair.at = "merged" /\ repair.gen = gen /\ Fresh
Mended == Merged /\ ~Astray => \A b \in Vouched : link # "dead" \/ Behind(b) => bars[b] = trades[b]

Stored   == Market /\ Ahead /\ Loading /\ LoadWhole /\ Live /\ Anchored /\ Overtook
Repaired == Window /\ Started /\ Heard /\ Told /\ Mended
Whole    == Sound /\ Stored /\ Repaired

LEMMA BarNumbers ==
  ASSUME Sound
  PROVE  /\ \A b \in Bars : /\ b \in Nat /\ bars[b] \in Nat /\ trades[b] \in Nat
                            /\ series.snap[b] \in Nat /\ repair.snap[b] \in Nat
                            /\ bars[b] <= trades[b]
         /\ 1 \in Bars /\ clock \in Nat /\ clock >= 1 /\ gen \in Nat /\ repair.gen \in Nat
         /\ barrier \in Nat /\ repair.from \in Nat /\ repair.upto \in Nat
         /\ repair.touched \subseteq Bars /\ fill \subseteq Bars
<1>1. \A b \in Bars : /\ b \in Nat /\ bars[b] \in Nat /\ trades[b] \in Nat
                      /\ series.snap[b] \in Nat /\ repair.snap[b] \in Nat
  BY Numbers DEF Sound
<1>2. gen \in Nat /\ repair.gen \in Nat /\ \A b \in Bars : bars[b] <= trades[b]
  BY Numbers DEF Sound, Held
<1>3. 1 \in Bars /\ clock \in Periods /\ barrier \in 0..LastBar + 2
  BY Constants DEF Sound, Parts, ClockTypes, StoreTypes, Bars
<1>4. barrier \in Nat /\ clock \in Nat /\ clock >= 1
  BY <1>3, Constants DEF Periods
<1>5. repair.from \in Periods /\ repair.upto \in Periods /\ repair.touched \subseteq Bars
  BY DEF Sound, Parts, RepairType
<1>6. repair.from \in Nat /\ repair.upto \in Nat
  BY <1>5, Constants DEF Periods
<1>7. QED
  BY <1>1, <1>2, <1>3, <1>4, <1>5, <1>6 DEF Sound, Parts, WaiterTypes

\* The newest bar held, once the first bar is.
LEMMA NewestIs ==
  ASSUME Sound, bars[1] # 0
  PROVE  /\ Newest(bars) \in Bars /\ bars[Newest(bars)] # 0
         /\ \A b \in Bars : Behind(b) <=> b < Newest(bars)
<1>1. bars \in [Bars -> Nat]
  BY HeldNumbers DEF Sound, Parts, StoreTypes
<1>2. /\ Newest(bars) \in 0..LastBar
      /\ \A b \in Bars : bars[b] # 0 => b <= Newest(bars)
      /\ Newest(bars) # 0 => Newest(bars) \in Bars /\ bars[Newest(bars)] # 0
  BY <1>1, NewestHeld
<1>3. Newest(bars) # 0
  BY <1>2, BarNumbers
<1>4. ASSUME NEW b \in Bars PROVE Behind(b) <=> b < Newest(bars)
  BY <1>2, <1>3, BarNumbers DEF Behind
<1>5. QED
  BY <1>2, <1>3, <1>4

\* Nothing held follows the bar the exchange trades.
LEMMA TradeIs ==
  ASSUME Sound, NEW b \in Forming
  PROVE  /\ b \in Bars /\ b \in {clock, clock + 1} /\ ~Behind(b)
         /\ \A c \in Bars : c > b => trades[c] = 0 /\ bars[c] = 0
<1>1. b \in Bars /\ b \in {clock, clock + 1} /\ \A c \in Bars : c > b => trades[c] = 0
  BY DEF Forming
<1>2. \A c \in Bars : c > b => bars[c] = 0
  BY <1>1, BarNumbers
<1>3. QED
  BY <1>1, <1>2 DEF Behind

LEMMA InitWhole == Init => Whole
<1> SUFFICES ASSUME Init PROVE Whole
  OBVIOUS
<1>1. Sound
  BY InitSound
<1>2. /\ clock = 1 /\ trades[1] # 0 /\ \A b \in Bars : b > 1 => trades[b] = 0
      /\ series.at = "loading" /\ link = "up" /\ barrier = 0 /\ fill = {}
      /\ bars = Nothing /\ repair = NoRepair /\ late = {}
  BY DEF Init
<1>3. Market /\ Ahead
  BY <1>2 DEF Market, Ahead, Nothing
<1>4. Loading /\ LoadWhole /\ Live /\ Anchored /\ Overtook
  BY <1>2 DEF Loading, LoadWhole, Live, Anchored, Overtook, Loaded, Nothing
<1>5. Window /\ Started /\ Heard /\ Told /\ Mended
  BY <1>2 DEF Window, Started, Heard, Told, Mended, Open, Merged, NoRepair
<1>6. QED
  BY <1>1, <1>3, <1>4, <1>5 DEF Whole, Stored, Repaired

\* Without a resync under way there is nothing to say of one.
LEMMA NoResync ==
  ASSUME repair'.at = "none" \/ (repair'.gen # gen')
  PROVE  Repaired'
BY DEF Repaired, Window, Started, Heard, Told, Mended, Open, Merged

\* A request starts with nothing heard, before or at the newest bar held.
LEMMA RequestRepaired ==
  ASSUME Whole, repair' = Request(barrier), Loaded,
         UNCHANGED <<clock, trades, bars, link, gen, barrier, unsure>>
  PROVE  Repaired'
<1> DEFINE start == Earlier(IF barrier # 0 THEN barrier ELSE Newest(bars))
<1>1. Sound /\ Market /\ Ahead /\ Anchored /\ Parts /\ barrier \in 0..LastBar + 2
  BY DEF Whole, Stored, Sound, Parts, StoreTypes
<1>2. /\ repair'.at = "sent" /\ repair'.upto = clock /\ repair'.touched = {}
      /\ repair'.snap = Nothing /\ repair'.from = Request(barrier).from
      /\ repair'.from \in Periods
  BY <1>1, RequestIs
<1>3. Request(barrier).from = start
  BY DEF Request
<1>4. bars[1] # 0 /\ Newest(bars) \in Bars /\ bars[Newest(bars)] # 0
      /\ \A b \in Bars : Behind(b) <=> b < Newest(bars)
  BY <1>1, NewestIs DEF Anchored
<1>5. PICK k \in Bars : /\ start <= k /\ bars[k] # 0
                        /\ ~Astray => \A b \in Bars \ unsure : b < k => bars[b] = trades[b]
  <2>1. CASE barrier # 0
    <3>1. barrier \in Bars /\ barrier \in Nat /\ start <= barrier
      BY <1>1, <2>1, BarNumbers DEF Earlier, Anchored, Bars
    <3>2. QED
      BY <1>1, <2>1, <3>1 DEF Anchored
  <2>2. CASE barrier = 0
    <3>1. Newest(bars) \in Nat /\ start <= Newest(bars)
      BY <1>1, <1>4, <2>2, BarNumbers DEF Earlier, Bars
    <3>2. QED
      BY <1>1, <1>4, <2>2, <3>1 DEF Anchored
  <2>3. QED
    BY <2>1, <2>2
<1>6. start \in Nat /\ k \in Nat
  BY <1>1, <1>2, <1>3, BarNumbers, Constants DEF Periods
<1> HIDE DEF start
<1>7. \A b \in Bars : b \in Nat /\ repair'.snap[b] = 0
  BY <1>1, <1>2, BarNumbers DEF Nothing
<1>8. clock <= clock
  BY <1>1, BarNumbers
<1>9. Window'
  BY <1>2, <1>3, <1>5, <1>7, <1>8 DEF Window
<1>10. Started'
  <2>1. \A b \in Bars : b < start => b < k
    BY <1>5, <1>6, <1>7
  <2>2. QED
    BY <1>2, <1>3, <1>5, <2>1 DEF Started, Astray
<1>11. Heard'
  BY <1>1, <1>2 DEF Heard, Vouched, Ahead
<1>12. Told' /\ Mended'
  BY <1>2 DEF Told, Mended, Answered, Merged
<1>13. QED
  BY <1>9, <1>10, <1>11, <1>12 DEF Repaired

\* Time passes, or a bar due is announced.
LEMMA TimeWhole ==
  ASSUME Whole, Sound', Tick \/ AnnounceDue
  PROVE  Whole'
<1>1. /\ UNCHANGED <<trades, link, gen, queued, series, bars, barrier, repair, fill, history>>
      /\ clock' = clock \/ clock' = clock + 1
  BY DEF Tick, AnnounceDue, exchange, wire, store, requests
<1>2. Sound /\ clock \in Nat /\ repair.upto \in Nat /\ \A b \in Bars : b \in Nat
  BY BarNumbers DEF Whole
<1>3. \A b \in Bars : b > clock' => b > clock
  BY <1>1, <1>2
<1>4. Market'
  BY <1>1, <1>2, <1>3 DEF Whole, Stored, Market, history
<1>5. Ahead' /\ Overtook'
  BY <1>1, <1>2, <1>3 DEF Whole, Stored, Ahead, Overtook, Astray, history
<1>6. Loading' /\ LoadWhole' /\ Live' /\ Anchored'
  BY <1>1 DEF Whole, Stored, Loading, LoadWhole, Live, Anchored, Astray, Behind, Loaded, history
<1>7. Window'
  BY <1>1, <1>2 DEF Whole, Repaired, Window, Open
<1>8. Started' /\ Heard' /\ Told' /\ Mended'
  BY <1>1 DEF Whole, Repaired, Started, Heard, Told, Mended, Vouched, Open, Answered, Fresh, InWindow,
     Merged, Astray, Behind, history
<1>9. QED
  BY <1>4, <1>5, <1>6, <1>7, <1>8 DEF Whole, Stored, Repaired

\* The link dies.
LEMMA DeadWhole ==
  ASSUME Whole, Sound', Dies
  PROVE  Whole'
<1>1. /\ UNCHANGED <<clock, trades, series, bars, repair, fill, gen, barrier, late, unsure, overrun>>
      /\ link = "up" /\ link' = "dead"
  BY DEF Dies, exchange, store, requests, history
<1>2. Stored'
  BY <1>1 DEF Whole, Stored, Market, Ahead, Loading, LoadWhole, Live, Anchored, Overtook, Astray,
     Behind, Loaded
<1>3. Window' /\ Started' /\ Mended'
  BY <1>1 DEF Whole, Repaired, Window, Started, Mended, Vouched, Open, Merged, Fresh, Astray, Behind
<1>4. Heard' /\ Told'
  BY <1>1 DEF Whole, Repaired, Heard, Told, Vouched, Open, Answered, Fresh, InWindow, Astray, Behind
<1>5. QED
  BY <1>2, <1>3, <1>4 DEF Whole, Repaired

\* The status handler of a loaded series raises the barrier.
LEMMA BrokenWhole ==
  ASSUME Whole, Sound', Drops \/ HeartbeatLost
  PROVE  Whole'
<1>1. UNCHANGED <<clock, trades, series, bars, repair, fill, late, unsure, overrun>>
  BY DEF Drops, HeartbeatLost, Disconnected, exchange, requests, history
<1>2. /\ link' = "down" /\ gen' = gen + 1 /\ barrier' = (IF Loaded THEN From ELSE barrier) /\ ~Astray
  BY DEF Drops, HeartbeatLost, Disconnected, Astray
<1>3. Sound
  BY DEF Whole
<1>4. Market' /\ Ahead' /\ LoadWhole' /\ Live'
  BY <1>1, <1>2 DEF Whole, Stored, Market, Ahead, LoadWhole, Live
<1>5. Repaired'
  <2>1. repair.at # "none" => repair.gen <= gen
    BY <1>3 DEF Sound, RepairSound
  <2>2. repair'.at = "none" \/ repair'.gen # gen'
    BY <1>1, <1>2, <1>3, <2>1, BarNumbers
  <2>3. QED
    BY <2>2, NoResync
<1>6. CASE ~Loaded
  <2>1. barrier' = 0 /\ ~Loaded'
    BY <1>1, <1>2, <1>6 DEF Whole, Stored, Loading, Loaded
  <2>2. Loading' /\ Anchored' /\ Overtook'
    BY <1>1, <1>2, <1>6, <2>1 DEF Whole, Stored, Loading, Anchored, Overtook, Astray
  <2>3. QED
    BY <1>4, <1>5, <2>2 DEF Whole, Stored
<1>7. CASE Loaded
  <2>1. Loaded' /\ barrier' = From
    BY <1>1, <1>2, <1>7 DEF Loaded
  <2>2. bars[1] # 0
    BY <1>7 DEF Whole, Stored, Anchored
  <2>3. Newest(bars) \in Bars /\ bars[Newest(bars)] # 0 /\ Newest(bars) # 0
        /\ \A b \in Bars : Behind(b) <=> b < Newest(bars)
    BY <1>3, <2>2, NewestIs DEF Bars
  <2>4. CASE barrier # 0
    <3>1. barrier' = barrier
      BY <2>1, <2>4 DEF From
    <3>2. Loading' /\ Anchored' /\ Overtook'
      BY <1>1, <1>2, <1>7, <2>1, <2>4, <3>1
      DEF Whole, Stored, Loading, Anchored, Overtook, Astray
    <3>3. QED
      BY <1>4, <1>5, <3>2 DEF Whole, Stored
  <2>5. CASE barrier = 0
    <3>1. barrier' = Newest(bars)
      BY <2>1, <2>3, <2>5 DEF From
    <3>2. \A b \in Bars \ unsure : b < barrier' => bars[b] = trades[b]
      BY <1>2, <1>7, <2>3, <2>5, <3>1 DEF Whole, Stored, Anchored
    <3>3. Loading' /\ Anchored'
      BY <1>1, <2>1, <2>2, <2>3, <3>1, <3>2 DEF Loading, Anchored
    <3>4. Overtook'
      BY <1>1, <1>2, <2>5 DEF Whole, Stored, Overtook
    <3>5. QED
      BY <1>4, <1>5, <3>3, <3>4 DEF Whole, Stored
  <2>6. QED
    BY <2>4, <2>5
<1>8. QED
  BY <1>6, <1>7

\* The link returns.  Without a barrier every bar so far is unsure.
LEMMA ConnectWhole ==
  ASSUME Whole, Sound', Connect
  PROVE  Whole'
<1>1. /\ UNCHANGED <<clock, trades, series, bars, repair, fill, gen, barrier, late, overrun>>
      /\ link = "down" /\ link' = "up"
      /\ unsure' = IF Loaded /\ barrier = 0 THEN unsure \cup {b \in Bars : b <= clock} ELSE unsure
  BY DEF Connect, exchange, store, requests
<1>2. Sound /\ Loaded' = Loaded /\ unsure \subseteq unsure' /\ ~Astray'
  BY <1>1 DEF Whole, Loaded, Astray
<1>3. Market' /\ Ahead' /\ Loading' /\ LoadWhole'
  BY <1>1, <1>2 DEF Whole, Stored, Market, Ahead, Loading, LoadWhole
<1>4. Window'
  BY <1>1 DEF Whole, Repaired, Window, Open
<1>5. CASE barrier # 0
  <2>1. unsure' = unsure /\ ~Astray
    BY <1>1, <1>5 DEF Astray
  <2>2. Live' /\ Anchored' /\ Overtook'
    BY <1>1, <1>2, <1>5, <2>1 DEF Whole, Stored, Live, Anchored, Overtook
  <2>3. Started' /\ Heard' /\ Told' /\ Mended'
    BY <1>1, <2>1 DEF Whole, Repaired, Started, Heard, Told, Mended, Vouched, Open, Answered, Fresh,
       InWindow, Merged, Behind
  <2>4. QED
    BY <1>3, <1>4, <2>2, <2>3 DEF Whole, Stored, Repaired
<1>6. CASE ~Loaded
  <2>1. repair'.at = "none"
    BY <1>1, <1>2, <1>6 DEF Sound, RepairSound
  <2>2. Live' /\ Anchored' /\ Repaired'
    BY <1>1, <1>2, <1>6, <2>1, NoResync DEF Live, Anchored
  <2>3. late = {}
    BY <1>6 DEF Whole, Stored, Loading
  <2>4. Overtook'
    BY <1>1, <2>3 DEF Overtook
  <2>5. QED
    BY <1>3, <2>2, <2>4 DEF Whole, Stored
<1>7. CASE Loaded /\ barrier = 0
  <2>1. \A b \in Bars \ unsure' : b > clock
    BY <1>1, <1>2, <1>7, BarNumbers
  <2>2. \A b \in Bars \ unsure' : bars[b] = trades[b]
    BY <1>2, <2>1 DEF Whole, Stored, Ahead
  <2>3. Live' /\ Anchored'
    BY <1>1, <1>2, <1>7, <2>2 DEF Whole, Stored, Live, Anchored
  <2>4. Overtook'
    <3>1. late \subseteq Bars /\ \A b \in late \ unsure : b <= clock
      BY DEF Whole, Stored, Overtook
    <3>2. late \subseteq unsure'
      BY <1>1, <1>7, <3>1
    <3>3. QED
      BY <1>1, <3>1, <3>2 DEF Overtook
  <2>5. Started' /\ Heard' /\ Mended'
    BY <1>1, <2>2 DEF Started, Heard, Mended, Vouched
  <2>6. Told'
    <3>1. Open => repair.upto <= clock
      BY DEF Whole, Repaired, Window
    <3>2. \A b \in Bars \ unsure' : ~(Open /\ InWindow(b))
      BY <1>2, <2>1, <3>1, BarNumbers DEF InWindow
    <3>3. QED
      BY <1>1, <3>2 DEF Told, Vouched, Open, InWindow
  <2>7. QED
    BY <1>3, <1>4, <2>3, <2>4, <2>5, <2>6 DEF Whole, Stored, Repaired
<1>8. QED
  BY <1>5, <1>6, <1>7

\* A trade the websocket does not bring.
LEMMA UnseenTradeWhole ==
  ASSUME Whole, Sound', Trade, link # "up"
  PROVE  Whole'
<1>1. PICK b \in Forming :
        /\ trades' = [trades EXCEPT ![b] = @ + 1]
        /\ UNCHANGED <<bars, emitted, barrier, repair, fill>>
        /\ late' = IF Overtaken(b) THEN late \cup {b} ELSE late
        /\ unsure' = IF Unsecured(b) THEN unsure \cup {b} ELSE unsure
        /\ overrun' = IF b > clock THEN overrun \cup {clock} ELSE overrun
  BY DEF Trade
<1>2. Sound /\ Market
  BY DEF Whole, Stored
<1>3. /\ b \in Bars /\ b \in {clock, clock + 1} /\ ~Behind(b)
      /\ \A c \in Bars : c > b => trades[c] = 0 /\ bars[c] = 0
  BY <1>2, TradeIs
<1>4. UNCHANGED <<clock, link, gen, queued, series>>
  BY DEF Trade, wire
<1>5. \A c \in Bars : trades'[c] = IF c = b THEN trades[b] + 1 ELSE trades[c]
  BY <1>1, <1>2, <1>3 DEF Sound, Parts, ClockTypes
<1>6. clock \in Nat /\ \A c \in Bars : c \in Nat /\ trades[c] \in Nat /\ bars[c] \in Nat
  BY <1>2, BarNumbers
<1>7. /\ \A c \in Bars : Behind(c) => c # b /\ trades'[c] = trades[c]
      /\ \A c \in Bars : Behind(c)' <=> Behind(c)
      /\ Astray' = Astray /\ Loaded' = Loaded
  BY <1>1, <1>3, <1>4, <1>5 DEF Behind, Astray, Loaded
<1>8. unsure \subseteq unsure' /\ (b \notin unsure' => b = clock /\ Loaded)
  BY <1>1, <1>3, <1>6 DEF Unsecured
<1>9. Market'
  BY <1>1, <1>2, <1>3, <1>4, <1>5, <1>6, BarNumbers DEF Market
<1>10. Ahead' /\ Live'
  BY <1>1, <1>4, <1>5, <1>6, <1>8 DEF Whole, Stored, Ahead, Live
<1>11. ~Loaded => ~Overtaken(b)
  BY <1>2 DEF Overtaken, Sound, RepairSound
<1>12. Loading' /\ LoadWhole'
  <2>1. Loading'
    BY <1>1, <1>5, <1>7, <1>8, <1>11 DEF Whole, Stored, Loading
  <2>2. series.at = "answered" => ~Loaded
    BY DEF Loaded
  <2>3. LoadWhole'
    BY <1>1, <1>4, <1>5, <1>8, <2>2 DEF Whole, Stored, LoadWhole
  <2>4. QED
    BY <2>1, <2>3
<1>13. barrier # 0 /\ Loaded => barrier \in Bars /\ bars[barrier] # 0 /\ barrier <= b
  <2> SUFFICES ASSUME barrier # 0, Loaded PROVE barrier \in Bars /\ bars[barrier] # 0 /\ barrier <= b
    OBVIOUS
  <2>1. barrier \in Bars /\ bars[barrier] # 0
    BY DEF Whole, Stored, Anchored
  <2>2. ~(barrier > b) /\ barrier \in Nat /\ b \in Nat
    BY <1>3, <1>6, <2>1
  <2>3. QED
    BY <2>1, <2>2
<1>14. Anchored'
  <2>1. \A c \in Bars : barrier # 0 /\ Loaded /\ c < barrier => c # b
    BY <1>3, <1>6, <1>13
  <2>2. \A c \in Bars : barrier # 0 /\ Loaded /\ c < barrier => trades'[c] = trades[c]
    BY <1>5, <2>1
  <2>3. QED
    BY <1>1, <1>7, <1>8, <2>2 DEF Whole, Stored, Anchored
<1>15. Overtook'
  <2>1. Overtaken(b) /\ b \notin unsure' => b <= clock /\ (~Astray => barrier # 0 /\ barrier <= b)
    BY <1>6, <1>8, <1>13 DEF Overtaken, Astray
  <2>2. QED
    BY <1>1, <1>3, <1>4, <1>7, <1>8, <2>1 DEF Whole, Stored, Overtook
<1>16. Open' = Open /\ Answered' = Answered /\ Merged' = Merged
  BY <1>1, <1>4 DEF Open, Answered, Merged, Fresh
<1>17. Window'
  BY <1>1, <1>4, <1>16 DEF Whole, Repaired, Window
<1>18. Open => \A c \in Bars : c < repair.from => Behind(c)
  <2>1. Open => \E c \in Bars : c >= repair.from /\ bars[c] # 0
    BY DEF Whole, Repaired, Window
  <2>2. repair.from \in Nat
    BY <1>2, BarNumbers
  <2>3. QED
    BY <1>6, <2>1, <2>2 DEF Behind
<1>19. Started'
  BY <1>1, <1>7, <1>8, <1>16, <1>18 DEF Whole, Repaired, Started
\* While the connection is known to be down, a trade the answer misses is late.
<1>20. Vouched' \subseteq Vouched /\ Vouched' \subseteq Bars
       /\ (Open /\ b \in Vouched' => link = "dead" \/ (repair.at = "sent" /\ ~(b > repair.upto)))
       /\ (Merged /\ b \in Vouched' => link = "dead")
  <2>1. Vouched' \subseteq Vouched /\ Vouched' \subseteq Bars
    BY <1>1, <1>8 DEF Vouched
  <2>2. b \in Vouched' => ~Overtaken(b)
    BY <1>1 DEF Vouched
  <2>3. link \in {"dead", "down"}
    BY <1>2 DEF Sound, Parts, WireTypes
  <2>4. QED
    BY <2>1, <2>2, <2>3 DEF Overtaken, Open, Merged
<1>21. Heard'
  <2> SUFFICES ASSUME Open, ~Astray, NEW c \in Vouched', link # "dead" \/ Behind(c),
                      c \in repair.touched \/ c > repair.upto
               PROVE  bars[c] = trades'[c]
    BY <1>1, <1>4, <1>7, <1>16, <1>20 DEF Heard
  <2>1. bars[c] = trades[c] /\ c \in Bars
    BY <1>20 DEF Whole, Repaired, Heard, Vouched
  <2>2. CASE Behind(c)
    BY <1>7, <2>1, <2>2
  <2>3. CASE ~Behind(c)
    <3>1. link = "down"
      BY <1>2, <2>3 DEF Sound, Parts, WireTypes
    <3>2. repair.touched = {}
      BY <3>1 DEF Whole, Repaired, Window
    <3>3. c # b
      BY <1>20, <3>1, <3>2
    <3>4. QED
      BY <1>5, <2>1, <3>3
  <2>4. QED
    BY <2>2, <2>3
<1>22. Told'
  <2> SUFFICES ASSUME Open, Answered, ~Astray, NEW c \in Vouched', InWindow(c),
                      link # "dead" \/ Behind(c) \/ \E d \in Bars : d > c /\ repair.snap[d] # 0
               PROVE  repair.snap[c] = trades'[c]
    BY <1>1, <1>4, <1>7, <1>16, <1>20 DEF Told, InWindow
  <2>1. repair.snap[c] = trades[c] /\ c \in Bars
    BY <1>20 DEF Whole, Repaired, Told, Vouched
  <2>2. c # b
    <3>1. CASE link # "dead"
      BY <1>20, <3>1 DEF Answered
    <3>2. CASE Behind(c)
      BY <1>7, <2>1, <3>2
    <3>3. CASE \E d \in Bars : d > c /\ repair.snap[d] # 0
      <4>1. PICK d \in Bars : d > c /\ repair.snap[d] # 0
        BY <3>3
      <4>2. repair.snap[d] <= trades[d] /\ repair.snap[d] \in Nat
        BY <1>2, BarNumbers DEF Sound, AnswerSound, Current, Open, Answered
      <4>3. trades[d] # 0
        BY <1>6, <4>1, <4>2
      <4>4. QED
        BY <1>3, <4>1, <4>3
    <3>4. QED
      BY <3>1, <3>2, <3>3
  <2>3. QED
    BY <1>5, <2>1, <2>2
<1>23. Mended'
  <2> SUFFICES ASSUME Merged, ~Astray, NEW c \in Vouched', link # "dead" \/ Behind(c)
               PROVE  bars[c] = trades'[c]
    BY <1>1, <1>4, <1>7, <1>16, <1>20 DEF Mended
  <2>1. bars[c] = trades[c] /\ c \in Bars
    BY <1>20 DEF Whole, Repaired, Mended, Vouched
  <2>2. c # b
    BY <1>7, <1>20, <2>1
  <2>3. QED
    BY <1>5, <2>1, <2>2
<1>24. QED
  BY <1>9, <1>10, <1>12, <1>14, <1>15, <1>17, <1>19, <1>21, <1>22, <1>23 DEF Whole, Stored, Repaired

\* A trade the websocket brings.
LEMMA SeenTradeWhole ==
  ASSUME Whole, Sound', Trade, link = "up"
  PROVE  Whole'
<1>1. PICK b \in Forming :
        /\ trades' = [trades EXCEPT ![b] = @ + 1] /\ OnWsCandle(b)
        /\ UNCHANGED <<late, unsure>>
        /\ overrun' = IF b > clock THEN overrun \cup {clock} ELSE overrun
  BY DEF Trade
<1>2. Sound /\ Market
  BY DEF Whole, Stored
<1>3. /\ b \in Bars /\ b \in {clock, clock + 1} /\ ~Behind(b)
      /\ \A c \in Bars : c > b => trades[c] = 0 /\ bars[c] = 0
  BY <1>2, TradeIs
<1>4. UNCHANGED <<clock, link, gen, queued, series, barrier>>
  BY <1>1 DEF Trade, wire, OnWsCandle
<1>5. \A c \in Bars : trades'[c] = IF c = b THEN trades[b] + 1 ELSE trades[c]
  BY <1>1, <1>2, <1>3 DEF Sound, Parts, ClockTypes
<1>6. \A c \in Bars : bars'[c] = IF c = b THEN trades'[b] ELSE bars[c]
  BY <1>1, <1>2, <1>3 DEF OnWsCandle, Sound, Parts, StoreTypes
<1>7. clock \in Nat /\ \A c \in Bars : c \in Nat /\ trades[c] \in Nat /\ bars[c] \in Nat
  BY <1>2, BarNumbers
<1>8. /\ bars'[b] # 0
      /\ \A c \in Bars : /\ bars[c] = trades[c] => bars'[c] = trades'[c]
                         /\ bars[c] # 0 => bars'[c] # 0
      /\ Astray' = Astray /\ Loaded' = Loaded /\ Vouched' = Vouched
  BY <1>1, <1>3, <1>4, <1>5, <1>6, <1>7 DEF Astray, Loaded, Vouched
<1>9. Market'
  BY <1>1, <1>2, <1>3, <1>4, <1>5, <1>7, BarNumbers DEF Market
<1>10. Ahead' /\ Live'
  BY <1>1, <1>4, <1>8 DEF Whole, Stored, Ahead, Live
<1>11. Loading'
  <2> SUFFICES ASSUME ~Loaded PROVE Loading'
    BY <1>8 DEF Loading
  <2>1. barrier = 0 /\ fill = {} /\ late = {} /\ \A c \in Bars \ unsure : bars[c] # 0 => bars[c] = trades[c]
    BY DEF Whole, Stored, Loading
  <2>2. fill' = fill
    BY <1>1 DEF OnWsCandle, Jumped
  <2>3. \A c \in Bars \ unsure' : bars'[c] # 0 => bars'[c] = trades'[c]
    BY <1>1, <1>5, <1>6, <2>1
  <2>4. QED
    BY <1>1, <1>4, <2>1, <2>2, <2>3 DEF Loading
<1>12. LoadWhole'
  <2> SUFFICES ASSUME series.at = "answered", NEW c \in Bars \ unsure
               PROVE  \/ series.snap[c] = trades'[c]
                      \/ bars'[c] # 0 /\ \A d \in Bars : d > c => series.snap[d] = 0
    BY <1>1, <1>4 DEF Whole, Stored, LoadWhole
  <2>1. \A d \in Bars : series.snap[d] <= trades[d] /\ series.snap[d] \in Nat
    BY <1>2, BarNumbers DEF Sound, LoadSound
  <2>2. CASE c = b
    BY <1>3, <1>7, <1>8, <2>1, <2>2
  <2>3. CASE c # b
    BY <1>5, <1>8, <2>3 DEF Whole, Stored, LoadWhole
  <2>4. QED
    BY <2>2, <2>3
<1>13. Anchored'
  <2> SUFFICES ASSUME Loaded PROVE Anchored'
    BY <1>8 DEF Anchored
  <2>1. bars'[1] # 0
    BY <1>2, <1>8, BarNumbers DEF Whole, Stored, Anchored
  <2>2. barrier = 0 => \A c \in Bars \ unsure : bars'[c] = trades'[c]
    BY <1>8 DEF Whole, Stored, Live
  <2>3. barrier # 0 => /\ barrier \in Bars /\ bars'[barrier] # 0
                       /\ \A c \in Bars \ unsure : c < barrier => bars'[c] = trades'[c]
    BY <1>8 DEF Whole, Stored, Anchored
  <2>4. QED
    BY <1>1, <1>4, <2>1, <2>2, <2>3 DEF Anchored
<1>14. Overtook'
  BY <1>1, <1>4, <1>8 DEF Whole, Stored, Overtook
<1>15. /\ repair'.at = repair.at /\ repair'.gen = repair.gen /\ repair'.snap = repair.snap
       /\ repair'.from = repair.from /\ repair'.upto = repair.upto
       /\ repair.at # "none" => repair'.touched = repair.touched \cup {b}
  BY <1>1, <1>2 DEF OnWsCandle, Sound, Parts, RepairType
<1>16. /\ Open' = Open /\ Answered' = Answered /\ Merged' = Merged
       /\ Open => repair'.touched = repair.touched \cup {b}
       /\ repair.from \in Nat /\ repair.upto \in Nat
  BY <1>2, <1>4, <1>15, BarNumbers DEF Open, Answered, Merged, Fresh
<1>17. Window'
  <2> SUFFICES ASSUME Open PROVE Window'
    BY <1>16 DEF Window
  <2>1. repair.upto <= clock /\ \A c \in repair.touched : c \in Bars /\ c >= repair.upto /\ bars[c] # 0
    BY <1>2, BarNumbers DEF Whole, Repaired, Window
  <2>2. \A c \in repair'.touched : c >= repair.upto /\ bars'[c] # 0
    <3>1. b >= repair.upto
      BY <1>3, <1>7, <1>16, <2>1
    <3>2. QED
      BY <1>8, <1>16, <2>1, <3>1
  <2>3. \E c \in Bars : c >= repair.from /\ bars'[c] # 0
    BY <1>8 DEF Whole, Repaired, Window
  <2>4. QED
    BY <1>4, <1>15, <2>1, <2>2, <2>3 DEF Whole, Repaired, Window
<1>18. Started'
  BY <1>1, <1>8, <1>15, <1>16 DEF Whole, Repaired, Started
<1>19. Heard'
  <2> SUFFICES ASSUME Open, ~Astray, NEW c \in Vouched, c \in repair'.touched \/ c > repair.upto
               PROVE  bars'[c] = trades'[c]
    BY <1>8, <1>15, <1>16 DEF Heard
  <2>1. c \in Bars /\ (c = b \/ c \in repair.touched \/ c > repair.upto)
    BY <1>16 DEF Vouched
  <2>2. QED
    BY <1>6, <1>8, <2>1 DEF Whole, Repaired, Heard
<1>20. Told'
  <2> SUFFICES ASSUME Open, Answered, ~Astray, NEW c \in Vouched, InWindow(c)'
               PROVE  repair.snap[c] = trades'[c]
    BY <1>8, <1>15, <1>16 DEF Told
  <2>1. c \in Bars /\ c # b /\ InWindow(c)
    BY <1>15, <1>16 DEF InWindow, Vouched
  <2>2. QED
    BY <1>5, <2>1 DEF Whole, Repaired, Told
<1>21. Mended'
  <2>1. Merged /\ ~Astray => \A c \in Vouched : bars'[c] = trades'[c]
    BY <1>8 DEF Whole, Repaired, Mended, Vouched
  <2>2. QED
    BY <1>8, <1>16, <2>1 DEF Mended
<1>22. QED
  BY <1>9, <1>10, <1>11, <1>12, <1>13, <1>14, <1>17, <1>18, <1>19, <1>20, <1>21
  DEF Whole, Stored, Repaired

\* What a request, a failure or an answer leaves of the store.
LEMMA StoredStays ==
  ASSUME Whole, Loaded, late' \in {late, {}},
         UNCHANGED <<clock, trades, bars, link, series, barrier, unsure, overrun>>
  PROVE  Stored'
<1>1. Loaded' /\ Astray' = Astray
  BY DEF Loaded, Astray
<1>2. Market' /\ Ahead' /\ Loading' /\ LoadWhole' /\ Live' /\ Anchored'
  BY <1>1 DEF Whole, Stored, Market, Ahead, Loading, LoadWhole, Live, Anchored, Loaded, Behind
<1>3. Overtook'
  BY <1>1 DEF Whole, Stored, Overtook
<1>4. QED
  BY <1>2, <1>3 DEF Stored

\* A request, an answer of REST, a failure.
LEMMA AskedWhole ==
  ASSUME Whole, Sound', ResyncTurn \/ RestAnswers \/ RestAnswersNothing \/ RepairFails
  PROVE  Whole'
<1>1. /\ UNCHANGED <<clock, trades, bars, link, gen, series, barrier, fill, unsure, overrun>>
      /\ late' = late \/ (RepairFails /\ late' = {})
  <2>1. CASE ResyncTurn
    BY <2>1 DEF ResyncTurn, exchange, store, history
  <2>2. CASE RestAnswers
    BY <2>2 DEF RestAnswers, exchange, wire, store, history
  <2>3. CASE RestAnswersNothing
    BY <2>3 DEF RestAnswersNothing, exchange, wire, store, history
  <2>4. CASE RepairFails
    <3>1. late' = {} /\ UNCHANGED <<exchange, wire, store, series, fill, unsure, overrun>>
      BY <2>4 DEF RepairFails
    <3>2. QED
      BY <2>4, <3>1 DEF exchange, wire, store
  <2>5. QED
    BY <2>1, <2>2, <2>3, <2>4
<1>2. Sound /\ Loaded
  BY DEF Whole, Sound, RepairSound, ResyncTurn, RestAnswers, RestAnswersNothing, RepairFails
<1>3. Stored'
  BY <1>1, <1>2, StoredStays
<1>4. ASSUME late' = late
      PROVE  Astray' = Astray /\ Vouched' = Vouched /\ \A b \in Bars : Behind(b)' <=> Behind(b)
  BY <1>1, <1>4 DEF Astray, Vouched, Behind
<1>5. ASSUME repair' = repair, late' = late PROVE Repaired'
  BY <1>1, <1>5 DEF Whole, Repaired, Window, Started, Heard, Told, Mended, Vouched, Open, Answered,
     Fresh, InWindow, Merged, Astray, Behind
<1>6. CASE ResyncTurn
  BY <1>1, <1>2, <1>3, <1>5, <1>6, RequestRepaired DEF ResyncTurn, history, Whole
<1>7. CASE RepairFails
  BY <1>3, <1>7, NoResync DEF RepairFails, NoRepair, Whole
<1>8. CASE RestAnswers
  <2>1. repair.at = "sent" /\ late' = late
    BY <1>8 DEF RestAnswers, history
  <2>2. /\ repair'.at = "answered" /\ repair'.gen = repair.gen /\ repair'.from = repair.from
        /\ repair'.upto = repair.upto /\ repair'.touched = repair.touched
        /\ \A b \in Bars : repair'.snap[b] = IF b \in repair.from..repair.upto THEN trades[b] ELSE 0
    BY <1>2, <1>8 DEF RestAnswers, Sound, Parts, RepairType
  <2>3. Open' = Open
    BY <1>1, <2>1, <2>2 DEF Open
  <2>4. Window' /\ Started'
    BY <1>1, <1>4, <2>1, <2>2, <2>3 DEF Whole, Repaired, Window, Started
  <2>5. Heard'
    BY <1>1, <2>1, <2>2, <2>3 DEF Whole, Repaired, Heard, Vouched, Astray, Behind
  <2>6. Told'
    BY <1>1, <2>2, <2>3 DEF Told, InWindow, Vouched
  <2>7. Mended'
    BY <2>2 DEF Mended, Merged
  <2>8. QED
    BY <1>3, <2>4, <2>5, <2>6, <2>7 DEF Whole, Repaired
<1>9. CASE RestAnswersNothing
  <2>1. repair.at = "sent" /\ repair.snap = Nothing /\ late' = late
    BY <1>2, <1>9 DEF RestAnswersNothing, Sound, RepairSound, history
  <2>2. /\ repair'.at = "answered" /\ repair'.gen = repair.gen /\ repair'.from = repair.from
        /\ repair'.upto = repair.upto /\ repair'.touched = repair.touched /\ repair'.snap = repair.snap
    BY <1>2, <1>9 DEF RestAnswersNothing, Sound, Parts, RepairType
  <2>3. Open' = Open /\ ~Answered'
    BY <1>1, <2>1, <2>2, Zenon DEF Open, Answered, Fresh, Nothing
  <2>4. Window' /\ Started' /\ Told' /\ Mended'
    BY <1>1, <1>4, <2>1, <2>2, <2>3 DEF Whole, Repaired, Window, Started, Told, Mended, Merged
  <2>5. Heard'
    BY <1>1, <2>1, <2>2, <2>3 DEF Whole, Repaired, Heard, Vouched, Astray, Behind
  <2>6. QED
    BY <1>3, <2>4, <2>5 DEF Whole, Repaired
<1>10. QED
  BY <1>6, <1>7, <1>8, <1>9

\* The end of a resync, which leaves the barrier or lifts it.
LEMMA EndRepaired ==
  ASSUME Whole, Stored', Sound', EndRepair, Loaded,
         UNCHANGED <<clock, trades, bars, link, gen, series>>
  PROVE  Repaired'
<1>1. CASE repair' = NoRepair
  BY <1>1, NoResync DEF NoRepair
<1>2. CASE repair' = Request(barrier') /\ barrier' # 0
  <2>1. /\ repair'.at = "sent" /\ repair'.upto = clock /\ repair'.touched = {}
        /\ repair'.snap = Nothing /\ repair'.from = Request(barrier').from
        /\ repair'.from = Earlier(barrier')
    <3>1. barrier' \in 0..LastBar + 2 /\ Parts
      BY DEF Sound, Whole, Parts, StoreTypes
    <3>2. Request(barrier').from = Earlier(barrier')
      BY <1>2 DEF Request
    <3>3. QED
      BY <1>2, <3>1, <3>2, RequestIs
  <2>2. /\ barrier' \in Bars /\ bars[barrier'] # 0
        /\ \A b \in Bars \ unsure' : b < barrier' => bars[b] = trades[b]
    BY <1>2 DEF Stored, Anchored, Loaded
  <2>3. clock \in Nat /\ \A b \in Bars : b \in Nat /\ b >= 1
    BY BarNumbers DEF Whole, Bars
  <2>4. Earlier(barrier') \in Nat /\ barrier' >= Earlier(barrier') /\ barrier' \in Nat
    BY <2>2, <2>3 DEF Earlier
  <2>5. Window'
    BY <2>1, <2>2, <2>3, <2>4 DEF Window, Nothing
  <2>6. Started'
    <3>1. \A b \in Bars : b < Earlier(barrier') => b < barrier'
      BY <2>3, <2>4
    <3>2. QED
      BY <2>1, <2>2, <3>1 DEF Started
  <2>7. Heard'
    BY <2>1 DEF Heard, Vouched, Stored, Ahead
  <2>8. Told' /\ Mended'
    BY <2>1 DEF Told, Mended, Answered, Merged
  <2>9. QED
    BY <2>5, <2>6, <2>7, <2>8 DEF Repaired
<1>3. QED
  BY <1>1, <1>2 DEF EndRepair

\* The answer of this connection is merged: what was whole stays so, and an
\* answer that is not empty completes what lies below the newest bar held.
LEMMA MergeCompletes ==
  ASSUME Whole, Open, repair.at = "answered",
         bars' = [b \in Bars |-> IF TakesSnap(b) THEN repair.snap[b] ELSE bars[b]],
         UNCHANGED <<trades, link>>
  PROVE  /\ \A b \in Bars \ late : bars[b] = trades[b] => bars'[b] = trades[b]
         /\ \A b \in Bars : bars[b] # 0 => bars'[b] # 0
         /\ ~Fresh => \A b \in Bars : bars'[b] = bars[b]
         /\ Fresh /\ ~Astray =>
              \A b \in Vouched : link # "dead" \/ Behind(b)' => bars'[b] = trades[b]
<1>1. Sound /\ Current
  BY DEF Whole, Current, Open
<1>2. \A b \in Bars : /\ b \in Nat /\ bars[b] \in Nat /\ trades[b] \in Nat /\ repair.snap[b] \in Nat
                      /\ bars[b] <= trades[b]
  BY <1>1, BarNumbers
<1>3. \A b \in Bars : /\ repair.snap[b] <= trades[b]
                      /\ TakesSnap(b) /\ b \notin late => bars[b] <= repair.snap[b]
  BY <1>1 DEF Sound, AnswerSound, TakesSnap
<1>4. \A b \in Bars \ late : bars[b] = trades[b] => bars'[b] = trades[b]
  BY <1>2, <1>3
<1>5. \A b \in Bars : bars[b] # 0 => bars'[b] # 0
  BY <1>2 DEF TakesSnap
<1>6. ~Fresh => \A b \in Bars : bars'[b] = bars[b]
  BY DEF Fresh, TakesSnap, Nothing
<1>7. ASSUME Fresh, ~Astray, NEW b \in Vouched, link # "dead" \/ Behind(b)'
      PROVE  bars'[b] = trades[b]
  <2>1. Answered /\ Window /\ Started /\ Heard /\ Told
    BY <1>7 DEF Answered, Whole, Repaired
  <2>2. repair.from \in Nat /\ repair.upto \in Nat /\ b \in Bars /\ b \notin late /\ b \notin unsure
    BY <1>1, BarNumbers DEF Vouched
  \* What makes the bar old was held before, or is in the answer.
  <2>3. \/ link # "dead" \/ Behind(b)
        \/ \E c \in Bars : c > b /\ repair.snap[c] # 0 /\ c <= repair.upto
    <3>1. ASSUME link = "dead", ~Behind(b)
          PROVE  \E c \in Bars : c > b /\ repair.snap[c] # 0 /\ c <= repair.upto
      <4>1. PICK c \in Bars : c > b /\ bars'[c] # 0
        BY <1>7, <3>1 DEF Behind
      <4>2. bars[c] = 0
        BY <3>1, <4>1 DEF Behind
      <4>3. repair.snap[c] # 0
        BY <4>1, <4>2 DEF TakesSnap
      <4>4. c <= repair.upto
        BY <1>2, <2>1, <2>2, <4>3 DEF Window
      <4>5. QED
        BY <4>1, <4>3, <4>4
    <3>2. QED
      BY <3>1
  <2>4. CASE b < repair.from
    BY <1>4, <1>7, <2>1, <2>2, <2>4 DEF Started
  <2>5. CASE b \in repair.touched \/ b > repair.upto
    <3>1. b >= repair.upto
      BY <1>2, <2>1, <2>2, <2>5 DEF Window
    <3>2. link # "dead" \/ Behind(b)
      BY <1>2, <2>2, <2>3, <3>1
    <3>3. QED
      BY <1>4, <1>7, <2>1, <2>2, <2>5, <3>2 DEF Heard
  <2>6. CASE ~(b < repair.from) /\ ~(b \in repair.touched \/ b > repair.upto)
    <3>1. InWindow(b)
      BY <1>2, <2>2, <2>6 DEF InWindow
    <3>2. repair.snap[b] = trades[b]
      BY <1>7, <2>1, <2>3, <3>1 DEF Told
    <3>3. CASE repair.snap[b] # 0
      BY <2>2, <2>6, <3>2, <3>3 DEF TakesSnap
    <3>4. CASE repair.snap[b] = 0
      <4>1. bars[b] = trades[b]
        <5>1. bars[b] \in Nat /\ bars[b] <= trades[b] /\ trades[b] = 0
          BY <1>2, <2>2, <3>2, <3>4
        <5>2. QED
          BY <5>1
      <4>2. QED
        BY <1>4, <2>2, <4>1
    <3>5. QED
      BY <3>3, <3>4
  <2>7. QED
    BY <2>4, <2>5, <2>6
<1>8. QED
  BY <1>4, <1>5, <1>6, <1>7

LEMMA MergeWhole ==
  ASSUME Whole, Sound', RepairMerges
  PROVE  Whole'
<1>1. /\ UNCHANGED <<clock, trades, link, gen, series, unsure, overrun>>
      /\ repair.at = "answered"
  BY DEF RepairMerges, exchange, wire
<1>2. Sound /\ Loaded /\ Loaded'
  BY <1>1 DEF Whole, Sound, RepairSound, Loaded
<1>3. CASE repair.gen # gen
  <2>1. UNCHANGED <<bars, barrier>> /\ EndRepair
    BY <1>3 DEF RepairMerges
  <2>2. late' = {}
    BY <2>1 DEF EndRepair
  <2>3. Stored'
    BY <1>1, <1>2, <2>1, <2>2, StoredStays
  <2>4. Repaired'
    BY <1>1, <1>2, <2>1, <2>3, EndRepaired
  <2>5. QED
    BY <2>3, <2>4 DEF Whole
<1>4. CASE repair.gen = gen
  <2>1. /\ bars' = [b \in Bars |-> IF TakesSnap(b) THEN repair.snap[b] ELSE bars[b]]
        /\ repair' = [repair EXCEPT !.at = "merged"]
        /\ UNCHANGED <<barrier, late>>
    BY <1>4 DEF RepairMerges
  <2>2. repair'.at = "merged" /\ repair'.gen = repair.gen /\ repair'.snap = repair.snap
    BY <1>2, <2>1 DEF Sound, Parts, RepairType
  <2>3. Open
    BY <1>1, <1>4 DEF Open
  <2>4. /\ \A b \in Bars \ late : bars[b] = trades[b] => bars'[b] = trades[b]
        /\ \A b \in Bars : bars[b] # 0 => bars'[b] # 0
        /\ ~Fresh => \A b \in Bars : bars'[b] = bars[b]
        /\ Fresh /\ ~Astray =>
             \A b \in Vouched : link # "dead" \/ Behind(b)' => bars'[b] = trades[b]
    BY <1>1, <2>1, <2>3, MergeCompletes
  <2>5. Astray' = Astray /\ Vouched' = Vouched
    BY <1>1, <2>1 DEF Astray, Vouched
  <2>6. ~Astray => \A b \in Bars \ unsure : barrier = 0 \/ b < barrier => b \notin late
    <3>1. \A b \in late \ unsure : b \in Bars /\ (~Astray => barrier # 0 /\ barrier <= b)
      BY DEF Whole, Stored, Overtook
    <3>2. QED
      BY <1>2, <3>1, BarNumbers
  <2>7. Market' /\ Loading' /\ LoadWhole' /\ Overtook'
    BY <1>1, <1>2, <2>1, <2>5 DEF Whole, Stored, Market, Loading, LoadWhole, Overtook, Loaded
  <2>8. Ahead'
    <3>1. \A b \in Bars : b > clock => bars'[b] = bars[b]
      <4>1. \A b \in Bars : repair.snap[b] # 0 => b <= clock
        <5>1. /\ repair.upto <= clock
              /\ \A b \in Bars : repair.snap[b] # 0 => b \in repair.from..repair.upto
          BY <2>3 DEF Whole, Repaired, Window
        <5>2. QED
          BY <1>2, <5>1, BarNumbers
      <4>2. QED
        BY <1>2, <2>1, <4>1, BarNumbers DEF TakesSnap
    <3>2. QED
      BY <1>1, <3>1 DEF Whole, Stored, Ahead
  <2>9. Live'
    <3>1. link = "up" /\ barrier = 0 => \A b \in Bars \ unsure : b \notin late /\ bars[b] = trades[b]
      BY <1>2, <2>6 DEF Whole, Stored, Live, Astray
    <3>2. QED
      BY <1>1, <2>1, <2>4, <3>1 DEF Live
  <2>10. Anchored'
    <3>1. bars'[1] # 0
      BY <1>2, <2>4, BarNumbers DEF Whole, Stored, Anchored
    <3>2. barrier = 0 /\ ~Astray => \A b \in Bars \ unsure : Behind(b)' => bars'[b] = trades[b]
      <4>1. CASE Fresh
        BY <2>4, <2>6, <4>1 DEF Vouched
      <4>2. CASE ~Fresh
        BY <1>2, <2>4, <4>2 DEF Whole, Stored, Anchored, Behind
      <4>3. QED
        BY <4>1, <4>2
    <3>3. barrier # 0 => barrier \in Bars /\ bars'[barrier] # 0
      BY <1>2, <2>4 DEF Whole, Stored, Anchored
    <3>4. barrier # 0 => \A b \in Bars \ unsure : b < barrier => bars'[b] = trades[b]
      <4>1. barrier # 0 => ~Astray
        BY DEF Astray
      <4>2. QED
        BY <1>2, <2>4, <2>6, <4>1 DEF Whole, Stored, Anchored
    <3>5. QED
      BY <1>1, <2>1, <2>5, <3>1, <3>2, <3>3, <3>4 DEF Anchored
  <2>11. Fresh' = Fresh /\ ~Open'
    BY <2>2 DEF Fresh, Open, Nothing
  <2>12. Mended'
    BY <1>1, <2>4, <2>5, <2>11 DEF Mended, Merged
  <2>13. Repaired'
    BY <2>11, <2>12 DEF Repaired, Window, Started, Heard, Told
  <2>14. QED
    BY <2>7, <2>8, <2>9, <2>10, <2>13 DEF Whole, Stored
<1>5. QED
  BY <1>3, <1>4

\* The resync ends: only a merged answer lifts the barrier.
LEMMA EndWhole ==
  ASSUME Whole, Sound', RepairEnds
  PROVE  Whole'
<1>1. /\ UNCHANGED <<clock, trades, link, gen, series, bars, overrun>>
      /\ repair.at = "merged" /\ EndRepair /\ late' = {}
  BY DEF RepairEnds, Resumes, EndRepair, exchange, wire
<1>2. Sound /\ Loaded /\ Loaded'
  BY <1>1 DEF Whole, Sound, RepairSound, Loaded
<1>3. Stored'
  <2>1. CASE repair.gen = gen /\ Connected /\ Fresh
    <3>1. barrier' = 0 /\ unsure' = unsure \cup late /\ ~Astray /\ ~Astray'
      BY <1>1, <2>1 DEF RepairEnds, Astray, Connected
    <3>2. \A b \in Bars \ unsure' : link # "dead" \/ Behind(b) => bars[b] = trades[b]
      BY <1>1, <2>1, <3>1 DEF Merged, Mended, Vouched, Whole, Repaired
    <3>3. Market' /\ Ahead' /\ Loading' /\ LoadWhole'
      BY <1>1, <1>2, <3>1 DEF Whole, Stored, Market, Ahead, Loading, LoadWhole, Loaded
    <3>4. Live' /\ Overtook'
      BY <1>1, <3>2 DEF Live, Overtook
    <3>5. Anchored'
      BY <1>1, <1>2, <3>1, <3>2 DEF Whole, Stored, Anchored, Behind
    <3>6. QED
      BY <3>3, <3>4, <3>5 DEF Stored
  <2>2. CASE ~(repair.gen = gen /\ Connected /\ Fresh)
    BY <1>1, <1>2, <2>2, StoredStays DEF RepairEnds
  <2>3. QED
    BY <2>1, <2>2
<1>4. Repaired'
  BY <1>1, <1>2, <1>3, EndRepaired
<1>5. QED
  BY <1>3, <1>4 DEF Whole

\* A gap backfill answers for bars below the newest one held only.
LEMMA FillBelow ==
  ASSUME Whole, FillReturns \/ FillFails
  PROVE  /\ \A b \in Bars : bars[b] = trades[b] => bars'[b] = trades[b]
         /\ \A b \in Bars : b \notin fill => bars'[b] = bars[b]
         /\ \A b \in Bars : bars[b] # 0 => bars'[b] # 0
         /\ \A b \in Bars : b \in fill => Behind(b)
         /\ \A b \in Bars : Behind(b)' <=> Behind(b)
<1>1. Sound
  BY DEF Whole
<1>2. /\ \A b \in Bars : bars[b] = trades[b] => bars'[b] = trades[b]
      /\ \A b \in Bars : b \notin fill => bars'[b] = bars[b]
      /\ \A b \in Bars : bars[b] # 0 => bars'[b] # 0
  BY <1>1, BarNumbers DEF FillReturns, FillFails, store, Sound, Parts, StoreTypes
<1>3. \A b \in Bars : b \in fill => Behind(b)
  BY <1>1 DEF Sound, GapsBelow, Behind
<1>4. \A b \in Bars : Behind(b)' <=> Behind(b)
  <2> SUFFICES ASSUME NEW b \in Bars PROVE Behind(b)' <=> Behind(b)
    OBVIOUS
  <2>1. Behind(b) => Behind(b)'
    BY <1>2 DEF Behind
  <2>2. ASSUME Behind(b)' PROVE Behind(b)
    <3>1. PICK c \in Bars : c > b /\ bars'[c] # 0
      BY <2>2 DEF Behind
    <3>2. CASE c \in fill
      <4>1. PICK d \in Bars : d > c /\ bars[d] # 0
        BY <1>3, <3>2 DEF Behind
      <4>2. d > b
        BY <1>1, <3>1, <4>1, BarNumbers
      <4>3. QED
        BY <4>1, <4>2 DEF Behind
    <3>3. CASE c \notin fill
      BY <1>2, <3>1, <3>3 DEF Behind
    <3>4. QED
      BY <3>2, <3>3
  <2>3. QED
    BY <2>1, <2>2
<1>5. QED
  BY <1>2, <1>3, <1>4

\* A gap backfill completes bars below the newest one held, or fails.
LEMMA FillWhole ==
  ASSUME Whole, Sound', FillReturns \/ FillFails
  PROVE  Whole'
<1>1. /\ UNCHANGED <<clock, trades, link, gen, series, barrier, repair, late, unsure, overrun>>
      /\ fill # {} /\ fill' = {}
  BY DEF FillReturns, FillFails, exchange, wire, store, history
<1>2. Sound /\ Loaded /\ Loaded' /\ Astray' = Astray /\ Vouched' = Vouched /\ Vouched \subseteq Bars
  BY <1>1 DEF Whole, Stored, Loading, Loaded, Astray, Vouched
<1>3. /\ \A b \in Bars : bars[b] = trades[b] => bars'[b] = trades[b]
      /\ \A b \in Bars : bars[b] # 0 => bars'[b] # 0
  BY FillBelow
<1>4. \A b \in Bars : Behind(b)' <=> Behind(b)
  BY FillBelow
<1>5. Market' /\ Ahead' /\ Loading' /\ LoadWhole' /\ Live' /\ Overtook'
  BY <1>1, <1>2, <1>3 DEF Whole, Stored, Market, Ahead, Loading, LoadWhole, Live, Overtook, Loaded
<1>6. Anchored'
  <2>1. bars'[1] # 0
    BY <1>2, <1>3, BarNumbers DEF Whole, Stored, Anchored
  <2>2. barrier = 0 /\ ~Astray => \A b \in Bars \ unsure : Behind(b)' => bars'[b] = trades[b]
    BY <1>2, <1>3, <1>4 DEF Whole, Stored, Anchored
  <2>3. barrier # 0 => /\ barrier \in Bars /\ bars'[barrier] # 0
                       /\ \A b \in Bars \ unsure : b < barrier => bars'[b] = trades[b]
    BY <1>2, <1>3 DEF Whole, Stored, Anchored
  <2>4. QED
    BY <1>1, <1>2, <2>1, <2>2, <2>3 DEF Anchored
<1>7. Open' = Open /\ Answered' = Answered /\ Merged' = Merged
  BY <1>1 DEF Open, Answered, Merged, Fresh
<1>8. Window'
  BY <1>1, <1>2, <1>3, <1>7, BarNumbers DEF Whole, Repaired, Window
<1>9. Started' /\ Heard'
  BY <1>1, <1>2, <1>3, <1>4, <1>7 DEF Whole, Repaired, Started, Heard
<1>10. Told'
  BY <1>1, <1>2, <1>4, <1>7 DEF Whole, Repaired, Told, InWindow
<1>11. Mended'
  BY <1>1, <1>2, <1>3, <1>4, <1>7 DEF Whole, Repaired, Mended
<1>12. QED
  BY <1>5, <1>6, <1>8, <1>9, <1>10, <1>11 DEF Whole, Stored, Repaired

LEMMA MaintainWhole ==
  ASSUME Whole, Sound', Maintain
  PROVE  Whole'
<1>1. /\ UNCHANGED <<clock, trades, link, gen, series, bars, barrier, late, unsure, overrun>> /\ Loaded
      /\ repair' = repair \/ repair' = Request(barrier)
  BY DEF Maintain, exchange, wire, store, history
<1>2. Stored'
  BY <1>1, StoredStays
<1>3. CASE repair' = repair
  <2>1. Repaired'
    BY <1>1, <1>3 DEF Whole, Repaired, Window, Started, Heard, Told, Mended, Vouched, Open, Answered,
       Fresh, InWindow, Merged, Astray, Behind
  <2>2. QED
    BY <1>2, <2>1 DEF Whole
<1>4. CASE repair' = Request(barrier)
  BY <1>1, <1>2, <1>4, RequestRepaired DEF Whole
<1>5. QED
  BY <1>1, <1>3, <1>4

\* The first load: the history and what has traded since are all the exchange has.
LEMMA LoadWholeStep ==
  ASSUME Whole, Sound', LoadAnswers \/ LoadReceives
  PROVE  Whole'
<1>1. /\ UNCHANGED <<clock, trades, link, gen, barrier, repair, late, unsure, overrun>>
      /\ ~Loaded /\ barrier = 0 /\ fill = {} /\ late = {}
  BY DEF LoadAnswers, LoadReceives, Loaded, exchange, wire, store, history, Whole, Stored, Loading
<1>2. Sound /\ Market
  BY DEF Whole, Stored
<1>3. /\ \A b \in Bars : b \in Nat
      /\ \A b \in Bars \ unsure : bars[b] # 0 => bars[b] = trades[b]
  BY <1>1, <1>2, BarNumbers DEF Whole, Stored, Loading
<1>4. Repaired' /\ Market' /\ Overtook'
  <2>1. repair.at = "none"
    BY <1>1, <1>2 DEF Sound, RepairSound
  <2>2. QED
    BY <1>1, <1>2, <2>1, NoResync DEF Market, Overtook
<1>5. CASE LoadAnswers
  <2>1. /\ UNCHANGED <<bars, fill>> /\ series'.at = "answered"
        /\ \A b \in Bars : series'.snap[b] = IF b <= clock THEN trades[b] ELSE 0
    BY <1>5 DEF LoadAnswers, store
  <2>2. series'.snap[1] # 0
    BY <1>2, <2>1, BarNumbers DEF Market
  <2>3. ASSUME NEW b \in Bars \ unsure
        PROVE  \/ series'.snap[b] = trades[b]
               \/ bars[b] # 0 /\ \A c \in Bars : c > b => series'.snap[c] = 0
    <3>1. CASE b <= clock
      BY <2>1, <3>1
    <3>2. CASE ~(b <= clock)
      <4>1. b > clock /\ clock \in Nat
        BY <1>2, <1>3, <3>2, BarNumbers
      <4>2. bars[b] = trades[b]
        BY <4>1 DEF Whole, Stored, Ahead
      <4>3. \A c \in Bars : c > b => ~(c <= clock)
        BY <1>3, <4>1
      <4>4. series'.snap[b] = 0 /\ \A c \in Bars : c > b => series'.snap[c] = 0
        BY <2>1, <3>2, <4>3
      <4>5. QED
        BY <4>2, <4>4
    <3>3. QED
      BY <3>1, <3>2
  <2>4. LoadWhole'
    BY <1>1, <2>1, <2>2, <2>3 DEF LoadWhole
  <2>5. Loading' /\ Live' /\ Anchored' /\ Ahead'
    BY <1>1, <1>3, <2>1 DEF Loading, Live, Anchored, Ahead, Loaded, Whole, Stored
  <2>6. QED
    BY <1>4, <2>4, <2>5 DEF Whole, Stored
<1>6. CASE LoadReceives
  <2>1. /\ series.at = "answered" /\ series'.at = "loaded"
        /\ bars' = [b \in Bars |->
                      IF bars[b] # 0 /\ (b >= Newest(series.snap) \/ series.snap[b] = 0)
                      THEN bars[b] ELSE series.snap[b]]
    BY <1>6 DEF LoadReceives
  <2>2. series.snap \in [Bars -> Nat]
    BY <1>2, HeldNumbers DEF Sound, Parts, SeriesType
  <2>3. ASSUME NEW b \in Bars \ unsure PROVE bars'[b] = trades[b]
    <3>1. CASE series.snap[b] = trades[b]
      BY <1>3, <2>1, <3>1
    <3>2. CASE bars[b] # 0 /\ \A c \in Bars : c > b => series.snap[c] = 0
      <4>1. /\ Newest(series.snap) \in 0..LastBar
            /\ Newest(series.snap) # 0 => Newest(series.snap) \in Bars
                                          /\ series.snap[Newest(series.snap)] # 0
        BY <2>2, NewestHeld
      <4>2. b >= Newest(series.snap)
        BY <1>3, <3>2, <4>1, Constants
      <4>3. QED
        BY <1>3, <2>1, <3>2, <4>2
    <3>3. QED
      BY <2>1, <3>1, <3>2 DEF Whole, Stored, LoadWhole
  <2>4. bars'[1] # 0
    BY <1>2, <2>1, BarNumbers DEF Whole, Stored, LoadWhole
  <2>5. Loading' /\ LoadWhole'
    BY <2>1 DEF Loading, LoadWhole, Loaded
  <2>6. Ahead' /\ Live' /\ Anchored'
    BY <1>1, <2>3, <2>4 DEF Ahead, Live, Anchored
  <2>7. QED
    BY <1>4, <2>5, <2>6 DEF Whole, Stored
<1>7. QED
  BY <1>5, <1>6

LEMMA WholeStep ==
  ASSUME Whole, [Next]_vars
  PROVE  Whole'
<1>1. Sound'
  BY SoundStep DEF Whole
<1>2. CASE Next
  BY <1>1, <1>2, TimeWhole, DeadWhole, BrokenWhole, ConnectWhole, UnseenTradeWhole, SeenTradeWhole,
     AskedWhole, MergeWhole, EndWhole, FillWhole, MaintainWhole, LoadWholeStep DEF Next
<1>3. CASE UNCHANGED vars
  <2>1. Stored'
    BY <1>3 DEF Whole, Stored, Market, Ahead, Loading, LoadWhole, Live, Anchored, Overtook, Astray,
       Loaded, Behind, vars, exchange, wire, store, requests, history
  <2>2. Repaired'
    BY <1>3 DEF Whole, Repaired, Window, Started, Heard, Told, Mended, Vouched, Open, Answered, Fresh,
       InWindow, Merged, Astray, Behind, vars, exchange, wire, store, requests, history
  <2>3. QED
    BY <1>1, <2>1, <2>2 DEF Whole
<1>4. QED
  BY <1>2, <1>3

\* A close is announced by a series that is loaded and has no recovery pending.
LEMMA AnnouncedLive ==
  ASSUME Whole, [Next]_vars, emitted' > emitted, link = "up"
  PROVE  Loaded' /\ link' = "up" /\ barrier' = 0
<1>1. emitted \in Nat
  BY Constants DEF Whole, Sound, Parts, StoreTypes
<1>2. Trade \/ AnnounceDue \/ RepairEnds \/ FillReturns \/ LoadReceives
  <2>1. emitted' # emitted
    BY <1>1
  <2>2. QED
    BY <2>1 DEF Next, vars, store, Tick, Dies, Drops, HeartbeatLost, Connect, Disconnected, ResyncTurn,
          RestAnswers, RestAnswersNothing, RepairFails, RepairMerges, FillFails, Maintain, LoadAnswers
<1>3. link' = link
  BY <1>2 DEF Trade, AnnounceDue, RepairEnds, FillReturns, LoadReceives, wire
<1>4. CASE Trade \/ AnnounceDue \/ FillReturns
  <2>1. Loaded /\ series' = series
    BY <1>1, <1>4 DEF Trade, OnWsCandle, Announces, AnnounceDue, Due, FillReturns, Whole, Stored,
          Loading, requests
  <2>2. barrier' = 0
    BY <1>1, <1>4 DEF Trade, OnWsCandle, AnnounceDue, FillReturns, EmitClosed
  <2>3. QED
    BY <1>3, <2>1, <2>2 DEF Loaded
<1>5. CASE RepairEnds
  <2>1. Loaded /\ series' = series
    BY <1>5 DEF RepairEnds, Resumes, Whole, Sound, RepairSound
  <2>2. barrier' = 0
    BY <1>1, <1>5 DEF RepairEnds
  <2>3. QED
    BY <1>3, <2>1, <2>2 DEF Loaded
<1>6. CASE LoadReceives
  BY <1>3, <1>6 DEF LoadReceives, Whole, Stored, Loading, Loaded
<1>7. QED
  BY <1>2, <1>4, <1>5, <1>6

\* No fragment is announced on a live link: the bar announced and all before it
\* hold every trade the exchange has (emitClosed, the recovery barrier and
\* repairSeries of candleStore.ts), for every number of bars, trades,
\* interruptions and REST faults, whenever the link breaks, the clocks differ and
\* maintenance resyncs, except for the unsure bars: those whose unseen trades the
\* code asks no resync for, or lifts the barrier without.
THEOREM WholeHistoryHolds == Spec => WholeHistory
<1>1. Init => Whole
  BY InitWhole
<1>2. Whole /\ [Next]_vars => Whole'
  BY WholeStep
<1>3. Whole /\ [Next]_vars =>
        [emitted' > emitted /\ link = "up" =>
           \A b \in (1..emitted') \ unsure' : bars'[b] = trades'[b]]_vars
  <2> SUFFICES ASSUME Whole, [Next]_vars, emitted' > emitted, link = "up"
               PROVE  \A b \in (1..emitted') \ unsure' : bars'[b] = trades'[b]
    OBVIOUS
  <2>1. Whole'
    BY WholeStep
  <2>2. \A b \in Bars \ unsure' : bars'[b] = trades'[b]
    BY <2>1, AnnouncedLive DEF Whole, Stored, Live
  <2>3. 1..emitted' \subseteq Bars
    <3>1. emitted' \in 0..LastBar
      BY <2>1 DEF Whole, Sound, Parts, StoreTypes
    <3>2. QED
      BY <3>1, Constants DEF Bars
  <2>4. QED
    BY <2>2, <2>3
<1>4. QED
  BY <1>1, <1>2, <1>3, PTL DEF Spec, WholeHistory

----------------------------------------------------------------------------
(* NonePassedOver: while the series is connected with no recovery pending,  *)
(* a bar that is not announced and that a newer one follows never traded:   *)
(* on a live link a newer one the exchange has, on a dead one a newer one   *)
(* held.  A merged answer may bring such a bar on a dead link; its end      *)
(* announces it.                                                            *)

Outrun(b)  == \E c \in Bars : c > b /\ trades[c] # 0
Newer(b)   == IF link = "up" THEN Outrun(b) ELSE Behind(b)
Announcing == Loaded /\ barrier = 0 /\ Connected /\ ~(Merged /\ link = "dead")
Passed ==
  Announcing => \A b \in Bars \ (unsure \cup overrun) : b > emitted /\ Newer(b) => trades[b] = 0

LEMMA EmittedNumbers ==
  ASSUME Whole, Whole'
  PROVE  /\ emitted \in Nat /\ emitted' \in Nat /\ clock \in Nat /\ clock' \in Nat
         /\ \A b \in Bars : b \in Nat
         /\ bars \in [Bars -> Nat] /\ bars' \in [Bars -> Nat]
<1>1. emitted \in Nat /\ emitted' \in Nat
  BY Constants DEF Whole, Sound, Parts, StoreTypes
<1>2. clock \in Nat /\ clock' \in Nat /\ \A b \in Bars : b \in Nat
  BY Constants DEF Whole, Sound, Parts, ClockTypes, Periods, Bars
<1>3. bars \in [Bars -> Nat] /\ bars' \in [Bars -> Nat]
  BY HeldNumbers DEF Whole, Sound, Parts, StoreTypes
<1>4. QED
  BY <1>1, <1>2, <1>3

LEMMA HistoryGrows ==
  ASSUME [Next]_vars
  PROVE  unsure \subseteq unsure' /\ overrun \subseteq overrun'
BY DEF Next, vars, history, Tick, Trade, AnnounceDue, Dies, Drops, HeartbeatLost, Connect, Disconnected,
   ResyncTurn, RestAnswers, RestAnswersNothing, RepairFails, RepairMerges, RepairEnds, FillReturns,
   FillFails, Maintain, LoadAnswers, LoadReceives

LEMMA PassedStays ==
  ASSUME Passed, [Next]_vars, Announcing' => Announcing,
         emitted \in Nat, emitted' \in Nat, emitted' >= emitted, \A b \in Bars : b \in Nat,
         Announcing' => \A b \in Bars : Newer(b)' => Newer(b) /\ trades'[b] = trades[b]
  PROVE  Passed'
BY HistoryGrows DEF Passed

\* What is held was traded.
LEMMA HeldOutrun ==
  ASSUME Sound, NEW b \in Bars, Behind(b)
  PROVE  Outrun(b)
<1>1. \A c \in Bars : bars[c] # 0 => trades[c] # 0
  BY BarNumbers
<1>2. QED
  BY <1>1 DEF Behind, Outrun

\* Once every closed bar held is announced, what a newer bar follows and was not
\* announced never traded.
LEMMA PassedCaughtUp ==
  ASSUME Whole, Loaded, barrier = 0, emitted \in Nat,
         \A b \in Bars : bars[b] # 0 /\ b < clock => b <= emitted
  PROVE  Passed
<1> SUFFICES ASSUME Announcing, NEW b \in Bars \ (unsure \cup overrun), b > emitted, Newer(b)
             PROVE  trades[b] = 0
  BY DEF Passed
<1>1. Sound /\ Market
  BY DEF Whole, Stored
<1>2. Outrun(b)
  BY <1>1, HeldOutrun DEF Newer
<1>3. bars[b] = trades[b]
  <2>1. CASE link = "up"
    BY <2>1 DEF Whole, Stored, Live
  <2>2. CASE link # "up"
    <3>1. Behind(b) /\ ~Astray
      BY <2>2 DEF Newer, Announcing, Connected, Astray
    <3>2. QED
      BY <3>1 DEF Whole, Stored, Anchored
  <2>3. QED
    BY <2>1, <2>2
<1>4. SUFFICES ASSUME bars[b] # 0 PROVE FALSE
  BY <1>3
<1>5. b \in Nat /\ clock \in Nat /\ \A c \in Bars : c \in Nat
  BY <1>1, BarNumbers
<1>6. ~(b < clock)
  BY <1>4, <1>5
<1>7. PICK c \in Bars : c > b /\ trades[c] # 0
  BY <1>2 DEF Outrun
<1>8. c = clock + 1 /\ clock \in overrun
  BY <1>1, <1>5, <1>6, <1>7 DEF Market
<1>9. b = clock
  BY <1>5, <1>6, <1>7, <1>8
<1>10. QED
  BY <1>8, <1>9

LEMMA NewestClosedIs ==
  ASSUME NEW h \in [Bars -> Nat]
  PROVE  \A b \in Bars : h[b] # 0 /\ b < clock => b <= NewestClosed(h)
<1> DEFINE T == {0} \cup {b \in Bars : h[b] # 0 /\ Closed(b)}
<1>1. T \in SUBSET (0..LastBar) /\ T # {}
  BY Constants DEF Bars
<1>2. \A y \in T : Max(T) >= y
  BY <1>1, Constants, MaxOf
<1>3. NewestClosed(h) = Max(T)
  BY DEF NewestClosed
<1>4. \A b \in Bars : h[b] # 0 /\ b < clock => b \in T
  BY DEF Closed
<1>5. Max(T) \in Nat /\ \A b \in Bars : b \in Nat
  BY <1>1, <1>3, NewestClosedHeld DEF Bars
<1> HIDE DEF T
<1>6. QED
  BY <1>2, <1>3, <1>4, <1>5

\* The next bar's first candle announces the newest bar held.
LEMMA TradePassed ==
  ASSUME Whole, Whole', Passed, Trade
  PROVE  Passed'
<1>1. PICK b \in Forming :
        /\ trades' = [trades EXCEPT ![b] = @ + 1]
        /\ IF link = "up" THEN OnWsCandle(b) ELSE UNCHANGED <<bars, emitted, barrier, repair, fill>>
        /\ overrun' = IF b > clock THEN overrun \cup {clock} ELSE overrun
  BY DEF Trade
<1>2. Sound /\ Market /\ Next
  BY DEF Whole, Stored, Next
<1>3. /\ b \in Bars /\ b \in {clock, clock + 1} /\ ~Behind(b)
      /\ \A c \in Bars : c > b => trades[c] = 0 /\ bars[c] = 0
  BY <1>2, TradeIs
<1>4. UNCHANGED <<clock, link, gen, series, barrier>>
  BY <1>1 DEF Trade, wire, OnWsCandle
<1>5. \A c \in Bars : trades'[c] = IF c = b THEN trades[b] + 1 ELSE trades[c]
  BY <1>1, <1>2, <1>3 DEF Sound, Parts, ClockTypes
<1>6. emitted \in Nat /\ emitted' \in Nat /\ clock \in Nat /\ \A c \in Bars : c \in Nat
  BY EmittedNumbers
<1>7. CASE link # "up"
  <2>1. UNCHANGED <<bars, emitted, repair>>
    BY <1>1, <1>7
  <2>2. Announcing' => Announcing
    BY <1>4, <2>1 DEF Announcing, Loaded, Connected, Merged, Fresh
  <2>3. \A c \in Bars : Newer(c)' => Newer(c) /\ trades'[c] = trades[c]
    BY <1>3, <1>4, <1>5, <1>7, <2>1 DEF Newer, Behind
  <2>4. QED
    BY <1>2, <1>6, <2>1, <2>2, <2>3, PassedStays
<1>8. CASE link = "up"
  <2> SUFFICES ASSUME Loaded, barrier = 0, NEW c \in Bars \ (unsure' \cup overrun'),
                      c > emitted', Outrun(c)'
               PROVE  trades'[c] = 0
    BY <1>4, <1>8 DEF Passed, Announcing, Loaded, Newer
  <2>1. Announcing /\ unsure \subseteq unsure' /\ overrun \subseteq overrun'
    BY <1>2, <1>8, HistoryGrows DEF Announcing, Connected
  <2>2. bars[c] = trades[c]
    BY <1>8, <2>1 DEF Whole, Stored, Live
  <2>3. PICK d \in Bars : d > c /\ trades'[d] # 0
    BY DEF Outrun
  <2>4. c # b /\ trades'[c] = trades[c]
    BY <1>3, <1>5, <1>6, <2>3
  <2>5. bars[1] # 0 /\ Newest(bars) \in Bars /\ bars[Newest(bars)] # 0
        /\ \A x \in Bars : bars[x] # 0 => x <= Newest(bars)
    <3>1. bars[1] # 0
      BY DEF Whole, Stored, Anchored
    <3>2. QED
      BY <1>2, <3>1, NewestIs, NewestHeld, EmittedNumbers
  <2>6. emitted' = (IF Announces(b) /\ Newest(bars) > emitted THEN Newest(bars) ELSE emitted)
    BY <1>1, <1>4, <1>8 DEF OnWsCandle, EmitClosed, Connected
  <2>7. emitted' >= emitted
    BY <1>6, <2>5, <2>6
  <2>8. CASE Outrun(c)
    <3>1. c > emitted /\ Newer(c)
      BY <1>6, <1>8, <2>7, <2>8 DEF Newer
    <3>2. QED
      BY <2>1, <2>4, <3>1 DEF Passed
  <2>9. CASE ~Outrun(c) /\ trades[c] # 0
    <3>1. b = d /\ b > c
      BY <1>5, <2>3, <2>9 DEF Outrun
    <3>2. \A x \in Bars : x > c => bars[x] = 0
      <4>1. \A x \in Bars : Behind(x) => Outrun(x)
        BY <1>2, HeldOutrun
      <4>2. QED
        BY <2>9, <4>1 DEF Behind
    <3>3. Newest(bars) = c
      BY <1>6, <2>2, <2>5, <2>9, <3>2
    <3>4. CASE c < clock
      <4>1. Announces(b)
        BY <1>6, <2>5, <3>1, <3>3, <3>4 DEF Announces, Closed, Bars
      <4>2. QED
        BY <1>6, <2>6, <3>3, <4>1
    <3>5. CASE ~(c < clock)
      <4>1. c = clock /\ b > clock
        BY <1>3, <1>6, <3>1, <3>5
      <4>2. QED
        BY <1>1, <4>1
    <3>6. QED
      BY <3>4, <3>5
  <2>10. QED
    BY <2>4, <2>8, <2>9
<1>9. QED
  BY <1>7, <1>8

\* The answer to a resync brings no bar the exchange had not.
LEMMA ResyncPassed ==
  ASSUME Whole, Whole', Passed,
         ResyncTurn \/ RestAnswers \/ RestAnswersNothing \/ RepairFails \/ RepairMerges \/ RepairEnds
  PROVE  Passed'
<1>1. UNCHANGED <<trades, link, gen, series>> /\ (UNCHANGED emitted \/ RepairEnds)
  BY DEF ResyncTurn, RestAnswers, RestAnswersNothing, RepairFails, RepairMerges, RepairEnds,
         exchange, wire, store
<1>2. emitted \in Nat /\ emitted' \in Nat /\ clock \in Nat /\ \A c \in Bars : c \in Nat
  BY EmittedNumbers
<1>3. Next
  BY DEF Next
<1>4. ASSUME UNCHANGED emitted, Announcing' => Announcing,
             Announcing' => link = "up" \/ \A b \in Bars : bars'[b] = bars[b]
      PROVE  Passed'
  <2>1. Announcing' => \A b \in Bars : Newer(b)' => Newer(b) /\ trades'[b] = trades[b]
    BY <1>1, <1>4 DEF Newer, Outrun, Behind
  <2>2. QED
    BY <1>2, <1>3, <1>4, <2>1, PassedStays
<1>5. CASE ResyncTurn \/ RestAnswers \/ RestAnswersNothing \/ RepairFails
  <2>1. UNCHANGED <<bars, emitted, barrier>> /\ (repair' = repair \/ repair.at \in {"none", "sent"})
    BY <1>5 DEF ResyncTurn, RestAnswers, RestAnswersNothing, RepairFails, store
  <2>2. Announcing' => Announcing
    BY <1>1, <2>1 DEF Announcing, Loaded, Connected, Merged, Fresh
  <2>3. QED
    BY <1>4, <2>1, <2>2
<1>6. CASE RepairMerges
  <2>1. UNCHANGED <<emitted, barrier>> /\ repair.at = "answered"
    BY <1>6 DEF RepairMerges
  <2>2. Announcing' => Announcing
    BY <1>1, <2>1 DEF Announcing, Loaded, Connected, Merged
  <2>3. CASE repair.gen # gen
    BY <1>4, <1>6, <2>1, <2>2, <2>3 DEF RepairMerges
  <2>4. CASE repair.gen = gen
    <3>1. /\ bars' = [b \in Bars |-> IF TakesSnap(b) THEN repair.snap[b] ELSE bars[b]]
          /\ repair'.at = "merged" /\ repair'.gen = repair.gen /\ repair'.snap = repair.snap
      BY <1>6, <2>4 DEF RepairMerges, Whole, Sound, Parts, RepairType
    <3>2. ASSUME Announcing', link # "up" PROVE \A b \in Bars : bars'[b] = bars[b]
      <4>1. link = "dead"
        BY <1>1, <3>2 DEF Announcing, Connected, Whole, Sound, Parts, WireTypes
      <4>2. repair'.snap = Nothing
        BY <1>1, <2>4, <3>1, <3>2, <4>1 DEF Announcing, Merged, Fresh, Nothing
      <4>3. QED
        BY <3>1, <4>2 DEF TakesSnap, Nothing
    <3>3. QED
      BY <1>4, <2>1, <2>2, <3>2
  <2>5. QED
    BY <2>3, <2>4
<1>7. CASE RepairEnds
  <2>1. UNCHANGED <<clock, bars>> /\ repair.at = "merged"
    BY <1>7 DEF RepairEnds, Resumes, exchange
  <2>2. CASE repair.gen = gen /\ Connected /\ Fresh
    <3>1. barrier' = 0 /\ emitted' = IF NewestClosed(bars) > emitted THEN NewestClosed(bars) ELSE emitted
      BY <1>7, <2>2 DEF RepairEnds, EmitClosed
    <3>2. bars \in [Bars -> Nat] /\ NewestClosed(bars) \in 0..LastBar
      BY EmittedNumbers, NewestClosedHeld
    <3>3. \A b \in Bars : bars[b] # 0 /\ b < clock => b <= NewestClosed(bars)
      BY <3>2, NewestClosedIs
    <3>4. emitted' >= NewestClosed(bars) /\ NewestClosed(bars) \in Nat
      BY <1>2, <3>1, <3>2
    <3>5. \A b \in Bars : bars'[b] # 0 /\ b < clock' => b <= emitted'
      BY <1>2, <2>1, <3>3, <3>4
    <3>6. Loaded'
      BY <1>1, <2>1 DEF Whole, Sound, RepairSound, Loaded
    <3>7. (barrier = 0)' /\ (emitted \in Nat)' /\ (\A b \in Bars : bars[b] # 0 /\ b < clock => b <= emitted)'
      BY <1>2, <3>1, <3>5
    <3>8. (Whole /\ Loaded /\ barrier = 0 /\ emitted \in Nat
            /\ (\A b \in Bars : bars[b] # 0 /\ b < clock => b <= emitted) => Passed)'
      BY PassedCaughtUp, PTL
    <3>9. QED
      BY <3>6, <3>7, <3>8
  <2>3. CASE ~(repair.gen = gen /\ Connected /\ Fresh)
    <3>1. UNCHANGED <<barrier, emitted>>
      BY <1>7, <2>3 DEF RepairEnds
    <3>2. Announcing' => Announcing
      BY <1>1, <2>3, <3>1 DEF Announcing, Loaded, Connected, Merged
    <3>3. QED
      BY <1>4, <2>1, <3>1, <3>2
  <2>4. QED
    BY <2>2, <2>3
<1>8. QED
  BY <1>5, <1>6, <1>7

\* Time, the link, gaps, maintenance and the load.
LEMMA OthersPassed ==
  ASSUME Whole, Whole', Passed,
         \/ Tick \/ AnnounceDue \/ Dies \/ Drops \/ HeartbeatLost \/ Connect
         \/ FillReturns \/ FillFails \/ Maintain \/ LoadAnswers \/ LoadReceives
  PROVE  Passed'
<1>1. emitted \in Nat /\ emitted' \in Nat /\ clock \in Nat /\ clock' \in Nat /\ \A c \in Bars : c \in Nat
  BY EmittedNumbers
<1>2. Next /\ Sound
  BY DEF Next, Whole
<1>3. ASSUME UNCHANGED <<trades, bars, link>>, emitted' >= emitted, Announcing' => Announcing PROVE Passed'
  <2>1. \A b \in Bars : Newer(b)' => Newer(b) /\ trades'[b] = trades[b]
    BY <1>3 DEF Newer, Outrun, Behind
  <2>2. QED
    BY <1>1, <1>2, <1>3, <2>1, PassedStays
<1>4. CASE Tick \/ FillFails \/ LoadAnswers
  <2>1. /\ UNCHANGED <<trades, bars, emitted, barrier, repair, gen, link>>
        /\ series' = series \/ ~Loaded'
    BY <1>4 DEF Tick, FillFails, LoadAnswers, exchange, wire, store, requests, Loaded
  <2>2. Announcing' => Announcing
    BY <2>1 DEF Announcing, Loaded, Connected, Merged, Fresh
  <2>3. QED
    BY <1>1, <1>3, <2>1, <2>2
<1>5. CASE Dies
  <2>1. /\ UNCHANGED <<trades, bars, emitted, barrier, repair, gen, series>>
        /\ link = "up" /\ link' = "dead"
    BY <1>5 DEF Dies, exchange, store, requests
  <2>2. Announcing' => Announcing
    BY <2>1 DEF Announcing, Loaded, Connected
  <2>3. \A b \in Bars : Newer(b)' => Newer(b) /\ trades'[b] = trades[b]
    <3>1. \A b \in Bars : Newer(b)' => Behind(b)
      BY <2>1 DEF Newer, Behind
    <3>2. \A b \in Bars : Behind(b) => Newer(b)
      BY <1>2, <2>1, HeldOutrun DEF Newer
    <3>3. QED
      BY <2>1, <3>1, <3>2
  <2>4. QED
    BY <1>1, <1>2, <2>1, <2>2, <2>3, PassedStays
<1>6. CASE AnnounceDue
  <2>1. UNCHANGED <<trades, bars, barrier, repair, gen, link, series>> /\ emitted' >= emitted
    BY <1>1, <1>6 DEF AnnounceDue, EmitClosed, exchange, wire, requests
  <2>2. Announcing' => Announcing
    BY <2>1 DEF Announcing, Loaded, Connected, Merged, Fresh
  <2>3. QED
    BY <1>3, <2>1, <2>2
<1>7. CASE Drops \/ HeartbeatLost
  <2>1. link' = "down"
    BY <1>7 DEF Drops, HeartbeatLost, Disconnected
  <2>2. QED
    BY <2>1 DEF Passed, Announcing, Connected
<1>8. CASE Connect
  <2>1. /\ UNCHANGED <<trades, clock, barrier, series>> /\ link' = "up"
        /\ unsure' = IF Loaded /\ barrier = 0 THEN unsure \cup {b \in Bars : b <= clock} ELSE unsure
    BY <1>8 DEF Connect, exchange, store, requests
  <2> SUFFICES ASSUME Loaded, barrier = 0, NEW b \in Bars \ (unsure' \cup overrun'), Outrun(b)'
               PROVE  FALSE
    BY <2>1 DEF Passed, Announcing, Loaded, Newer
  <2>2. b > clock
    BY <1>1, <2>1
  <2>3. PICK c \in Bars : c > b /\ trades[c] # 0
    BY <2>1 DEF Outrun
  <2>4. c = clock + 1
    BY <1>1, <2>2, <2>3 DEF Whole, Stored, Market
  <2>5. QED
    BY <1>1, <2>2, <2>3, <2>4
<1>9. CASE FillReturns
  <2>1. UNCHANGED <<trades, barrier, repair, gen, link, series>> /\ emitted' >= emitted
    BY <1>1, <1>9 DEF FillReturns, EmitClosed, exchange, wire
  <2>2. \A b \in Bars : Newer(b)' => Newer(b) /\ trades'[b] = trades[b]
    <3>1. \A b \in Bars : Behind(b)' <=> Behind(b)
      BY <1>9, FillBelow
    <3>2. QED
      BY <2>1, <3>1 DEF Newer, Outrun
  <2>3. Announcing' => Announcing
    BY <2>1 DEF Announcing, Loaded, Connected, Merged, Fresh
  <2>4. QED
    BY <1>1, <1>2, <2>1, <2>2, <2>3, PassedStays
<1>10. CASE Maintain
  <2>1. /\ UNCHANGED <<trades, bars, emitted, barrier, gen, link, series>>
        /\ repair' = repair \/ repair.at = "none"
    BY <1>10 DEF Maintain, exchange, wire, store
  <2>2. Announcing' => Announcing
    BY <2>1 DEF Announcing, Loaded, Connected, Merged, Fresh
  <2>3. QED
    BY <1>1, <1>3, <2>1, <2>2
<1>11. CASE LoadReceives
  <2>1. Loaded' /\ barrier' = 0 /\ clock' = clock
        /\ emitted' = Max({emitted, NewestClosed(bars')})
    BY <1>11 DEF LoadReceives, Loaded, exchange, Whole, Stored, Loading
  <2>2. bars' \in [Bars -> Nat] /\ NewestClosed(bars') \in 0..LastBar
    BY EmittedNumbers, NewestClosedHeld
  <2>3. \A b \in Bars : bars'[b] # 0 /\ b < clock => b <= NewestClosed(bars')
    BY <2>2, NewestClosedIs
  <2>4. emitted' >= NewestClosed(bars') /\ NewestClosed(bars') \in Nat
    <3>1. {emitted, NewestClosed(bars')} \in SUBSET (0..LastBar)
      BY <2>2 DEF Whole, Sound, Parts, StoreTypes
    <3>2. Max({emitted, NewestClosed(bars')}) >= NewestClosed(bars')
      BY <3>1, MaxOf, Constants
    <3>3. QED
      BY <2>1, <2>2, <3>2, Constants
  <2>5. \A b \in Bars : bars'[b] # 0 /\ b < clock' => b <= emitted'
    BY <1>1, <2>1, <2>3, <2>4
  <2>6. (Whole /\ Loaded /\ barrier = 0 /\ emitted \in Nat
          /\ (\A b \in Bars : bars[b] # 0 /\ b < clock => b <= emitted) => Passed)'
    BY PassedCaughtUp, PTL
  <2>7. QED
    BY <1>1, <2>1, <2>5, <2>6
<1>12. QED
  BY <1>4, <1>5, <1>6, <1>7, <1>8, <1>9, <1>10, <1>11

LEMMA PassedStep ==
  ASSUME Whole, Passed, [Next]_vars
  PROVE  Passed'
<1>1. Whole'
  BY WholeStep
<1>2. CASE Next
  BY <1>1, <1>2, TradePassed, ResyncPassed, OthersPassed DEF Next
<1>3. CASE UNCHANGED vars
  BY <1>3 DEF Passed, Announcing, Loaded, Connected, Merged, Fresh, Newer, Outrun, Behind,
     vars, exchange, wire, store, requests, history
<1>4. QED
  BY <1>2, <1>3

\* The next bar's first candle and the clock announce the newest bar held.
LEMMA AnnouncesNewest ==
  ASSUME Whole, [Next]_vars, emitted' > emitted, ~CatchesUp
  PROVE  Announcing /\ emitted' = Newest(bars)
<1>1. emitted \in Nat
  BY Constants DEF Whole, Sound, Parts, StoreTypes
<1>2. Trade \/ AnnounceDue \/ RepairEnds \/ FillReturns \/ LoadReceives
  <2>1. emitted' # emitted
    BY <1>1
  <2>2. QED
    BY <2>1 DEF Next, vars, store, Tick, Dies, Drops, HeartbeatLost, Connect, Disconnected, ResyncTurn,
          RestAnswers, RestAnswersNothing, RepairFails, RepairMerges, FillFails, Maintain, LoadAnswers
<1>3. CASE Trade
  <2>1. PICK b \in Forming :
          IF link = "up" THEN OnWsCandle(b) ELSE UNCHANGED <<bars, emitted, barrier, repair, fill>>
    BY <1>3 DEF Trade
  <2>2. link = "up" /\ Announces(b) /\ EmitClosed(Newest(bars)) /\ barrier' = barrier
    BY <1>1, <2>1 DEF OnWsCandle
  <2>3. QED
    BY <1>1, <2>2 DEF EmitClosed, Announces, Announcing
<1>4. CASE AnnounceDue
  BY <1>1, <1>4 DEF AnnounceDue, Due, EmitClosed, Announcing, Merged, Turn, Resumes
<1>5. CASE RepairEnds
  BY <1>5 DEF RepairEnds, Resumes, EndRepair, Request, NoRepair, CatchesUp
<1>6. CASE FillReturns
  BY <1>6 DEF FillReturns, CatchesUp
<1>7. CASE LoadReceives
  BY <1>7 DEF LoadReceives, CatchesUp
<1>8. QED
  BY <1>2, <1>3, <1>4, <1>5, <1>6, <1>7

\* The live announcements pass over no bar that traded (merge, announceDueCloses),
\* for every number of bars, trades, interruptions and REST faults, except for the
\* unsure bars and for a bar that the local clock had not ended when the next one
\* traded (overrun): its close is left to the ticker, which announces the next.
THEOREM NonePassedOverHolds == Spec => NonePassedOver
<1>1. Init => Whole /\ Passed
  BY InitWhole DEF Init, Passed, Announcing, Loaded
<1>2. Whole /\ Passed /\ [Next]_vars => Whole' /\ Passed'
  BY WholeStep, PassedStep
<1>3. Whole /\ Passed /\ [Next]_vars =>
        [emitted' > emitted /\ ~CatchesUp =>
           \A b \in Bars \ (unsure \cup overrun) : b > emitted /\ b < emitted' => trades[b] = 0]_vars
  <2> SUFFICES ASSUME Whole, Passed, [Next]_vars, emitted' > emitted, ~CatchesUp,
                      NEW b \in Bars \ (unsure \cup overrun), b > emitted, b < emitted'
               PROVE  trades[b] = 0
    OBVIOUS
  <2>1. Announcing /\ emitted' = Newest(bars)
    BY AnnouncesNewest
  <2>2. Sound /\ Behind(b)
    BY <2>1, NewestIs DEF Announcing, Whole, Stored, Anchored
  <2>3. Newer(b)
    BY <2>2, HeldOutrun DEF Newer
  <2>4. QED
    BY <2>1, <2>3 DEF Passed
<1>4. QED
  BY <1>1, <1>2, <1>3, PTL DEF Spec, NonePassedOver
=============================================================================
