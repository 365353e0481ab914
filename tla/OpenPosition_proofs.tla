------------------------ MODULE OpenPosition_proofs ------------------------
(***************************************************************************)
(* What protects a position, for any prices, targets, split, protection    *)
(* settings and bounds.                                                    *)
(*                                                                         *)
(* The stop is never loosened, as long as the trend exit is off (with it   *)
(* on, the candle's last save is skipped and a restart brings an older     *)
(* stop back).  Two things carry it.  While the break-even move is still   *)
(* to come the stop is behind the entry, so the move cannot lower it:      *)
(* Sound.  And the row of an open position always has the stop the         *)
(* position has, so what a failed write or a restart brings back is no     *)
(* older stop: SameStop.                                                   *)
(*                                                                         *)
(* The targets not taken hold the open contracts because every leg is sold *)
(* whole, and the last one takes what rounding left: Covered.              *)
(*                                                                         *)
(* What prices do to the stop is followed through the candles still to     *)
(* come: each debt of a candle (a low at the stop, a high that arms the    *)
(* floor) names the candle that will still show it, and the worst price    *)
(* since the stop was moved is no better than any of them.  Candidate and  *)
(* Ahead say which candles those are; HonourInv, EarnedInv and FloorInv    *)
(* say what they owe.                                                      *)
(***************************************************************************)
EXTENDS OpenPosition, TLAPS, FiniteSetTheorems, WellFoundedInduction

Fields == {"status", "entry", "entered", "sl", "liq", "tp", "hit", "legs", "qty",
           "breakEven", "peak", "trailOff", "armed", "trailPeak", "base", "why", "px"}

Numbers(p) == p.sl \in Int /\ p.entry \in Int /\ p.peak \in Int /\ p.trailPeak \in Int
Behind(p) == p.sl < p.entry
Sound(p) ==
  /\ DOMAIN p = Fields
  /\ Numbers(p)
  /\ p.breakEven \in BOOLEAN
  /\ p.breakEven \/ Behind(p)

\* What every operation on a position leaves: it is sound, its stop is not
\* lower, and the candle it knows is the same.
NoLower(p, q) == q.sl >= p.sl
Firm(p, q) == Sound(q) /\ NoLower(p, q) /\ q.base = p.base

-----------------------------------------------------------------------------
(* The operations on one position                                          *)

LEMMA Itself == ASSUME NEW p, Sound(p) PROVE Firm(p, p)
<1>1. NoLower(p, p)
  BY DEF NoLower, Sound, Numbers
<1> QED
  BY <1>1 DEF Firm

LEMMA FirmThrough ==
  ASSUME NEW p, NEW q, NEW r, Sound(p), Firm(p, q), Firm(q, r)
  PROVE  Firm(p, r)
<1>1. p.sl \in Int /\ q.sl \in Int /\ r.sl \in Int
  BY DEF Firm, Sound, Numbers
<1>2. NoLower(p, r)
  BY <1>1 DEF Firm, NoLower
<1> QED
  BY <1>2 DEF Firm

\* Stop, entry and break-even untouched.
LEMMA StopAlone ==
  ASSUME NEW p, Sound(p), NEW q, DOMAIN q = Fields,
         q.sl = p.sl, q.entry = p.entry, q.breakEven = p.breakEven, q.base = p.base,
         q.peak \in Int, q.trailPeak \in Int
  PROVE  Firm(p, q)
<1>1. Numbers(q) /\ NoLower(p, q) /\ (Behind(p) <=> Behind(q))
  BY DEF Numbers, NoLower, Behind, Sound
<1> QED
  BY <1>1 DEF Firm, Sound

LEMMA ClosedFirm ==
  ASSUME NEW p, Sound(p), NEW price, NEW why
  PROVE  Firm(p, Closed(p, price, why)) /\ Closed(p, price, why).status = "closed"
<1> DEFINE q == Closed(p, price, why)
<1>1. /\ DOMAIN q = Fields /\ q.sl = p.sl /\ q.entry = p.entry /\ q.peak = p.peak
      /\ q.trailPeak = p.trailPeak /\ q.breakEven = p.breakEven /\ q.base = p.base
      /\ q.status = "closed"
  BY DEF Sound, Closed, Fields
<1> HIDE DEF q
<1>2. Firm(p, q)
  BY <1>1, StopAlone DEF Sound, Numbers
<1> QED
  BY <1>1, <1>2 DEF q

LEMMA BreakEvenFirm ==
  ASSUME NEW p, Sound(p)
  PROVE  Firm(p, ToBreakEven(p))
<1>1. CASE p.breakEven
  BY <1>1, Itself DEF ToBreakEven
<1>2. CASE ~p.breakEven
  <2> DEFINE q == [p EXCEPT !.sl = p.entry, !.breakEven = TRUE]
  <2>1. ToBreakEven(p) = q
    BY <1>2 DEF ToBreakEven
  <2>2. DOMAIN q = Fields /\ q.sl = p.entry /\ q.entry = p.entry /\ q.peak = p.peak
        /\ q.trailPeak = p.trailPeak /\ q.breakEven = TRUE /\ q.base = p.base
    BY DEF Sound, Fields
  <2> HIDE DEF q
  <2>3. Behind(p)
    BY <1>2 DEF Sound
  <2>4. Numbers(q) /\ NoLower(p, q)
    BY <2>2, <2>3 DEF Numbers, NoLower, Behind, Sound
  <2> QED
    BY <2>1, <2>2, <2>4 DEF Sound, Firm
<1> QED
  BY <1>1, <1>2 DEF Sound

LEMMA SoldFirm ==
  ASSUME NEW p, Sound(p), NEW T, NEW M, NEW price
  PROVE  Firm(p, Sold(p, T, M, price))
<1> DEFINE left == p.qty - Sells(p, T)
           q == [p EXCEPT !.qty = left, !.hit = [i \in DOMAIN p.tp |-> @[i] \/ i \in M]]
           c == [q EXCEPT !.status = "closed", !.why = "target", !.px = price]
<1>1. DOMAIN q = Fields /\ q.sl = p.sl /\ q.entry = p.entry /\ q.peak = p.peak
      /\ q.trailPeak = p.trailPeak /\ q.breakEven = p.breakEven /\ q.base = p.base
  BY DEF Sound, Fields
<1>2. DOMAIN c = Fields /\ c.sl = p.sl /\ c.entry = p.entry /\ c.peak = p.peak
      /\ c.trailPeak = p.trailPeak /\ c.breakEven = p.breakEven /\ c.base = p.base
  BY DEF Sound, Fields
<1>3. Sold(p, T, M, price) \in {c, ToBreakEven(q), q}
  BY DEF Sold
<1> HIDE DEF q, c
<1>4. Firm(p, q) /\ Firm(p, c)
  BY <1>1, <1>2, StopAlone DEF Sound, Numbers
<1>5. Firm(p, ToBreakEven(q))
  BY <1>4, BreakEvenFirm, FirmThrough DEF Firm
<1> QED
  BY <1>3, <1>4, <1>5

LEMMA TakeTargetsFirm ==
  ASSUME NEW p, Sound(p), NEW reached
  PROVE  Firm(p, TakeTargets(p, reached))
BY SoldFirm, Itself DEF TakeTargets

LEMMA ScriptTargetFirm ==
  ASSUME NEW p, Sound(p), NEW i, NEW price
  PROVE  Firm(p, ScriptTarget(p, i, price))
BY SoldFirm, ClosedFirm, Itself DEF ScriptTarget

LEMMA RaisedFirm ==
  ASSUME NEW p, Sound(p), NEW level \in Int
  PROVE  Firm(p, Raised(p, level))
<1>1. CASE level <= p.sl
  BY <1>1, Itself DEF Raised
<1>2. CASE ~(level <= p.sl)
  <2> DEFINE be == p.breakEven \/ level >= p.entry
             q == [p EXCEPT !.sl = level, !.breakEven = be]
  <2>1. DOMAIN q = Fields /\ q.sl = level /\ q.entry = p.entry /\ q.peak = p.peak
        /\ q.trailPeak = p.trailPeak /\ q.breakEven = be /\ q.base = p.base
    BY DEF Sound, Fields
  <2>2. Raised(p, level) = q
    BY <1>2 DEF Raised
  <2> HIDE DEF q
  <2>3. Numbers(q) /\ NoLower(p, q)
    BY <1>2, <2>1 DEF Numbers, NoLower, Sound
  <2>4. level >= p.entry \/ Behind(q)
    BY <2>1 DEF Behind, Sound, Numbers
  <2> QED
    BY <2>1, <2>2, <2>3, <2>4 DEF Sound, Firm
<1> QED
  BY <1>1, <1>2

LEMMA StoppedOutFirm ==
  ASSUME NEW p, Sound(p), NEW first
  PROVE  Firm(p, StoppedOut(p, first)) /\ StoppedOut(p, first).status = "closed"
BY ClosedFirm DEF StoppedOut

LEMMA TrailStopFirm ==
  ASSUME NEW p, Sound(p), NEW price \in Int, NEW on1, NEW give \in Int
  PROVE  Firm(p, TrailStop(p, price, on1, give))
<1> DEFINE r == price - p.entry
           q == [p EXCEPT !.peak = Greater(@, r),
                          !.trailOff = ~on1,
                          !.armed = @ \/ (on1 /\ p.trailOff),
                          !.trailPeak = IF on1 /\ (p.trailOff \/ (p.armed /\ r > @)) THEN r ELSE @]
           peak == IF q.armed THEN q.trailPeak ELSE q.peak
           kept == Kept(peak, give)
           most == CHOOSE k \in kept : \A m \in kept : m <= k
<1>1. r \in Int
  BY DEF Sound, Numbers
<1>2. /\ DOMAIN q = Fields /\ q.sl = p.sl /\ q.entry = p.entry /\ q.breakEven = p.breakEven
      /\ q.base = p.base /\ q.peak = Greater(p.peak, r)
      /\ q.trailPeak = r \/ q.trailPeak = p.trailPeak
  BY DEF Sound, Fields
<1>3. TrailStop(p, price, on1, give) \in {q, Raised(q, q.entry + most)}
  BY DEF TrailStop
<1>4. ~on1 \/ kept = {} => TrailStop(p, price, on1, give) = q
  BY DEF TrailStop
<1> HIDE DEF q, r
<1>5. q.peak \in Int /\ q.trailPeak \in Int
  BY <1>1, <1>2 DEF Greater, Sound, Numbers
<1>6. Firm(p, q)
  BY <1>2, <1>5, StopAlone
<1>7. peak \in Int
  BY <1>5
<1> HIDE DEF peak
<1>8. CASE kept = {}
  BY <1>4, <1>6, <1>8
<1>9. CASE kept # {}
  <2>1. PICK k \in kept : \A m \in kept : m <= k
    <3> DEFINE floor == FloorKeep
               trail == peak - give
    <3>1. kept \in {{floor}, {trail}, {floor, trail}}
      BY <1>9 DEF Kept
    <3>2. floor \in Int /\ trail \in Int
      BY <1>7, PositionLogicAssumption
    <3> HIDE DEF floor, trail, kept
    <3>3. CASE kept = {floor}
      BY <3>2, <3>3
    <3>4. CASE kept = {trail}
      BY <3>2, <3>4
    <3>5. CASE kept = {floor, trail}
      BY <3>2, <3>5
    <3> QED
      BY <3>1, <3>3, <3>4, <3>5
  <2>2. most \in kept
    BY <2>1
  <2>3. most \in Int
    BY <2>2, <1>7, PositionLogicAssumption DEF Kept
  <2> HIDE DEF most, kept
  <2>4. q.entry + most \in Int
    BY <2>3, <1>6 DEF Firm, Sound, Numbers
  <2>5. Firm(p, Raised(q, q.entry + most))
    BY <2>4, <1>6, RaisedFirm, FirmThrough DEF Firm
  <2> QED
    BY <1>3, <1>6, <2>5
<1> QED
  BY <1>8, <1>9

LEMMA ApplyBarFirm ==
  ASSUME NEW p, Sound(p), NEW first, NEW best \in Int, NEW worst, NEW on1, NEW give \in Int
  PROVE  Firm(p, ApplyBar(p, first, best, worst, on1, give))
<1> DEFINE q == TakeTargets(p, {i \in DOMAIN p.tp : best >= p.tp[i]})
<1>1. ApplyBar(p, first, best, worst, on1, give)
        \in {Closed(p, p.liq, "liquidation"), StoppedOut(p, first), TrailStop(q, best, on1, give), q}
  BY DEF ApplyBar
<1>2. Firm(p, q)
  BY TakeTargetsFirm
<1> HIDE DEF q
<1>3. Firm(p, TrailStop(q, best, on1, give))
  BY <1>2, TrailStopFirm, FirmThrough DEF Firm
<1> QED
  BY <1>1, <1>2, <1>3, ClosedFirm, StoppedOutFirm

LEMMA ApplyTradeFirm ==
  ASSUME NEW p, Sound(p), NEW price \in Int, NEW on1, NEW give \in Int
  PROVE  Firm(p, ApplyTrade(p, price, on1, give))
<1> DEFINE q == TakeTargets(p, {i \in DOMAIN p.tp : price > p.tp[i]})
<1>1. ApplyTrade(p, price, on1, give) \in {StoppedOut(p, price), TrailStop(q, price, on1, give), q}
  BY DEF ApplyTrade
<1>2. Firm(p, q)
  BY TakeTargetsFirm
<1> HIDE DEF q
<1>3. Firm(p, TrailStop(q, price, on1, give))
  BY <1>2, TrailStopFirm, FirmThrough DEF Firm
<1> QED
  BY <1>1, <1>2, <1>3, StoppedOutFirm

-----------------------------------------------------------------------------
(* A candle                                                                *)

Candles == [time : Int, open : Int, best : Int, worst : Int, close : Int]

LEMMA RebasedSound ==
  ASSUME NEW p, Sound(p), NEW b
  PROVE  Sound([p EXCEPT !.base = b]) /\ NoLower(p, [p EXCEPT !.base = b])
         /\ [p EXCEPT !.base = b].base = b /\ [p EXCEPT !.base = b].status = p.status
         /\ [p EXCEPT !.base = b].sl = p.sl
<1> DEFINE q == [p EXCEPT !.base = b]
<1>1. /\ DOMAIN q = Fields /\ q.sl = p.sl /\ q.entry = p.entry /\ q.peak = p.peak
      /\ q.trailPeak = p.trailPeak /\ q.breakEven = p.breakEven /\ q.base = b
      /\ q.status = p.status
  BY DEF Sound, Fields
<1> HIDE DEF q
<1>2. Numbers(q) /\ NoLower(p, q) /\ (Behind(p) <=> Behind(q))
  BY <1>1 DEF Numbers, NoLower, Behind, Sound
<1>3. Sound(q) /\ NoLower(p, q) /\ q.base = b /\ q.status = p.status /\ q.sl = p.sl
  BY <1>1, <1>2 DEF Sound
<1> QED
  BY <1>3 DEF q

\* A candle that changes the position at all is one it did not know, so the
\* save at the end of the candle is never skipped for a stop that moved.
LEMMA ApplyLiveBarFirm ==
  ASSUME NEW p, Sound(p), NEW b \in Candles, NEW on1, NEW give \in Int
  PROVE  LET q == ApplyLiveBar(p, b, on1, give)
         IN  Sound(q) /\ NoLower(p, q) /\ (q.base = p.base => q = p)
<1> DEFINE same == p.base.time = b.time
           dup == same /\ <<p.base.best, p.base.worst, p.base.close>> = <<b.best, b.worst, b.close>>
           best == IF same THEN (IF b.best > p.base.best THEN b.best ELSE b.close)
                   ELSE IF b.time <= p.entered THEN b.close ELSE b.best
           worst == IF same THEN (IF b.worst < p.base.worst THEN b.worst ELSE b.close)
                    ELSE IF b.time <= p.entered THEN b.close ELSE b.worst
           first == IF ~same /\ b.time > p.entered THEN b.open ELSE p.sl
           n == [p EXCEPT !.base = b]
           out == b.time < p.entered \/ b.time < p.base.time \/ dup
           q == ApplyLiveBar(p, b, on1, give)
           a == ApplyBar(n, first, best, worst, on1, give)
<1>1. q = IF out THEN p ELSE a
  BY DEF ApplyLiveBar
<1>2. best \in Int
  BY DEF Candles
<1>3. ~out => b # p.base
  OBVIOUS
<1>4. Sound(n) /\ NoLower(p, n) /\ n.base = b
  BY RebasedSound
<1> HIDE DEF out, best, worst, first, n, q
<1>5. Firm(n, a)
  BY <1>2, <1>4, ApplyBarFirm
<1>6. Sound(a) /\ NoLower(n, a) /\ a.base = b
  BY <1>4, <1>5 DEF Firm
<1> HIDE DEF a
<1>7. NoLower(p, a)
  BY <1>4, <1>6 DEF NoLower, Sound, Numbers
<1>8. Sound(p) /\ NoLower(p, p)
  BY Itself DEF Firm
<1>9. Sound(q) /\ NoLower(p, q) /\ (q.base = p.base => q = p)
  BY <1>1, <1>3, <1>6, <1>7, <1>8
<1> QED
  BY <1>9 DEF q

-----------------------------------------------------------------------------
(* The invariant                                                           *)

Market ==
  /\ last \in Int /\ minute \in Int
  /\ bar \in Candles /\ due \in Seq(Candles)

SameStop == Open => row.status = "open" /\ row.sl = pos.sl

StopInv ==
  /\ Market
  /\ Open => Sound(pos)
  /\ row.status = "open" => Sound(row)
  /\ Open \/ row.status = "open" => want = "none"
  /\ SameStop

\* What a step may do to the position and its row: leave both, bring the row
\* back, observe, or open.
Left == UNCHANGED <<pos, row>> /\ want' \in {want, "none"}
BroughtBack == pos' = row /\ row' = row /\ want' \in {want, "none"}
Observed ==
  /\ Open /\ want' = want
  /\ pos'.status = "open" => Sound(pos') /\ NoLower(pos, pos')
  /\ \/ row' = pos'
     \/ row' = row /\ (pos'.status = "open" => pos'.sl = pos.sl)
Entered ==
  /\ want # "none" /\ want' = "none"
  /\ row' = pos' /\ (pos'.status = "open" => Sound(pos'))
StopStep == Left \/ BroughtBack \/ Observed \/ Entered

LEMMA StopStepKeeps ==
  ASSUME StopInv, StopStep, Market'
  PROVE  StopInv' /\ (Open /\ pos'.status = "open" => pos'.sl >= pos.sl)
<1>1. CASE Left
  <2>1. Open /\ pos'.status = "open" => pos'.sl >= pos.sl
    BY <1>1 DEF Left, StopInv, Sound, Numbers
  <2> QED
    BY <1>1, <2>1 DEF Left, StopInv, SameStop, Open
<1>2. CASE BroughtBack
  <2>1. Open /\ pos'.status = "open" => pos'.sl >= pos.sl
    BY <1>2 DEF BroughtBack, StopInv, SameStop, Sound, Numbers, Open
  <2> QED
    BY <1>2, <2>1 DEF BroughtBack, StopInv, SameStop, Open
<1>3. CASE Observed
  <2>1. Open /\ pos'.status = "open" => pos'.sl >= pos.sl
    BY <1>3 DEF Observed, NoLower
  <2>2. CASE row' = pos'
    BY <1>3, <2>1, <2>2 DEF Observed, StopInv, SameStop, Open
  <2>3. CASE row' = row /\ (pos'.status = "open" => pos'.sl = pos.sl)
    BY <1>3, <2>1, <2>3 DEF Observed, StopInv, SameStop, Open
  <2> QED
    BY <1>3, <2>2, <2>3 DEF Observed
<1>4. CASE Entered
  <2>1. ~Open
    BY <1>4 DEF Entered, StopInv
  <2> QED
    BY <1>4, <2>1 DEF Entered, StopInv, SameStop, Open
<1> QED
  BY <1>1, <1>2, <1>3, <1>4 DEF StopStep

-----------------------------------------------------------------------------
(* Entering                                                                *)

LEMMA OpenedSound ==
  ASSUME NEW price \in Int, Stop < price, NEW at, NEW targets, NEW n, NEW b
  PROVE  Sound(Opened(price, at, Stop, Liq, targets, n, b))
<1> DEFINE q == Opened(price, at, Stop, Liq, targets, n, b)
<1>1. /\ DOMAIN q = Fields /\ q.sl = Stop /\ q.entry = price /\ q.peak = 0
      /\ q.trailPeak = 0 /\ q.breakEven = FALSE
  BY DEF Opened, Fields
<1> HIDE DEF q
<1>2. Numbers(q) /\ Behind(q)
  BY <1>1, OpenPositionAssumption DEF Numbers, Behind
<1>3. Sound(q)
  BY <1>1, <1>2 DEF Sound
<1> QED
  BY <1>3 DEF q

\* However it is filled, an entry leaves a sound position in memory and row.
LEMMA EnterStep ==
  ASSUME want # "none", NEW price \in Int, Stop < price, NEW b, NEW worst, NEW first,
         Enter(price, b, worst, first)
  PROVE  StopStep
<1>1. CASE UNCHANGED <<want, pos, row>>
  BY <1>1 DEF StopStep, Left
<1>2. CASE want' = "none" /\ \E n \in Quantities :
             Commit(RestingEntryStop(Opened(price, minute, Stop, Liq, TargetsAt(price), n, b), worst, first))
  <2>1. PICK n \in Quantities :
          Commit(RestingEntryStop(Opened(price, minute, Stop, Liq, TargetsAt(price), n, b), worst, first))
    BY <1>2
  <2> DEFINE o == Opened(price, minute, Stop, Liq, TargetsAt(price), n, b)
  <2>2. Sound(o)
    BY OpenedSound
  <2>3. pos' = RestingEntryStop(o, worst, first) /\ row' = pos'
    BY <2>1 DEF Commit
  <2> HIDE DEF o
  <2>4. Sound(RestingEntryStop(o, worst, first))
    BY <2>2, StoppedOutFirm DEF RestingEntryStop, Firm
  <2> QED
    BY <1>2, <2>3, <2>4 DEF StopStep, Entered
<1> QED
  BY <1>1, <1>2 DEF Enter

LEMMA OpenNowStep ==
  ASSUME StopInv, OpenNow
  PROVE  StopStep /\ Market'
<1>1. Market'
  BY DEF StopInv, Market, OpenNow
<1>2. last \in Int /\ Stop < last /\ want # "none" /\ Enter(last, seen, last, last)
  BY DEF OpenNow, Fits, StopInv, Market
<1> QED
  BY <1>1, <1>2, EnterStep

LEMMA EnterOnBarStep ==
  ASSUME StopInv, NEW b \in Candles, EnterOnBar(b), want \in {"market", "limit"}
  PROVE  StopStep
<1>1. b.close \in Int /\ Limit \in Int /\ Stop < Limit
  BY OpenPositionAssumption DEF Candles
<1>2. CASE want = "limit"
  BY <1>1, <1>2, EnterStep DEF EnterOnBar
<1>3. CASE want = "market" /\ Fits(b.close)
  BY <1>1, <1>3, EnterStep DEF EnterOnBar, Fits
<1>4. CASE want = "market" /\ ~Fits(b.close)
  BY <1>4 DEF EnterOnBar, Lapse, StopStep, Left
<1> QED
  BY <1>2, <1>3, <1>4

LEMMA EnterOnTradeStep ==
  ASSUME StopInv, NEW p \in Int, EnterOnTrade(p), want \in {"market", "limit"}
  PROVE  StopStep
<1>1. Limit \in Int /\ Stop < Limit
  BY OpenPositionAssumption
<1>2. CASE want = "limit"
  BY <1>1, <1>2, EnterStep DEF EnterOnTrade
<1>3. CASE want = "market" /\ Fits(p)
  BY <1>3, EnterStep DEF EnterOnTrade, Fits
<1>4. CASE want = "market" /\ ~Fits(p)
  BY <1>4 DEF EnterOnTrade, Lapse, StopStep, Left
<1> QED
  BY <1>2, <1>3, <1>4

-----------------------------------------------------------------------------
(* Observing                                                               *)

LEMMA GiveBackTicks == ASSUME NEW give \in GiveBacks PROVE give \in Int
BY PositionLogicAssumption

LEMMA UndoStep ==
  ASSUME Undo, want' \in {want, "none"}
  PROVE  StopStep
BY DEF Undo, StopStep, BroughtBack

LEMMA ObserveStep ==
  ASSUME StopInv, ~TrendExit, Open, want' = want, NEW b \in Candles,
         NEW historical \in BOOLEAN, NEW give \in GiveBacks, NEW timed \in BOOLEAN,
         Observe(b, historical, give, timed)
  PROVE  StopStep
<1> DEFINE q == ApplyLiveBar(pos, b, on, give)
           r == IF timed /\ ~historical /\ q.status = "open" THEN Closed(q, b.close, "market") ELSE q
           fills == r.qty # pos.qty
           saved == r.base # pos.base /\ (~TrendExit \/ historical)
<1>1. CASE Undo
  BY <1>1, UndoStep
<1>2. CASE pos' = r /\ row' = IF fills \/ saved THEN r ELSE row
  <2>1. Sound(q) /\ NoLower(pos, q) /\ (q.base = pos.base => q = pos)
    BY GiveBackTicks, ApplyLiveBarFirm DEF StopInv
  <2>2. Firm(q, Closed(q, b.close, "market")) /\ Closed(q, b.close, "market").status = "closed"
    BY <2>1, ClosedFirm
  <2>3. r.status = "open" => r = q
    BY <2>2
  <2>4. r.status = "open" => Sound(r) /\ NoLower(pos, r) /\ (r.base = pos.base => r = pos)
    BY <2>1, <2>3
  <2>5. row' = r \/ (row' = row /\ r.base = pos.base)
    BY <1>2
  <2> HIDE DEF q, r
  <2>6. pos' = r
    BY <1>2
  <2> QED
    BY <2>4, <2>5, <2>6 DEF StopStep, Observed
<1> QED
  BY <1>1, <1>2 DEF Observe

LEMMA OnBarStep ==
  ASSUME StopInv, ~TrendExit, NEW b \in Candles, NEW historical \in BOOLEAN, OnBar(b, historical)
  PROVE  StopStep
<1>1. CASE FillsOn(b) /\ EnterOnBar(b)
  BY <1>1, EnterOnBarStep DEF FillsOn
<1>2. CASE UNCHANGED <<want, pos, row>>
  BY <1>2 DEF StopStep, Left
<1>3. CASE Open /\ UNCHANGED want /\ Rebase(b)
  <2>1. Sound(pos') /\ NoLower(pos, pos') /\ pos'.sl = pos.sl /\ row' = row
    BY <1>3, RebasedSound DEF Rebase, StopInv
  <2> QED
    BY <1>3, <2>1 DEF StopStep, Observed
<1>4. CASE Open /\ UNCHANGED want
           /\ \E give \in GiveBacks, timed \in BOOLEAN : Observe(b, historical, give, timed)
  BY <1>4, ObserveStep
<1> QED
  BY <1>1, <1>2, <1>3, <1>4 DEF OnBar

LEMMA GiveCandleStep ==
  ASSUME StopInv, ~TrendExit, GiveCandle
  PROVE  StopStep /\ Market'
<1>1. bar \in Candles /\ due \in Seq(Candles)
  BY DEF StopInv, Market
<1>2. CASE due = <<>> /\ due' = due /\ OnBar(bar, FALSE)
  BY <1>1, <1>2, OnBarStep DEF GiveCandle, StopInv, Market
<1>3. CASE due # <<>> /\ due' = Tail(due) /\ \E historical \in BOOLEAN : OnBar(Head(due), historical)
  <2>1. Head(due) \in Candles /\ Tail(due) \in Seq(Candles)
    BY <1>1, <1>3
  <2>2. StopStep
    BY <1>3, <2>1, OnBarStep
  <2>3. Market'
    BY <1>3, <2>1 DEF GiveCandle, StopInv, Market
  <2> QED
    BY <2>2, <2>3
<1> QED
  BY <1>2, <1>3 DEF GiveCandle

LEMMA OnTradeStep ==
  ASSUME StopInv, Open, NEW p \in Int, NEW give \in GiveBacks, NEW timed \in BOOLEAN,
         OnTrade(p, give, timed)
  PROVE  StopStep
<1> DEFINE q == ApplyTrade(pos, p, on, give)
           r == IF timed /\ q.status = "open" THEN Closed(q, p, "market") ELSE q
           kept == r.qty # pos.qty \/ r.sl # pos.sl \/ r.trailOff # pos.trailOff
<1>1. want' = want
  BY DEF OnTrade
<1>2. CASE Undo
  BY <1>1, <1>2, UndoStep
<1>3. CASE pos' = r /\ row' = IF kept THEN r ELSE row
  <2>1. Firm(pos, q)
    BY GiveBackTicks, ApplyTradeFirm DEF StopInv
  <2>2. Closed(q, p, "market").status = "closed"
    BY <2>1, ClosedFirm DEF Firm
  <2>3. r.status = "open" => Sound(r) /\ NoLower(pos, r)
    BY <2>1, <2>2 DEF Firm
  <2>4. row' = r \/ (row' = row /\ r.sl = pos.sl)
    BY <1>3
  <2> HIDE DEF q, r
  <2>5. pos' = r
    BY <1>3
  <2> QED
    BY <1>1, <2>3, <2>4, <2>5 DEF StopStep, Observed
<1> QED
  BY <1>2, <1>3 DEF OnTrade

LEMMA PrintedMarket ==
  ASSUME StopInv, NEW p \in Prices, Printed(p), UNCHANGED <<minute, due>>
  PROVE  Market' /\ p \in Int
<1>1. p \in Int /\ bar \in Candles /\ minute \in Int
  BY OpenPositionAssumption DEF StopInv, Market
<1>2. Grown(p) \in Candles
  <2>1. CASE bar = NoBar
    BY <1>1, <2>1 DEF Grown, Bar, Candles
  <2>2. CASE bar # NoBar
    BY <1>1, <2>2 DEF Grown, Candles, Greater, Lesser
  <2> QED
    BY <2>1, <2>2
<1> QED
  BY <1>1, <1>2 DEF Printed, StopInv, Market

LEMMA PrintHeardStep ==
  ASSUME StopInv, NEW p \in Prices, PrintHeard(p)
  PROVE  StopStep /\ Market'
<1>1. Market' /\ p \in Int
  BY PrintedMarket DEF PrintHeard
<1>2. CASE Awaited(p) /\ EnterOnTrade(p)
  BY <1>1, <1>2, EnterOnTradeStep DEF Awaited
<1>3. CASE Open /\ \E give \in GiveBacks, timed \in BOOLEAN : OnTrade(p, give, timed)
  BY <1>1, <1>3, OnTradeStep
<1>4. CASE UNCHANGED <<want, pos, row>>
  BY <1>1, <1>4 DEF StopStep, Left
<1> QED
  BY <1>2, <1>3, <1>4 DEF PrintHeard

-----------------------------------------------------------------------------
(* Orders, the market and restarts                                         *)

LEMMA LeavesStep ==
  ASSUME StopInv, Open, want' = want, NEW price, Commit(LeavesAt(price))
  PROVE  StopStep
<1>1. LeavesAt(price).status = "closed"
  BY ClosedFirm DEF LeavesAt, StopInv
<1> QED
  BY <1>1 DEF Commit, StopStep, Observed

LEMMA OnMarkPriceStep ==
  ASSUME StopInv, OnMarkPrice
  PROVE  StopStep /\ Market'
<1>1. Market' /\ want' = want /\ Open
  BY DEF StopInv, Market, OnMarkPrice
<1> QED
  BY <1>1, LeavesStep, UndoStep DEF OnMarkPrice

LEMMA OnScriptExitStep ==
  ASSUME StopInv, OnScriptExit
  PROVE  StopStep /\ Market'
<1>1. Market' /\ want' = want /\ Open
  BY DEF StopInv, Market, OnScriptExit
<1>2. PICK q \in {ScriptTarget(pos, i, last) : i \in 1..3} \cup {LeavesAt(last)} :
        Commit(q) \/ Undo
  BY DEF OnScriptExit
<1>3. CASE Undo
  BY <1>1, <1>3, UndoStep
<1>4. CASE q = LeavesAt(last) /\ Commit(q)
  BY <1>1, <1>4, LeavesStep
<1>5. CASE Commit(q) /\ \E i \in 1..3 : q = ScriptTarget(pos, i, last)
  <2>1. Firm(pos, q)
    BY <1>1, <1>5, ScriptTargetFirm DEF StopInv
  <2> QED
    BY <1>1, <1>5, <2>1 DEF Commit, Firm, StopStep, Observed
<1> QED
  BY <1>2, <1>3, <1>4, <1>5

LEMMA EndMinuteStep ==
  ASSUME StopInv, EndMinute
  PROVE  StopStep /\ Market'
<1>1. NoBar \in Candles
  BY DEF NoBar, Candles
<1>2. Market'
  BY <1>1 DEF StopInv, Market, EndMinute
<1> QED
  BY <1>2 DEF EndMinute, StopStep, Left

LEMMA RestartStep ==
  ASSUME StopInv, Restart
  PROVE  StopStep /\ Market'
<1>1. Market'
  BY DEF StopInv, Market, Restart
<1> QED
  BY <1>1 DEF Restart, StopStep, BroughtBack

LEMMA StopInvInit ==
  ASSUME Init
  PROVE  StopInv
<1>1. NoBar \in Candles
  BY DEF NoBar, Candles
<1>2. last \in Prices \/ last = 1000
  BY DEF Init, Unseen
<1>3. last \in Int
  <2>1. CASE last = 1000
    BY <2>1
  <2>2. CASE last \in Prices
    BY <2>2, OpenPositionAssumption
  <2> QED
    BY <1>2, <2>1, <2>2
<1>4. pos.status = "none" /\ row.status = "none"
  BY DEF Init, NoPosition, Opened
<1> QED
  BY <1>1, <1>3, <1>4 DEF Init, StopInv, Market, SameStop, Open

LEMMA StopInvNext ==
  ASSUME StopInv, ~TrendExit, [Next]_vars
  PROVE  StopInv' /\ [Open /\ pos'.status = "open" => pos'.sl >= pos.sl]_vars
<1>1. SUFFICES StopStep /\ Market'
  BY StopStepKeeps
<1>2. CASE EndMinute
  BY <1>2, EndMinuteStep
<1>3. CASE OpenNow
  BY <1>3, OpenNowStep
<1>4. CASE GiveCandle
  BY <1>4, GiveCandleStep
<1>5. ASSUME NEW p \in Prices, PrintUnheard(p) PROVE StopStep /\ Market'
  BY <1>5, PrintedMarket DEF PrintUnheard, StopStep, Left
<1>6. ASSUME NEW p \in Prices, PrintHeard(p) PROVE StopStep /\ Market'
  BY <1>6, PrintHeardStep
<1>7. CASE TapeSilent
  BY <1>7 DEF TapeSilent, StopInv, Market, StopStep, Left
<1>8. CASE OnMarkPrice
  BY <1>8, OnMarkPriceStep
<1>9. CASE OnScriptExit
  BY <1>9, OnScriptExitStep
<1>10. CASE Restart
  BY <1>10, RestartStep
<1>11. CASE UNCHANGED vars
  BY <1>11 DEF vars, StopInv, Market, StopStep, Left
<1> QED
  BY <1>2, <1>3, <1>4, <1>5, <1>6, <1>7, <1>8, <1>9, <1>10, <1>11 DEF Next

\* Without the trend exit the stop of an open position only moves in its
\* favour, through candles, prints, script orders, failed writes and restarts.
THEOREM StopNeverLoosens == ASSUME ~TrendExit PROVE Spec => NeverLoosens
<1>1. Init => StopInv
  BY StopInvInit
<1>2. StopInv /\ [Next]_vars => StopInv'
  BY StopInvNext
<1>3. StopInv /\ [Next]_vars => [Open /\ pos'.status = "open" => pos'.sl >= pos.sl]_vars
  BY StopInvNext
<1> QED
  BY <1>1, <1>2, <1>3, PTL DEF Spec, NeverLoosens

-----------------------------------------------------------------------------
(* Sums                                                                    *)

\* A nonempty set of natural numbers has a least element.
LEMMA LeastNatural ==
  ASSUME NEW T \in SUBSET Nat, T # {}
  PROVE  \E x \in T : \A y \in T : x <= y
<1>1. PICK x \in T : \A y \in T : ~(<<y, x>> \in OpToRel(<, Nat))
  BY NatLessThanWellFounded, WFMin
<1>2. \A y \in T : ~(y < x)
  BY <1>1 DEF OpToRel
<1>3. QED
  BY <1>2

\* What holds at 0 and passes from a number to the next holds up to N.
LEMMA UpTo ==
  ASSUME NEW N \in Nat, NEW T, 0 \in T, \A n \in 0..N : n < N /\ n \in T => n + 1 \in T
  PROVE  \A n \in 0..N : n \in T
<1> DEFINE U == {n \in 0..N : n \notin T}
<1>1. SUFFICES ASSUME U # {} PROVE FALSE
  OBVIOUS
<1>2. U \in SUBSET Nat
  OBVIOUS
<1>3. PICK x \in U : \A y \in U : x <= y
  BY <1>1, <1>2, LeastNatural
<1>4. x # 0 /\ x - 1 \in 0..N /\ x - 1 \notin U
  BY <1>3
<1>5. QED
  BY <1>3, <1>4

SumsOf(f, s) ==
  /\ s \in [0..Len(f) -> Int]
  /\ s[0] = 0
  /\ \A n \in 0..Len(f) : n < Len(f) => s[n + 1] = s[n] + f[n + 1]

\* The partial sums of f exist, and Total is the last of them.
LEMMA TotalIsLastSum ==
  ASSUME NEW f \in Seq(Int)
  PROVE  \E s : SumsOf(f, s) /\ Total(f) = s[Len(f)]
<1> DEFINE N == Len(f)
           Part(k, s) == s \in [0..k -> Int] /\ s[0] = 0 /\ \A n \in 0..k : n < k => s[n + 1] = s[n] + f[n + 1]
           T == {k \in 0..N : \E s : Part(k, s)}
<1>0. N \in Nat /\ \A n \in 1..N : f[n] \in Int
  OBVIOUS
<1>1. 0 \in T
  <2>1. Part(0, [n \in 0..0 |-> 0])
    OBVIOUS
  <2>2. 0 \in 0..N
    BY <1>0
  <2> HIDE DEF Part
  <2>3. QED
    BY <2>1, <2>2
<1>2. ASSUME NEW k \in 0..N, k < N, k \in T PROVE k + 1 \in T
  <2>1. PICK s : Part(k, s)
    BY <1>2
  <2> DEFINE s1 == [n \in 0..(k + 1) |-> IF n = k + 1 THEN s[k] + f[k + 1] ELSE s[n]]
  <2>2. k \in Nat /\ k + 1 \in 1..N /\ f[k + 1] \in Int /\ s[k] \in Int
    BY <2>1, <1>0, <1>2
  <2>3. s1 \in [0..(k + 1) -> Int] /\ s1[0] = 0
    BY <2>1, <2>2
  <2>4. ASSUME NEW n \in 0..(k + 1), n < k + 1 PROVE s1[n + 1] = s1[n] + f[n + 1]
    <3>1. n \in 0..k /\ n + 1 \in 0..(k + 1) /\ s1[n] = s[n]
      BY <2>2, <2>4
    <3>2. CASE n = k
      BY <3>1, <3>2, <2>2
    <3>3. CASE n < k
      BY <3>1, <3>3, <2>1, <2>2
    <3>4. QED
      BY <3>1, <3>2, <3>3, <2>2
  <2>5. Part(k + 1, s1)
    BY <2>3, <2>4
  <2> HIDE DEF Part, s1
  <2>6. QED
    BY <2>5, <2>2, <1>0
<1>3. N \in T
  <2> HIDE DEF T, N
  <2>1. \A n \in 0..N : n \in T
    BY <1>0, <1>1, <1>2, UpTo
  <2>2. QED
    BY <2>1, <1>0
<1>4. PICK s : Part(N, s)
  BY <1>3
<1> DEFINE Def(sum) == sum = [n \in 0..Len(f) |-> IF n = 0 THEN 0 ELSE sum[n - 1] + f[n]]
           S == CHOOSE sum : Def(sum)
<1>5. Def(s)
  <2>1. ASSUME NEW n \in 0..N PROVE s[n] = IF n = 0 THEN 0 ELSE s[n - 1] + f[n]
    <3>1. CASE n = 0
      BY <3>1, <1>4
    <3>2. CASE n # 0
      <4>1. n - 1 \in 0..N /\ n - 1 < N /\ (n - 1) + 1 = n
        BY <3>2, <1>0
      <4>2. s[(n - 1) + 1] = s[n - 1] + f[(n - 1) + 1]
        BY <4>1, <1>4
      <4>3. QED
        BY <4>1, <4>2, <3>2
    <3>3. QED
      BY <3>1, <3>2
  <2>2. s = [n \in 0..N |-> s[n]]
    BY <1>4
  <2>3. QED
    BY <2>1, <2>2
<1>6. Def(S)
  <2> HIDE DEF Def
  <2>1. QED
    BY <1>5
<1>7. Total(f) = S[Len(f)]
  BY DEF Total
<1> HIDE DEF S
<1>8. /\ DOMAIN S = 0..N
      /\ \A n \in 0..N : S[n] = IF n = 0 THEN 0 ELSE S[n - 1] + f[n]
  BY <1>6
<1> HIDE DEF Def
<1>9. S[0] = 0
  BY <1>8, <1>0
<1>10. ASSUME NEW n \in 0..N, n < N PROVE S[n + 1] = S[n] + f[n + 1]
  <2>1. n + 1 \in 0..N /\ n + 1 # 0 /\ (n + 1) - 1 = n
    BY <1>10, <1>0
  <2>2. S[n + 1] = S[(n + 1) - 1] + f[n + 1]
    BY <2>1, <1>8
  <2>3. QED
    BY <2>1, <2>2
<1>11. \A n \in 0..N : S[n] \in Int
  <2> DEFINE V == {n \in 0..N : S[n] \in Int}
  <2>1. 0 \in V
    BY <1>9, <1>0
  <2>2. ASSUME NEW n \in 0..N, n < N, n \in V PROVE n + 1 \in V
    <3>1. S[n + 1] = S[n] + f[n + 1] /\ n + 1 \in 1..N
      BY <2>2, <1>10, <1>0
    <3>2. QED
      BY <2>2, <3>1, <1>0
  <2>3. \A n \in 0..N : n \in V
    <3> HIDE DEF V, N
    <3>1. QED
      BY <2>1, <2>2, <1>0, UpTo
  <2>4. QED
    BY <2>3
<1>12. S \in [0..N -> Int]
  BY <1>6, <1>11 DEF Def
<1>13. QED
  BY <1>7, <1>9, <1>10, <1>12 DEF SumsOf

\* The total of integers is an integer.
LEMMA TotalInt ==
  ASSUME NEW f \in Seq(Int)
  PROVE  Total(f) \in Int
<1>1. PICK s : SumsOf(f, s) /\ Total(f) = s[Len(f)]
  BY TotalIsLastSum
<1>2. Len(f) \in 0..Len(f)
  OBVIOUS
<1>3. QED
  BY <1>1, <1>2 DEF SumsOf

\* A sum without a negative term is not negative.
LEMMA TotalNotNegative ==
  ASSUME NEW f \in Seq(Int), \A i \in 1..Len(f) : f[i] >= 0
  PROVE  Total(f) >= 0
<1>1. PICK s : SumsOf(f, s) /\ Total(f) = s[Len(f)]
  BY TotalIsLastSum
<1> DEFINE N == Len(f)
           V == {n \in 0..N : s[n] >= 0}
<1>3. N \in Nat /\ 0 \in 0..N /\ N \in 0..N
  OBVIOUS
<1>4. s[0] = 0 /\ \A n \in 0..N : s[n] \in Int
  BY <1>1, <1>3 DEF SumsOf
<1>5. ASSUME NEW n \in 0..N, n < N
      PROVE  /\ n + 1 \in 1..N /\ f[n + 1] \in Int /\ s[n + 1] = s[n] + f[n + 1]
  <2>1. n + 1 \in 1..N
    BY <1>3, <1>5
  <2>2. QED
    BY <1>5, <2>1, <1>1 DEF SumsOf
<1>6. 0 \in V
  BY <1>3, <1>4
<1>7. ASSUME NEW n \in 0..N, n < N, n \in V PROVE n + 1 \in V
  <2>1. f[n + 1] >= 0
    BY <1>4, <1>5, <1>7
  <2>2. n + 1 \in 0..N
    BY <1>5, <1>7
  <2>3. QED
    BY <2>1, <2>2, <1>4, <1>5, <1>7
<1>8. N \in V
  <2> HIDE DEF V, N
  <2>1. \A n \in 0..N : n \in V
    BY <1>3, <1>6, <1>7, UpTo
  <2>2. QED
    BY <2>1, <1>3
<1>9. QED
  BY <1>1, <1>3, <1>8

\* Adding term by term adds the sums.
LEMMA TotalAdd ==
  ASSUME NEW f \in Seq(Int), NEW g \in Seq(Int), NEW h \in Seq(Int),
         Len(g) = Len(f), Len(h) = Len(f), \A i \in 1..Len(f) : h[i] = f[i] + g[i]
  PROVE  Total(h) = Total(f) + Total(g)
<1>1. PICK s : SumsOf(f, s) /\ Total(f) = s[Len(f)]
  BY TotalIsLastSum
<1>2. PICK t : SumsOf(g, t) /\ Total(g) = t[Len(g)]
  BY TotalIsLastSum
<1>3. PICK u : SumsOf(h, u) /\ Total(h) = u[Len(h)]
  BY TotalIsLastSum
<1> DEFINE N == Len(f)
           V == {n \in 0..N : u[n] = s[n] + t[n]}
<1>4. N \in Nat /\ Len(g) = N /\ Len(h) = N /\ 0 \in 0..N /\ N \in 0..N
  OBVIOUS
<1>5. /\ s[0] = 0 /\ t[0] = 0 /\ u[0] = 0
      /\ \A n \in 0..N : s[n] \in Int /\ t[n] \in Int /\ u[n] \in Int
  BY <1>1, <1>2, <1>3, <1>4 DEF SumsOf
<1>6. ASSUME NEW n \in 0..N, n < N
      PROVE  /\ n + 1 \in 0..N /\ h[n + 1] = f[n + 1] + g[n + 1]
             /\ f[n + 1] \in Int /\ s[n + 1] = s[n] + f[n + 1]
             /\ g[n + 1] \in Int /\ t[n + 1] = t[n] + g[n + 1]
             /\ u[n + 1] = u[n] + h[n + 1]
  <2>1. n + 1 \in 1..N /\ n + 1 \in 1..Len(g) /\ n \in 0..Len(g) /\ n < Len(g)
        /\ n \in 0..Len(h) /\ n < Len(h) /\ n + 1 \in 1..Len(f)
    BY <1>4, <1>6
  <2>2. QED
    BY <1>6, <2>1, <1>1, <1>2, <1>3 DEF SumsOf
<1>7. 0 \in V
  BY <1>4, <1>5
<1>8. ASSUME NEW n \in 0..N, n < N, n \in V PROVE n + 1 \in V
  <2>1. u[n] = s[n] + t[n] /\ u[n] \in Int /\ s[n] \in Int /\ t[n] \in Int
    BY <1>5, <1>8
  <2>4. /\ h[n + 1] = f[n + 1] + g[n + 1] /\ f[n + 1] \in Int /\ g[n + 1] \in Int
        /\ s[n + 1] = s[n] + f[n + 1] /\ t[n + 1] = t[n] + g[n + 1] /\ u[n + 1] = u[n] + h[n + 1]
    BY <1>6, <1>8
  <2> DEFINE a == s[n]
             b == t[n]
             c == f[n + 1]
             d == g[n + 1]
  <2>5. /\ a \in Int /\ b \in Int /\ c \in Int /\ d \in Int
        /\ u[n + 1] = (a + b) + (c + d) /\ s[n + 1] = a + c /\ t[n + 1] = b + d
    BY <2>1, <2>4, Zenon
  <2> HIDE DEF a, b, c, d
  <2>2. u[n + 1] = s[n + 1] + t[n + 1]
    BY <2>5
  <2>3. QED
    BY <2>2, <1>6, <1>8
<1>9. N \in V
  <2> HIDE DEF V, N
  <2>1. \A n \in 0..N : n \in V
    BY <1>4, <1>7, <1>8, UpTo
  <2>2. QED
    BY <2>1, <1>4
<1>10. QED
  BY <1>1, <1>2, <1>3, <1>4, <1>9

\* A longer sequence.
LEMMA TotalAppend ==
  ASSUME NEW f \in Seq(Int), NEW g \in Seq(Int), Len(g) = Len(f) + 1,
         \A i \in 1..Len(f) : g[i] = f[i]
  PROVE  Total(g) = Total(f) + g[Len(g)]
<1>1. PICK s : SumsOf(f, s) /\ Total(f) = s[Len(f)]
  BY TotalIsLastSum
<1>2. PICK t : SumsOf(g, t) /\ Total(g) = t[Len(g)]
  BY TotalIsLastSum
<1> DEFINE N == Len(f)
           V == {n \in 0..N : t[n] = s[n]}
<1>3. N \in Nat /\ Len(g) = N + 1 /\ 0 \in 0..N /\ N \in 0..N
  OBVIOUS
<1>4. s[0] = 0 /\ t[0] = 0 /\ \A n \in 0..N : s[n] \in Int /\ t[n] \in Int
  BY <1>1, <1>2, <1>3 DEF SumsOf
<1>5. ASSUME NEW n \in 0..N, n < N
      PROVE  /\ n + 1 \in 1..N /\ f[n + 1] \in Int /\ s[n + 1] = s[n] + f[n + 1]
             /\ g[n + 1] \in Int /\ t[n + 1] = t[n] + g[n + 1]
  <2>1. n + 1 \in 1..N /\ n + 1 \in 1..Len(g) /\ n \in 0..Len(g) /\ n < Len(g)
    BY <1>3, <1>5
  <2>2. QED
    BY <1>5, <2>1, <1>1, <1>2 DEF SumsOf
<1>6. 0 \in V
  BY <1>3, <1>4
<1>7. ASSUME NEW n \in 0..N, n < N, n \in V PROVE n + 1 \in V
  <2>1. g[n + 1] = f[n + 1]
    BY <1>4, <1>5, <1>7
  <2>2. n + 1 \in 0..N
    BY <1>5, <1>7
  <2>3. QED
    BY <2>1, <2>2, <1>4, <1>5, <1>7
<1>8. N \in V
  <2> HIDE DEF V, N
  <2>1. \A n \in 0..N : n \in V
    BY <1>3, <1>6, <1>7, UpTo
  <2>2. QED
    BY <2>1, <1>3
<1>9. t[N + 1] = t[N] + g[N + 1]
  <2>1. N \in 0..Len(g) /\ N < Len(g)
    BY <1>3
  <2>2. QED
    BY <1>2, <2>1 DEF SumsOf
<1>10. QED
  BY <1>1, <1>2, <1>3, <1>8, <1>9

\* A product distributes over a sum.
LEMMA Distributes ==
  \A q, x, y \in Int : q * (x + y) = q * x + q * y /\ q * x \in Int /\ q * y \in Int
  OBVIOUS

\* What the targets before the last are given is never more than there is.
LEMMA SplitFits ==
  ASSUME NEW q \in Nat, NEW n \in 1..Len(Split)
  PROVE  Total([j \in 1..(n - 1) |-> (q * Split[j]) \div 10]) \in 0..q
<1> DEFINE f == [j \in 1..(n - 1) |-> (q * Split[j]) \div 10]
           N == Len(Split)
<1>1. N \in Nat /\ n - 1 \in Nat /\ n - 1 \in 0..N /\ \A j \in 1..N : Split[j] \in Nat
  BY PositionLogicAssumption
<1>2. ASSUME NEW j \in 1..(n - 1)
      PROVE  f[j] \in Nat /\ 10 * f[j] <= q * Split[j]
  <2>1. q * Split[j] \in Nat
    BY <1>1
  <2>2. \A m \in Nat : m \div 10 \in Nat /\ 10 * (m \div 10) <= m
    OBVIOUS
  <2>3. f[j] = (q * Split[j]) \div 10
    OBVIOUS
  <2>4. QED
    BY <2>1, <2>2, <2>3
<1> HIDE DEF f
<1>3. f \in Seq(Int) /\ Len(f) = n - 1
  BY <1>1, <1>2 DEF f
<1>4. Split \in Seq(Int) /\ Total(Split) = 10
  BY PositionLogicAssumption
<1>5. PICK s : SumsOf(f, s) /\ Total(f) = s[Len(f)]
  BY <1>3, TotalIsLastSum
<1>6. PICK t : SumsOf(Split, t) /\ Total(Split) = t[Len(Split)]
  BY <1>4, TotalIsLastSum
<1>7. /\ s[0] = 0 /\ t[0] = 0
      /\ \A k \in 0..(n - 1) : s[k] \in Int
      /\ \A k \in 0..N : t[k] \in Int
      /\ \A k \in 0..(n - 1) : k < n - 1 => s[k + 1] = s[k] + f[k + 1]
      /\ \A k \in 0..N : k < N => t[k + 1] = t[k] + Split[k + 1]
  BY <1>1, <1>3, <1>5, <1>6 DEF SumsOf
<1> DEFINE V == {k \in 0..(n - 1) : 10 * s[k] <= q * t[k]}
           W == {k \in 0..N : k < n - 1 \/ t[n - 1] <= t[k]}
<1>8. 10 * s[n - 1] <= q * t[n - 1]
  <2>1. 0 \in V
    BY <1>1, <1>7
  <2>2. ASSUME NEW k \in 0..(n - 1), k < n - 1, k \in V PROVE k + 1 \in V
    <3>1. k + 1 \in 1..(n - 1) /\ k + 1 \in 0..(n - 1) /\ k \in 0..N /\ k < N /\ k + 1 \in 1..N
      BY <1>1, <2>2
    <3>2. /\ s[k + 1] = s[k] + f[k + 1] /\ t[k + 1] = t[k] + Split[k + 1]
          /\ s[k] \in Int /\ t[k] \in Int /\ f[k + 1] \in Nat /\ Split[k + 1] \in Nat
          /\ 10 * f[k + 1] <= q * Split[k + 1] /\ 10 * s[k] <= q * t[k]
      BY <3>1, <1>1, <1>2, <1>7, <2>2
    <3>3. q \in Int /\ t[k] \in Int /\ Split[k + 1] \in Int
      BY <3>2
    <3>4. q * t[k + 1] = q * t[k] + q * Split[k + 1] /\ q * t[k] \in Int /\ q * Split[k + 1] \in Int
      <4>1. t[k + 1] = t[k] + Split[k + 1]
        BY <3>2
      <4>2. q * (t[k] + Split[k + 1]) = q * t[k] + q * Split[k + 1]
            /\ q * t[k] \in Int /\ q * Split[k + 1] \in Int
        BY <3>3, Distributes, Zenon
      <4>3. QED
        BY <4>1, <4>2, Zenon
    <3> DEFINE a == s[k]
               b == f[k + 1]
               c == q * t[k]
               d == q * Split[k + 1]
    <3>7. /\ a \in Int /\ b \in Int /\ c \in Int /\ d \in Int
          /\ s[k + 1] = a + b /\ q * t[k + 1] = c + d /\ 10 * b <= d /\ 10 * a <= c
      BY <3>2, <3>4
    <3> HIDE DEF a, b, c, d
    <3>8. 10 * (a + b) <= c + d
      BY <3>7
    <3>5. 10 * s[k + 1] <= q * t[k + 1]
      BY <3>7, <3>8, Zenon
    <3>6. QED
      BY <3>1, <3>5
  <2>3. \A k \in 0..(n - 1) : k \in V
    <3> HIDE DEF V
    <3>1. QED
      BY <1>1, <2>1, <2>2, UpTo
  <2>4. QED
    BY <2>3, <1>1
<1>9. t[n - 1] <= t[N]
  <2>1. 0 \in W
    BY <1>1, <1>7
  <2>2. ASSUME NEW k \in 0..N, k < N, k \in W PROVE k + 1 \in W
    <3>1. k + 1 \in 1..N /\ k + 1 \in 0..N
      BY <1>1, <2>2
    <3>2. t[k + 1] = t[k] + Split[k + 1] /\ t[k] \in Int /\ Split[k + 1] \in Nat /\ t[n - 1] \in Int
      BY <3>1, <1>1, <1>7, <2>2
    <3>3. CASE k + 1 < n - 1
      BY <3>1, <3>3
    <3>4. CASE k + 1 = n - 1
      BY <3>1, <3>2, <3>4
    <3>5. CASE k + 1 > n - 1
      <4>1. t[n - 1] <= t[k]
        BY <1>1, <2>2, <3>5
      <4>2. QED
        BY <4>1, <3>1, <3>2
    <3>6. QED
      BY <3>1, <1>1, <3>3, <3>4, <3>5
  <2>3. \A k \in 0..N : k \in W
    <3> HIDE DEF W, N
    <3>1. QED
      BY <1>1, <2>1, <2>2, UpTo
  <2>4. N \in W
    BY <2>3, <1>1
  <2>5. QED
    BY <2>4, <1>1, <1>7
<1>10. s[n - 1] <= q
  <2>1. t[n - 1] \in Int /\ s[n - 1] \in Int /\ t[n - 1] <= 10
    BY <1>1, <1>4, <1>6, <1>7, <1>9
  <2>2. q * t[n - 1] <= q * 10
    BY <2>1
  <2>3. QED
    BY <2>1, <2>2, <1>8
<1>11. Total(f) >= 0
  <2>1. \A i \in 1..Len(f) : f[i] >= 0
    BY <1>2, <1>3
  <2>2. QED
    BY <2>1, <1>3, TotalNotNegative
<1>12. Total(f) \in 0..q
  BY <1>1, <1>3, <1>5, <1>7, <1>10, <1>11
<1>13. QED
  BY <1>12 DEF f

-----------------------------------------------------------------------------
(* The legs of the targets                                                 *)

Unhit(p) == {i \in DOMAIN p.tp : ~p.hit[i]}

\* A position whose targets hold exactly its open contracts.
Covered(p) ==
  /\ DOMAIN p = Fields
  /\ p.tp \in Seq(Nat)
  /\ p.legs \in [DOMAIN p.tp -> Nat]
  /\ p.hit \in [DOMAIN p.tp -> BOOLEAN]
  /\ p.qty \in Nat \ {0}
  /\ p.tp # <<>> => Legs(p, Unhit(p)) = p.qty
Accounted(p) == p.status = "open" => Covered(p)

\* Targets, legs, what was taken and how many contracts are untouched.
LEMMA LegsAlone ==
  ASSUME NEW p, Covered(p), NEW q, DOMAIN q = Fields,
         q.tp = p.tp, q.legs = p.legs, q.hit = p.hit, q.qty = p.qty
  PROVE  Covered(q)
<1>1. Unhit(q) = Unhit(p)
  BY DEF Unhit
<1>2. Legs(q, Unhit(q)) = Legs(p, Unhit(p))
  BY <1>1 DEF Legs
<1>3. QED
  BY <1>2 DEF Covered

LEMMA ClosedAccounted ==
  ASSUME NEW p, Covered(p), NEW price, NEW why
  PROVE  Closed(p, price, why).status = "closed"
BY DEF Closed, Covered, Fields

LEMMA BreakEvenAccounted ==
  ASSUME NEW p, Covered(p)
  PROVE  Covered(ToBreakEven(p))
<1>1. CASE p.breakEven
  BY <1>1 DEF ToBreakEven
<1>2. CASE ~p.breakEven
  <2> DEFINE q == [p EXCEPT !.sl = p.entry, !.breakEven = TRUE]
  <2>1. DOMAIN q = Fields /\ q.tp = p.tp /\ q.legs = p.legs /\ q.hit = p.hit /\ q.qty = p.qty
    BY DEF Covered, Fields
  <2>2. ToBreakEven(p) = q
    BY <1>2 DEF ToBreakEven
  <2> HIDE DEF q
  <2>3. QED
    BY <2>1, <2>2, LegsAlone
<1>3. QED
  BY <1>1, <1>2

LEMMA RaisedAccounted ==
  ASSUME NEW p, Covered(p), NEW level
  PROVE  Covered(Raised(p, level))
<1> DEFINE q == [p EXCEPT !.sl = level, !.breakEven = @ \/ level >= p.entry]
<1>1. DOMAIN q = Fields /\ q.tp = p.tp /\ q.legs = p.legs /\ q.hit = p.hit /\ q.qty = p.qty
  BY DEF Covered, Fields
<1>2. Raised(p, level) \in {p, q}
  BY DEF Raised
<1> HIDE DEF q
<1>3. QED
  BY <1>1, <1>2, LegsAlone

LEMMA TrailStopAccounted ==
  ASSUME NEW p, Covered(p), NEW price, NEW on1, NEW give
  PROVE  Covered(TrailStop(p, price, on1, give))
<1> DEFINE r == price - p.entry
           q == [p EXCEPT !.peak = Greater(@, r),
                          !.trailOff = ~on1,
                          !.armed = @ \/ (on1 /\ p.trailOff),
                          !.trailPeak = IF on1 /\ (p.trailOff \/ (p.armed /\ r > @)) THEN r ELSE @]
           kept == Kept(IF q.armed THEN q.trailPeak ELSE q.peak, give)
           level == q.entry + (CHOOSE k \in kept : \A m \in kept : m <= k)
<1>1. DOMAIN q = Fields /\ q.tp = p.tp /\ q.legs = p.legs /\ q.hit = p.hit /\ q.qty = p.qty
  BY DEF Covered, Fields
<1>2. TrailStop(p, price, on1, give) \in {q, Raised(q, level)}
  BY DEF TrailStop
<1> HIDE DEF q, level
<1>3. Covered(q)
  BY <1>1, LegsAlone
<1>4. QED
  BY <1>2, <1>3, RaisedAccounted

\* What some targets were given is a natural number, and targets that were
\* given nothing do not count.
LEMMA LegsNat ==
  ASSUME NEW p, Covered(p), NEW T
  PROVE  Legs(p, T) \in Nat
<1> DEFINE f == [i \in DOMAIN p.tp |-> IF i \in T THEN p.legs[i] ELSE 0]
<1>1. f \in Seq(Int) /\ \A i \in 1..Len(f) : f[i] >= 0
  BY DEF Covered
<1> HIDE DEF f
<1>2. Total(f) \in Int /\ Total(f) >= 0
  BY <1>1, TotalInt, TotalNotNegative
<1>3. QED
  BY <1>2 DEF Legs, f

LEMMA LegsSplit ==
  ASSUME NEW p, Covered(p), NEW U, NEW T, NEW M, T \subseteq M, M \subseteq U,
         \A i \in M \ T : p.legs[i] = 0
  PROVE  Legs(p, U) = Legs(p, T) + Legs(p, U \ M)
<1> DEFINE f == [i \in DOMAIN p.tp |-> IF i \in T THEN p.legs[i] ELSE 0]
           g == [i \in DOMAIN p.tp |-> IF i \in U \ M THEN p.legs[i] ELSE 0]
           h == [i \in DOMAIN p.tp |-> IF i \in U THEN p.legs[i] ELSE 0]
<1>1. f \in Seq(Int) /\ g \in Seq(Int) /\ h \in Seq(Int)
  <2>1. f \in Seq(Int)
    BY DEF Covered
  <2>2. g \in Seq(Int)
    BY DEF Covered
  <2>3. h \in Seq(Int)
    BY DEF Covered
  <2>4. QED
    BY <2>1, <2>2, <2>3
<1>2. Len(g) = Len(f) /\ Len(h) = Len(f) /\ Len(f) = Len(p.tp)
  <2>1. Len(p.tp) \in Nat /\ DOMAIN p.tp = 1..Len(p.tp)
    BY DEF Covered
  <2>2. Len(f) = Len(p.tp)
    BY <2>1
  <2>3. Len(g) = Len(p.tp)
    BY <2>1
  <2>4. Len(h) = Len(p.tp)
    BY <2>1
  <2>5. QED
    BY <2>2, <2>3, <2>4
<1>3. ASSUME NEW i \in 1..Len(f) PROVE h[i] = f[i] + g[i]
  <2>1. i \in DOMAIN p.tp /\ p.legs[i] \in Nat
    BY <1>2, <1>3 DEF Covered
  <2>2. /\ f[i] = IF i \in T THEN p.legs[i] ELSE 0
        /\ g[i] = IF i \in U \ M THEN p.legs[i] ELSE 0
        /\ h[i] = IF i \in U THEN p.legs[i] ELSE 0
    BY <2>1
  <2> HIDE DEF f, g, h
  <2>3. QED
    BY <2>1, <2>2
<1> HIDE DEF f, g, h
<1>4. Total(h) = Total(f) + Total(g)
  BY <1>1, <1>2, <1>3, TotalAdd
<1>5. QED
  BY <1>4 DEF f, g, h, Legs

\* Selling the targets of T and marking those of M keeps the account, if those
\* marked without being sold were given nothing.
LEMMA SoldAccounted ==
  ASSUME NEW p, Covered(p), NEW T, NEW M, NEW price, T \subseteq M, M \subseteq Unhit(p),
         \A i \in M \ T : p.legs[i] = 0
  PROVE  Accounted(Sold(p, T, M, price))
<1> DEFINE left == p.qty - Sells(p, T)
           q == [p EXCEPT !.qty = left, !.hit = [i \in DOMAIN p.tp |-> @[i] \/ i \in M]]
           c == [q EXCEPT !.status = "closed", !.why = "target", !.px = price]
<1>1. c.status = "closed"
  BY DEF Covered, Fields
<1>2. /\ DOMAIN q = Fields /\ q.tp = p.tp /\ q.legs = p.legs /\ q.qty = left
      /\ q.hit = [i \in DOMAIN p.tp |-> p.hit[i] \/ i \in M]
  BY DEF Covered, Fields
<1>3. /\ left = 0 => Sold(p, T, M, price) = c
      /\ left # 0 => Sold(p, T, M, price) \in {ToBreakEven(q), q}
  BY DEF Sold
<1> HIDE DEF q, c
<1>4. CASE left = 0
  BY <1>1, <1>3, <1>4 DEF Accounted
<1>5. CASE left # 0
  <2>1. Len(p.tp) \notin T /\ Sells(p, T) = Lesser(Legs(p, T), p.qty)
    BY <1>5 DEF Sells, Covered
  <2>2. Legs(p, T) \in Nat /\ Legs(p, Unhit(p) \ M) \in Nat /\ p.qty \in Nat
    BY LegsNat DEF Covered
  <2>3. left \in Nat \ {0}
    BY <2>1, <2>2, <1>5 DEF Lesser
  <2>4. q.hit \in [DOMAIN q.tp -> BOOLEAN]
    BY <1>2 DEF Covered
  <2>5. ASSUME q.tp # <<>> PROVE Legs(q, Unhit(q)) = q.qty
    <3>1. Legs(p, Unhit(p)) = Legs(p, T) + Legs(p, Unhit(p) \ M)
      BY LegsSplit
    <3>2. Legs(p, Unhit(p)) = p.qty
      BY <1>2, <2>5 DEF Covered
    <3>3. left = Legs(p, Unhit(p) \ M)
      BY <2>1, <2>2, <3>1, <3>2 DEF Lesser
    <3>4. Unhit(q) = Unhit(p) \ M
      BY <1>2 DEF Unhit, Covered
    <3>5. Legs(q, Unhit(q)) = Legs(p, Unhit(p) \ M)
      BY <1>2, <3>4 DEF Legs
    <3>6. QED
      BY <3>3, <3>5, <1>2
  <2> HIDE DEF left
  <2>6. Covered(q)
    BY <1>2, <2>3, <2>4, <2>5 DEF Covered
  <2>7. QED
    BY <1>3, <1>5, <2>6, BreakEvenAccounted DEF Accounted
<1>6. QED
  BY <1>4, <1>5

LEMMA TakeTargetsAccounted ==
  ASSUME NEW p, Covered(p), NEW reached
  PROVE  Accounted(TakeTargets(p, reached))
<1> DEFINE T == {i \in Untaken(p) : \A j \in Untaken(p) : j <= i => j \in reached}
           price == p.tp[CHOOSE i \in T : \A j \in T : j <= i]
<1>1. T \subseteq Unhit(p)
  BY DEF Untaken, Unhit
<1>2. TakeTargets(p, reached) \in {p, Sold(p, T, T, price)}
  BY DEF TakeTargets
<1> HIDE DEF T, price
<1>3. Accounted(Sold(p, T, T, price))
  BY <1>1, SoldAccounted
<1>4. QED
  BY <1>2, <1>3 DEF Accounted

LEMMA ScriptTargetAccounted ==
  ASSUME NEW p, Covered(p), NEW i \in 1..3, NEW price
  PROVE  Accounted(ScriptTarget(p, i, price))
<1> DEFINE M == {k \in 1..i : ~p.hit[k]}
           T == M \cap Untaken(p)
<1>1. CASE i > Len(p.tp) \/ p.hit[i]
  BY <1>1 DEF ScriptTarget, Accounted
<1>2. CASE ~(i > Len(p.tp) \/ p.hit[i])
  <2>1. M \subseteq Unhit(p)
    BY <1>2 DEF Unhit, Covered
  <2>2. \A k \in M \ T : p.legs[k] = 0
    <3>1. \A k \in Unhit(p) \ Untaken(p) : p.legs[k] = 0
      BY DEF Unhit, Untaken, Covered
    <3>2. QED
      BY <2>1, <3>1
  <2>3. ScriptTarget(p, i, price) \in {Closed(p, price, "target"), Sold(p, T, M, price)}
    BY <1>2 DEF ScriptTarget
  <2>4. T \subseteq M
    OBVIOUS
  <2> HIDE DEF M, T
  <2>5. Accounted(Sold(p, T, M, price))
    BY <2>1, <2>2, <2>4, SoldAccounted
  <2>6. QED
    BY <2>3, <2>5, ClosedAccounted DEF Accounted
<1>3. QED
  BY <1>1, <1>2

LEMMA ApplyBarAccounted ==
  ASSUME NEW p, Covered(p), NEW first, NEW best, NEW worst, NEW on1, NEW give
  PROVE  Accounted(ApplyBar(p, first, best, worst, on1, give))
<1> DEFINE q == TakeTargets(p, {i \in DOMAIN p.tp : best >= p.tp[i]})
           a == ApplyBar(p, first, best, worst, on1, give)
<1>1. \/ a \in {Closed(p, p.liq, "liquidation"), StoppedOut(p, first)}
      \/ q.status = "open" /\ a = TrailStop(q, best, on1, give)
      \/ q.status # "open" /\ a = q
  BY DEF ApplyBar
<1>2. Accounted(q)
  BY TakeTargetsAccounted
<1> HIDE DEF q, a
<1> SUFFICES Accounted(a)
  BY DEF a
<1>3. CASE a \in {Closed(p, p.liq, "liquidation"), StoppedOut(p, first)}
  BY <1>3, ClosedAccounted DEF StoppedOut, Accounted
<1>4. CASE q.status = "open" /\ a = TrailStop(q, best, on1, give)
  BY <1>2, <1>4, TrailStopAccounted DEF Accounted
<1>5. CASE q.status # "open" /\ a = q
  BY <1>5 DEF Accounted
<1>6. QED
  BY <1>1, <1>3, <1>4, <1>5

LEMMA ApplyTradeAccounted ==
  ASSUME NEW p, Covered(p), NEW price, NEW on1, NEW give
  PROVE  Accounted(ApplyTrade(p, price, on1, give))
<1> DEFINE q == TakeTargets(p, {i \in DOMAIN p.tp : price > p.tp[i]})
           a == ApplyTrade(p, price, on1, give)
<1>1. \/ a = StoppedOut(p, price)
      \/ q.status = "open" /\ a = TrailStop(q, price, on1, give)
      \/ q.status # "open" /\ a = q
  BY DEF ApplyTrade
<1>2. Accounted(q)
  BY TakeTargetsAccounted
<1> HIDE DEF q, a
<1> SUFFICES Accounted(a)
  BY DEF a
<1>3. CASE a = StoppedOut(p, price)
  BY <1>3, ClosedAccounted DEF StoppedOut, Accounted
<1>4. CASE q.status = "open" /\ a = TrailStop(q, price, on1, give)
  BY <1>2, <1>4, TrailStopAccounted DEF Accounted
<1>5. CASE q.status # "open" /\ a = q
  BY <1>5 DEF Accounted
<1>6. QED
  BY <1>1, <1>3, <1>4, <1>5

LEMMA RebasedAccounted ==
  ASSUME NEW p, Covered(p), NEW b
  PROVE  Covered([p EXCEPT !.base = b])
<1> DEFINE q == [p EXCEPT !.base = b]
<1>1. DOMAIN q = Fields /\ q.tp = p.tp /\ q.legs = p.legs /\ q.hit = p.hit /\ q.qty = p.qty
  BY DEF Covered, Fields
<1> HIDE DEF q
<1>2. Covered(q)
  BY <1>1, LegsAlone
<1>3. QED
  BY <1>2 DEF q

LEMMA ApplyLiveBarAccounted ==
  ASSUME NEW p, Covered(p), NEW b, NEW on1, NEW give
  PROVE  Accounted(ApplyLiveBar(p, b, on1, give))
<1> DEFINE n == [p EXCEPT !.base = b]
<1>1. \/ ApplyLiveBar(p, b, on1, give) = p
      \/ \E first, best, worst :
           ApplyLiveBar(p, b, on1, give) = ApplyBar(n, first, best, worst, on1, give)
  BY DEF ApplyLiveBar
<1>2. Covered(n)
  BY RebasedAccounted
<1> HIDE DEF n
<1>3. QED
  BY <1>1, <1>2, ApplyBarAccounted DEF Accounted

\* What is opened: every contract belongs to a target.
LEMMA TargetsAtNat ==
  ASSUME NEW price \in Nat
  PROVE  TargetsAt(price) \in Seq(Nat)
<1> DEFINE S == {i \in DOMAIN Targets : Targets[i] <= price}
           passed == Cardinality(S)
           ahead == SubSeq(Targets, passed + 1, Len(Targets))
           ladder == [i \in DOMAIN Ladder |-> price + Ladder[i]]
<1>1. passed \in Nat
  <2>1. DOMAIN Targets = 1..Len(Targets) /\ Len(Targets) \in Nat
    BY OpenPositionAssumption
  <2>2. IsFiniteSet(S)
    <3>1. IsFiniteSet(1..Len(Targets))
      BY <2>1, FS_Interval
    <3>2. QED
      BY <2>1, <3>1, FS_Subset
  <2>3. QED
    BY <2>2, FS_CardinalityType
<1>2. ahead \in Seq(Nat)
  <2> HIDE DEF passed
  <2>1. QED
    BY <1>1, OpenPositionAssumption
<1>3. ladder \in Seq(Nat)
  <2>1. \A i \in 1..Len(Ladder) : Ladder[i] \in Nat
    BY OpenPositionAssumption
  <2>2. Len(Ladder) \in Nat /\ DOMAIN Ladder = 1..Len(Ladder)
    BY OpenPositionAssumption
  <2>3. QED
    BY <2>1, <2>2
<1>4. TargetsAt(price) \in {ahead, ladder}
  BY DEF TargetsAt
<1> HIDE DEF ahead, ladder
<1>5. QED
  BY <1>2, <1>3, <1>4

LEMMA SplitLegsCover ==
  ASSUME NEW q \in Nat, NEW n \in 1..Len(Split)
  PROVE  SplitLegs(q, n) \in [1..n -> Nat] /\ Total(SplitLegs(q, n)) = q
<1> DEFINE part == [j \in 1..(n - 1) |-> (q * Split[j]) \div 10]
           legs == SplitLegs(q, n)
<1>1. Len(Split) \in Nat /\ \A i \in 1..Len(Split) : Split[i] \in Nat
  BY PositionLogicAssumption
<1>2. Total(part) \in 0..q
  BY SplitFits
<1>3. ASSUME NEW j \in 1..(n - 1) PROVE (q * Split[j]) \div 10 \in Nat
  <2>1. q * Split[j] \in Nat
    BY <1>1
  <2>2. \A m \in Nat : m \div 10 \in Nat
    OBVIOUS
  <2>3. QED
    BY <2>1, <2>2
<1>4. legs = [i \in 1..n |-> IF i < n THEN (q * Split[i]) \div 10 ELSE q - Total(part)]
  BY DEF SplitLegs
<1>5. part \in Seq(Int) /\ Len(part) = n - 1
  BY <1>1, <1>3
<1>6. \A i \in 1..Len(part) : part[i] = (q * Split[i]) \div 10
  BY <1>5
<1> HIDE DEF part, legs
<1>7. legs \in [1..n -> Nat]
  BY <1>1, <1>2, <1>3, <1>4
<1>8. legs \in Seq(Int) /\ Len(legs) = n /\ Len(legs) = Len(part) + 1
  BY <1>1, <1>5, <1>7
<1>9. legs[n] = q - Total(part)
  BY <1>1, <1>4
<1>10. \A i \in 1..Len(part) : legs[i] = part[i]
  BY <1>1, <1>4, <1>5, <1>6
<1>11. Total(legs) = Total(part) + legs[Len(legs)]
  BY <1>5, <1>8, <1>10, TotalAppend
<1>12. QED
  BY <1>2, <1>7, <1>8, <1>9, <1>11 DEF legs

LEMMA OpenedAccounted ==
  ASSUME NEW price, NEW at, NEW stop, NEW liq, NEW targets \in Seq(Nat), NEW q \in Nat \ {0}, NEW b
  PROVE  Covered(Opened(price, at, stop, liq, targets, q, b))
<1> DEFINE n == Lesser(Len(Split), Len(targets))
           p == Opened(price, at, stop, liq, targets, q, b)
           legs == SplitLegs(q, n)
           tp == SubSeq(targets, 1, n)
<1>1. /\ DOMAIN p = Fields /\ p.tp = tp /\ p.legs = legs
      /\ p.hit = [i \in 1..n |-> FALSE] /\ p.qty = q
  BY DEF Opened, Fields
<1>2. n \in Nat /\ n <= Len(Split) /\ n <= Len(targets)
  BY PositionLogicAssumption DEF Lesser
<1>3. tp \in Seq(Nat) /\ Len(tp) = n
  BY <1>2
<1>4. legs \in [1..n -> Nat] /\ (n # 0 => Total(legs) = q)
  <2>1. CASE n = 0
    BY <2>1 DEF SplitLegs
  <2>2. CASE n # 0
    <3>1. n \in 1..Len(Split)
      BY <1>2, <2>2
    <3>2. QED
      BY <3>1, SplitLegsCover
  <2>3. QED
    BY <2>1, <2>2
<1> HIDE DEF p, n, legs, tp
<1>5. DOMAIN p.tp = 1..n /\ (p.tp # <<>> => n # 0)
  BY <1>1, <1>3
<1>6. p.hit \in [DOMAIN p.tp -> BOOLEAN] /\ p.legs \in [DOMAIN p.tp -> Nat]
  BY <1>1, <1>4, <1>5
<1>7. ASSUME p.tp # <<>> PROVE Legs(p, Unhit(p)) = p.qty
  <2>1. Unhit(p) = 1..n
    BY <1>1, <1>5 DEF Unhit
  <2>2. [i \in DOMAIN p.tp |-> IF i \in Unhit(p) THEN p.legs[i] ELSE 0] = legs
    BY <1>1, <1>4, <1>5, <2>1
  <2>3. QED
    BY <1>1, <1>4, <1>5, <1>7, <2>2 DEF Legs
<1>8. Covered(p)
  BY <1>1, <1>3, <1>6, <1>7 DEF Covered
<1>9. QED
  BY <1>8 DEF p

-----------------------------------------------------------------------------
(* What the exchange has made: one candle per minute, in their order       *)

Shown == [time : Nat, open : Nat, best : Nat, worst : Nat, close : Nat]

Feed ==
  /\ last \in Nat /\ minute \in Nat
  /\ bar = NoBar \/ (bar \in Shown /\ bar.time = minute /\ bar.close = last)
  /\ due \in Seq(Shown)
  /\ \A i \in DOMAIN due : due[i].time < minute
  /\ \A i, j \in DOMAIN due : i < j => due[i].time < due[j].time

\* The candle the book is given: the oldest of those that are due.
Given(b, d) ==
  \/ due = <<>> /\ d = due /\ bar # NoBar /\ b = bar
  \/ due # <<>> /\ d = Tail(due) /\ b = Head(due)

LEMMA FeedInit == ASSUME Init PROVE Feed
<1>1. CASE last \in Prices
  BY <1>1, OpenPositionAssumption DEF Init, Feed
<1>2. CASE last = Unseen
  BY <1>2 DEF Init, Feed, Unseen
<1>3. QED
  BY <1>1, <1>2 DEF Init

LEMMA EndMinuteFeed == ASSUME Feed, EndMinute PROVE Feed'
<1>1. last' \in Nat /\ minute' = minute + 1 /\ minute' \in Nat /\ bar' = NoBar
  BY DEF Feed, EndMinute
<1>5. /\ Len(due) \in Nat /\ DOMAIN due = 1..Len(due)
      /\ \A i \in DOMAIN due : due[i] \in Shown
  BY DEF Feed
<1>6. \A i \in DOMAIN due : due[i].time \in Nat /\ due[i].time < minute
  BY <1>5 DEF Feed, Shown
<1>2. CASE bar = NoBar
  <2>1. due' = due
    BY <1>2 DEF EndMinute
  <2>2. \A i \in DOMAIN due : due[i].time < minute + 1
    BY <1>6 DEF Feed
  <2>3. QED
    BY <1>1, <2>1, <2>2 DEF Feed
<1>3. CASE bar # NoBar
  <2>1. bar \in Shown /\ bar.time = minute /\ due' = Append(due, bar)
    BY <1>3 DEF Feed, EndMinute
  <2>2. due' \in Seq(Shown) /\ Len(due') = Len(due) + 1 /\ due'[Len(due) + 1] = bar
        /\ \A i \in 1..Len(due) : due'[i] = due[i]
    BY <2>1 DEF Feed
  <2>3. /\ Len(due) \in Nat /\ DOMAIN due = 1..Len(due) /\ DOMAIN due' = 1..(Len(due) + 1)
        /\ \A i \in 1..Len(due) : due[i].time \in Nat
    BY <2>2, <1>5, <1>6
  <2>4. \A i \in 1..Len(due) : due'[i].time = due[i].time /\ due[i].time < minute
    BY <2>2, <2>3 DEF Feed
  <2>5. due'[Len(due) + 1].time = minute /\ minute \in Nat
    BY <2>1, <2>2 DEF Feed
  <2>6. \A i \in DOMAIN due' : due'[i].time < minute'
    <3>1. SUFFICES ASSUME NEW i \in 1..(Len(due) + 1) PROVE due'[i].time < minute + 1
      BY <1>1, <2>3
    <3>2. CASE i \in 1..Len(due)
      BY <3>2, <2>3, <2>4, <2>5
    <3>3. CASE i = Len(due) + 1
      BY <3>3, <2>5
    <3>4. QED
      BY <3>2, <3>3, <2>3
  <2>7. \A i, j \in DOMAIN due' : i < j => due'[i].time < due'[j].time
    <3>1. SUFFICES ASSUME NEW i \in 1..(Len(due) + 1), NEW j \in 1..(Len(due) + 1), i < j
                   PROVE  due'[i].time < due'[j].time
      BY <2>3
    <3>2. i \in 1..Len(due)
      BY <3>1, <2>3
    <3>3. CASE j \in 1..Len(due)
      BY <3>1, <3>2, <3>3, <2>3, <2>4 DEF Feed
    <3>4. CASE j = Len(due) + 1
      BY <3>2, <3>4, <2>4, <2>5
    <3>5. QED
      BY <3>3, <3>4, <2>3
  <2>8. QED
    BY <1>1, <2>2, <2>6, <2>7 DEF Feed
<1>4. QED
  BY <1>2, <1>3

LEMMA PrintedFeed ==
  ASSUME Feed, NEW p \in Prices, Printed(p), UNCHANGED <<minute, due>>
  PROVE  Feed'
<1>1. p \in Nat
  BY OpenPositionAssumption
<1>2. bar' \in Shown /\ bar'.time = minute /\ bar'.close = p
  <2>1. CASE bar = NoBar
    BY <1>1, <2>1 DEF Printed, Grown, Bar, Shown, Feed
  <2>2. CASE bar # NoBar
    BY <1>1, <2>2 DEF Printed, Grown, Shown, Feed, Greater, Lesser
  <2>3. QED
    BY <2>1, <2>2
<1>3. QED
  BY <1>1, <1>2 DEF Feed, Printed

LEMMA GiveCandleFeed == ASSUME Feed, GiveCandle PROVE Feed'
<1>1. UNCHANGED <<minute, bar, last>>
  BY DEF GiveCandle
<1>2. CASE due' = due
  BY <1>1, <1>2 DEF Feed
<1>3. CASE due # <<>> /\ due' = Tail(due)
  <2>1. /\ due' \in Seq(Shown) /\ Len(due) \in Nat \ {0} /\ DOMAIN due = 1..Len(due)
        /\ DOMAIN due' = 1..(Len(due) - 1)
    BY <1>3 DEF Feed
  <2>2. \A i \in DOMAIN due' : i + 1 \in DOMAIN due /\ due'[i] = due[i + 1]
    BY <1>3, <2>1 DEF Feed
  <2>3. \A i \in DOMAIN due' : due'[i].time < minute
    BY <2>2 DEF Feed
  <2>4. ASSUME NEW i \in DOMAIN due', NEW j \in DOMAIN due', i < j
        PROVE  due'[i].time < due'[j].time
    <3>1. i + 1 \in DOMAIN due /\ j + 1 \in DOMAIN due /\ i + 1 < j + 1
      BY <2>1, <2>2, <2>4
    <3>2. due[i + 1].time < due[j + 1].time
      BY <3>1 DEF Feed
    <3>3. QED
      BY <2>2, <3>2
  <2>5. QED
    BY <1>1, <2>1, <2>3, <2>4 DEF Feed
<1>4. QED
  BY <1>2, <1>3 DEF GiveCandle

LEMMA FeedNext == ASSUME Feed, [Next]_vars PROVE Feed'
<1>1. CASE EndMinute
  BY <1>1, EndMinuteFeed
<1>2. CASE GiveCandle
  BY <1>2, GiveCandleFeed
<1>3. ASSUME NEW p \in Prices, PrintUnheard(p) \/ PrintHeard(p) PROVE Feed'
  BY <1>3, PrintedFeed DEF PrintUnheard, PrintHeard
<1>4. CASE OpenNow \/ TapeSilent \/ OnMarkPrice \/ OnScriptExit \/ UNCHANGED vars
  BY <1>4 DEF Feed, OpenNow, TapeSilent, OnMarkPrice, OnScriptExit, vars
<1>5. CASE Restart
  BY <1>5 DEF Feed, Restart
<1>6. QED
  BY <1>1, <1>2, <1>3, <1>4, <1>5 DEF Next

-----------------------------------------------------------------------------
(* The targets hold the open contracts                                     *)

CoverInv == Feed /\ Accounted(pos) /\ Accounted(row)
AccountedBoth == Accounted(pos') /\ Accounted(row')

LEMMA UndoAccounted == ASSUME CoverInv, Undo PROVE AccountedBoth
BY DEF CoverInv, Undo, AccountedBoth

LEMMA EnterAccounted ==
  ASSUME CoverInv, NEW price \in Nat, NEW b, NEW worst, NEW first, Enter(price, b, worst, first)
  PROVE  AccountedBoth
<1>1. CASE UNCHANGED <<pos, row>>
  BY <1>1 DEF CoverInv, AccountedBoth
<1>2. CASE \E n \in Quantities :
             Commit(RestingEntryStop(Opened(price, minute, Stop, Liq, TargetsAt(price), n, b), worst, first))
  <2>1. PICK n \in Quantities :
          Commit(RestingEntryStop(Opened(price, minute, Stop, Liq, TargetsAt(price), n, b), worst, first))
    BY <1>2
  <2> DEFINE o == Opened(price, minute, Stop, Liq, TargetsAt(price), n, b)
  <2>2. n \in Nat \ {0} /\ TargetsAt(price) \in Seq(Nat)
    BY TargetsAtNat, OpenPositionAssumption
  <2>3. Covered(o)
    BY <2>2, OpenedAccounted
  <2>4. pos' \in {o, StoppedOut(o, first)} /\ row' = pos'
    BY <2>1 DEF Commit, RestingEntryStop
  <2> HIDE DEF o
  <2>5. Accounted(pos')
    BY <2>3, <2>4, ClosedAccounted DEF StoppedOut, Accounted
  <2>6. QED
    BY <2>4, <2>5 DEF AccountedBoth
<1>3. QED
  BY <1>1, <1>2 DEF Enter

LEMMA EnterOnBarAccounted ==
  ASSUME CoverInv, NEW b \in Shown, EnterOnBar(b)
  PROVE  AccountedBoth
<1>1. b.close \in Nat /\ Limit \in Nat
  BY OpenPositionAssumption DEF Shown
<1>2. \/ Enter(Limit, b, b.worst, b.open)
      \/ Enter(b.close, b, b.close, b.close)
      \/ Lapse
  BY DEF EnterOnBar
<1>3. QED
  BY <1>1, <1>2, EnterAccounted DEF Lapse, CoverInv, AccountedBoth

LEMMA EnterOnTradeAccounted ==
  ASSUME CoverInv, NEW p \in Nat, EnterOnTrade(p)
  PROVE  AccountedBoth
<1>1. Limit \in Nat
  BY OpenPositionAssumption
<1>2. Enter(Limit, seen, p, p) \/ Enter(p, seen, p, p) \/ Lapse
  BY DEF EnterOnTrade
<1>3. QED
  BY <1>1, <1>2, EnterAccounted DEF Lapse, CoverInv, AccountedBoth

LEMMA ObserveAccounted ==
  ASSUME CoverInv, Open, NEW b \in Shown, NEW historical \in BOOLEAN, NEW give \in GiveBacks,
         NEW timed \in BOOLEAN, Observe(b, historical, give, timed)
  PROVE  AccountedBoth
<1> DEFINE q == ApplyLiveBar(pos, b, on, give)
           r == IF timed /\ ~historical /\ q.status = "open" THEN Closed(q, b.close, "market") ELSE q
<1>1. CASE Undo
  BY <1>1, UndoAccounted
<1>2. CASE pos' = r /\ row' \in {r, row}
  <2>1. Accounted(q)
    BY ApplyLiveBarAccounted DEF CoverInv, Accounted, Open
  <2> HIDE DEF q
  <2>2. Accounted(r)
    BY <2>1, ClosedAccounted DEF Accounted
  <2> HIDE DEF r
  <2>3. QED
    BY <1>2, <2>2 DEF AccountedBoth, CoverInv
<1>3. QED
  BY <1>1, <1>2 DEF Observe

LEMMA OnBarAccounted ==
  ASSUME CoverInv, NEW b \in Shown, NEW historical \in BOOLEAN, OnBar(b, historical)
  PROVE  AccountedBoth
<1>1. CASE EnterOnBar(b)
  BY <1>1, EnterOnBarAccounted
<1>2. CASE UNCHANGED <<pos, row>>
  BY <1>2 DEF CoverInv, AccountedBoth
<1>3. CASE Open /\ Rebase(b)
  <2>1. pos' = [pos EXCEPT !.base = b] /\ row' = row /\ Covered(pos)
    BY <1>3 DEF Rebase, CoverInv, Accounted, Open
  <2>2. Accounted(pos')
    BY <2>1, RebasedAccounted DEF Accounted
  <2>3. QED
    BY <2>1, <2>2 DEF AccountedBoth, CoverInv
<1>4. CASE Open /\ \E give \in GiveBacks, timed \in BOOLEAN : Observe(b, historical, give, timed)
  BY <1>4, ObserveAccounted
<1>5. QED
  BY <1>1, <1>2, <1>3, <1>4 DEF OnBar

LEMMA GiveCandleAccounted ==
  ASSUME CoverInv, GiveCandle
  PROVE  AccountedBoth
<1>1. CASE due = <<>> /\ bar # NoBar /\ OnBar(bar, FALSE)
  BY <1>1, OnBarAccounted DEF CoverInv, Feed
<1>2. CASE due # <<>> /\ \E historical \in BOOLEAN : OnBar(Head(due), historical)
  <2>1. Head(due) \in Shown
    BY <1>2 DEF CoverInv, Feed
  <2>2. QED
    BY <1>2, <2>1, OnBarAccounted
<1>3. QED
  BY <1>1, <1>2 DEF GiveCandle

LEMMA OnTradeAccounted ==
  ASSUME CoverInv, Open, NEW p, NEW give \in GiveBacks, NEW timed \in BOOLEAN,
         OnTrade(p, give, timed)
  PROVE  AccountedBoth
<1> DEFINE q == ApplyTrade(pos, p, on, give)
           r == IF timed /\ q.status = "open" THEN Closed(q, p, "market") ELSE q
<1>1. CASE Undo
  BY <1>1, UndoAccounted
<1>2. CASE pos' = r /\ row' \in {r, row}
  <2>1. Accounted(q)
    BY ApplyTradeAccounted DEF CoverInv, Accounted, Open
  <2> HIDE DEF q
  <2>2. Accounted(r)
    BY <2>1, ClosedAccounted DEF Accounted
  <2> HIDE DEF r
  <2>3. QED
    BY <1>2, <2>2 DEF AccountedBoth, CoverInv
<1>3. QED
  BY <1>1, <1>2 DEF OnTrade

LEMMA PrintHeardAccounted ==
  ASSUME CoverInv, NEW p \in Prices, PrintHeard(p)
  PROVE  AccountedBoth
<1>1. p \in Nat
  BY OpenPositionAssumption
<1>2. CASE EnterOnTrade(p)
  BY <1>1, <1>2, EnterOnTradeAccounted
<1>3. CASE Open /\ \E give \in GiveBacks, timed \in BOOLEAN : OnTrade(p, give, timed)
  BY <1>3, OnTradeAccounted
<1>4. CASE UNCHANGED <<pos, row>>
  BY <1>4 DEF CoverInv, AccountedBoth
<1>5. QED
  BY <1>2, <1>3, <1>4 DEF PrintHeard

LEMMA OrderAccounted ==
  ASSUME CoverInv, OnMarkPrice \/ OnScriptExit
  PROVE  AccountedBoth
<1>1. Covered(pos)
  BY DEF OnMarkPrice, OnScriptExit, CoverInv, Accounted, Open
<1>2. CASE Undo
  BY <1>2, UndoAccounted
<1>3. CASE \E price : Commit(LeavesAt(price))
  BY <1>1, <1>3, ClosedAccounted DEF Commit, LeavesAt, Accounted, AccountedBoth
<1>4. CASE \E i \in 1..3 : Commit(ScriptTarget(pos, i, last))
  BY <1>1, <1>4, ScriptTargetAccounted DEF Commit, AccountedBoth
<1>5. QED
  BY <1>2, <1>3, <1>4 DEF OnMarkPrice, OnScriptExit

LEMMA CoverInvInit == ASSUME Init PROVE CoverInv
<1>1. pos.status = "none" /\ row.status = "none"
  BY DEF Init, NoPosition, Opened
<1>2. QED
  BY <1>1, FeedInit DEF CoverInv, Accounted

LEMMA CoverInvNext == ASSUME CoverInv, [Next]_vars PROVE CoverInv'
<1>1. SUFFICES AccountedBoth
  BY FeedNext DEF CoverInv, AccountedBoth
<1>2. CASE OpenNow
  BY <1>2, EnterAccounted DEF OpenNow, CoverInv, Feed
<1>3. CASE GiveCandle
  BY <1>3, GiveCandleAccounted
<1>4. ASSUME NEW p \in Prices, PrintHeard(p) PROVE AccountedBoth
  BY <1>4, PrintHeardAccounted
<1>5. CASE OnMarkPrice \/ OnScriptExit
  BY <1>5, OrderAccounted
<1>6. CASE Restart
  BY <1>6 DEF Restart, CoverInv, AccountedBoth
<1>7. CASE UNCHANGED <<pos, row>>
  BY <1>7 DEF CoverInv, AccountedBoth
<1>8. QED
  BY <1>2, <1>3, <1>4, <1>5, <1>6, <1>7 DEF Next, EndMinute, PrintUnheard, TapeSilent, vars

\* Whatever prices and script orders take, in whatever order, the targets that
\* are left hold exactly the contracts that are open, also after a failed
\* write and a restart.
THEOREM TargetsCoverHolds == Spec => []TargetsCover
<1>1. Init => CoverInv
  BY CoverInvInit
<1>2. CoverInv /\ [Next]_vars => CoverInv'
  BY CoverInvNext
<1>3. CoverInv => TargetsCover
  <2>1. SUFFICES ASSUME CoverInv, Open, pos.tp # <<>>
                 PROVE  Legs(pos, {i \in DOMAIN pos.tp : ~pos.hit[i]}) = pos.qty
    BY DEF TargetsCover
  <2>2. Covered(pos)
    BY <2>1 DEF CoverInv, Accounted, Open
  <2>3. QED
    BY <2>1, <2>2 DEF Covered, Unhit
<1>4. QED
  BY <1>1, <1>2, <1>3, PTL DEF Spec

-----------------------------------------------------------------------------
(* What the operations leave of an open position                           *)

\* What belongs to the trade and is settled when it is opened.
Kin(p, q) == q.entry = p.entry /\ q.entered = p.entered /\ q.liq = p.liq /\ q.base = p.base

\* What selling does: the trail is untouched, and what it closes is no stop.
Selling(p, q) ==
  /\ Kin(p, q) /\ q.armed = p.armed /\ q.trailOff = p.trailOff
  /\ \/ q.status = p.status /\ q.why = p.why
     \/ q.status = "closed" /\ q.why # "stop" /\ q.qty = 0

LEMMA ClosedSells ==
  ASSUME NEW p, Sound(p), NEW price, NEW why, why # "stop"
  PROVE  Selling(p, Closed(p, price, why))
<1> DEFINE q == Closed(p, price, why)
<1>1. /\ q.entry = p.entry /\ q.entered = p.entered /\ q.liq = p.liq /\ q.base = p.base
      /\ q.armed = p.armed /\ q.trailOff = p.trailOff /\ q.status = "closed"
      /\ q.why \in {why, "liquidation"} /\ q.qty = 0
  BY DEF Closed, Sound, Fields
<1> HIDE DEF q
<1>2. Selling(p, q)
  BY <1>1 DEF Selling, Kin
<1>3. QED
  BY <1>2 DEF q

LEMMA BreakEvenSells ==
  ASSUME NEW p, Sound(p)
  PROVE  Selling(p, ToBreakEven(p))
<1> DEFINE q == [p EXCEPT !.sl = p.entry, !.breakEven = TRUE]
<1>1. /\ q.entry = p.entry /\ q.entered = p.entered /\ q.liq = p.liq /\ q.base = p.base
      /\ q.armed = p.armed /\ q.trailOff = p.trailOff /\ q.status = p.status /\ q.why = p.why
  BY DEF Sound, Fields
<1>2. ToBreakEven(p) \in {p, q}
  BY DEF ToBreakEven
<1> HIDE DEF q
<1>3. QED
  BY <1>1, <1>2 DEF Selling, Kin

LEMMA SoldSells ==
  ASSUME NEW p, Sound(p), NEW T, NEW M, NEW price
  PROVE  Selling(p, Sold(p, T, M, price))
<1> DEFINE left == p.qty - Sells(p, T)
           q == [p EXCEPT !.qty = left, !.hit = [i \in DOMAIN p.tp |-> @[i] \/ i \in M]]
           c == [q EXCEPT !.status = "closed", !.why = "target", !.px = price]
<1>1. /\ q.entry = p.entry /\ q.entered = p.entered /\ q.liq = p.liq /\ q.base = p.base
      /\ q.armed = p.armed /\ q.trailOff = p.trailOff /\ q.status = p.status /\ q.why = p.why
  BY DEF Sound, Fields
<1>2. /\ DOMAIN q = Fields /\ q.sl = p.sl /\ q.peak = p.peak
      /\ q.trailPeak = p.trailPeak /\ q.breakEven = p.breakEven
  BY DEF Sound, Fields
<1>3. /\ c.entry = p.entry /\ c.entered = p.entered /\ c.liq = p.liq /\ c.base = p.base
      /\ c.armed = p.armed /\ c.trailOff = p.trailOff /\ c.status = "closed" /\ c.why = "target"
      /\ c.qty = left
  BY DEF Sound, Fields
<1>4. (left = 0 /\ Sold(p, T, M, price) = c) \/ Sold(p, T, M, price) \in {ToBreakEven(q), q}
  BY DEF Sold
<1> HIDE DEF q, c, left
<1>5. Sound(q)
  BY <1>1, <1>2, StopAlone DEF Sound, Numbers, Firm
<1>6. Selling(q, ToBreakEven(q))
  BY <1>5, BreakEvenSells
<1>7. (left = 0 => Selling(p, c)) /\ Selling(p, q)
  BY <1>1, <1>3 DEF Selling, Kin
<1>8. Selling(p, ToBreakEven(q))
  BY <1>1, <1>6 DEF Selling, Kin
<1>9. QED
  BY <1>4, <1>7, <1>8

LEMMA TakeTargetsSells ==
  ASSUME NEW p, Sound(p), NEW reached
  PROVE  Selling(p, TakeTargets(p, reached))
BY SoldSells DEF TakeTargets, Selling, Kin

LEMMA ScriptTargetSells ==
  ASSUME NEW p, Sound(p), NEW i, NEW price
  PROVE  Selling(p, ScriptTarget(p, i, price))
<1>1. "target" # "stop"
  OBVIOUS
<1>2. QED
  BY <1>1, SoldSells, ClosedSells DEF ScriptTarget, Selling, Kin

LEMMA StoppedOutEarns ==
  ASSUME NEW p, Sound(p), p.liq \in Int, p.liq <= p.sl, NEW first \in Int
  PROVE  LET q == StoppedOut(p, first)
         IN  Kin(p, q) /\ q.status = "closed" /\ q.sl = p.sl /\ q.px \in Int /\ q.px <= q.sl
             /\ q.qty = 0
<1> DEFINE price == Lesser(p.sl, first)
           q == Closed(p, price, "stop")
<1>1. price \in Int /\ price <= p.sl
  BY DEF Lesser, Sound, Numbers
<1> HIDE DEF price
<1>2. /\ q.entry = p.entry /\ q.entered = p.entered /\ q.liq = p.liq /\ q.base = p.base
      /\ q.status = "closed" /\ q.sl = p.sl /\ q.px = Greater(price, p.liq) /\ q.qty = 0
  BY DEF Closed, Sound, Fields
<1>3. StoppedOut(p, first) = q
  BY DEF StoppedOut, price
<1> HIDE DEF q
<1>4. q.px \in Int /\ q.px <= q.sl
  BY <1>1, <1>2 DEF Greater, Sound, Numbers
<1>5. QED
  BY <1>2, <1>3, <1>4 DEF Kin

\* trailStop under settings that have a floor, while no trail of its own was
\* switched on: the stop keeps the floor once the price has been far enough.
LEMMA TrailStopTrails ==
  ASSUME NEW p, Sound(p), NEW price \in Int, NEW on1 \in BOOLEAN, NEW give \in Int
  PROVE  LET q == TrailStop(p, price, on1, give)
         IN  /\ Kin(p, q) /\ q.status = p.status /\ q.why = p.why /\ q.qty = p.qty
             /\ q.trailOff = ~on1
             /\ q.armed = (p.armed \/ (on1 /\ p.trailOff))
             /\ on1 /\ ~q.armed /\ price - p.entry >= FloorAt => q.sl >= q.entry + FloorKeep
<1> DEFINE r == price - p.entry
           n == [p EXCEPT !.peak = Greater(@, r),
                          !.trailOff = ~on1,
                          !.armed = @ \/ (on1 /\ p.trailOff),
                          !.trailPeak = IF on1 /\ (p.trailOff \/ (p.armed /\ r > @)) THEN r ELSE @]
           kept == Kept(IF n.armed THEN n.trailPeak ELSE n.peak, give)
           most == CHOOSE k \in kept : \A m \in kept : m <= k
           level == n.entry + most
           q == TrailStop(p, price, on1, give)
           raised == [n EXCEPT !.sl = level, !.breakEven = @ \/ level >= n.entry]
<1>1. /\ DOMAIN n = Fields /\ n.sl = p.sl /\ n.entry = p.entry /\ n.entered = p.entered
      /\ n.liq = p.liq /\ n.base = p.base /\ n.status = p.status /\ n.why = p.why /\ n.qty = p.qty
      /\ n.trailOff = ~on1 /\ n.armed = (p.armed \/ (on1 /\ p.trailOff))
      /\ n.peak = Greater(p.peak, r)
  BY DEF Sound, Fields
<1>2. q = IF ~on1 \/ kept = {} THEN n ELSE Raised(n, level)
  BY DEF TrailStop
<1>3. Raised(n, level) = IF level <= n.sl THEN n ELSE raised
  BY DEF Raised
<1>4. /\ raised.sl = level /\ raised.entry = n.entry /\ raised.entered = n.entered
      /\ raised.liq = n.liq /\ raised.base = n.base /\ raised.status = n.status
      /\ raised.why = n.why /\ raised.qty = n.qty
      /\ raised.trailOff = n.trailOff /\ raised.armed = n.armed
  <2> HIDE DEF n, level
  <2>1. QED
    BY <1>1 DEF Fields
<1>5. r \in Int /\ p.entry \in Int /\ p.sl \in Int /\ p.peak \in Int
  BY DEF Sound, Numbers
<1>6. ASSUME on1, ~n.armed, r >= FloorAt
      PROVE  kept # {} /\ level >= p.entry + FloorKeep /\ level \in Int
  <2>1. n.peak \in Int /\ n.peak >= FloorAt /\ FloorAt \in Nat /\ FloorKeep \in Nat /\ TrailAfter \in Nat
    BY <1>1, <1>5, <1>6, PositionLogicAssumption DEF Greater
  <2>2. kept = {FloorKeep} \cup (IF n.peak >= TrailAfter THEN {n.peak - give} ELSE {})
    BY <1>6, <2>1 DEF Kept
  <2> DEFINE trail == n.peak - give
  <2>3. trail \in Int
    BY <2>1
  <2>4. kept \in {{FloorKeep}, {FloorKeep, trail}}
    BY <2>2
  <2> HIDE DEF trail, kept
  <2>5. \E k \in kept : \A m \in kept : m <= k
    <3>1. CASE kept = {FloorKeep}
      BY <3>1, <2>1
    <3>2. CASE kept = {FloorKeep, trail} /\ trail <= FloorKeep
      BY <3>2, <2>1, <2>3
    <3>3. CASE kept = {FloorKeep, trail} /\ ~(trail <= FloorKeep)
      BY <3>3, <2>1, <2>3
    <3>4. QED
      BY <2>4, <3>1, <3>2, <3>3
  <2>6. most \in kept /\ \A m \in kept : m <= most
    BY <2>5
  <2> HIDE DEF most
  <2>7. most \in Int /\ FloorKeep <= most /\ FloorKeep \in kept
    BY <2>1, <2>3, <2>4, <2>6
  <2>8. QED
    BY <2>7, <2>1, <1>1, <1>5
<1> HIDE DEF n, kept, most, level, raised, q, r
<1>7. /\ Kin(p, q) /\ q.status = p.status /\ q.why = p.why /\ q.qty = p.qty
      /\ q.trailOff = ~on1 /\ q.armed = (p.armed \/ (on1 /\ p.trailOff))
      /\ q.armed = n.armed /\ q.entry = p.entry
  BY <1>1, <1>2, <1>3, <1>4 DEF Kin
<1>8. ASSUME on1, ~q.armed, r >= FloorAt PROVE q.sl >= q.entry + FloorKeep
  <2>1. kept # {} /\ level >= p.entry + FloorKeep /\ level \in Int
    BY <1>6, <1>7, <1>8
  <2>2. q = Raised(n, level)
    BY <1>2, <1>8, <2>1
  <2>3. q.sl = IF level <= n.sl THEN n.sl ELSE level
    BY <1>3, <1>4, <2>2
  <2>4. FloorKeep \in Nat
    BY PositionLogicAssumption
  <2>5. QED
    BY <1>1, <1>5, <1>7, <2>1, <2>3, <2>4
<1>9. QED
  BY <1>7, <1>8 DEF q, r

\* An open position, as it was entered.
Running(p) ==
  /\ p.status = "open" /\ p.why = "none" /\ Sound(p)
  /\ p.entry > Stop
  /\ p.liq \in Int /\ p.liq <= p.sl
  /\ p.armed \in BOOLEAN /\ p.trailOff \in BOOLEAN

\* What an observation leaves of a position it does not close: the price was
\* not at the stop, and with a price that arms the floor the stop keeps it.
Survives(p, q, worst, best, on1) ==
  /\ worst > p.sl
  /\ q.why = "none"
  /\ q.trailOff = ~on1
  /\ q.armed = (p.armed \/ (on1 /\ p.trailOff))
  /\ on1 /\ ~q.armed /\ best - p.entry >= FloorAt => q.sl >= q.entry + FloorKeep
\* A stop is taken by a price at it, and pays no more than it.
StopTaken(p, q, worst) == worst <= p.sl /\ q.sl = p.sl /\ q.px \in Int /\ q.px <= q.sl

Outcome(p, q, worst, best, on1) ==
  /\ q.entry = p.entry /\ q.entered = p.entered /\ q.liq = p.liq
  /\ q.status \in {"open", "closed"}
  /\ q.status = "open" => Survives(p, q, worst, best, on1)
  /\ q.status = "closed" => q.qty = 0
  /\ q.why = "stop" => StopTaken(p, q, worst)

LEMMA TrailedOutcome ==
  ASSUME NEW p, Running(p), NEW worst \in Int, worst > p.sl, NEW price \in Int,
         NEW on1 \in BOOLEAN, NEW give \in Int, NEW q, NEW t,
         Selling(p, t), Firm(p, t),
         t.status = "open" => q = TrailStop(t, price, on1, give), t.status # "open" => q = t
  PROVE  Outcome(p, q, worst, price, on1) /\ q.base = p.base
<1>1. CASE t.status = "open"
  <2> DEFINE x == TrailStop(t, price, on1, give)
  <2>1. /\ Kin(t, x) /\ x.status = t.status /\ x.why = t.why /\ x.qty = t.qty
        /\ x.trailOff = ~on1
        /\ x.armed = (t.armed \/ (on1 /\ t.trailOff))
        /\ on1 /\ ~x.armed /\ price - t.entry >= FloorAt => x.sl >= x.entry + FloorKeep
    BY TrailStopTrails DEF Firm
  <2>2. q = x
    BY <1>1
  <2>3. t.why = "none" /\ t.armed = p.armed /\ t.trailOff = p.trailOff /\ Kin(p, t)
    BY <1>1 DEF Selling, Running
  <2> HIDE DEF x
  <2>4. Survives(p, q, worst, price, on1)
    BY <2>1, <2>2, <2>3 DEF Survives, Kin
  <2>5. q.why = "none"
    BY <2>1, <2>2, <2>3
  <2>6. QED
    BY <1>1, <2>1, <2>2, <2>3, <2>4, <2>5 DEF Outcome, Kin
<1>2. CASE t.status # "open"
  BY <1>2 DEF Selling, Kin, Outcome, Running
<1>3. QED
  BY <1>1, <1>2

LEMMA ApplyBarOutcome ==
  ASSUME NEW p, Running(p), NEW first \in Int, NEW best \in Int, NEW worst \in Int,
         NEW on1 \in BOOLEAN, NEW give \in Int
  PROVE  LET q == ApplyBar(p, first, best, worst, on1, give)
         IN  Outcome(p, q, worst, best, on1) /\ q.base = p.base
<1> DEFINE t == TakeTargets(p, {i \in DOMAIN p.tp : best >= p.tp[i]})
           q == ApplyBar(p, first, best, worst, on1, give)
<1>1. /\ worst <= p.liq /\ p.liq >= p.sl => q = Closed(p, p.liq, "liquidation")
      /\ ~(worst <= p.liq /\ p.liq >= p.sl) /\ worst <= p.sl => q = StoppedOut(p, first)
      /\ ~(worst <= p.liq /\ p.liq >= p.sl) /\ ~(worst <= p.sl) =>
           /\ t.status = "open" => q = TrailStop(t, best, on1, give)
           /\ t.status # "open" => q = t
  BY DEF ApplyBar
<1>2. Selling(p, t) /\ Firm(p, t)
  BY TakeTargetsSells, TakeTargetsFirm DEF Running
<1> HIDE DEF t, q
<1> SUFFICES Outcome(p, q, worst, best, on1) /\ q.base = p.base
  BY DEF q
<1>3. CASE worst <= p.liq /\ p.liq >= p.sl
  <2>1. Selling(p, Closed(p, p.liq, "liquidation"))
        /\ Closed(p, p.liq, "liquidation").status = "closed"
    BY ClosedSells, ClosedFirm DEF Running
  <2>2. QED
    BY <1>1, <1>3, <2>1 DEF Selling, Kin, Outcome, Running
<1>4. CASE ~(worst <= p.liq /\ p.liq >= p.sl) /\ worst <= p.sl
  <2> DEFINE x == StoppedOut(p, first)
  <2>1. Kin(p, x) /\ x.status = "closed" /\ x.sl = p.sl /\ x.px \in Int /\ x.px <= x.sl
        /\ x.qty = 0
    BY StoppedOutEarns DEF Running
  <2>2. q = x
    BY <1>1, <1>4
  <2> HIDE DEF x
  <2>3. QED
    BY <1>4, <2>1, <2>2 DEF Kin, Outcome, StopTaken
<1>5. CASE ~(worst <= p.liq /\ p.liq >= p.sl) /\ ~(worst <= p.sl)
  <2>1. worst > p.sl
    BY <1>5 DEF Running, Sound, Numbers
  <2>2. QED
    BY <1>1, <1>2, <1>5, <2>1, TrailedOutcome
<1>6. QED
  BY <1>3, <1>4, <1>5

LEMMA ApplyTradeOutcome ==
  ASSUME NEW p, Running(p), NEW price \in Int, NEW on1 \in BOOLEAN, NEW give \in Int
  PROVE  LET q == ApplyTrade(p, price, on1, give)
         IN  Outcome(p, q, price, price, on1) /\ q.base = p.base
<1> DEFINE t == TakeTargets(p, {i \in DOMAIN p.tp : price > p.tp[i]})
           q == ApplyTrade(p, price, on1, give)
<1>1. /\ price <= p.sl => q = StoppedOut(p, price)
      /\ ~(price <= p.sl) =>
           /\ t.status = "open" => q = TrailStop(t, price, on1, give)
           /\ t.status # "open" => q = t
  BY DEF ApplyTrade
<1>2. Selling(p, t) /\ Firm(p, t)
  BY TakeTargetsSells, TakeTargetsFirm DEF Running
<1> HIDE DEF t, q
<1> SUFFICES Outcome(p, q, price, price, on1) /\ q.base = p.base
  BY DEF q
<1>4. CASE price <= p.sl
  <2> DEFINE x == StoppedOut(p, price)
  <2>1. Kin(p, x) /\ x.status = "closed" /\ x.sl = p.sl /\ x.px \in Int /\ x.px <= x.sl
        /\ x.qty = 0
    BY StoppedOutEarns DEF Running
  <2>2. q = x
    BY <1>1, <1>4
  <2> HIDE DEF x
  <2>3. QED
    BY <1>4, <2>1, <2>2 DEF Kin, Outcome, StopTaken
<1>5. CASE ~(price <= p.sl)
  <2>1. price > p.sl
    BY <1>5 DEF Running, Sound, Numbers
  <2>2. QED
    BY <1>1, <1>2, <1>5, <2>1, TrailedOutcome
<1>6. QED
  BY <1>4, <1>5

\* The candles a position takes nothing from, and what it takes from others.
Skips(p, b) ==
  \/ b.time < p.entered \/ b.time < p.base.time
  \/ /\ p.base.time = b.time
     /\ p.base.best = b.best /\ p.base.worst = b.worst /\ p.base.close = b.close
HighOf(p, b) ==
  IF p.base.time = b.time THEN (IF b.best > p.base.best THEN b.best ELSE b.close)
  ELSE IF b.time <= p.entered THEN b.close ELSE b.best
LowOf(p, b) ==
  IF p.base.time = b.time THEN (IF b.worst < p.base.worst THEN b.worst ELSE b.close)
  ELSE IF b.time <= p.entered THEN b.close ELSE b.worst

LEMMA ApplyLiveBarOutcome ==
  ASSUME NEW p, Running(p), NEW b \in Shown, NEW on1 \in BOOLEAN, NEW give \in Int
  PROVE  LET q == ApplyLiveBar(p, b, on1, give)
         IN  /\ Skips(p, b) => q = p
             /\ ~Skips(p, b) => Outcome(p, q, LowOf(p, b), HighOf(p, b), on1) /\ q.base = b
<1> DEFINE same == p.base.time = b.time
           dup == same /\ <<p.base.best, p.base.worst, p.base.close>> = <<b.best, b.worst, b.close>>
           best == IF same THEN (IF b.best > p.base.best THEN b.best ELSE b.close)
                   ELSE IF b.time <= p.entered THEN b.close ELSE b.best
           worst == IF same THEN (IF b.worst < p.base.worst THEN b.worst ELSE b.close)
                    ELSE IF b.time <= p.entered THEN b.close ELSE b.worst
           first == IF ~same /\ b.time > p.entered THEN b.open ELSE p.sl
           n == [p EXCEPT !.base = b]
           out == b.time < p.entered \/ b.time < p.base.time \/ dup
           q == ApplyLiveBar(p, b, on1, give)
           a == ApplyBar(n, first, best, worst, on1, give)
<1>1. q = IF out THEN p ELSE a
  BY DEF ApplyLiveBar
<1>2. (out <=> Skips(p, b)) /\ best = HighOf(p, b) /\ worst = LowOf(p, b)
  BY DEF Skips, HighOf, LowOf
<1>3. best \in Int /\ worst \in Int /\ first \in Int
  BY DEF Shown, Running, Sound, Numbers
<1>4. Sound(n) /\ n.base = b /\ n.status = p.status /\ n.sl = p.sl
  BY RebasedSound DEF Running
<1>5. /\ n.entry = p.entry /\ n.entered = p.entered /\ n.liq = p.liq /\ n.why = p.why
      /\ n.armed = p.armed /\ n.trailOff = p.trailOff
  BY DEF Running, Sound, Fields
<1> HIDE DEF out, best, worst, first, n, q
<1>6. Running(n)
  BY <1>4, <1>5 DEF Running
<1>7. Outcome(n, a, worst, best, on1) /\ a.base = b
  <2>1. Outcome(n, a, worst, best, on1) /\ a.base = n.base
    BY <1>3, <1>6, ApplyBarOutcome
  <2>2. QED
    BY <1>4, <2>1
<1> HIDE DEF a
<1>8. Outcome(p, a, worst, best, on1)
  BY <1>4, <1>5, <1>7 DEF Outcome, Survives, StopTaken
<1>9. /\ Skips(p, b) => q = p
      /\ ~Skips(p, b) => Outcome(p, q, LowOf(p, b), HighOf(p, b), on1) /\ q.base = b
  BY <1>1, <1>2, <1>7, <1>8
<1>10. QED
  BY <1>9 DEF q

-----------------------------------------------------------------------------
(* The position and its row                                                *)

\* A candle, or that none was seen.
Candle(b) == {b.time, b.best, b.worst} \subseteq Int

\* Entry and known candle are not of the future.
Dated(p, now) ==
  /\ p.entered \in Nat /\ p.entered <= now
  /\ Candle(p.base) /\ p.base.time <= now

\* The row has everything that decides over the stop.
SameProtection(p, r) ==
  r.status = "open" /\ r.sl = p.sl /\ r.entry = p.entry /\ r.armed = p.armed /\ r.trailOff = p.trailOff

\* Where candles decide, the row is the position; a tape moves the known
\* candle and the best price in memory only.
TradeInv ==
  /\ on \in BOOLEAN /\ policy \in BOOLEAN
  /\ Candle(seen) /\ seen.time <= minute
  /\ want # "none" => pos = NoPosition /\ row = NoPosition /\ shown = {} /\ owed = {}
  /\ Open => Running(pos) /\ Dated(pos, minute)
  /\ row.status = "open" => Running(row) /\ Dated(row, minute)
  /\ Open => SameProtection(pos, row)
  /\ source = "candles" => row = pos

Inv == StopInv /\ CoverInv /\ TradeInv

\* What a step may do to the position and its row: leave both, bring the row
\* back, change the position of an open trade, begin a trade.
Follows(p, r, now) ==
  r.status = "open" =>
    /\ r.why = "none" /\ r.entry = p.entry /\ r.liq = p.liq
    /\ r.armed \in BOOLEAN /\ r.trailOff \in BOOLEAN
    /\ Dated(r, now)
Unshown == want # "none" => shown' = shown /\ owed' = owed
Passed == UNCHANGED <<pos, row>> /\ want' \in {want, "none"} /\ Unshown
Returned == pos' = row /\ row' = row /\ want' \in {want, "none"} /\ Unshown
Watched ==
  /\ Open /\ want' = want /\ Follows(pos, pos', minute)
  /\ \/ row' = pos'
     \/ row' = row /\ pos' = pos
     \/ row' = row /\ source = "tape" /\ SameProtection(pos, pos')
Begun ==
  /\ want # "none" /\ want' = "none" /\ row' = pos'
  /\ pos'.status = "open" =>
       /\ pos'.why = "none" /\ pos'.entry > Stop /\ pos'.liq \in Int /\ pos'.liq <= pos'.sl
       /\ pos'.armed \in BOOLEAN /\ pos'.trailOff \in BOOLEAN /\ Dated(pos', minute)
TradeStep ==
  /\ Passed \/ Returned \/ Watched \/ Begun
  /\ on' \in BOOLEAN /\ Candle(seen') /\ seen'.time <= minute'

LEMMA TradeStepKeeps ==
  ASSUME Inv, StopInv', Open /\ pos'.status = "open" => pos'.sl >= pos.sl, TradeStep,
         minute' \in Nat, minute' >= minute, source' = source, policy' = policy
  PROVE  TradeInv'
<1>1. minute \in Nat /\ \A p : Dated(p, minute) => Dated(p, minute')
  BY DEF Inv, CoverInv, Feed, Dated, Candle
<1>2. on' \in BOOLEAN /\ policy' \in BOOLEAN /\ Candle(seen') /\ seen'.time <= minute'
  BY DEF TradeStep, Inv, TradeInv
<1>3. CASE Passed
  BY <1>1, <1>2, <1>3 DEF Passed, Unshown, Inv, TradeInv, Open
<1>4. CASE Returned
  <2>1. want' # "none" => pos' = NoPosition /\ row' = NoPosition /\ shown' = {} /\ owed' = {}
    BY <1>4 DEF Returned, Unshown, Inv, TradeInv
  <2>2. row.status = "open" => Running(row) /\ Dated(row, minute') /\ SameProtection(row, row)
    BY <1>1 DEF Inv, TradeInv, SameProtection
  <2>3. QED
    BY <1>2, <1>4, <2>1, <2>2 DEF Returned, TradeInv, Open
<1>5. CASE Watched
  <2>1. want' = "none"
    BY <1>5 DEF Watched, Inv, StopInv
  <2>2. Running(pos) /\ Dated(pos, minute) /\ SameProtection(pos, row)
    BY <1>5 DEF Watched, Inv, TradeInv
  <2>3. ASSUME pos'.status = "open" PROVE Running(pos') /\ Dated(pos', minute')
    <3>1. Sound(pos') /\ pos'.sl >= pos.sl
      BY <1>5, <2>3 DEF StopInv, Open, Watched
    <3>2. pos'.liq \in Int /\ pos'.liq <= pos'.sl /\ pos'.entry > Stop
      BY <1>5, <2>2, <2>3, <3>1 DEF Watched, Follows, Running, Sound, Numbers
    <3>3. QED
      BY <1>1, <1>5, <2>3, <3>1, <3>2 DEF Watched, Follows, Running
  <2>4. CASE row' = pos'
    BY <1>2, <2>1, <2>3, <2>4 DEF TradeInv, Open, SameProtection
  <2>5. CASE row' = row /\ pos' = pos
    BY <1>1, <1>2, <2>1, <2>5 DEF Inv, TradeInv, Open
  <2>6. CASE row' = row /\ source = "tape" /\ SameProtection(pos, pos')
    <3>1. Running(row) /\ Dated(row, minute') /\ SameProtection(pos', row)
      BY <1>1, <2>2, <2>6 DEF Inv, TradeInv, SameProtection
    <3>2. QED
      BY <1>2, <2>1, <2>3, <2>6, <3>1 DEF TradeInv, Open
  <2>7. QED
    BY <1>5, <2>4, <2>5, <2>6 DEF Watched
<1>6. CASE Begun
  <2>1. pos'.status = "open" => Running(pos') /\ Dated(pos', minute') /\ SameProtection(pos', pos')
    BY <1>1, <1>6 DEF Begun, StopInv, Open, Running, SameProtection
  <2>2. QED
    BY <1>2, <1>6, <2>1 DEF Begun, TradeInv, Open
<1>7. QED
  BY <1>3, <1>4, <1>5, <1>6 DEF TradeStep

\* An entry begins a trade or changes nothing.
LEMMA OpenedDated ==
  ASSUME Inv, NEW price \in Nat, Stop < price, NEW targets, NEW n, NEW b,
         Candle(b), b.time <= minute
  PROVE  LET o == Opened(price, minute, Stop, Liq, targets, n, b)
         IN  Running(o) /\ Dated(o, minute) /\ o.base = b /\ o.entered = minute /\ o.sl = Stop
<1> DEFINE o == Opened(price, minute, Stop, Liq, targets, n, b)
<1>1. Sound(o)
  BY OpenedSound
<1>2. /\ o.status = "open" /\ o.why = "none" /\ o.entry = price /\ o.entered = minute
      /\ o.sl = Stop /\ o.liq = Liq /\ o.base = b /\ o.armed = FALSE /\ o.trailOff = FALSE
  BY DEF Opened
<1> HIDE DEF o
<1>6. price > Stop /\ Liq \in Int /\ Liq <= Stop
  BY OpenPositionAssumption
<1>3. Running(o)
  BY <1>1, <1>2, <1>6 DEF Running
<1>4. Dated(o, minute)
  BY <1>2 DEF Dated, Inv, CoverInv, Feed
<1>5. QED
  BY <1>2, <1>3, <1>4 DEF o

\* The position an entry leaves, and whether its stop was taken at once.
Filled(p, price, b, worst) ==
  /\ p.entry = price /\ p.entered = minute /\ p.base = b /\ p.sl = Stop
  /\ \/ p.status = "open" /\ p.why = "none" /\ p.armed = FALSE /\ p.trailOff = FALSE
        /\ p.liq \in Int /\ p.liq <= p.sl /\ Dated(p, minute)
     \/ p.status = "closed" /\ (p.why = "stop" => StopTaken(p, p, worst))

\* The worst price from before an entry that its candle does not know.
Older(b) == IF b.time = minute /\ bar.worst < b.worst THEN bar.worst ELSE Unseen

LEMMA EnterFills ==
  ASSUME Inv, NEW price \in Nat, Stop < price, NEW b, Candle(b), b.time <= minute,
         NEW worst \in Int, NEW first \in Int, Enter(price, b, worst, first)
  PROVE  /\ UNCHANGED <<owed, shown, lost>>
         /\ \/ UNCHANGED <<want, on, pos, row, low, before>>
            \/ /\ want' = "none" /\ row' = pos' /\ on' = on
               /\ low' = Lesser(last, worst) /\ before' = Older(b)
               /\ Filled(pos', price, b, worst)
<1>1. CASE UNCHANGED <<want, on, pos, row, low, before>>
  BY <1>1 DEF Enter
<1>2. CASE /\ \E n \in Quantities :
                Commit(RestingEntryStop(Opened(price, minute, Stop, Liq, TargetsAt(price), n, b), worst, first))
           /\ want' = "none" /\ low' = Lesser(last, worst) /\ before' = Older(b)
  <2>1. PICK n \in Quantities :
          Commit(RestingEntryStop(Opened(price, minute, Stop, Liq, TargetsAt(price), n, b), worst, first))
    BY <1>2
  <2> DEFINE o == Opened(price, minute, Stop, Liq, TargetsAt(price), n, b)
             x == StoppedOut(o, first)
  <2>2. Running(o) /\ Dated(o, minute) /\ o.base = b /\ o.entered = minute /\ o.sl = Stop
    BY OpenedDated
  <2>3. o.entry = price /\ o.armed = FALSE /\ o.trailOff = FALSE
    BY DEF Opened
  <2>4. /\ pos' = IF worst <= o.sl THEN x ELSE o
        /\ row' = pos' /\ on' = on
    BY <2>1 DEF Commit, RestingEntryStop
  <2> HIDE DEF o
  <2>5. Kin(o, x) /\ x.status = "closed" /\ x.sl = o.sl /\ x.px \in Int /\ x.px <= x.sl
    BY <2>2, StoppedOutEarns DEF Running
  <2> HIDE DEF x
  <2>6. Filled(pos', price, b, worst)
    <3>1. CASE worst <= o.sl
      BY <2>2, <2>3, <2>4, <2>5, <3>1 DEF Filled, Kin, StopTaken
    <3>2. CASE ~(worst <= o.sl)
      BY <2>2, <2>3, <2>4, <3>2 DEF Filled, Running
    <3>3. QED
      BY <3>1, <3>2
  <2>7. QED
    BY <1>2, <2>4, <2>6 DEF Enter
<1>3. QED
  BY <1>1, <1>2 DEF Enter, Older

LEMMA EnterTrades ==
  ASSUME Inv, want # "none", NEW price \in Nat, Stop < price, NEW b, Candle(b), b.time <= minute,
         NEW worst \in Int, NEW first \in Int, Enter(price, b, worst, first),
         minute' = minute, Candle(seen'), seen'.time <= minute
  PROVE  TradeStep
<1>1. on \in BOOLEAN
  BY DEF Inv, TradeInv
<1>2. CASE UNCHANGED <<want, on, pos, row, shown, owed>>
  BY <1>1, <1>2 DEF TradeStep, Passed, Unshown
<1>3. CASE want' = "none" /\ row' = pos' /\ on' = on /\ Filled(pos', price, b, worst)
  <2>1. pos'.entry > Stop
    BY <1>3, OpenPositionAssumption DEF Filled
  <2>2. Begun
    BY <1>3, <2>1 DEF Filled, Begun
  <2>3. QED
    BY <1>1, <1>3, <2>2 DEF TradeStep
<1>4. QED
  BY <1>2, <1>3, EnterFills

\* The candle that is given, and the moment.
LEMMA GivenTime ==
  ASSUME Inv, NEW b, NEW d, Given(b, d)
  PROVE  b \in Shown /\ b.time \in Nat /\ b.time <= minute
<1>1. CASE bar # NoBar /\ b = bar
  BY <1>1 DEF Inv, CoverInv, Feed, Shown
<1>2. CASE due # <<>> /\ b = Head(due)
  <2>1. b \in Shown /\ 1 \in DOMAIN due /\ b = due[1]
    BY <1>2 DEF Inv, CoverInv, Feed
  <2>2. b.time \in Nat /\ b.time < minute /\ minute \in Nat
    BY <2>1 DEF Inv, CoverInv, Feed, Shown
  <2>3. QED
    BY <2>1, <2>2
<1>3. QED
  BY <1>1, <1>2 DEF Given

\* What giving a candle does to a position where candles decide.
Sees(p, r, b, on1) ==
  /\ r.status \in {"open", "closed"}
  /\ Skips(p, b) => r = p \/ (r.status = "closed" /\ r.why # "stop" /\ r.qty = 0)
  /\ ~Skips(p, b) => Outcome(p, r, LowOf(p, b), HighOf(p, b), on1) /\ r.base = b

MovedTo(q, price, d, low1, before1, owed1) ==
  LET prices == {price} \cup {x.close : x \in News(q.base, d)}
                \cup {x.worst : x \in NewLows(q.base, d)}
  IN  IF q.status = "open" /\ q.sl # pos.sl
      THEN /\ low1 = CHOOSE p \in prices : \A o \in prices : p <= o
           /\ before1 = Unseen
           /\ owed1 = owed \cup Owes(q, d)
      ELSE low1 = low /\ before1 = before /\ owed1 = owed

LEMMA ObserveSees ==
  ASSUME Inv, ~TrendExit, Open, NEW b \in Shown, NEW historical \in BOOLEAN, NEW give \in GiveBacks,
         NEW timed \in BOOLEAN, Observe(b, historical, give, timed)
  PROVE  \/ /\ Undo /\ shown' = shown
            /\ lost' = IF b.time = bar.time THEN lost ELSE lost \cup Lost(row.base, {b.time})
         \/ /\ Sees(pos, pos', b, on)
            /\ row' = pos' \/ (row' = row /\ pos' = pos)
            /\ MovedTo(pos', b.close, due', low', before', owed')
            /\ UNCHANGED <<on, shown, lost>>
<1> DEFINE q == ApplyLiveBar(pos, b, on, give)
           c == Closed(q, b.close, "market")
           r == IF timed /\ ~historical /\ q.status = "open" THEN c ELSE q
           fills == r.qty # pos.qty
           saved == r.base # pos.base /\ (~TrendExit \/ historical)
<1>1. CASE /\ Undo /\ shown' = shown
           /\ lost' = IF b.time = bar.time THEN lost ELSE lost \cup Lost(row.base, {b.time})
  BY <1>1
<1>2. CASE /\ pos' = r
           /\ row' = IF fills \/ saved THEN r ELSE row
           /\ Moved(r, b.close, due')
           /\ UNCHANGED <<on, trouble, shown, lost>>
  <2>1. Running(pos) /\ on \in BOOLEAN /\ give \in Int /\ pos.qty \in Nat \ {0}
    BY GiveBackTicks DEF Inv, TradeInv, CoverInv, Accounted, Covered, Open
  <2>2. /\ Skips(pos, b) => q = pos
        /\ ~Skips(pos, b) => Outcome(pos, q, LowOf(pos, b), HighOf(pos, b), on) /\ q.base = b
    BY <2>1, ApplyLiveBarOutcome
  <2>3. Sound(q)
    BY <2>1, ApplyLiveBarFirm DEF Running, Shown, Candles
  <2>4. Selling(q, c) /\ c.status = "closed" /\ c.why # "stop" /\ c.qty = 0
    <3>1. "market" # "stop" /\ "liquidation" # "stop"
      OBVIOUS
    <3>2. Selling(q, c)
      BY <2>3, <3>1, ClosedSells
    <3>3. c.status = "closed" /\ c.qty = 0 /\ c.why \in {"market", "liquidation"}
      BY <2>3 DEF Closed, Sound, Fields
    <3>4. QED
      BY <3>2, <3>3
  <2> HIDE DEF q, c
  <2>5. Sees(pos, r, b, on)
    <3>1. CASE timed /\ ~historical /\ q.status = "open"
      <4>1. r = c
        BY <3>1
      <4>2. ~Skips(pos, b) => Outcome(pos, c, LowOf(pos, b), HighOf(pos, b), on) /\ c.base = b
        BY <2>2, <2>4 DEF Outcome, Selling, Kin
      <4>3. QED
        BY <2>4, <4>1, <4>2 DEF Sees
    <3>2. CASE ~(timed /\ ~historical /\ q.status = "open")
      BY <2>1, <2>2, <3>2 DEF Sees, Outcome, Running
    <3>3. QED
      BY <3>1, <3>2
  <2> HIDE DEF r
  <2>6. row' = r \/ (row' = row /\ r.qty = pos.qty /\ r.base = pos.base)
    BY <1>2
  <2>7. ASSUME r.qty = pos.qty, r.base = pos.base PROVE r = pos
    <3>1. r.qty # 0
      BY <2>1, <2>7
    <3>2. CASE Skips(pos, b)
      BY <2>5, <3>1, <3>2 DEF Sees
    <3>3. CASE ~Skips(pos, b)
      <4>1. b = pos.base
        BY <2>5, <2>7, <3>3 DEF Sees
      <4>2. Skips(pos, b)
        BY <4>1 DEF Skips
      <4>3. QED
        BY <3>3, <4>2
    <3>4. QED
      BY <3>2, <3>3
  <2>8. MovedTo(r, b.close, due', low', before', owed')
    BY <1>2 DEF Moved, MovedTo
  <2>9. pos' = r /\ UNCHANGED <<on, shown, lost>>
    BY <1>2
  <2>10. row' = pos' \/ (row' = row /\ pos' = pos)
    BY <2>6, <2>7, <2>9
  <2>11. MovedTo(pos', b.close, due', low', before', owed')
    BY <2>8, <2>9, Zenon
  <2>12. Sees(pos, pos', b, on)
    BY <2>5, <2>9, Zenon
  <2>13. QED
    BY <2>9, <2>10, <2>11, <2>12
<1>3. QED
  BY <1>1, <1>2 DEF Observe

\* A position that was seen follows the one it was.
LEMMA SeesFollows ==
  ASSUME Inv, Open, NEW b \in Shown, b.time <= minute, NEW r, Sees(pos, r, b, on)
  PROVE  Follows(pos, r, minute)
<1>1. Running(pos) /\ Dated(pos, minute) /\ on \in BOOLEAN
  BY DEF Inv, TradeInv
<1>2. CASE r.status = "open" /\ Skips(pos, b)
  BY <1>1, <1>2 DEF Sees, Follows, Running
<1>3. CASE r.status = "open" /\ ~Skips(pos, b)
  <2>1. r.base = b /\ Candle(b)
    BY <1>3 DEF Sees, Shown, Candle
  <2>2. /\ r.entry = pos.entry /\ r.entered = pos.entered /\ r.liq = pos.liq /\ r.why = "none"
        /\ r.trailOff = ~on /\ r.armed = (pos.armed \/ (on /\ pos.trailOff))
    BY <1>3 DEF Sees, Outcome, Survives
  <2>3. QED
    BY <1>1, <2>1, <2>2 DEF Follows, Dated, Running
<1>4. QED
  BY <1>2, <1>3 DEF Follows

LEMMA UndoReturns ==
  ASSUME Inv, Open, Undo, want' = want, Candle(seen'), seen'.time <= minute'
  PROVE  TradeStep
<1>1. want = "none"
  BY DEF Inv, TradeInv, Open, NoPosition, Opened
<1>2. QED
  BY <1>1 DEF Undo, TradeStep, Returned, Unshown

LEMMA OnBarTrades ==
  ASSUME Inv, ~TrendExit, NEW b \in Shown, b.time \in Nat, b.time <= minute,
         NEW historical \in BOOLEAN, OnBar(b, historical), minute' = minute
  PROVE  TradeStep
<1>1. Candle(seen') /\ seen'.time <= minute /\ on \in BOOLEAN
  BY DEF OnBar, Inv, TradeInv, Candle, Shown
<1>2. b.worst \in Int /\ b.open \in Int /\ b.close \in Nat /\ Limit \in Nat /\ Stop < Limit
      /\ Candle(b)
  BY OpenPositionAssumption DEF Shown, Candle
<1>3. CASE FillsOn(b) /\ EnterOnBar(b)
  <2>0. want \in {"limit", "market"} /\ want # "none"
    BY <1>3 DEF FillsOn
  <2>1. CASE Enter(Limit, b, b.worst, b.open)
    BY <1>1, <1>2, <2>0, <2>1, EnterTrades
  <2>2. CASE Fits(b.close) /\ Enter(b.close, b, b.close, b.close)
    BY <1>1, <1>2, <2>0, <2>2, EnterTrades DEF Fits
  <2>3. CASE Lapse
    BY <1>1, <2>3 DEF Lapse, TradeStep, Passed, Unshown, history
  <2>4. QED
    BY <1>3, <2>0, <2>1, <2>2, <2>3 DEF EnterOnBar
<1>4. CASE UNCHANGED <<want, on, pos, row, trouble, history>>
  BY <1>1, <1>4 DEF TradeStep, Passed, Unshown, history
<1>5. CASE source = "tape" /\ Open /\ UNCHANGED want /\ Rebase(b)
  <2> DEFINE n == [pos EXCEPT !.base = b]
  <2>1. pos' = n /\ row' = row /\ on' = on
    BY <1>5 DEF Rebase
  <2>2. Running(pos) /\ Dated(pos, minute)
    BY <1>5 DEF Inv, TradeInv
  <2>3. /\ n.status = pos.status /\ n.why = pos.why /\ n.entry = pos.entry /\ n.liq = pos.liq
        /\ n.armed = pos.armed /\ n.trailOff = pos.trailOff /\ n.entered = pos.entered
        /\ n.base = b /\ n.sl = pos.sl
    BY <2>2 DEF Running, Sound, Fields
  <2> HIDE DEF n
  <2>4. Follows(pos, n, minute)
    BY <1>2, <2>2, <2>3 DEF Follows, Running, Dated
  <2>5. SameProtection(pos, n)
    BY <1>5, <2>3 DEF SameProtection, Open
  <2>6. Watched
    BY <1>5, <2>1, <2>4, <2>5 DEF Watched
  <2>7. QED
    BY <1>1, <2>1, <2>6 DEF TradeStep
<1>6. CASE /\ Open /\ UNCHANGED want
           /\ \E give \in GiveBacks, timed \in BOOLEAN : Observe(b, historical, give, timed)
  <2>1. PICK give \in GiveBacks, timed \in BOOLEAN : Observe(b, historical, give, timed)
    BY <1>6
  <2>2. CASE Undo
    BY <1>1, <1>6, <2>2, UndoReturns
  <2>3. CASE /\ Sees(pos, pos', b, on)
             /\ row' = pos' \/ (row' = row /\ pos' = pos)
             /\ on' = on
    <3>1. Follows(pos, pos', minute)
      BY <1>6, <2>3, SeesFollows
    <3>2. Watched
      BY <1>6, <2>3, <3>1 DEF Watched
    <3>3. QED
      BY <1>1, <2>3, <3>2 DEF TradeStep
  <2>4. QED
    BY <1>6, <2>1, <2>2, <2>3, ObserveSees
<1>7. QED
  BY <1>3, <1>4, <1>5, <1>6 DEF OnBar

LEMMA GiveCandleTrades ==
  ASSUME Inv, ~TrendExit, GiveCandle
  PROVE  TradeStep
<1>1. minute' = minute
  BY DEF GiveCandle
<1>2. CASE due = <<>> /\ bar # NoBar /\ due' = due /\ OnBar(bar, FALSE)
  <2>1. Given(bar, due')
    BY <1>2 DEF Given
  <2>2. bar \in Shown /\ bar.time \in Nat /\ bar.time <= minute
    BY <2>1, GivenTime
  <2>3. QED
    BY <1>1, <1>2, <2>2, OnBarTrades
<1>3. CASE due # <<>> /\ due' = Tail(due) /\ \E historical \in BOOLEAN : OnBar(Head(due), historical)
  <2> DEFINE b == Head(due)
  <2>1. Given(b, due')
    BY <1>3 DEF Given
  <2>2. b \in Shown /\ b.time \in Nat /\ b.time <= minute
    BY <2>1, GivenTime
  <2>3. PICK historical \in BOOLEAN : OnBar(b, historical)
    BY <1>3
  <2> HIDE DEF b
  <2>4. QED
    BY <1>1, <2>2, <2>3, OnBarTrades
<1>4. QED
  BY <1>2, <1>3 DEF GiveCandle

\* What a print does to an open position.
LEMMA OnTradeSees ==
  ASSUME Inv, Open, NEW p \in Int, NEW give \in GiveBacks, NEW timed \in BOOLEAN,
         OnTrade(p, give, timed)
  PROVE  /\ UNCHANGED <<want, owed, before>>
         /\ shown' = IF on THEN shown \cup {<<minute, p>>} ELSE shown
         /\ \/ Undo /\ lost' = lost \cup {<<minute, p>>}
            \/ /\ Outcome(pos, pos', p, p, on) /\ pos'.base = pos.base /\ on' = on
               /\ row' = pos' \/ (row' = row /\ SameProtection(pos, pos'))
               /\ lost' = lost \ {<<minute, p>>}
<1> DEFINE q == ApplyTrade(pos, p, on, give)
           c == Closed(q, p, "market")
           r == IF timed /\ q.status = "open" THEN c ELSE q
           kept == r.qty # pos.qty \/ r.sl # pos.sl \/ r.trailOff # pos.trailOff
<1>1. /\ UNCHANGED <<want, owed, before>>
      /\ shown' = IF on THEN shown \cup {<<minute, p>>} ELSE shown
  BY DEF OnTrade
<1>2. CASE Undo /\ lost' = lost \cup {<<minute, p>>}
  BY <1>1, <1>2
<1>3. CASE /\ pos' = r
           /\ row' = IF kept THEN r ELSE row
           /\ lost' = lost \ {<<minute, p>>}
           /\ on' = on
  <2>1. Running(pos) /\ on \in BOOLEAN /\ give \in Int /\ pos.qty \in Nat \ {0}
    BY GiveBackTicks DEF Inv, TradeInv, CoverInv, Accounted, Covered, Open
  <2>2. Outcome(pos, q, p, p, on) /\ q.base = pos.base
    BY <2>1, ApplyTradeOutcome
  <2>3. Sound(q)
    BY <2>1, ApplyTradeFirm DEF Running, Firm
  <2>4. Selling(q, c) /\ c.status = "closed" /\ c.why # "stop" /\ c.qty = 0
    <3>1. "market" # "stop" /\ "liquidation" # "stop"
      OBVIOUS
    <3>2. Selling(q, c)
      BY <2>3, <3>1, ClosedSells
    <3>3. c.status = "closed" /\ c.qty = 0 /\ c.why \in {"market", "liquidation"}
      BY <2>3 DEF Closed, Sound, Fields
    <3>4. QED
      BY <3>2, <3>3
  <2> HIDE DEF q, c
  <2>5. Outcome(pos, r, p, p, on) /\ r.base = pos.base
    <3>1. Outcome(pos, c, p, p, on) /\ c.base = pos.base
      BY <2>2, <2>4 DEF Outcome, Selling, Kin
    <3>2. QED
      BY <2>2, <3>1
  <2> HIDE DEF r
  <2>6. ASSUME ~kept PROVE SameProtection(pos, r)
    <3>1. r.qty = pos.qty /\ r.sl = pos.sl /\ r.trailOff = pos.trailOff
      BY <2>6
    <3>2. r.status = "open"
      BY <2>1, <2>5, <3>1 DEF Outcome
    <3>3. r.entry = pos.entry /\ r.trailOff = ~on /\ r.armed = (pos.armed \/ (on /\ pos.trailOff))
      BY <2>5, <3>2 DEF Outcome, Survives
    <3>4. r.armed = pos.armed
      BY <2>1, <3>1, <3>3 DEF Running
    <3>5. QED
      BY <3>1, <3>2, <3>3, <3>4 DEF SameProtection
  <2>7. row' = r \/ (row' = row /\ ~kept)
    BY <1>3
  <2>8. pos' = r
    BY <1>3
  <2>9. Outcome(pos, pos', p, p, on)
    BY <2>5, <2>8, Zenon
  <2>10. row' = pos' \/ (row' = row /\ SameProtection(pos, pos'))
    BY <2>6, <2>7, <2>8
  <2>11. QED
    BY <1>1, <1>3, <2>5, <2>8, <2>9, <2>10
<1>4. QED
  BY <1>1, <1>2, <1>3 DEF OnTrade

LEMMA OutcomeFollows ==
  ASSUME NEW now, NEW p, Running(p), Dated(p, now), NEW r, NEW worst, NEW best, NEW on1 \in BOOLEAN,
         Outcome(p, r, worst, best, on1), r.base = p.base
  PROVE  Follows(p, r, now)
BY DEF Outcome, Survives, Follows, Running, Dated

LEMMA PrintHeardTrades ==
  ASSUME Inv, NEW p \in Prices, PrintHeard(p)
  PROVE  TradeStep
<1>1. p \in Nat /\ p \in Int /\ Limit \in Nat /\ Stop < Limit /\ on \in BOOLEAN
  BY OpenPositionAssumption DEF Inv, TradeInv
<1>2. minute' = minute /\ seen' = seen /\ Candle(seen) /\ seen.time <= minute
  BY DEF PrintHeard, Inv, TradeInv
<1>3. CASE Awaited(p) /\ EnterOnTrade(p)
  <2>0. want \in {"limit", "market"} /\ want # "none"
    BY <1>3 DEF Awaited
  <2>1. CASE Enter(Limit, seen, p, p)
    BY <1>1, <1>2, <2>0, <2>1, EnterTrades
  <2>2. CASE Fits(p) /\ Enter(p, seen, p, p)
    BY <1>1, <1>2, <2>0, <2>2, EnterTrades DEF Fits
  <2>3. CASE Lapse
    BY <1>1, <1>2, <2>3 DEF Lapse, TradeStep, Passed, Unshown, history
  <2>4. QED
    BY <1>3, <2>0, <2>1, <2>2, <2>3 DEF EnterOnTrade
<1>4. CASE Open /\ \E give \in GiveBacks, timed \in BOOLEAN : OnTrade(p, give, timed)
  <2>1. PICK give \in GiveBacks, timed \in BOOLEAN : OnTrade(p, give, timed)
    BY <1>4
  <2>2. CASE Undo /\ want' = want
    BY <1>2, <1>4, <2>2, UndoReturns
  <2>3. CASE /\ Outcome(pos, pos', p, p, on) /\ pos'.base = pos.base /\ on' = on
             /\ row' = pos' \/ (row' = row /\ SameProtection(pos, pos'))
             /\ want' = want
    <3>1. Follows(pos, pos', minute)
      <4>1. Running(pos) /\ Dated(pos, minute)
        BY <1>4 DEF Inv, TradeInv
      <4>2. QED
        BY <1>1, <2>3, <4>1, OutcomeFollows
    <3>2. source = "tape"
      BY DEF PrintHeard
    <3>3. Watched
      BY <1>4, <2>3, <3>1, <3>2 DEF Watched
    <3>4. QED
      BY <1>1, <1>2, <2>3, <3>3 DEF TradeStep
  <2>4. QED
    BY <1>1, <1>4, <2>1, <2>2, <2>3, OnTradeSees
<1>5. CASE UNCHANGED <<want, on, pos, row, trouble, history>>
  BY <1>1, <1>2, <1>5 DEF TradeStep, Passed, Unshown, history
<1>6. QED
  BY <1>3, <1>4, <1>5 DEF PrintHeard

LEMMA OpenNowTrades ==
  ASSUME Inv, OpenNow
  PROVE  TradeStep
<1>1. last \in Nat /\ Stop < last /\ want # "none" /\ Enter(last, seen, last, last)
  BY DEF OpenNow, Fits, Inv, CoverInv, Feed
<1>2. minute' = minute /\ seen' = seen /\ Candle(seen) /\ seen.time <= minute
  BY DEF OpenNow, Inv, TradeInv
<1>3. last \in Int
  BY <1>1
<1>4. QED
  BY <1>1, <1>2, <1>3, EnterTrades

\* Orders sell: entry, candle and trail stay.
LEMMA SellingFollows ==
  ASSUME NEW now, NEW p, Running(p), Dated(p, now), NEW r, Selling(p, r)
  PROVE  Follows(p, r, now)
BY DEF Selling, Kin, Follows, Running, Dated

LEMMA OrderSells ==
  ASSUME Inv, OnMarkPrice \/ OnScriptExit
  PROVE  /\ Open /\ UNCHANGED <<source, minute, bar, last, due, seen, want, policy, shown, lost>>
         /\ \/ Undo
            \/ Selling(pos, pos') /\ row' = pos' /\ on' = on
<1>1. Open /\ UNCHANGED <<source, minute, bar, last, due, seen, want, policy, shown, lost>>
  BY DEF OnMarkPrice, OnScriptExit
<1>2. Sound(pos) /\ "market" # "stop"
  BY <1>1 DEF Inv, TradeInv, Running
<1>3. CASE Undo
  BY <1>1, <1>3
<1>4. CASE \E price : Commit(LeavesAt(price))
  BY <1>1, <1>2, <1>4, ClosedSells DEF Commit, LeavesAt
<1>5. CASE \E i \in 1..3 : Commit(ScriptTarget(pos, i, last))
  BY <1>1, <1>2, <1>5, ScriptTargetSells DEF Commit
<1>6. QED
  BY <1>3, <1>4, <1>5 DEF OnMarkPrice, OnScriptExit

LEMMA OrderTrades ==
  ASSUME Inv, OnMarkPrice \/ OnScriptExit
  PROVE  TradeStep
<1>1. Running(pos) /\ Dated(pos, minute) /\ on \in BOOLEAN /\ Candle(seen) /\ seen.time <= minute
  BY OrderSells DEF Inv, TradeInv
<1>2. CASE Undo
  BY <1>1, <1>2, OrderSells, UndoReturns
<1>3. CASE Selling(pos, pos') /\ row' = pos' /\ on' = on
  <2>1. Follows(pos, pos', minute)
    BY <1>1, <1>3, SellingFollows
  <2>2. Watched
    BY <1>3, <2>1, OrderSells DEF Watched
  <2>3. QED
    BY <1>1, <1>3, <2>2, OrderSells DEF TradeStep
<1>4. QED
  BY <1>2, <1>3, OrderSells

LEMMA RestartTrades == ASSUME Inv, Restart PROVE TradeStep
<1>1. NoBar.time = -1 /\ minute \in Nat
  BY DEF NoBar, Inv, CoverInv, Feed
<1>2. on' \in BOOLEAN /\ Candle(seen') /\ seen'.time <= minute'
  BY <1>1 DEF Restart, Inv, TradeInv, Candle, NoBar
<1>3. Returned
  BY DEF Restart, Returned, Unshown
<1>4. QED
  BY <1>2, <1>3 DEF TradeStep

LEMMA MarketTrades ==
  ASSUME Inv, EndMinute \/ TapeSilent \/ \E p \in Prices : PrintUnheard(p)
  PROVE  TradeStep
<1>1. /\ on \in BOOLEAN /\ Candle(seen) /\ seen.time <= minute /\ minute \in Nat
      /\ want # "none" => ~Open
  BY DEF Inv, TradeInv, StopInv, CoverInv, Feed
<1>2. CASE EndMinute
  BY <1>1, <1>2 DEF EndMinute, TradeStep, Passed, Unshown, history, Candle
<1>3. CASE TapeSilent
  BY <1>1, <1>3 DEF TapeSilent, TradeStep, Passed, Unshown, history
<1>4. ASSUME NEW p \in Prices, PrintUnheard(p) PROVE TradeStep
  BY <1>1, <1>4 DEF PrintUnheard, TradeStep, Passed, Unshown
<1>5. QED
  BY <1>2, <1>3, <1>4

LEMMA TradeInvInit == ASSUME Init PROVE TradeInv
<1>1. NoBar.time = -1 /\ minute = 0
  BY DEF NoBar, Init
<1>2. pos = NoPosition /\ row = NoPosition /\ NoPosition.status = "none" /\ shown = {} /\ owed = {}
  BY DEF Init, NoPosition, Opened
<1>3. QED
  BY <1>1, <1>2 DEF Init, TradeInv, Open, Candle, NoBar

LEMMA InvInit == ASSUME Init PROVE Inv
BY StopInvInit, CoverInvInit, TradeInvInit DEF Inv

LEMMA InvNext == ASSUME Inv, ~TrendExit, [Next]_vars PROVE Inv'
<1>1. StopInv' /\ (Open /\ pos'.status = "open" => pos'.sl >= pos.sl)
  <2>1. CASE UNCHANGED vars
    BY <2>1, StopInvNext DEF Inv, vars, StopInv, Open, Sound, Numbers
  <2>2. CASE ~UNCHANGED vars
    BY <2>2, StopInvNext DEF Inv
  <2>3. QED
    BY <2>1, <2>2
<1>2. CoverInv'
  BY CoverInvNext DEF Inv
<1>3. ASSUME TradeStep, minute' \in Nat, minute' >= minute, source' = source, policy' = policy
      PROVE  TradeInv'
  BY <1>1, <1>3, TradeStepKeeps
<1>4. minute \in Nat
  BY DEF Inv, CoverInv, Feed
<1>5. CASE EndMinute
  BY <1>3, <1>4, <1>5, <1>1, <1>2, MarketTrades DEF EndMinute, Inv
<1>6. CASE TapeSilent \/ \E p \in Prices : PrintUnheard(p)
  <2>1. TradeStep
    BY <1>6, MarketTrades
  <2>2. minute' = minute /\ source' = source /\ policy' = policy
    BY <1>6 DEF TapeSilent, PrintUnheard
  <2>3. TradeInv'
    BY <1>3, <1>4, <2>1, <2>2
  <2>4. QED
    BY <1>1, <1>2, <2>3 DEF Inv
<1>7. CASE OpenNow
  BY <1>3, <1>4, <1>7, <1>1, <1>2, OpenNowTrades DEF OpenNow, Inv
<1>8. CASE GiveCandle
  <2>1. TradeStep
    BY <1>8, GiveCandleTrades
  <2>2. minute' = minute /\ source' = source /\ policy' = policy
    BY <1>8 DEF GiveCandle
  <2>3. TradeInv'
    BY <1>3, <1>4, <2>1, <2>2
  <2>4. QED
    BY <1>1, <1>2, <2>3 DEF Inv
<1>9. ASSUME NEW p \in Prices, PrintHeard(p) PROVE Inv'
  BY <1>3, <1>4, <1>9, <1>1, <1>2, PrintHeardTrades DEF PrintHeard, Inv
<1>10. CASE OnMarkPrice \/ OnScriptExit
  BY <1>3, <1>4, <1>10, <1>1, <1>2, OrderTrades, OrderSells DEF Inv
<1>11. CASE Restart
  <2>1. TradeStep
    BY <1>11, RestartTrades
  <2>2. minute' = minute /\ source' = source /\ policy' = policy
    BY <1>11 DEF Restart
  <2>3. TradeInv'
    BY <1>3, <1>4, <2>1, <2>2
  <2>4. QED
    BY <1>1, <1>2, <2>3 DEF Inv
<1>12. CASE UNCHANGED vars
  BY <1>1, <1>2, <1>12 DEF vars, Inv, TradeInv, Open
<1>13. QED
  BY <1>5, <1>6, <1>7, <1>8, <1>9, <1>10, <1>11, <1>12 DEF Next

-----------------------------------------------------------------------------
(* The candles that are still to come                                      *)

Candidate(x, d, c) == x = c \/ \E i \in DOMAIN d : x = d[i]

\* It will tell something to position q, among it its low, or its high.
Ahead(q, x) ==
  x # NoBar /\ x.time >= q.base.time /\ x # q.base /\ x.time >= q.entered
LowShown(q, x) ==
  (x.time = q.base.time /\ x.worst < q.base.worst) \/ (x.time > q.base.time /\ x.time > q.entered)
HighShown(q, x) ==
  (x.time = q.base.time /\ x.best > q.base.best) \/ (x.time > q.base.time /\ x.time > q.entered)

LEMMA CandidateShown ==
  ASSUME Inv, NEW x, Candidate(x, due, bar), x # NoBar
  PROVE  x \in Shown /\ x.time \in Nat /\ x.time <= minute /\ minute \in Nat
         /\ (x.time = minute => x = bar)
<1>1. minute \in Nat
  BY DEF Inv, CoverInv, Feed
<1>2. CASE x = bar
  BY <1>1, <1>2 DEF Inv, CoverInv, Feed, Shown
<1>3. CASE \E i \in DOMAIN due : x = due[i]
  <2>1. PICK i \in DOMAIN due : x = due[i]
    BY <1>3
  <2>2. x \in Shown /\ x.time < minute
    BY <2>1 DEF Inv, CoverInv, Feed
  <2>3. QED
    BY <1>1, <2>2 DEF Shown
<1>4. QED
  BY <1>2, <1>3 DEF Candidate

\* The candle given is one of them, and the others come later.
LEMMA GivenCandidate ==
  ASSUME Inv, NEW b, NEW d, Given(b, d)
  PROVE  Candidate(b, due, bar) /\ b # NoBar /\ b \in Shown
<1>1. b \in Shown /\ b.time \in Nat
  BY GivenTime
<1>2. b # NoBar
  BY <1>1 DEF NoBar
<1>3. CASE bar # NoBar /\ b = bar
  BY <1>1, <1>2, <1>3 DEF Candidate
<1>4. CASE due # <<>> /\ b = Head(due)
  <2>1. 1 \in DOMAIN due /\ b = due[1]
    BY <1>4 DEF Inv, CoverInv, Feed
  <2>2. QED
    BY <1>1, <1>2, <2>1 DEF Candidate
<1>5. QED
  BY <1>3, <1>4 DEF Given

LEMMA LaterCandidate ==
  ASSUME Inv, NEW b, NEW d, Given(b, d), NEW x, x # NoBar, Candidate(x, due, bar), x # b
  PROVE  Candidate(x, d, bar) /\ x.time > b.time
<1>1. CASE due = <<>> /\ d = due /\ b = bar
  BY <1>1 DEF Candidate
<1>2. CASE due # <<>> /\ d = Tail(due) /\ b = Head(due)
  <2>1. /\ due \in Seq(Shown) /\ Len(due) \in Nat /\ Len(due) >= 1 /\ DOMAIN due = 1..Len(due)
        /\ 1 \in DOMAIN due /\ b = due[1] /\ DOMAIN d = 1..(Len(due) - 1)
        /\ \A i \in 1..(Len(due) - 1) : d[i] = due[i + 1]
    BY <1>2 DEF Inv, CoverInv, Feed
  <2>2. CASE x = bar
    <3>1. b.time < minute /\ bar.time = minute
      BY <2>1, <2>2 DEF Inv, CoverInv, Feed
    <3>2. b.time \in Nat /\ minute \in Nat
      BY GivenTime DEF Inv, CoverInv, Feed
    <3>3. QED
      BY <2>2, <3>1, <3>2 DEF Candidate
  <2>3. CASE \E i \in DOMAIN due : x = due[i]
    <3>1. PICK i \in DOMAIN due : x = due[i]
      BY <2>3
    <3>2. i # 1 /\ i - 1 \in 1..(Len(due) - 1) /\ 1 < i /\ (i - 1) + 1 = i
      BY <2>1, <3>1
    <3>3. d[i - 1] = x
      BY <2>1, <3>1, <3>2
    <3>4. due[1].time < due[i].time
      BY <2>1, <3>1, <3>2 DEF Inv, CoverInv, Feed
    <3>5. due[1] \in Shown /\ due[i] \in Shown
      BY <2>1, <3>1
    <3>6. due[1].time \in Nat /\ due[i].time \in Nat
      BY <3>5 DEF Shown
    <3>7. QED
      BY <2>1, <3>1, <3>2, <3>3, <3>4, <3>6 DEF Candidate
  <2>4. QED
    BY <2>2, <2>3 DEF Candidate
<1>3. QED
  BY <1>1, <1>2 DEF Given

LEMMA EarlierCandidate ==
  ASSUME Inv, NEW b, NEW d, Given(b, d), NEW x, Candidate(x, d, bar)
  PROVE  Candidate(x, due, bar)
<1>1. CASE d = due
  BY <1>1
<1>2. CASE due # <<>> /\ d = Tail(due)
  <2>1. \A i \in DOMAIN d : i + 1 \in DOMAIN due /\ d[i] = due[i + 1]
    BY <1>2 DEF Inv, CoverInv, Feed
  <2>2. QED
    BY <2>1 DEF Candidate
<1>3. QED
  BY <1>1, <1>2 DEF Given

\* What a position takes from a candle it does not skip.
LEMMA TakesFrom ==
  ASSUME NEW p, Running(p), NEW now, Dated(p, now), NEW b \in Shown
  PROVE  /\ ~Skips(p, b) => Ahead(p, b)
         /\ Ahead(p, b) /\ (LowShown(p, b) \/ HighShown(p, b)) => ~Skips(p, b)
         /\ ~Skips(p, b) /\ LowShown(p, b) => LowOf(p, b) = b.worst
         /\ ~Skips(p, b) /\ ~LowShown(p, b) => LowOf(p, b) = b.close
         /\ ~Skips(p, b) /\ HighShown(p, b) => HighOf(p, b) = b.best
<1>1. /\ b.time \in Nat /\ p.base.time \in Int /\ p.entered \in Nat
      /\ b.best \in Int /\ b.worst \in Int /\ b # NoBar
  BY DEF Shown, Dated, NoBar, Candle
<1>2. ~Skips(p, b) => Ahead(p, b)
  BY <1>1 DEF Skips, Ahead
<1>3. Ahead(p, b) /\ (LowShown(p, b) \/ HighShown(p, b)) => ~Skips(p, b)
  BY <1>1 DEF Skips, Ahead, LowShown, HighShown
<1>4. ~Skips(p, b) /\ LowShown(p, b) => LowOf(p, b) = b.worst
  BY <1>1 DEF Skips, LowShown, LowOf
<1>5. ~Skips(p, b) /\ ~LowShown(p, b) => LowOf(p, b) = b.close
  BY <1>1 DEF Skips, LowShown, LowOf
<1>6. ~Skips(p, b) /\ HighShown(p, b) => HighOf(p, b) = b.best
  BY <1>1 DEF Skips, HighShown, HighOf
<1>7. QED
  BY <1>2, <1>3, <1>4, <1>5, <1>6

\* What is still to come for the position after a candle was to come before.
LEMMA StillAhead ==
  ASSUME Inv, Open, NEW b, NEW d, Given(b, d), NEW r, Sees(pos, r, b, on), r.status = "open",
         NEW x, Candidate(x, d, bar), Ahead(r, x)
  PROVE  /\ Candidate(x, due, bar) /\ Ahead(pos, x)
         /\ LowShown(r, x) => LowShown(pos, x)
         /\ HighShown(r, x) => HighShown(pos, x)
<1>1. Candidate(x, due, bar)
  BY EarlierCandidate
<1>2. CASE r = pos
  BY <1>1, <1>2
<1>3. CASE r # pos
  <2>1. ~Skips(pos, b) /\ r.base = b /\ r.entered = pos.entered
    BY <1>3 DEF Sees, Outcome
  <2>2. x # b /\ x # NoBar
    BY <2>1 DEF Ahead
  <2>3. x.time > b.time
    BY <1>1, <2>2, LaterCandidate
  <2>4. x.time \in Nat /\ b.time \in Nat
    BY <1>1, <2>2, CandidateShown, GivenTime
  <2>5. pos.base.time \in Int /\ b.time >= pos.base.time /\ b.time >= pos.entered /\ pos.entered \in Nat
    BY <2>1, <2>4 DEF Skips, Inv, TradeInv, Dated, Candle
  <2>6. x.time > pos.base.time
    BY <2>3, <2>4, <2>5
  <2>7. Ahead(pos, x)
    BY <2>1, <2>2, <2>4, <2>5, <2>6 DEF Ahead
  <2>8. (LowShown(r, x) => LowShown(pos, x)) /\ (HighShown(r, x) => HighShown(pos, x))
    BY <2>1, <2>3, <2>4, <2>5, <2>6 DEF LowShown, HighShown
  <2>9. QED
    BY <1>1, <2>7, <2>8
<1>4. QED
  BY <1>2, <1>3

\* And what was to come stays, but for the candle itself.
LEMMA StaysAhead ==
  ASSUME Inv, Open, NEW b, NEW d, Given(b, d), NEW r, Sees(pos, r, b, on), r.status = "open",
         NEW x, Candidate(x, due, bar), Ahead(pos, x), x # b
  PROVE  /\ Candidate(x, d, bar) /\ Ahead(r, x)
         /\ LowShown(pos, x) => LowShown(r, x)
         /\ HighShown(pos, x) => HighShown(r, x)
<1>1. x # NoBar
  BY DEF Ahead
<1>2. Candidate(x, d, bar) /\ x.time > b.time
  BY <1>1, LaterCandidate
<1>3. CASE r = pos
  BY <1>2, <1>3
<1>4. CASE r # pos
  <2>1. ~Skips(pos, b) /\ r.base = b /\ r.entered = pos.entered
    BY <1>4 DEF Sees, Outcome
  <2>2. x.time \in Nat /\ b.time \in Nat
    BY <1>1, CandidateShown, GivenTime
  <2>3. pos.base.time \in Int /\ b.time >= pos.base.time /\ b.time >= pos.entered /\ pos.entered \in Nat
    BY <2>1, <2>2 DEF Skips, Inv, TradeInv, Dated, Candle
  <2>4. Ahead(r, x)
    BY <1>1, <1>2, <2>1, <2>2, <2>3 DEF Ahead
  <2>5. (LowShown(pos, x) => LowShown(r, x)) /\ (HighShown(pos, x) => HighShown(r, x))
    BY <1>2, <2>1, <2>2, <2>3 DEF LowShown, HighShown
  <2>6. QED
    BY <1>2, <2>4, <2>5
<1>5. QED
  BY <1>3, <1>4

\* A minute that ends keeps its candle.
LEMMA EndedCandidate ==
  ASSUME Inv, EndMinute, NEW x, x # NoBar
  PROVE  Candidate(x, due', bar') <=> Candidate(x, due, bar)
<1>1. bar' = NoBar
  BY DEF EndMinute
<1>2. CASE bar = NoBar
  BY <1>1, <1>2 DEF EndMinute, Candidate
<1>3. CASE bar # NoBar
  <2>1. due' = Append(due, bar)
    BY <1>3 DEF EndMinute
  <2>2. /\ Len(due) \in Nat /\ DOMAIN due = 1..Len(due) /\ DOMAIN due' = 1..(Len(due) + 1)
        /\ due'[Len(due) + 1] = bar /\ \A i \in 1..Len(due) : due'[i] = due[i]
    BY <1>3, <2>1 DEF Inv, CoverInv, Feed
  <2>3. QED
    BY <1>1, <2>2 DEF Candidate
<1>4. QED
  BY <1>2, <1>3

\* A print only changes the candle that runs.
LEMMA PrintedBar ==
  ASSUME Inv, NEW p \in Prices, Printed(p)
  PROVE  /\ p \in Nat
         /\ bar' \in Shown /\ bar' # NoBar /\ bar'.time = minute /\ bar'.close = p
         /\ bar'.worst = (IF bar = NoBar THEN p ELSE Lesser(bar.worst, p))
         /\ bar'.best = (IF bar = NoBar THEN p ELSE Greater(bar.best, p))
<1>1. p \in Nat /\ minute \in Nat
  BY OpenPositionAssumption DEF Inv, CoverInv, Feed
<1>2. CASE bar = NoBar
  BY <1>1, <1>2 DEF Printed, Grown, Bar, Shown, NoBar
<1>3. CASE bar # NoBar
  <2>1. bar \in Shown /\ bar.time = minute
    BY <1>3 DEF Inv, CoverInv, Feed
  <2>2. bar' = [bar EXCEPT !.best = Greater(@, p), !.worst = Lesser(@, p), !.close = p]
    BY <1>3 DEF Printed, Grown
  <2>3. /\ bar' \in Shown /\ bar'.time = minute /\ bar'.close = p
        /\ bar'.worst = Lesser(bar.worst, p) /\ bar'.best = Greater(bar.best, p)
    BY <1>1, <2>1, <2>2 DEF Shown, Greater, Lesser
  <2>4. bar' # NoBar
    BY <1>1, <2>3 DEF NoBar
  <2>5. QED
    BY <1>1, <1>3, <2>3, <2>4
<1>4. QED
  BY <1>2, <1>3

-----------------------------------------------------------------------------
(* What the steps do, said once for all that follows                       *)

\* An entry is filled at a price, on what is known by candle b.
Entry(b, price, worst) ==
  /\ want # "none" /\ row' = pos' /\ low' = Lesser(last, worst) /\ before' = Older(b)
  /\ UNCHANGED <<owed, shown, lost>>
  /\ Stop < price /\ Filled(pos', price, b, worst)
\* Nothing is open, and nothing was opened.
Quiet == ~Open /\ UNCHANGED <<pos, row, low, before, owed, shown, lost>>

LEMMA EnterDoes ==
  ASSUME Inv, want # "none", NEW price \in Nat, Stop < price, NEW b, Candle(b), b.time <= minute,
         NEW worst \in Int, NEW first \in Int, Enter(price, b, worst, first)
  PROVE  Quiet \/ Entry(b, price, worst)
<1>1. ~Open
  BY DEF Inv, TradeInv, Open, NoPosition, Opened
<1>2. QED
  BY <1>1, EnterFills DEF Quiet, Entry

LEMMA OnBarDoes ==
  ASSUME Inv, NEW b \in Shown, b.time <= minute, NEW historical \in BOOLEAN, OnBar(b, historical)
  PROVE  \/ Quiet
         \/ \E price \in Nat, worst \in Nat : Entry(b, price, worst)
         \/ source = "tape" /\ Open /\ Rebase(b)
         \/ /\ Open
            /\ \E give \in GiveBacks, timed \in BOOLEAN : Observe(b, historical, give, timed)
<1>1. /\ b.worst \in Nat /\ b.open \in Nat /\ b.close \in Nat /\ Candle(b)
      /\ Limit \in Nat /\ Stop < Limit
  BY OpenPositionAssumption DEF Shown, Candle
<1>2. CASE FillsOn(b) /\ EnterOnBar(b)
  <2>1. want \in {"limit", "market"} /\ want # "none" /\ ~Open
    BY <1>2 DEF FillsOn, Inv, TradeInv, Open, NoPosition, Opened
  <2>2. CASE Enter(Limit, b, b.worst, b.open)
    <3>1. Quiet \/ Entry(b, Limit, b.worst)
      BY <1>1, <2>1, <2>2, EnterDoes
    <3>2. QED
      BY <1>1, <3>1
  <2>3. CASE Fits(b.close) /\ Enter(b.close, b, b.close, b.close)
    <3>1. Quiet \/ Entry(b, b.close, b.close)
      BY <1>1, <2>1, <2>3, EnterDoes DEF Fits
    <3>2. QED
      BY <1>1, <3>1
  <2>4. CASE Lapse
    BY <2>1, <2>4 DEF Lapse, Quiet, history
  <2>5. QED
    BY <1>2, <2>1, <2>2, <2>3, <2>4 DEF EnterOnBar
<1>3. CASE ~Open /\ UNCHANGED <<want, on, pos, row, trouble, history>>
  BY <1>3 DEF Quiet, history
<1>4. CASE source = "tape" /\ Open /\ Rebase(b)
  BY <1>4
<1>5. CASE Open /\ \E give \in GiveBacks, timed \in BOOLEAN : Observe(b, historical, give, timed)
  BY <1>5
<1>6. QED
  BY <1>2, <1>3, <1>4, <1>5 DEF OnBar

LEMMA GiveCandleDoes ==
  ASSUME Inv, GiveCandle
  PROVE  /\ UNCHANGED <<source, minute, bar, last>>
         /\ \E b \in Shown, historical \in BOOLEAN : Given(b, due') /\ OnBar(b, historical)
<1>1. CASE due = <<>> /\ bar # NoBar /\ due' = due /\ OnBar(bar, FALSE)
  <2>1. Given(bar, due')
    BY <1>1 DEF Given
  <2>2. bar \in Shown
    BY <2>1, GivenTime
  <2>3. QED
    BY <1>1, <2>1, <2>2 DEF GiveCandle
<1>2. CASE due # <<>> /\ due' = Tail(due) /\ \E historical \in BOOLEAN : OnBar(Head(due), historical)
  <2> DEFINE b == Head(due)
  <2>1. Given(b, due')
    BY <1>2 DEF Given
  <2>2. b \in Shown
    BY <2>1, GivenTime
  <2>3. PICK historical \in BOOLEAN : OnBar(b, historical)
    BY <1>2
  <2> HIDE DEF b
  <2>4. UNCHANGED <<source, minute, bar, last>>
    BY DEF GiveCandle
  <2>5. QED
    BY <2>1, <2>2, <2>3, <2>4
<1>3. QED
  BY <1>1, <1>2 DEF GiveCandle

\* A script's order leaves the position to its row, or sells.
LEMMA ScriptDoes ==
  ASSUME Inv, OnScriptExit
  PROVE  /\ Open /\ UNCHANGED <<source, minute, bar, last, due, shown, lost>>
         /\ \/ Undo
            \/ Selling(pos, pos') /\ row' = pos' /\ MovedTo(pos', last, due, low', before', owed')
<1>1. Open /\ UNCHANGED <<source, minute, bar, last, due, shown, lost>>
  BY DEF OnScriptExit
<1>2. Sound(pos) /\ "market" # "stop"
  BY <1>1 DEF Inv, TradeInv, Running
<1>3. CASE Undo
  BY <1>1, <1>3
<1>4. ASSUME NEW q, Selling(pos, q), Commit(q), Moved(q, last, due)
      PROVE  Selling(pos, pos') /\ row' = pos' /\ MovedTo(pos', last, due, low', before', owed')
  <2>1. pos' = q /\ row' = q
    BY <1>4 DEF Commit
  <2>2. MovedTo(q, last, due, low', before', owed')
    BY <1>4 DEF Moved, MovedTo
  <2>3. QED
    BY <1>4, <2>1, <2>2, Zenon
<1>5. CASE Commit(LeavesAt(last)) /\ Moved(LeavesAt(last), last, due)
  <2>1. Selling(pos, LeavesAt(last))
    BY <1>2, ClosedSells DEF LeavesAt
  <2>2. QED
    BY <1>1, <1>4, <1>5, <2>1
<1>6. ASSUME NEW i \in 1..3, Commit(ScriptTarget(pos, i, last)), Moved(ScriptTarget(pos, i, last), last, due)
      PROVE  Selling(pos, pos') /\ row' = pos' /\ MovedTo(pos', last, due, low', before', owed')
  <2>1. Selling(pos, ScriptTarget(pos, i, last))
    BY <1>2, ScriptTargetSells
  <2>2. QED
    BY <1>4, <1>6, <2>1
<1>7. QED
  BY <1>1, <1>3, <1>5, <1>6 DEF OnScriptExit

-----------------------------------------------------------------------------
(* No price a candle shows passes the stop                                 *)

\* The stop does not go down.
Higher == Open /\ pos'.status = "open" => pos'.sl \in Int /\ pos'.sl >= pos.sl

LEMMA HigherNext ==
  ASSUME Inv, ~TrendExit, [Next]_vars
  PROVE  Higher
<1>1. StopInv' /\ (Open /\ pos'.status = "open" => pos'.sl >= pos.sl)
  <2>1. CASE UNCHANGED vars
    BY <2>1, StopInvNext DEF Inv, vars, StopInv, Open, Sound, Numbers
  <2>2. CASE ~UNCHANGED vars
    BY <2>2, StopInvNext DEF Inv
  <2>3. QED
    BY <2>1, <2>2
<1>2. QED
  BY <1>1 DEF Higher, StopInv, Open, Sound, Numbers

\* A candle still to come, the one of its minute, shows a price at the stop,
\* and the position has not been shown it.
Awaits(q, d, c, o) ==
  /\ o[1] = q.base.time => o[2] < q.base.worst
  /\ \E x : /\ Candidate(x, d, c) /\ Ahead(q, x) /\ LowShown(q, x)
            /\ x.worst <= q.sl /\ x.time = o[1]

HonourInv == source = "candles" /\ Open => \A o \in owed \ lost : Awaits(pos, due, bar, o)
Honours ==
  source = "candles" /\ pos'.status = "open" => \A o \in owed' \ lost' : Awaits(pos', due', bar', o)

LEMMA OwesAwaits ==
  ASSUME NEW q, NEW now, Dated(q, now), NEW d, NEW o \in Owes(q, d),
         \A x : Candidate(x, d, bar) /\ x # NoBar => x \in Shown
  PROVE  Awaits(q, d, bar, o)
<1>1. PICK x \in NewLows(q.base, d) :
        /\ o = <<x.time, x.worst>> /\ x.worst <= q.sl
        /\ (IF x.time = q.base.time THEN x.time >= q.entered ELSE x.time > q.entered)
  BY DEF Owes
<1>2. /\ Candidate(x, d, bar) /\ x # NoBar /\ x.time >= q.base.time /\ x # q.base
      /\ x.time > q.base.time \/ x.worst < q.base.worst
  BY DEF NewLows, News, Candidate
<1>3. x.time \in Nat /\ q.base.time \in Int /\ q.entered \in Nat
  BY <1>2 DEF Shown, Dated, Candle
<1>4. Ahead(q, x) /\ LowShown(q, x)
  BY <1>1, <1>2, <1>3 DEF Ahead, LowShown
<1>5. o[1] = x.time /\ o[2] = x.worst
  BY <1>1
<1>6. o[1] = q.base.time => o[2] < q.base.worst
  BY <1>2, <1>3, <1>5
<1>7. QED
  BY <1>1, <1>2, <1>4, <1>5, <1>6 DEF Awaits

\* Candles to come are candles, before and after one is given.
LEMMA DueShown ==
  ASSUME Inv
  PROVE  \A x : Candidate(x, due, bar) /\ x # NoBar => x \in Shown
BY CandidateShown

LEMMA LeftShown ==
  ASSUME Inv, NEW b, NEW d, Given(b, d)
  PROVE  \A x : Candidate(x, d, bar) /\ x # NoBar => x \in Shown
BY DueShown, EarlierCandidate

\* The candle of the minute that runs is given only after all that ended, and
\* may be given again.
LEMMA GivenRunning ==
  ASSUME Inv, NEW b, NEW d, Given(b, d), b.time = bar.time
  PROVE  d = due
<1>1. b.time \in Nat
  BY GivenTime
<1>2. b.time = minute
  <2>1. bar # NoBar
    BY <1>1 DEF NoBar
  <2>2. QED
    BY <2>1 DEF Inv, CoverInv, Feed
<1>3. due # <<>> => Head(due).time < minute
  BY DEF Inv, CoverInv, Feed
<1>4. QED
  BY <1>1, <1>2, <1>3 DEF Given

\* What a book left with its row has not been shown of a final candle that is
\* gone is lost.
LEMMA GoneIsLost ==
  ASSUME NEW b, NEW M, NEW o \in owed \cup shown, source = "candles", o[1] \in M, o[1] >= b.time,
         o[1] = b.time => o[2] > b.best \/ o[2] < b.worst
  PROVE  o \in Lost(b, M)
BY DEF Lost

LEMMA ObserveHonours ==
  ASSUME Inv, HonourInv, ~TrendExit, Higher, source = "candles", Open, bar' = bar,
         NEW b \in Shown, Given(b, due'), NEW historical \in BOOLEAN, NEW give \in GiveBacks,
         NEW timed \in BOOLEAN, Observe(b, historical, give, timed)
  PROVE  Honours
<1>1. b.time \in Nat /\ b.time <= minute
  BY GivenTime
<1>2. /\ Running(pos) /\ Dated(pos, minute)
      /\ row.status = "open" => Dated(row, minute)
  BY DEF Inv, TradeInv
<1>3. SUFFICES ASSUME pos'.status = "open", NEW o \in owed' \ lost' PROVE Awaits(pos', due', bar, o)
  BY DEF Honours
<1>4. CASE /\ Undo
           /\ lost' = IF b.time = bar.time THEN lost ELSE lost \cup Lost(row.base, {b.time})
  <2>1. pos' = row /\ row = pos /\ o \in owed \ lost
    BY <1>3, <1>4 DEF Undo, Inv, TradeInv
  <2>2. PICK x : /\ Candidate(x, due, bar) /\ Ahead(pos, x) /\ LowShown(pos, x)
                 /\ x.worst <= pos.sl /\ x.time = o[1]
    BY <2>1 DEF HonourInv, Awaits
  <2>3. o[1] = pos.base.time => o[2] < pos.base.worst
    BY <2>1 DEF HonourInv, Awaits
  <2>4. CASE b.time = bar.time
    BY <2>1, <2>2, <2>3, <2>4, GivenRunning DEF Awaits
  <2>5. CASE b.time # bar.time
    <3>1. o[1] # b.time
      <4>1. SUFFICES ASSUME o[1] = b.time PROVE FALSE
        OBVIOUS
      <4>2. o[1] >= row.base.time
        BY <2>1, <2>2 DEF Ahead
      <4>3. o \in Lost(row.base, {b.time})
        BY <2>1, <2>3, <4>1, <4>2, GoneIsLost
      <4>4. QED
        BY <1>3, <1>4, <2>5, <4>3
    <3>2. x # b /\ x # NoBar
      BY <2>2, <3>1 DEF Ahead
    <3>3. Candidate(x, due', bar)
      BY <2>2, <3>2, LaterCandidate
    <3>4. QED
      BY <2>1, <2>2, <2>3, <3>3 DEF Awaits
  <2>6. QED
    BY <2>4, <2>5
<1>5. CASE /\ Sees(pos, pos', b, on) /\ lost' = lost
           /\ MovedTo(pos', b.close, due', low', before', owed')
  <2>1. Dated(pos', minute)
    BY <1>1, <1>3, <1>5, SeesFollows DEF Follows
  <2>2. CASE o \in Owes(pos', due')
    BY <2>1, <2>2, OwesAwaits, LeftShown
  <2>3. CASE o \in owed
    <3>1. Awaits(pos, due, bar, o)
      BY <1>3, <1>5, <2>3 DEF HonourInv
    <3>2. PICK x : /\ Candidate(x, due, bar) /\ Ahead(pos, x) /\ LowShown(pos, x)
                   /\ x.worst <= pos.sl /\ x.time = o[1]
      BY <3>1 DEF Awaits
    <3>3. x # b
      <4>1. SUFFICES ASSUME x = b PROVE FALSE
        OBVIOUS
      <4>2. ~Skips(pos, b) /\ LowOf(pos, b) = b.worst
        BY <1>2, <3>2, <4>1, TakesFrom
      <4>3. b.worst > pos.sl
        BY <1>3, <1>5, <4>2 DEF Sees, Outcome, Survives
      <4>4. b.worst \in Int /\ pos.sl \in Int
        BY <1>2 DEF Shown, Running, Sound, Numbers
      <4>5. QED
        BY <3>2, <4>1, <4>3, <4>4
    <3>4. Candidate(x, due', bar) /\ Ahead(pos', x) /\ LowShown(pos', x)
      BY <1>3, <1>5, <3>2, <3>3, StaysAhead
    <3>5. o[1] = pos'.base.time => o[2] < pos'.base.worst
      <4>1. CASE pos'.base = pos.base
        BY <3>1, <4>1 DEF Awaits
      <4>2. CASE pos'.base # pos.base
        <5>1. pos'.base = b
          BY <1>3, <1>5, <4>2 DEF Sees
        <5>2. x.time > b.time /\ b.time \in Nat /\ x.time \in Nat
          BY <1>1, <3>2, <3>3, LaterCandidate, CandidateShown DEF Ahead
        <5>3. QED
          BY <3>2, <5>1, <5>2
      <4>3. QED
        BY <4>1, <4>2
    <3>6. x.worst <= pos'.sl
      <4>1. pos'.sl >= pos.sl /\ pos'.sl \in Int
        BY <1>3 DEF Higher
      <4>2. x.worst \in Int /\ pos.sl \in Int
        BY <1>2, <3>2, DueShown DEF Ahead, Shown, Running, Sound, Numbers
      <4>3. QED
        BY <3>2, <4>1, <4>2
    <3>7. QED
      BY <3>2, <3>4, <3>5, <3>6 DEF Awaits
  <2>4. QED
    BY <1>3, <1>5, <2>2, <2>3 DEF MovedTo
<1>6. QED
  BY <1>4, <1>5, ObserveSees

\* A print makes the running candle show more.
LEMMA GrownAhead ==
  ASSUME Inv, Open, NEW p \in Prices, Printed(p), due' = due,
         NEW x, Candidate(x, due, bar), Ahead(pos, x), LowShown(pos, x) \/ HighShown(pos, x)
  PROVE  \E y : /\ Candidate(y, due', bar') /\ Ahead(pos, y)
                /\ LowShown(pos, x) => LowShown(pos, y)
                /\ HighShown(pos, x) => HighShown(pos, y)
                /\ y.worst <= x.worst /\ y.best >= x.best /\ y.time = x.time
<1>1. x # NoBar
  BY DEF Ahead
<1>2. x \in Shown /\ Dated(pos, minute) /\ minute \in Nat
  BY <1>1, CandidateShown DEF Inv, TradeInv
<1>3. CASE x # bar
  <2>1. Candidate(x, due', bar')
    BY <1>3 DEF Candidate
  <2>2. x.worst <= x.worst /\ x.best >= x.best
    BY <1>2 DEF Shown
  <2>3. QED
    BY <2>1, <2>2
<1>4. CASE x = bar
  <2>1. /\ bar' # NoBar /\ bar'.time = minute /\ bar.time = minute
        /\ bar'.worst \in Int /\ bar'.worst <= bar.worst /\ bar.worst \in Int
        /\ bar'.best \in Int /\ bar'.best >= bar.best /\ bar.best \in Int
    BY <1>1, <1>2, <1>4, PrintedBar DEF Shown, Lesser, Greater, Inv, CoverInv, Feed
  <2>2. pos.base.time \in Int /\ pos.base.best \in Int /\ pos.base.worst \in Int /\ pos.entered \in Nat
    BY <1>2 DEF Dated, Candle
  <2>3. LowShown(pos, x) => LowShown(pos, bar')
    BY <1>4, <2>1, <2>2 DEF LowShown
  <2>4. HighShown(pos, x) => HighShown(pos, bar')
    BY <1>4, <2>1, <2>2 DEF HighShown
  <2>5. bar' # pos.base
    BY <2>1, <2>2, <2>3, <2>4 DEF LowShown, HighShown
  <2>6. Ahead(pos, bar')
    BY <1>4, <2>1, <2>5 DEF Ahead
  <2>7. Candidate(bar', due', bar')
    BY DEF Candidate
  <2>8. QED
    BY <1>4, <2>1, <2>3, <2>4, <2>6, <2>7
<1>5. QED
  BY <1>3, <1>4

\* What the candles can still show is shown by the candle of the minute.
LEMMA ShowsAhead ==
  ASSUME Inv, Open, NEW p \in Prices, Printed(p), ShowsLow(p) \/ ShowsHigh(p)
  PROVE  /\ Candidate(bar', due', bar') /\ Ahead(pos, bar')
         /\ ShowsLow(p) => LowShown(pos, bar') /\ bar'.worst <= p
         /\ ShowsHigh(p) => HighShown(pos, bar') /\ bar'.best >= p
<1>1. /\ p \in Nat /\ bar' # NoBar /\ bar'.time = minute /\ minute \in Nat
      /\ bar'.worst \in Int /\ bar'.worst <= p /\ bar'.best \in Int /\ bar'.best >= p
  <2>1. bar # NoBar => bar.worst \in Int /\ bar.best \in Int
    BY DEF Inv, CoverInv, Feed, Shown
  <2>2. QED
    BY <2>1, PrintedBar DEF Shown, Lesser, Greater, Inv, CoverInv, Feed
<1>2. /\ pos.base.time \in Int /\ pos.base.best \in Int /\ pos.base.worst \in Int /\ pos.entered \in Nat
      /\ pos.base.time <= minute /\ pos.entered <= minute
  BY DEF Inv, TradeInv, Dated, Candle
<1>3. ShowsLow(p) => LowShown(pos, bar')
  BY <1>1, <1>2 DEF ShowsLow, LowShown
<1>4. ShowsHigh(p) => HighShown(pos, bar')
  BY <1>1, <1>2 DEF ShowsHigh, HighShown
<1>5. bar' # pos.base
  BY <1>1, <1>2, <1>3, <1>4 DEF LowShown, HighShown
<1>6. QED
  BY <1>1, <1>2, <1>3, <1>4, <1>5 DEF Ahead, Candidate

LEMMA UnheardHonours ==
  ASSUME Inv, HonourInv, NEW p \in Prices, PrintUnheard(p)
  PROVE  Honours
<1>1. /\ UNCHANGED <<pos, due, source, lost>> /\ Printed(p)
      /\ owed' = IF Open /\ source = "candles" /\ p <= pos.sl /\ ShowsLow(p)
                 THEN owed \cup {<<minute, p>>} ELSE owed
  BY DEF PrintUnheard
<1>2. SUFFICES ASSUME source = "candles", Open, NEW o \in owed' \ lost PROVE Awaits(pos, due', bar', o)
  BY <1>1 DEF Honours, Open
<1>3. Running(pos) /\ p \in Nat /\ pos.sl \in Int
  BY <1>2, OpenPositionAssumption DEF Inv, TradeInv, Running, Sound, Numbers
<1>4. CASE o \in owed
  <2>1. PICK x : /\ Candidate(x, due, bar) /\ Ahead(pos, x) /\ LowShown(pos, x)
                 /\ x.worst <= pos.sl /\ x.time = o[1]
    BY <1>2, <1>4 DEF HonourInv, Awaits
  <2>2. PICK y : /\ Candidate(y, due', bar') /\ Ahead(pos, y)
                 /\ LowShown(pos, y) /\ y.worst <= x.worst /\ y.time = x.time
    BY <1>1, <1>2, <2>1, GrownAhead
  <2>3. x \in Shown /\ x.worst \in Int
    BY <2>1, DueShown DEF Ahead, Shown
  <2>4. y.worst \in Int
    <3>1. CASE y = bar'
      BY <1>1, <3>1, PrintedBar DEF Shown
    <3>2. CASE \E i \in DOMAIN due : y = due[i]
      <4>1. y \in Shown
        BY <3>2 DEF Inv, CoverInv, Feed
      <4>2. QED
        BY <4>1 DEF Shown
    <3>3. QED
      BY <1>1, <2>2, <3>1, <3>2 DEF Candidate
  <2>5. y.worst <= pos.sl
    BY <1>3, <2>1, <2>2, <2>3, <2>4
  <2>6. o[1] = pos.base.time => o[2] < pos.base.worst
    BY <1>2, <1>4 DEF HonourInv, Awaits
  <2>7. QED
    BY <2>1, <2>2, <2>5, <2>6 DEF Awaits
<1>5. CASE o = <<minute, p>> /\ p <= pos.sl /\ ShowsLow(p)
  <2>1. /\ Candidate(bar', due', bar') /\ Ahead(pos, bar') /\ LowShown(pos, bar')
        /\ bar'.worst <= p /\ bar'.time = minute
    BY <1>1, <1>2, <1>5, ShowsAhead, PrintedBar
  <2>2. bar'.worst \in Int
    BY <1>1, PrintedBar DEF Shown
  <2>3. bar'.worst <= pos.sl
    BY <1>3, <1>5, <2>1, <2>2
  <2>4. o[1] = minute /\ o[2] = p
    BY <1>5
  <2>5. o[1] = pos.base.time => o[2] < pos.base.worst
    BY <1>5, <2>4 DEF ShowsLow
  <2>6. QED
    BY <2>1, <2>3, <2>4, <2>5 DEF Awaits
<1>6. QED
  BY <1>1, <1>2, <1>4, <1>5

\* A minute that ends changes neither side.
LEMMA EndMinuteHonours ==
  ASSUME Inv, HonourInv, EndMinute
  PROVE  Honours
<1>1. SUFFICES ASSUME source = "candles", Open, NEW o \in owed \ lost PROVE Awaits(pos, due', bar', o)
  BY DEF EndMinute, Honours, Open, history
<1>2. PICK x : /\ Candidate(x, due, bar) /\ Ahead(pos, x) /\ LowShown(pos, x)
               /\ x.worst <= pos.sl /\ x.time = o[1]
  BY <1>1 DEF HonourInv, Awaits
<1>3. x # NoBar
  BY <1>2 DEF Ahead
<1>4. Candidate(x, due', bar')
  BY <1>2, <1>3, EndedCandidate
<1>5. o[1] = pos.base.time => o[2] < pos.base.worst
  BY <1>1 DEF HonourInv, Awaits
<1>6. QED
  BY <1>2, <1>4, <1>5 DEF Awaits

LEMMA ScriptHonours ==
  ASSUME Inv, HonourInv, Higher, OnScriptExit
  PROVE  Honours
<1>1. Open /\ UNCHANGED <<source, bar, due, lost>> /\ Dated(pos, minute)
  BY ScriptDoes DEF Inv, TradeInv
<1>2. SUFFICES ASSUME source = "candles", pos'.status = "open", NEW o \in owed' \ lost
               PROVE  Awaits(pos', due, bar, o)
  BY <1>1 DEF Honours
<1>3. CASE Undo
  <2>1. pos' = pos /\ owed' = owed
    BY <1>2, <1>3 DEF Undo, Inv, TradeInv
  <2>2. QED
    BY <1>1, <1>2, <2>1 DEF HonourInv
<1>4. CASE Selling(pos, pos') /\ MovedTo(pos', last, due, low', before', owed')
  <2>1. pos'.base = pos.base /\ pos'.entered = pos.entered
    BY <1>4 DEF Selling, Kin
  <2>2. CASE o \in Owes(pos', due)
    <3>1. Dated(pos', minute)
      BY <1>1, <2>1 DEF Dated
    <3>2. QED
      BY <2>2, <3>1, OwesAwaits, DueShown
  <2>3. CASE o \in owed
    <3>1. Awaits(pos, due, bar, o)
      BY <1>1, <1>2, <2>3 DEF HonourInv
    <3>2. PICK x : /\ Candidate(x, due, bar) /\ Ahead(pos, x) /\ LowShown(pos, x)
                   /\ x.worst <= pos.sl /\ x.time = o[1]
      BY <3>1 DEF Awaits
    <3>3. Ahead(pos', x) /\ LowShown(pos', x)
      BY <2>1, <3>2 DEF Ahead, LowShown
    <3>4. x.worst <= pos'.sl
      <4>1. pos'.sl >= pos.sl /\ pos'.sl \in Int
        BY <1>1, <1>2 DEF Higher
      <4>2. x.worst \in Int /\ pos.sl \in Int
        BY <1>1, <3>2, DueShown DEF Ahead, Shown, Inv, TradeInv, Running, Sound, Numbers
      <4>3. QED
        BY <3>2, <4>1, <4>2
    <3>5. o[1] = pos'.base.time => o[2] < pos'.base.worst
      BY <2>1, <3>1 DEF Awaits
    <3>6. QED
      BY <3>2, <3>3, <3>4, <3>5 DEF Awaits
  <2>4. QED
    BY <1>2, <1>4, <2>2, <2>3 DEF MovedTo
<1>5. QED
  BY <1>3, <1>4, ScriptDoes

\* What is gone of the minutes that ended while the process was down is lost.
LEMMA RestartHonours ==
  ASSUME Inv, HonourInv, Restart
  PROVE  Honours
<1>1. /\ pos' = row /\ bar' = bar /\ due' = <<>> /\ owed' = owed
      /\ lost' = lost \cup Lost(row.base, {due[i].time : i \in DOMAIN due})
  BY DEF Restart
<1>2. SUFFICES ASSUME source = "candles", row.status = "open", NEW o \in owed \ lost' PROVE Awaits(row, <<>>, bar, o)
  BY <1>1 DEF Honours, Restart
<1>3. row = pos /\ Open /\ o \notin lost
  BY <1>1, <1>2 DEF Inv, TradeInv, Open
<1>4. PICK x : /\ Candidate(x, due, bar) /\ Ahead(pos, x) /\ LowShown(pos, x)
               /\ x.worst <= pos.sl /\ x.time = o[1]
  BY <1>2, <1>3 DEF HonourInv, Awaits
<1>5. o[1] = pos.base.time => o[2] < pos.base.worst
  BY <1>2, <1>3 DEF HonourInv, Awaits
<1>6. x = bar
  <2>1. ASSUME NEW i \in DOMAIN due, x = due[i] PROVE FALSE
    <3>1. o[1] \in {due[j].time : j \in DOMAIN due}
      BY <1>4, <2>1
    <3>2. o[1] >= row.base.time
      BY <1>3, <1>4 DEF Ahead
    <3>3. o \in Lost(row.base, {due[j].time : j \in DOMAIN due})
      BY <1>2, <1>3, <1>5, <3>1, <3>2, GoneIsLost
    <3>4. QED
      BY <1>1, <1>2, <3>3
  <2>2. QED
    BY <1>4, <2>1 DEF Candidate
<1>7. QED
  BY <1>3, <1>4, <1>5, <1>6 DEF Awaits, Candidate

LEMMA GiveCandleHonours ==
  ASSUME Inv, HonourInv, ~TrendExit, Higher, GiveCandle
  PROVE  Honours
<1>1. PICK b \in Shown, historical \in BOOLEAN : Given(b, due') /\ OnBar(b, historical)
  BY GiveCandleDoes
<1>2. UNCHANGED <<source, minute, bar, last>> /\ b.time <= minute
  BY <1>1, GiveCandleDoes, GivenTime
<1>3. CASE Quiet
  BY <1>3 DEF Quiet, Open, Honours
<1>4. CASE \E price \in Nat, worst \in Nat : Entry(b, price, worst)
  BY <1>4 DEF Entry, Honours, Inv, TradeInv
<1>5. CASE source = "tape"
  BY <1>5 DEF Honours
<1>6. CASE /\ source # "tape" /\ Open
           /\ \E give \in GiveBacks, timed \in BOOLEAN : Observe(b, historical, give, timed)
  <2>1. CASE source = "candles"
    BY <1>1, <1>2, <1>6, <2>1, ObserveHonours
  <2>2. CASE source # "candles"
    BY <2>2 DEF Honours
  <2>3. QED
    BY <2>1, <2>2
<1>7. QED
  BY <1>1, <1>2, <1>3, <1>4, <1>5, <1>6, OnBarDoes

LEMMA HonourInvNext ==
  ASSUME Inv, HonourInv, ~TrendExit, [Next]_vars
  PROVE  HonourInv'
<1>1. ASSUME Honours, source' = source PROVE HonourInv'
  BY <1>1 DEF Honours, HonourInv, Open
<1>0. Higher
  BY HigherNext
<1>2. CASE EndMinute
  BY <1>1, <1>2, EndMinuteHonours DEF EndMinute
<1>3. CASE OpenNow
  <2>1. last \in Nat /\ Stop < last /\ want # "none" /\ Enter(last, seen, last, last)
    BY <1>3 DEF OpenNow, Fits, Inv, CoverInv, Feed
  <2>2. Candle(seen) /\ seen.time <= minute /\ last \in Int
    BY <2>1 DEF Inv, TradeInv
  <2>3. Quiet \/ Entry(seen, last, last)
    BY <2>1, <2>2, EnterDoes
  <2>4. Honours
    BY <2>3 DEF Quiet, Entry, Open, Honours, Inv, TradeInv
  <2>5. QED
    BY <1>1, <1>3, <2>4 DEF OpenNow
<1>4. CASE GiveCandle
  BY <1>0, <1>1, <1>4, GiveCandleHonours, GiveCandleDoes
<1>5. ASSUME NEW p \in Prices, PrintUnheard(p) PROVE HonourInv'
  <2>1. Honours
    BY <1>5, UnheardHonours
  <2>2. QED
    BY <1>1, <1>5, <2>1 DEF PrintUnheard
<1>6. ASSUME NEW p \in Prices, PrintHeard(p) PROVE HonourInv'
  BY <1>6 DEF PrintHeard, HonourInv
<1>7. CASE TapeSilent
  BY <1>7 DEF TapeSilent, HonourInv, Open, history
<1>8. CASE OnMarkPrice
  BY <1>8 DEF OnMarkPrice, HonourInv
<1>9. CASE OnScriptExit
  BY <1>0, <1>1, <1>9, ScriptHonours, ScriptDoes
<1>10. CASE Restart
  BY <1>1, <1>10, RestartHonours DEF Restart
<1>11. CASE UNCHANGED vars
  BY <1>11 DEF vars, HonourInv, Open
<1>12. QED
  BY <1>2, <1>3, <1>4, <1>5, <1>6, <1>7, <1>8, <1>9, <1>10, <1>11 DEF Next

\* A book that was given every candle knows the one of the minute, and none of
\* them is still to come.
LEMMA CaughtUpNone ==
  ASSUME Inv, CaughtUp, NEW x, Candidate(x, due, bar)
  PROVE  ~Ahead(pos, x)
<1>1. due = <<>> /\ (bar = NoBar \/ pos.base = bar)
  BY DEF CaughtUp
<1>2. x = bar
  BY <1>1 DEF Candidate
<1>3. QED
  BY <1>1, <1>2 DEF Ahead

LEMMA HonourInvHonours == ASSUME Inv, HonourInv PROVE StopHonoured
BY CaughtUpNone DEF HonourInv, StopHonoured, Awaits

\* Once the book has been given every candle, every price at the stop that a
\* candle showed of a position still open is one that was lost, by a failed
\* write on the last candle of its minute or over a restart (applyLiveBar;
\* ~TrendExit: with it onBar skips the last save).
THEOREM StopHonouredHolds ==
  ASSUME ~TrendExit
  PROVE  Spec => []StopHonoured
<1>1. Init => Inv /\ HonourInv
  BY InvInit DEF Init, HonourInv
<1>2. Inv /\ HonourInv /\ [Next]_vars => (Inv /\ HonourInv)'
  BY InvNext, HonourInvNext
<1>3. Inv /\ HonourInv => StopHonoured
  BY HonourInvHonours
<1>4. QED
  BY <1>1, <1>2, <1>3, PTL DEF Spec

-----------------------------------------------------------------------------
(* No stop is taken by a price from before it                              *)

\* What the candles to come still show to position q is no worse than least,
\* but for a low of before its entry.
ShowNoWorse(q, d, c, least, old) ==
  \A x : Candidate(x, d, c) /\ Ahead(q, x) =>
    least <= x.close /\ (LowShown(q, x) => least <= x.worst \/ old <= x.worst)

EarnedInv ==
  source = "candles" =>
    /\ low \in Nat /\ before \in Nat
    /\ Open => ShowNoWorse(pos, due, bar, low, before)
    /\ pos.why = "stop" => pos.px <= pos.sl /\ (low <= pos.sl \/ before <= pos.sl)
Earns ==
  source = "candles" =>
    /\ low' \in Nat /\ before' \in Nat
    /\ pos'.status = "open" => ShowNoWorse(pos', due', bar', low', before')
    /\ pos'.why = "stop" => pos'.px <= pos'.sl /\ (low' <= pos'.sl \/ before' <= pos'.sl)

LEMMA MovedShows ==
  ASSUME NEW q, q.status = "open", q.sl # pos.sl, q.base.time \in Int, NEW price \in Nat, NEW d,
         NEW low1, NEW before1, NEW owed1, MovedTo(q, price, d, low1, before1, owed1),
         \A x : Candidate(x, d, bar) /\ x # NoBar => x \in Shown
  PROVE  low1 \in Nat /\ before1 \in Nat /\ ShowNoWorse(q, d, bar, low1, before1)
<1> DEFINE prices == {price} \cup {x.close : x \in News(q.base, d)}
                     \cup {x.worst : x \in NewLows(q.base, d)}
<1>1. low1 = CHOOSE p \in prices : \A o \in prices : p <= o
  BY DEF MovedTo
<1>2. \A x \in News(q.base, d) : Candidate(x, d, bar) /\ x # NoBar
  BY DEF News, Candidate
<1>3. \A x \in News(q.base, d) : x.close \in Nat /\ x.worst \in Nat
  BY <1>2 DEF Shown
<1>4. prices \subseteq Nat /\ price \in prices
  BY <1>3 DEF NewLows
<1>5. \E p \in prices : \A o \in prices : p <= o
  <2> HIDE DEF prices
  <2>1. QED
    BY <1>4, LeastNatural
<1>6. low1 \in prices /\ \A o \in prices : low1 <= o
  <2> HIDE DEF prices
  <2>1. QED
    BY <1>1, <1>5
<1>7. ASSUME NEW x, Candidate(x, d, bar), Ahead(q, x)
      PROVE  low1 <= x.close /\ (LowShown(q, x) => low1 <= x.worst)
  <2>1. x \in News(q.base, d)
    BY <1>7 DEF News, Candidate, Ahead
  <2>2. x.close \in prices
    BY <2>1
  <2>3. ASSUME LowShown(q, x) PROVE x.worst \in prices
    <3>1. x \in NewLows(q.base, d)
      BY <2>1, <2>3 DEF NewLows, LowShown
    <3>2. QED
      BY <3>1
  <2> HIDE DEF prices
  <2>4. QED
    BY <1>6, <2>2, <2>3
<1>8. low1 \in Nat /\ before1 \in Nat
  <2>1. before1 = Unseen
    BY DEF MovedTo
  <2> HIDE DEF prices
  <2>2. QED
    BY <1>4, <1>6, <2>1 DEF Unseen
<1>9. QED
  BY <1>7, <1>8 DEF ShowNoWorse

LEMMA ObserveEarns ==
  ASSUME Inv, EarnedInv, ~TrendExit, source = "candles", Open, bar' = bar,
         NEW b \in Shown, Given(b, due'), NEW historical \in BOOLEAN, NEW give \in GiveBacks,
         NEW timed \in BOOLEAN, Observe(b, historical, give, timed)
  PROVE  Earns
<1>1. b.time \in Nat /\ b.time <= minute /\ b.close \in Nat
  BY GivenTime DEF Shown
<1>2. Running(pos) /\ Dated(pos, minute) /\ low \in Nat /\ before \in Nat
      /\ ShowNoWorse(pos, due, bar, low, before)
  BY DEF Inv, TradeInv, EarnedInv
<1>3. CASE Undo
  <2>1. pos' = pos /\ low' = low /\ before' = before
    BY <1>3 DEF Undo, Inv, TradeInv
  <2>2. ShowNoWorse(pos, due', bar, low, before)
    BY <1>2, EarlierCandidate DEF ShowNoWorse
  <2>3. pos.why # "stop"
    BY <1>2 DEF Running
  <2>4. QED
    BY <1>2, <2>1, <2>2, <2>3 DEF Earns
<1>4. CASE Sees(pos, pos', b, on) /\ MovedTo(pos', b.close, due', low', before', owed')
  <2>1. CASE pos'.status = "open" /\ pos'.sl # pos.sl
    <3>1. Follows(pos, pos', minute)
      BY <1>1, <1>4, SeesFollows
    <3>2. pos'.base.time \in Int /\ pos'.why # "stop"
      BY <2>1, <3>1 DEF Follows, Dated, Candle
    <3>3. low' \in Nat /\ before' \in Nat /\ ShowNoWorse(pos', due', bar, low', before')
      BY <1>1, <1>4, <2>1, <3>2, MovedShows, LeftShown
    <3>4. QED
      BY <3>2, <3>3 DEF Earns
  <2>2. CASE pos'.status = "open" /\ pos'.sl = pos.sl
    <3>1. low' = low /\ before' = before
      BY <1>4, <2>2 DEF MovedTo
    <3>2. pos'.why # "stop"
      BY <1>1, <1>4, <2>2, SeesFollows DEF Follows
    <3>3. ASSUME NEW x, Candidate(x, due', bar), Ahead(pos', x)
          PROVE  low <= x.close /\ (LowShown(pos', x) => low <= x.worst \/ before <= x.worst)
      <4>1. Candidate(x, due, bar) /\ Ahead(pos, x) /\ (LowShown(pos', x) => LowShown(pos, x))
        BY <1>4, <2>2, <3>3, StillAhead
      <4>2. QED
        BY <1>2, <4>1 DEF ShowNoWorse
    <3>4. ShowNoWorse(pos', due', bar, low, before)
      BY <3>3 DEF ShowNoWorse
    <3>5. QED
      BY <1>2, <3>1, <3>2, <3>4 DEF Earns
  <2>3. CASE pos'.status # "open"
    <3>1. low' = low /\ before' = before
      BY <1>4, <2>3 DEF MovedTo
    <3>2. ASSUME pos'.why = "stop" PROVE pos'.px <= pos'.sl /\ (low <= pos'.sl \/ before <= pos'.sl)
      <4>1. ~Skips(pos, b)
        BY <1>2, <2>3, <3>2, <1>4 DEF Sees, Running
      <4>2. StopTaken(pos, pos', LowOf(pos, b))
        BY <1>4, <3>2, <4>1 DEF Sees, Outcome
      <4>3. Candidate(b, due, bar) /\ Ahead(pos, b)
        BY <1>2, <4>1, GivenCandidate, TakesFrom
      <4>4. LowOf(pos, b) \in {b.worst, b.close} /\ (low <= LowOf(pos, b) \/ before <= LowOf(pos, b))
        BY <1>2, <4>1, <4>3, TakesFrom DEF ShowNoWorse
      <4>5. b.worst \in Nat /\ b.close \in Nat /\ pos.sl \in Int
        BY <1>2 DEF Shown, Running, Sound, Numbers
      <4>6. low <= pos'.sl \/ before <= pos'.sl
        BY <1>2, <4>2, <4>4, <4>5 DEF StopTaken
      <4>7. QED
        BY <4>2, <4>6 DEF StopTaken
    <3>3. QED
      BY <1>2, <2>3, <3>1, <3>2 DEF Earns
  <2>4. QED
    BY <2>1, <2>2, <2>3
<1>5. QED
  BY <1>3, <1>4, ObserveSees

\* Only the candle of the minute can tell something to a position that was
\* entered in it, and of lows only those from before the entry.
LEMMA EntryEarns ==
  ASSUME Inv, EarnedInv, UNCHANGED <<source, bar>>, NEW b, Candle(b), NEW price \in Nat, NEW worst \in Nat,
         Entry(b, price, worst), NEW d, due' = d,
         \A x : Candidate(x, d, bar) => Candidate(x, due, bar)
  PROVE  Earns
<1>1. /\ low' = Lesser(last, worst) /\ Filled(pos', price, b, worst) /\ last \in Nat
      /\ low' \in Nat /\ low' <= last /\ low' <= worst
  BY DEF Entry, Inv, CoverInv, Feed, Lesser
<1>2. pos'.entered = minute /\ pos'.base = b /\ minute \in Nat
  BY <1>1 DEF Filled, Inv, CoverInv, Feed
<1>3. before' = Older(b) /\ before' \in Nat
  <2>1. bar.worst \in Nat
    BY DEF Inv, CoverInv, Feed, Shown, NoBar
  <2>2. QED
    BY <2>1 DEF Entry, Older, Unseen
<1>4. ASSUME NEW x, Candidate(x, d, bar), Ahead(pos', x)
      PROVE  low' <= x.close /\ (LowShown(pos', x) => before' <= x.worst)
  <2>1. Candidate(x, due, bar) /\ x # NoBar /\ x.time >= minute
    BY <1>2, <1>4 DEF Ahead
  <2>2. x = bar /\ x.time = minute /\ x.worst \in Nat
    <3>1. x.time \in Nat /\ x.time <= minute /\ (x.time = minute => x = bar) /\ x \in Shown
      BY <2>1, CandidateShown
    <3>2. QED
      BY <1>2, <2>1, <3>1 DEF Shown
  <2>3. x.close = last
    BY <2>1, <2>2 DEF Inv, CoverInv, Feed
  <2>4. ASSUME LowShown(pos', x) PROVE before' <= x.worst
    <3>1. b.time = minute /\ bar.worst < b.worst
      BY <1>2, <2>2, <2>4 DEF LowShown
    <3>2. QED
      BY <1>3, <2>2, <3>1 DEF Older
  <2>5. QED
    BY <1>1, <2>3, <2>4
<1>5. ShowNoWorse(pos', d, bar, low', before')
  BY <1>4 DEF ShowNoWorse
<1>6. ASSUME pos'.why = "stop" PROVE low' <= pos'.sl /\ pos'.px <= pos'.sl
  <2>1. StopTaken(pos', pos', worst)
    BY <1>1, <1>6 DEF Filled
  <2>2. pos'.sl \in Int
    BY <1>1, OpenPositionAssumption DEF Filled
  <2>3. QED
    BY <1>1, <2>1, <2>2 DEF StopTaken
<1>7. QED
  BY <1>1, <1>3, <1>5, <1>6 DEF Earns

\* Nothing that is not open was stopped out while an entry waits.
LEMMA QuietEarns ==
  ASSUME EarnedInv, Quiet, source' = source
  PROVE  Earns
BY DEF EarnedInv, Quiet, Open, Earns

LEMMA GiveCandleEarns ==
  ASSUME Inv, EarnedInv, ~TrendExit, GiveCandle
  PROVE  Earns
<1>1. PICK b \in Shown, historical \in BOOLEAN : Given(b, due') /\ OnBar(b, historical)
  BY GiveCandleDoes
<1>2. UNCHANGED <<source, minute, bar, last>> /\ b.time <= minute
  BY <1>1, GiveCandleDoes, GivenTime
<1>3. CASE Quiet
  BY <1>2, <1>3, QuietEarns
<1>4. ASSUME NEW price \in Nat, NEW worst \in Nat, Entry(b, price, worst) PROVE Earns
  <2>1. \A x : Candidate(x, due', bar) => Candidate(x, due, bar)
    BY <1>1, EarlierCandidate
  <2>2. Candle(b)
    BY DEF Shown, Candle
  <2>3. QED
    BY <1>2, <1>4, <2>1, <2>2, EntryEarns
<1>5. CASE source = "tape"
  BY <1>5 DEF Earns
<1>6. CASE /\ source # "tape" /\ Open
           /\ \E give \in GiveBacks, timed \in BOOLEAN : Observe(b, historical, give, timed)
  <2>1. CASE source = "candles"
    BY <1>1, <1>2, <1>6, <2>1, ObserveEarns
  <2>2. CASE source # "candles"
    BY <2>2 DEF Earns
  <2>3. QED
    BY <2>1, <2>2
<1>7. QED
  BY <1>1, <1>2, <1>3, <1>4, <1>5, <1>6, OnBarDoes

LEMMA OpenNowEarns ==
  ASSUME Inv, EarnedInv, OpenNow
  PROVE  Earns
<1>1. last \in Nat /\ Stop < last /\ want # "none" /\ Enter(last, seen, last, last)
  BY DEF OpenNow, Fits, Inv, CoverInv, Feed
<1>2. Candle(seen) /\ seen.time <= minute /\ last \in Int
  BY <1>1 DEF Inv, TradeInv
<1>3. Quiet \/ Entry(seen, last, last)
  BY <1>1, <1>2, EnterDoes
<1>4. UNCHANGED <<source, bar, due>>
  BY DEF OpenNow
<1>5. QED
  BY <1>1, <1>2, <1>3, <1>4, QuietEarns, EntryEarns

LEMMA UnheardEarns ==
  ASSUME Inv, EarnedInv, NEW p \in Prices, PrintUnheard(p)
  PROVE  Earns
<1>1. /\ UNCHANGED <<pos, due, source, before>> /\ Printed(p)
      /\ low' = (IF Open THEN Lesser(low, p) ELSE low)
  BY DEF PrintUnheard
<1>2. CASE source = "candles" /\ Open
  <2>1. /\ low \in Nat /\ before \in Nat /\ ShowNoWorse(pos, due, bar, low, before)
        /\ p \in Nat /\ pos.why # "stop"
    BY <1>2, OpenPositionAssumption DEF EarnedInv, Inv, TradeInv, Running
  <2>2. low' \in Nat /\ low' <= low /\ low' <= p
    BY <1>1, <1>2, <2>1 DEF Lesser
  <2>3. ASSUME NEW x, Candidate(x, due, bar'), Ahead(pos, x)
        PROVE  low' <= x.close /\ (LowShown(pos, x) => low' <= x.worst \/ before <= x.worst)
    <3>1. CASE x = bar'
      <4>1. /\ x.time = minute /\ x.close = p
            /\ x.worst = (IF bar = NoBar THEN p ELSE Lesser(bar.worst, p))
        BY <1>1, <3>1, PrintedBar
      <4>2. ASSUME LowShown(pos, x) PROVE low' <= x.worst \/ before <= x.worst
        <5>1. CASE x.worst = p
          BY <2>2, <5>1
        <5>2. CASE x.worst # p
          <6>1. bar # NoBar /\ x.worst = bar.worst
            BY <4>1, <5>2 DEF Lesser
          <6>2. bar.time = minute /\ bar.worst \in Nat
            BY <6>1 DEF Inv, CoverInv, Feed, Shown
          <6>3. LowShown(pos, bar)
            BY <4>1, <4>2, <6>1, <6>2 DEF LowShown
          <6>4. bar # pos.base
            <7>1. pos.base.time \in Int /\ pos.base.worst \in Int
              BY <1>2 DEF Inv, TradeInv, Dated, Candle
            <7>2. QED
              BY <6>2, <6>3, <7>1 DEF LowShown
          <6>5. Ahead(pos, bar)
            BY <2>3, <4>1, <6>1, <6>2, <6>4 DEF Ahead
          <6>6. low <= bar.worst \/ before <= bar.worst
            BY <2>1, <6>3, <6>5 DEF ShowNoWorse, Candidate
          <6>7. QED
            BY <2>1, <2>2, <6>1, <6>2, <6>6
        <5>3. QED
          BY <5>1, <5>2
      <4>3. QED
        BY <2>2, <4>1, <4>2
    <3>2. CASE \E i \in DOMAIN due : x = due[i]
      <4>1. Candidate(x, due, bar)
        BY <3>2 DEF Candidate
      <4>2. low <= x.close /\ (LowShown(pos, x) => low <= x.worst \/ before <= x.worst)
        BY <2>1, <2>3, <4>1 DEF ShowNoWorse
      <4>3. x.close \in Nat /\ x.worst \in Nat
        BY <2>3, <4>1, DueShown DEF Ahead, Shown
      <4>4. QED
        BY <2>1, <2>2, <4>2, <4>3
    <3>3. QED
      BY <2>3, <3>1, <3>2 DEF Candidate
  <2>4. ShowNoWorse(pos, due, bar', low', before)
    BY <2>3 DEF ShowNoWorse
  <2>5. QED
    BY <1>1, <2>1, <2>2, <2>4 DEF Earns
<1>3. CASE ~Open
  BY <1>1, <1>3 DEF EarnedInv, Earns, Open
<1>4. QED
  BY <1>2, <1>3 DEF Earns

LEMMA ScriptEarns ==
  ASSUME Inv, EarnedInv, OnScriptExit
  PROVE  Earns
<1>1. Open /\ UNCHANGED <<source, bar, due>> /\ Running(pos) /\ Dated(pos, minute) /\ last \in Nat
  BY ScriptDoes DEF Inv, TradeInv, CoverInv, Feed
<1>2. SUFFICES ASSUME source = "candles" PROVE Earns
  BY DEF Earns
<1>3. /\ low \in Nat /\ before \in Nat /\ ShowNoWorse(pos, due, bar, low, before)
      /\ pos.why # "stop"
  BY <1>1, <1>2 DEF EarnedInv, Running
<1>4. CASE Undo
  <2>1. pos' = pos /\ low' = low /\ before' = before
    BY <1>2, <1>4 DEF Undo, Inv, TradeInv
  <2>2. QED
    BY <1>1, <1>3, <2>1 DEF Earns
<1>5. CASE Selling(pos, pos') /\ MovedTo(pos', last, due, low', before', owed')
  <2>1. pos'.base = pos.base /\ pos'.entered = pos.entered /\ pos'.why # "stop"
    BY <1>3, <1>5 DEF Selling, Kin
  <2>2. CASE pos'.status = "open" /\ pos'.sl # pos.sl
    <3>1. pos'.base.time \in Int
      BY <1>1, <2>1 DEF Dated, Candle
    <3>2. low' \in Nat /\ before' \in Nat /\ ShowNoWorse(pos', due, bar, low', before')
      BY <1>1, <1>5, <2>2, <3>1, MovedShows, DueShown
    <3>3. QED
      BY <1>1, <2>1, <3>2 DEF Earns
  <2>3. CASE ~(pos'.status = "open" /\ pos'.sl # pos.sl)
    <3>1. low' = low /\ before' = before
      BY <1>5, <2>3 DEF MovedTo
    <3>2. ShowNoWorse(pos', due, bar, low, before)
      BY <1>3, <2>1 DEF ShowNoWorse, Ahead, LowShown
    <3>3. QED
      BY <1>1, <1>3, <2>1, <3>1, <3>2 DEF Earns
  <2>4. QED
    BY <2>2, <2>3
<1>6. QED
  BY <1>4, <1>5, ScriptDoes

LEMMA RestartEarns ==
  ASSUME Inv, EarnedInv, Restart
  PROVE  Earns
<1>1. pos' = row /\ UNCHANGED <<low, before>> /\ due' = <<>> /\ bar' = bar /\ source' = source
  BY DEF Restart
<1>2. source = "candles" => row = pos
  BY DEF Inv, TradeInv
<1>3. \A x : Candidate(x, <<>>, bar) => Candidate(x, due, bar)
  BY DEF Candidate
<1>4. QED
  BY <1>1, <1>2, <1>3 DEF EarnedInv, Open, ShowNoWorse, Earns

LEMMA EndMinuteEarns ==
  ASSUME Inv, EarnedInv, EndMinute
  PROVE  Earns
<1>1. UNCHANGED <<pos, low, before, source>>
  BY DEF EndMinute, history
<1>2. \A x : Candidate(x, due', bar') /\ x # NoBar => Candidate(x, due, bar)
  BY EndedCandidate
<1>3. QED
  BY <1>1, <1>2 DEF EarnedInv, Open, ShowNoWorse, Ahead, Earns

LEMMA EarnedInvNext ==
  ASSUME Inv, EarnedInv, ~TrendExit, [Next]_vars
  PROVE  EarnedInv'
<1>1. ASSUME Earns, source' = source PROVE EarnedInv'
  BY <1>1 DEF Earns, EarnedInv, Open
<1>2. CASE EndMinute
  BY <1>1, <1>2, EndMinuteEarns DEF EndMinute
<1>3. CASE OpenNow
  BY <1>1, <1>3, OpenNowEarns DEF OpenNow
<1>4. CASE GiveCandle
  BY <1>1, <1>4, GiveCandleEarns, GiveCandleDoes
<1>5. ASSUME NEW p \in Prices, PrintUnheard(p) PROVE EarnedInv'
  <2>1. Earns
    BY <1>5, UnheardEarns
  <2>2. QED
    BY <1>1, <1>5, <2>1 DEF PrintUnheard
<1>6. ASSUME NEW p \in Prices, PrintHeard(p) PROVE EarnedInv'
  BY <1>6 DEF PrintHeard, EarnedInv
<1>7. CASE TapeSilent
  BY <1>7 DEF TapeSilent, EarnedInv, Open, history
<1>8. CASE OnMarkPrice
  BY <1>8 DEF OnMarkPrice, EarnedInv
<1>9. CASE OnScriptExit
  BY <1>1, <1>9, ScriptEarns, ScriptDoes
<1>10. CASE Restart
  BY <1>1, <1>10, RestartEarns DEF Restart
<1>11. CASE UNCHANGED vars
  BY <1>11 DEF vars, EarnedInv, Open
<1>12. QED
  BY <1>2, <1>3, <1>4, <1>5, <1>6, <1>7, <1>8, <1>9, <1>10, <1>11 DEF Next

LEMMA EarnedInvInit == ASSUME Init PROVE EarnedInv
<1>1. pos.status = "none" /\ pos.why = "none" /\ low \in Nat /\ before \in Nat
  BY DEF Init, NoPosition, Opened, Unseen
<1>2. QED
  BY <1>1 DEF EarnedInv, Open

\* Where the candles decide, a position is stopped out only by a price printed
\* while the stop stood where it stands, and at no better one, but for the lows
\* that an entry at the mark did not know of the candle of its own minute
\* (applyLiveBar; ~TrendExit: with it onBar skips the last save).
THEOREM StopEarnedHolds ==
  ASSUME ~TrendExit
  PROVE  Spec => []StopEarned
<1>1. Init => Inv /\ EarnedInv
  BY InvInit, EarnedInvInit
<1>2. Inv /\ EarnedInv /\ [Next]_vars => (Inv /\ EarnedInv)'
  BY InvNext, EarnedInvNext
<1>3. EarnedInv => StopEarned
  BY DEF EarnedInv, StopEarned
<1>4. QED
  BY <1>1, <1>2, <1>3, PTL DEF Spec

-----------------------------------------------------------------------------
(* The floor                                                               *)

FloorDue(q, best) == ~q.armed /\ ~q.trailOff /\ best >= q.entry + FloorAt
Floored(q) == q.sl >= q.entry + FloorKeep
\* A candle still to come, the one of its minute, shows as good a price, and
\* the position has not been shown it.
Promises(q, d, c, o) ==
  /\ o[1] = q.base.time => o[2] > q.base.best
  /\ \E x : /\ Candidate(x, d, c) /\ Ahead(q, x) /\ HighShown(q, x)
            /\ x.best >= o[2] /\ x.time = o[1]

FloorInv ==
  /\ \A o \in shown : o[2] \in Nat
  /\ Open => \A o \in shown \ lost : FloorDue(pos, o[2]) =>
       Floored(pos) \/ (source = "candles" /\ Promises(pos, due, bar, o))
Floors ==
  /\ \A o \in shown' : o[2] \in Nat
  /\ pos'.status = "open" => \A o \in shown' \ lost' : FloorDue(pos', o[2]) =>
       Floored(pos') \/ (source = "candles" /\ Promises(pos', due', bar', o))

LEMMA HigherFloored ==
  ASSUME Inv, Open, Higher, pos'.status = "open", pos'.entry = pos.entry, Floored(pos)
  PROVE  Floored(pos')
<1>1. pos.sl \in Int /\ pos.entry \in Int /\ FloorKeep \in Nat
  BY PositionLogicAssumption DEF Inv, TradeInv, Running, Sound, Numbers
<1>2. QED
  BY <1>1 DEF Higher, Floored

LEMMA EntryFloors ==
  ASSUME Inv, FloorInv, NEW b, NEW price \in Nat, NEW worst, Entry(b, price, worst)
  PROVE  Floors
BY DEF Entry, Floors, Inv, TradeInv

LEMMA QuietFloors ==
  ASSUME FloorInv, Quiet
  PROVE  Floors
BY DEF Quiet, FloorInv, Floors, Open

\* Back to its row, a position keeps its protection, and where candles decide
\* what is to come for it.
LEMMA ReturnFloors ==
  ASSUME Inv, FloorInv, Open, pos' = row, shown' = shown, lost \subseteq lost',
         source = "candles" => \A o \in shown \ lost' : Promises(pos, due, bar, o) => Promises(row, due', bar', o)
  PROVE  Floors
<1>1. SameProtection(pos, row)
  BY DEF Inv, TradeInv
<1>2. \A o \in shown : FloorDue(row, o[2]) => FloorDue(pos, o[2])
  BY <1>1 DEF FloorDue, SameProtection
<1>3. Floored(pos) => Floored(row)
  BY <1>1 DEF Floored, SameProtection
<1>4. QED
  BY <1>1, <1>2, <1>3 DEF FloorInv, Floors

LEMMA ObserveFloors ==
  ASSUME Inv, FloorInv, ~TrendExit, Higher, Open, bar' = bar,
         NEW b \in Shown, Given(b, due'), NEW historical \in BOOLEAN, NEW give \in GiveBacks,
         NEW timed \in BOOLEAN, Observe(b, historical, give, timed)
  PROVE  Floors
<1>1. b.time \in Nat /\ b.time <= minute
  BY GivenTime
<1>2. Running(pos) /\ Dated(pos, minute)
  BY DEF Inv, TradeInv
<1>3. CASE /\ Undo /\ shown' = shown
           /\ lost' = IF b.time = bar.time THEN lost ELSE lost \cup Lost(row.base, {b.time})
  <2>1. pos' = row /\ lost \subseteq lost'
    BY <1>3 DEF Undo
  <2>2. ASSUME source = "candles", NEW o \in shown \ lost', Promises(pos, due, bar, o)
        PROVE  Promises(row, due', bar', o)
    <3>1. row = pos
      BY <2>2 DEF Inv, TradeInv
    <3>2. CASE b.time = bar.time
      BY <2>2, <3>1, <3>2, GivenRunning
    <3>3. CASE b.time # bar.time
      <4>1. PICK x : /\ Candidate(x, due, bar) /\ Ahead(pos, x) /\ HighShown(pos, x)
                     /\ x.best >= o[2] /\ x.time = o[1]
        BY <2>2 DEF Promises
      <4>2. o[1] = pos.base.time => o[2] > pos.base.best
        BY <2>2 DEF Promises
      <4>3. o[1] # b.time
        <5>1. SUFFICES ASSUME o[1] = b.time PROVE FALSE
          OBVIOUS
        <5>2. o[1] >= row.base.time
          BY <3>1, <4>1 DEF Ahead
        <5>3. o \in Lost(row.base, {b.time})
          BY <2>2, <3>1, <4>2, <5>1, <5>2, GoneIsLost
        <5>4. QED
          BY <1>3, <2>2, <3>3, <5>3
      <4>4. x # b /\ x # NoBar
        BY <4>1, <4>3 DEF Ahead
      <4>5. Candidate(x, due', bar)
        BY <4>1, <4>4, LaterCandidate
      <4>6. QED
        BY <3>1, <4>1, <4>2, <4>5 DEF Promises
    <3>4. QED
      BY <3>2, <3>3
  <2>3. QED
    BY <1>3, <2>1, <2>2, ReturnFloors
<1>4. CASE Sees(pos, pos', b, on) /\ shown' = shown /\ lost' = lost
  <2>1. SUFFICES ASSUME pos'.status = "open", NEW o \in shown \ lost, FloorDue(pos', o[2])
                 PROVE  Floored(pos') \/ (source = "candles" /\ Promises(pos', due', bar, o))
    BY <1>4 DEF FloorInv, Floors
  <2>2. ASSUME NEW x, Candidate(x, due, bar), Ahead(pos, x), HighShown(pos, x), x.best >= o[2],
               x.time = o[1], x # b, Promises(pos, due, bar, o)
        PROVE  Promises(pos', due', bar, o)
    <3>1. Candidate(x, due', bar) /\ Ahead(pos', x) /\ HighShown(pos', x)
      BY <1>4, <2>1, <2>2, StaysAhead
    <3>2. o[1] = pos'.base.time => o[2] > pos'.base.best
      <4>1. CASE pos'.base = pos.base
        BY <2>2, <4>1 DEF Promises
      <4>2. CASE pos'.base # pos.base
        <5>1. pos'.base = b
          BY <1>4, <2>1, <4>2 DEF Sees
        <5>2. x.time > b.time /\ x.time \in Nat
          BY <1>1, <2>2, LaterCandidate, CandidateShown DEF Ahead
        <5>3. QED
          BY <1>1, <2>2, <5>1, <5>2
      <4>3. QED
        BY <4>1, <4>2
    <3>3. QED
      BY <2>2, <3>1, <3>2 DEF Promises
  <2>3. CASE Skips(pos, b)
    <3>1. pos' = pos
      BY <1>4, <2>1, <2>3 DEF Sees
    <3>2. ASSUME NEW x, Candidate(x, due, bar), Ahead(pos, x), HighShown(pos, x) PROVE x # b
      BY <1>2, <2>3, <3>2, TakesFrom
    <3>3. Floored(pos) \/ (source = "candles" /\ Promises(pos, due, bar, o))
      BY <2>1, <3>1 DEF FloorInv
    <3>4. ASSUME Promises(pos, due, bar, o) PROVE Promises(pos', due', bar, o)
      <4>1. PICK x : /\ Candidate(x, due, bar) /\ Ahead(pos, x) /\ HighShown(pos, x)
                     /\ x.best >= o[2] /\ x.time = o[1]
        BY <3>4 DEF Promises
      <4>2. QED
        BY <2>2, <3>2, <3>4, <4>1
    <3>5. QED
      BY <3>1, <3>3, <3>4
  <2>4. CASE ~Skips(pos, b)
    <3>1. /\ pos'.entry = pos.entry /\ pos'.trailOff = ~on
          /\ pos'.armed = (pos.armed \/ (on /\ pos.trailOff))
          /\ on /\ ~pos'.armed /\ HighOf(pos, b) - pos.entry >= FloorAt => pos'.sl >= pos'.entry + FloorKeep
      BY <1>4, <2>1, <2>4 DEF Sees, Outcome, Survives
    <3>2. on /\ ~pos'.armed /\ FloorDue(pos, o[2])
      BY <1>2, <2>1, <3>1 DEF FloorDue, Running
    <3>3. CASE Floored(pos)
      BY <2>1, <3>1, <3>3, HigherFloored
    <3>4. CASE source = "candles" /\ Promises(pos, due, bar, o)
      <4>1. PICK x : /\ Candidate(x, due, bar) /\ Ahead(pos, x) /\ HighShown(pos, x)
                     /\ x.best >= o[2] /\ x.time = o[1]
        BY <3>4 DEF Promises
      <4>2. CASE x # b
        BY <2>2, <3>4, <4>1, <4>2
      <4>3. CASE x = b
        <5>1. HighOf(pos, b) = b.best
          BY <1>2, <2>4, <4>1, <4>3, TakesFrom
        <5>2. pos.entry \in Int /\ b.best \in Int /\ FloorAt \in Nat /\ o[2] \in Nat
          BY <1>2, PositionLogicAssumption DEF Running, Sound, Numbers, Shown, FloorInv
        <5>3. b.best - pos.entry >= FloorAt
          BY <3>2, <4>1, <4>3, <5>2 DEF FloorDue
        <5>4. QED
          BY <3>1, <3>2, <5>1, <5>3 DEF Floored
      <4>4. QED
        BY <4>2, <4>3
    <3>5. QED
      BY <3>2, <3>3, <3>4 DEF FloorInv
  <2>5. QED
    BY <2>3, <2>4
<1>5. QED
  BY <1>3, <1>4, ObserveSees

LEMMA RebaseFloors ==
  ASSUME Inv, FloorInv, source = "tape", Open, NEW b, Rebase(b)
  PROVE  Floors
<1> DEFINE n == [pos EXCEPT !.base = b]
<1>1. pos' = n /\ shown' = shown /\ lost' = lost
  BY DEF Rebase, history
<1>2. n.sl = pos.sl /\ n.entry = pos.entry /\ n.armed = pos.armed /\ n.trailOff = pos.trailOff
  BY DEF Inv, TradeInv, Running, Sound, Fields
<1> HIDE DEF n
<1>3. \A o \in shown : FloorDue(n, o[2]) => FloorDue(pos, o[2])
  BY <1>2 DEF FloorDue
<1>4. Floored(pos) => Floored(n)
  BY <1>2 DEF Floored
<1>5. QED
  BY <1>1, <1>3, <1>4 DEF FloorInv, Floors

LEMMA GiveCandleFloors ==
  ASSUME Inv, FloorInv, ~TrendExit, Higher, GiveCandle
  PROVE  Floors
<1>1. PICK b \in Shown, historical \in BOOLEAN : Given(b, due') /\ OnBar(b, historical)
  BY GiveCandleDoes
<1>2. UNCHANGED <<source, minute, bar, last>> /\ b.time <= minute
  BY <1>1, GiveCandleDoes, GivenTime
<1>3. CASE Quiet
  BY <1>3, QuietFloors
<1>4. ASSUME NEW price \in Nat, NEW worst \in Nat, Entry(b, price, worst) PROVE Floors
  BY <1>4, EntryFloors
<1>5. CASE source = "tape" /\ Open /\ Rebase(b)
  BY <1>5, RebaseFloors
<1>6. CASE Open /\ \E give \in GiveBacks, timed \in BOOLEAN : Observe(b, historical, give, timed)
  BY <1>1, <1>2, <1>6, ObserveFloors
<1>7. QED
  BY <1>1, <1>2, <1>3, <1>4, <1>5, <1>6, OnBarDoes

LEMMA OpenNowFloors ==
  ASSUME Inv, FloorInv, OpenNow
  PROVE  Floors
<1>1. last \in Nat /\ Stop < last /\ want # "none" /\ Enter(last, seen, last, last)
  BY DEF OpenNow, Fits, Inv, CoverInv, Feed
<1>2. Candle(seen) /\ seen.time <= minute /\ last \in Int
  BY <1>1 DEF Inv, TradeInv
<1>3. Quiet \/ Entry(seen, last, last)
  BY <1>1, <1>2, EnterDoes
<1>4. QED
  BY <1>1, <1>3, QuietFloors, EntryFloors

LEMMA UnheardFloors ==
  ASSUME Inv, FloorInv, NEW p \in Prices, PrintUnheard(p)
  PROVE  Floors
<1>1. /\ UNCHANGED <<pos, due, lost>> /\ Printed(p) /\ p \in Nat
      /\ shown' = IF Open /\ on /\ source = "candles" /\ ShowsHigh(p) THEN shown \cup {<<minute, p>>} ELSE shown
  BY OpenPositionAssumption DEF PrintUnheard
<1>2. \A o \in shown' : o[2] \in Nat
  BY <1>1 DEF FloorInv
<1>3. SUFFICES ASSUME Open, NEW o \in shown' \ lost, FloorDue(pos, o[2]), ~Floored(pos)
               PROVE  source = "candles" /\ Promises(pos, due', bar', o)
  BY <1>1, <1>2 DEF Floors, Open
<1>4. CASE o \in shown
  <2>1. source = "candles" /\ Promises(pos, due, bar, o) /\ o[2] \in Nat
    BY <1>3, <1>4 DEF FloorInv
  <2>2. PICK x : /\ Candidate(x, due, bar) /\ Ahead(pos, x) /\ HighShown(pos, x)
                 /\ x.best >= o[2] /\ x.time = o[1]
    BY <2>1 DEF Promises
  <2>3. PICK y : /\ Candidate(y, due', bar') /\ Ahead(pos, y) /\ HighShown(pos, y)
                 /\ y.best >= x.best /\ y.time = x.time
    BY <1>1, <1>3, <2>2, GrownAhead
  <2>4. x.best \in Nat
    BY <2>2, DueShown DEF Ahead, Shown
  <2>5. y.best \in Nat
    <3>1. y \in Shown
      <4>1. CASE y = bar'
        BY <1>1, <4>1, PrintedBar
      <4>2. CASE \E i \in DOMAIN due : y = due[i]
        BY <4>2 DEF Inv, CoverInv, Feed
      <4>3. QED
        BY <1>1, <2>3, <4>1, <4>2 DEF Candidate
    <3>2. QED
      BY <3>1 DEF Shown
  <2>6. y.best >= o[2]
    BY <2>1, <2>2, <2>3, <2>4, <2>5
  <2>7. o[1] = pos.base.time => o[2] > pos.base.best
    BY <2>1 DEF Promises
  <2>8. QED
    BY <2>1, <2>2, <2>3, <2>6, <2>7 DEF Promises
<1>5. CASE source = "candles" /\ ShowsHigh(p) /\ o = <<minute, p>>
  <2>1. /\ Candidate(bar', due', bar') /\ Ahead(pos, bar') /\ HighShown(pos, bar')
        /\ bar'.best >= p /\ bar'.time = minute
    BY <1>1, <1>3, <1>5, ShowsAhead, PrintedBar
  <2>2. o[1] = minute /\ o[2] = p
    BY <1>5
  <2>3. o[1] = pos.base.time => o[2] > pos.base.best
    BY <1>5, <2>2 DEF ShowsHigh
  <2>4. QED
    BY <1>5, <2>1, <2>2, <2>3 DEF Promises
<1>6. QED
  BY <1>1, <1>3, <1>4, <1>5

LEMMA PrintHeardFloors ==
  ASSUME Inv, FloorInv, Higher, NEW p \in Prices, PrintHeard(p)
  PROVE  Floors
<1>1. /\ p \in Nat /\ p \in Int /\ Limit \in Nat /\ Stop < Limit
      /\ Candle(seen) /\ seen.time <= minute /\ source = "tape"
  BY OpenPositionAssumption DEF Inv, TradeInv, FloorInv, PrintHeard
<1>2. CASE Awaited(p) /\ EnterOnTrade(p)
  <2>1. want \in {"limit", "market"} /\ want # "none" /\ ~Open
    BY <1>2 DEF Awaited, Inv, TradeInv, Open, NoPosition, Opened
  <2>2. CASE Enter(Limit, seen, p, p)
    <3>1. Quiet \/ Entry(seen, Limit, p)
      BY <1>1, <2>1, <2>2, EnterDoes
    <3>2. QED
      BY <1>1, <3>1, QuietFloors, EntryFloors
  <2>3. CASE Fits(p) /\ Enter(p, seen, p, p)
    <3>1. Quiet \/ Entry(seen, p, p)
      BY <1>1, <2>1, <2>3, EnterDoes DEF Fits
    <3>2. QED
      BY <1>1, <3>1, QuietFloors, EntryFloors
  <2>4. CASE Lapse
    BY <2>1, <2>4, QuietFloors DEF Lapse, Quiet, history
  <2>5. QED
    BY <1>2, <2>1, <2>2, <2>3, <2>4 DEF EnterOnTrade
<1>3. CASE Open /\ \E give \in GiveBacks, timed \in BOOLEAN : OnTrade(p, give, timed)
  <2>1. PICK give \in GiveBacks, timed \in BOOLEAN : OnTrade(p, give, timed)
    BY <1>3
  <2>2. shown' = IF on THEN shown \cup {<<minute, p>>} ELSE shown
    BY <1>1, <1>3, <2>1, OnTradeSees
  <2>3. \A o \in shown' : o[2] \in Nat
    BY <1>1, <2>2 DEF FloorInv
  <2>4. CASE Undo /\ lost' = lost \cup {<<minute, p>>}
    <3>1. pos' = row
      BY <2>4 DEF Undo
    <3>2. SameProtection(pos, row)
      BY <1>3 DEF Inv, TradeInv
    <3>3. /\ \A o \in shown : FloorDue(row, o[2]) => FloorDue(pos, o[2])
          /\ Floored(pos) => Floored(row)
      BY <3>2 DEF FloorDue, Floored, SameProtection
    <3>4. shown' \ lost' \subseteq shown \ lost
      BY <2>2, <2>4
    <3>5. QED
      BY <1>1, <1>3, <2>3, <3>1, <3>3, <3>4 DEF FloorInv, Floors
  <2>5. CASE Outcome(pos, pos', p, p, on) /\ lost' = lost \ {<<minute, p>>}
    <3>1. SUFFICES ASSUME pos'.status = "open", NEW o \in shown' \ lost', FloorDue(pos', o[2])
                   PROVE  Floored(pos')
      BY <2>3 DEF Floors
    <3>2. /\ pos'.entry = pos.entry /\ pos'.trailOff = ~on
          /\ pos'.armed = (pos.armed \/ (on /\ pos.trailOff))
          /\ on /\ ~pos'.armed /\ p - pos.entry >= FloorAt => pos'.sl >= pos'.entry + FloorKeep
      BY <2>5, <3>1 DEF Outcome, Survives
    <3>3. on /\ ~pos'.armed /\ ~pos.armed /\ ~pos.trailOff
      BY <1>3, <3>1, <3>2 DEF FloorDue, Inv, TradeInv, Running
    <3>4. CASE o = <<minute, p>>
      <4>1. pos.entry \in Int /\ FloorAt \in Nat /\ o[2] = p
        BY <1>3, <3>4, PositionLogicAssumption DEF Inv, TradeInv, Running, Sound, Numbers
      <4>2. p - pos.entry >= FloorAt
        BY <1>1, <3>1, <3>2, <4>1 DEF FloorDue
      <4>3. QED
        BY <3>2, <3>3, <4>2 DEF Floored
    <3>5. CASE o # <<minute, p>>
      <4>1. o \in shown \ lost
        BY <2>2, <2>5, <3>1, <3>5
      <4>2. FloorDue(pos, o[2])
        BY <3>1, <3>2, <3>3 DEF FloorDue
      <4>3. Floored(pos)
        BY <1>1, <1>3, <4>1, <4>2 DEF FloorInv
      <4>4. QED
        BY <1>3, <3>1, <3>2, <4>3, HigherFloored
    <3>6. QED
      BY <3>4, <3>5
  <2>6. QED
    BY <1>1, <1>3, <2>1, <2>4, <2>5, OnTradeSees
<1>4. CASE ~Open /\ UNCHANGED <<want, on, pos, row, trouble, history>>
  BY <1>4, QuietFloors DEF Quiet, history
<1>5. QED
  BY <1>2, <1>3, <1>4 DEF PrintHeard

LEMMA OrderFloors ==
  ASSUME Inv, FloorInv, Higher, OnMarkPrice \/ OnScriptExit
  PROVE  Floors
<1>1. Open /\ UNCHANGED <<source, bar, due, shown, lost>>
  BY OrderSells
<1>2. CASE Undo
  <2>1. pos' = row
    BY <1>2 DEF Undo
  <2>2. source = "candles" => row = pos
    BY DEF Inv, TradeInv
  <2>3. QED
    BY <1>1, <2>1, <2>2, ReturnFloors
<1>3. CASE Selling(pos, pos')
  <2>1. /\ pos'.base = pos.base /\ pos'.entered = pos.entered /\ pos'.entry = pos.entry
        /\ pos'.armed = pos.armed /\ pos'.trailOff = pos.trailOff
    BY <1>3 DEF Selling, Kin
  <2>2. SUFFICES ASSUME pos'.status = "open", NEW o \in shown \ lost, FloorDue(pos', o[2])
                 PROVE  Floored(pos') \/ (source = "candles" /\ Promises(pos', due, bar, o))
    BY <1>1 DEF FloorInv, Floors
  <2>3. FloorDue(pos, o[2])
    BY <2>1, <2>2 DEF FloorDue
  <2>4. CASE Floored(pos)
    BY <1>1, <2>1, <2>2, <2>4, HigherFloored
  <2>5. CASE source = "candles" /\ Promises(pos, due, bar, o)
    BY <2>1, <2>5 DEF Promises, Ahead, HighShown
  <2>6. QED
    BY <1>1, <2>2, <2>3, <2>4, <2>5 DEF FloorInv
<1>4. QED
  BY <1>2, <1>3, OrderSells

LEMMA RestartFloors ==
  ASSUME Inv, FloorInv, Open \/ want # "none", Restart
  PROVE  Floors
<1>1. /\ pos' = row /\ bar' = bar /\ due' = <<>> /\ shown' = shown
      /\ lost' = lost \cup Lost(row.base, {due[i].time : i \in DOMAIN due})
  BY DEF Restart
<1>2. CASE Open
  <2>1. ASSUME source = "candles", NEW o \in shown \ lost', Promises(pos, due, bar, o)
        PROVE  Promises(row, <<>>, bar, o)
    <3>1. row = pos
      BY <2>1 DEF Inv, TradeInv
    <3>2. o[1] = pos.base.time => o[2] > pos.base.best
      BY <2>1 DEF Promises
    <3>3. PICK x : /\ Candidate(x, due, bar) /\ Ahead(pos, x) /\ HighShown(pos, x)
                   /\ x.best >= o[2] /\ x.time = o[1]
      BY <2>1 DEF Promises
    <3>4. ASSUME NEW i \in DOMAIN due, x = due[i] PROVE FALSE
      <4>1. o[1] \in {due[j].time : j \in DOMAIN due}
        BY <3>3, <3>4
      <4>2. o[1] >= row.base.time
        BY <3>1, <3>3 DEF Ahead
      <4>3. o \in Lost(row.base, {due[j].time : j \in DOMAIN due})
        BY <2>1, <3>1, <3>2, <4>1, <4>2, GoneIsLost
      <4>4. QED
        BY <1>1, <2>1, <4>3
    <3>5. x = bar
      BY <3>3, <3>4 DEF Candidate
    <3>6. QED
      BY <3>1, <3>2, <3>3, <3>5 DEF Promises, Candidate
  <2>2. lost \subseteq lost'
    BY <1>1
  <2>3. QED
    BY <1>1, <1>2, <2>1, <2>2, ReturnFloors
<1>3. CASE want # "none"
  <2>1. row.status = "none"
    BY <1>3 DEF Inv, TradeInv, NoPosition, Opened
  <2>2. QED
    BY <1>1, <2>1 DEF FloorInv, Floors
<1>4. QED
  BY <1>2, <1>3

LEMMA EndMinuteFloors ==
  ASSUME Inv, FloorInv, EndMinute
  PROVE  Floors
<1>1. UNCHANGED <<pos, shown, lost>>
  BY DEF EndMinute, history
<1>2. \A x : Candidate(x, due, bar) /\ x # NoBar => Candidate(x, due', bar')
  BY EndedCandidate
<1>3. QED
  BY <1>1, <1>2 DEF FloorInv, Open, Promises, Ahead, Floors

LEMMA FloorInvNext ==
  ASSUME Inv, FloorInv, ~TrendExit, [Next]_vars
  PROVE  FloorInv'
<1>1. ASSUME Floors, source' = source PROVE FloorInv'
  BY <1>1 DEF Floors, FloorInv, Open
<1>2. Higher
  BY HigherNext
<1>3. CASE EndMinute
  BY <1>1, <1>3, EndMinuteFloors DEF EndMinute
<1>4. CASE OpenNow
  BY <1>1, <1>4, OpenNowFloors DEF OpenNow
<1>5. CASE GiveCandle
  BY <1>1, <1>2, <1>5, GiveCandleFloors, GiveCandleDoes
<1>6. ASSUME NEW p \in Prices, PrintUnheard(p) PROVE FloorInv'
  <2>1. Floors
    BY <1>6, UnheardFloors
  <2>2. QED
    BY <1>1, <1>6, <2>1 DEF PrintUnheard
<1>7. ASSUME NEW p \in Prices, PrintHeard(p) PROVE FloorInv'
  <2>1. Floors
    BY <1>2, <1>7, PrintHeardFloors
  <2>2. QED
    BY <1>1, <1>7, <2>1 DEF PrintHeard
<1>8. CASE TapeSilent
  BY <1>8 DEF TapeSilent, FloorInv, Open, history
<1>9. CASE OnMarkPrice \/ OnScriptExit
  BY <1>1, <1>2, <1>9, OrderFloors, OrderSells
<1>10. CASE Restart /\ (Open \/ want # "none")
  BY <1>1, <1>10, RestartFloors DEF Restart
<1>11. CASE UNCHANGED vars
  BY <1>11 DEF vars, FloorInv, Open
<1>12. QED
  BY <1>3, <1>4, <1>5, <1>6, <1>7, <1>8, <1>9, <1>10, <1>11 DEF Next

LEMMA FloorInvInit == ASSUME Init PROVE FloorInv
<1>1. pos.status = "none" /\ shown = {}
  BY DEF Init, NoPosition, Opened
<1>2. QED
  BY <1>1 DEF FloorInv, Open

LEMMA FloorInvKeeps == ASSUME Inv, FloorInv PROVE FloorKept
<1>1. SUFFICES ASSUME Open, ~pos.armed, ~pos.trailOff, source = "candles" => CaughtUp,
                      NEW o \in shown \ lost, o[2] >= pos.entry + FloorAt
               PROVE  Floored(pos)
  BY DEF FloorKept, Floored
<1>2. source = "candles" => ~Promises(pos, due, bar, o)
  BY <1>1, CaughtUpNone DEF Promises
<1>3. QED
  BY <1>1, <1>2 DEF FloorInv, FloorDue

\* Once the market has shown the profit that arms the floor, the stop keeps
\* the floor, through late candles and settings that are switched off and on,
\* but for prices that were lost: the print, or the last candle of a minute,
\* whose fill's write failed, and minutes that ended while the process was down
\* (trailStop; ~TrendExit: with it onBar skips the last save).
THEOREM FloorKeptHolds ==
  ASSUME ~TrendExit
  PROVE  Spec => []FloorKept
<1>1. Init => Inv /\ FloorInv
  BY InvInit, FloorInvInit
<1>2. Inv /\ FloorInv /\ [Next]_vars => (Inv /\ FloorInv)'
  BY InvNext, FloorInvNext
<1>3. Inv /\ FloorInv => FloorKept
  BY FloorInvKeeps
<1>4. QED
  BY <1>1, <1>2, <1>3, PTL DEF Spec
=============================================================================
