--------------------------- MODULE PositionLogic ---------------------------
(***************************************************************************)
(* What one observed price does to a position: server/src/paper/logic.ts,  *)
(* shared by the live books and the backtester.                            *)
(*                                                                         *)
(* Prices are whole ticks counted in the position's favour: for a long the *)
(* best price of a candle is its high and the worst its low, for a short   *)
(* the low and the high.  A distance the code measures in R is counted in  *)
(* ticks too (one position has one risk distance).  Fees, slippage and     *)
(* profit are left out, so a fill is its reference price.                  *)
(***************************************************************************)
EXTENDS Integers, Sequences, FiniteSets

CONSTANTS
  FloorAt, FloorKeep,   \* once this far in profit, the stop keeps this much
  TrailAfter,           \* the trail takes over this far in profit
  GiveBacks,            \* what the trail may give back of the peak: by size,
                        \* by time since the peak, or a multiple of the ATR
  Split                 \* tenths of the position each target sells

\* The sum of a sequence of numbers.
Total(f) == LET sum[n \in 0..Len(f)] == IF n = 0 THEN 0 ELSE sum[n - 1] + f[n]
            IN  sum[Len(f)]

\* config.ts: the fractions of tpSplit sum to one.
ASSUME PositionLogicAssumption ==
  /\ {FloorAt, FloorKeep, TrailAfter} \subseteq Nat /\ FloorKeep < FloorAt
  /\ GiveBacks \subseteq Nat
  /\ Split \in Seq(Nat) /\ Total(Split) = 10

\* A candle as the feed publishes it: everything its minute has traded so far.
NoBar == [time |-> -1, open |-> 0, best |-> 0, worst |-> 0, close |-> 0]
Bar(t, o, b, w, c) == [time |-> t, open |-> o, best |-> b, worst |-> w, close |-> c]

Lesser(a, b) == IF a <= b THEN a ELSE b
Greater(a, b) == IF a >= b THEN a ELSE b

-----------------------------------------------------------------------------
(* Opening                                                                 *)

\* splitLegs: whole contracts per target, the remainder to the last.
SplitLegs(qty, n) ==
  LET part(i) == (qty * Split[i]) \div 10
  IN  [i \in 1..n |-> IF i < n THEN part(i) ELSE qty - Total([j \in 1..(n - 1) |-> part(j)])]

\* openPosition.
Opened(price, at, stop, liq, targets, qty, seen) ==
  LET n == Lesser(Len(Split), Len(targets))
  IN
  [status |-> "open", entry |-> price, entered |-> at, sl |-> stop, liq |-> liq,
   tp |-> SubSeq(targets, 1, n), hit |-> [i \in 1..n |-> FALSE],
   legs |-> SplitLegs(qty, n), qty |-> qty, breakEven |-> FALSE,
   peak |-> 0, trailOff |-> FALSE, armed |-> FALSE, trailPeak |-> 0,
   base |-> seen, why |-> "none", px |-> 0]

-----------------------------------------------------------------------------
(* Leaving                                                                 *)

\* fillExit of everything open: past the liquidation price the exchange has
\* closed the position there, whatever the exit was to be.
Closed(p, price, why) ==
  [p EXCEPT !.status = "closed", !.qty = 0,
            !.px = Greater(price, p.liq),
            !.why = IF price <= p.liq THEN "liquidation" ELSE why]

\* A stop order fills no better than its level, nor than a first price known
\* to be worse (stopMarketReference).
StoppedOut(p, first) == Closed(p, Lesser(p.sl, first), "stop")

\* Contracts the targets of T were given, and what they sell: the last target
\* takes what is left.
Legs(p, T) == Total([i \in DOMAIN p.tp |-> IF i \in T THEN p.legs[i] ELSE 0])
Sells(p, T) == IF Len(p.tp) \in T THEN p.qty ELSE Lesser(Legs(p, T), p.qty)

ToBreakEvenAnyway(p) == [p EXCEPT !.sl = p.entry, !.breakEven = TRUE]

\* The stop goes to the entry once, unless a trail has passed it already.
ToBreakEven(p) ==
  IF p.breakEven THEN p ELSE [p EXCEPT !.sl = p.entry, !.breakEven = TRUE]

SoldUnmarked(p, T, M, price) ==
  LET q == [p EXCEPT !.qty = @ - Sells(p, T)]
  IN  IF q.qty = 0 THEN [q EXCEPT !.status = "closed", !.why = "target", !.px = price]
      ELSE IF 1 \in T THEN ToBreakEven(q) ELSE q

\* Sell the legs of the targets in T and mark the targets in M as taken.
Sold(p, T, M, price) ==
  LET left == p.qty - Sells(p, T)
      q == [p EXCEPT !.qty = left, !.hit = [i \in DOMAIN p.tp |-> @[i] \/ i \in M]]
  IN  CASE left = 0 -> [q EXCEPT !.status = "closed", !.why = "target", !.px = price]
        [] left # 0 /\ 1 \in T -> ToBreakEven(q)
        [] OTHER -> q

Untaken(p) == {i \in DOMAIN p.tp : ~p.hit[i] /\ p.legs[i] > 0}

\* The targets fill in order: one that is not reached holds the later ones.
TakeTargets(p, reached) ==
  LET T == {i \in Untaken(p) : \A j \in Untaken(p) : j <= i => j \in reached}
  IN  IF T = {} THEN p
      ELSE Sold(p, T, T, p.tp[CHOOSE i \in T : \A j \in T : j <= i])

\* A script's own "target i" is an order to sell now, with the targets before
\* it that have not filled (applyScriptExit).
ScriptTarget(p, i, price) ==
  LET M == {k \in 1..i : ~p.hit[k]}
  IN  IF i > Len(p.tp) \/ p.hit[i] THEN p
      ELSE IF price <= p.liq /\ M \cap Untaken(p) # {} THEN Closed(p, price, "target")
      ELSE Sold(p, M \cap Untaken(p), M, price)

-----------------------------------------------------------------------------
(* The stop                                                                *)

\* Raise the stop to a level, never lower it.
Raised(p, level) ==
  IF level <= p.sl THEN p
  ELSE [p EXCEPT !.sl = level, !.breakEven = @ \/ level >= p.entry]

\* The profit the stop must keep, from the best the position has shown.
Kept(peak, give) ==
  LET floor == IF peak >= FloorAt THEN {FloorKeep} ELSE {}
      trail == IF peak >= TrailAfter THEN {peak - give} ELSE {}
  IN  floor \cup trail

\* trailStop: remember the best price, then floor and trail.  A trail that is
\* switched on while the position runs starts from the price of that moment.
TrailStop(p, price, on, give) ==
  LET r == price - p.entry
      q == [p EXCEPT !.peak = Greater(@, r),
                     !.trailOff = ~on,
                     !.armed = @ \/ (on /\ p.trailOff),
                     !.trailPeak = IF on /\ (p.trailOff \/ (p.armed /\ r > @)) THEN r ELSE @]
      kept == Kept(IF q.armed THEN q.trailPeak ELSE q.peak, give)
  IN  IF ~on \/ kept = {} THEN q
      ELSE Raised(q, q.entry + (CHOOSE k \in kept : \A m \in kept : m <= k))

-----------------------------------------------------------------------------
(* One observation                                                         *)

\* applyBar on what is new in a candle.  Stop before target; the trail last,
\* so a stop it raises counts from the next observation.
ApplyBar(p, first, best, worst, on, give) ==
  IF worst <= p.liq /\ p.liq >= p.sl THEN Closed(p, p.liq, "liquidation")
  ELSE IF worst <= p.sl THEN StoppedOut(p, first)
  ELSE LET q == TakeTargets(p, {i \in DOMAIN p.tp : best >= p.tp[i]})
       IN  IF q.status = "open" THEN TrailStop(q, best, on, give) ELSE q

ApplyLiveBarWhole(p, b, on, give) ==
  LET first == IF p.base.time # b.time /\ b.time > p.entered THEN b.open ELSE p.sl
  IN  IF b.time < p.entered \/ b.time < p.base.time THEN p
      ELSE ApplyBar([p EXCEPT !.base = b], first, b.best, b.worst, on, give)

ApplyLiveBarClose(p, b, on, give) ==
  IF b.time < p.entered \/ b.time < p.base.time THEN p
  ELSE ApplyBar([p EXCEPT !.base = b], p.sl, b.close, b.close, on, give)

\* applyLiveBar: of a candle that grows, only what the position has not seen.
\* In the minute of its entry the first candle shows nothing but its close.
ApplyLiveBar(p, b, on, give) ==
  LET same == p.base.time = b.time
      seen == same /\ <<p.base.best, p.base.worst, p.base.close>> = <<b.best, b.worst, b.close>>
      best == IF same THEN (IF b.best > p.base.best THEN b.best ELSE b.close)
              ELSE IF b.time <= p.entered THEN b.close ELSE b.best
      worst == IF same THEN (IF b.worst < p.base.worst THEN b.worst ELSE b.close)
               ELSE IF b.time <= p.entered THEN b.close ELSE b.worst
      first == IF ~same /\ b.time > p.entered THEN b.open ELSE p.sl
  IN  IF b.time < p.entered \/ b.time < p.base.time \/ seen THEN p
      ELSE ApplyBar([p EXCEPT !.base = b], first, best, worst, on, give)

\* applyTrade: a print takes the stop, or passes targets, or moves the trail.
ApplyTrade(p, price, on, give) ==
  IF price <= p.sl THEN StoppedOut(p, price)
  ELSE LET q == TakeTargets(p, {i \in DOMAIN p.tp : price > p.tp[i]})
       IN  IF q.status = "open" THEN TrailStop(q, price, on, give) ELSE q

\* restingEntryStop: a limit that rested was crossed before a stop behind it,
\* so what fills the one and reached the other books both.
RestingEntryStop(p, worst, first) == IF worst <= p.sl THEN StoppedOut(p, first) ELSE p
=============================================================================
