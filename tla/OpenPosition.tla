---------------------------- MODULE OpenPosition ----------------------------
(***************************************************************************)
(* One position of a live paper book under the prices it is fed            *)
(* (server/src/paper/engine.ts: onBar, onTrade, onMarkPrice, onScriptExit, *)
(* the fills of a waiting entry, applyFills and the restart).              *)
(*                                                                         *)
(* The exchange prints prices and keeps the candle of the running minute.  *)
(* The book learns of them late and in part: a candle update shows all of  *)
(* its minute so far, the prints in between are lost, a minute may end     *)
(* before its last update is delivered, and the tape may fall silent.      *)
(* What the position has seen, where its stop stands and what the database *)
(* holds have to agree through all of it.                                  *)
(***************************************************************************)
EXTENDS PositionLogic

CONSTANTS
  Prices,       \* the prices the market prints
  Stop, Liq,    \* the stop and the liquidation price of the trade
  Limit,        \* the price of a resting entry
  Targets,      \* its targets, nearest first
  Ladder,       \* the bot's own targets, as distances from the entry
  Quantities,   \* how many contracts it may have
  Sources,      \* where fills come from: "candles", "tape"
  TrendExit,    \* paper.trendExit.enabled
  MaxMinute,    \* bound: minutes
  MaxPrints,    \* bound: prints
  MaxTrouble    \* bound: restarts and failed writes

ASSUME OpenPositionAssumption ==
  /\ Prices \subseteq Nat /\ Stop \in Nat /\ Liq \in Nat /\ Limit \in Nat
  /\ Liq < Stop /\ Stop < Limit
  /\ Targets \in Seq(Nat) /\ Ladder \in Seq(Nat \ {0}) /\ Quantities \subseteq Nat \ {0}
  /\ \A i, j \in DOMAIN Targets : i < j => Targets[i] < Targets[j]
  /\ Sources \subseteq {"candles", "tape"}
  /\ TrendExit \in BOOLEAN
  /\ {MaxMinute, MaxPrints, MaxTrouble} \subseteq Nat

VARIABLES
  source,   \* paper.fillSource
  minute,   \* the exchange's minute
  bar,      \* its candle, NoBar before its first print
  last,     \* the last price
  due,      \* the final candles of earlier minutes the book has not been given
  seen,     \* priceBars: the candle the book was given last
  fresh,    \* tapeActive: a print arrived within tapeFallbackMs
  want,     \* the entry that waits: "now", "market", "limit"; "none" once filled
  policy,   \* the policy it was opened under has a floor or a trail
  on,       \* the settings it runs under have: its policy's, or today's
  pos,      \* the position in memory
  row,      \* its row
  prints, trouble,   \* spent of the bounds
  low,      \* history: the worst price since the stop was put where it is
  before,   \* history: the worst price from before an entry at the mark that
            \* the candle of its minute will show as new
  owed,     \* history: the prices at the stop that the candles show
  shown,    \* history: the prices that the candles or the tape show
  lost      \* history: those of them the book will not be shown again, though
            \* what it made of them is undone or never was

market == <<minute, bar, last>>
book == <<seen, fresh, want, pos, row>>
history == <<low, before, owed, shown, lost>>
vars == <<source, minute, bar, last, due, seen, fresh, want, policy, on, pos, row,
          prints, trouble, low, before, owed, shown, lost>>

NoPosition == [Opened(0, 0, 0, 0, <<>>, 0, NoBar) EXCEPT !.status = "none"]
Open == pos.status = "open"
Unseen == 1000    \* no print yet: above every price

Init ==
  /\ source \in Sources
  /\ want \in {"now", "market", "limit"}
  /\ minute = 0 /\ bar = NoBar /\ due = <<>>
  /\ IF want = "now" THEN source = "candles" /\ last \in {p \in Prices : p > Stop}
     ELSE last = Unseen
  /\ seen = NoBar /\ fresh = FALSE /\ policy \in BOOLEAN /\ on = policy
  /\ pos = NoPosition /\ row = NoPosition
  /\ prints = 0 /\ trouble = 0
  /\ low = Unseen /\ before = Unseen /\ owed = {} /\ shown = {} /\ lost = {}

-----------------------------------------------------------------------------
(* The market                                                              *)

Grown(p) ==
  IF bar = NoBar THEN Bar(minute, p, p, p, p)
  ELSE [bar EXCEPT !.best = Greater(@, p), !.worst = Lesser(@, p), !.close = p]

\* Whether the candles can still show a print as new to the position: not in
\* the minute of the entry before its first candle, and in a minute it knows
\* only past the extremes it has been given.
ShowsLow(p) == IF pos.base.time = minute THEN p < pos.base.worst ELSE minute > pos.entered
ShowsHigh(p) == IF pos.base.time = minute THEN p > pos.base.best ELSE minute > pos.entered

\* The exchange ends a minute; its final candle will be given to the book
\* before any of the next one.
EndMinute ==
  /\ minute < MaxMinute
  /\ minute' = minute + 1 /\ bar' = NoBar
  /\ due' = IF bar = NoBar THEN due ELSE Append(due, bar)
  /\ UNCHANGED <<source, last, seen, fresh, want, policy, on, pos, row, prints, trouble, history>>

-----------------------------------------------------------------------------
(* What a handler leaves behind                                            *)

\* The candles that will still tell something to a book that was given b last
\* and will be given d, and those of them with a low it has not been shown.
News(b, d) == {x \in {d[i] : i \in DOMAIN d} \cup {bar} : x # NoBar /\ x.time >= b.time /\ x # b}
NewLows(b, d) == {x \in News(b, d) : x.time > b.time \/ x.worst < b.worst}

\* Where the candles decide: such lows at the stop of q, and not from before
\* its entry.
Owes(q, d) ==
  {<<x.time, x.worst>> : x \in
    {y \in NewLows(q.base, d) :
       /\ source = "candles" /\ y.worst <= q.sl
       /\ (IF y.time = q.base.time THEN y.time >= q.entered ELSE y.time > q.entered)}}

\* Where the candles decide: the prices of the minutes M that a book left with
\* the candle b has not been shown, when the final candles of those minutes
\* will not be given again.
Lost(b, M) ==
  {o \in owed \cup shown :
     /\ source = "candles" /\ o[1] \in M /\ o[1] >= b.time
     /\ (o[1] = b.time => o[2] > b.best \/ o[2] < b.worst)}

\* A stop that is moved starts a history of its own: the price it was moved
\* at, then what has not been shown.
Moved(q, price, d) ==
  LET prices == {price} \cup {x.close : x \in News(q.base, d)}
                \cup {x.worst : x \in NewLows(q.base, d)}
  IN  IF q.status = "open" /\ q.sl # pos.sl
      THEN /\ low' = CHOOSE p \in prices : \A o \in prices : p <= o
           /\ before' = Unseen
           /\ owed' = owed \cup Owes(q, d)
      ELSE UNCHANGED <<low, before, owed>>

\* applyFills: fills and row commit together.
Commit(q) == pos' = q /\ row' = q /\ UNCHANGED <<on, trouble>>

\* Its write failed: the position is read back from its row, without its
\* policy, so it runs under the settings of today.
Undo ==
  /\ trouble < MaxTrouble /\ trouble' = trouble + 1
  /\ pos' = row /\ on' \in BOOLEAN
  /\ UNCHANGED <<row, low, before, owed>>

\* A way out at the market: the script's order, an operator, a reversal, a
\* rule about time or trend.
LeavesAt(price) == Closed(pos, price, "market")

-----------------------------------------------------------------------------
(* Entering                                                                *)

\* resolveLevels: the stop must be behind the price; the targets are those
\* still ahead of it, the last ones in their order, or the bot's own.
Fits(price) == Stop < price
TargetsAt(price) ==
  LET passed == Cardinality({i \in DOMAIN Targets : Targets[i] <= price})
      ahead == SubSeq(Targets, passed + 1, Len(Targets))
  IN  IF ahead # <<>> THEN ahead ELSE [i \in DOMAIN Ladder |-> price + Ladder[i]]

\* The entry at a price, and its stop if the price seen was already past it,
\* are one commit; when that fails the entry keeps waiting.
Enter(price, b, worst, first) ==
  /\ UNCHANGED <<owed, shown, lost>>
  /\ \/ /\ \E n \in Quantities :
             Commit(RestingEntryStop(Opened(price, minute, Stop, Liq, TargetsAt(price), n, b), worst, first))
        /\ want' = "none" /\ low' = Lesser(last, worst)
        /\ before' = IF b.time = minute /\ bar.worst < b.worst THEN bar.worst ELSE Unseen
     \/ /\ trouble < MaxTrouble /\ trouble' = trouble + 1
        /\ UNCHANGED <<want, on, pos, row, low, before>>

Lapse == want' = "none" /\ UNCHANGED <<on, pos, row, trouble, history>>

\* An entry that needs no print fills at the quote, or at the mark when the
\* candles are quiet.  The candle it starts from is the last one given, which
\* may lag behind the minute.
OpenNow ==
  /\ want = "now" /\ source = "candles" /\ Fits(last)
  /\ Enter(last, seen, last, last)
  /\ UNCHANGED <<source, minute, bar, last, due, seen, fresh, policy, prints>>

\* A candle fills what waits for a price, but not one of the past.  A limit
\* rests from minute 0 on and needs a minute that began after that.
FillsOn(b) == want = "market" \/ (want = "limit" /\ b.time > 0 /\ b.worst < Limit)
EnterOnBar(b) ==
  CASE want = "limit" -> Enter(Limit, b, b.worst, b.open)
    [] want = "market" /\ Fits(b.close) -> Enter(b.close, b, b.close, b.close)
    [] OTHER -> Lapse

EnterOnTrade(p) ==
  CASE want = "limit" -> Enter(Limit, seen, p, p)
    [] want = "market" /\ Fits(p) -> Enter(p, seen, p, p)
    [] OTHER -> Lapse

-----------------------------------------------------------------------------
(* Candles (onBar)                                                         *)

\* What the observation leaves of the position, and of the row: fills commit,
\* and at the end the position is saved if its candle is new.  With the trend
\* exit on, that last save is skipped.
Observe(b, historical, give, timed) ==
  LET q == ApplyLiveBar(pos, b, on, give)
      r == IF timed /\ ~historical /\ q.status = "open" THEN Closed(q, b.close, "market") ELSE q
      fills == r.qty # pos.qty
      saved == r.base # pos.base /\ (~TrendExit \/ historical)
  IN  \/ /\ pos' = r
         /\ row' = IF fills \/ saved THEN r ELSE row
         /\ Moved(r, b.close, due')
         /\ UNCHANGED <<on, trouble, shown, lost>>
      \/ /\ fills /\ Undo
         /\ lost' = IF b.time = bar.time THEN lost ELSE lost \cup Lost(row.base, {b.time})
         /\ UNCHANGED shown

\* A live tape: the candle only moves the baseline, and only in memory.
Rebase(b) == pos' = [pos EXCEPT !.base = b] /\ UNCHANGED <<on, row, trouble, history>>

OnBar(b, historical) ==
  LET taped == source = "tape" /\ fresh
      filling == ~historical /\ ~taped /\ FillsOn(b)
  IN  /\ seen' = b
      /\ \/ filling /\ EnterOnBar(b)
         \/ ~filling /\ ~Open /\ UNCHANGED <<want, on, pos, row, trouble, history>>
         \/ /\ Open /\ UNCHANGED want
            /\ IF taped THEN Rebase(b)
               ELSE \E give \in GiveBacks, timed \in BOOLEAN : Observe(b, historical, give, timed)

GiveCandle ==
  /\ \/ due = <<>> /\ bar # NoBar /\ due' = due /\ OnBar(bar, FALSE)
     \/ due # <<>> /\ due' = Tail(due) /\ \E historical \in BOOLEAN : OnBar(Head(due), historical)
  /\ UNCHANGED <<source, minute, bar, last, fresh, policy, prints>>

-----------------------------------------------------------------------------
(* Prints (onTrade)                                                        *)

Printed(p) ==
  /\ prints < MaxPrints /\ prints' = prints + 1
  /\ last' = p /\ bar' = Grown(p)

\* A print the book does not hear, or one it only learns of by the candle.
PrintUnheard(p) ==
  /\ Printed(p)
  /\ low' = IF Open THEN Lesser(low, p) ELSE low
  /\ owed' = IF Open /\ source = "candles" /\ p <= pos.sl /\ ShowsLow(p) THEN owed \cup {<<minute, p>>} ELSE owed
  /\ shown' = IF Open /\ on /\ source = "candles" /\ ShowsHigh(p) THEN shown \cup {<<minute, p>>} ELSE shown
  /\ UNCHANGED <<source, minute, due, seen, fresh, want, policy, on, pos, row, trouble, before, lost>>

OnTrade(p, give, timed) ==
  LET q == ApplyTrade(pos, p, on, give)
      r == IF timed /\ q.status = "open" THEN Closed(q, p, "market") ELSE q
  IN  /\ UNCHANGED <<want, owed, before>>
      /\ shown' = IF on THEN shown \cup {<<minute, p>>} ELSE shown
      /\ \/ /\ pos' = r
            /\ row' = IF r.qty # pos.qty \/ r.sl # pos.sl \/ r.trailOff # pos.trailOff THEN r ELSE row
            /\ low' = IF r.status = "open" /\ r.sl # pos.sl THEN p ELSE Lesser(low, p)
            /\ lost' = lost \ {<<minute, p>>}
            /\ UNCHANGED <<on, trouble>>
         \/ r.qty # pos.qty /\ Undo /\ lost' = lost \cup {<<minute, p>>}

Awaited(p) == want = "market" \/ (want = "limit" /\ p < Limit)
PrintHeard(p) ==
  /\ source = "tape" /\ Printed(p) /\ fresh' = TRUE
  /\ \/ Awaited(p) /\ EnterOnTrade(p)
     \/ Open /\ \E give \in GiveBacks, timed \in BOOLEAN : OnTrade(p, give, timed)
     \/ ~Open /\ ~Awaited(p) /\ UNCHANGED <<want, on, pos, row, trouble, history>>
  /\ UNCHANGED <<source, minute, due, seen, policy>>

\* No print for tapeFallbackMs: the candles take over.
TapeSilent ==
  /\ fresh /\ fresh' = FALSE
  /\ UNCHANGED <<source, minute, bar, last, due, seen, want, policy, on, pos, row,
                 prints, trouble, history>>

\* The exchange's mark price liquidates, whatever was printed (onMarkPrice).
OnMarkPrice ==
  /\ source = "tape" /\ Open
  /\ \/ Commit(LeavesAt(pos.liq)) /\ UNCHANGED <<low, before, owed>>
     \/ Undo
  /\ UNCHANGED <<source, minute, bar, last, due, seen, fresh, want, policy, prints, shown, lost>>

-----------------------------------------------------------------------------
(* Orders and restarts                                                     *)

\* onScriptExit: the script says that a target was reached, or to get out.
OnScriptExit ==
  /\ Open
  /\ \E q \in {ScriptTarget(pos, i, last) : i \in 1..3} \cup {LeavesAt(last)} :
       /\ q # pos
       /\ \/ Commit(q) /\ Moved(q, last, due)
          \/ Undo
  /\ UNCHANGED <<source, minute, bar, last, due, seen, fresh, want, policy, prints, shown, lost>>

\* The process starts again: positions come back from their rows with their
\* policies, a waiting market entry is dropped, and the minutes that ended
\* meanwhile are loaded as history, which no position is shown.
Restart ==
  /\ trouble < MaxTrouble /\ trouble' = trouble + 1
  /\ pos' = row /\ on' = policy /\ seen' = NoBar /\ fresh' = FALSE /\ due' = <<>>
  /\ want' = IF want = "limit" THEN want ELSE "none"
  /\ lost' = lost \cup Lost(row.base, {due[i].time : i \in DOMAIN due})
  /\ UNCHANGED <<source, minute, bar, last, policy, row, prints, low, before, owed, shown>>

\* Nothing is followed any further once the position is closed or the entry
\* lapsed.
Next ==
  /\ Open \/ want # "none"
  /\ \/ EndMinute \/ OpenNow \/ GiveCandle
     \/ \E p \in Prices : PrintUnheard(p) \/ PrintHeard(p)
     \/ TapeSilent \/ OnMarkPrice \/ OnScriptExit \/ Restart

Spec == Init /\ [][Next]_vars

-----------------------------------------------------------------------------
(* Properties                                                              *)

\* The stop only ever moves in the position's favour: by the break-even move,
\* the floor and the trail, and through failed writes, changed settings and
\* restarts (trailStop: "never loosen the stop").
NeverLoosens == [][Open /\ pos'.status = "open" => pos'.sl >= pos.sl]_vars

\* A position is stopped out only by a price that was printed while the stop
\* stood where it stands, and never at a better one than the stop: a candle
\* that repeats an old extreme, comes late, or began before the entry takes no
\* newer stop (applyLiveBar).  Only an entry at the mark may start from a
\* candle that lags, and then a price of before the entry counts as new.
StopEarned ==
  source = "candles" /\ pos.why = "stop" =>
    pos.px <= pos.sl /\ (low <= pos.sl \/ before <= pos.sl)

\* And the other way: once the book has been given every candle, every price
\* at the stop that a candle showed of a position still open is one that was
\* lost: its exit's write failed on the last candle of its minute, or that
\* candle came while the process was down.
CaughtUp == due = <<>> /\ (bar = NoBar \/ pos.base = bar)
StopHonoured == source = "candles" /\ Open /\ CaughtUp => owed \subseteq lost

\* Once the market has shown the profit that arms the floor, the stop keeps
\* the floor, also through late candles and settings switched off and on
\* (config.ts: "Once the trade has shown `floorAtR`, the stop may never sit
\* below `floorKeepR` of profit"), but for prices that were lost: by a failed
\* write on the print or the last candle that showed them, or over a restart.
FloorKept ==
  /\ Open /\ on /\ ~pos.armed /\ ~pos.trailOff
  /\ source = "candles" => CaughtUp
  /\ \E o \in shown \ lost : o[2] >= pos.entry + FloorAt
  => pos.sl >= pos.entry + FloorKeep

\* The targets not taken hold exactly the open contracts: no contract is left
\* without a target, none is sold twice, by prices and script orders together.
TargetsCover ==
  Open /\ pos.tp # <<>> => Legs(pos, {i \in DOMAIN pos.tp : ~pos.hit[i]}) = pos.qty

\* What ARCHITECTURE.md says of the tape: when it falls silent the candles
\* take over and "only movement since the last print counts".
OnlyNewMovement == pos.why = "stop" => low <= pos.sl
=============================================================================
