------------------------------ MODULE LiveAccount ------------------------------
(***************************************************************************)
(* The live paper account at work: the paper engine and the risk manager    *)
(* over one database. JavaScript runs a handler to its end, but a handler   *)
(* commits several times and listeners run between its commits; `work` is   *)
(* what the running handler still has to do, one commit per item. No other  *)
(* handler starts before it is empty; a write may fail in it and the        *)
(* process may be killed between any two items.                             *)
(***************************************************************************)
EXTENDS RiskManager

CONSTANTS
  LastTick,      \* bound: the clock
  MaxDelay,      \* bound: ticks between a price and its arrival
  MaxTrouble,    \* bound: failed writes, kills of the process and commands
  FaultSites,    \* where writes fail: "fill", "receipt"
  Sources        \* how entries fill: "tape", "candles", "at once"

ASSUME AccountAssumption ==
  /\ {LastTick, MaxDelay, MaxTrouble} \subseteq Nat
  /\ FaultSites \subseteq {"fill", "receipt"}
  /\ Sources \subseteq {"tape", "candles", "at once"}

VARIABLES
  disk,      \* what the database holds
  mem,       \* what the process holds
  up,        \* the process runs
  now,       \* the clock
  source,    \* paper.fillSource; "at once": candles and no latencyMs
  tape,      \* whether it has printed this tick, the time of the last print
  seen,      \* signals decided
  work,      \* the rest of the running handler
  fresh,     \* positions the running print opened
  used,      \* of MaxTrouble
  torn       \* a write of the risk manager has failed (for the properties)

vars == <<disk, mem, up, now, source, tape, seen, work, fresh, used, torn>>

\* the book as the running handler sees it
Book == [rows |-> disk.rows, act |-> disk.act, rec |-> disk.rec, saved |-> disk.saved,
         resets |-> disk.resets,
         open |-> mem.open, pend |-> mem.pend, risk |-> mem.risk,
         dec |-> FALSE, mkt |-> -1, ev |-> <<>>, bad |-> FALSE]

Decision(m) == [Book EXCEPT !.dec = TRUE, !.mkt = m]

Empty == [rows |-> [i \in Ids |-> NoRow], act |-> [i \in Ids |-> "new"], rec |-> {},
          saved |-> <<>>, resets |-> 0, open |-> {}, pend |-> {}, risk |-> <<>>,
          dec |-> FALSE, mkt |-> -1, ev |-> <<>>, bad |-> FALSE]
Down == [open |-> {}, pend |-> {}, risk |-> <<>>]

Init ==
  /\ disk = Durable([Empty EXCEPT !.saved = FreshState(Empty, 0)])
  /\ mem = Volatile([Empty EXCEPT !.risk = FreshState(Empty, 0)])
  /\ up = TRUE /\ now = 0
  /\ source \in Sources
  /\ tape = [live |-> FALSE, time |-> 0]
  /\ seen = 0 /\ work = <<>> /\ fresh = {}
  /\ used = 0
  /\ torn = FALSE

Idle == up /\ work = <<>>

(* ---- work items --------------------------------------------------------- *)

\* op; id of the entry or position; via: what brought the price; time of that
\* price; loud: an exception here ends the handler
Item(op, i, via, time, loud) == [op |-> op, id |-> i, via |-> via, time |-> time, loud |-> loud]
Each(op, S, via, time) ==
  LET ids == ById(S) IN [k \in 1..Len(ids) |-> Item(op, ids[k], via, time, TRUE)]

\* trade events run after the outermost commit: an exception of their
\* listener is swallowed there, but not behind an applyFills of its own
Trades(b, loud) == [k \in 1..Len(b.ev) |-> Item("trade", b.ev[k], "none", 0, loud)]

Running(op) == up /\ work # <<>> /\ Head(work).op = op
Entry == Head(work).id
Via == Head(work).via
Time == Head(work).time

\* whether a price may close a position
MayExit(row, via, time) ==
  CASE via = "print" -> time >= row.at
    [] via \in {"bar", "old bar"} ->
         /\ ~(source = "tape" /\ tape.live)
         /\ (IF via = "bar" THEN now ELSE Min({now, time + 1})) >= row.at
         /\ time + 1 > row.at
    [] OTHER -> TRUE

\* the loops run over a snapshot of a map, taken when the loop begins
Unfold(items, rows, m, opened) ==
  LET Begins(op, w) == w # <<>> /\ Head(w).op = op
      checks == IF Begins("house", items) THEN Each("check", m.pend, "none", now) \o Tail(items)
                ELSE items
      exits == {i \in m.open \ opened : MayExit(rows[i], checks[1].via, checks[1].time)}
  IN CASE Begins("exits", checks) -> Each("exit", exits, checks[1].via, checks[1].time) \o Tail(checks)
       [] Begins("close all", checks) -> Each("close", m.open, "none", now) \o Tail(checks)
       [] OTHER -> checks
Continue(items, opened) ==
  /\ work' = Unfold(items, disk'.rows, mem', opened)
  /\ fresh' = IF work' = <<>> THEN {} ELSE opened

Commit(b, loud, opened) ==
  /\ disk' = Durable(b)
  /\ mem' = Volatile(b)
  /\ Continue(Trades(b, loud) \o Tail(work), opened)

\* the item changed nothing
Skip == UNCHANGED <<disk, mem>> /\ Continue(Tail(work), fresh)

\* commitDecision caught an exception: the transaction is rolled back, maps,
\* positions and risk state are those of before; the handler logs it and goes
\* on, or it ends with it
Undone(goesOn) ==
  /\ UNCHANGED <<disk, mem>>
  /\ Continue(IF goesOn THEN Tail(work) ELSE <<>>, fresh)

Fault(site) ==
  /\ site \in FaultSites /\ used < MaxTrouble
  /\ used' = used + 1
Works == UNCHANGED used

(* ---- entries ------------------------------------------------------------ *)

\* resting limits only from flat; then the deferred entry; then at once
NewRow(c, side, old) ==
  LET kind == IF c \in RestCells /\ old = 0 THEN "rest" ELSE IF source = "at once" THEN "now" ELSE "wait"
  IN [NoRow EXCEPT !.st = "pending", !.cell = c, !.side = side, !.kind = kind, !.at = now,
                   !.old = IF kind = "wait" THEN old ELSE 0,
                   !.till = CASE kind = "rest" -> now + LimitLife
                              [] kind = "wait" -> now + Latency
                              [] OTHER -> now]

Ignored(b, i) == [b EXCEPT !.act[i] = "ignored"]
Rejected(b, i) == [b EXCEPT !.act[i] = "rejected"]

\* Mutant: pendings do not count towards the cap.
MutEntryIgnoresPendings(b, i, c, side, says, bank) ==
  LET held == InCell(b, b.open, c)
      old == IF held = {} THEN 0 ELSE CHOOSE h \in held : TRUE
      row == NewRow(c, side, old)
      g == Gate(b, now)
      cleared == IF old \in g.open /\ row.kind = "now" THEN CloseAt(g, old, g.mkt, now) ELSE g
  IN IF (old # 0 /\ (b.rows[old].side = side \/ ~bank)) \/ InCell(b, b.pend, c) # {} THEN Ignored(b, i)
     ELSE IF Cardinality(b.open \ {old}) >= MaxOpen \/ says = "refused" THEN Rejected(b, i)
     ELSE IF GateRefuses(g, c, old, now) \/ says = "refused later" THEN Rejected(g, i)
     ELSE IF row.kind # "now" THEN Place(g, i, row)
     ELSE OpenAt(Place(cleared, i, row), i, now)

\* executeEntry: `says` is the verdict of the rules on prices, before and
\* after the risk gate; `bank` whether the held position may be reversed
ExecuteEntry(b, i, c, side, says, bank) ==
  LET held == InCell(b, b.open, c)
      old == IF held = {} THEN 0 ELSE CHOOSE h \in held : TRUE
      row == NewRow(c, side, old)
      g == Gate(b, now)
      \* the position to be replaced is closed by the same commit
      cleared == IF old \in g.open /\ row.kind = "now" THEN CloseAt(g, old, g.mkt, now) ELSE g
  IN IF (old # 0 /\ (b.rows[old].side = side \/ ~bank)) \/ InCell(b, b.pend, c) # {} THEN Ignored(b, i)
     ELSE IF Cardinality(b.open \ {old}) + Cardinality(b.pend) >= MaxOpen THEN Rejected(b, i)
     ELSE IF says = "refused" THEN Rejected(b, i)
     ELSE IF GateRefuses(g, c, old, now) \/ says = "refused later" THEN Rejected(g, i)
     ELSE IF row.kind # "now" THEN Place(g, i, row)
     ELSE OpenAt(Place(cleared, i, row), i, now)

Verdicts == {"fine", "refused", "refused later"}

\* the scanner engine decides a signal in a transaction of its own; after a
\* failure the signal stays in the inbox
Decide ==
  /\ Idle /\ seen < MaxSignals
  /\ now + LimitLife < LastTick /\ now + Latency + PendingExpiry < LastTick
  /\ \E c \in Cells, side \in Sides, says \in Verdicts, bank \in BOOLEAN, m \in Outcomes :
       LET b == ExecuteEntry(Decision(m), seen + 1, c, side, says, bank)
       IN \/ /\ disk' = Durable(b) /\ mem' = Volatile(b) /\ work' = Trades(b, FALSE)
             /\ seen' = seen + 1
             /\ Works
          \/ /\ Fault("fill")
             /\ UNCHANGED <<disk, mem, work, seen>>
  /\ UNCHANGED <<up, now, source, tape, fresh, torn>>

\* fillPending: a deferred entry at the price that woke it
FillWaiting(b, i, says) ==
  LET row == b.rows[i]
      taken == [b EXCEPT !.pend = @ \ {i}]
      held == IF row.old \in b.open THEN row.old ELSE 0
      g == Gate(taken, now)
      cleared == IF held \in g.open THEN CloseAt(g, held, g.mkt, now) ELSE g
  IN IF \/ says = "refused"
        \/ now > row.till + PendingExpiry
        \/ Cardinality(b.open \ {held}) >= MaxOpen
     THEN CancelEntry(b, i)
     ELSE IF GateRefuses(g, row.cell, held, now) \/ says = "refused later"
     THEN CancelEntry(g, i)
     ELSE OpenAt(cleared, i, now)

\* Mutant: expiry is left to housekeeping, and so is the cap.
MutFillUnchecked(b, i, time, says, stopped) ==
  LET g == Gate([b EXCEPT !.pend = @ \ {i}], now)
  IN IF GateRefuses(g, b.rows[i].cell, 0, now) \/ says # "fine" THEN CancelEntry(g, i) ELSE OpenAt(g, i, now)

\* fillLimit; a price that crossed the stop as well takes it in the same commit
FillResting(b, i, time, says, stopped) ==
  LET row == b.rows[i]
      g == Gate([b EXCEPT !.pend = @ \ {i}], now)
      opened == OpenAt(g, i, now)
  IN IF \/ says = "refused"
        \/ time >= row.till
        \/ now - time > LimitLate
        \/ Cardinality(b.open) >= MaxOpen
     THEN CancelEntry(b, i)
     ELSE IF GateRefuses(g, row.cell, 0, now) \/ says = "refused later"
     THEN CancelEntry(g, i)
     ELSE IF stopped THEN CloseAt(opened, i, -1, now) ELSE opened

\* whether a print or a candle reaches the entry at all
Reaches(row, via, time, touched) ==
  CASE via = "print" -> /\ time >= (IF row.kind = "rest" THEN row.at ELSE row.till)
                        /\ row.kind = "rest" => touched
    [] via = "bar" -> /\ ~(source = "tape" /\ tape.live)
                      /\ IF row.kind = "rest"
                         THEN /\ time >= row.at /\ time < row.till
                              /\ Min({now, time + 1}) <= row.till /\ touched
                         ELSE now >= row.till
    [] OTHER -> TRUE

Filled(b, i, says, stopped) ==
  IF b.rows[i].kind = "rest" THEN FillResting(b, i, Time, says, stopped)
                             ELSE FillWaiting(b, i, says)

\* an entry of the snapshot the handler took is filled, cancelled or passed by
FillEntry ==
  /\ Running("fill")
  /\ \E touched \in BOOLEAN, says \in Verdicts, stopped \in BOOLEAN, m \in Outcomes :
       LET b == Filled(Decision(m), Entry, says, stopped)
       IN IF ~Reaches(disk.rows[Entry], Via, Time, touched)
          THEN Skip /\ Works
          ELSE \/ Commit(b, FALSE, fresh \cup (b.open \ mem.open)) /\ Works
               \/ Undone(TRUE) /\ Fault("fill")
  /\ UNCHANGED <<up, now, source, tape, seen, torn>>

(* ---- prices ------------------------------------------------------------- *)

Starts(items) == Continue(items, {})

Delayed(time) == time <= now /\ now - time <= MaxDelay

\* onTrade: in tape mode it fills what is due, then the positions exit
TapePrint ==
  /\ Idle
  /\ UNCHANGED <<disk, mem>>
  /\ \E time \in 0..now :
       /\ Delayed(time) /\ time >= tape.time
       /\ tape' = [live |-> TRUE, time |-> time]
       /\ Starts(IF source = "tape"
                 THEN Each("fill", mem.pend, "print", time) \o <<Item("exits", 0, "print", time, TRUE)>>
                 ELSE <<>>)
  /\ UNCHANGED <<up, now, source, seen, used, torn>>

\* onBar: a candle of the minute that began at `time`; one that a resync
\* fetched is historical and fills no entry
Candle ==
  /\ Idle
  /\ UNCHANGED <<disk, mem>>
  /\ \E time \in 0..now, resync \in BOOLEAN :
       LET old == resync \/ now > time + 2
       IN /\ Delayed(time)
          /\ Starts((IF old THEN <<>> ELSE Each("fill", mem.pend, "bar", time))
                    \o <<Item("house", 0, "none", now, TRUE),
                         Item("exits", 0, IF old THEN "old bar" ELSE "bar", time, TRUE)>>)
  /\ UNCHANGED <<up, now, source, tape, seen, used, torn>>

\* the five-second timer: housekeeping, then the risk manager's tick
Timer ==
  /\ Idle
  /\ UNCHANGED <<disk, mem>>
  /\ Starts(<<Item("house", 0, "none", now, TRUE), Item("tick", 0, "none", 0, TRUE)>>)
  /\ UNCHANGED <<up, now, source, tape, seen, used, torn>>

\* housekeeping: `blocked` is entryBlock's verdict (trading status)
CheckEntry ==
  /\ Running("check")
  /\ \E blocked \in BOOLEAN :
       LET row == disk.rows[Entry]
           lapsed == IF row.kind = "rest" THEN now > row.till ELSE now > row.till + PendingExpiry
           quiet == source # "tape" /\ row.kind = "wait" /\ now >= row.till + QuietFill
           b == CancelEntry(Decision(-1), Entry)
       IN CASE Entry \notin mem.pend -> Skip /\ Works
            [] Entry \in mem.pend /\ (blocked \/ lapsed) ->
                 \/ Commit(b, FALSE, fresh) /\ Works
                 \/ Undone(FALSE) /\ Fault("fill")
            [] Entry \in mem.pend /\ ~blocked /\ ~lapsed /\ quiet ->
                 /\ work' = <<Item("fill", Entry, "mark", now, TRUE)>> \o Tail(work)
                 /\ UNCHANGED <<disk, mem, fresh>> /\ Works
            [] OTHER -> Skip /\ Works
  /\ UNCHANGED <<up, now, source, tape, seen, torn>>

\* a stop, target or command closes a position; applyFills has its own
\* transaction and its events follow at once
ExitPosition ==
  /\ Running("exit") \/ Running("close")
  /\ \/ (Running("exit") \/ Entry \notin mem.open) /\ Skip /\ Works
     \/ /\ Entry \in mem.open
        /\ \/ \E pnl \in Outcomes : Commit(CloseAt(Book, Entry, pnl, now), TRUE, fresh) /\ Works
           \/ /\ Fault("fill")
              /\ Skip
  /\ UNCHANGED <<up, now, source, tape, seen, torn>>

\* onScriptExit, onMarkPrice, closeManual: one position, for a reason of its own
OwnExit ==
  /\ Idle
  /\ UNCHANGED <<disk, mem>>
  /\ \E i \in mem.open : Starts(<<Item("exit", i, "market", now, TRUE)>>)
  /\ UNCHANGED <<up, now, source, tape, seen, used, torn>>

(* ---- the risk manager --------------------------------------------------- *)

\* a transaction of the risk manager's own: it commits, or its state is
\* restored and the exception goes to its caller
RiskCommits(b) ==
  \/ ~b.bad /\ Commit(b, FALSE, fresh) /\ Works /\ torn' = torn
  \/ /\ (b.bad /\ Works) \/ (~b.bad /\ Fault("receipt"))
     /\ torn' = TRUE
     /\ UNCHANGED <<disk, mem>>
     /\ Continue(IF Head(work).loud THEN <<>> ELSE Tail(work), fresh)

RiskStep ==
  /\ \E m \in Outcomes :
       LET b == [Book EXCEPT !.mkt = m]
       IN \/ Running("trade") /\ RiskCommits(OnTradeClosed(b, Entry, now))
          \/ Running("tick") /\ RiskCommits(Tick(b, now))
  /\ UNCHANGED <<up, now, source, tape, seen>>

(* ---- commands ----------------------------------------------------------- *)

Command ==
  /\ Idle /\ used < MaxTrouble
  /\ used' = used + 1
  /\ UNCHANGED <<up, now, source, tape, seen, torn>>

\* closeAll from the API, and kill with closeAll
CloseAllCommand(halt) ==
  /\ Command
  /\ mem' = (IF halt THEN Volatile(Halt(Book)) ELSE mem)
  /\ disk' = (IF halt THEN Durable(Halt(Book)) ELSE disk)
  /\ Starts(Each("cancel", mem.pend, "none", now) \o <<Item("close all", 0, "none", now, TRUE)>>)

CancelItem ==
  /\ Running("cancel")
  /\ LET b == CancelEntry(Decision(-1), Entry)
     IN \/ Commit(b, FALSE, fresh) /\ Works
        \/ Undone(FALSE) /\ Fault("fill")
  /\ UNCHANGED <<up, now, source, tape, seen, torn>>

\* POST /api/risk/reset
RiskReset ==
  /\ Command
  /\ LET b == Save([Book EXCEPT !.risk = FreshState(Book, now)])
     IN disk' = Durable(b) /\ mem' = Volatile(b)
  /\ UNCHANGED <<work, fresh>>

\* reset(): the rows are archived in a transaction, then the maps cleared;
\* paper.resetAt is a write of its own
BookReset ==
  /\ Command
  /\ disk' = [disk EXCEPT !.rows = [i \in Ids |->
                 IF @[i].st \in {"open", "closed", "pending"} THEN [NoRow EXCEPT !.st = "archived"] ELSE @[i]],
               !.act = [i \in Ids |-> IF @[i] = "opened" THEN "reset" ELSE @[i]]]
  /\ mem' = [mem EXCEPT !.open = {}, !.pend = {}]
  /\ Starts(<<Item("stamp", 0, "none", 0, TRUE)>>)

Stamp ==
  /\ Running("stamp")
  /\ disk' = [disk EXCEPT !.resets = @ + 1]
  /\ work' = Tail(work)
  /\ UNCHANGED <<mem, up, now, source, tape, seen, fresh, used, torn>>

\* voidPosition: the exchange never opened it
VoidPosition ==
  /\ Command
  /\ \E i \in mem.open :
       /\ disk' = [disk EXCEPT !.rows[i] = Gone, !.act[i] = "rejected"]
       /\ mem' = [mem EXCEPT !.open = @ \ {i}]
  /\ UNCHANGED <<work, fresh>>

(* ---- the process -------------------------------------------------------- *)

Kill ==
  /\ up /\ used < MaxTrouble
  /\ used' = used + 1
  /\ up' = FALSE /\ mem' = Down /\ work' = <<>> /\ fresh' = {}
  /\ UNCHANGED <<disk, now, source, tape, seen, torn>>

\* the constructors: rows are loaded, pendings kept or dropped, and the risk
\* manager counts the closes it missed; it does not listen yet
Boot ==
  /\ ~up /\ up' = TRUE
  /\ LET kept == KeptEntries(disk.rows, now)
         left == {i \in Ids : disk.rows[i].st = "pending"} \ kept
         missed == Uncounted(disk)
     IN /\ mem' = [open |-> {i \in Ids : disk.rows[i].st = "open"}, pend |-> kept,
                   risk |-> disk.saved]
        /\ work' = Each("drop", left, "none", now)
                   \o [k \in 1..Cardinality(missed) |->
                         Item("missed", Oldest(disk, missed)[k], "none", 0, TRUE)]
                   \o <<Item("first tick", 0, "none", 0, TRUE)>>
  /\ tape' = [live |-> FALSE, time |-> 0]
  /\ UNCHANGED <<disk, now, source, seen, fresh, used, torn>>

\* the row is deleted first, its signal is updated by a second statement
DropEntry ==
  /\ \/ /\ Running("drop")
        /\ disk' = [disk EXCEPT !.rows[Entry] = Gone]
        /\ work' = <<Item("dropped", Entry, "none", 0, TRUE)>> \o Tail(work)
     \/ /\ Running("dropped")
        /\ disk' = [disk EXCEPT !.act[Entry] = "rejected"]
        /\ work' = Tail(work)
  /\ UNCHANGED <<mem, up, now, source, tape, seen, fresh, used, torn>>

\* an exception in the risk manager's constructor is one of the application's
Starting(b) ==
  IF b.bad THEN up' = FALSE /\ mem' = Down /\ work' = <<>> /\ fresh' = {} /\ disk' = disk
  ELSE up' = up /\ Commit([b EXCEPT !.ev = <<>>], TRUE, {})

BootRisk ==
  /\ \E m \in Outcomes :
       LET b == [Book EXCEPT !.mkt = m]
       IN \/ Running("missed") /\ Starting(OnTradeClosed(b, Entry, now))
          \/ Running("first tick") /\ Starting(Tick(b, now))
  /\ UNCHANGED <<now, source, tape, seen, used, torn>>

Clock ==
  /\ work = <<>> /\ now < LastTick
  /\ now' = now + 1 /\ tape' = [tape EXCEPT !.live = FALSE]
  /\ UNCHANGED <<disk, mem, up, source, seen, work, fresh, used, torn>>

Work == FillEntry \/ CheckEntry \/ ExitPosition \/ RiskStep \/ CancelItem \/ Stamp
        \/ DropEntry \/ BootRisk

Next ==
  \/ Decide \/ TapePrint \/ Candle \/ OwnExit \/ Timer \/ Clock \/ Work
  \/ \E halt \in BOOLEAN : CloseAllCommand(halt)
  \/ RiskReset \/ BookReset \/ VoidPosition \/ Kill \/ Boot

Spec == Init /\ [][Next]_vars

(* ---- properties --------------------------------------------------------- *)

Dropping == \E k \in 1..Len(work) : work[k].op \in {"drop", "dropped"}

\* Three records of an entry agree at every commit, after failed writes,
\* restarts and resets too: the maps in memory, the table, and the outcome
\* written with the signal (decision 77: they commit together)
RecordsAgree ==
  /\ up /\ ~Dropping => /\ mem.open = IdsOf(disk, "open")
                        /\ mem.pend = IdsOf(disk, "pending")
  /\ \A i \in Ids :
       /\ disk.rows[i].st \in {"open", "closed"} <=> disk.act[i] = "opened"
       /\ disk.rows[i].st = "pending" => disk.act[i] = "pending"

\* maxOpenPositions bounds open positions, and open and pending ones together
\* once a reversal counts as one, through fills, reversals and restarts; and a
\* cell holds one position and one entry, both only while the entry is the
\* reversal that will close this very position
EntriesBounded ==
  LET replaced == {i \in mem.open : \E j \in mem.pend : disk.rows[j].old = i}
  IN /\ Cardinality(mem.open) <= MaxOpen
     /\ Cardinality(mem.open) + Cardinality(mem.pend) - Cardinality(replaced) <= MaxOpen
     /\ \A c \in Cells :
          LET o == InCell(disk, mem.open, c)
              p == InCell(disk, mem.pend, c)
          IN /\ Cardinality(o) <= 1 /\ Cardinality(p) <= 1
             /\ \A i \in o, j \in p : disk.rows[j].old = i

Opened(i) == disk.act[i] # "opened" /\ disk'.act[i] = "opened"

\* An entry fills only in its window: a deferred one from its due time until
\* it expires, a resting one not by an event of after its life or that came
\* more than LimitLate behind
FillsOnTime ==
  [][\A i \in Ids : Opened(i) =>
       LET row == disk.rows[i]
       IN row.st = "pending" =>
            /\ row.kind = "wait" => now >= row.till /\ now <= row.till + PendingExpiry
            /\ row.kind = "rest" => Time \in row.at..(row.till - 1) /\ now - Time <= LimitLate]_vars

\* losses of a scanner in a row, by the table alone; ties with a win are left out
LossesInARow(s, S) ==
  LET mine == {i \in IdsOf(disk, "closed") \ mem.risk.base : ScannerOf[disk.rows[i].cell] = s}
  IN /\ S \subseteq mine
     /\ \A i \in S : disk.rows[i].pnl < 0
     /\ ~\E w \in mine, i, j \in S : /\ disk.rows[w].pnl > 0
                                   /\ disk.rows[i].end <= disk.rows[w].end
                                   /\ disk.rows[w].end <= disk.rows[j].end
CoolsDown(s) ==
  \E S \in SUBSET Ids : /\ Cardinality(S) >= CooldownAfter /\ LossesInARow(s, S)
                        /\ \E i \in S : now < disk.rows[i].end + CooldownTicks
                                        /\ \A j \in S : disk.rows[j].end <= disk.rows[i].end

\* No position opens while its scanner cools down after CooldownAfter losses
\* in a row, whether the closes were announced, missed by a crash, or the
\* entry was placed before them
NoEntryInCooldown ==
  [][\A i \in Ids : Opened(i) /\ ~torn => ~CoolsDown(ScannerOf[disk'.rows[i].cell])]_vars

\* No position opens once the day's loss has reached the limit or the
\* operator has halted, and the day it is judged by is today
NoEntryWhenHalted ==
  [][\A i \in Ids : Opened(i) =>
       /\ ~mem'.risk.halt /\ ~mem'.risk.tripped
       /\ mem'.risk.day = Day(now)
       /\ mem'.risk.seen = disk.resets => Equity(disk) - mem'.risk.start > -LossLimit]_vars

\* The tick of the timer leaves no loss beyond the limit without a tripped
\* switch (docs/calculations.md on closeAllOnKill)
TickTrips ==
  [][Running("tick") /\ up' /\ used' = used /\ mem'.risk.seen = disk.resets
       => Equity(disk) - mem'.risk.start > -LossLimit \/ mem'.risk.tripped]_vars

================================================================================
