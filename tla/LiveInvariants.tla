--------------------------- MODULE LiveInvariants ---------------------------
(***************************************************************************)
(* What the theorems about the live paper account are stated with: the      *)
(* types, what each operation of the book and of the risk manager does to a *)
(* row, and four invariants:                                                *)
(*   Types       a state is well formed, and what is left of its handler   *)
(*               is in an order the program can have put it in;             *)
(*   Agree       memory, rows and the signals' outcomes tell one story;     *)
(*   DiskSeated  a cell is held by one position and one entry at most, both *)
(*               only in a reversal, and the cells held are within the cap; *)
(*   Streaks     the risk manager's scores follow from the closed rows and  *)
(*               receipts, and what has no receipt yet waits in its order.  *)
(* The proofs are in LiveAccount_proofs.                                    *)
(***************************************************************************)
EXTENDS LiveAccount

----------------------------------------------------------------------------
(* Numbers, finite sets and the order of a set.                             *)

Ordered(s, S, rank) ==
  /\ s \in [1..Cardinality(S) -> S]
  /\ \A j, k \in 1..Cardinality(S) :
       j < k => \/ rank[s[j]] < rank[s[k]]
                \/ rank[s[j]] = rank[s[k]] /\ s[j] < s[k]

----------------------------------------------------------------------------
(* Types: rows, the risk manager's state, books.                            *)

Statuses == {"none", "pending", "open", "closed", "gone", "archived"}
Actions == {"new", "ignored", "rejected", "pending", "opened", "reset"}
SomeCells == Cells \cup {NoRow.cell}

Row == [st : Statuses, cell : SomeCells, side : Sides \cup {"none"}, kind : {"now", "wait", "rest"},
        at : Nat, till : Nat, old : 0..MaxSignals, end : Nat, pnl : {-1, 0, 1}]

RiskState == [day : Nat, start : Int, tripped : BOOLEAN, halt : BOOLEAN,
              streak : [Scanners -> Nat], until : [Scanners -> Nat], seen : Nat, base : SUBSET Ids]

Books == [rows : [Ids -> Row], act : [Ids -> Actions], rec : SUBSET Ids, saved : RiskState,
          resets : Nat, open : SUBSET Ids, pend : SUBSET Ids, risk : RiskState,
          dec : BOOLEAN, mkt : Outcomes, ev : Seq(Ids), bad : BOOLEAN]

----------------------------------------------------------------------------
(* What each operation makes of a book, field by field.                     *)

ClosedRow(b, i, pnl, t) == [NoRow EXCEPT !.st = "closed", !.cell = b.rows[i].cell, !.end = t, !.pnl = pnl]

\* the rows and the actions once every entry is cancelled and every position closed
SweptRows(b, t) ==
  [i \in Ids |-> IF i \in b.pend THEN IF b.rows[i].st = "pending" THEN Gone ELSE b.rows[i]
                 ELSE IF i \in b.open THEN ClosedRow(b, i, b.mkt, t) ELSE b.rows[i]]
SweptActions(b) == [i \in Ids |-> IF i \in b.pend THEN "rejected" ELSE b.act[i]]

----------------------------------------------------------------------------
(* The risk manager's operations. What they do to the book is one of three  *)
(* things: nothing; everything is closed and the switch stays tripped; an   *)
(* exception, which only a transaction that is no decision can meet.        *)

Unmoved(b, r) ==
  /\ r.rows = b.rows /\ r.act = b.act /\ r.open = b.open /\ r.pend = b.pend /\ r.ev = b.ev /\ r.bad = b.bad

SweptTo(b, r, t) ==
  /\ r.rows = SweptRows(b, t) /\ r.act = SweptActions(b) /\ r.open = {} /\ r.pend = {}
  /\ r.ev = b.ev \o ById(b.open) /\ r.bad = b.bad
Barred(b, t) == b.risk.seen = b.resets /\ b.risk.tripped /\ b.risk.day = Day(t)
Alike(b, r) == r.resets = b.resets /\ r.dec = b.dec /\ r.mkt = b.mkt

Moves(b, r, t) ==
  /\ Alike(b, r)
  /\ Barred(b, t) => Barred(r, t)
  /\ \/ Unmoved(b, r)
     \/ ~Barred(b, t) /\ SweptTo(b, r, t) /\ Barred(r, t)
     \/ b.pend # {} /\ ~b.dec /\ r.bad

ScoresKept(b, r) ==
  /\ r.risk.streak = b.risk.streak /\ r.risk.until = b.risk.until /\ r.risk.base = b.risk.base
  /\ r.risk.seen = b.risk.seen /\ r.risk.halt = b.risk.halt
ScoresFresh(b, r) == b.risk.seen # b.resets /\ r.risk.base = r.rec

Judged(b, r, t) ==
  /\ r.saved = r.risk /\ r.risk.day = Day(t) /\ r.risk.seen = r.resets
  /\ r.risk.tripped \/ Equity(b) - r.risk.start > -LossLimit

\* what a counted trade makes of the streaks and the cooldowns
CountedIn(b, i, r) ==
  LET s == ScannerOf[b.rows[i].cell]
      n == IF b.rows[i].pnl < 0 THEN b.risk.streak[s] + 1 ELSE 0
  IN  /\ r.risk.streak = [b.risk.streak EXCEPT ![s] = n]
      /\ r.risk.until = [b.risk.until EXCEPT ![s] = IF n >= CooldownAfter THEN b.rows[i].end + CooldownTicks ELSE @]
      /\ r.risk.base = b.risk.base /\ r.risk.seen = b.risk.seen /\ r.risk.halt = b.risk.halt

\* f lists the books on the way through the first N trades of m
RecoversAs(f, b, m, N, t) ==
  /\ f[0] = b
  /\ \A n \in 0..N : n < N => f[n + 1] = OnTradeClosed(f[n], m[n + 1], t)

----------------------------------------------------------------------------
(* Decisions and fills, by their outcome.                                   *)

\* what the gate that lets an entry pass says of the state it leaves
Allowed(b, g, c) ==
  /\ Unmoved(b, g) /\ ~g.risk.halt /\ ~g.risk.tripped
  /\ ~(now < g.risk.until[ScannerOf[c]])

\* the position of the cell, and an entry that may replace it
HeldIn(b, c) == LET held == InCell(b, b.open, c) IN IF held = {} THEN 0 ELSE CHOOSE h \in held : TRUE
Cleared(g, old) == IF old \in g.open THEN CloseAt(g, old, g.mkt, now) ELSE g

Admitted(b, g, i, c, row, old, r) ==
  /\ Allowed(b, g, c) /\ InCell(b, b.pend, c) = {}
  /\ ~(Cardinality(b.open \ {old}) + Cardinality(b.pend) >= MaxOpen)
  /\ \/ row.kind # "now" /\ r = Place(g, i, row)
     \/ row.kind = "now" /\ r = OpenAt(Place(Cleared(g, old), i, row), i, now)

\* entries whose window the gate finds open
WaitingFilled(b, g, i, held, r) ==
  /\ Allowed([b EXCEPT !.pend = @ \ {i}], g, b.rows[i].cell) /\ ~(now > b.rows[i].till + PendingExpiry)
  /\ ~(Cardinality(b.open \ {held}) >= MaxOpen)
  /\ r = OpenAt(Cleared(g, held), i, now)

RestingFilled(b, g, i, time, r) ==
  /\ Allowed([b EXCEPT !.pend = @ \ {i}], g, b.rows[i].cell)
  /\ ~(time >= b.rows[i].till) /\ ~(now - time > LimitLate)
  /\ ~(Cardinality(b.open) >= MaxOpen)
  /\ r = OpenAt(g, i, now) \/ r = CloseAt(OpenAt(g, i, now), i, -1, now)
Replaced(b, i) == IF b.rows[i].old \in b.open THEN b.rows[i].old ELSE 0

----------------------------------------------------------------------------
(* The same operations id by id: what becomes of the entry or position of   *)
(* one id, all others staying as they are.                                  *)

Same(b, r) ==
  /\ r.rec = b.rec /\ r.saved = b.saved /\ r.resets = b.resets /\ r.risk = b.risk
  /\ r.dec = b.dec /\ r.mkt = b.mkt /\ r.bad = b.bad

Still(b, r, j) ==
  /\ r.rows[j] = b.rows[j] /\ r.act[j] = b.act[j]
  /\ j \in r.open <=> j \in b.open
  /\ j \in r.pend <=> j \in b.pend
Beside(b, r, i) == \A j \in Ids \ {i} : Still(b, r, j)

MarkedAs(b, r, j) ==
  /\ r.rows[j] = b.rows[j] /\ r.act[j] \in {"ignored", "rejected"}
  /\ j \in r.open <=> j \in b.open
  /\ j \in r.pend <=> j \in b.pend

PlacedAs(b, r, j, row) ==
  /\ r.rows[j] = row /\ r.act[j] = "pending" /\ j \in r.pend
  /\ j \in r.open <=> j \in b.open

Cancelled(b, r, j) ==
  /\ r.rows[j] = (IF b.rows[j].st = "pending" THEN Gone ELSE b.rows[j]) /\ r.act[j] = "rejected"
  /\ j \notin r.pend
  /\ j \in r.open <=> j \in b.open

Started(b, r, j) ==
  /\ b.rows[j].st = "pending" => r.rows[j].st = "open" /\ r.rows[j].cell = b.rows[j].cell
  /\ b.rows[j].st # "pending" => r.rows[j] = b.rows[j]
  /\ r.act[j] = "opened" /\ j \in r.open /\ j \notin r.pend

Shut(b, r, j, pnl, t) ==
  /\ r.rows[j] = ClosedRow(b, j, pnl, t) /\ r.act[j] = b.act[j] /\ j \notin r.open
  /\ j \in r.pend <=> j \in b.pend

----------------------------------------------------------------------------
(* The rest of a handler: its items, and which may stand behind which.      *)

Vias == {"none", "print", "bar", "old bar", "mark", "market"}
LateOps == {"check", "exit", "close", "house", "exits", "close all", "tick"}
BootOps == {"drop", "dropped", "missed", "first tick"}
Ops == LateOps \cup BootOps \cup {"trade", "fill", "cancel", "stamp"}
EntryOps == {"fill", "check", "exit", "close", "trade", "cancel", "drop", "dropped", "missed"}

Items == {x \in [op : Ops, id : 0..MaxSignals, via : Vias, time : Nat, loud : BOOLEAN] :
            x.op \in EntryOps => x.id \in Ids}

\* an item of op o may stand behind one of op p
Follows(p, o) ==
  \/ p = "trade" /\ (o \in {"trade", "fill"} \/ o \in LateOps)
  \/ p = "fill" /\ (o = "fill" \/ o \in LateOps)
  \/ p = "cancel" /\ (o = "cancel" \/ o \in LateOps)
  \/ p \in LateOps /\ o \in LateOps
  \/ p \in {"drop", "dropped"} /\ o \in {"drop", "missed", "first tick"}
  \/ p = "missed" /\ o \in {"missed", "first tick"}
Turns(w) == \A j, k \in 1..Len(w) : j < k => Follows(w[j].op, w[k].op)
AllLate(w) == \A k \in 1..Len(w) : w[k].op \in LateOps

\* e carries out op for each of S
Serves(e, op, S, via, time) ==
  /\ e \in Seq(Items) /\ Len(e) \in Nat
  /\ \A k \in 1..Len(e) : e[k].op = op /\ e[k].id \in S /\ e[k].via = via /\ e[k].time = time
  /\ \A j, k \in 1..Len(e) : j < k => e[j].id # e[k].id
  /\ \A i \in S : \E k \in 1..Len(e) : e[k].id = i

----------------------------------------------------------------------------
(* What a decision or a fill leaves, and when it opens a position.          *)

\* a book between two transactions: memory and table hold one risk state
Whole(b) == b \in Books /\ b.saved = b.risk /\ ~b.bad

Enters(b, r) ==
  /\ ~r.risk.halt /\ ~r.risk.tripped /\ r.risk.day = Day(now)
  /\ r.risk.seen = b.resets => Equity(b) - r.risk.start > -LossLimit
Opens(b, r) == \E j \in Ids : b.act[j] # "opened" /\ r.act[j] = "opened"

----------------------------------------------------------------------------
(* The types of the variables.                                              *)

Disks == [rows : [Ids -> Row], act : [Ids -> Actions], rec : SUBSET Ids, saved : RiskState, resets : Nat]
Mems == [open : SUBSET Ids, pend : SUBSET Ids, risk : RiskState]

\* The variables have their types, a running process holds the risk state of
\* the database, one that is down holds nothing, and the items of a handler
\* stand in an order the code can produce.
Types ==
  /\ disk \in Disks
  /\ up \in BOOLEAN /\ now \in Nat /\ source \in Sources /\ seen \in 0..MaxSignals /\ used \in Nat /\ torn \in BOOLEAN
  /\ tape \in [live : BOOLEAN, time : Nat]
  /\ fresh \in SUBSET Ids
  /\ up => mem \in Mems /\ mem.risk = disk.saved
  /\ ~up => mem = Down /\ work = <<>>
  /\ work \in Seq(Items) /\ Turns(work)

\* the book of the running handler, for a decision and for a transaction
InBook(b) ==
  /\ Whole(b) /\ b.ev = <<>> /\ b.rows = disk.rows /\ b.act = disk.act /\ b.rec = disk.rec
  /\ b.saved = disk.saved /\ b.resets = disk.resets
  /\ b.open = mem.open /\ b.pend = mem.pend /\ b.risk = mem.risk

\* what stands in the running handler after an item
NextWork(items) ==
  /\ work' \in Seq(Items) /\ Turns(work')
  /\ work' = items \/ (AllLate(items) /\ AllLate(work'))
  /\ items = <<>> => work' = <<>>

----------------------------------------------------------------------------
(* What the actions come to: a transaction is committed, or nothing happens.*)

Committed(r, loud) ==
  /\ Whole(r) /\ disk' = Durable(r) /\ mem' = Volatile(r)
  /\ NextWork(Trades(r, loud) \o Tail(work))
Left(items) == disk' = disk /\ mem' = mem /\ NextWork(items)
Runs == up /\ up' /\ now' = now /\ work # <<>> /\ seen' = seen
Begins == up /\ up' /\ now' = now /\ work = <<>>

\* the entries that wait, offered a price of this time
Offers(items, via, time) ==
  /\ \A k \in 1..Len(items) :
       \/ items[k].op \in LateOps
       \/ items[k].op = "fill" /\ items[k].id \in mem.pend /\ items[k].via = via /\ items[k].time = time
  /\ \A j, k \in 1..Len(items) : j < k /\ items[j].op = "fill" /\ items[k].op = "fill" => items[j].id # items[k].id

\* what the risk manager makes of the book in a transaction of its own
RiskResult(r) ==
  \E m \in Outcomes :
    \/ Running("trade") /\ r = OnTradeClosed([Book EXCEPT !.mkt = m], Entry, now)
    \/ Running("tick") /\ r = Tick([Book EXCEPT !.mkt = m], now)

\* the book is left as it is; the risk state may be another
Untouched ==
  /\ disk'.rows = disk.rows /\ disk'.act = disk.act /\ disk'.rec = disk.rec /\ disk'.resets = disk.resets
  /\ mem'.open = mem.open /\ mem'.pend = mem.pend

HaltedOnly ==
  /\ disk'.saved.streak = disk.saved.streak /\ disk'.saved.until = disk.saved.until
  /\ disk'.saved.base = disk.saved.base /\ disk'.saved.seen = disk.saved.seen

\* every entry that waits is to be cancelled
Cancels(items) ==
  /\ \A k \in 1..Len(items) : items[k].op \in LateOps \/ (items[k].op = "cancel" /\ items[k].id \in mem.pend)

----------------------------------------------------------------------------
(* Commands and the start of the process.                                   *)

\* the rows after a reset of the account
Archived(row) == IF row.st \in {"open", "closed", "pending"} THEN [NoRow EXCEPT !.st = "archived"] ELSE row

\* the book a starting process finds, before it has loaded its maps
Found == [rows |-> disk.rows, act |-> disk.act, rec |-> disk.rec, saved |-> disk.saved,
          resets |-> disk.resets, open |-> {}, pend |-> {}, risk |-> disk.saved,
          dec |-> FALSE, mkt |-> -1, ev |-> <<>>, bad |-> FALSE]

\* what the constructors leave to the handler that starts the application
Unloaded == {i \in Ids : disk.rows[i].st = "pending"} \ KeptEntries(disk.rows, now)

BootItem(y) ==
  \/ y.op = "drop" /\ y.id \in Unloaded
  \/ y.op = "missed" /\ y.id \in Uncounted(disk)
  \/ y.op = "first tick"

\* what the risk manager makes of the book while the application starts
StartResult(r) ==
  \E m \in Outcomes :
    \/ Running("missed") /\ r = OnTradeClosed([Book EXCEPT !.mkt = m], Entry, now)
    \/ Running("first tick") /\ r = Tick([Book EXCEPT !.mkt = m], now)

----------------------------------------------------------------------------
(* No position opens while the switch or the operator halts the account.    *)

EntersOpen ==
  \A i \in Ids : Opened(i) =>
    /\ ~mem'.risk.halt /\ ~mem'.risk.tripped
    /\ mem'.risk.day = Day(now)
    /\ mem'.risk.seen = disk.resets => Equity(disk) - mem'.risk.start > -LossLimit

----------------------------------------------------------------------------
(* Memory, table and signal agree on one id; what the operations keep of it *)

\* d holds the rows and the signals, m the maps; a book is both
SoundAt(d, m, i) ==
  /\ i \in m.open <=> d.rows[i].st = "open"
  /\ i \in m.pend <=> d.rows[i].st = "pending"
  /\ d.rows[i].st \in {"open", "closed"} <=> d.act[i] = "opened"
  /\ d.rows[i].st = "pending" => d.act[i] = "pending"
Sound(b) == \A i \in Ids : SoundAt(b, b, i)

\* nothing new comes up at this id, and an entry that waits is as it was
NoNews(b, r, j) ==
  /\ b.rows[j].st = "none" => r.rows[j].st = "none"
  /\ j \in r.pend => j \in b.pend /\ r.rows[j] = b.rows[j]
  /\ r.act[j] = "opened" => b.act[j] = "opened"

\* an entry of a snapshot waits, or the kill switch has cancelled it and will
\* refuse the rest of the snapshot
Locks(d, m, t) == m.risk.seen = d.resets /\ m.risk.tripped /\ m.risk.day = Day(t)

Known(d, m, t, i) ==
  \/ i \in m.pend
  \/ d.rows[i].st = "gone" /\ d.act[i] = "rejected" /\ Locks(d, m, t)

\* what a transaction may do to a sound book in which the entry of id i is
\* decided, filled or closed
Handles(b, r, i) ==
  /\ Sound(r)
  /\ \A j \in Ids \ {i} : /\ NoNews(b, r, j)
                          /\ Known(b, b, now, j) => Known(r, r, now, j)

----------------------------------------------------------------------------
(* Memory, table and signals agree: the invariant.                          *)

\* What an item of the running handler may take for granted: an entry to fill
\* waits, or the kill switch has cancelled it; the price is no later than now,
\* and housekeeping offers only what is due; one to cancel has not opened; one
\* to drop was not loaded; one dropped is gone.
Fits(d, m, t, x) ==
  /\ x.op = "fill" => /\ Known(d, m, t, x.id) /\ x.time <= t /\ x.via \in {"print", "bar", "mark"}
                      /\ x.via = "mark" /\ x.id \in m.pend => d.rows[x.id].kind = "wait" /\ t >= d.rows[x.id].till
  /\ x.op = "cancel" => d.rows[x.id].st \in {"pending", "gone"}
  /\ x.op = "drop" => d.rows[x.id].st = "pending" /\ x.id \notin m.pend
  /\ x.op = "dropped" => d.rows[x.id].st = "gone"

\* no entry is offered twice, none is dropped twice
Orders(w) == \A j, k \in 1..Len(w) : j < k /\ w[j].op = w[k].op /\ w[k].op \in {"fill", "drop"} => w[j].id # w[k].id
Drops(w) == {w[k].id : k \in {n \in 1..Len(w) : w[n].op = "drop"}}

Agree ==
  /\ \A i \in Ids : /\ disk.rows[i].st \in {"open", "closed"} <=> disk.act[i] = "opened"
                    /\ disk.rows[i].st = "pending" => disk.act[i] = "pending"
                    /\ i > seen => disk.rows[i].st = "none"
  /\ up => \A i \in Ids : /\ i \in mem.open <=> disk.rows[i].st = "open"
                          /\ i \in mem.pend \/ i \in Drops(work) <=> disk.rows[i].st = "pending"
  /\ \A k \in 1..Len(work) : Fits(disk, mem, now, work[k])
  /\ Orders(work)

----------------------------------------------------------------------------
(* Entries fill in their windows.                                           *)

OnTime ==
  \A i \in Ids : Opened(i) =>
    LET row == disk.rows[i]
    IN row.st = "pending" =>
         /\ row.kind = "wait" => now >= row.till /\ now <= row.till + PendingExpiry
         /\ row.kind = "rest" => Time \in row.at..(row.till - 1) /\ now - Time <= LimitLate

----------------------------------------------------------------------------
(* The limits on entries. Every cell is held by one position and one entry   *)
(* at most, and both only while the entry replaces the position, so what     *)
(* maxOpenPositions bounds is the number of cells held.                      *)

CellsOf(rows, S) == {rows[i].cell : i \in S}

Seats(rows, O, P) ==
  /\ Cardinality(CellsOf(rows, O \cup P)) <= MaxOpen
  /\ \A i, j \in O : rows[i].cell = rows[j].cell => i = j
  /\ \A i, j \in P : rows[i].cell = rows[j].cell => i = j
  /\ \A i \in O, j \in P : rows[i].cell = rows[j].cell => rows[j].old = i
  /\ \A j \in P : rows[j].kind = "rest" => rows[j].old = 0

\* The same of books.
Seated(b) == Seats(b.rows, b.open, b.pend)

LessOf(b, r) ==
  /\ r.open \subseteq b.open /\ r.pend \subseteq b.pend
  /\ \A j \in r.open \cup r.pend : r.rows[j] = b.rows[j]

----------------------------------------------------------------------------
(* The table keeps the limits.                                              *)

DiskSeated == Seats(disk.rows, IdsOf(disk, "open"), IdsOf(disk, "pending"))
Live == {"open", "pending"}

\* no row comes up or changes, but by leaving
Leaves(b, r) == \A j \in Ids : r.rows[j] = b.rows[j] \/ r.rows[j].st \notin Live

----------------------------------------------------------------------------
(* Cooldowns. What the risk manager has counted is told by the table alone:  *)
(* streak and cooldown of a scanner are never less than its closed trades    *)
(* ask for, because trades are counted in the order they closed. That order  *)
(* rests on what is still to be announced: a trade without a receipt waits   *)
(* in the running handler, oldest first, or nothing is held and nothing      *)
(* waits.                                                                    *)

Standing == {"pending", "open", "closed"}
Bare(d) == \A i \in Ids : d.rows[i].st \notin Standing

\* closed rows are complete, only closed trades have receipts, and a reset
\* nobody has looked at yet left nothing
Clean(d, t) ==
  /\ \A i \in Ids : /\ d.rows[i].st = "closed" => d.rows[i].end <= t /\ d.rows[i].pnl \in Outcomes
                    /\ i \in d.rec => d.rows[i].st \in {"closed", "archived"}
                    /\ d.rows[i].st \in Standing => d.rows[i].cell \in Cells
  /\ d.saved.base \subseteq d.rec
  /\ d.saved.seen # d.resets => Bare(d)
Scored(d) == (IdsOf(d, "closed") \cap d.rec) \ d.saved.base
Won(d, s) == {i \in Scored(d) : ScannerOf[d.rows[i].cell] = s /\ d.rows[i].pnl > 0}
Lost(d, s) == {i \in Scored(d) : ScannerOf[d.rows[i].cell] = s /\ d.rows[i].pnl < 0}

\* n bounds the losses after the last win, and losses in a row have set the
\* cooldown
Unbroken(rows, W, S) == \A w \in W, i, j \in S : ~(rows[i].end <= rows[w].end /\ rows[w].end <= rows[j].end)

Streak(rows, W, L, n, until) ==
  \A S \in SUBSET L :
    /\ (\A w \in W, i \in S : rows[w].end < rows[i].end) => Cardinality(S) <= n
    /\ Cardinality(S) >= CooldownAfter /\ Unbroken(rows, W, S)
         => \A i \in S : rows[i].end + CooldownTicks <= until

Counts(d) ==
  /\ \A u \in Uncounted(d), c \in Scored(d) : d.rows[c].end <= d.rows[u].end
  /\ \A s \in Scanners : Streak(d.rows, Won(d, s), Lost(d, s), d.saved.streak[s], d.saved.until[s])

----------------------------------------------------------------------------
(* How operations change rows and scores.                                   *)

\* one statement's change of a row, at time t
Evolves(x, y, t) ==
  \/ y = x
  \/ x.st = "none" /\ y.st = "pending" /\ y.cell \in Cells
  \/ x.st = "pending" /\ y.st = "open" /\ y.cell = x.cell
  \/ x.st = "open" /\ y.st = "closed" /\ y.cell = x.cell /\ y.end = t /\ y.pnl \in Outcomes
  \/ x.st \in {"pending", "open"} /\ y.st = "gone"
Alters(b, r, t) == \A j \in Ids : Evolves(b.rows[j], r.rows[j], t)
NoneMade(b, r) == \A j \in Ids : b.rows[j].st = "none" => r.rows[j] = b.rows[j]

SameScores(b, r) ==
  /\ r.rec = b.rec /\ r.resets = b.resets /\ r.saved.seen = b.saved.seen /\ r.saved.base = b.saved.base
  /\ r.saved.streak = b.saved.streak /\ r.saved.until = b.saved.until

----------------------------------------------------------------------------
(* The events a step leaves.                                                *)

Posted(b) == {b.ev[k] : k \in 1..Len(b.ev)}
Sealed(b, t) == \A u \in Posted(b) : b.rows[u].st = "closed" /\ b.rows[u].end = t

Announces(b, r, t) ==
  /\ Posted(b) \subseteq Posted(r)
  /\ \A j \in Ids : b.rows[j].st = "open" /\ r.rows[j].st = "closed" => j \in Posted(r)
  /\ \A j \in Posted(r) \ Posted(b) : b.rows[j].st = "open" /\ r.rows[j].st = "closed" /\ r.rows[j].end = t
Acts(b, r, t) == Alters(b, r, t) /\ Announces(b, r, t)

\* every trade without a receipt closes now and is announced
Settled(b, t) == Sealed(b, t) /\ Uncounted(b) \subseteq Posted(b)

----------------------------------------------------------------------------
(* What holds on the way through an operation.                              *)

\* what memory holds is in the table
Holds(b) ==
  /\ \A i \in b.open : b.rows[i].st = "open"
  /\ \A i \in b.pend : b.rows[i].st = "pending"

\* nothing moved, or nothing is held any more
Sweeps(b, r) == (r.rows = b.rows /\ r.ev = b.ev) \/ (r.open = {} /\ r.pend = {})

----------------------------------------------------------------------------
(* What holds while the risk manager counts trades.                         *)

Tallied(b) == Clean(b, now) /\ Counts(b) /\ Holds(b)

\* On the way through the list m: what has been counted, and that the rest of
\* the list is still in its order.
Halfway(b, f, m, n) ==
  /\ Whole(f) /\ f.dec /\ Tallied(f) /\ Sealed(f, now) /\ f.resets = b.resets
  /\ f.saved.base = b.saved.base /\ f.saved.seen = b.saved.seen
  /\ \A j \in Ids : b.rows[j].st = "closed" => f.rows[j] = b.rows[j]
  /\ \A u \in Uncounted(f) : u \in Posted(f) \/ \E k \in 1..Len(m) : k > n /\ m[k] = u

----------------------------------------------------------------------------
(* What a decision and a handler's last step leave.                         *)

\* the record is true and every trade without a receipt is announced
Lasts(r) == Clean(r, now) /\ Counts(r) /\ Settled(r, now) /\ r.saved.seen = r.resets

\* nothing was announced, nothing is left to announce that was not there
Quiet(b, r) ==
  /\ Clean(r, now) /\ Counts(r) /\ r.ev = <<>>
  /\ Uncounted(r) \subseteq Uncounted(b) /\ r.open \subseteq b.open /\ r.pend \subseteq b.pend

\* An opening at i is not one of a cooling scanner.
Cool(r, i) == r.act[i] = "opened" => ~CoolsDown(ScannerOf[r.rows[i].cell])

----------------------------------------------------------------------------
(* The record and the running handler. Posts are the items that count a     *)
(* trade. Lists of items that post nothing are Mute.                        *)

Posts == {"trade", "missed"}
Mute(w) == \A k \in 1..Len(w) : w[k].op \notin Posts \cup {"stamp"}

Due(d, t, x) ==
  /\ x.op \in Posts => d.rows[x.id].st = "closed"
  /\ x.op = "trade" => d.rows[x.id].end = t
  /\ x.op = "stamp" => Bare(d)
AllDue(d, t, w) == \A k \in 1..Len(w) : Due(d, t, w[k])

\* what is to be counted stands in the order of its ends
Lined(d, w) ==
  \A j, k \in 1..Len(w) :
    j < k /\ w[j].op \in Posts /\ w[k].op \in Posts => d.rows[w[j].id].end <= d.rows[w[k].id].end
Listed(w) == {w[k].id : k \in {n \in 1..Len(w) : w[n].op \in Posts}}

\* a trade without a receipt is listed, or nothing is held; while something
\* is listed it is listed too, or it closes now
Told(d, m, t, w) ==
  \A u \in Uncounted(d) : /\ u \in Listed(w) \/ (m.open = {} /\ m.pend = {})
                          /\ Listed(w) # {} => u \in Listed(w) \/ d.rows[u].end = t

Tracked ==
  /\ Clean(disk, now) /\ Counts(disk)
  /\ AllDue(disk, now, work) /\ Lined(disk, work)
  /\ up => Told(disk, mem, now, work)

\* as long as no write of the risk manager has failed
Streaks == ~torn => Tracked

----------------------------------------------------------------------------
(* What opens while a scanner cools down.                                   *)

CoolOpen == \A i \in Ids : Opened(i) => ~CoolsDown(ScannerOf[disk'.rows[i].cell])

============================================================================
