------------------------------- MODULE PaperBook -------------------------------
(***************************************************************************)
(* The book of the live paper account (paper/engine.ts): the rows of the    *)
(* table `positions`, the maps of open positions and pending entries the    *)
(* engine holds in memory, and what one statement group does to both. A     *)
(* book is a record                                                         *)
(*   rows, act    the rows of positions, the action column of signals       *)
(*   rec, saved   the close receipts and the risk row (RiskManager)         *)
(*   resets       paper.resetAt, by its number of changes                   *)
(*   open, pend   memory: ids of open positions and of pending entries      *)
(*   risk         memory: the risk manager's state                          *)
(* and, for the step at hand,                                               *)
(*   dec          whether commitDecision owns the transaction               *)
(*   mkt          what a position closed at the market now would realise    *)
(*   ev           the closed trades to announce after the commit            *)
(*   bad          an exception was thrown                                   *)
(* LiveAccount holds the variables. Signals are decided one after another   *)
(* and each takes at most one row, so a row has its signal's number.        *)
(* One market; prices are choices of the environment. Positions close in    *)
(* one piece and realise +1 or -1.                                          *)
(***************************************************************************)
EXTENDS Integers, FiniteSets, FiniteSetsExt, Sequences

CONSTANTS
  Cells,        \* (scanner, market, timeframe) the account trades
  Scanners, ScannerOf,
  RestCells,    \* cells whose entries rest as maker limits (limitEntry)
  Sides,        \* long and short
  MaxSignals,   \* bound: signals decided
  Latency, PendingExpiry, QuietFill, LimitLife, LimitLate,   \* in ticks
  MaxOpen       \* paper.maxOpenPositions

ASSUME BookAssumption ==
  /\ ScannerOf \in [Cells -> Scanners]
  /\ RestCells \subseteq Cells
  /\ {MaxSignals, Latency, PendingExpiry, QuietFill, LimitLife, LimitLate, MaxOpen}
       \subseteq Nat
  /\ 0 \notin {MaxSignals, LimitLife, MaxOpen}

Ids == 1..MaxSignals
Outcomes == {-1, 1}

\* kind: how the entry reaches the book; at: placed, then filled; till: due
\* time of a deferred entry, expiry of a limit; old: the position a reversal
\* replaces; end, pnl: of a closed position
NoRow == [st |-> "none", cell |-> CHOOSE c \in Cells : TRUE, side |-> "none",
          kind |-> "now", at |-> 0, till |-> 0, old |-> 0, end |-> 0, pnl |-> 0]

IdsOf(b, st) == {i \in Ids : b.rows[i].st = st}
InCell(b, S, c) == {i \in S : b.rows[i].cell = c}

\* equity() without the open positions, whose price is not followed: a trade
\* won or lost one
Equity(b) ==
  LET closed == IdsOf(b, "closed")
  IN Cardinality({i \in closed : b.rows[i].pnl > 0}) - Cardinality({i \in closed : b.rows[i].pnl < 0})

Gone == [NoRow EXCEPT !.st = "gone"]

\* the ids of S by rank, those of one rank by id
InOrder(S, rank) ==
  CHOOSE s \in [1..Cardinality(S) -> S] :
    \A j, k \in 1..Cardinality(S) :
      j < k => \/ rank[s[j]] < rank[s[k]]
               \/ rank[s[j]] = rank[s[k]] /\ s[j] < s[k]
ById(S) == InOrder(S, [i \in S |-> 0])

(* ---- what one group of statements does ---------------------------------- *)

\* nextId, pending.set and the UPDATE that fills in the row
Place(b, i, row) ==
  [b EXCEPT !.rows[i] = row, !.pend = @ \cup {i}, !.act[i] = "pending"]

\* Mutant: the signal is rejected, the row stays.
MutCancelKeepsRow(b, i) == [b EXCEPT !.pend = @ \ {i}, !.act[i] = "rejected"]

\* cancelPending and the cancel() of both fills
CancelEntry(b, i) ==
  [b EXCEPT !.pend = @ \ {i},
            !.rows[i] = IF @.st = "pending" THEN Gone ELSE @,
            !.act[i] = "rejected"]

\* openAt on the row nextId made; an UPDATE of a deleted row changes nothing
OpenAt(b, i, t) ==
  [b EXCEPT !.rows[i] = IF @.st = "pending" THEN [@ EXCEPT !.st = "open", !.at = t] ELSE @,
            !.pend = @ \ {i}, !.open = @ \cup {i}, !.act[i] = "opened"]

\* applyFills with an exit for the whole quantity, once it commits; of a closed
\* trade the model keeps what is still read
CloseAt(b, i, pnl, t) ==
  [b EXCEPT !.rows[i] = [NoRow EXCEPT !.st = "closed", !.cell = b.rows[i].cell, !.end = t, !.pnl = pnl],
            !.open = @ \ {i}, !.ev = Append(@, i)]

\* closeAll: every pending is cancelled before any position is closed.
\* cancelPending opens a decision unless one is active, and commitDecision
\* refuses to run inside a transaction it does not own.
CloseEverything(b, t, inTransaction) ==
  IF b.pend # {} /\ inTransaction /\ ~b.dec
  THEN [b EXCEPT !.bad = TRUE]
  ELSE [b EXCEPT !.rows = [i \in Ids |-> CASE i \in b.pend -> CancelEntry(b, i).rows[i]
                                            [] i \in b.open \ b.pend -> CloseAt(b, i, b.mkt, t).rows[i]
                                            [] OTHER -> @[i]],
                 !.act = [i \in Ids |-> IF i \in b.pend THEN CancelEntry(b, i).act[i] ELSE @[i]],
                 !.open = {}, !.pend = {},
                 !.ev = @ \o ById(b.open)]

(* ---- what survives ------------------------------------------------------ *)

Durable(b) == [rows |-> b.rows, act |-> b.act, rec |-> b.rec,
               saved |-> b.saved, resets |-> b.resets]
Volatile(b) == [open |-> b.open, pend |-> b.pend, risk |-> b.risk]

\* PaperEngine constructor: open rows; pendings only if they rest and have
\* not lapsed
KeptEntries(rows, t) ==
  {i \in Ids : rows[i].st = "pending" /\ rows[i].kind = "rest" /\ rows[i].till > t}

================================================================================
