--------------------------- MODULE ExchangeExecutor ---------------------------
(***************************************************************************)
(* How one paper position is carried to the exchange and back              *)
(* (server/src/execution/testnet.ts, outbox.ts, ledger.ts), in the         *)
(* configuration execution.bracket = false: every paper fill goes out as a *)
(* market order, exits reduce-only.                                        *)
(*                                                                         *)
(* Durable state: the paper book, the command outbox written in the same   *)
(* transaction as the paper fill, and the order ledger written before each *)
(* POST.  Memory: the exposure map, the unconfirmed and stranded maps, the *)
(* promise queue of tasks.  SIGKILL may fall between any two steps.        *)
(*                                                                         *)
(* The executor is sequential: one task of the queue at a time, `ctl` says *)
(* where it stands.  At an await (Waiting) paper events may interleave; at *)
(* the other points only the exchange moves.                               *)
(***************************************************************************)
EXTENDS Integers, Sequences, FiniteSets, FiniteSetsExt

CONSTANTS
    Qty,          \* contracts of the paper entry
    MaxFaults,    \* bound: lost or refused requests, unanswered calls
    MaxShort,     \* bound: market orders that end short of their size
    MaxCrashes    \* bound: SIGKILLs

ASSUME ExecutorAssumption ==
    /\ Qty \in Nat \ {0}
    /\ MaxFaults \in Nat /\ MaxShort \in Nat /\ MaxCrashes \in Nat

VARIABLES
    book,     \* the paper position: [status, qty, open]
    cmds,     \* execution_commands, by id: [kind, qty, state]
    ledger,   \* exchange_orders, by id: [cmd, src, purpose, size, state, known, filled]
    exch,     \* the exchange's side of each ledger row: [st, filled]
    mem,      \* [exposure, unconfirmed, stranded, deferred, listening, products]; unheard is history:
              \* the position closed before the listeners of this process were installed, and no
              \* recover() that knew the fate of its entry looked since
    tasks,    \* the promise queue behind the running task
    ctl,      \* [task, at, why, row, verdict, nested, todo, rows]: todo and rows are the ids a
              \* query returned that are still to be looked at, the oldest first (ORDER BY id)
    faults, shorts, crashes

durable == <<book, cmds, ledger>>
budget  == <<faults, shorts, crashes>>
vars == <<durable, exch, mem, tasks, ctl, budget>>

CommandStates == {"pending", "dispatching", "delivered", "cancelled", "blocked"}
LedgerStates == {"intent", "submitted", "acknowledged", "filled", "cancelled", "rejected", "unknown"}
OpenStates == {"intent", "submitted", "acknowledged", "unknown"}

Points == {"idle", "recover", "snapshot", "drain", "leverage", "void", "post", "confirm", "settle",
           "record", "rest", "strand", "unconfirmed"}
Waiting == {"idle", "snapshot", "leverage", "post", "confirm"}
Tasks == {"start", "drain", "closed", "voided", "sweep"}
\* what an order is sent, looked up or voided for
Reasons == {"none", "expired", "enter", "exit", "rest", "stranded", "pending", "unconfirmed", "recover"}

Row == [cmd : Nat, src : Nat, purpose : {"entry", "exit"}, size : Nat \ {0},
        state : LedgerStates, known : BOOLEAN, filled : Nat]

TypeOK ==
    /\ book \in [status : {"none", "open", "closed", "void"}, qty : 0..Qty, open : 0..Qty]
    /\ cmds \in Seq([kind : {"entry", "exit"}, qty : 1..Qty, state : CommandStates])
    /\ ledger \in Seq(Row)
    /\ exch \in Seq([st : {"wire", "lost", "refused", "open", "done"}, filled : Nat])
    /\ Len(exch) = Len(ledger)
    /\ mem \in [exposure : 0..Qty, unconfirmed : 0..Len(ledger), stranded : BOOLEAN,
                deferred : BOOLEAN, listening : BOOLEAN, products : BOOLEAN, unheard : BOOLEAN]
    /\ tasks \in Seq(Tasks)
    /\ ctl \in [task : Tasks, at : Points, why : Reasons, row : 0..Len(ledger),
                verdict : {"none", "filled", "unfilled", "unknown"}, nested : BOOLEAN,
                todo : SUBSET DOMAIN cmds, rows : SUBSET DOMAIN ledger]
    /\ faults \in 0..MaxFaults /\ shorts \in 0..MaxShort /\ crashes \in 0..MaxCrashes

NoMem == [exposure |-> 0, unconfirmed |-> 0, stranded |-> FALSE, deferred |-> FALSE, listening |-> FALSE,
          products |-> FALSE, unheard |-> FALSE]
NoCtl == [task |-> "start", at |-> "idle", why |-> "none", row |-> 0, verdict |-> "none",
          nested |-> FALSE, todo |-> {}, rows |-> {}]

Init ==
    /\ book = [status |-> "none", qty |-> 0, open |-> 0]
    /\ cmds = <<>> /\ ledger = <<>> /\ exch = <<>>
    /\ mem = NoMem
    /\ tasks = <<"start">>
    /\ ctl = NoCtl
    /\ faults = 0 /\ shorts = 0 /\ crashes = 0

-----------------------------------------------------------------------------
(* What the tables say.                                                    *)

Fault == faults < MaxFaults /\ faults' = faults + 1

Rows == DOMAIN ledger

\* The sum of a sequence of numbers.
Total(f) == LET sum[n \in 0..Len(f)] == IF n = 0 THEN 0 ELSE sum[n - 1] + f[n]
            IN  sum[Len(f)]

Pending == {c \in DOMAIN cmds : cmds[c].state \in {"pending", "dispatching"}}
Unsettled == {r \in Rows : ledger[r].state \in OpenStates}
RowsOf(c) == {r \in Rows : ledger[r].cmd = c}

Least(a, b) == IF a < b THEN a ELSE b
NotBelowZero(n) == IF n < 0 THEN 0 ELSE n

\* entries filled minus exits filled, as x counts the fills of the orders in l
Net(l, x) == Total([r \in DOMAIN l |-> IF l[r].purpose = "entry" THEN x[r].filled ELSE -x[r].filled])
\* filledExposure(): by the ledger, never below zero
Exposure(l) == NotBelowZero(Net(l, l))

\* contracts of the exit command c that no ledger fill accounts for yet
Uncovered(c) == cmds[c].qty - Total([r \in Rows |-> IF ledger[r].src = c THEN ledger[r].filled ELSE 0])
Open == {c \in DOMAIN cmds : cmds[c].kind = "exit" /\ Uncovered(c) > 0}
\* remainder(): the oldest exit of the book that is not covered; a voided position has no orders
HasRemainder == book.status # "void" /\ Open # {}
Remainder == Min(Open)

\* drainOutbox: the part of the exposure the book no longer wants
Gap == NotBelowZero(mem.exposure - (IF book.status = "open" THEN book.open ELSE 0))

-----------------------------------------------------------------------------
(* The paper book (paper/engine.ts), as the executor sees it.              *)

\* applyFills: the fill and its command commit together, then the events are emitted; a listener is
\* installed only once start() has recovered.
Emit(events) == tasks' = IF mem.listening THEN tasks \o events ELSE tasks

Command(k, q) == [kind |-> k, qty |-> q, state |-> "pending"]

\* the feed moves the book between two turns of the executor
PaperMoves == ctl.at \in Waiting

PaperEntry ==
    /\ PaperMoves /\ book.status = "none"
    /\ book' = [status |-> "open", qty |-> Qty, open |-> Qty]
    /\ cmds' = Append(cmds, Command("entry", Qty))
    /\ Emit(<<"drain">>)
    /\ UNCHANGED <<ledger, exch, mem, ctl, budget>>

\* one partial exit (a first target), or the rest at once
PaperExit(q) ==
    /\ PaperMoves /\ book.status = "open" /\ q \in 1..book.open
    /\ q < book.open => book.open = book.qty
    /\ cmds' = Append(cmds, Command("exit", q))
    /\ IF q < book.open
       THEN book' = [book EXCEPT !.open = @ - q] /\ Emit(<<"drain">>) /\ UNCHANGED mem
       ELSE /\ book' = [book EXCEPT !.open = 0, !.status = "closed"] /\ Emit(<<"drain", "closed">>)
            /\ mem' = [mem EXCEPT !.unheard = ~mem.listening]
    /\ UNCHANGED <<ledger, exch, ctl, budget>>

\* voidPosition: nothing happens unless the position is open
Void == IF book.status = "open"
        THEN book' = [status |-> "void", qty |-> 0, open |-> 0] /\ Emit(<<"voided">>)
        ELSE UNCHANGED <<book, tasks>>

\* adoptEntryFill: a position that was partly exited is left as it is
Adopt(filled) == book' = IF book.status = "open" /\ book.open = book.qty
                         THEN [book EXCEPT !.qty = filled, !.open = filled] ELSE book

-----------------------------------------------------------------------------
(* The exchange.                                                           *)

Held == Net(ledger, exch)
Full(r) == exch[r].filled = ledger[r].size
Done(r) == exch[r].st = "done" \/ (exch[r].st = "open" /\ Full(r))

\* a request on the wire is accepted, however late
Accept(r) ==
    /\ exch[r].st = "wire"
    /\ exch' = [exch EXCEPT ![r].st = "open"]
    /\ UNCHANGED <<durable, mem, tasks, ctl, budget>>

\* or never arrives, or is refused
Drop(r, how) ==
    /\ exch[r].st = "wire" /\ how \in {"lost", "refused"}
    /\ Fault
    /\ exch' = [exch EXCEPT ![r].st = how]
    /\ UNCHANGED <<durable, mem, tasks, ctl, shorts, crashes>>

\* reduce-only: an exit fills only while the exchange holds contracts
Fill(r) ==
    /\ exch[r].st = "open" /\ ~Full(r)
    /\ ledger[r].purpose = "exit" => Held > 0
    /\ exch' = [exch EXCEPT ![r].filled = @ + 1]
    /\ UNCHANGED <<durable, mem, tasks, ctl, budget>>

\* the exchange ends an order short of its size
EndShort(r) ==
    /\ exch[r].st = "open" /\ ~Full(r) /\ shorts < MaxShort
    /\ exch' = [exch EXCEPT ![r].st = "done"]
    /\ shorts' = shorts + 1
    /\ UNCHANGED <<durable, mem, tasks, ctl, faults, crashes>>

-----------------------------------------------------------------------------
(* Control.                                                                *)

Goto(p) == ctl' = [ctl EXCEPT !.at = p, !.why = "none", !.row = 0, !.verdict = "none"]
Finish == ctl' = NoCtl
SetCommand(c, s) == cmds' = [cmds EXCEPT ![c].state = s]
SetRow(r, s) == ledger' = [ledger EXCEPT ![r].state = s]

\* send(): the intent is committed, then the request goes out
Send(c, src, p, n, why) ==
    /\ ledger' = Append(ledger, [cmd |-> c, src |-> src, purpose |-> p, size |-> n,
                                 state |-> "intent", known |-> FALSE, filled |-> 0])
    /\ exch' = Append(exch, [st |-> "wire", filled |-> 0])
    /\ ctl' = [ctl EXCEPT !.at = "post", !.why = why, !.row = Len(ledger) + 1, !.verdict = "none"]

\* closeStranded() returns: the sweep goes on, the task of a closed position ends
FinishStrand == IF ctl.task = "sweep" THEN Goto("unconfirmed") ELSE Finish

-----------------------------------------------------------------------------
(* The promise queue.                                                      *)

StartRecover(nested, task, products) ==
    /\ mem' = [mem EXCEPT !.deferred = FALSE, !.products = products]
    /\ ctl' = [ctl EXCEPT !.task = task, !.at = "recover", !.nested = nested, !.why = "none", !.row = 0,
                          !.rows = Unsettled \cup {r \in Rows : ledger[r].cmd \in Pending}]

StartDrain(task, products) ==
    /\ ctl' = [ctl EXCEPT !.task = task, !.at = "drain", !.nested = FALSE, !.todo = Pending]
    /\ mem' = [mem EXCEPT !.products = products]

\* loadProducts(): when it fails the catalogue stays as it was
LoadProducts(products) == \/ products /\ UNCHANGED faults
                          \/ products = mem.products /\ Fault
\* sweep() asks for the catalogue only when a pending command misses its product
SweepLoads(products) == IF Pending # {} /\ ~mem.products THEN LoadProducts(products)
                                                        ELSE products = mem.products /\ UNCHANGED faults

SweepRecovers == mem.deferred \/ Pending # {} \/ \E r \in Unsettled : ledger[r].purpose = "exit"

TakeTask ==
    /\ ctl.at = "idle" /\ tasks # <<>>
    /\ tasks' = Tail(tasks)
    /\ LET t == Head(tasks) IN
       CASE t = "start" -> \E products \in BOOLEAN : LoadProducts(products) /\ StartRecover(FALSE, t, products)
         [] t = "drain" -> StartDrain(t, mem.products) /\ UNCHANGED faults
         [] t = "sweep" -> \E products \in BOOLEAN :
              /\ SweepLoads(products)
              /\ IF SweepRecovers THEN StartRecover(FALSE, t, products) ELSE StartDrain(t, products)
         \* onPosition: a closed position the exchange still holds is stranded, if its product is known
         [] t = "closed" /\ mem.exposure > 0 /\ mem.products ->
              /\ mem' = [mem EXCEPT !.unconfirmed = 0, !.stranded = TRUE]
              /\ ctl' = [ctl EXCEPT !.task = t, !.at = "strand"]
              /\ UNCHANGED faults
         [] OTHER -> /\ mem' = [mem EXCEPT !.unconfirmed = 0]
                     /\ UNCHANGED <<ctl, faults>>
    /\ UNCHANGED <<durable, exch, shorts, crashes>>

\* the interval timer of start(); sweeps that pile up behind a long task count as one
SweepTick ==
    /\ mem.listening /\ ctl.at \in Waiting
    /\ \A i \in DOMAIN tasks : tasks[i] # "sweep"
    /\ tasks' = Append(tasks, "sweep")
    /\ UNCHANGED <<durable, exch, mem, ctl, budget>>

-----------------------------------------------------------------------------
(* recover().                                                              *)

\* step 1, the next row: settled rows are taken as they are, the others are looked up once
RecoverRow ==
    /\ ctl.at = "recover" /\ ctl.rows # {}
    /\ LET r == Min(ctl.rows) IN
       ctl' = [ctl EXCEPT !.why = "recover", !.row = r, !.rows = @ \ {r},
                          !.at = IF r \in Unsettled THEN "confirm" ELSE "settle",
                          !.verdict = CASE r \in Unsettled -> "none"
                                        [] ledger[r].state = "filled" -> "filled"
                                        [] OTHER -> "unfilled"]
    /\ UNCHANGED <<durable, exch, mem, tasks, budget>>

\* step 1b: the exposure map is rebuilt from the ledger, then the open orders are asked for
RecoverExposure ==
    /\ ctl.at = "recover" /\ ctl.rows = {}
    /\ mem' = [mem EXCEPT !.exposure = Exposure(ledger)]
    /\ Goto("snapshot")
    /\ UNCHANGED <<durable, exch, tasks, budget>>

\* start() and sweep() go on to drainOutbox(), a nested recover() returns to its command
AfterRecover ==
    ctl' = IF ctl.nested THEN [ctl EXCEPT !.at = "record", !.nested = FALSE]
                         ELSE [ctl EXCEPT !.at = "drain", !.todo = Pending]

\* mutant: recover() does not look for closed positions that are still held
SnapshotOnly ==
    /\ ctl.at = "snapshot"
    /\ AfterRecover
    /\ UNCHANGED <<durable, exch, mem, tasks, budget>>

\* step 4: a closed position the exchange still holds is stranded, if its product is known
SnapshotAnswered ==
    /\ ctl.at = "snapshot"
    /\ mem' = [mem EXCEPT !.stranded = @ \/ (mem.exposure > 0 /\ book.status = "closed" /\ mem.products),
                          !.unheard = @ /\ mem.unconfirmed # 0]
    /\ AfterRecover
    /\ UNCHANGED <<durable, exch, tasks, budget>>

\* no snapshot: steps 2 to 4 are deferred to the next sweep
SnapshotFails ==
    /\ ctl.at = "snapshot" /\ Fault
    /\ mem' = [mem EXCEPT !.deferred = TRUE]
    /\ AfterRecover
    /\ UNCHANGED <<durable, exch, tasks, shorts, crashes>>

-----------------------------------------------------------------------------
(* drainOutbox() and enter().                                              *)

Cmd == Min(ctl.todo)
Draining == ctl.at = "drain" /\ ctl.todo # {}
NextCommand == ctl' = [ctl EXCEPT !.at = "drain", !.why = "none", !.row = 0, !.verdict = "none", !.todo = @ \ {Cmd}]
\* `waiting`: the later commands of the position are left for another turn
StopDrain == ctl' = [ctl EXCEPT !.todo = {}]

\* every command was looked at; start() installs its listeners and drains once more
DrainEnds ==
    /\ ctl.at = "drain" /\ ctl.todo = {}
    /\ IF ctl.task = "sweep" THEN Goto("rest") ELSE Finish
    /\ IF ctl.task = "start"
       THEN mem' = [mem EXCEPT !.listening = TRUE] /\ tasks' = <<"drain">>
       ELSE UNCHANGED <<mem, tasks>>
    /\ UNCHANGED <<durable, exch, budget>>

\* a command that has a ledger row is never sent again: recover() finds out what became of it
DrainKnown ==
    /\ Draining /\ RowsOf(Cmd) # {}
    /\ StartRecover(TRUE, ctl.task, mem.products)
    /\ UNCHANGED <<durable, exch, tasks, budget>>

\* the position was voided, or it was closed before its entry went out
DrainStale ==
    /\ Draining /\ RowsOf(Cmd) = {}
    /\ book.status = "void" \/ (cmds[Cmd].kind = "entry" /\ book.status = "closed")
    /\ SetCommand(Cmd, "cancelled")
    /\ NextCommand
    /\ UNCHANGED <<book, ledger, exch, mem, tasks, budget>>

\* entryCommandMaxAgeSec has passed: the command is cancelled, then the position is voided
DrainExpired ==
    /\ Draining /\ RowsOf(Cmd) = {} /\ cmds[Cmd].kind = "entry" /\ book.status = "open"
    /\ SetCommand(Cmd, "cancelled")
    /\ ctl' = [ctl EXCEPT !.at = "void", !.why = "expired"]
    /\ UNCHANGED <<book, ledger, exch, mem, tasks, budget>>

\* the product catalogue is missing, or an exit whose position has an unresolved order
DrainWaits ==
    /\ Draining /\ RowsOf(Cmd) = {} /\ book.status # "void"
    /\ \/ cmds[Cmd].kind = "exit" /\ Unsettled # {}
       \/ (cmds[Cmd].kind = "exit" \/ book.status = "open") /\ ~mem.products
    /\ SetCommand(Cmd, "pending")
    /\ StopDrain
    /\ UNCHANGED <<book, ledger, exch, mem, tasks, budget>>

DrainEntry ==
    /\ Draining /\ RowsOf(Cmd) = {} /\ cmds[Cmd].kind = "entry" /\ book.status = "open" /\ mem.products
    /\ SetCommand(Cmd, "dispatching")
    /\ Goto("leverage")
    /\ UNCHANGED <<book, ledger, exch, mem, tasks, budget>>

\* mutant: the ledger is not asked whether the exit went out before the crash
DrainExitAgain ==
    /\ Draining /\ cmds[Cmd].kind = "exit" /\ book.status # "void" /\ Unsettled = {} /\ mem.products
    /\ IF Gap = 0
       THEN SetCommand(Cmd, "delivered") /\ NextCommand /\ UNCHANGED <<ledger, exch>>
       ELSE SetCommand(Cmd, "dispatching") /\ Send(Cmd, Cmd, "exit", Least(cmds[Cmd].qty, Gap), "exit")
    /\ UNCHANGED <<book, mem, tasks, budget>>

\* an exit is cut to the confirmed exposure the book no longer wants
DrainExit ==
    /\ Draining /\ RowsOf(Cmd) = {} /\ cmds[Cmd].kind = "exit" /\ book.status # "void" /\ Unsettled = {}
    /\ mem.products
    /\ IF Gap = 0
       THEN SetCommand(Cmd, "delivered") /\ NextCommand /\ UNCHANGED <<ledger, exch>>
       ELSE SetCommand(Cmd, "dispatching") /\ Send(Cmd, Cmd, "exit", Least(cmds[Cmd].qty, Gap), "exit")
    /\ UNCHANGED <<book, mem, tasks, budget>>

\* mutant: the book is not read again after the leverage call
LeverageHeldStale ==
    /\ ctl.at = "leverage"
    /\ Send(Cmd, Cmd, "entry", cmds[Cmd].qty, "enter")
    /\ UNCHANGED <<book, cmds, mem, tasks, budget>>

\* the leverage call answered: the entry goes out unless the book closed meanwhile
LeverageHeld ==
    /\ ctl.at = "leverage"
    /\ IF book.status = "open" THEN Send(Cmd, Cmd, "entry", cmds[Cmd].qty, "enter")
                               ELSE Goto("record") /\ UNCHANGED <<ledger, exch>>
    /\ UNCHANGED <<book, cmds, mem, tasks, budget>>

\* it was refused, or the command expired meanwhile: no order, the position is voided
LeverageRefused ==
    /\ ctl.at = "leverage"
    /\ Void /\ Goto("record")
    /\ UNCHANGED <<cmds, ledger, exch, mem, budget>>

VoidPosition ==
    /\ ctl.at = "void"
    /\ Void
    /\ IF ctl.why = "expired" THEN NextCommand ELSE Goto("record")
    /\ UNCHANGED <<cmds, ledger, exch, mem, budget>>

\* the outcome of the command is written to the outbox
RecordCommand ==
    /\ ctl.at = "record"
    /\ SetCommand(Cmd, IF RowsOf(Cmd) = {} THEN "cancelled"
                       ELSE IF \E r \in RowsOf(Cmd) : ledger[r].state = "rejected" THEN "blocked" ELSE "delivered")
    /\ NextCommand
    /\ UNCHANGED <<book, ledger, exch, mem, tasks, budget>>

-----------------------------------------------------------------------------
(* send() and confirm().                                                   *)

Order == exch[ctl.row]

PostOk ==
    /\ ctl.at = "post" /\ Order.st \in {"open", "done"}
    /\ ledger' = [ledger EXCEPT ![ctl.row].state = "submitted", ![ctl.row].known = TRUE]
    /\ ctl' = [ctl EXCEPT !.at = "confirm"]
    /\ UNCHANGED <<book, cmds, exch, mem, tasks, budget>>

\* a definitive rejection: an entry voids its position
PostRejected ==
    /\ ctl.at = "post" /\ Order.st = "refused"
    /\ SetRow(ctl.row, "rejected")
    /\ CASE ctl.why = "enter" -> ctl' = [ctl EXCEPT !.at = "void"]
         [] ctl.why = "exit"  -> Goto("record")
         [] ctl.why = "rest"  -> Goto("strand")
         [] OTHER             -> FinishStrand
    /\ UNCHANGED <<book, cmds, exch, mem, tasks, budget>>

\* no answer, whatever became of the request: the outcome is unknown
PostUnanswered ==
    /\ ctl.at = "post"
    /\ IF Order.st = "lost" THEN UNCHANGED faults ELSE Fault
    /\ SetRow(ctl.row, "unknown")
    /\ IF ctl.why = "stranded" THEN FinishStrand ELSE ctl' = [ctl EXCEPT !.at = "confirm"]
    /\ UNCHANGED <<book, cmds, exch, mem, tasks, shorts, crashes>>

Found == ctl.at = "confirm" /\ Order.st \in {"open", "done"}

\* one answer to a lookup: the cumulative fill is recorded and the exposure follows the ledger
Observe(state) ==
    /\ ledger' = [ledger EXCEPT ![ctl.row].state = state, ![ctl.row].known = TRUE, ![ctl.row].filled = Order.filled]
    /\ mem' = [mem EXCEPT !.exposure = Exposure(ledger')]

Verdict(v) == ctl' = [ctl EXCEPT !.at = "settle", !.verdict = v]

\* mutant: any fill seen is taken for the final one
LookupDoneEarly ==
    /\ Found /\ (Done(ctl.row) \/ Order.filled > 0)
    /\ IF Order.filled > 0 THEN Observe("filled") /\ Verdict("filled")
                           ELSE Observe("cancelled") /\ Verdict("unfilled")
    /\ UNCHANGED <<book, cmds, exch, tasks, budget>>

LookupDone ==
    /\ Found /\ Done(ctl.row)
    /\ IF Order.filled > 0 THEN Observe("filled") /\ Verdict("filled")
                           ELSE Observe("cancelled") /\ Verdict("unfilled")
    /\ UNCHANGED <<book, cmds, exch, tasks, budget>>

\* the order is still open when confirmSec ends: the exchange has it, its fill is not final
LookupOpen ==
    /\ Found /\ ~Done(ctl.row)
    /\ Observe("acknowledged") /\ Verdict("unknown")
    /\ UNCHANGED <<book, cmds, exch, tasks, budget>>

\* still open and confirmSec is not over: confirm() polls on (confirmOnce() does not)
LookupAgain ==
    /\ Found /\ ~Done(ctl.row) /\ ctl.why \in {"enter", "exit", "rest", "stranded"}
    /\ Order.filled > ledger[ctl.row].filled \/ ~ledger[ctl.row].known
    /\ Observe(IF ledger[ctl.row].known THEN ledger[ctl.row].state ELSE "submitted")
    /\ UNCHANGED <<book, cmds, exch, tasks, ctl, budget>>

\* the exchange does not know the order (yet), or does not answer
LookupEmpty ==
    /\ ctl.at = "confirm"
    /\ IF Found THEN Fault ELSE UNCHANGED faults
    /\ SetRow(ctl.row, "unknown")
    /\ Verdict("unknown")
    /\ UNCHANGED <<book, cmds, exch, mem, tasks, shorts, crashes>>

-----------------------------------------------------------------------------
(* What is done with the answer.                                           *)

\* settleEntry(): wait, void or restate
SettleEntry ==
    /\ ctl.at = "settle" /\ ctl.why \in {"enter", "unconfirmed"}
    /\ mem' = [mem EXCEPT !.unconfirmed = IF ctl.verdict = "unknown" THEN ctl.row ELSE 0]
    /\ CASE ctl.verdict = "unknown"  -> UNCHANGED <<book, tasks>>
         [] ctl.verdict = "unfilled" -> Void
         [] OTHER                    -> Adopt(ledger[ctl.row].filled) /\ UNCHANGED tasks
    /\ IF ctl.why = "enter" THEN Goto("record") ELSE Finish
    /\ UNCHANGED <<cmds, ledger, exch, budget>>

\* marketExit(): what is not filled stays in the exposure map
SettleExit ==
    /\ ctl.at = "settle" /\ ctl.why \in {"exit", "rest"}
    /\ Goto(IF ctl.why = "exit" THEN "record" ELSE "strand")
    /\ UNCHANGED <<durable, exch, mem, tasks, budget>>

\* mutant: one fill is taken for all of the stranded contracts
SettleStrandedOnce ==
    /\ ctl.at = "settle" /\ ctl.why = "stranded"
    /\ mem' = [mem EXCEPT !.stranded = ctl.verdict # "filled"]
    /\ FinishStrand
    /\ UNCHANGED <<durable, exch, tasks, budget>>

SettleStranded ==
    /\ ctl.at = "settle" /\ ctl.why = "stranded"
    /\ mem' = [mem EXCEPT !.stranded = ~(ctl.verdict = "filled" /\ mem.exposure = 0)]
    /\ FinishStrand
    /\ UNCHANGED <<durable, exch, tasks, budget>>

\* closeStranded(): exits not settled yet are looked up first; one that stays unknown ends the turn
SettlePending ==
    /\ ctl.at = "settle" /\ ctl.why = "pending"
    /\ IF ctl.verdict = "unknown"
       THEN SetRow(ctl.row, "unknown") /\ FinishStrand
       ELSE /\ UNCHANGED ledger
            /\ IF ctl.rows = {} THEN FinishStrand
               ELSE ctl' = [ctl EXCEPT !.at = "confirm", !.row = Min(ctl.rows), !.rows = @ \ {Min(@)},
                                       !.verdict = "none"]
    /\ UNCHANGED <<book, cmds, exch, mem, tasks, budget>>

SettleRecovered ==
    /\ ctl.at = "settle" /\ ctl.why = "recover"
    /\ LET r == ctl.row
           entry == ledger[r].purpose = "entry" IN
       /\ CASE entry /\ ctl.verdict = "filled" -> Adopt(ledger[r].filled) /\ UNCHANGED tasks
            [] entry /\ ctl.verdict = "unfilled" /\ book.open = book.qty -> Void
            [] OTHER -> UNCHANGED <<book, tasks>>
       /\ mem' = IF ~entry THEN mem
                 ELSE [mem EXCEPT !.unconfirmed = IF ctl.verdict = "unknown" /\ book.status = "open" THEN r ELSE 0]
    /\ Goto("recover")
    /\ UNCHANGED <<cmds, ledger, exch, budget>>

-----------------------------------------------------------------------------
(* The rest of sweep().                                                    *)

\* an open position whose partial exit did not fill: one remainder is sent again
SweepRest ==
    /\ ctl.at = "rest"
    /\ IF book.status = "open" /\ HasRemainder /\ mem.products /\ Gap > 0 /\ Pending = {} /\ Unsettled = {}
       THEN Send(0, Remainder, "exit", Least(Gap, Uncovered(Remainder)), "rest")
       ELSE Goto("strand") /\ UNCHANGED <<ledger, exch>>
    /\ UNCHANGED <<book, cmds, mem, tasks, budget>>

\* mutant: an exit of unknown outcome is taken for settled
UnsettledExitsAnswered == {r \in Unsettled : ledger[r].purpose = "exit" /\ ledger[r].state # "unknown"}
UnsettledExits == {r \in Unsettled : ledger[r].purpose = "exit"}

CloseStranded ==
    /\ ctl.at = "strand"
    /\ \/ /\ ~mem.stranded
          /\ FinishStrand /\ UNCHANGED <<ledger, exch, mem>>
       \/ /\ mem.stranded /\ UnsettledExits # {}
          /\ LET r == Min(UnsettledExits) IN
             ctl' = [ctl EXCEPT !.at = "confirm", !.why = "pending", !.row = r, !.rows = UnsettledExits \ {r}]
          /\ UNCHANGED <<ledger, exch, mem>>
       \/ /\ mem.stranded /\ UnsettledExits = {} /\ mem.exposure = 0
          /\ mem' = [mem EXCEPT !.stranded = FALSE]
          /\ FinishStrand /\ UNCHANGED <<ledger, exch>>
       \/ /\ mem.stranded /\ UnsettledExits = {} /\ mem.exposure > 0
          /\ IF HasRemainder
             THEN Send(0, Remainder, "exit", Least(mem.exposure, Uncovered(Remainder)), "stranded")
             ELSE Send(0, 0, "exit", mem.exposure, "stranded")
          /\ UNCHANGED mem
    /\ UNCHANGED <<book, cmds, tasks, budget>>

SweepUnconfirmed ==
    /\ ctl.at = "unconfirmed"
    /\ IF mem.unconfirmed = 0 THEN Finish
       ELSE ctl' = [ctl EXCEPT !.at = "confirm", !.why = "unconfirmed", !.row = mem.unconfirmed]
    /\ UNCHANGED <<durable, exch, mem, tasks, budget>>

\* SIGKILL and a new process: the tables and the exchange are what is left
Crash ==
    /\ crashes < MaxCrashes /\ crashes' = crashes + 1
    /\ mem' = NoMem /\ tasks' = <<"start">> /\ ctl' = NoCtl
    /\ UNCHANGED <<durable, exch, faults, shorts>>

-----------------------------------------------------------------------------

Step == \/ TakeTask \/ RecoverRow \/ RecoverExposure \/ SnapshotAnswered \/ SnapshotFails
        \/ DrainEnds \/ DrainKnown \/ DrainStale \/ DrainExpired \/ DrainWaits \/ DrainEntry \/ DrainExit
        \/ LeverageHeld \/ LeverageRefused \/ VoidPosition \/ RecordCommand
        \/ PostOk \/ PostRejected \/ PostUnanswered
        \/ LookupDone \/ LookupOpen \/ LookupAgain \/ LookupEmpty
        \/ SettleEntry \/ SettleExit \/ SettleStranded \/ SettlePending \/ SettleRecovered
        \/ SweepRest \/ CloseStranded \/ SweepUnconfirmed

Exchange == \E r \in Rows : \/ Accept(r) \/ Fill(r) \/ EndShort(r)
                            \/ \E how \in {"lost", "refused"} : Drop(r, how)

Next == \/ PaperEntry \/ \E q \in 1..Qty : PaperExit(q)
        \/ Step \/ SweepTick \/ Exchange \/ Crash

Spec == Init /\ [][Next]_vars

\* The queue runs its tasks, the sweep timer ticks, a request on the wire gets somewhere and the
\* exchange works its market orders to an end.
Fairness ==
    /\ WF_vars(Step) /\ WF_vars(SweepTick)
    /\ WF_vars(\E r \in Rows : Accept(r))
    /\ WF_vars(\E r \in Rows : Fill(r) \/ EndShort(r))

FairSpec == Spec /\ Fairness

-----------------------------------------------------------------------------
(* Properties.                                                             *)

\* Whatever is lost, repeated or cut off by a SIGKILL, a command is sent at most once: no two ledger
\* rows, hence no two POSTs, carry the client id of one command (drainOutbox, recover).
OncePerCommand == \A r, s \in Rows : ledger[r].cmd = ledger[s].cmd /\ ledger[r].cmd # 0 => r = s

\* contracts that order r may still fill
Live(r) == IF exch[r].st \in {"wire", "open"} THEN ledger[r].size - exch[r].filled ELSE 0
LiveOf(p) == Total([r \in Rows |-> IF ledger[r].purpose = p THEN Live(r) ELSE 0])

\* The exits the exchange may still fill never exceed the contracts it holds, so no exit, retry,
\* remainder or stranded close can turn the position over, even without the reduce-only flag
\* (drainOutbox, sweep, closeStranded: no second exit while one is unresolved).
NeverOverclosed == LiveOf("exit") <= Held

\* What is on record is true at the exchange: the ledger never claims more than was filled, a row it
\* calls final is final there, and a voided position is one the exchange does not hold and will
\* never hold (voidPosition: "Remove a position the exchange never opened").
LedgerTruthful ==
    /\ \A r \in Rows :
          /\ ledger[r].filled <= exch[r].filled
          /\ ledger[r].state \in {"filled", "cancelled", "rejected"} =>
                Live(r) = 0 /\ ledger[r].filled = exch[r].filled
    /\ book.status = "void" => Held = 0 /\ LiveOf("entry") = 0

\* An entry goes out only while the paper position is open, also when it closed during the leverage call.
EntryOnlyWhileOpen ==
    [][Len(ledger') > Len(ledger) /\ ledger'[Len(ledger')].purpose = "entry" => book.status = "open"]_vars

Quiet == ctl.at = "idle" /\ tasks = <<>> /\ mem.listening

\* The two ways this process may overlook a closed position: it has no product catalogue
\* (strand() and recover() return), or the position closed before anybody listened.
Overlooks == mem.listening /\ (~mem.products \/ mem.unheard)

\* Between tasks, contracts of a closed position are never forgotten: something on record makes the
\* next sweep look at them, unless this process overlooked the close (a new process starts afresh).
NothingForgotten ==
    Quiet /\ book.status = "closed" /\ Held > 0 => mem.stranded \/ SweepRecovers \/ Overlooks

\* A closed position the exchange still holds is closed there in the end, unless the fate of an order
\* that never reached the exchange stays unknown: then no further exit is sent (closeStranded).
Unknowable == \E r \in Rows : exch[r].st \in {"lost", "refused"} /\ ledger[r].state \in OpenStates
ClosedGetsFlat == book.status = "closed" /\ Held > 0 ~> Held = 0 \/ Unknowable \/ Overlooks
=============================================================================
