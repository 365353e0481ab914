-------------------------- MODULE SignalInbox_proofs --------------------------
(***************************************************************************)
(* Theorems about the signal inbox for every set of events, every number   *)
(* of recovery passes and every bound: a signal trades at most once, the   *)
(* positions in memory are the committed ones, an exit reaches only its    *)
(* target, what trades is valid in that step, and a reset is final once    *)
(* its stamp is written.                                                   *)
(***************************************************************************)
EXTENDS SignalInbox, TLAPS

LEMMA Constants ==
  /\ Entries \cap Exits = {} /\ Copied \subseteq Entries /\ NoLoop \notin Loops
  /\ MaxPos \in Nat /\ MaxPos >= 1
  /\ MaxResets \in Nat
  BY InboxAssumption DEF InboxAssumption

\* The book and what is recorded of the decisions ...
BookTypes ==
  /\ receipt \in [Events -> {"none", "pending", "done"}]
  /\ book \in [held : 0..MaxPos, next : 1..(MaxPos + 1), resetAt : 0..MaxResets]
  /\ open \in 0..MaxPos
  /\ resets \in 0..MaxResets
  /\ unstamped \subseteq 1..MaxResets
  /\ era \in [Events -> 0..MaxResets]
  /\ seen \in [Events -> 0..MaxPos]
  /\ trades \in [Events -> 0..1]
  /\ opener \in [Positions -> SUBSET (Entries \X (0..MaxResets))]
  /\ closer \in [Positions -> SUBSET Events]

PayloadType ==
  payload \in [Events -> [target : 0..MaxPos, resetAt : 0..MaxResets, policy : 0..1]]

\* ... the tasks in flight ...
TaskTypes ==
  /\ task \in [Events -> [at : {"idle", "depth", "batch"}, recovery : BOOLEAN,
                          loop : Loops \cup {NoLoop}]]
  /\ todo \in [Loops -> SUBSET Events]
  /\ run \in [kind : {"none", "receipt", "flush", "reset"}, on : SUBSET Events]

\* ... and the rest.
RestTypes ==
  /\ tried \subseteq Events
  /\ expired \subseteq Entries
  /\ life \in {"down", "up", "stopping"}
  /\ cfg \in [policy : 0..1, active : BOOLEAN, paper : BOOLEAN]
  /\ price \in {"none", "fresh", "stale"}

\* A decision that traded is done; what a receipt recorded is what was true.
Settled == \A e \in Events : trades[e] = 1 => receipt[e] = "done"
Targets == \A e \in Events : receipt[e] # "none" => payload[e].target = seen[e]
Closers == \A p \in Positions : \A e \in closer[p] : seen[e] = p /\ receipt[e] # "none"

\* A receipt carries a stamp no later than its reset; a position opened after a
\* reset it was received before only if that reset was never stamped ...
Stamps ==
  /\ book.resetAt <= resets
  /\ \A e \in Events : receipt[e] # "none" => payload[e].resetAt <= era[e]
  /\ \A p \in Positions : \A o \in opener[p] :
       (era[o[1]] + 1)..o[2] \subseteq unstamped /\ receipt[o[1]] # "none"
\* ... as are all the resets since the last stamp, save the one being made.
Since == (book.resetAt + 1)..resets
Stamped ==
  /\ run.kind # "reset" => Since \subseteq unstamped
  /\ run.kind = "reset" => resets # 0 /\ Since \subseteq unstamped \cup {resets}

\* Only pending receipts are being processed, each by one task.
InFlight ==
  /\ \A e \in Events : Busy(e) => receipt[e] = "pending"
  /\ \A l \in Loops : \A e \in todo[l] : receipt[e] # "none"
  /\ run.kind = "receipt" => \A e \in run.on : receipt[e] = "pending" /\ ~Busy(e)
  /\ run.kind = "flush" => \A e \in run.on : task[e].at = "batch"

Memory ==
  /\ life # "down" /\ run.kind # "reset" => open = book.held
  /\ run.kind = "reset" => book.held = 0

Decided == BookTypes /\ PayloadType /\ Settled /\ Targets /\ Closers /\ Stamps

IInv == Decided /\ TaskTypes /\ RestTypes /\ Stamped /\ InFlight /\ Memory

\* The bookkeeping depends on nothing but these variables.
LEMMA DecidedStutter ==
  ASSUME Decided, UNCHANGED <<receipt, payload, book, open, history>>
  PROVE  Decided'
  BY DEF Decided, BookTypes, PayloadType, Settled, Targets, Closers, Stamps, history

\* A decision keeps the bookkeeping, settles its own receipt at most, and
\* leaves memory and book equal.
LEMMA DecideKeeps ==
  ASSUME Decided, NEW e \in Events, Decide(e), receipt[e] = "pending",
         open = book.held, Since \subseteq unstamped,
         UNCHANGED payload
  PROVE  /\ Decided'
         /\ open' = book'.held
         /\ book'.resetAt = book.resetAt /\ resets' = resets /\ unstamped' = unstamped
         /\ \A f \in Events : f # e => receipt'[f] = receipt[f]
         /\ receipt'[e] # "none"
<1> USE Constants DEF Positions
<1>1. PICK outcome \in Outcomes(e) :
        \/ /\ receipt' = Completed(e)
           /\ book' = [book EXCEPT !.held = outcome.held, !.next = outcome.next]
           /\ open' = outcome.held
           /\ Recorded(e, outcome)
        \/ open' = open /\ UNCHANGED <<receipt, book, history>>
  BY DEF Decide, Restored
<1>2. CASE open' = open /\ UNCHANGED <<receipt, book, history>>
  BY <1>2, DecidedStutter DEF Decided, BookTypes, history
<1>3. ASSUME receipt' = Completed(e),
             book' = [book EXCEPT !.held = outcome.held, !.next = outcome.next],
             open' = outcome.held,
             Recorded(e, outcome)
      PROVE  /\ Decided'
             /\ open' = book'.held
             /\ book'.resetAt = book.resetAt /\ resets' = resets /\ unstamped' = unstamped
             /\ \A f \in Events : f # e => receipt'[f] = receipt[f]
             /\ receipt'[e] # "none"
  <2>1. /\ receipt' \in [Events -> {"none", "pending", "done"}]
        /\ receipt'[e] = "done"
        /\ \A f \in Events : f # e => receipt'[f] = receipt[f]
        /\ \A f \in Events : receipt[f] # "none" <=> receipt'[f] # "none"
    BY <1>3 DEF Completed, Decided, BookTypes
  <2>2. UNCHANGED <<resets, unstamped, era, seen>>
    BY <1>3 DEF Recorded
  <2>3. /\ outcome.held \in 0..MaxPos /\ outcome.next \in 1..(MaxPos + 1)
        /\ outcome.traded \in BOOLEAN
        /\ outcome.traded /\ e \in Entries =>
             /\ outcome.held \in Positions
             /\ ~Invalid(e)
        /\ outcome.traded /\ e \in Exits => open # 0 /\ open = payload[e].target
    <3>1. open \in 0..MaxPos /\ book.next \in 1..(MaxPos + 1)
      BY DEF Decided, BookTypes
    <3>2. CASE outcome = Outcome(open, book.next, FALSE)
      BY <3>1, <3>2 DEF Outcome
    <3>3. CASE MayOpen(e) /\ outcome = Outcome(book.next, book.next + 1, TRUE)
      BY <3>1, <3>3 DEF Outcome, MayOpen, RefusedAtCommit
    <3>4. CASE e \in Exits /\ OnTarget(e) /\ outcome \in {Outcome(0, book.next, TRUE), Outcome(open, book.next, TRUE)}
      <4>1. e \notin Entries
        BY <3>4
      <4>2. \E h \in {0, open} : outcome = Outcome(h, book.next, TRUE)
        BY <3>4
      <4>3. QED
        BY <3>1, <3>4, <4>1, <4>2 DEF Outcome, OnTarget
    <3>5. QED
      BY <1>1, <3>2, <3>3, <3>4 DEF Outcomes
  <2>4. /\ book' \in [held : 0..MaxPos, next : 1..(MaxPos + 1), resetAt : 0..MaxResets]
        /\ open' \in 0..MaxPos /\ open' = book'.held /\ book'.resetAt = book.resetAt
    BY <1>3, <2>3 DEF Decided, BookTypes
  <2>5. /\ trades' \in [Events -> 0..1]
        /\ \A f \in Events : f # e => trades'[f] = trades[f]
    <3>1. trades[e] = 0
      BY DEF Decided, Settled, BookTypes
    <3>2. QED
      BY <1>3, <3>1 DEF Recorded, Decided, BookTypes
  <2>6. /\ opener' \in [Positions -> SUBSET (Entries \X (0..MaxResets))]
        /\ \A p \in Positions : \A o \in opener'[p] :
             o \in opener[p] \/ (o = <<e, resets>> /\ e \in Entries /\ ~Invalid(e))
    BY <1>3, <2>3 DEF Recorded, Decided, BookTypes
  <2>7. /\ closer' \in [Positions -> SUBSET Events]
        /\ \A p \in Positions : \A f \in closer'[p] :
             f \in closer[p] \/ (f = e /\ p = open /\ open = payload[e].target)
    BY <1>3, <2>3 DEF Recorded, Decided, BookTypes
  <2>8. BookTypes' /\ PayloadType'
    BY <2>1, <2>2, <2>4, <2>5, <2>6, <2>7 DEF Decided, BookTypes, PayloadType
  <2>9. Settled' /\ Targets'
    BY <2>1, <2>2, <2>5 DEF Decided, Settled, Targets
  <2>10. Closers'
    <3>1. seen[e] = payload[e].target
      BY DEF Decided, Targets
    <3>2. ASSUME NEW p \in Positions, NEW f \in closer'[p]
          PROVE  seen'[f] = p /\ receipt'[f] # "none"
      <4>1. CASE f \in closer[p]
        <5>1. f \in Events
          BY <4>1 DEF Decided, BookTypes
        <5>2. QED
          BY <2>1, <2>2, <4>1, <5>1 DEF Decided, Closers
      <4>2. CASE f = e /\ p = open /\ open = payload[e].target
        BY <2>1, <2>2, <3>1, <4>2
      <4>3. QED
        BY <2>7, <4>1, <4>2
    <3>3. QED
      BY <3>2 DEF Closers
  <2>11. Stamps'
    <3>1. book'.resetAt <= resets' /\ \A f \in Events : receipt'[f] # "none" => payload'[f].resetAt <= era'[f]
      BY <2>1, <2>2, <2>4 DEF Decided, Stamps
    <3>2. ASSUME NEW p \in Positions, NEW o \in opener'[p]
          PROVE  (era'[o[1]] + 1)..o[2] \subseteq unstamped' /\ receipt'[o[1]] # "none"
      <4>1. CASE o \in opener[p]
        <5>1. o[1] \in Events
          BY <4>1 DEF Decided, BookTypes, Events
        <5>2. QED
          BY <2>1, <2>2, <4>1, <5>1 DEF Decided, Stamps
      <4>2. CASE o = <<e, resets>> /\ e \in Entries /\ ~Invalid(e)
        <5>1. book.resetAt <= era[e]
          BY <4>2 DEF Invalid, Decided, Stamps
        <5>2. book.resetAt \in Nat /\ era[e] \in Nat /\ resets \in Nat
          BY DEF Decided, BookTypes
        <5>3. (era[e] + 1)..resets \subseteq Since
          BY <5>1, <5>2 DEF Since
        <5>4. QED
          BY <2>1, <2>2, <4>2, <5>3
      <4>3. QED
        BY <2>6, <4>1, <4>2
    <3>3. QED
      BY <3>1, <3>2 DEF Stamps
  <2>12. QED
    BY <2>1, <2>2, <2>4, <2>8, <2>9, <2>10, <2>11 DEF Decided
<1>4. QED
  BY <1>1, <1>2, <1>3

LEMMA InitInvariant == Init => IInv
<1> SUFFICES ASSUME Init PROVE IInv
  OBVIOUS
<1> USE Constants
<1>1. BookTypes
  BY DEF Init, BookTypes, Positions
<1>2. PayloadType /\ Settled /\ Targets /\ Closers
  BY DEF Init, PayloadType, Settled, Targets, Closers
<1>3. Stamps /\ Stamped
  BY DEF Init, Stamps, Stamped, Since, NoRun
<1>4. TaskTypes
  BY DEF Init, TaskTypes, Idle, NoRun
<1>5. RestTypes
  BY DEF Init, RestTypes
<1>6. InFlight /\ Memory
  BY DEF Init, InFlight, Memory, Idle, NoRun, Busy
<1>7. QED
  BY <1>1, <1>2, <1>3, <1>4, <1>5, <1>6 DEF IInv, Decided

\* processReceipt up to its first await, for a pending receipt nobody processes.
LEMMA ProcessKeeps ==
  ASSUME IInv, NEW e \in Events, NEW recovery \in BOOLEAN, NEW l \in Loops \cup {NoLoop},
         Process(e, recovery, l), receipt[e] = "pending", ~Busy(e),
         life # "down", run.kind # "reset", run' = NoRun,
         \A m \in Loops : todo'[m] \subseteq todo[m], todo' \in [Loops -> SUBSET Events],
         UNCHANGED <<payload, expired, world>>
  PROVE  IInv'
<1> USE Constants
<1>1. open = book.held /\ Since \subseteq unstamped
  BY DEF IInv, Memory, Stamped, Since
<1>2. /\ Decided'
      /\ open' = book'.held /\ book'.resetAt = book.resetAt /\ resets' = resets /\ unstamped' = unstamped
      /\ \A f \in Events : f # e => receipt'[f] = receipt[f]
      /\ receipt'[e] # "none"
  <2>1. CASE UNCHANGED <<receipt, book, open, history>>
    BY <1>1, <2>1, DecidedStutter DEF IInv, history
  <2>2. CASE Decide(e)
    BY <1>1, <2>2, DecideKeeps DEF IInv
  <2>3. QED
    BY <2>1, <2>2 DEF Process, Undecided
<1>3. \/ UNCHANGED task
      \/ /\ Await(e, "depth", recovery, l)
         /\ receipt'[e] = "pending"
  BY DEF Process, Undecided
<1>4. tried' \subseteq Events
  BY DEF Process, IInv, RestTypes
<1>5. TaskTypes' /\ RestTypes'
  <2>1. TaskTypes'
    BY <1>3 DEF IInv, TaskTypes, Await, NoRun
  <2>2. QED
    BY <1>4, <2>1 DEF IInv, RestTypes, world
<1>6. InFlight'
  <2>1. ASSUME NEW f \in Events, Busy(f)' PROVE receipt'[f] = "pending"
    <3>1. CASE f = e
      BY <1>3, <2>1, <3>1 DEF Busy
    <3>2. CASE f # e
      <4>1. task'[f] = task[f]
        BY <1>3, <3>2 DEF Await, IInv, TaskTypes
      <4>2. QED
        BY <1>2, <2>1, <3>2, <4>1 DEF Busy, IInv, InFlight
    <3>3. QED
      BY <3>1, <3>2
  <2>2. ASSUME NEW m \in Loops, NEW f \in todo'[m] PROVE receipt'[f] # "none"
    <3>1. f \in todo[m] /\ f \in Events
      BY <2>2
    <3>2. QED
      BY <1>2, <3>1 DEF IInv, InFlight
  <2>3. QED
    BY <2>1, <2>2 DEF InFlight, NoRun
<1>7. Memory' /\ Stamped'
  BY <1>1, <1>2 DEF Memory, Stamped, Since, NoRun
<1>8. QED
  BY <1>2, <1>5, <1>6, <1>7 DEF IInv

\* A decision that ends the task of its entry.
LEMMA DecideEndsTask ==
  ASSUME IInv, NEW e \in Events, Decide(e), receipt[e] = "pending",
         task' = [task EXCEPT ![e] = Idle],
         life # "down", run.kind # "reset",
         \/ run' = run /\ run = NoRun
         \/ run' = NoRun
         \/ run.kind = "flush" /\ run' = [run EXCEPT !.on = @ \ {e}],
         UNCHANGED <<tried, payload, expired, todo, world>>
  PROVE  IInv'
<1> USE Constants
<1>1. open = book.held /\ Since \subseteq unstamped
  BY DEF IInv, Memory, Stamped, Since
<1>2. /\ Decided'
      /\ open' = book'.held /\ book'.resetAt = book.resetAt /\ resets' = resets /\ unstamped' = unstamped
      /\ \A f \in Events : f # e => receipt'[f] = receipt[f]
      /\ receipt'[e] # "none"
  BY <1>1, DecideKeeps DEF IInv
<1>3. /\ TaskTypes'
      /\ ~Busy(e)'
      /\ \A f \in Events : f # e => task'[f] = task[f]
      /\ run'.kind # "reset" /\ run'.kind # "receipt"
      /\ run'.kind = "flush" => run.kind = "flush" /\ run'.on = run.on \ {e}
  BY DEF IInv, TaskTypes, Idle, Busy, NoRun
<1>4. RestTypes'
  BY DEF IInv, RestTypes, world
<1>5. InFlight'
  <2>1. \A f \in Events : Busy(f)' => receipt'[f] = "pending"
    BY <1>2, <1>3 DEF IInv, InFlight, Busy
  <2>2. \A m \in Loops : \A f \in todo'[m] : receipt'[f] # "none"
    BY <1>2 DEF IInv, InFlight, TaskTypes
  <2>3. run'.kind = "flush" => \A f \in run'.on : task'[f].at = "batch"
    BY <1>3 DEF IInv, InFlight, TaskTypes
  <2>4. QED
    BY <1>3, <2>1, <2>2, <2>3 DEF InFlight
<1>6. Memory' /\ Stamped'
  BY <1>1, <1>2, <1>3 DEF Memory, Stamped, Since
<1>7. QED
  BY <1>2, <1>3, <1>4, <1>5, <1>6 DEF IInv

\* The receipt itself: what it records is what is true at that moment.
LEMMA ReceiveKeeps == ASSUME IInv, NEW e \in Events, Receive(e) PROVE IInv'
<1> USE Constants
<1>1. /\ run = NoRun /\ life = "up" /\ receipt[e] # "done" /\ ~Busy(e)
      /\ run' = [kind |-> "receipt", on |-> {e}]
      /\ UNCHANGED <<tried, expired, book, open, task, todo, world, used, resets, unstamped, trades, opener, closer>>
  BY DEF Receive, Turn, history
<1>2. open = book.held /\ Since \subseteq unstamped
  BY <1>1 DEF IInv, Memory, Stamped, Since, NoRun
<1>3. /\ Decided'
      /\ receipt'[e] = "pending"
      /\ \A f \in Events : f # e => receipt'[f] = receipt[f]
  <2>1. CASE receipt[e] = "pending"
    <3>1. UNCHANGED <<receipt, payload, history>>
      BY <2>1 DEF Receive
    <3>2. QED
      BY <1>1, <2>1, <3>1, DecidedStutter DEF IInv, history
  <2>2. CASE receipt[e] # "pending"
    <3>1. /\ receipt' = [receipt EXCEPT ![e] = "pending"]
          /\ payload' = [payload EXCEPT ![e] = Delivery]
          /\ era' = [era EXCEPT ![e] = resets]
          /\ seen' = [seen EXCEPT ![e] = book.held]
      BY <2>2 DEF Receive
    <3>2. receipt[e] = "none"
      BY <1>1, <2>2 DEF IInv, Decided, BookTypes
    <3>3. BookTypes' /\ PayloadType'
      BY <1>1, <3>1 DEF IInv, Decided, BookTypes, PayloadType, Delivery, RestTypes
    <3>4. Settled' /\ Targets'
      BY <1>1, <1>2, <3>1, <3>2 DEF IInv, Decided, BookTypes, PayloadType, Delivery, Settled, Targets
    <3>5. Closers'
      <4>1. ASSUME NEW q \in Positions, NEW f \in closer[q] PROVE f \in Events /\ f # e
        BY <3>2, <4>1 DEF IInv, Decided, BookTypes, Closers
      <4>2. QED
        BY <1>1, <3>1, <4>1 DEF IInv, Decided, BookTypes, Closers
    <3>6. Stamps'
      <4>1. \A f \in Events : receipt'[f] # "none" => payload'[f].resetAt <= era'[f]
        BY <1>2, <3>1, <3>2 DEF IInv, Decided, BookTypes, PayloadType, Delivery, Stamps
      <4>2. ASSUME NEW q \in Positions, NEW o \in opener[q]
            PROVE  /\ o[1] \in Events /\ o[1] # e /\ receipt[o[1]] # "none"
                   /\ (era[o[1]] + 1)..o[2] \subseteq unstamped
        BY <3>2, <4>2 DEF IInv, Decided, BookTypes, Stamps, Events
      <4>3. QED
        BY <1>1, <3>1, <4>1, <4>2 DEF IInv, Decided, BookTypes, Stamps
    <3>7. QED
      BY <3>1, <3>3, <3>4, <3>5, <3>6 DEF Decided, IInv, BookTypes
  <2>3. QED
    BY <2>1, <2>2
<1>4. TaskTypes' /\ RestTypes'
  BY <1>1 DEF IInv, TaskTypes, RestTypes, world
<1>5. InFlight'
  BY <1>1, <1>3 DEF IInv, InFlight, TaskTypes, Busy
<1>6. Memory' /\ Stamped'
  BY <1>1, <1>2 DEF Memory, Stamped, Since, IInv, world
<1>7. QED
  BY <1>3, <1>4, <1>5, <1>6 DEF IInv

\* Steps that decide nothing and receive nothing.
LEMMA QuietKeeps ==
  ASSUME IInv, [\/ \E e \in Entries : DepthFails(e) \/ Expires(e)
                \/ \E batch \in SUBSET Entries : Flush(batch)
                \/ \E l \in Loops : RecoverTick(l)
                \/ Configure \/ PriceArrives \/ PriceAges
                \/ Stop \/ Exit \/ Crash \/ Restart]_vars
  PROVE  IInv'
<1> USE Constants
<1>2. ASSUME NEW e \in Entries, DepthFails(e) PROVE IInv'
  <2>1. Decided'
    BY <1>2, DecidedStutter DEF IInv, DepthFails, durable, history
  <2>2. TaskTypes' /\ RestTypes'
    BY <1>2 DEF IInv, DepthFails, TaskTypes, RestTypes, durable, world, Idle
  <2>3. InFlight'
    BY <1>2 DEF IInv, DepthFails, InFlight, TaskTypes, durable, Busy, Idle, Turn, NoRun
  <2>4. Memory' /\ Stamped'
    BY <1>2 DEF IInv, DepthFails, Memory, Stamped, Since, durable, world, history
  <2>5. QED
    BY <2>1, <2>2, <2>3, <2>4 DEF IInv
<1>3. ASSUME NEW e \in Entries, Expires(e) PROVE IInv'
  <2>1. Decided'
    BY <1>3, DecidedStutter DEF IInv, Expires, history
  <2>2. TaskTypes' /\ RestTypes' /\ InFlight' /\ Memory' /\ Stamped'
    BY <1>3 DEF IInv, Expires, TaskTypes, RestTypes, InFlight, Memory, Stamped, Since, world, history, Busy
  <2>3. QED
    BY <2>1, <2>2 DEF IInv
<1>4. ASSUME NEW batch \in SUBSET Entries, Flush(batch) PROVE IInv'
  <2>1. Decided'
    BY <1>4, DecidedStutter DEF IInv, Flush, durable, history
  <2>2. TaskTypes' /\ RestTypes' /\ InFlight' /\ Memory' /\ Stamped'
    BY <1>4 DEF IInv, Flush, TaskTypes, RestTypes, InFlight, Memory, Stamped, Since, durable, world,
                history, Busy, Events, Turn, NoRun
  <2>3. QED
    BY <2>1, <2>2 DEF IInv
<1>5. ASSUME NEW l \in Loops, RecoverTick(l) PROVE IInv'
  <2>1. Decided'
    BY <1>5, DecidedStutter DEF IInv, RecoverTick, durable, history
  <2>2. todo' = [todo EXCEPT ![l] = PendingRows] /\ PendingRows \subseteq Events
    BY <1>5 DEF RecoverTick, PendingRows
  <2>3. TaskTypes' /\ RestTypes' /\ Memory' /\ Stamped'
    BY <1>5, <2>2 DEF IInv, RecoverTick, TaskTypes, RestTypes, Memory, Stamped, Since, durable, world, history
  <2>4. InFlight'
    BY <1>5, <2>2 DEF IInv, RecoverTick, TaskTypes, InFlight, durable, Busy, PendingRows, Turn, NoRun
  <2>5. QED
    BY <2>1, <2>3, <2>4 DEF IInv
<1>6. CASE Configure \/ PriceArrives \/ PriceAges
  <2>1. /\ UNCHANGED <<durable, open, task, todo, run, life, history>>
        /\ cfg' \in [policy : 0..1, active : BOOLEAN, paper : BOOLEAN]
        /\ price' \in {"none", "fresh", "stale"}
    <3>1. CASE Configure
      <4>1. \/ cfg' = [cfg EXCEPT !.policy = 1 - @]
            \/ cfg' = [cfg EXCEPT !.active = ~@]
        BY <3>1 DEF Configure
      <4>2. cfg.policy \in {0, 1} /\ 1 - cfg.policy \in {0, 1}
        BY DEF IInv, RestTypes
      <4>3. cfg' \in [policy : 0..1, active : BOOLEAN, paper : BOOLEAN]
        <5>1. CASE cfg' = [cfg EXCEPT !.policy = 1 - @]
          BY <4>2, <5>1 DEF IInv, RestTypes
        <5>2. CASE cfg' = [cfg EXCEPT !.active = ~@]
          <6>1. (~cfg.active) \in BOOLEAN
            OBVIOUS
          <6>2. QED
            BY <5>2, <6>1, Zenon DEF IInv, RestTypes
        <5>3. QED
          BY <4>1, <5>1, <5>2
      <4>4. QED
        BY <3>1, <4>3 DEF Configure, IInv, RestTypes
    <3>2. CASE PriceArrives
      BY <3>2 DEF PriceArrives, IInv, RestTypes
    <3>3. CASE PriceAges
      BY <3>3 DEF PriceAges, IInv, RestTypes
    <3>4. QED
      BY <1>6, <3>1, <3>2, <3>3
  <2>2. Decided'
    BY <2>1, DecidedStutter DEF IInv, durable, history
  <2>3. TaskTypes' /\ RestTypes' /\ InFlight' /\ Memory' /\ Stamped'
    BY <2>1 DEF IInv, TaskTypes, RestTypes, InFlight, Memory, Stamped, Since, durable, history, Busy
  <2>4. QED
    BY <2>2, <2>3 DEF IInv
<1>7. CASE Stop
  <2>1. Decided'
    BY <1>7, DecidedStutter DEF IInv, Stop, durable, history
  <2>2. TaskTypes' /\ RestTypes'
    BY <1>7 DEF IInv, Stop, TaskTypes, RestTypes, durable, Idle
  <2>3. InFlight'
    BY <1>7 DEF IInv, Stop, TaskTypes, InFlight, durable, Busy, Idle, Turn, NoRun
  <2>4. Memory' /\ Stamped'
    BY <1>7 DEF IInv, Stop, Memory, Stamped, Since, durable, history
  <2>5. QED
    BY <2>1, <2>2, <2>3, <2>4 DEF IInv
<1>8. CASE Exit \/ Crash
  <2>1. /\ Die
        /\ IF run.kind = "reset" THEN unstamped' = unstamped \cup {resets} ELSE unstamped' = unstamped
    BY <1>8 DEF Exit, Crash, Turn, NoRun
  <2>2. /\ UNCHANGED <<receipt, tried, payload, expired, book, cfg, resets, era, seen, trades, opener, closer>>
        /\ open' = 0
    BY <2>1 DEF Die, durable
  <2>3. unstamped \subseteq unstamped'
    BY <2>1
  <2>4. BookTypes'
    <3>1. run.kind = "reset" => resets \in 1..MaxResets
      BY DEF IInv, Decided, BookTypes, Stamped
    <3>2. unstamped' \subseteq 1..MaxResets
      BY <2>1, <3>1 DEF IInv, Decided, BookTypes
    <3>3. QED
      BY <2>2, <3>2 DEF IInv, Decided, BookTypes
  <2>5. PayloadType' /\ Settled' /\ Targets' /\ Closers' /\ Stamps'
    BY <2>2, <2>3 DEF IInv, Decided, PayloadType, Settled, Targets, Closers, Stamps
  <2>6. TaskTypes' /\ RestTypes'
    BY <2>1, <2>2 DEF IInv, Die, TaskTypes, RestTypes, Idle, NoRun
  <2>7. InFlight' /\ Memory' /\ Stamped'
    BY <2>1, <2>2, <2>3 DEF IInv, Die, InFlight, Memory, Stamped, Since, Busy, Idle, NoRun
  <2>8. QED
    BY <2>4, <2>5, <2>6, <2>7 DEF IInv, Decided
<1>9. CASE Restart
  <2>1. /\ UNCHANGED <<receipt, tried, payload, expired, book, task, todo, run, price, resets, unstamped, era, seen, trades, opener, closer>>
        /\ open' = book.held /\ life' = "up"
        /\ cfg' \in [policy : 0..1, active : BOOLEAN, paper : BOOLEAN]
    BY <1>9 DEF Restart, durable, history, IInv, RestTypes
  <2>2. BookTypes' /\ PayloadType' /\ Settled' /\ Targets' /\ Closers' /\ Stamps'
    BY <2>1 DEF IInv, Decided, BookTypes, PayloadType, Settled, Targets, Closers, Stamps
  <2>3. TaskTypes' /\ RestTypes' /\ InFlight' /\ Memory' /\ Stamped'
    BY <2>1 DEF IInv, TaskTypes, RestTypes, InFlight, Memory, Stamped, Since, Busy
  <2>4. QED
    BY <2>2, <2>3 DEF IInv, Decided
<1>10. CASE UNCHANGED vars
  <2>1. Decided'
    BY <1>10, DecidedStutter DEF IInv, vars, durable, history
  <2>2. TaskTypes' /\ RestTypes' /\ InFlight' /\ Memory' /\ Stamped'
    BY <1>10 DEF IInv, vars, durable, world, history, TaskTypes, RestTypes, InFlight, Memory, Stamped, Since, Busy
  <2>3. QED
    BY <2>1, <2>2 DEF IInv
<1>11. QED
  BY <1>2, <1>3, <1>4, <1>5, <1>6, <1>7, <1>8, <1>9, <1>10

\* The account's own closes, and the two halves of a reset.
LEMMA BookKeeps == ASSUME IInv, BookCloses \/ ResetArchives \/ ResetStamps PROVE IInv'
<1> USE Constants
<1>1. CASE BookCloses
  <2>1. /\ book' = [book EXCEPT !.held = 0] /\ open' = 0 /\ run = NoRun
        /\ UNCHANGED <<receipt, tried, payload, expired, task, todo, run, world, history>>
    BY <1>1 DEF BookCloses, Turn
  <2>2. BookTypes' /\ PayloadType' /\ Settled' /\ Targets' /\ Closers' /\ Stamps'
    BY <2>1 DEF IInv, Decided, BookTypes, PayloadType, Settled, Targets, Closers, Stamps, history
  <2>3. TaskTypes' /\ RestTypes' /\ InFlight' /\ Memory' /\ Stamped'
    BY <2>1 DEF IInv, Decided, BookTypes, TaskTypes, RestTypes, InFlight, Memory, Stamped, Since, Busy, world, history, NoRun
  <2>4. QED
    BY <2>2, <2>3 DEF IInv, Decided
<1>2. CASE ResetArchives
  <2>1. /\ book' = [book EXCEPT !.held = 0] /\ run' = [kind |-> "reset", on |-> {}]
        /\ resets' = resets + 1 /\ resets < MaxResets /\ run = NoRun
        /\ UNCHANGED <<receipt, tried, payload, expired, open, task, todo, world, unstamped, era, seen, trades, opener, closer>>
    BY <1>2 DEF ResetArchives, Turn
  <2>2. BookTypes' /\ PayloadType' /\ Settled' /\ Targets' /\ Closers' /\ Stamps'
    BY <2>1 DEF IInv, Decided, BookTypes, PayloadType, Settled, Targets, Closers, Stamps
  <2>3. TaskTypes' /\ RestTypes' /\ InFlight' /\ Memory'
    BY <2>1 DEF IInv, Decided, BookTypes, TaskTypes, RestTypes, InFlight, Memory, Busy, world
  <2>4. Stamped'
    <3>1. Since \subseteq unstamped /\ resets \in Nat /\ book.resetAt \in Nat /\ book'.resetAt = book.resetAt
      BY <2>1 DEF IInv, Decided, BookTypes, Stamped, NoRun
    <3>2. Since' \subseteq Since \cup {resets'}
      BY <2>1, <3>1 DEF Since
    <3>3. QED
      BY <2>1, <3>1, <3>2 DEF Stamped
  <2>5. QED
    BY <2>2, <2>3, <2>4 DEF IInv, Decided
<1>3. CASE ResetStamps
  <2>1. /\ book' = [book EXCEPT !.resetAt = resets] /\ run' = NoRun /\ open' = 0 /\ run.kind = "reset"
        /\ UNCHANGED <<receipt, tried, payload, expired, task, todo, world, history>>
    BY <1>3 DEF ResetStamps
  <2>2. BookTypes' /\ PayloadType' /\ Settled' /\ Targets' /\ Closers' /\ Stamps'
    BY <2>1 DEF IInv, Decided, BookTypes, PayloadType, Settled, Targets, Closers, Stamps, history
  <2>3. TaskTypes' /\ RestTypes' /\ InFlight'
    BY <2>1 DEF IInv, TaskTypes, RestTypes, InFlight, Busy, world, NoRun
  <2>4. Memory' /\ Stamped'
    BY <2>1 DEF IInv, Decided, BookTypes, Memory, Stamped, Since, world, history, NoRun
  <2>5. QED
    BY <2>2, <2>3, <2>4 DEF IInv, Decided
<1>4. QED
  BY <1>1, <1>2, <1>3

LEMMA NextInvariant == IInv /\ [Next]_vars => IInv'
<1> SUFFICES ASSUME IInv, [Next]_vars PROVE IInv'
  OBVIOUS
<1> USE Constants
<1>1. ASSUME NEW e \in Entries, DepthReady(e) PROVE IInv'
  <2>1. /\ run = NoRun /\ run' = run /\ life # "down" /\ Busy(e) /\ receipt[e] = "pending" /\ e \in Events
        /\ UNCHANGED <<tried, payload, expired, todo, world>>
    BY <1>1 DEF DepthReady, Turn, Busy, IInv, InFlight, Events
  <2>2. CASE task' = [task EXCEPT ![e] = Idle] /\ Decide(e)
    BY <2>1, <2>2, DecideEndsTask DEF NoRun
  <2>3. CASE Undecided /\ (\/ Await(e, "batch", task[e].recovery, task[e].loop)
                           \/ task' = [task EXCEPT ![e] = Idle])
    <3>1. Decided'
      BY <2>1, <2>3, DecidedStutter DEF Undecided, IInv, history
    <3>2. TaskTypes' /\ \A f \in Events : Busy(f)' => Busy(f)
      <4>1. task[e].recovery \in BOOLEAN /\ task[e].loop \in Loops \cup {NoLoop}
        BY <2>1 DEF IInv, TaskTypes
      <4>2. ASSUME NEW t \in [at : {"idle", "depth", "batch"}, recovery : BOOLEAN,
                              loop : Loops \cup {NoLoop}],
                   task' = [task EXCEPT ![e] = t]
            PROVE  TaskTypes' /\ \A f \in Events : Busy(f)' => Busy(f)
        BY <2>1, <4>2 DEF IInv, TaskTypes, Busy
      <4>3. CASE Await(e, "batch", task[e].recovery, task[e].loop)
        <5>1. [at |-> "batch", recovery |-> task[e].recovery, loop |-> task[e].loop]
                \in [at : {"idle", "depth", "batch"}, recovery : BOOLEAN, loop : Loops \cup {NoLoop}]
          BY <4>1
        <5>2. QED
          BY <4>2, <4>3, <5>1 DEF Await
      <4>4. CASE task' = [task EXCEPT ![e] = Idle]
        <5>1. Idle \in [at : {"idle", "depth", "batch"}, recovery : BOOLEAN, loop : Loops \cup {NoLoop}]
          BY DEF Idle
        <5>2. QED
          BY <4>2, <4>4, <5>1
      <4>5. QED
        BY <2>3, <4>3, <4>4
    <3>3. RestTypes' /\ Memory' /\ Stamped'
      BY <2>1, <2>3 DEF IInv, RestTypes, Memory, Stamped, Since, Undecided, world, history
    <3>4. InFlight'
      BY <2>1, <2>3, <3>2 DEF IInv, InFlight, Undecided, NoRun
    <3>5. QED
      BY <3>1, <3>2, <3>3, <3>4 DEF IInv
  <2>4. QED
    BY <1>1, <2>2, <2>3 DEF DepthReady
<1>2. ASSUME NEW e \in Entries, FlushOne(e) PROVE IInv'
  <2>1. /\ e \in Events /\ run.kind = "flush" /\ e \in run.on /\ life # "down" /\ Decide(e)
        /\ task' = [task EXCEPT ![e] = Idle]
        /\ run' = NoRun \/ run' = [run EXCEPT !.on = @ \ {e}]
        /\ UNCHANGED <<tried, payload, expired, todo, world>>
    BY <1>2 DEF FlushOne, Events
  <2>2. receipt[e] = "pending"
    BY <2>1 DEF IInv, InFlight, Busy
  <2>3. QED
    BY <2>1, <2>2, DecideEndsTask
<1>3. ASSUME NEW e \in Events, ProcessLive(e) PROVE IInv'
  <2>1. /\ life = "up" /\ run = [kind |-> "receipt", on |-> {e}] /\ run' = NoRun
        /\ Process(e, e \in tried, NoLoop)
        /\ UNCHANGED <<payload, expired, todo, world>>
    BY <1>3 DEF ProcessLive
  <2>2. receipt[e] = "pending" /\ ~Busy(e)
    BY <2>1 DEF IInv, InFlight
  <2>3. (e \in tried) \in BOOLEAN
    OBVIOUS
  <2>4. todo' \in [Loops -> SUBSET Events] /\ \A m \in Loops : todo'[m] \subseteq todo[m]
    BY <2>1 DEF IInv, TaskTypes
  <2>5. QED
    BY <2>1, <2>2, <2>3, <2>4, ProcessKeeps
<1>4. ASSUME NEW l \in Loops, RecoverStep(l) PROVE IInv'
  <2>1. PICK e \in todo[l] :
          /\ todo' = [todo EXCEPT ![l] = @ \ {e}]
          /\ IF life = "stopping" \/ Busy(e) \/ receipt[e] = "done"
             THEN UNCHANGED <<tried, task, receipt, book, open, history, used>>
             ELSE Process(e, TRUE, l)
    BY <1>4 DEF RecoverStep
  <2>2. /\ run = NoRun /\ run' = run /\ life # "down"
        /\ UNCHANGED <<payload, expired, world>>
    BY <1>4 DEF RecoverStep, Turn
  <2>3. e \in Events /\ receipt[e] # "none"
    BY <2>1 DEF IInv, TaskTypes, InFlight
  <2>4. todo' \in [Loops -> SUBSET Events] /\ \A m \in Loops : todo'[m] \subseteq todo[m]
    BY <2>1 DEF IInv, TaskTypes
  <2>5. CASE life = "stopping" \/ Busy(e) \/ receipt[e] = "done"
    <3>1. Decided'
      BY <2>1, <2>2, <2>5, DecidedStutter DEF IInv, history
    <3>2. TaskTypes' /\ RestTypes'
      BY <2>1, <2>2, <2>4, <2>5 DEF IInv, TaskTypes, RestTypes, world
    <3>3. Memory' /\ Stamped'
      BY <2>1, <2>2, <2>5 DEF IInv, Memory, Stamped, Since, world, history
    <3>4. InFlight'
      <4>1. UNCHANGED <<task, receipt, run>>
        BY <2>1, <2>2, <2>5
      <4>2. \A m \in Loops : \A f \in todo'[m] : receipt'[f] # "none"
        BY <2>4, <4>1 DEF IInv, InFlight
      <4>3. QED
        BY <4>1, <4>2 DEF IInv, InFlight, Busy
    <3>5. QED
      BY <3>1, <3>2, <3>3, <3>4 DEF IInv
  <2>6. CASE ~(life = "stopping" \/ Busy(e) \/ receipt[e] = "done")
    <3>1. receipt[e] = "pending" /\ ~Busy(e) /\ Process(e, TRUE, l)
      BY <2>1, <2>3, <2>6 DEF IInv, Decided, BookTypes
    <3>2. QED
      BY <2>2, <2>3, <2>4, <3>1, ProcessKeeps DEF NoRun
  <2>7. QED
    BY <2>5, <2>6
<1>5. QED
  BY <1>1, <1>2, <1>3, <1>4, ReceiveKeeps, QuietKeeps, BookKeeps DEF Next

\* The inductive invariant holds throughout.
THEOREM Invariance == Spec => []IInv
  BY InitInvariant, NextInvariant, PTL DEF Spec

\* Every variable keeps its type, through duplicates, failures and crashes
\* (scanners/inbox.ts, scanners/engine.ts 617-689).
THEOREM TypeInvariant == Spec => []TypeOK
<1>1. IInv => TypeOK
  BY DEF IInv, Decided, BookTypes, PayloadType, TaskTypes, RestTypes, TypeOK
<1>2. QED
  BY <1>1, Invariance, PTL

\* A received signal trades at most once, for any number of events, retries
\* and crashes (inbox.ts 28, engine.ts 677-682).
THEOREM TradesOnceHolds == Spec => []TradesOnce
<1>1. IInv => TradesOnce
  BY DEF IInv, Decided, BookTypes, Settled, TradesOnce
<1>2. QED
  BY <1>1, Invariance, PTL

\* Outside a reset, the positions in memory are the committed ones
\* (paper/engine.ts commitDecision, applyFills).
THEOREM MemoryIsBookHolds == Spec => []MemoryIsBook
<1>1. IInv => MemoryIsBook
  BY DEF IInv, Memory, MemoryIsBook
<1>2. QED
  BY <1>1, Invariance, PTL

\* An exit fills only the position it was received against
\* (paper/engine.ts onScriptExit).
THEOREM ExitHitsItsTargetHolds == Spec => []ExitHitsItsTarget
<1>1. IInv => ExitHitsItsTarget
  BY DEF IInv, Decided, Closers, ExitHitsItsTarget
<1>2. QED
  BY <1>1, Invariance, PTL

\* No entry received before a reset opens a position after it, unless a SIGKILL
\* kept every reset in between from writing its stamp: of any resets, one that
\* stamped paper.resetAt is enough (scanners/engine.ts 662, paper/engine.ts 1269).
THEOREM ResetIsFinalHolds == Spec => []ResetIsFinal
<1>1. IInv => ResetIsFinal
  BY DEF IInv, Decided, Stamps, ResetIsFinal
<1>2. QED
  BY <1>1, Invariance, PTL
----------------------------------------------------------------------------
(* What a step of the inbox trades: EntryStillValid.                        *)

ValidTrades ==
  \A e \in Entries : Trades(e) =>
    e \notin expired /\ payload[e].policy = cfg.policy /\ (e \in Copied \/ cfg.active)

\* A step that records no trade has nothing to show.
LEMMA NothingTraded == ASSUME IInv, trades' = trades PROVE ValidTrades
<1> SUFFICES ASSUME NEW e \in Entries, Trades(e) PROVE FALSE
  BY DEF ValidTrades
<1>1. trades[e] \in 0..1
  BY DEF IInv, Decided, BookTypes, Events
<1>2. QED
  BY <1>1 DEF Trades

\* Whatever a decision trades is the event decided, and an entry among them
\* passed the check made inside the transaction.
LEMMA DecisionTradesValid == ASSUME IInv, NEW e \in Events, Decide(e) PROVE ValidTrades
<1> USE Constants
<1>1. PICK outcome \in Outcomes(e) : Recorded(e, outcome) \/ UNCHANGED history
  BY DEF Decide
<1>2. CASE UNCHANGED history \/ ~outcome.traded
  BY <1>1, <1>2, NothingTraded DEF history, Recorded
<1>3. CASE Recorded(e, outcome) /\ outcome.traded
  <2> SUFFICES ASSUME NEW f \in Entries, Trades(f)
               PROVE  f \notin expired /\ payload[f].policy = cfg.policy /\ (f \in Copied \/ cfg.active)
    BY DEF ValidTrades
  <2>1. trades \in [Events -> 0..1] /\ f \in Events
    BY DEF IInv, Decided, BookTypes, Events
  <2>2. trades' = [trades EXCEPT ![e] = @ + 1]
    BY <1>3 DEF Recorded
  <2>3. f = e
    BY <2>1, <2>2 DEF Trades
  <2>4. MayOpen(e)
    <3>1. e \notin Exits
      BY <2>3
    <3>2. outcome # Outcome(open, book.next, FALSE)
      BY <1>3 DEF Outcome
    <3>3. QED
      BY <1>1, <3>1, <3>2 DEF Outcomes
  <2>5. QED
    BY <2>3, <2>4 DEF MayOpen, RefusedAtCommit, Invalid
<1>4. QED
  BY <1>1, <1>2, <1>3

\* processReceipt either decides or leaves the books alone.
LEMMA ProcessTradesValid ==
  ASSUME IInv, NEW e \in Events, NEW recovery, NEW l, Process(e, recovery, l) PROVE ValidTrades
<1>1. Decide(e) \/ trades' = trades
  BY DEF Process, Undecided, history
<1>2. QED
  BY <1>1, DecisionTradesValid, NothingTraded

LEMMA StepTradesValid == IInv /\ [Next]_vars => ValidTrades
<1> SUFFICES ASSUME IInv, [Next]_vars PROVE ValidTrades
  OBVIOUS
<1>1. ASSUME NEW e \in Entries, DepthReady(e) PROVE ValidTrades
  <2>1. e \in Events /\ (Decide(e) \/ trades' = trades)
    BY <1>1 DEF DepthReady, Undecided, history, Events
  <2>2. QED
    BY <2>1, DecisionTradesValid, NothingTraded
<1>2. ASSUME NEW e \in Entries, FlushOne(e) PROVE ValidTrades
  BY <1>2, DecisionTradesValid DEF FlushOne, Events
<1>3. ASSUME NEW e \in Events, ProcessLive(e) PROVE ValidTrades
  BY <1>3, ProcessTradesValid DEF ProcessLive
<1>4. ASSUME NEW l \in Loops, RecoverStep(l) PROVE ValidTrades
  <2>1. \E e \in todo[l] : trades' = trades \/ Process(e, TRUE, l)
    BY <1>4 DEF RecoverStep, history
  <2>2. todo[l] \subseteq Events
    BY DEF IInv, TaskTypes
  <2>3. QED
    BY <2>1, <2>2, ProcessTradesValid, NothingTraded
<1>5. ASSUME NEW e \in Entries, DepthFails(e) \/ Expires(e) PROVE trades' = trades
  BY <1>5 DEF DepthFails, Expires, history
<1>6. ASSUME NEW e \in Events, Receive(e) PROVE trades' = trades
  BY <1>6 DEF Receive, history
<1>7. CASE UNCHANGED vars \/ \E batch \in SUBSET Entries : Flush(batch)
  BY <1>7, NothingTraded DEF vars, Flush, history
<1>8. CASE \E l \in Loops : RecoverTick(l)
  BY <1>8, NothingTraded DEF RecoverTick, history
<1>9. CASE BookCloses \/ ResetArchives \/ ResetStamps
  BY <1>9, NothingTraded DEF BookCloses, ResetArchives, ResetStamps, history
<1>10. CASE Configure \/ PriceArrives \/ PriceAges
  BY <1>10, NothingTraded DEF Configure, PriceArrives, PriceAges, history
<1>11. CASE Stop \/ Exit \/ Crash \/ Restart
  BY <1>11, NothingTraded DEF Stop, Exit, Crash, Die, Restart, history
<1>12. QED
  BY <1>1, <1>2, <1>3, <1>4, <1>5, <1>6, <1>7, <1>8, <1>9, <1>10, <1>11, NothingTraded DEF Next

\* An entry that opens a position is still valid at that moment: not expired,
\* received under the policy of now, and its allocation active unless a shadow
\* pair offered it, whatever changed while the depth gate and the batch window
\* were awaited (scanners/engine.ts 682).
THEOREM EntryStillValidHolds == Spec => EntryStillValid
<1>1. IInv /\ [Next]_vars =>
        [\A e \in Entries : Trades(e) =>
           /\ e \notin expired
           /\ payload[e].policy = cfg.policy
           /\ e \in Copied \/ cfg.active]_vars
  BY StepTradesValid DEF ValidTrades
<1>2. QED
  BY <1>1, Invariance, PTL DEF Spec, EntryStillValid
=============================================================================
