---------------------------- MODULE DbTransaction ----------------------------
(***************************************************************************)
(* Db.transaction and Db.afterCommit (db.ts): one connection, a stack of    *)
(* nested transactions, each with the calls registered in it, and the calls *)
(* that run once the outermost one has committed. A listener called so may  *)
(* open transactions of its own. A fact is a version of a row; a program    *)
(* announces only what it has written or read.                              *)
(***************************************************************************)
EXTENDS Naturals, Sequences, SequencesExt

CONSTANTS
  Facts,     \* what handlers write and announce
  MaxDepth   \* bound: transactions nested in one another

ASSUME DepthAssumption == MaxDepth \in Nat

VARIABLES
  frames,    \* per open transaction: what the connection saw when it began, its calls
  seen,      \* what the connection sees
  disk,      \* what is committed
  queue,     \* calls of committed transactions that have not run yet
  told       \* announcements made, in order

vars == <<frames, seen, disk, queue, told>>

Elems(s) == {s[i] : i \in DOMAIN s}
Depth == Len(frames)
Top == frames[Depth]
Outer == SubSeq(frames, 1, Depth - 1)

Announced(f) ==
  \/ f \in Elems(told) \cup Elems(queue)
  \/ \E i \in 1..Depth : f \in Elems(frames[i].calls)

Init == frames = <<>> /\ seen = {} /\ disk = {} /\ queue = <<>> /\ told = <<>>

\* BEGIN IMMEDIATE, or SAVEPOINT inside another transaction
Begin ==
  /\ Depth < MaxDepth
  /\ frames' = Append(frames, [saved |-> seen, calls |-> <<>>])
  /\ UNCHANGED <<seen, disk, queue, told>>

\* a statement; outside a transaction it commits by itself
Write(f) ==
  /\ f \notin seen
  /\ seen' = seen \cup {f}
  /\ disk' = IF Depth = 0 THEN seen' ELSE disk
  /\ UNCHANGED <<frames, queue, told>>

\* afterCommit
AfterCommit(f) ==
  /\ f \in seen /\ ~Announced(f)
  /\ IF Depth = 0
     THEN told' = Append(told, f) /\ UNCHANGED frames
     ELSE frames' = [frames EXCEPT ![Depth].calls = Append(@, f)] /\ UNCHANGED told
  /\ UNCHANGED <<seen, disk, queue>>

\* Mutant: the calls run with the transaction they were made in.
MutReleaseRuns ==
  /\ Depth > 1
  /\ frames' = Outer /\ queue' = Top.calls \o queue
  /\ UNCHANGED <<seen, disk, told>>

\* RELEASE: the calls become the parent's
Release ==
  /\ Depth > 1
  /\ frames' = [Outer EXCEPT ![Depth - 1].calls = @ \o Top.calls]
  /\ UNCHANGED <<seen, disk, queue, told>>

\* COMMIT: the calls of the outermost transaction run now, before whatever
\* called it goes on
Commit ==
  /\ Depth = 1
  /\ frames' = <<>> /\ disk' = seen
  /\ queue' = Top.calls \o queue
  /\ UNCHANGED <<seen, told>>

\* Mutant: a failed transaction hands its calls on like one that ended well.
MutRollbackKeepsCalls ==
  /\ Depth > 0
  /\ seen' = Top.saved
  /\ frames' = IF Depth = 1 THEN <<>>
               ELSE [Outer EXCEPT ![Depth - 1].calls = @ \o Top.calls]
  /\ UNCHANGED <<disk, queue, told>>

\* the body threw, or COMMIT or RELEASE did
Rollback ==
  /\ Depth > 0
  /\ seen' = Top.saved /\ frames' = Outer
  /\ UNCHANGED <<disk, queue, told>>

\* the loop over the calls; what a listener throws is noted and dropped
RunCall ==
  /\ Depth = 0 /\ queue # <<>>
  /\ told' = Append(told, Head(queue)) /\ queue' = Tail(queue)
  /\ UNCHANGED <<frames, seen, disk>>

\* SIGKILL: the open transactions and the calls still to run are gone
Crash ==
  /\ frames' = <<>> /\ queue' = <<>> /\ seen' = disk
  /\ UNCHANGED <<disk, told>>

Next ==
  \/ Begin \/ Release \/ Commit \/ Rollback \/ RunCall \/ Crash
  \/ \E f \in Facts : Write(f) \/ AfterCommit(f)

Spec == Init /\ [][Next]_vars

Frame == [saved : SUBSET Facts, calls : Seq(Facts)]
TypeOK ==
  /\ frames \in Seq(Frame)
  /\ seen \in SUBSET Facts /\ disk \in SUBSET Facts
  /\ queue \in Seq(Facts) /\ told \in Seq(Facts)

\* No observer hears of a fact that a rollback or a crash can still take back
\* ("Observers must never see a fill that its enclosing decision can still roll
\* back"), however transactions nest and whatever listeners do in between.
AnnouncedIsDurable == Elems(told) \subseteq disk

-----------------------------------------------------------------------------
(* The same, as its callers see it: one log of work (CommitLog).             *)

CallsOf(fs, k) == FlattenSeq([i \in 1..k |-> fs[i].calls])
Work == [facts |-> seen \ disk, calls |-> CallsOf(frames, Depth)]
Saves == [k \in 1..Depth |-> [facts |-> frames[k].saved \ disk, calls |-> CallsOf(frames, k - 1)]]

Log == INSTANCE CommitLog WITH work <- Work, saves <- Saves, durable <- disk, owed <- queue

\* The lists of calls kept with each nested transaction behave as one log of
\* work that a failure cuts back and only the outermost commit executes: the
\* calls that run are those registered and not rolled back, in their order.
OneLog == Log!Spec
=============================================================================
