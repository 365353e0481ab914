------------------------------ MODULE CommitLog ------------------------------
(***************************************************************************)
(* What callers of Db.transaction rely on: there is one piece of work, of   *)
(* facts and of announcements in the order they were asked for. Opening a   *)
(* transaction remembers the work so far and a failure goes back to it.     *)
(* Only the end of the outermost transaction makes the work durable, and    *)
(* the announcements of what is left of it are owed from then on.           *)
(***************************************************************************)
EXTENDS Naturals, Sequences

CONSTANT Facts
VARIABLES work, saves, durable, owed, told

vars == <<work, saves, durable, owed, told>>

Nothing == [facts |-> {}, calls |-> <<>>]

Init == work = Nothing /\ saves = <<>> /\ durable = {} /\ owed = <<>> /\ told = <<>>

Open == saves' = Append(saves, work) /\ UNCHANGED <<work, durable, owed, told>>

Do(f) ==
  /\ saves # <<>>
  /\ work' = [work EXCEPT !.facts = @ \cup {f}]
  /\ UNCHANGED <<saves, durable, owed, told>>

Ask(f) ==
  /\ saves # <<>> /\ f \in work.facts \cup durable
  /\ work' = [work EXCEPT !.calls = Append(@, f)]
  /\ UNCHANGED <<saves, durable, owed, told>>

DoAlone(f) == saves = <<>> /\ durable' = durable \cup {f} /\ UNCHANGED <<work, saves, owed, told>>
AskAlone(f) ==
  /\ saves = <<>> /\ f \in durable
  /\ told' = Append(told, f) /\ UNCHANGED <<work, saves, durable, owed>>

Close ==
  /\ saves # <<>>
  /\ saves' = SubSeq(saves, 1, Len(saves) - 1)
  /\ IF saves' # <<>>
     THEN UNCHANGED <<work, durable, owed>>
     ELSE /\ durable' = durable \cup work.facts
          /\ owed' = work.calls \o owed
          /\ work' = Nothing
  /\ UNCHANGED told

Fail ==
  /\ saves # <<>>
  /\ work' = saves[Len(saves)] /\ saves' = SubSeq(saves, 1, Len(saves) - 1)
  /\ UNCHANGED <<durable, owed, told>>

Tell ==
  /\ saves = <<>> /\ owed # <<>>
  /\ told' = Append(told, Head(owed)) /\ owed' = Tail(owed)
  /\ UNCHANGED <<work, saves, durable>>

Die == work' = Nothing /\ saves' = <<>> /\ owed' = <<>> /\ UNCHANGED <<durable, told>>

Next ==
  \/ Open \/ Close \/ Fail \/ Tell \/ Die
  \/ \E f \in Facts : Do(f) \/ Ask(f) \/ DoAlone(f) \/ AskAlone(f)

Spec == Init /\ [][Next]_vars
=============================================================================
