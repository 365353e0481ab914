------------------------- MODULE DbTransaction_proofs -------------------------
(***************************************************************************)
(* Theorems of DbTransaction, for all facts and any depth of nesting: what *)
(* is announced is committed, and the connection implements CommitLog.     *)
(*                                                                         *)
(* The first rests on Nested: an inner transaction remembers at least what *)
(* the outer ones remember and have announced.  The second needs, besides, *)
(* what FlattenSeq computes, by counting the lists: the calls of k + 1     *)
(* transactions are those of k, then the last's (CallsOn).  With that each *)
(* operation of the connection is one of the log, and none is a stutter.   *)
(***************************************************************************)
EXTENDS DbTransaction, TLAPS, SequenceTheorems, WellFoundedInduction

\* The depth is a number and each level a transaction.
LEMMA LevelsAreNat == ASSUME TypeOK PROVE Depth \in Nat /\ \A i \in 1..Depth : frames[i] \in Frame
BY DEF TypeOK, Depth

\* The elements of a list that grew, of two joined, and of one that was popped.
LEMMA ElemsAppend == ASSUME NEW S, NEW s \in Seq(S), NEW x \in S
                     PROVE  Elems(Append(s, x)) = Elems(s) \cup {x}
<1>1. DOMAIN Append(s, x) = 1..(Len(s) + 1) /\ DOMAIN s = 1..Len(s) /\ Len(s) \in Nat
  OBVIOUS
<1>2. Append(s, x)[Len(s) + 1] = x /\ \A i \in 1..Len(s) : Append(s, x)[i] = s[i]
  OBVIOUS
<1>3. Elems(Append(s, x)) \subseteq Elems(s) \cup {x}
  <2> SUFFICES ASSUME NEW i \in 1..(Len(s) + 1) PROVE Append(s, x)[i] \in Elems(s) \cup {x}
    BY <1>1 DEF Elems
  <2> QED BY <1>1, <1>2 DEF Elems
<1>4. Elems(s) \subseteq Elems(Append(s, x))
  <2> SUFFICES ASSUME NEW i \in 1..Len(s) PROVE s[i] \in Elems(Append(s, x))
    BY <1>1 DEF Elems
  <2> QED BY <1>1, <1>2 DEF Elems
<1>5. x \in Elems(Append(s, x))
  BY <1>1, <1>2 DEF Elems
<1> QED BY <1>3, <1>4, <1>5

LEMMA ElemsConcat == ASSUME NEW S, NEW s \in Seq(S), NEW t \in Seq(S)
                     PROVE  Elems(s \o t) \subseteq Elems(s) \cup Elems(t)
<1> SUFFICES ASSUME NEW i \in 1..Len(s \o t)
             PROVE  (s \o t)[i] \in Elems(s) \cup Elems(t)
  BY DEF Elems
<1>1. CASE i <= Len(s)
  BY <1>1 DEF Elems
<1>2. CASE i > Len(s)
  <2>1. i - Len(s) \in 1..Len(t) /\ (s \o t)[i] = t[i - Len(s)]
    BY <1>2
  <2> QED BY <2>1 DEF Elems
<1> QED BY <1>1, <1>2

LEMMA ElemsTail == ASSUME NEW S, NEW s \in Seq(S), s # <<>>
                   PROVE  Elems(Tail(s)) \subseteq Elems(s) /\ Head(s) \in Elems(s)
<1>1. Head(s) \in Elems(s)
  BY DEF Elems
<1>2. ASSUME NEW i \in 1..Len(Tail(s)) PROVE Tail(s)[i] \in Elems(s)
  <2>1. Tail(s)[i] = s[i + 1] /\ i + 1 \in 1..Len(s)
    OBVIOUS
  <2> QED BY <2>1 DEF Elems
<1>3. DOMAIN Tail(s) = 1..Len(Tail(s))
  OBVIOUS
<1> QED BY <1>1, <1>2, <1>3 DEF Elems

\* Changing the calls of one transaction leaves everything else alone.
LEMMA CallsSet ==
  ASSUME NEW s \in Seq(Frame), NEW k \in 1..Len(s), NEW c \in Seq(Facts), NEW t,
         t = [s EXCEPT ![k].calls = c]
  PROVE  /\ t \in Seq(Frame) /\ Len(t) = Len(s) /\ t[k].calls = c
         /\ \A i \in 1..Len(s) : t[i].saved = s[i].saved /\ (i # k => t[i].calls = s[i].calls)
<1> DEFINE r == [s[k] EXCEPT !.calls = c]
<1>1. s[k] \in Frame
  OBVIOUS
<1>2. r \in Frame /\ r.calls = c /\ r.saved = s[k].saved
  BY <1>1 DEF Frame
<1>3. t = [s EXCEPT ![k] = r]
  OBVIOUS
<1> HIDE DEF r
<1>4. t \in Seq(Frame) /\ Len(t) = Len(s) /\ t[k] = r /\ \A i \in 1..Len(s) : i # k => t[i] = s[i]
  BY <1>2, <1>3
<1> QED BY <1>2, <1>4

\* What the stack of transactions looks like, one level at a time.
LEMMA Stack ==
  ASSUME TypeOK, Depth > 0
  PROVE  /\ Depth \in Nat /\ Top \in Frame /\ Outer \in Seq(Frame) /\ Len(Outer) = Depth - 1
         /\ \A i \in 1..(Depth - 1) : Outer[i] = frames[i]
<1>1. PICK n \in Nat : n = Depth /\ n = Len(frames) /\ n > 0
  BY LevelsAreNat DEF Depth
<1>2. Top \in Frame
  BY <1>1, LevelsAreNat DEF Top
<1>3. frames \in Seq(Frame)
  BY DEF TypeOK
<1>4. Outer = SubSeq(frames, 1, n - 1)
  BY <1>1 DEF Outer
<1>5. Outer \in Seq(Frame) /\ Len(Outer) = n - 1 /\ \A i \in 1..(n - 1) : Outer[i] = frames[i]
  BY <1>1, <1>3, <1>4
<1> QED BY <1>1, <1>2, <1>5

\* Each step keeps the types.
LEMMA TypeStep == ASSUME TypeOK, [Next]_vars PROVE TypeOK'
<1> USE DEF TypeOK
<1>1. CASE Begin
  <2>1. [saved |-> seen, calls |-> <<>>] \in Frame
    BY DEF Frame
  <2> QED BY <1>1, <2>1 DEF Begin
<1>2. CASE Release
  <2>1. PICK n \in Nat : n = Depth /\ n > 1
    BY <1>2, LevelsAreNat DEF Release
  <2>2. Top \in Frame /\ Outer \in Seq(Frame) /\ Len(Outer) = n - 1
    BY <2>1, Stack
  <2>3. n - 1 \in 1..Len(Outer) /\ Outer[n - 1] \in Frame
    BY <2>1, <2>2
  <2>4. Outer[n - 1].calls \o Top.calls \in Seq(Facts)
    BY <2>2, <2>3 DEF Frame
  <2>5. frames' = [Outer EXCEPT ![n - 1].calls = Outer[n - 1].calls \o Top.calls]
    BY <1>2, <2>1 DEF Release
  <2>6. frames' \in Seq(Frame)
    BY <2>2, <2>3, <2>4, <2>5, CallsSet
  <2> QED BY <1>2, <2>6 DEF Release
<1>3. CASE Commit
  BY <1>3, Stack DEF Commit, Frame
<1>4. CASE Rollback
  BY <1>4, Stack DEF Rollback, Frame
<1>5. CASE RunCall
  BY <1>5 DEF RunCall
<1>6. CASE Crash
  BY <1>6 DEF Crash
<1>7. ASSUME NEW f \in Facts, Write(f) PROVE TypeOK'
  BY <1>7 DEF Write
<1>8. ASSUME NEW f \in Facts, AfterCommit(f) PROVE TypeOK'
  <2>1. CASE Depth = 0
    BY <1>8, <2>1 DEF AfterCommit
  <2>2. CASE Depth # 0
    <3>1. Depth \in 1..Len(frames) /\ frames[Depth] \in Frame
      BY <2>2, LevelsAreNat DEF Depth
    <3>2. Append(frames[Depth].calls, f) \in Seq(Facts)
      BY <3>1 DEF Frame
    <3>3. frames' = [frames EXCEPT ![Depth].calls = Append(frames[Depth].calls, f)]
      BY <1>8, <2>2 DEF AfterCommit
    <3>4. frames' \in Seq(Frame)
      BY <3>1, <3>2, <3>3, CallsSet
    <3> QED BY <1>8, <2>2, <3>4 DEF AfterCommit
  <2> QED BY <2>1, <2>2
<1>9. CASE UNCHANGED vars
  BY <1>9 DEF vars
<1> QED BY <1>1, <1>2, <1>3, <1>4, <1>5, <1>6, <1>7, <1>8, <1>9 DEF Next

\* Type correctness of the connection, for any depth of nesting.
THEOREM TypeInvariant == Spec => []TypeOK
<1>1. Init => TypeOK
  BY DEF Init, TypeOK
<1>2. TypeOK /\ [Next]_vars => TypeOK'
  BY TypeStep
<1> QED BY <1>1, <1>2, PTL DEF Spec

\* The strengthening. A transaction remembers no less than the one around it,
\* and every call of an outer transaction is about something the inner one
\* found when it began: so going back to where the inner one began takes no
\* announced fact of the outer one away.
Nested ==
  /\ \A i \in 1..Depth : frames[i].saved \subseteq seen /\ Elems(frames[i].calls) \subseteq seen
  /\ \A i, j \in 1..Depth : i < j => /\ frames[i].saved \subseteq frames[j].saved
                                     /\ Elems(frames[i].calls) \subseteq frames[j].saved
  /\ IF Depth = 0 THEN seen = disk ELSE frames[1].saved = disk
Waiting == Elems(queue) \subseteq disk
Durable == Nested /\ Waiting /\ AnnouncedIsDurable

\* Each step keeps the strengthening.
LEMMA BeginStep == ASSUME TypeOK, Durable, Begin PROVE Durable'
<1>1. PICK n \in Nat : /\ n = Depth /\ Depth' = n + 1
                       /\ frames'[n + 1] = [saved |-> seen, calls |-> <<>>]
                       /\ \A i \in 1..n : frames'[i] = frames[i]
  BY DEF Begin, TypeOK, Depth
<1>2. Elems(<<>>) = {}
  BY DEF Elems
<1>3. Nested'
  <2>1. \A i \in 1..(n + 1) : frames'[i].saved \subseteq seen /\ Elems(frames'[i].calls) \subseteq seen
    BY <1>1, <1>2 DEF Durable, Nested
  <2>2. \A i, j \in 1..(n + 1) : i < j => /\ frames'[i].saved \subseteq frames'[j].saved
                                          /\ Elems(frames'[i].calls) \subseteq frames'[j].saved
    BY <1>1 DEF Durable, Nested
  <2>3. frames'[1].saved = disk
    BY <1>1 DEF Durable, Nested
  <2>4. seen' = seen /\ disk' = disk /\ Depth' # 0
    BY <1>1 DEF Begin
  <2> QED BY <1>1, <2>1, <2>2, <2>3, <2>4 DEF Nested
<1> QED BY <1>3 DEF Begin, Durable, Waiting, AnnouncedIsDurable

LEMMA WriteStep == ASSUME TypeOK, Durable, NEW f \in Facts, Write(f) PROVE Durable'
<1>1. Depth' = Depth /\ frames' = frames /\ seen \subseteq seen' /\ disk \subseteq disk'
  BY DEF Write, Depth, Durable, Nested
<1>2. Nested'
  BY <1>1 DEF Write, Durable, Nested
<1> QED BY <1>1, <1>2 DEF Write, Durable, Waiting, AnnouncedIsDurable

LEMMA AfterCommitStep == ASSUME TypeOK, Durable, NEW f \in Facts, AfterCommit(f) PROVE Durable'
<1>1. CASE Depth = 0
  <2>1. f \in disk /\ told \in Seq(Facts) /\ told' = Append(told, f)
    BY <1>1 DEF AfterCommit, TypeOK, Durable, Nested
  <2>3. Elems(told') = Elems(told) \cup {f}
    BY <2>1, ElemsAppend
  <2>2. Nested'
    BY <1>1 DEF AfterCommit, Durable, Nested, Depth
  <2> QED BY <1>1, <2>1, <2>2, <2>3 DEF AfterCommit, Durable, Waiting, AnnouncedIsDurable
<1>2. CASE Depth # 0
  <2>1. PICK n \in Nat : n = Depth /\ n > 0 /\ Depth' = n
    BY <1>2, LevelsAreNat DEF AfterCommit, TypeOK, Depth
  <2>2. frames[n] \in Frame /\ f \in seen
    BY <2>1, LevelsAreNat DEF AfterCommit
  <2>7. frames[n].calls \in Seq(Facts) /\ Append(frames[n].calls, f) \in Seq(Facts)
    BY <2>2 DEF Frame
  <2>8. /\ frames' = [frames EXCEPT ![n].calls = Append(frames[n].calls, f)]
        /\ frames \in Seq(Frame) /\ n \in 1..Len(frames) /\ Len(frames) = n
    BY <1>2, <2>1 DEF AfterCommit, TypeOK, Depth
  <2>9. Elems(Append(frames[n].calls, f)) = Elems(frames[n].calls) \cup {f}
    BY <2>7, ElemsAppend
  <2>3. /\ \A i \in 1..n : frames'[i].saved = frames[i].saved
        /\ \A i \in 1..n : i # n => frames'[i].calls = frames[i].calls
        /\ Elems(frames'[n].calls) = Elems(frames[n].calls) \cup {f}
    BY <2>7, <2>8, <2>9, CallsSet
  <2>4. \A i \in 1..n : Elems(frames'[i].calls) \subseteq seen
    BY <2>1, <2>2, <2>3 DEF Durable, Nested
  <2>5. \A i, j \in 1..n : i < j => Elems(frames'[i].calls) \subseteq frames'[j].saved
    <3> TAKE i, j \in 1..n
    <3> HAVE i < j
    <3>1. i # n
      BY <2>1
    <3> QED BY <2>1, <2>3, <3>1 DEF Durable, Nested
  <2>6. Nested'
    BY <1>2, <2>1, <2>3, <2>4, <2>5 DEF AfterCommit, Durable, Nested
  <2> QED BY <1>2, <2>6 DEF AfterCommit, Durable, Waiting, AnnouncedIsDurable
<1> QED BY <1>1, <1>2

LEMMA ReleaseStep == ASSUME TypeOK, Durable, Release PROVE Durable'
<1>1. PICK n \in Nat : n = Depth /\ n > 1
  BY LevelsAreNat DEF Release
<1>2. Outer \in Seq(Frame) /\ Len(Outer) = n - 1 /\ Top = frames[n] /\ Top \in Frame
      /\ \A i \in 1..(n - 1) : Outer[i] = frames[i]
  BY <1>1, Stack DEF Top
<1>3. frames[n - 1] \in Frame
  BY <1>1, LevelsAreNat
<1>9. /\ frames' = [Outer EXCEPT ![n - 1].calls = frames[n - 1].calls \o Top.calls]
      /\ n - 1 \in 1..Len(Outer) /\ frames[n - 1].calls \o Top.calls \in Seq(Facts)
  <2>1. frames[n - 1].calls \in Seq(Facts) /\ Top.calls \in Seq(Facts)
    BY <1>2, <1>3 DEF Frame
  <2>2. n - 1 \in 1..Len(Outer) /\ Outer[n - 1] = frames[n - 1]
    BY <1>1, <1>2
  <2>3. frames' = [Outer EXCEPT ![n - 1].calls = Outer[n - 1].calls \o Top.calls]
    BY <1>1 DEF Release
  <2> QED BY <2>1, <2>2, <2>3
<1>4. /\ Depth' = n - 1
      /\ \A i \in 1..(n - 1) : frames'[i].saved = frames[i].saved
      /\ \A i \in 1..(n - 1) : i # n - 1 => frames'[i].calls = frames[i].calls
      /\ frames'[n - 1].calls = frames[n - 1].calls \o Top.calls
  <2> DEFINE c == frames[n - 1].calls \o Top.calls
             s == Outer
             t == frames'
  <2>3. c \in Seq(Facts) /\ s \in Seq(Frame) /\ n - 1 \in 1..Len(s) /\ Len(s) = n - 1
        /\ t = [s EXCEPT ![n - 1].calls = c]
    BY <1>2, <1>9
  <2> HIDE DEF c, s, t
  <2>4. /\ Len(t) = n - 1 /\ t[n - 1].calls = c
        /\ \A i \in 1..(n - 1) : t[i].saved = s[i].saved /\ (i # n - 1 => t[i].calls = s[i].calls)
    BY <2>3, CallsSet
  <2>1. /\ Len(frames') = n - 1 /\ frames'[n - 1].calls = frames[n - 1].calls \o Top.calls
        /\ \A i \in 1..(n - 1) : /\ frames'[i].saved = Outer[i].saved
                               /\ (i # n - 1 => frames'[i].calls = Outer[i].calls)
    BY <2>4 DEF c, s, t
  <2>2. Depth' = n - 1
    BY <2>1 DEF Depth
  <2>5. ASSUME NEW i \in 1..(n - 1)
        PROVE  frames'[i].saved = frames[i].saved /\ (i # n - 1 => frames'[i].calls = frames[i].calls)
    <3>1. Outer[i] = frames[i]
      BY <1>2
    <3> QED BY <2>1, <3>1
  <2> QED BY <2>1, <2>2, <2>5
<1>5. Elems(frames'[n - 1].calls) \subseteq Elems(frames[n - 1].calls) \cup Elems(Top.calls)
  BY <1>2, <1>3, <1>4, ElemsConcat DEF Frame
<1>6. ASSUME NEW i \in 1..(n - 1) PROVE Elems(frames'[i].calls) \subseteq seen
  <2>1. \A k \in {i, n - 1, n} : Elems(frames[k].calls) \subseteq seen
    BY <1>1 DEF Durable, Nested
  <2> QED BY <1>2, <1>4, <1>5, <2>1
<1>7. \A i, j \in 1..(n - 1) : i < j => Elems(frames'[i].calls) \subseteq frames'[j].saved
  <2> TAKE i, j \in 1..(n - 1)
  <2> HAVE i < j
  <2>1. i # n - 1 /\ i \in 1..n /\ j \in 1..n
    BY <1>1
  <2> QED BY <1>1, <1>4, <2>1 DEF Durable, Nested
<1>8. Nested'
  BY <1>1, <1>4, <1>6, <1>7 DEF Release, Durable, Nested
<1> QED BY <1>8 DEF Release, Durable, Waiting, AnnouncedIsDurable

LEMMA CommitStep == ASSUME TypeOK, Durable, Commit PROVE Durable'
<1>1. Top = frames[1] /\ Top \in Frame /\ Depth' = 0
  BY Stack DEF Commit, Top, Depth
<1>2. Elems(Top.calls) \subseteq seen /\ disk \subseteq seen
  BY <1>1 DEF Commit, Durable, Nested
<1>3. Elems(queue') \subseteq Elems(Top.calls) \cup Elems(queue)
  BY <1>1, ElemsConcat DEF Commit, TypeOK, Frame
<1>4. Nested'
  BY <1>1 DEF Commit, Nested
<1> QED BY <1>2, <1>3, <1>4 DEF Commit, Durable, Waiting, AnnouncedIsDurable

LEMMA RollbackStep == ASSUME TypeOK, Durable, Rollback PROVE Durable'
<1>1. PICK n \in Nat : n = Depth /\ n > 0
  BY DEF Rollback, TypeOK, Depth
<1>2. Depth' = n - 1 /\ seen' = frames[n].saved /\ \A i \in 1..(n - 1) : frames'[i] = frames[i]
  BY <1>1, Stack DEF Rollback, Top, Depth
<1>3. \A i \in 1..(n - 1) : frames[i].saved \subseteq frames[n].saved
                            /\ Elems(frames[i].calls) \subseteq frames[n].saved
  BY <1>1 DEF Durable, Nested
<1>4. Nested'
  BY <1>1, <1>2, <1>3 DEF Rollback, Durable, Nested
<1> QED BY <1>4 DEF Rollback, Durable, Waiting, AnnouncedIsDurable

LEMMA RunCallStep == ASSUME TypeOK, Durable, RunCall PROVE Durable'
<1>1. Elems(Tail(queue)) \subseteq Elems(queue) /\ Head(queue) \in Elems(queue) /\ Head(queue) \in Facts
  BY ElemsTail DEF RunCall, TypeOK
<1>2. Elems(told') = Elems(told) \cup {Head(queue)}
  BY <1>1, ElemsAppend DEF RunCall, TypeOK
<1>3. Nested'
  BY DEF RunCall, Durable, Nested, Depth
<1> QED BY <1>1, <1>2, <1>3 DEF RunCall, Durable, Waiting, AnnouncedIsDurable

LEMMA CrashStep == ASSUME TypeOK, Durable, Crash PROVE Durable'
<1>1. Depth' = 0 /\ Elems(queue') = {}
  BY DEF Crash, Depth, Elems
<1> QED BY <1>1 DEF Crash, Durable, Nested, Waiting, AnnouncedIsDurable

LEMMA DurableStep == ASSUME TypeOK, Durable, [Next]_vars PROVE Durable'
<1>1. CASE UNCHANGED vars
  BY <1>1 DEF vars, Durable, Nested, Waiting, AnnouncedIsDurable, Depth
<1> QED BY <1>1, BeginStep, WriteStep, AfterCommitStep, ReleaseStep, CommitStep, RollbackStep,
           RunCallStep, CrashStep DEF Next

\* Whatever is announced is committed, for any depth of nesting, any rollbacks
\* and any transactions of the listeners.
THEOREM AnnouncedIsDurableHolds == Spec => []AnnouncedIsDurable
<1>1. Init => Durable
  BY DEF Init, Durable, Nested, Waiting, AnnouncedIsDurable, Depth, Elems
<1>2. TypeOK /\ Durable /\ [Next]_vars => Durable'
  BY DurableStep
<1>3. Durable => AnnouncedIsDurable
  BY DEF Durable
<1> QED BY <1>1, <1>2, <1>3, TypeInvariant, PTL DEF Spec

-----------------------------------------------------------------------------
(* Flattening a list of lists, one list at a time                            *)

\* Counting up from 0, for a set of numbers.
LEMMA Counting == ASSUME NEW T, 0 \in T, \A n \in Nat : n \in T => n + 1 \in T PROVE Nat \subseteq T
<1> DEFINE R == {ss \in Nat \X Nat : ss[1] < ss[2]}
           S == Nat \ T
<1>1. SUFFICES ASSUME S # {} PROVE FALSE
  OBVIOUS
<1>2. IsWellFoundedOn(R, Nat)
  BY NatLessThanWellFounded, Zenon DEF OpToRel
<1>3. S \subseteq Nat
  OBVIOUS
<1> HIDE DEF R
<1>4. PICK x \in S : \A y \in S : ~ (<<y, x>> \in R)
  <2> HIDE DEF S
  <2> QED BY <1>1, <1>2, <1>3, WFMin, Zenon
<1>5. x # 0 /\ x - 1 \in Nat /\ x - 1 < x
  OBVIOUS
<1>6. x - 1 \in T
  BY <1>4, <1>5 DEF R
<1>7. (x - 1) + 1 \in T
  BY <1>5, <1>6
<1> QED BY <1>4, <1>7

\* What FlattenSeq computes on the way.
Flat(f, s, n) == f = [i \in 1..n |-> IF i = 1 THEN s[i] ELSE f[i - 1] \o s[i]]

\* Its value at each place.
LEMMA FlatOf == ASSUME NEW f, NEW s, NEW n \in Nat, Flat(f, s, n)
                PROVE  /\ DOMAIN f = 1..n
                       /\ \A i \in 1..n : f[i] = IF i = 1 THEN s[i] ELSE f[i - 1] \o s[i]
<1> DEFINE g == [i \in 1..n |-> IF i = 1 THEN s[i] ELSE f[i - 1] \o s[i]]
<1>1. f = g
  BY DEF Flat
<1>2. DOMAIN g = 1..n /\ \A i \in 1..n : g[i] = IF i = 1 THEN s[i] ELSE f[i - 1] \o s[i]
  OBVIOUS
<1> HIDE DEF g
<1> QED BY <1>1, <1>2

\* There is such a function, however long the list.
LEMMA FlatExists == ASSUME NEW s PROVE \A n \in Nat : \E f : Flat(f, s, n)
<1> DEFINE T == {n \in Nat : \E f : Flat(f, s, n)}
<1>1. 0 \in T
  <2> DEFINE f == [i \in 1..0 |-> {}]
  <2>1. f = [i \in 1..0 |-> IF i = 1 THEN s[i] ELSE f[i - 1] \o s[i]]
    OBVIOUS
  <2>2. Flat(f, s, 0)
    BY <2>1 DEF Flat
  <2> QED BY <2>2
<1>2. ASSUME NEW n \in Nat, n \in T PROVE n + 1 \in T
  <2>1. PICK f : Flat(f, s, n)
    BY <1>2
  <2>2. \A i \in 1..n : f[i] = IF i = 1 THEN s[i] ELSE f[i - 1] \o s[i]
    BY <2>1, FlatOf
  <2> DEFINE h == IF n = 0 THEN s[1] ELSE f[n] \o s[n + 1]
             g == [i \in 1..(n + 1) |-> IF i = n + 1 THEN h ELSE f[i]]
             r == [i \in 1..(n + 1) |-> IF i = 1 THEN s[i] ELSE g[i - 1] \o s[i]]
  <2>3. ASSUME NEW i \in 1..(n + 1) PROVE g[i] = IF i = 1 THEN s[i] ELSE g[i - 1] \o s[i]
    <3>1. CASE i = n + 1
      <4>1. g[i] = h
        BY <3>1
      <4>2. CASE n = 0
        BY <3>1, <4>1, <4>2
      <4>3. CASE n # 0
        <5>1. n \in 1..(n + 1) /\ n # n + 1
          BY <4>3
        <5>2. g[n] = f[n]
          BY <5>1
        <5>3. i - 1 = n /\ i # 1
          BY <3>1, <4>3
        <5> QED BY <3>1, <4>1, <4>3, <5>2, <5>3
      <4> QED BY <4>2, <4>3
    <3>2. CASE i # n + 1
      <4>1. i \in 1..n /\ g[i] = f[i]
        BY <3>2
      <4>2. CASE i = 1
        BY <2>2, <4>1, <4>2
      <4>3. CASE i # 1
        <5>1. i - 1 \in 1..(n + 1) /\ i - 1 # n + 1
          BY <4>1, <4>3
        <5>2. g[i - 1] = f[i - 1]
          BY <5>1
        <5> QED BY <2>2, <4>1, <4>3, <5>2
      <4> QED BY <4>2, <4>3
    <3> QED BY <3>1, <3>2
  <2>4. DOMAIN g = 1..(n + 1) /\ DOMAIN r = 1..(n + 1) /\ \A i \in 1..(n + 1) : r[i] = g[i]
    BY <2>3
  <2>5. g = r
    BY <2>4
  <2>6. Flat(g, s, n + 1)
    BY <2>5 DEF Flat
  <2> HIDE DEF g
  <2> QED BY <2>6
<1> HIDE DEF T
<1>3. Nat \subseteq T
  BY <1>1, <1>2, Counting
<1> QED BY <1>3 DEF T

\* Lists that begin alike flatten alike as far as they do.
LEMMA FlatAlike ==
  ASSUME NEW f, NEW s, NEW n \in Nat, Flat(f, s, n), NEW g, NEW t, NEW m \in Nat, Flat(g, t, m),
         n <= m, \A i \in 1..n : s[i] = t[i]
  PROVE  \A i \in 1..n : f[i] = g[i]
<1>1. /\ \A i \in 1..n : f[i] = IF i = 1 THEN s[i] ELSE f[i - 1] \o s[i]
      /\ \A i \in 1..m : g[i] = IF i = 1 THEN t[i] ELSE g[i - 1] \o t[i]
  BY FlatOf
<1> DEFINE T == {k \in Nat : k \in 1..n => f[k] = g[k]}
<1>2. 0 \in T
  OBVIOUS
<1>3. ASSUME NEW k \in Nat, k \in T PROVE k + 1 \in T
  <2> SUFFICES ASSUME k + 1 \in 1..n PROVE f[k + 1] = g[k + 1]
    OBVIOUS
  <2>1. k + 1 \in 1..m /\ s[k + 1] = t[k + 1]
    OBVIOUS
  <2>2. CASE k = 0
    BY <1>1, <2>1, <2>2
  <2>3. CASE k # 0
    <3>1. k \in 1..n /\ k + 1 # 1 /\ (k + 1) - 1 = k
      BY <2>3
    <3>2. f[k] = g[k]
      BY <1>3, <3>1
    <3>3. f[k + 1] = f[k] \o s[k + 1] /\ g[k + 1] = g[k] \o t[k + 1]
      BY <1>1, <2>1, <3>1
    <3> QED BY <2>1, <3>2, <3>3
  <2> QED BY <2>2, <2>3
<1> HIDE DEF T
<1>4. Nat \subseteq T
  BY <1>2, <1>3, Counting
<1> QED BY <1>4 DEF T

\* FlattenSeq is its last value.
LEMMA FlattenIs ==
  ASSUME NEW S, NEW s \in Seq(S), Len(s) > 0
  PROVE  \E f : Flat(f, s, Len(s)) /\ FlattenSeq(s) = f[Len(s)]
<1>1. Len(s) \in Nat /\ Len(s) # 0
  OBVIOUS
<1> DEFINE f == CHOOSE f : f = [i \in 1..Len(s) |-> IF i = 1 THEN s[i] ELSE f[i - 1] \o s[i]]
<1>2. \E g : g = [i \in 1..Len(s) |-> IF i = 1 THEN s[i] ELSE g[i - 1] \o s[i]]
  BY <1>1, FlatExists DEF Flat
<1>3. f = [i \in 1..Len(s) |-> IF i = 1 THEN s[i] ELSE f[i - 1] \o s[i]]
  BY <1>2, Zenon
<1>4. FlattenSeq(s) = f[Len(s)]
  BY <1>1, Zenon DEF FlattenSeq
<1> HIDE DEF f
<1> QED BY <1>3, <1>4 DEF Flat

-----------------------------------------------------------------------------
(* The calls of the transactions, taken together                             *)

\* No transaction, no calls.
LEMMA CallsNone == ASSUME NEW fs PROVE CallsOf(fs, 0) = <<>>
<1> DEFINE s == [i \in 1..0 |-> fs[i].calls]
<1>1. s = <<>>
  OBVIOUS
<1> HIDE DEF s
<1>2. Len(s) = 0
  BY <1>1
<1>3. FlattenSeq(s) = s
  BY <1>2, Zenon DEF FlattenSeq
<1> QED BY <1>1, <1>3 DEF s, CallsOf

\* Only the calls matter.
LEMMA CallsAlike ==
  ASSUME NEW fs, NEW gs, NEW k, \A i \in 1..k : fs[i].calls = gs[i].calls
  PROVE  CallsOf(fs, k) = CallsOf(gs, k)
<1>1. [i \in 1..k |-> fs[i].calls] = [i \in 1..k |-> gs[i].calls]
  OBVIOUS
<1> QED BY <1>1, Zenon DEF CallsOf

\* The list that is flattened is a list of lists of facts.
LEMMA CallsList ==
  ASSUME NEW fs \in Seq(Frame), NEW k \in Nat, k <= Len(fs), NEW s,
         s = [i \in 1..k |-> fs[i].calls]
  PROVE  s \in Seq(Seq(Facts)) /\ Len(s) = k /\ \A i \in 1..k : s[i] = fs[i].calls
<1>1. \A i \in 1..k : fs[i] \in Frame
  OBVIOUS
<1>2. \A i \in 1..k : fs[i].calls \in Seq(Facts)
  BY <1>1 DEF Frame
<1> QED BY <1>2

\* The calls of k transactions are those of the outer ones, then the last's.
LEMMA CallsOn ==
  ASSUME NEW fs \in Seq(Frame), NEW k \in Nat, k + 1 <= Len(fs),
         CallsOf(fs, k) \in Seq(Facts)
  PROVE  CallsOf(fs, k + 1) = CallsOf(fs, k) \o fs[k + 1].calls
<1> DEFINE s == [i \in 1..k |-> fs[i].calls]
           t == [i \in 1..(k + 1) |-> fs[i].calls]
<1>1. s \in Seq(Seq(Facts)) /\ Len(s) = k /\ \A i \in 1..k : s[i] = fs[i].calls
  <2>1. k <= Len(fs)
    OBVIOUS
  <2> QED BY <2>1, CallsList
<1>2. t \in Seq(Seq(Facts)) /\ Len(t) = k + 1 /\ \A i \in 1..(k + 1) : t[i] = fs[i].calls
  <2>1. k + 1 \in Nat
    OBVIOUS
  <2> QED BY <2>1, CallsList
<1>3. CallsOf(fs, k) = FlattenSeq(s) /\ CallsOf(fs, k + 1) = FlattenSeq(t)
  BY Zenon DEF CallsOf
<1> HIDE DEF s, t
<1>4. k + 1 \in Nat /\ k + 1 > 0 /\ k + 1 \in 1..(k + 1) /\ t[k + 1] = fs[k + 1].calls
  BY <1>2
<1>5. PICK g : Flat(g, t, k + 1) /\ FlattenSeq(t) = g[k + 1]
  BY <1>2, <1>4, FlattenIs
<1>6. \A i \in 1..(k + 1) : g[i] = IF i = 1 THEN t[i] ELSE g[i - 1] \o t[i]
  BY <1>4, <1>5, FlatOf
<1>7. CASE k = 0
  <2>1. CallsOf(fs, k) = <<>>
    BY <1>7, CallsNone
  <2>5. k + 1 = 1
    BY <1>7
  <2>6. g[1] = t[1] /\ t[1] \in Seq(Facts)
    BY <1>2, <1>4, <1>6, <2>5
  <2>2. FlattenSeq(t) = t[1] /\ t[1] \in Seq(Facts)
    BY <1>5, <2>5, <2>6
  <2>3. t[1] = fs[k + 1].calls
    BY <1>4, <1>7
  <2>4. <<>> \o t[1] = t[1]
    BY <2>2
  <2> QED BY <1>3, <2>1, <2>2, <2>3, <2>4
<1>8. CASE k # 0
  <2>1. PICK f : Flat(f, s, k) /\ FlattenSeq(s) = f[k]
    <3>1. Len(s) > 0
      BY <1>1, <1>8
    <3> QED BY <1>1, <3>1, FlattenIs
  <2>6. k \in 1..k /\ k <= k + 1 /\ \A i \in 1..k : i \in 1..(k + 1)
    BY <1>8
  <2>7. \A i \in 1..k : s[i] = t[i]
    BY <1>1, <1>2, <2>6
  <2>2. k \in 1..k /\ k <= k + 1 /\ \A i \in 1..k : s[i] = t[i]
    BY <2>6, <2>7
  <2>3. f[k] = g[k]
    BY <1>4, <1>5, <2>1, <2>2, FlatAlike
  <2>4. k + 1 # 1 /\ (k + 1) - 1 = k
    BY <1>8
  <2>5. g[k + 1] = g[k] \o t[k + 1]
    BY <1>4, <1>6, <2>4
  <2> QED BY <1>3, <1>4, <1>5, <2>1, <2>3, <2>5
<1> QED BY <1>7, <1>8

\* So the calls are a list of facts, for any number of transactions.
LEMMA CallsType ==
  ASSUME NEW fs \in Seq(Frame)
  PROVE  \A k \in Nat : k <= Len(fs) => CallsOf(fs, k) \in Seq(Facts)
<1> DEFINE T == {k \in Nat : k <= Len(fs) => CallsOf(fs, k) \in Seq(Facts)}
<1>1. 0 \in T
  <2>2. <<>> \in Seq(Facts)
    OBVIOUS
  <2>1. CallsOf(fs, 0) \in Seq(Facts)
    BY <2>2, CallsNone
  <2> QED BY <2>1
<1>2. ASSUME NEW k \in Nat, k \in T PROVE k + 1 \in T
  <2> SUFFICES ASSUME k + 1 <= Len(fs) PROVE CallsOf(fs, k + 1) \in Seq(Facts)
    OBVIOUS
  <2>1. CallsOf(fs, k) \in Seq(Facts)
    BY <1>2
  <2>2. fs[k + 1] \in Frame
    OBVIOUS
  <2>3. fs[k + 1].calls \in Seq(Facts)
    BY <2>2 DEF Frame
  <2>4. CallsOf(fs, k + 1) = CallsOf(fs, k) \o fs[k + 1].calls
    BY <2>1, CallsOn
  <2>5. CallsOf(fs, k) \o fs[k + 1].calls \in Seq(Facts)
    BY <2>1, <2>3, ConcatProperties, Zenon
  <2> QED BY <2>4, <2>5
<1> HIDE DEF T
<1>3. Nat \subseteq T
  BY <1>1, <1>2, Counting
<1> QED BY <1>3 DEF T

-----------------------------------------------------------------------------
(* What is remembered of the work                                            *)

SavesOf(fs, d) == [k \in 1..Len(fs) |-> [facts |-> fs[k].saved \ d, calls |-> CallsOf(fs, k - 1)]]

\* One state of the work for each transaction.
LEMMA SavesShape ==
  ASSUME NEW fs \in Seq(Frame), NEW d
  PROVE  /\ SavesOf(fs, d) \in Seq({SavesOf(fs, d)[k] : k \in 1..Len(fs)})
         /\ Len(SavesOf(fs, d)) = Len(fs)
         /\ SavesOf(fs, d) = <<>> <=> fs = <<>>
<1>1. Len(fs) \in Nat
  OBVIOUS
<1> DEFINE s == SavesOf(fs, d)
<1>2. DOMAIN s = 1..Len(fs)
  BY DEF SavesOf
<1>3. s = [k \in 1..Len(fs) |-> s[k]]
  BY DEF SavesOf
<1> HIDE DEF s
<1>4. s \in Seq({s[k] : k \in 1..Len(fs)}) /\ Len(s) = Len(fs)
  BY <1>1, <1>2, <1>3
<1>5. s = <<>> <=> Len(s) = 0
  BY <1>4, EmptySeq
<1>6. fs = <<>> <=> Len(fs) = 0
  BY EmptySeq
<1> QED BY <1>4, <1>5, <1>6 DEF s

\* Transactions with the same memories, and the same calls but for the last.
LEMMA SavesAlike ==
  ASSUME NEW fs \in Seq(Frame), NEW gs \in Seq(Frame), NEW d, Len(fs) = Len(gs),
         \A i \in 1..Len(fs) : fs[i].saved = gs[i].saved,
         \A i \in 1..(Len(fs) - 1) : fs[i].calls = gs[i].calls
  PROVE  SavesOf(fs, d) = SavesOf(gs, d)
<1>1. ASSUME NEW k \in 1..Len(fs) PROVE CallsOf(fs, k - 1) = CallsOf(gs, k - 1)
  <2>1. \A i \in 1..(k - 1) : fs[i].calls = gs[i].calls
    OBVIOUS
  <2> QED BY <2>1, CallsAlike, Zenon
<1> QED BY <1>1 DEF SavesOf

\* One transaction more remembers one state of the work more.
LEMMA SavesOn ==
  ASSUME NEW fs \in Seq(Frame), NEW gs \in Seq(Frame), NEW d, Len(gs) = Len(fs) + 1,
         \A i \in 1..Len(fs) : fs[i] = gs[i]
  PROVE  SavesOf(gs, d) = Append(SavesOf(fs, d),
                                 [facts |-> gs[Len(fs) + 1].saved \ d, calls |-> CallsOf(fs, Len(fs))])
<1> DEFINE n == Len(fs)
           x == [facts |-> gs[n + 1].saved \ d, calls |-> CallsOf(fs, n)]
           s == SavesOf(fs, d)
           t == SavesOf(gs, d)
<1>1. n \in Nat
  OBVIOUS
<1>2. ASSUME NEW k \in 1..(n + 1) PROVE CallsOf(gs, k - 1) = CallsOf(fs, k - 1)
  <2>1. \A i \in 1..(k - 1) : gs[i].calls = fs[i].calls
    OBVIOUS
  <2> QED BY <2>1, CallsAlike, Zenon
<1>3. t[n + 1] = x
  <2>1. n + 1 \in 1..Len(gs) /\ (n + 1) - 1 = n
    BY <1>1
  <2>2. t[n + 1] = [facts |-> gs[n + 1].saved \ d, calls |-> CallsOf(gs, (n + 1) - 1)]
    BY <2>1 DEF SavesOf
  <2>3. CallsOf(gs, (n + 1) - 1) = CallsOf(fs, (n + 1) - 1)
    BY <1>1, <1>2
  <2> QED BY <2>1, <2>2, <2>3
<1>4. ASSUME NEW k \in 1..n PROVE t[k] = s[k]
  <2>1. k \in 1..(n + 1) /\ k \in 1..Len(gs) /\ gs[k] = fs[k]
    BY <1>1
  <2>2. t[k] = [facts |-> gs[k].saved \ d, calls |-> CallsOf(gs, k - 1)]
    BY <2>1 DEF SavesOf
  <2>3. s[k] = [facts |-> fs[k].saved \ d, calls |-> CallsOf(fs, k - 1)]
    BY DEF SavesOf
  <2> QED BY <1>2, <2>1, <2>2, <2>3
<1>5. /\ s \in Seq({s[k] : k \in 1..n}) /\ Len(s) = n
      /\ t \in Seq({t[k] : k \in 1..(n + 1)}) /\ Len(t) = n + 1
  <2>1. s \in Seq({s[k] : k \in 1..Len(fs)}) /\ Len(s) = Len(fs)
    BY SavesShape
  <2>2. t \in Seq({t[k] : k \in 1..Len(gs)}) /\ Len(t) = Len(gs)
    BY SavesShape
  <2> QED BY <2>1, <2>2
<1> HIDE DEF s, t, x, n
<1> DEFINE X == {s[k] : k \in 1..n} \cup {t[k] : k \in 1..(n + 1)} \cup {x}
<1>6. s \in Seq(X) /\ t \in Seq(X) /\ x \in X
  <2>1. {s[k] : k \in 1..n} \subseteq X /\ {t[k] : k \in 1..(n + 1)} \subseteq X /\ x \in X
    OBVIOUS
  <2> HIDE DEF X
  <2> QED BY <1>5, <2>1
<1> HIDE DEF X
<1>7. Append(s, x) \in Seq(X) /\ Len(Append(s, x)) = n + 1 /\ Append(s, x)[n + 1] = x
      /\ \A k \in 1..n : Append(s, x)[k] = s[k]
  BY <1>1, <1>5, <1>6
<1>8. \A k \in 1..(n + 1) : Append(s, x)[k] = t[k]
  BY <1>1, <1>3, <1>4, <1>7
<1>9. t = Append(s, x)
  BY <1>5, <1>6, <1>7, <1>8, SeqEqual
<1> QED BY <1>9 DEF s, t, x, n

\* Taking the last one off again.
LEMMA Back ==
  ASSUME NEW X, NEW s \in Seq(X), NEW x \in X, NEW t, t = Append(s, x)
  PROVE  t # <<>> /\ t[Len(t)] = x /\ SubSeq(t, 1, Len(t) - 1) = s
<1>1. Len(s) \in Nat /\ t \in Seq(X) /\ Len(t) = Len(s) + 1 /\ t[Len(s) + 1] = x /\ t # <<>>
      /\ \A k \in 1..Len(s) : t[k] = s[k]
  OBVIOUS
<1>2. Len(t) - 1 = Len(s)
  BY <1>1
<1> DEFINE r == SubSeq(t, 1, Len(s))
<1>3. r \in Seq(X) /\ Len(r) = Len(s) /\ \A k \in 1..Len(s) : r[k] = t[k]
  BY <1>1
<1> HIDE DEF r
<1>4. r = s
  BY <1>1, <1>3, SeqEqual
<1> QED BY <1>1, <1>2, <1>4 DEF r

-----------------------------------------------------------------------------
(* Every step of the connection is one of the log                            *)

\* BEGIN or SAVEPOINT remembers the work so far.
LEMMA BeginIsOpen == ASSUME TypeOK, Begin PROVE Log!Open
<1> DEFINE gs == frames'
           f == [saved |-> seen, calls |-> <<>>]
<1>1. gs = Append(frames, f) /\ f \in Frame /\ frames \in Seq(Frame) /\ gs \in Seq(Frame)
  BY DEF Begin, TypeOK, Frame
<1>2. /\ Len(frames) \in Nat /\ Len(gs) = Len(frames) + 1 /\ gs[Len(frames) + 1] = f
      /\ \A i \in 1..Len(frames) : frames[i] = gs[i]
  BY <1>1
<1>3. CallsOf(gs, Len(frames)) = CallsOf(frames, Len(frames))
  BY <1>2, CallsAlike
<1>4. CallsOf(gs, Len(frames) + 1) = CallsOf(frames, Len(frames))
  <2>1. CallsOf(frames, Len(frames)) \in Seq(Facts)
    BY <1>1, <1>2, CallsType
  <2>2. Len(frames) + 1 <= Len(gs)
    BY <1>2
  <2>3. CallsOf(gs, Len(frames) + 1) = CallsOf(gs, Len(frames)) \o gs[Len(frames) + 1].calls
    BY <1>1, <1>2, <1>3, <2>1, <2>2, CallsOn
  <2>4. gs[Len(frames) + 1].calls = <<>>
    BY <1>2
  <2> QED BY <1>3, <2>1, <2>3, <2>4, ConcatEmptySeq
<1>5. Work' = Work
  BY <1>2, <1>4 DEF Work, Depth, Begin
<1>6. Saves' = Append(Saves, Work)
  <2>1. Saves = SavesOf(frames, disk) /\ Saves' = SavesOf(gs, disk)
    BY DEF Saves, SavesOf, Depth, Begin
  <2>2. SavesOf(gs, disk) = Append(SavesOf(frames, disk),
          [facts |-> gs[Len(frames) + 1].saved \ disk, calls |-> CallsOf(frames, Len(frames))])
    BY <1>1, <1>2, SavesOn
  <2>3. Work = [facts |-> gs[Len(frames) + 1].saved \ disk, calls |-> CallsOf(frames, Len(frames))]
    BY <1>2 DEF Work, Depth
  <2> QED BY <2>1, <2>2, <2>3
<1> QED BY <1>5, <1>6 DEF Log!Open, Begin

\* There is something to go back to exactly inside a transaction.
LEMMA NoSaves == ASSUME TypeOK PROVE Saves # <<>> <=> Depth # 0
<1>1. Saves = SavesOf(frames, disk)
  BY DEF Saves, SavesOf, Depth
<1>2. frames \in Seq(Frame) /\ (frames = <<>> <=> Len(frames) = 0)
  BY EmptySeq DEF TypeOK
<1> QED BY <1>1, <1>2, SavesShape DEF Depth

\* A statement adds to the work, or commits by itself.
LEMMA WriteIsDo == ASSUME TypeOK, Durable, NEW f \in Facts, Write(f) PROVE Log!Do(f) \/ Log!DoAlone(f)
<1>1. CASE Depth = 0
  <2>1. Work' = Work
    BY <1>1 DEF Write, Durable, Nested, Work, Depth
  <2>2. Saves' = Saves
    BY <1>1 DEF Write, Saves, Depth
  <2>3. disk' = disk \cup {f}
    BY <1>1 DEF Write, Durable, Nested
  <2> QED BY <1>1, <2>1, <2>2, <2>3, NoSaves DEF Log!DoAlone, Write
<1>2. CASE Depth # 0
  <2>1. disk \subseteq seen /\ disk' = disk /\ seen' = seen \cup {f}
    BY <1>2, LevelsAreNat DEF Write, Durable, Nested
  <2>2. seen' \ disk' = (seen \ disk) \cup {f}
    BY <2>1 DEF Write
  <2>3. Work' = [Work EXCEPT !.facts = @ \cup {f}]
    <3>1. Work = [facts |-> seen \ disk, calls |-> CallsOf(frames, Depth)]
      BY DEF Work
    <3>2. Work' = [facts |-> (seen \ disk) \cup {f}, calls |-> CallsOf(frames, Depth)]
      BY <2>2 DEF Write, Work, Depth
    <3> DEFINE w == Work
               a == seen \ disk
               b == CallsOf(frames, Depth)
               u == [w EXCEPT !.facts = @ \cup {f}]
    <3>3. w = [facts |-> a, calls |-> b]
      BY <3>1
    <3> HIDE DEF w, a, b
    <3>4. w.facts = a /\ w.calls = b /\ DOMAIN w = {"facts", "calls"}
      BY <3>3
    <3>5. DOMAIN u = {"facts", "calls"} /\ u.facts = a \cup {f} /\ u.calls = b
      BY <3>4
    <3>6. u = [facts |-> a \cup {f}, calls |-> b]
      BY <3>5
    <3> QED BY <3>2, <3>6 DEF w, a, b
  <2>4. Saves' = Saves
    BY <2>1 DEF Write, Saves, Depth
  <2> QED BY <1>2, <2>1, <2>3, <2>4, NoSaves DEF Log!Do, Write
<1> QED BY <1>1, <1>2

\* A call joins the calls of the innermost transaction, so the end of the work.
LEMMA AfterCommitIsAsk ==
  ASSUME TypeOK, Durable, NEW f \in Facts, AfterCommit(f) PROVE Log!Ask(f) \/ Log!AskAlone(f)
<1>1. CASE Depth = 0
  <2>1. Work' = Work /\ Saves' = Saves
    BY <1>1 DEF AfterCommit, Work, Saves, Depth
  <2>2. f \in disk
    BY <1>1 DEF AfterCommit, Durable, Nested
  <2> QED BY <1>1, <2>1, <2>2, NoSaves DEF Log!AskAlone, AfterCommit
<1>2. CASE Depth # 0
  <2> DEFINE gs == frames'
  <2>1. PICK n \in Nat : n + 1 = Depth /\ n + 1 = Len(frames)
    <3>1. Depth \in Nat /\ Depth = Len(frames)
      BY LevelsAreNat DEF Depth
    <3>2. Depth - 1 \in Nat
      BY <1>2, <3>1
    <3> QED BY <3>1, <3>2
  <2>2. frames \in Seq(Frame) /\ frames[n + 1] \in Frame
    BY <2>1, LevelsAreNat DEF TypeOK
  <2>3. frames[n + 1].calls \in Seq(Facts) /\ Append(frames[n + 1].calls, f) \in Seq(Facts)
    BY <2>2 DEF Frame
  <2>4. gs = [frames EXCEPT ![n + 1].calls = Append(frames[n + 1].calls, f)]
    BY <1>2, <2>1 DEF AfterCommit
  <2>5. /\ gs \in Seq(Frame) /\ Len(gs) = Len(frames)
        /\ gs[n + 1].calls = Append(frames[n + 1].calls, f)
        /\ \A i \in 1..Len(frames) : gs[i].saved = frames[i].saved
                                     /\ (i # n + 1 => gs[i].calls = frames[i].calls)
    <3>1. n + 1 \in 1..Len(frames)
      BY <2>1
    <3> DEFINE k == n + 1
               c == Append(frames[n + 1].calls, f)
    <3>2. k \in 1..Len(frames) /\ c \in Seq(Facts) /\ gs = [frames EXCEPT ![k].calls = c]
      BY <2>3, <2>4, <3>1
    <3> HIDE DEF gs, k, c
    <3>3. gs \in Seq(Frame)
      BY <2>2, <3>2, CallsSet
    <3>7. Len(gs) = Len(frames)
      BY <2>2, <3>2, CallsSet
    <3>4. gs[k].calls = c
      BY <2>2, <3>2, CallsSet
    <3>5. \A i \in 1..Len(frames) : gs[i].saved = frames[i].saved
      BY <2>2, <3>2, CallsSet
    <3>6. \A i \in 1..Len(frames) : i # k => gs[i].calls = frames[i].calls
      BY <2>2, <3>2, CallsSet
    <3> QED BY <3>3, <3>4, <3>5, <3>6, <3>7 DEF k, c, gs
  <2>6. CallsOf(gs, n) = CallsOf(frames, n)
    <3>1. \A i \in 1..n : gs[i].calls = frames[i].calls
      BY <2>1, <2>5
    <3> QED BY <3>1, CallsAlike
  <2>7. CallsOf(frames, n) \in Seq(Facts)
    BY <2>1, <2>2, CallsType
  <2>8. CallsOf(gs, n + 1) = CallsOf(frames, n) \o Append(frames[n + 1].calls, f)
    <3>1. n + 1 <= Len(gs) /\ CallsOf(gs, n) \in Seq(Facts)
      BY <2>1, <2>5, <2>6, <2>7
    <3>2. CallsOf(gs, n + 1) = CallsOf(gs, n) \o gs[n + 1].calls
      BY <2>5, <3>1, CallsOn
    <3> QED BY <2>5, <2>6, <3>2
  <2>9. CallsOf(frames, n + 1) = CallsOf(frames, n) \o frames[n + 1].calls
    <3>1. n + 1 <= Len(frames)
      BY <2>1
    <3> QED BY <2>2, <2>7, <3>1, CallsOn
  <2>10. CallsOf(gs, n + 1) = Append(CallsOf(frames, n + 1), f)
    <3> DEFINE a == CallsOf(frames, n)
               b == frames[n + 1].calls
    <3>1. a \in Seq(Facts) /\ b \in Seq(Facts)
      BY <2>3, <2>7
    <3> HIDE DEF a, b
    <3>2. a \o Append(b, f) = Append(a \o b, f)
      BY <3>1
    <3> QED BY <2>8, <2>9, <3>2 DEF a, b
  <2>11. Work' = [Work EXCEPT !.calls = Append(@, f)]
    <3>1. Work' = [facts |-> seen \ disk, calls |-> CallsOf(gs, n + 1)]
      BY <2>1, <2>5 DEF Work, Depth, AfterCommit
    <3>2. Work = [facts |-> seen \ disk, calls |-> CallsOf(frames, n + 1)]
      BY <2>1 DEF Work
    <3> DEFINE w == Work
               a == seen \ disk
               b == CallsOf(frames, n + 1)
               u == [w EXCEPT !.calls = Append(@, f)]
    <3>3. w = [facts |-> a, calls |-> b]
      BY <3>2
    <3> HIDE DEF w, a, b
    <3>4. w.facts = a /\ w.calls = b /\ DOMAIN w = {"facts", "calls"}
      BY <3>3
    <3>5. DOMAIN u = {"facts", "calls"} /\ u.facts = a /\ u.calls = Append(b, f)
      BY <3>4
    <3>6. u = [facts |-> a, calls |-> Append(b, f)]
      BY <3>5
    <3> QED BY <2>10, <3>1, <3>6 DEF w, a, b
  <2>12. Saves' = Saves
    <3>1. \A i \in 1..(Len(frames) - 1) : gs[i].calls = frames[i].calls
      BY <2>1, <2>5
    <3>2. SavesOf(gs, disk) = SavesOf(frames, disk)
      BY <2>2, <2>5, <3>1, SavesAlike
    <3> QED BY <3>2 DEF Saves, SavesOf, Depth, AfterCommit
  <2>13. f \in Work.facts \cup disk
    BY DEF AfterCommit, Work
  <2> QED BY <1>2, <2>11, <2>12, <2>13, NoSaves DEF Log!Ask, AfterCommit
<1> QED BY <1>1, <1>2

\* RELEASE moves the calls to the parent and leaves the work as it is.
LEMMA ReleaseIsClose == ASSUME TypeOK, Release PROVE Log!Close
<1> DEFINE gs == frames'
           o == Outer
<1>1. PICK n \in Nat : n + 2 = Depth /\ n + 2 = Len(frames)
  <2>1. Depth \in Nat /\ Depth = Len(frames) /\ Depth > 1
    BY LevelsAreNat DEF Depth, Release
  <2>2. Depth - 2 \in Nat /\ (Depth - 2) + 2 = Depth
    BY <2>1
  <2> QED BY <2>1, <2>2
<1>2. /\ o \in Seq(Frame) /\ Len(o) = n + 1 /\ Top = frames[n + 2] /\ Top \in Frame
      /\ \A i \in 1..(n + 1) : o[i] = frames[i]
  <2>1. Depth > 0 /\ Depth - 1 = n + 1
    BY <1>1
  <2>2. Top \in Frame /\ Outer \in Seq(Frame) /\ Len(Outer) = Depth - 1
        /\ \A i \in 1..(Depth - 1) : Outer[i] = frames[i]
    BY <2>1, Stack
  <2>3. Top = frames[n + 2]
    BY <1>1 DEF Top
  <2> QED BY <2>1, <2>2, <2>3
<1>3. frames \in Seq(Frame) /\ frames[n + 1] \in Frame /\ o[n + 1] = frames[n + 1]
  <2>1. n + 1 \in 1..Depth /\ n + 1 \in 1..(n + 1)
    BY <1>1
  <2> QED BY <1>2, <2>1, LevelsAreNat DEF TypeOK
<1>4. frames[n + 1].calls \in Seq(Facts) /\ Top.calls \in Seq(Facts)
  BY <1>2, <1>3 DEF Frame
<1> DEFINE c == frames[n + 1].calls \o Top.calls
           k == n + 1
<1>5. c \in Seq(Facts)
  BY <1>4, ConcatProperties, Zenon
<1>6. gs = [o EXCEPT ![k].calls = c]
  <2>1. Depth - 1 = k
    BY <1>1
  <2>2. gs = [Outer EXCEPT ![Depth - 1].calls = @ \o Top.calls]
    BY DEF Release
  <2> QED BY <1>3, <2>1, <2>2
<1>7. /\ gs \in Seq(Frame) /\ Len(gs) = Len(o) /\ gs[k].calls = c
      /\ \A i \in 1..Len(o) : gs[i].saved = o[i].saved /\ (i # k => gs[i].calls = o[i].calls)
  <2>1. k \in 1..Len(o)
    BY <1>2
  <2> HIDE DEF gs, o, k, c
  <2>2. gs \in Seq(Frame)
    BY <1>2, <1>5, <1>6, <2>1, CallsSet
  <2>6. Len(gs) = Len(o)
    BY <1>2, <1>5, <1>6, <2>1, CallsSet
  <2>3. gs[k].calls = c
    BY <1>2, <1>5, <1>6, <2>1, CallsSet
  <2>4. \A i \in 1..Len(o) : gs[i].saved = o[i].saved
    BY <1>2, <1>5, <1>6, <2>1, CallsSet
  <2>5. \A i \in 1..Len(o) : i # k => gs[i].calls = o[i].calls
    BY <1>2, <1>5, <1>6, <2>1, CallsSet
  <2> QED BY <2>2, <2>3, <2>4, <2>5, <2>6
<1>8. SavesOf(gs, disk) = SavesOf(o, disk)
  <2>1. \A i \in 1..(Len(o) - 1) : o[i].calls = gs[i].calls
    BY <1>2, <1>7
  <2>2. \A i \in 1..Len(o) : o[i].saved = gs[i].saved
    BY <1>7
  <2> HIDE DEF gs, o
  <2> QED BY <1>2, <1>7, <2>1, <2>2, SavesAlike
<1>9. CallsOf(gs, n) = CallsOf(frames, n)
  <2>1. \A i \in 1..n : gs[i].calls = frames[i].calls
    BY <1>2, <1>7
  <2> QED BY <2>1, CallsAlike
<1>10. CallsOf(frames, n) \in Seq(Facts)
  BY <1>1, <1>3, CallsType
<1>11. CallsOf(gs, n + 1) = CallsOf(frames, n) \o c
  <2>1. n + 1 <= Len(gs) /\ CallsOf(gs, n) \in Seq(Facts)
    BY <1>2, <1>7, <1>9, <1>10
  <2>2. CallsOf(gs, n + 1) = CallsOf(gs, n) \o gs[n + 1].calls
    BY <1>7, <2>1, CallsOn
  <2> QED BY <1>7, <1>9, <2>2
<1>12. CallsOf(frames, n + 1) = CallsOf(frames, n) \o frames[n + 1].calls
  <2>1. n + 1 <= Len(frames)
    BY <1>1
  <2> QED BY <1>3, <1>10, <2>1, CallsOn
<1>13. CallsOf(frames, n + 2) = CallsOf(frames, n + 1) \o Top.calls
  <2>1. n + 1 \in Nat /\ (n + 1) + 1 = n + 2 /\ (n + 1) + 1 <= Len(frames) /\ n + 1 <= Len(frames)
    BY <1>1
  <2>2. CallsOf(frames, n + 1) \in Seq(Facts)
    BY <1>3, <2>1, CallsType
  <2>3. CallsOf(frames, (n + 1) + 1) = CallsOf(frames, n + 1) \o frames[(n + 1) + 1].calls
    BY <1>3, <2>1, <2>2, CallsOn
  <2> QED BY <1>2, <2>1, <2>3
<1>14. CallsOf(gs, n + 1) = CallsOf(frames, n + 2)
  <2> DEFINE x == CallsOf(frames, n)
             y == frames[n + 1].calls
             z == Top.calls
  <2>1. x \in Seq(Facts) /\ y \in Seq(Facts) /\ z \in Seq(Facts)
    BY <1>4, <1>10
  <2> HIDE DEF x, y, z
  <2>2. x \o (y \o z) = (x \o y) \o z
    BY <2>1, ConcatAssociative
  <2> QED BY <1>11, <1>12, <1>13, <2>2 DEF x, y, z
<1>15. Work' = Work
  <2>1. Work' = [facts |-> seen \ disk, calls |-> CallsOf(gs, n + 1)]
    BY <1>2, <1>7 DEF Work, Depth, Release
  <2>2. Work = [facts |-> seen \ disk, calls |-> CallsOf(frames, n + 2)]
    BY <1>1 DEF Work
  <2> QED BY <1>14, <2>1, <2>2
<1>16. Saves # <<>> /\ Saves' # <<>> /\ Saves' = SubSeq(Saves, 1, Len(Saves) - 1)
  <2> DEFINE x == [facts |-> frames[Len(o) + 1].saved \ disk, calls |-> CallsOf(o, Len(o))]
             s == SavesOf(o, disk)
             X == {s[i] : i \in 1..Len(o)} \cup {x}
  <2>1. Saves = SavesOf(frames, disk) /\ Saves' = s
    BY <1>8 DEF Saves, SavesOf, Depth, Release
  <2>2. SavesOf(frames, disk) = Append(s, x)
    <3>1. Len(frames) = Len(o) + 1 /\ \A i \in 1..Len(o) : o[i] = frames[i]
      BY <1>1, <1>2
    <3> HIDE DEF o
    <3> QED BY <1>2, <1>3, <3>1, SavesOn
  <2>3. s \in Seq({s[i] : i \in 1..Len(o)}) /\ s # <<>>
    <3>1. o # <<>>
      BY <1>1, <1>2
    <3> HIDE DEF o
    <3> QED BY <1>2, <3>1, SavesShape
  <2> HIDE DEF s, x, o
  <2>4. s \in Seq(X) /\ x \in X
    BY <2>3
  <2> HIDE DEF X
  <2>5. Append(s, x) # <<>> /\ SubSeq(Append(s, x), 1, Len(Append(s, x)) - 1) = s
    BY <2>4, Back
  <2> QED BY <2>1, <2>2, <2>3, <2>5
<1> QED BY <1>15, <1>16 DEF Log!Close, Release

\* COMMIT makes the work durable and owes its calls.
LEMMA CommitIsClose == ASSUME TypeOK, Durable, Commit PROVE Log!Close
<1>1. /\ Depth = 1 /\ Len(frames) = 1 /\ frames \in Seq(Frame) /\ Top = frames[1]
      /\ frames[1] \in Frame
  BY LevelsAreNat DEF Commit, TypeOK, Depth, Top
<1>2. CallsOf(frames, 1) = Top.calls
  <2>1. CallsOf(frames, 0) = <<>> /\ <<>> \in Seq(Facts)
    BY CallsNone
  <2>7. CallsOf(frames, 0) \in Seq(Facts)
    BY <2>1, Zenon
  <2>5. 0 \in Nat /\ 0 + 1 <= Len(frames) /\ CallsOf(frames, 0) \in Seq(Facts) /\ 0 + 1 = 1
    BY <1>1, <2>7
  <2>6. CallsOf(frames, 0 + 1) = CallsOf(frames, 0) \o frames[0 + 1].calls
    BY <1>1, <2>5, CallsOn
  <2>2. CallsOf(frames, 1) = CallsOf(frames, 0) \o frames[1].calls
    BY <2>5, <2>6
  <2>3. frames[1].calls \in Seq(Facts)
    BY <1>1 DEF Frame
  <2>4. <<>> \o frames[1].calls = frames[1].calls
    BY <2>3, ConcatEmptySeq
  <2> QED BY <1>1, <2>1, <2>2, <2>4
<1>3. disk \subseteq seen
  BY <1>1 DEF Durable, Nested
<1>4. disk' = disk \cup Work.facts /\ queue' = Work.calls \o queue
  BY <1>1, <1>2, <1>3 DEF Commit, Work
<1>5. Work' = Log!Nothing
  <2>1. frames' = <<>> /\ Depth' = 0 /\ seen' = disk'
    BY DEF Commit, Depth
  <2>2. CallsOf(frames', 0) = <<>>
    BY CallsNone
  <2> QED BY <2>1, <2>2 DEF Work, Log!Nothing
<1>6. Saves # <<>> /\ Saves' = <<>>
  <2>1. Saves' = [k \in 1..0 |-> [facts |-> frames'[k].saved \ disk', calls |-> CallsOf(frames', k - 1)]]
    BY DEF Saves, Commit, Depth
  <2> QED BY <1>1, <2>1, NoSaves
<1>7. SubSeq(Saves, 1, Len(Saves) - 1) = <<>>
  <2>1. Saves = SavesOf(frames, disk)
    BY DEF Saves, SavesOf, Depth
  <2>2. Len(Saves) = 1
    BY <1>1, <2>1, SavesShape
  <2> QED BY <2>2
<1> QED BY <1>4, <1>5, <1>6, <1>7 DEF Log!Close, Commit

\* A failure goes back to the work remembered last.
LEMMA RollbackIsFail == ASSUME TypeOK, Rollback PROVE Log!Fail
<1> DEFINE o == Outer
           x == [facts |-> frames[Len(o) + 1].saved \ disk, calls |-> CallsOf(o, Len(o))]
           s == SavesOf(o, disk)
           X == {s[i] : i \in 1..Len(o)} \cup {x}
<1>1. /\ Depth \in Nat /\ Depth > 0 /\ Depth = Len(frames) /\ frames \in Seq(Frame)
      /\ Top \in Frame /\ o \in Seq(Frame) /\ Len(o) = Depth - 1
      /\ \A i \in 1..(Depth - 1) : o[i] = frames[i]
  BY Stack DEF Rollback, TypeOK, Depth
<1>2. Len(frames) = Len(o) + 1 /\ Depth = Len(o) + 1 /\ \A i \in 1..Len(o) : o[i] = frames[i]
  BY <1>1
<1>3. Saves = SavesOf(frames, disk) /\ Saves' = s
  BY DEF Saves, SavesOf, Depth, Rollback
<1>4. Work' = x
  <2>1. seen' = frames[Len(o) + 1].saved
    BY <1>2 DEF Rollback, Top
  <2> QED BY <2>1 DEF Work, Depth, Rollback
<1>5. s \in Seq({s[i] : i \in 1..Len(o)})
  <2> HIDE DEF o
  <2> QED BY <1>1, SavesShape
<1> HIDE DEF o
<1>6. SavesOf(frames, disk) = Append(s, x)
  BY <1>1, <1>2, SavesOn
<1> HIDE DEF s, x
<1>7. s \in Seq(X) /\ x \in X
  BY <1>5
<1> HIDE DEF X
<1> DEFINE t == Append(s, x)
<1>8. t # <<>> /\ t[Len(t)] = x /\ SubSeq(t, 1, Len(t) - 1) = s
  BY <1>7, Back
<1> HIDE DEF t
<1>9. Saves = t
  BY <1>3, <1>6 DEF t
<1> QED BY <1>3, <1>4, <1>8, <1>9 DEF Log!Fail, Rollback

\* What is left when no transaction is open.
LEMMA NothingOpen ==
  ASSUME NEW fs, fs = <<>>
  PROVE  Len(fs) = 0 /\ CallsOf(fs, 0) = <<>> /\ \A d : SavesOf(fs, d) = <<>>
<1>1. Len(fs) = 0
  OBVIOUS
<1>2. \A d : SavesOf(fs, d) = [k \in 1..0 |-> [facts |-> fs[k].saved \ d, calls |-> CallsOf(fs, k - 1)]]
  BY <1>1 DEF SavesOf
<1> QED BY <1>1, <1>2, CallsNone

\* A call that runs is an announcement told.
LEMMA RunCallIsTell == ASSUME TypeOK, RunCall PROVE Log!Tell
<1>1. Work' = Work /\ Saves' = Saves
  BY DEF RunCall, Work, Saves, Depth
<1> QED BY <1>1, NoSaves DEF Log!Tell, RunCall

\* SIGKILL forgets the work and what is owed.
LEMMA CrashIsDie == ASSUME Crash PROVE Log!Die
<1>1. frames' = <<>> /\ seen' = disk /\ disk' = disk
  BY DEF Crash
<1>2. Len(frames') = 0 /\ CallsOf(frames', 0) = <<>> /\ SavesOf(frames', disk') = <<>>
  BY <1>1, NothingOpen
<1>3. Work' = Log!Nothing
  BY <1>1, <1>2 DEF Work, Depth, Log!Nothing
<1>4. Saves' = <<>>
  BY <1>2 DEF Saves, SavesOf, Depth
<1> QED BY <1>3, <1>4 DEF Log!Die, Crash

\* The lists of calls kept with each nested transaction behave as one log of
\* work, for any facts and any depth: what a failure takes back is the work
\* since the transaction began, and what the outermost commit executes is every
\* call registered and not taken back, in its order (db.ts transaction).
THEOREM OneLogHolds == Spec => OneLog
<1>1. Init => Log!Init
  <2> SUFFICES ASSUME Init PROVE Log!Init
    OBVIOUS
  <2>1. Len(frames) = 0 /\ CallsOf(frames, 0) = <<>> /\ SavesOf(frames, disk) = <<>>
    BY NothingOpen DEF Init
  <2>2. Work = Log!Nothing
    BY <2>1 DEF Work, Depth, Log!Nothing, Init
  <2>3. Saves = <<>>
    BY <2>1 DEF Saves, SavesOf, Depth
  <2> QED BY <2>2, <2>3 DEF Log!Init, Init
<1>2. TypeOK /\ Durable /\ [Next]_vars => [Log!Next]_(Log!vars)
  <2> SUFFICES ASSUME TypeOK, Durable, [Next]_vars PROVE [Log!Next]_(Log!vars)
    OBVIOUS
  <2>1. CASE UNCHANGED vars
    BY <2>1 DEF vars, Log!vars, Work, Saves, Depth
  <2>2. CASE Next
    BY <2>2, BeginIsOpen, WriteIsDo, AfterCommitIsAsk, ReleaseIsClose, CommitIsClose,
       RollbackIsFail, RunCallIsTell, CrashIsDie DEF Next, Log!Next
  <2> QED BY <2>1, <2>2
<1>3. Init => Durable
  BY DEF Init, Durable, Nested, Waiting, AnnouncedIsDurable, Depth, Elems
<1>4. TypeOK /\ Durable /\ [Next]_vars => Durable'
  BY DurableStep
<1> QED BY <1>1, <1>2, <1>3, <1>4, TypeInvariant, PTL DEF Spec, OneLog, Log!Spec
=============================================================================
