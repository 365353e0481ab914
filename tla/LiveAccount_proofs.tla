--------------------------- MODULE LiveAccount_proofs ---------------------------
(***************************************************************************)
(* Theorems about the live paper account, for any number of signals, cells  *)
(* and scanners, any caps, delays and windows, and every choice of prices,  *)
(* verdicts, failed writes and kills.                                       *)
(*                                                                          *)
(* First come the operators: sets of ids put in order, the table and what a *)
(* restart keeps of it, what each operation of the book and of the risk     *)
(* manager does to a row. A handler is then argued once, as a step from the *)
(* book before to the book after it, and each invariant of LiveInvariants   *)
(* is carried over these few kinds of step.                                 *)
(***************************************************************************)
EXTENDS LiveInvariants, TLAPS, FiniteSetTheorems, WellFoundedInduction
----------------------------------------------------------------------------
(* Numbers, finite sets and the order of a set.                             *)

LEMMA Constants ==
  /\ MaxSignals \in Nat /\ MaxSignals # 0 /\ Latency \in Nat /\ PendingExpiry \in Nat
  /\ QuietFill \in Nat /\ LimitLife \in Nat /\ LimitLate \in Nat /\ MaxOpen \in Nat
  /\ MaxTotal \in Nat /\ PerScanner \in Nat /\ LossLimit \in Nat /\ LossLimit # 0
  /\ DayTicks \in Nat /\ DayTicks # 0 /\ CooldownAfter \in Nat /\ CooldownAfter # 0
  /\ CooldownTicks \in Nat /\ CloseAllOnKill \in BOOLEAN
  /\ ScannerOf \in [Cells -> Scanners]
BY BookAssumption, RiskAssumption DEF BookAssumption, RiskAssumption

LEMMA DayIsNat == ASSUME NEW t \in Nat PROVE Day(t) \in Nat
BY Constants DEF Day

\* A nonempty set of natural numbers has a least element.
LEMMA LeastNatural ==
  ASSUME NEW T \in SUBSET Nat, T # {}
  PROVE  \E x \in T : \A y \in T : x <= y
<1>1. PICK x \in T : \A y \in T : ~(<<y, x>> \in OpToRel(<, Nat))
  BY Zenon, NatLessThanWellFounded, WFMin
<1>2. \A y \in T : ~(y < x)
  BY <1>1 DEF OpToRel
<1>3. QED
  BY <1>2

\* What holds at 0 and passes from a number to the next holds up to N.
LEMMA UpTo ==
  ASSUME NEW N \in Nat, NEW T, 0 \in T, \A n \in 0..N : n < N /\ n \in T => n + 1 \in T
  PROVE  \A n \in 0..N : n \in T
<1> DEFINE U == {n \in 0..N : n \notin T}
<1>1. SUFFICES ASSUME U # {} PROVE FALSE
  OBVIOUS
<1>2. U \in SUBSET Nat
  OBVIOUS
<1>3. PICK x \in U : \A y \in U : x <= y
  BY <1>1, <1>2, LeastNatural
<1>4. x # 0 /\ x - 1 \in 0..N /\ x - 1 \notin U
  BY <1>3
<1>5. QED
  BY <1>3, <1>4

\* Sets of ids are finite, and so counted by a natural number.
LEMMA IdSets ==
  ASSUME NEW S \in SUBSET Ids
  PROVE  IsFiniteSet(S) /\ Cardinality(S) \in Nat
<1>1. IsFiniteSet(Ids)
  BY Constants, FS_Interval DEF Ids
<1>2. IsFiniteSet(S)
  BY <1>1, FS_Subset
<1>3. QED
  BY <1>2, FS_CardinalityType

LEMMA FewerIds ==
  ASSUME NEW S \in SUBSET Ids, NEW R \in SUBSET S
  PROVE  Cardinality(R) <= Cardinality(S)
BY IdSets, FS_Subset

LEMMA OneMore ==
  ASSUME NEW S \in SUBSET Ids, NEW x
  PROVE  /\ x \in Ids => Cardinality(S \cup {x}) = (IF x \in S THEN Cardinality(S) ELSE Cardinality(S) + 1)
         /\ Cardinality(S \ {x}) = (IF x \in S THEN Cardinality(S) - 1 ELSE Cardinality(S))
BY IdSets, FS_AddElement, FS_RemoveElement

\* A set of ids has an element of least rank and, among those, least id.
LEMMA FirstInOrder ==
  ASSUME NEW S \in SUBSET Ids, S # {}, NEW rank, \A i \in S : rank[i] \in Nat
  PROVE  \E m \in S : \A i \in S \ {m} : rank[m] < rank[i] \/ (rank[m] = rank[i] /\ m < i)
<1> DEFINE R == {rank[i] : i \in S}
           M(r) == {i \in S : rank[i] = r}
<1>1. R \in SUBSET Nat /\ R # {}
  OBVIOUS
<1>2. PICK r \in R : \A q \in R : r <= q
  BY <1>1, LeastNatural
<1>3. M(r) \in SUBSET Nat /\ M(r) # {}
  <2>1. PICK i \in S : r = rank[i]
    BY <1>2
  <2>2. i \in M(r)
    BY <2>1
  <2>3. \A x \in Ids : x \in Nat
    BY Constants DEF Ids
  <2>4. QED
    BY <2>2, <2>3
<1>4. PICK m \in M(r) : \A i \in M(r) : m <= i
  BY <1>3, LeastNatural
<1>5. ASSUME NEW i \in S \ {m} PROVE rank[m] < rank[i] \/ (rank[m] = rank[i] /\ m < i)
  <2>0. i \in S /\ m \in S /\ rank[m] = r
    BY <1>4, <1>5
  <2>1. rank[m] = r /\ r <= rank[i] /\ rank[i] \in Nat /\ r \in Nat /\ m \in Nat /\ i \in Nat
    <3>1. m \in Ids /\ i \in Ids /\ rank[i] \in R /\ rank[i] \in Nat /\ rank[m] \in Nat
      BY <2>0
    <3>2. m \in Nat /\ i \in Nat
      BY <3>1, Constants DEF Ids
    <3> HIDE DEF R
    <3>3. r <= rank[i]
      BY <3>1, <1>2
    <3>4. QED
      BY <2>0, <3>1, <3>2, <3>3
  <2>2. CASE rank[i] = r
    <3>1. m <= i /\ m # i
      BY <1>4, <2>2
    <3>2. QED
      BY <3>1, <2>1, <2>2
  <2>3. CASE rank[i] # r
    BY <2>1, <2>3
  <2>4. QED
    BY <2>2, <2>3
<1>6. QED
  BY <1>4, <1>5

\* Every set of ids can be put in order.
LEMMA OrderExists ==
  ASSUME NEW rank, NEW Q \in SUBSET Ids, \A i \in Q : rank[i] \in Nat
  PROVE  \E s : Ordered(s, Q, rank)
<1> DEFINE Bad == {n \in Nat : \E S \in SUBSET Q : Cardinality(S) = n /\ ~\E s : Ordered(s, S, rank)}
<1>1. SUFFICES ASSUME Bad # {} PROVE FALSE
  BY IdSets
<1>2. PICK n \in Bad : \A k \in Bad : n <= k
  BY <1>1, LeastNatural
<1>3. PICK S \in SUBSET Q : Cardinality(S) = n /\ ~\E s : Ordered(s, S, rank)
  BY <1>2
<1>4. S # {}
  <2>1. SUFFICES ASSUME S = {} PROVE FALSE
    OBVIOUS
  <2>2. Cardinality(S) = 0
    BY <2>1, FS_EmptySet
  <2>3. Ordered([k \in {} |-> k], S, rank)
    BY <2>1, <2>2 DEF Ordered
  <2>4. QED
    BY <2>3, <1>3
<1>5. PICK m \in S : \A i \in S \ {m} : rank[m] < rank[i] \/ (rank[m] = rank[i] /\ m < i)
  BY <1>4, FirstInOrder
<1> DEFINE R == S \ {m}
<1>6. Cardinality(R) = n - 1 /\ n \in Nat /\ n - 1 \in Nat
  <2>1. S \in SUBSET Ids /\ R \in SUBSET Ids
    OBVIOUS
  <2>2. QED
    BY <1>3, <2>1, OneMore, IdSets
<1>7. PICK s : Ordered(s, R, rank)
  <2>1. n - 1 \notin Bad
    BY <1>2, <1>6
  <2>2. QED
    BY <2>1, <1>6
<1> DEFINE t == [k \in 1..n |-> IF k = 1 THEN m ELSE s[k - 1]]
<1>8. ASSUME NEW k \in 1..n, k # 1 PROVE k - 1 \in 1..Cardinality(R) /\ s[k - 1] \in R
  <2>1. s \in [1..Cardinality(R) -> R]
    BY <1>7 DEF Ordered
  <2>2. k - 1 \in 1..Cardinality(R)
    BY <1>6, <1>8
  <2>3. QED
    BY <2>1, <2>2
<1>9. t \in [1..n -> S]
  <2>1. \A k \in 1..n : t[k] \in S
    BY <1>8
  <2>2. QED
    BY <2>1
<1>10. ASSUME NEW j \in 1..n, NEW k \in 1..n, j < k
       PROVE  rank[t[j]] < rank[t[k]] \/ (rank[t[j]] = rank[t[k]] /\ t[j] < t[k])
  <2>1. k # 1 /\ k - 1 \in 1..Cardinality(R) /\ t[k] = s[k - 1] /\ t[k] \in R
    BY <1>6, <1>8, <1>10
  <2>2. CASE j = 1
    BY <2>1, <2>2, <1>5
  <2>3. CASE j # 1
    <3>1. j - 1 \in 1..Cardinality(R) /\ t[j] = s[j - 1] /\ j - 1 < k - 1
      BY <1>6, <1>8, <1>10, <2>3
    <3>2. rank[s[j - 1]] < rank[s[k - 1]] \/ (rank[s[j - 1]] = rank[s[k - 1]] /\ s[j - 1] < s[k - 1])
      <4> HIDE DEF R
      <4>1. QED
        BY <3>1, <2>1, <1>7 DEF Ordered
    <3>3. QED
      BY <3>1, <3>2, <2>1
  <2>4. QED
    BY <2>2, <2>3
<1>11. Ordered(t, S, rank)
  BY <1>9, <1>10, <1>3 DEF Ordered
<1>12. QED
  BY <1>3, <1>11

\* InOrder lists the set, every element once, by rank.
LEMMA InOrderLists ==
  ASSUME NEW S \in SUBSET Ids, NEW rank, \A i \in S : rank[i] \in Nat
  PROVE  LET s == InOrder(S, rank)
         IN  /\ s \in Seq(S) /\ s \in Seq(Ids) /\ Len(s) = Cardinality(S) /\ Len(s) \in Nat
             /\ \A k \in 1..Len(s) : s[k] \in S
             /\ \A j, k \in 1..Len(s) : j < k => s[j] # s[k] /\ rank[s[j]] <= rank[s[k]]
             /\ \A i \in S : \E k \in 1..Len(s) : s[k] = i
<1> DEFINE s == InOrder(S, rank)
           n == Cardinality(S)
<1>1. n \in Nat /\ IsFiniteSet(S)
  BY IdSets
<1>2. Ordered(s, S, rank)
  <2>1. \E x : Ordered(x, S, rank)
    BY OrderExists
  <2> DEFINE Listing(x) == \A j, k \in 1..Cardinality(S) :
                             j < k => \/ rank[x[j]] < rank[x[k]]
                                      \/ rank[x[j]] = rank[x[k]] /\ x[j] < x[k]
  <2>2. \E x \in [1..Cardinality(S) -> S] : Listing(x)
    BY <2>1 DEF Ordered
  <2>3. s = CHOOSE x \in [1..Cardinality(S) -> S] : Listing(x)
    BY DEF InOrder
  <2> HIDE DEF Listing, s
  <2>4. s \in [1..Cardinality(S) -> S] /\ Listing(s)
    BY <2>2, <2>3
  <2>5. QED
    BY <2>4 DEF Ordered, Listing
<1> HIDE DEF s
<1>3. s \in [1..n -> S] /\ \A k \in 1..n : s[k] \in S
  BY <1>2 DEF Ordered
<1>4. s \in Seq(S) /\ Len(s) = n
  BY <1>1, <1>3
<1>5. s \in Seq(Ids)
  BY <1>1, <1>3
<1>6. ASSUME NEW j \in 1..n, NEW k \in 1..n, j < k
      PROVE  s[j] # s[k] /\ rank[s[j]] <= rank[s[k]]
  <2>1. s[j] \in Ids /\ s[k] \in Ids /\ rank[s[j]] \in Nat /\ rank[s[k]] \in Nat
    BY <1>3
  <2>2. s[j] \in Nat /\ s[k] \in Nat
    BY <2>1, Constants DEF Ids
  <2>3. rank[s[j]] < rank[s[k]] \/ (rank[s[j]] = rank[s[k]] /\ s[j] < s[k])
    BY <1>2, <1>6 DEF Ordered
  <2>4. QED
    BY <2>1, <2>2, <2>3
<1>7. s \in Injection(1..n, S)
  BY <1>1, <1>3, <1>6 DEF Injection, IsInjective
<1>8. s \in Surjection(1..n, S)
  <2>1. Cardinality(1..n) = n /\ IsFiniteSet(1..n)
    BY <1>1, FS_Interval
  <2>2. QED
    BY <2>1, <1>1, <1>7, FS_Injection
<1>9. \A i \in S : \E k \in 1..n : s[k] = i
  BY <1>8 DEF Surjection
<1>10. QED
  BY <1>1, <1>3, <1>4, <1>5, <1>6, <1>9 DEF s

\* ById, and the closed trades without a receipt from the oldest.
LEMMA ByIdLists ==
  ASSUME NEW S \in SUBSET Ids
  PROVE  LET s == ById(S)
         IN  /\ s \in Seq(S) /\ s \in Seq(Ids) /\ Len(s) = Cardinality(S) /\ Len(s) \in Nat
             /\ \A k \in 1..Len(s) : s[k] \in S
             /\ \A j, k \in 1..Len(s) : j < k => s[j] # s[k]
             /\ \A i \in S : \E k \in 1..Len(s) : s[k] = i
<1> DEFINE rank == [i \in S |-> 0]
<1>1. \A i \in S : rank[i] \in Nat
  OBVIOUS
<1>2. ById(S) = InOrder(S, rank)
  BY DEF ById
<1> HIDE DEF rank
<1>3. QED
  BY <1>1, <1>2, InOrderLists

----------------------------------------------------------------------------
(* Types: rows, the risk manager's state, books.                            *)

LEMMA NoRowType ==
  /\ NoRow \in Row /\ NoRow.st = "none" /\ NoRow.kind = "now" /\ NoRow.old = 0 /\ NoRow.till = 0
  /\ Gone \in Row /\ Gone.st = "gone" /\ Gone.kind = "now" /\ Gone.old = 0 /\ Gone.till = 0
<1>1. NoRow.cell \in SomeCells
  BY DEF SomeCells
<1>2. NoRow = [st |-> "none", cell |-> NoRow.cell, side |-> "none",
               kind |-> "now", at |-> 0, till |-> 0, old |-> 0, end |-> 0, pnl |-> 0]
  BY DEF NoRow
<1>3. NoRow \in Row
  BY <1>1, <1>2, Constants DEF Row, Statuses
<1>4. Gone = [NoRow EXCEPT !.st = "gone"]
  BY DEF Gone
<1>5. Gone \in Row
  BY <1>3, <1>4 DEF Row, Statuses
<1>6. QED
  BY <1>2, <1>3, <1>4, <1>5

LEMMA BookFields ==
  ASSUME NEW b \in Books
  PROVE  /\ b.rows \in [Ids -> Row] /\ b.act \in [Ids -> Actions] /\ b.rec \in SUBSET Ids
         /\ b.saved \in RiskState /\ b.resets \in Nat /\ b.open \in SUBSET Ids /\ b.pend \in SUBSET Ids
         /\ b.risk \in RiskState /\ b.dec \in BOOLEAN /\ b.mkt \in Outcomes /\ b.ev \in Seq(Ids)
         /\ b.bad \in BOOLEAN
BY DEF Books

LEMMA RowFields ==
  ASSUME NEW r \in Row
  PROVE  /\ r.st \in Statuses /\ r.cell \in SomeCells /\ r.kind \in {"now", "wait", "rest"} /\ r.at \in Nat
         /\ r.till \in Nat /\ r.old \in 0..MaxSignals /\ r.end \in Nat /\ r.pnl \in {-1, 0, 1}
BY DEF Row

LEMMA RiskFields ==
  ASSUME NEW r \in RiskState
  PROVE  /\ r.day \in Nat /\ r.start \in Int /\ r.tripped \in BOOLEAN /\ r.halt \in BOOLEAN
         /\ r.streak \in [Scanners -> Nat] /\ r.until \in [Scanners -> Nat] /\ r.seen \in Nat
         /\ r.base \in SUBSET Ids
BY DEF RiskState

----------------------------------------------------------------------------
(* What each operation makes of a book, field by field.                     *)

LEMMA PlaceIs ==
  ASSUME NEW b \in Books, NEW i \in Ids, NEW row \in Row
  PROVE  LET r == Place(b, i, row)
         IN  /\ r \in Books
             /\ r.rows = [b.rows EXCEPT ![i] = row] /\ r.act = [b.act EXCEPT ![i] = "pending"]
             /\ r.pend = b.pend \cup {i} /\ r.open = b.open /\ r.rec = b.rec /\ r.saved = b.saved
             /\ r.resets = b.resets /\ r.risk = b.risk /\ r.dec = b.dec /\ r.mkt = b.mkt /\ r.ev = b.ev
             /\ r.bad = b.bad
<1>1. [b.rows EXCEPT ![i] = row] \in [Ids -> Row]
  BY BookFields
<1>2. [b.act EXCEPT ![i] = "pending"] \in [Ids -> Actions]
  BY BookFields DEF Actions
<1>3. QED
  BY <1>1, <1>2 DEF Place, Books

LEMMA CancelIs ==
  ASSUME NEW b \in Books, NEW i \in Ids
  PROVE  LET r == CancelEntry(b, i)
         IN  /\ r \in Books
             /\ r.rows = [b.rows EXCEPT ![i] = IF b.rows[i].st = "pending" THEN Gone ELSE b.rows[i]]
             /\ r.act = [b.act EXCEPT ![i] = "rejected"]
             /\ r.pend = b.pend \ {i} /\ r.open = b.open /\ r.rec = b.rec /\ r.saved = b.saved
             /\ r.resets = b.resets /\ r.risk = b.risk /\ r.dec = b.dec /\ r.mkt = b.mkt /\ r.ev = b.ev
             /\ r.bad = b.bad
<1>1. [b.rows EXCEPT ![i] = IF b.rows[i].st = "pending" THEN Gone ELSE b.rows[i]] \in [Ids -> Row]
  BY BookFields, NoRowType
<1>2. [b.act EXCEPT ![i] = "rejected"] \in [Ids -> Actions]
  BY BookFields DEF Actions
<1>3. QED
  BY <1>1, <1>2 DEF CancelEntry, Books

LEMMA ClosedRowType ==
  ASSUME NEW b \in Books, NEW i \in Ids, NEW pnl \in Outcomes, NEW t \in Nat
  PROVE  LET r == ClosedRow(b, i, pnl, t)
         IN  r \in Row /\ r.st = "closed" /\ r.cell = b.rows[i].cell /\ r.end = t /\ r.pnl = pnl
<1>1. b.rows[i].cell \in SomeCells
  BY BookFields, RowFields
<1>2. QED
  BY <1>1, NoRowType DEF ClosedRow, Row, Outcomes, Statuses

LEMMA CloseIs ==
  ASSUME NEW b \in Books, NEW i \in Ids, NEW pnl \in Outcomes, NEW t \in Nat
  PROVE  LET r == CloseAt(b, i, pnl, t)
         IN  /\ r \in Books
             /\ r.rows = [b.rows EXCEPT ![i] = ClosedRow(b, i, pnl, t)]
             /\ r.act = b.act
             /\ r.pend = b.pend /\ r.open = b.open \ {i} /\ r.rec = b.rec /\ r.saved = b.saved
             /\ r.resets = b.resets /\ r.risk = b.risk /\ r.dec = b.dec /\ r.mkt = b.mkt
             /\ r.ev = Append(b.ev, i) /\ r.bad = b.bad
<1>1. [b.rows EXCEPT ![i] = ClosedRow(b, i, pnl, t)] \in [Ids -> Row]
  BY ClosedRowType, BookFields
<1>2. Append(b.ev, i) \in Seq(Ids)
  BY BookFields
<1>3. QED
  BY <1>1, <1>2 DEF CloseAt, Books, ClosedRow

LEMMA SweptTypes ==
  ASSUME NEW b \in Books, NEW t \in Nat
  PROVE  SweptRows(b, t) \in [Ids -> Row] /\ SweptActions(b) \in [Ids -> Actions] /\ b.ev \o ById(b.open) \in Seq(Ids)
<1>1. ASSUME NEW i \in Ids
      PROVE  (IF i \in b.pend THEN IF b.rows[i].st = "pending" THEN Gone ELSE b.rows[i]
              ELSE IF i \in b.open THEN ClosedRow(b, i, b.mkt, t) ELSE b.rows[i]) \in Row
  BY BookFields, ClosedRowType, NoRowType
<1>2. SweptRows(b, t) \in [Ids -> Row]
  BY <1>1 DEF SweptRows
<1>3. SweptActions(b) \in [Ids -> Actions]
  BY BookFields DEF SweptActions, Actions
<1>4. ById(b.open) \in Seq(Ids) /\ b.ev \in Seq(Ids)
  BY ByIdLists, BookFields
<1>5. QED
  BY <1>2, <1>3, <1>4

LEMMA CloseEverythingIs ==
  ASSUME NEW b \in Books, NEW t \in Nat, NEW inside \in BOOLEAN
  PROVE  LET r == CloseEverything(b, t, inside)
         IN  /\ r \in Books /\ r.rec = b.rec /\ r.saved = b.saved /\ r.resets = b.resets /\ r.risk = b.risk
             /\ r.dec = b.dec /\ r.mkt = b.mkt
             /\ IF b.pend # {} /\ inside /\ ~b.dec
                THEN r = [b EXCEPT !.bad = TRUE]
                ELSE /\ r.rows = SweptRows(b, t) /\ r.act = SweptActions(b) /\ r.open = {} /\ r.pend = {}
                     /\ r.ev = b.ev \o ById(b.open) /\ r.bad = b.bad
<1> DEFINE r == CloseEverything(b, t, inside)
<1>1. CASE b.pend # {} /\ inside /\ ~b.dec
  <2>1. r = [b EXCEPT !.bad = TRUE]
    BY <1>1 DEF CloseEverything
  <2>2. [b EXCEPT !.bad = TRUE] \in Books
    BY DEF Books
  <2>3. QED
    BY <2>1, <2>2, <1>1 DEF Books
<1>2. CASE ~(b.pend # {} /\ inside /\ ~b.dec)
  <2> DEFINE rows == [i \in Ids |-> CASE i \in b.pend -> CancelEntry(b, i).rows[i]
                                      [] i \in b.open \ b.pend -> CloseAt(b, i, b.mkt, t).rows[i]
                                      [] OTHER -> b.rows[i]]
             act == [i \in Ids |-> IF i \in b.pend THEN CancelEntry(b, i).act[i] ELSE b.act[i]]
  <2>1. ASSUME NEW i \in Ids
        PROVE  /\ CancelEntry(b, i).rows[i] = (IF b.rows[i].st = "pending" THEN Gone ELSE b.rows[i])
               /\ CancelEntry(b, i).act[i] = "rejected"
               /\ CloseAt(b, i, b.mkt, t).rows[i] = ClosedRow(b, i, b.mkt, t)
    <3>1. b.mkt \in Outcomes /\ b.rows \in [Ids -> Row] /\ b.act \in [Ids -> Actions]
      BY BookFields
    <3>2. /\ CancelEntry(b, i).rows = [b.rows EXCEPT ![i] = IF b.rows[i].st = "pending" THEN Gone ELSE b.rows[i]]
          /\ CancelEntry(b, i).act = [b.act EXCEPT ![i] = "rejected"]
      BY CancelIs
    <3>3. CloseAt(b, i, b.mkt, t).rows = [b.rows EXCEPT ![i] = ClosedRow(b, i, b.mkt, t)]
      BY <3>1, CloseIs
    <3>4. QED
      BY <3>1, <3>2, <3>3
  <2>2. rows = SweptRows(b, t)
    BY <2>1 DEF SweptRows
  <2>3. act = SweptActions(b)
    BY <2>1 DEF SweptActions
  <2>4. r = [b EXCEPT !.rows = rows, !.act = act, !.open = {}, !.pend = {}, !.ev = b.ev \o ById(b.open)]
    BY <1>2 DEF CloseEverything
  <2> HIDE DEF rows, act, r
  <2>5. r = [b EXCEPT !.rows = SweptRows(b, t), !.act = SweptActions(b), !.open = {}, !.pend = {},
                      !.ev = b.ev \o ById(b.open)]
    BY <2>2, <2>3, <2>4
  <2>6. r \in Books
    BY <2>5, SweptTypes DEF Books
  <2>7. QED
    BY <2>5, <2>6, <1>2 DEF Books, r
<1>3. QED
  BY <1>1, <1>2

LEMMA EquityIsInt ==
  ASSUME NEW b \in Books
  PROVE  Equity(b) \in Int
<1> DEFINE closed == IdsOf(b, "closed")
<1>1. {i \in closed : b.rows[i].pnl > 0} \in SUBSET Ids /\ {i \in closed : b.rows[i].pnl < 0} \in SUBSET Ids
  BY DEF IdsOf
<1>2. QED
  BY <1>1, IdSets DEF Equity

----------------------------------------------------------------------------
(* The risk manager's operations. What they do to the book is one of three  *)
(* things: nothing; everything is closed and the switch stays tripped; an   *)
(* exception, which only a transaction that is no decision can meet.        *)

LEMMA UnmovedSweep ==
  ASSUME NEW b, NEW c, NEW r, NEW t, Unmoved(b, c), c.mkt = b.mkt
  PROVE  /\ SweptRows(c, t) = SweptRows(b, t) /\ SweptActions(c) = SweptActions(b)
         /\ SweptTo(c, r, t) <=> SweptTo(b, r, t)
         /\ Equity(c) = Equity(b)
<1>1. c.rows = b.rows /\ c.pend = b.pend /\ c.open = b.open /\ c.act = b.act /\ c.ev = b.ev /\ c.bad = b.bad
  BY DEF Unmoved
<1>2. SweptRows(c, t) = SweptRows(b, t)
  BY <1>1 DEF SweptRows, ClosedRow
<1>3. SweptActions(c) = SweptActions(b)
  BY <1>1 DEF SweptActions
<1>4. Equity(c) = Equity(b)
  BY <1>1 DEF Equity, IdsOf
<1>5. QED
  BY <1>1, <1>2, <1>3, <1>4 DEF SweptTo

LEMMA MovesOn ==
  ASSUME NEW b, NEW c, NEW r, NEW t, Unmoved(b, c), Alike(b, c), Moves(c, r, t), Barred(c, t) <=> Barred(b, t)
  PROVE  Moves(b, r, t)
<1>1. SweptTo(c, r, t) <=> SweptTo(b, r, t)
  BY UnmovedSweep DEF Alike
<1>2. Unmoved(c, r) => Unmoved(b, r)
  BY DEF Unmoved
<1>3. c.pend = b.pend /\ c.dec = b.dec
  BY DEF Unmoved, Alike
<1>4. QED
  BY <1>1, <1>2, <1>3 DEF Moves, Alike

LEMMA MovesTwice ==
  ASSUME NEW b, NEW c, NEW r, NEW t, b.dec, Moves(b, c, t), Moves(c, r, t)
  PROVE  Moves(b, r, t)
<1>1. Alike(b, r) /\ c.mkt = b.mkt /\ c.dec
  BY DEF Moves, Alike
<1>2. CASE Unmoved(b, c)
  <2>1. SweptTo(c, r, t) <=> SweptTo(b, r, t)
    BY <1>1, <1>2, UnmovedSweep
  <2>2. Unmoved(c, r) => Unmoved(b, r)
    BY <1>2 DEF Unmoved
  <2>3. QED
    BY <1>1, <2>1, <2>2 DEF Moves
<1>3. CASE ~Barred(b, t) /\ SweptTo(b, c, t) /\ Barred(c, t)
  <2>1. Unmoved(c, r) /\ Barred(r, t)
    BY <1>1, <1>3 DEF Moves
  <2>2. SweptTo(b, r, t)
    BY <2>1, <1>3 DEF SweptTo, Unmoved
  <2>3. QED
    BY <1>1, <1>3, <2>1, <2>2 DEF Moves
<1>4. QED
  BY <1>2, <1>3 DEF Moves

LEMMA FreshIs ==
  ASSUME NEW b \in Books, NEW t \in Nat
  PROVE  LET f == FreshState(b, t)
         IN  /\ f \in RiskState /\ f.day = Day(t) /\ f.start = Equity(b) /\ f.tripped = FALSE /\ f.halt = FALSE
             /\ f.seen = b.resets /\ f.base = b.rec
             /\ \A s \in Scanners : f.streak[s] = 0 /\ f.until[s] = 0
<1>1. Day(t) \in Nat /\ Equity(b) \in Int
  BY DayIsNat, EquityIsInt
<1>2. b.resets \in Nat /\ b.rec \in SUBSET Ids
  BY BookFields
<1>3. QED
  BY <1>1, <1>2 DEF FreshState, RiskState

LEMMA SaveIs ==
  ASSUME NEW b \in Books
  PROVE  LET r == Save(b)
         IN  /\ r \in Books /\ Unmoved(b, r) /\ Alike(b, r) /\ r.rec = b.rec /\ r.risk = b.risk /\ r.saved = b.risk
BY DEF Save, Books, Unmoved, Alike

\* b with another risk state
LEMMA RiskUpdate ==
  ASSUME NEW b \in Books, NEW x \in RiskState
  PROVE  LET r == [b EXCEPT !.risk = x]
         IN  /\ r \in Books /\ Unmoved(b, r) /\ Alike(b, r) /\ r.rec = b.rec /\ r.risk = x
BY DEF Books, Unmoved, Alike

LEMMA TickIs ==
  ASSUME NEW b \in Books, NEW t \in Nat
  PROVE  LET r == Tick(b, t)
         IN  /\ r \in Books /\ r.rec = b.rec /\ Moves(b, r, t) /\ Judged(b, r, t)
             /\ IF b.risk.seen # b.resets THEN r.risk = FreshState(b, t) ELSE ScoresKept(b, r)
<1> DEFINE r == Tick(b, t)
           eq == Equity(b)
           y == [b.risk EXCEPT !.day = Day(t), !.start = eq, !.tripped = FALSE]
           x == IF Day(t) = b.risk.day THEN b.risk ELSE y
           rolled == [b EXCEPT !.risk = x]
           k == [x EXCEPT !.tripped = TRUE]
           killed == [rolled EXCEPT !.risk = k]
           trips == ~x.tripped /\ eq - x.start <= -LossLimit
<1>0. Day(t) \in Nat /\ eq \in Int /\ b.risk \in RiskState /\ b.resets \in Nat
  BY DayIsNat, EquityIsInt, BookFields
<1>1. CASE b.risk.seen # b.resets
  <2> DEFINE c == [b EXCEPT !.risk = FreshState(b, t)]
  <2>1. r = Save(c)
    BY <1>1 DEF Tick
  <2>2. c \in Books /\ Unmoved(b, c) /\ Alike(b, c) /\ c.rec = b.rec /\ c.risk = FreshState(b, t)
    BY FreshIs, RiskUpdate
  <2> HIDE DEF c, r
  <2>3. r \in Books /\ Unmoved(c, r) /\ Alike(c, r) /\ r.rec = c.rec /\ r.risk = c.risk /\ r.saved = c.risk
    BY <2>1, <2>2, SaveIs
  <2>4. Unmoved(b, r) /\ Alike(b, r)
    BY <2>2, <2>3 DEF Unmoved, Alike
  <2>5. ~Barred(b, t)
    BY <1>1 DEF Barred
  <2>6. Moves(b, r, t)
    BY <2>4, <2>5 DEF Moves
  <2>7. r.risk.day = Day(t) /\ r.risk.start = eq /\ r.risk.seen = b.resets
    BY ZenonT(60), <2>2, <2>3, FreshIs
  <2>8. eq - r.risk.start > -LossLimit
    BY <2>7, <1>0, Constants
  <2>9. Judged(b, r, t)
    BY <2>3, <2>4, <2>7, <2>8 DEF Judged, Alike
  <2>10. QED
    BY <1>1, <2>2, <2>3, <2>6, <2>9 DEF r
<1>2. CASE b.risk.seen = b.resets
  <2>1. y \in RiskState /\ y.day = Day(t) /\ y.start = eq /\ y.tripped = FALSE /\ y.halt = b.risk.halt
        /\ y.streak = b.risk.streak /\ y.until = b.risk.until /\ y.base = b.risk.base /\ y.seen = b.risk.seen
    BY <1>0 DEF RiskState
  <2>2. x \in RiskState /\ x.day = Day(t) /\ x.halt = b.risk.halt /\ x.streak = b.risk.streak
        /\ x.until = b.risk.until /\ x.base = b.risk.base /\ x.seen = b.risk.seen
        /\ x.tripped \in BOOLEAN /\ x.start \in Int /\ (b.risk.tripped /\ b.risk.day = Day(t) => x.tripped)
    BY <2>1, <1>0, RiskFields
  <2>3. [b EXCEPT !.risk.day = Day(t), !.risk.start = eq, !.risk.tripped = FALSE] = [b EXCEPT !.risk = y]
    BY <1>0 DEF Books, RiskState
  <2>4. rolled = IF Day(t) = b.risk.day THEN b ELSE [b EXCEPT !.risk.day = Day(t), !.risk.start = eq, !.risk.tripped = FALSE]
    <3>1. b = [b EXCEPT !.risk = b.risk]
      BY DEF Books
    <3>2. QED
      BY <2>3, <3>1
  <2> HIDE DEF y
  <2>5. k \in RiskState /\ k.tripped = TRUE /\ k.day = x.day /\ k.start = x.start /\ k.halt = x.halt
        /\ k.streak = x.streak /\ k.until = x.until /\ k.base = x.base /\ k.seen = x.seen
    BY <2>2 DEF RiskState
  <2> HIDE DEF x, k
  <2>6. rolled \in Books /\ Unmoved(b, rolled) /\ Alike(b, rolled) /\ rolled.rec = b.rec /\ rolled.risk = x
    BY <2>2, RiskUpdate
  <2>7. [rolled EXCEPT !.risk.tripped = TRUE] = killed
    BY <2>6 DEF k
  <2> HIDE DEF rolled
  <2>8. killed \in Books /\ Unmoved(rolled, killed) /\ Alike(rolled, killed) /\ killed.rec = rolled.rec /\ killed.risk = k
    BY <2>5, <2>6, RiskUpdate
  <2> HIDE DEF killed
  <2>9. Unmoved(b, killed) /\ Alike(b, killed) /\ killed.rec = b.rec
    BY <2>6, <2>8 DEF Unmoved, Alike
  <2>10. r = IF ~trips THEN Save(rolled) ELSE Save(IF CloseAllOnKill THEN CloseEverything(killed, t, TRUE) ELSE killed)
    <3> DEFINE z == IF Day(t) = b.risk.day THEN b
                    ELSE [b EXCEPT !.risk.day = Day(t), !.risk.start = eq, !.risk.tripped = FALSE]
               T(q) == IF ~(~q.risk.tripped /\ eq - q.risk.start <= -LossLimit) THEN Save(q)
                       ELSE Save(IF CloseAllOnKill THEN CloseEverything([q EXCEPT !.risk.tripped = TRUE], t, TRUE)
                                 ELSE [q EXCEPT !.risk.tripped = TRUE])
    <3>1. r = T(z)
      BY <1>2 DEF Tick
    <3>2. z = rolled
      BY <2>4
    <3> HIDE DEF z
    <3>3. r = T(rolled)
      BY <3>1, <3>2
    <3>4. QED
      BY <3>3, <2>6, <2>7
  <2> HIDE DEF r
  <2>11. Barred(b, t) => ~trips
    BY <2>2 DEF Barred
  <2>12. CASE ~trips
    <3>1. r \in Books /\ Unmoved(rolled, r) /\ Alike(rolled, r) /\ r.rec = rolled.rec /\ r.risk = x /\ r.saved = x
      BY <2>10, <2>12, <2>6, SaveIs
    <3>2. Unmoved(b, r) /\ Alike(b, r) /\ r.rec = b.rec
      BY <3>1, <2>6 DEF Unmoved, Alike
    <3>3. Barred(b, t) => Barred(r, t)
      BY <3>1, <3>2, <2>2 DEF Barred, Alike
    <3>4. Moves(b, r, t)
      BY <3>2, <3>3 DEF Moves
    <3>5. x.tripped \/ eq - x.start > -LossLimit
      BY <2>12, <2>2, <1>0, Constants
    <3>6. Judged(b, r, t)
      BY <3>1, <3>2, <3>5, <2>2, <1>2 DEF Judged, Alike
    <3>7. ScoresKept(b, r)
      BY <3>1, <2>2 DEF ScoresKept
    <3>8. QED
      BY <1>2, <3>1, <3>2, <3>4, <3>6, <3>7 DEF r
  <2>13. CASE trips
    <3> DEFINE e == IF CloseAllOnKill THEN CloseEverything(killed, t, TRUE) ELSE killed
    <3>1. /\ e \in Books /\ e.rec = killed.rec /\ e.risk = k /\ Alike(killed, e)
          /\ \/ Unmoved(killed, e)
             \/ killed.pend # {} /\ ~killed.dec /\ e.bad
             \/ SweptTo(killed, e, t)
      <4>1. CASE CloseAllOnKill
        <5> DEFINE q == CloseEverything(killed, t, TRUE)
        <5>1. /\ q \in Books /\ q.rec = killed.rec /\ q.risk = killed.risk /\ q.resets = killed.resets
              /\ q.dec = killed.dec /\ q.mkt = killed.mkt
              /\ IF killed.pend # {} /\ TRUE /\ ~killed.dec
                 THEN q = [killed EXCEPT !.bad = TRUE]
                 ELSE SweptTo(killed, q, t)
          BY <2>8, CloseEverythingIs DEF SweptTo
        <5>2. [killed EXCEPT !.bad = TRUE].bad
          BY <2>8 DEF Books
        <5>3. e = q
          BY <4>1
        <5> HIDE DEF q, e
        <5>4. QED
          BY <5>1, <5>2, <5>3, <2>8 DEF Alike
      <4>2. CASE ~CloseAllOnKill
        BY <4>2, <2>8 DEF Unmoved, Alike
      <4>3. QED
        BY <4>1, <4>2
    <3> HIDE DEF e
    <3>2. r = Save(e)
      BY <2>10, <2>13 DEF e
    <3>3. r \in Books /\ Unmoved(e, r) /\ Alike(e, r) /\ r.rec = e.rec /\ r.risk = k /\ r.saved = k
      BY <3>1, <3>2, SaveIs
    <3>4. Alike(b, r) /\ r.rec = b.rec
      BY <3>1, <3>3, <2>9 DEF Alike
    <3>5. Barred(r, t)
      BY <3>3, <3>4, <2>2, <2>5, <1>2 DEF Barred, Alike
    <3>6. SweptTo(killed, e, t) => SweptTo(b, r, t)
      <4>1. SweptTo(killed, e, t) => SweptTo(b, e, t)
        BY <2>9, UnmovedSweep DEF Alike
      <4>2. SweptTo(b, e, t) => SweptTo(b, r, t)
        BY <3>3 DEF SweptTo, Unmoved
      <4>3. QED
        BY <4>1, <4>2
    <3>7. Unmoved(killed, e) => Unmoved(b, r)
      BY <2>9, <3>3 DEF Unmoved
    <3>8. killed.pend # {} /\ ~killed.dec /\ e.bad => b.pend # {} /\ ~b.dec /\ r.bad
      BY <2>9, <3>3 DEF Unmoved, Alike
    <3>9. Moves(b, r, t)
      BY <3>1, <3>4, <3>5, <3>6, <3>7, <3>8, <2>11, <2>13 DEF Moves
    <3>10. Judged(b, r, t)
      BY <3>3, <3>4, <2>2, <2>5, <1>2 DEF Judged, Alike
    <3>11. ScoresKept(b, r)
      BY <3>3, <2>2, <2>5 DEF ScoresKept
    <3>12. QED
      BY <1>2, <3>3, <3>4, <3>9, <3>10, <3>11 DEF r
  <2>14. QED
    BY <2>12, <2>13
<1>3. QED
  BY <1>1, <1>2

LEMMA CountIs ==
  ASSUME NEW b \in Books, NEW i \in Ids, NEW t \in Nat
  PROVE  LET r == OnTradeClosed(b, i, t)
         IN  /\ r \in Books /\ Moves(b, r, t)
             /\ IF i \in b.rec \/ b.bad THEN r = b
                ELSE /\ r.rec = b.rec \cup {i} /\ Judged(b, r, t)
                     /\ IF b.risk.seen # b.resets THEN r.risk.base = r.rec ELSE CountedIn(b, i, r)
<1> DEFINE r == OnTradeClosed(b, i, t)
<1>1. CASE i \in b.rec \/ b.bad
  <2>1. r = b
    BY <1>1 DEF OnTradeClosed
  <2>2. Moves(b, b, t)
    BY DEF Moves, Alike, Unmoved
  <2>3. QED
    BY SMTT(30), <1>1, <2>1, <2>2
<1>2. CASE ~(i \in b.rec \/ b.bad)
  <2> DEFINE s == ScannerOf[b.rows[i].cell]
             n == IF b.rows[i].pnl < 0 THEN b.risk.streak[s] + 1 ELSE 0
             st == [b.risk.streak EXCEPT ![s] = n]
             un == [b.risk.until EXCEPT ![s] = IF n >= CooldownAfter THEN b.rows[i].end + CooldownTicks ELSE @]
             x == [b.risk EXCEPT !.streak = st, !.until = un]
             c == [b EXCEPT !.rec = b.rec \cup {i}, !.risk = x]
  <2>0. b.risk \in RiskState /\ b.rows[i] \in Row /\ b.rec \in SUBSET Ids
    BY BookFields
  <2>1. st \in [Scanners -> Nat]
    <3>1. s \in Scanners => n \in Nat
      BY <2>0, RiskFields
    <3>2. b.risk.streak \in [Scanners -> Nat]
      BY <2>0, RiskFields
    <3> HIDE DEF n, s
    <3>3. QED
      BY <3>1, <3>2
  <2>2. un \in [Scanners -> Nat]
    <3>1. b.rows[i].end + CooldownTicks \in Nat
      BY <2>0, RowFields, Constants
    <3>2. b.risk.until \in [Scanners -> Nat]
      BY <2>0, RiskFields
    <3> HIDE DEF n, s
    <3>3. QED
      BY <3>1, <3>2
  <2>3. x \in RiskState /\ x.streak = st /\ x.until = un /\ x.base = b.risk.base /\ x.seen = b.risk.seen
        /\ x.halt = b.risk.halt /\ x.tripped = b.risk.tripped /\ x.day = b.risk.day
    <3> HIDE DEF st, un
    <3>1. QED
      BY <2>0, <2>1, <2>2 DEF RiskState
  <2>4. [b EXCEPT !.rec = @ \cup {i}, !.risk.streak[s] = n,
                  !.risk.until[s] = IF n >= CooldownAfter THEN b.rows[i].end + CooldownTicks ELSE @] = c
    <3> HIDE DEF n, s
    <3>1. QED
      BY Zenon, <2>0 DEF Books, RiskState, st, un, x, c
  <2>5. r = Tick(Save(c), t)
    BY Zenon, <1>2, <2>4 DEF OnTradeClosed
  <2> HIDE DEF x
  <2>6. c \in Books /\ Unmoved(b, c) /\ Alike(b, c) /\ c.rec = b.rec \cup {i} /\ c.risk = x
    BY <2>0, <2>3 DEF Books, Unmoved, Alike
  <2> HIDE DEF c, r
  <2> DEFINE d == Save(c)
  <2>7. d \in Books /\ Unmoved(c, d) /\ Alike(c, d) /\ d.rec = c.rec /\ d.risk = x
    BY <2>6, SaveIs
  <2>8. r = Tick(d, t)
    BY <2>5
  <2> HIDE DEF d
  <2>9. /\ r \in Books /\ r.rec = d.rec /\ Moves(d, r, t) /\ Judged(d, r, t)
        /\ IF d.risk.seen # d.resets THEN r.risk = FreshState(d, t) ELSE ScoresKept(d, r)
    BY <2>7, <2>8, TickIs
  <2>10. Unmoved(b, d) /\ Alike(b, d) /\ d.rec = b.rec \cup {i}
    BY <2>6, <2>7 DEF Unmoved, Alike
  <2>11. Barred(d, t) <=> Barred(b, t)
    BY <2>3, <2>7, <2>10 DEF Barred, Alike
  <2>12. Moves(b, r, t)
    BY <2>9, <2>10, <2>11, MovesOn
  <2>13. Judged(b, r, t)
    BY SMTT(30), <2>9, <2>10, UnmovedSweep DEF Judged, Alike
  <2>14. d.risk.seen = b.risk.seen /\ d.resets = b.resets
    BY <2>3, <2>7, <2>10 DEF Alike
  <2>15. b.risk.seen # b.resets => r.risk.base = r.rec
    BY <2>9, <2>14, <2>7, FreshIs
  <2>16. b.risk.seen = b.resets => CountedIn(b, i, r)
    <3> SUFFICES ASSUME b.risk.seen = b.resets PROVE CountedIn(b, i, r)
      BY SMTT(30)
    <3>1. r.risk.streak = st /\ r.risk.until = un /\ r.risk.base = b.risk.base /\ r.risk.seen = b.risk.seen /\ r.risk.halt = b.risk.halt
      BY <2>3, <2>7, <2>9, <2>14 DEF ScoresKept
    <3>2. QED
      BY <3>1 DEF CountedIn
  <2>17. QED
    BY <1>2, <2>9, <2>10, <2>12, <2>13, <2>15, <2>16 DEF r
<1>3. QED
  BY <1>1, <1>2

\* The trades recoverClosedTrades() selects, in its order.
LEMMA OldestLists ==
  ASSUME NEW b \in Books
  PROVE  LET s == Oldest(b, Uncounted(b))
         IN  /\ Len(s) \in Nat
             /\ \A k \in 1..Len(s) : s[k] \in Ids /\ s[k] \in Uncounted(b)
             /\ \A j, k \in 1..Len(s) : j < k => s[j] # s[k] /\ b.rows[s[j]].end <= b.rows[s[k]].end
             /\ \A i \in Uncounted(b) : \E k \in 1..Len(s) : s[k] = i
<1> DEFINE S == Uncounted(b)
           rank == [i \in S |-> b.rows[i].end]
<1>1. S \in SUBSET Ids
  BY DEF Uncounted, IdsOf
<1>2. \A i \in S : rank[i] \in Nat /\ rank[i] = b.rows[i].end
  BY <1>1, BookFields, RowFields
<1> DEFINE s == Oldest(b, S)
<1>3. s = InOrder(S, rank)
  BY DEF Oldest
<1> HIDE DEF rank, S, s
<1>4. /\ Len(s) \in Nat /\ \A k \in 1..Len(s) : s[k] \in S
      /\ \A j, k \in 1..Len(s) : j < k => s[j] # s[k] /\ rank[s[j]] <= rank[s[k]]
      /\ \A i \in S : \E k \in 1..Len(s) : s[k] = i
  <2>1. \A i \in S : rank[i] \in Nat
    BY <1>2
  <2> DEFINE o == InOrder(S, rank)
  <2>2. /\ Len(o) \in Nat /\ \A k \in 1..Len(o) : o[k] \in S
        /\ \A j, k \in 1..Len(o) : j < k => o[j] # o[k] /\ rank[o[j]] <= rank[o[k]]
        /\ \A i \in S : \E k \in 1..Len(o) : o[k] = i
    BY <1>1, <2>1, InOrderLists
  <2> HIDE DEF o
  <2>3. s = o
    BY <1>3 DEF o
  <2>4. QED
    BY <2>2, <2>3
<1>5. \A k \in 1..Len(s) : s[k] \in Ids /\ s[k] \in S
  BY <1>1, <1>4
<1>6. \A j, k \in 1..Len(s) : j < k => s[j] # s[k] /\ b.rows[s[j]].end <= b.rows[s[k]].end
  BY <1>2, <1>4
<1>7. QED
  BY <1>4, <1>5, <1>6 DEF S, s

\* Recovery counts its trades one by one.
LEMMA RecoverIs ==
  ASSUME NEW b \in Books, NEW t \in Nat
  PROVE  LET m == Oldest(b, Uncounted(b))
         IN  \E f : RecoversAs(f, b, m, Len(m), t) /\ Recover(b, t) = f[Len(m)]
<1> DEFINE m == Oldest(b, Uncounted(b))
           N == Len(m)
           Part(k, f) == DOMAIN f = 0..k /\ f[0] = b /\ \A n \in 0..k : n < k => f[n + 1] = OnTradeClosed(f[n], m[n + 1], t)
           T == {k \in 0..N : \E f : Part(k, f)}
<1>0. N \in Nat
  BY OldestLists
<1>1. 0 \in T
  <2>1. Part(0, [n \in 0..0 |-> b])
    OBVIOUS
  <2>2. 0 \in 0..N
    BY <1>0
  <2> HIDE DEF Part
  <2>3. QED
    BY <2>1, <2>2
<1>2. ASSUME NEW k \in 0..N, k < N, k \in T PROVE k + 1 \in T
  <2>1. PICK f : Part(k, f)
    BY <1>2
  <2> DEFINE g == [n \in 0..(k + 1) |-> IF n = k + 1 THEN OnTradeClosed(f[k], m[k + 1], t) ELSE f[n]]
  <2>2. k \in Nat /\ k + 1 \in 0..N
    BY <1>0, <1>2
  <2>3. DOMAIN g = 0..(k + 1) /\ g[0] = b
    BY <2>1, <2>2
  <2>4. ASSUME NEW n \in 0..(k + 1), n < k + 1 PROVE g[n + 1] = OnTradeClosed(g[n], m[n + 1], t)
    <3>1. n \in 0..k /\ n + 1 \in 0..(k + 1) /\ g[n] = f[n]
      BY <2>2, <2>4
    <3>2. CASE n = k
      BY <3>1, <3>2, <2>2
    <3>3. CASE n # k
      <4>1. n < k /\ g[n + 1] = f[n + 1]
        BY <3>1, <3>3, <2>2
      <4>2. QED
        BY <4>1, <3>1, <2>1
    <3>4. QED
      BY <3>2, <3>3
  <2>5. Part(k + 1, g)
    BY <2>3, <2>4
  <2> HIDE DEF Part, g
  <2>6. QED
    BY <2>2, <2>5
<1>3. N \in T
  <2> HIDE DEF T, N
  <2>1. \A n \in 0..N : n \in T
    BY <1>0, <1>1, <1>2, UpTo
  <2>2. QED
    BY <2>1, <1>0
<1>4. PICK f : Part(N, f)
  BY <1>3
<1> DEFINE Def(g) == g = [n \in 0..N |-> IF n = 0 THEN b ELSE OnTradeClosed(g[n - 1], m[n], t)]
           F == CHOOSE g : Def(g)
<1>5. Def(f)
  <2>1. ASSUME NEW n \in 0..N PROVE f[n] = IF n = 0 THEN b ELSE OnTradeClosed(f[n - 1], m[n], t)
    <3>1. CASE n = 0
      BY <3>1, <1>4
    <3>2. CASE n # 0
      <4>1. n - 1 \in 0..N /\ n - 1 < N /\ (n - 1) + 1 = n
        BY <3>2, <1>0
      <4>2. f[(n - 1) + 1] = OnTradeClosed(f[n - 1], m[(n - 1) + 1], t)
        BY <4>1, <1>4
      <4>3. QED
        BY <4>1, <4>2, <3>2
    <3>3. QED
      BY <3>1, <3>2
  <2>2. f = [n \in 0..N |-> f[n]]
    BY <1>4
  <2>3. QED
    BY <2>1, <2>2
<1>6. Def(F)
  <2> HIDE DEF Def
  <2>1. QED
    BY <1>5
<1>7. Recover(b, t) = F[N]
  BY DEF Recover
<1> HIDE DEF F
<1>8. \A n \in 0..N : F[n] = IF n = 0 THEN b ELSE OnTradeClosed(F[n - 1], m[n], t)
  BY <1>6
<1> HIDE DEF Def, m
<1>9. F[0] = b
  BY <1>8, <1>0
<1>10. ASSUME NEW n \in 0..N, n < N PROVE F[n + 1] = OnTradeClosed(F[n], m[n + 1], t)
  <2>1. n + 1 \in 0..N /\ n + 1 # 0 /\ (n + 1) - 1 = n
    BY <1>10, <1>0
  <2>2. F[n + 1] = OnTradeClosed(F[(n + 1) - 1], m[n + 1], t)
    BY <2>1, <1>8
  <2>3. QED
    BY <2>1, <2>2
<1>11. RecoversAs(F, b, m, N, t)
  BY <1>9, <1>10 DEF RecoversAs
<1>12. QED
  BY <1>7, <1>11 DEF m

\* Recovery in a decision's transaction.
LEMMA RecoverMoves ==
  ASSUME NEW b \in Books, NEW t \in Nat, b.dec, ~b.bad
  PROVE  LET r == Recover(b, t) IN r \in Books /\ Moves(b, r, t) /\ ~r.bad
<1> DEFINE m == Oldest(b, Uncounted(b))
           N == Len(m)
<1>1. PICK f : RecoversAs(f, b, m, N, t) /\ Recover(b, t) = f[N]
  BY RecoverIs
<1>2. N \in Nat /\ \A k \in 1..N : m[k] \in Ids
  BY OldestLists
<1> HIDE DEF m, N
<1> DEFINE T == {n \in 0..N : f[n] \in Books /\ Moves(b, f[n], t)}
<1>3. 0 \in T
  <2>1. Moves(b, b, t)
    BY DEF Moves, Alike, Unmoved
  <2>2. QED
    BY <1>1, <1>2, <2>1 DEF RecoversAs
<1>4. ASSUME NEW n \in 0..N, n < N, n \in T PROVE n + 1 \in T
  <2>1. f[n] \in Books /\ Moves(b, f[n], t) /\ m[n + 1] \in Ids /\ n + 1 \in 0..N
    BY <1>2, <1>4
  <2>2. f[n + 1] = OnTradeClosed(f[n], m[n + 1], t)
    BY <1>1, <1>4 DEF RecoversAs
  <2>3. f[n + 1] \in Books /\ Moves(f[n], f[n + 1], t)
    BY <2>1, <2>2, CountIs
  <2>4. Moves(b, f[n + 1], t)
    BY <2>1, <2>3, MovesTwice
  <2>5. QED
    BY <2>1, <2>3, <2>4
<1>5. N \in T
  <2> HIDE DEF T
  <2>1. \A n \in 0..N : n \in T
    BY <1>2, <1>3, <1>4, UpTo
  <2>2. QED
    BY <2>1, <1>2
<1>6. Moves(b, Recover(b, t), t) => ~Recover(b, t).bad
  BY DEF Moves, Unmoved, SweptTo
<1>7. QED
  BY <1>1, <1>5, <1>6

\* The gate in a decision's transaction: it throws nothing, it judges by the
\* day, and once it has closed everything it refuses.
LEMMA GateIs ==
  ASSUME NEW b \in Books, NEW t \in Nat, b.dec, ~b.bad
  PROVE  LET g == Gate(b, t)
         IN  /\ g \in Books /\ Moves(b, g, t) /\ ~g.bad /\ Judged(b, g, t)
             /\ Unmoved(b, g) \/ (SweptTo(b, g, t) /\ g.risk.tripped)
<1> DEFINE r == Recover(b, t)
           g == Gate(b, t)
<1>1. r \in Books /\ Moves(b, r, t) /\ ~r.bad
  BY RecoverMoves
<1>2. g = Tick(r, t)
  BY <1>1 DEF Gate
<1> HIDE DEF r, g
<1>3. g \in Books /\ Moves(r, g, t) /\ Judged(r, g, t)
  BY <1>1, <1>2, TickIs
<1>4. Moves(b, g, t)
  BY <1>1, <1>3, MovesTwice
<1>5. Unmoved(b, g) \/ (SweptTo(b, g, t) /\ Barred(g, t))
  BY <1>4 DEF Moves
<1>6. ~g.bad
  BY <1>5 DEF Unmoved, SweptTo
<1>7. Judged(b, g, t)
  <2>1. CASE Unmoved(b, r)
    <3>1. Equity(r) = Equity(b)
      BY <2>1, <1>1, UnmovedSweep DEF Moves, Alike
    <3>2. QED
      BY <3>1, <1>3 DEF Judged
  <2>2. CASE Barred(r, t)
    <3>1. Barred(g, t)
      BY <2>2, <1>3 DEF Moves
    <3>2. QED
      BY <3>1, <1>3 DEF Judged, Barred
  <2>3. QED
    BY <1>1, <2>1, <2>2 DEF Moves
<1>8. QED
  BY <1>3, <1>4, <1>5, <1>6, <1>7 DEF Barred, g

----------------------------------------------------------------------------
(* Decisions and fills, by their outcome.                                   *)

LEMMA MarkIs ==
  ASSUME NEW b \in Books, NEW i \in Ids, NEW r, r = Ignored(b, i) \/ r = Rejected(b, i)
  PROVE  /\ r \in Books /\ r.rows = b.rows /\ r.open = b.open /\ r.pend = b.pend /\ r.rec = b.rec
         /\ r.saved = b.saved /\ r.resets = b.resets /\ r.risk = b.risk /\ r.ev = b.ev /\ r.bad = b.bad
         /\ r.act = [b.act EXCEPT ![i] = "ignored"] \/ r.act = [b.act EXCEPT ![i] = "rejected"]
<1>1. [b.act EXCEPT ![i] = "rejected"] \in [Ids -> Actions] /\ [b.act EXCEPT ![i] = "ignored"] \in [Ids -> Actions]
  BY BookFields DEF Actions
<1>2. QED
  BY <1>1 DEF Ignored, Rejected, Books

LEMMA AllowedIs ==
  ASSUME NEW b \in Books, NEW g, NEW c, NEW old,
         Unmoved(b, g) \/ (SweptTo(b, g, now) /\ g.risk.tripped), ~GateRefuses(g, c, old, now)
  PROVE  Allowed(b, g, c)
BY DEF GateRefuses, Allowed

LEMMA NewRowIs ==
  ASSUME NEW c \in Cells, NEW side \in Sides, NEW old \in 0..MaxSignals, now \in Nat
  PROVE  LET row == NewRow(c, side, old)
         IN  /\ row \in Row /\ row.st = "pending" /\ row.cell = c /\ row.at = now
             /\ row.kind = "rest" => row.old = 0 /\ old = 0
             /\ row.kind = "wait" => row.old = old
<1> DEFINE kind == IF c \in RestCells /\ old = 0 THEN "rest" ELSE IF source = "at once" THEN "now" ELSE "wait"
           till == CASE kind = "rest" -> now + LimitLife
                     [] kind = "wait" -> now + Latency
                     [] OTHER -> now
           o == IF kind = "wait" THEN old ELSE 0
           row == [NoRow EXCEPT !.st = "pending", !.cell = c, !.side = side, !.kind = kind, !.at = now,
                                !.old = o, !.till = till]
<1>1. NewRow(c, side, old) = row
  <2>1. NewRow(c, side, old) = [NoRow EXCEPT !.st = "pending", !.cell = c, !.side = side, !.kind = kind,
                                             !.at = now, !.old = o, !.till = till]
    BY DEF NewRow
  <2>2. QED
    BY <2>1
<1>2. kind \in {"now", "wait", "rest"} /\ (kind = "rest" => old = 0)
  OBVIOUS
<1> HIDE DEF kind
<1>3. till \in Nat
  <2>1. now + LimitLife \in Nat /\ now + Latency \in Nat /\ now \in Nat
    BY Constants
  <2>2. CASE kind = "rest"
    BY <2>1, <2>2
  <2>3. CASE kind = "wait"
    BY <2>1, <2>3
  <2>4. CASE kind = "now"
    BY <2>1, <2>4
  <2>5. QED
    BY <1>2, <2>2, <2>3, <2>4
<1>4. o \in 0..MaxSignals /\ (kind = "wait" => o = old) /\ (kind = "rest" => o = 0)
  BY <1>2, Constants
<1> HIDE DEF till, o
<1>5. row \in Row
  BY <1>2, <1>3, <1>4, NoRowType DEF Row, SomeCells, Statuses
<1>6. row.st = "pending" /\ row.cell = c /\ row.at = now /\ row.kind = kind /\ row.old = o
  BY NoRowType DEF Row
<1>7. QED
  BY <1>1, <1>2, <1>4, <1>5, <1>6

LEMMA HeldIs ==
  ASSUME NEW b \in Books, NEW c
  PROVE  LET old == HeldIn(b, c)
         IN  /\ old \in 0..MaxSignals
             /\ InCell(b, b.open, c) = {} => old = 0
             /\ InCell(b, b.open, c) # {} => old \in InCell(b, b.open, c)
<1> DEFINE held == InCell(b, b.open, c)
<1>1. held \in SUBSET Ids
  BY BookFields DEF InCell
<1>2. (held = {} => HeldIn(b, c) = 0) /\ (held # {} => HeldIn(b, c) \in held)
  BY DEF HeldIn
<1> HIDE DEF held
<1>3. HeldIn(b, c) \in 0..MaxSignals
  <2> DEFINE x == HeldIn(b, c)
  <2>1. x = 0 \/ x \in Ids
    BY <1>1, <1>2
  <2> HIDE DEF x
  <2>2. x \in 0..MaxSignals
    BY <2>1, Constants DEF Ids
  <2>3. QED
    BY <2>2 DEF x
<1>4. QED
  BY <1>2, <1>3 DEF held

LEMMA ExecuteIs ==
  ASSUME NEW b \in Books, b.dec, ~b.bad, now \in Nat,
         NEW i \in Ids, NEW c \in Cells, NEW side \in Sides, NEW says, NEW bank \in BOOLEAN
  PROVE  LET r == ExecuteEntry(b, i, c, side, says, bank)
             old == HeldIn(b, c)
             g == Gate(b, now)
         IN  \/ r = Ignored(b, i) \/ r = Rejected(b, i) \/ r = Rejected(g, i)
             \/ Admitted(b, g, i, c, NewRow(c, side, old), old, r)
<1> DEFINE r == ExecuteEntry(b, i, c, side, says, bank)
           old == HeldIn(b, c)
           row == NewRow(c, side, old)
           g == Gate(b, now)
           cleared == IF old \in g.open /\ row.kind = "now" THEN CloseAt(g, old, g.mkt, now) ELSE g
<1>4. Unmoved(b, g) \/ (SweptTo(b, g, now) /\ g.risk.tripped)
  BY GateIs
<1>5. r = IF (old # 0 /\ (b.rows[old].side = side \/ ~bank)) \/ InCell(b, b.pend, c) # {} THEN Ignored(b, i)
          ELSE IF Cardinality(b.open \ {old}) + Cardinality(b.pend) >= MaxOpen THEN Rejected(b, i)
          ELSE IF says = "refused" THEN Rejected(b, i)
          ELSE IF GateRefuses(g, c, old, now) \/ says = "refused later" THEN Rejected(g, i)
          ELSE IF row.kind # "now" THEN Place(g, i, row)
          ELSE OpenAt(Place(cleared, i, row), i, now)
  BY DEF ExecuteEntry, HeldIn
<1> DEFINE wins == Cardinality(b.open \ {old}) + Cardinality(b.pend) >= MaxOpen
           bars == GateRefuses(g, c, old, now)
           k1 == (old # 0 /\ (b.rows[old].side = side \/ ~bank)) \/ InCell(b, b.pend, c) # {}
           k4 == says = "refused"
           k5 == bars \/ says = "refused later"
           k6 == row.kind # "now"
           v1 == Ignored(b, i)
           v2 == Rejected(b, i)
           v3 == Rejected(g, i)
           v4 == Place(g, i, row)
           v5 == OpenAt(Place(cleared, i, row), i, now)
<1>6. ASSUME r # v1, r # v2, r # v3
      PROVE  InCell(b, b.pend, c) = {} /\ ~wins /\ ~bars /\ r = IF row.kind # "now" THEN v4 ELSE v5
  <2>1. r = IF k1 THEN v1 ELSE IF wins THEN v2 ELSE IF k4 THEN v2 ELSE IF k5 THEN v3 ELSE IF k6 THEN v4 ELSE v5
    BY Zenon, <1>5
  <2> HIDE DEF v1, v2, v3, v4, v5, k1, k4, k5, k6, wins, r
  <2>2. ~k1 /\ ~wins /\ ~k5
    BY <2>1, <1>6
  <2>3. r = IF k6 THEN v4 ELSE v5
    BY <2>1, <2>2, <1>6
  <2>4. QED
    BY Zenon, <2>2, <2>3 DEF k1, k5, k6
<1> HIDE DEF r, row, g, cleared, wins, bars, old
<1>7. row.kind = "now" => cleared = Cleared(g, old)
  BY DEF cleared, Cleared
<1>8. ~bars => Allowed(b, g, c)
  BY <1>4, AllowedIs DEF bars
<1>9. QED
  BY <1>6, <1>7, <1>8 DEF r, row, g, wins, old, Admitted

LEMMA TakenIs ==
  ASSUME NEW b \in Books, NEW i
  PROVE  LET r == [b EXCEPT !.pend = @ \ {i}]
         IN  /\ r \in Books /\ r.rows = b.rows /\ r.act = b.act /\ r.pend = b.pend \ {i} /\ r.open = b.open
             /\ r.rec = b.rec /\ r.risk = b.risk /\ r.ev = b.ev /\ r.saved = b.saved
             /\ r.resets = b.resets /\ r.dec = b.dec /\ r.mkt = b.mkt /\ r.bad = b.bad
<1>1. b.pend \ {i} \in SUBSET Ids
  BY BookFields
<1>2. QED
  BY <1>1 DEF Books

LEMMA FillWaitingIs ==
  ASSUME NEW b \in Books, b.dec, ~b.bad, now \in Nat, NEW i \in Ids, NEW says
  PROVE  LET r == FillWaiting(b, i, says)
             g == Gate([b EXCEPT !.pend = @ \ {i}], now)
         IN  \/ r = CancelEntry(b, i) \/ r = CancelEntry(g, i)
             \/ WaitingFilled(b, g, i, Replaced(b, i), r)
<1> DEFINE r == FillWaiting(b, i, says)
           row == b.rows[i]
           taken == [b EXCEPT !.pend = @ \ {i}]
           held == Replaced(b, i)
           g == Gate(taken, now)
           cleared == Cleared(g, held)
           late == now > row.till + PendingExpiry
           full == Cardinality(b.open \ {held}) >= MaxOpen
           bars == GateRefuses(g, row.cell, held, now)
<1>1. taken \in Books /\ taken.dec /\ ~taken.bad
  BY TakenIs
<1>2. Unmoved(taken, g) \/ (SweptTo(taken, g, now) /\ g.risk.tripped)
  <2> HIDE DEF taken
  <2>1. QED
    BY <1>1, GateIs
<1>3. r = IF says = "refused" \/ late \/ full THEN CancelEntry(b, i)
          ELSE IF bars \/ says = "refused later" THEN CancelEntry(g, i) ELSE OpenAt(cleared, i, now)
  BY DEF FillWaiting, Replaced, Cleared
<1> HIDE DEF taken, r, row, g, cleared, late, full, bars, held
<1>4. ~bars => Allowed(taken, g, row.cell)
  BY <1>1, <1>2, AllowedIs DEF bars
<1>5. \/ r = CancelEntry(b, i) \/ r = CancelEntry(g, i)
      \/ Allowed(taken, g, row.cell) /\ ~late /\ ~full /\ r = OpenAt(cleared, i, now)
  BY Zenon, <1>3, <1>4
<1>6. QED
  BY <1>5 DEF taken, r, row, g, cleared, late, full, held, WaitingFilled

LEMMA FillRestingIs ==
  ASSUME NEW b \in Books, b.dec, ~b.bad, now \in Nat, NEW i \in Ids, NEW time, NEW says, NEW stopped \in BOOLEAN
  PROVE  LET r == FillResting(b, i, time, says, stopped)
             g == Gate([b EXCEPT !.pend = @ \ {i}], now)
         IN  \/ r = CancelEntry(b, i) \/ r = CancelEntry(g, i)
             \/ RestingFilled(b, g, i, time, r)
<1> DEFINE r == FillResting(b, i, time, says, stopped)
           row == b.rows[i]
           taken == [b EXCEPT !.pend = @ \ {i}]
           g == Gate(taken, now)
           opened == OpenAt(g, i, now)
           past == time >= row.till
           late == now - time > LimitLate
           full == Cardinality(b.open) >= MaxOpen
           bars == GateRefuses(g, row.cell, 0, now)
<1>1. taken \in Books /\ taken.dec /\ ~taken.bad
  BY TakenIs
<1>2. Unmoved(taken, g) \/ (SweptTo(taken, g, now) /\ g.risk.tripped)
  <2> HIDE DEF taken
  <2>1. QED
    BY <1>1, GateIs
<1>3. r = IF says = "refused" \/ past \/ late \/ full THEN CancelEntry(b, i)
          ELSE IF bars \/ says = "refused later" THEN CancelEntry(g, i)
          ELSE IF stopped THEN CloseAt(opened, i, -1, now) ELSE opened
  BY DEF FillResting
<1> HIDE DEF taken, r, row, g, opened, past, late, full, bars
<1>4. ~bars => Allowed(taken, g, row.cell)
  BY <1>1, <1>2, AllowedIs DEF bars
<1>5. \/ r = CancelEntry(b, i) \/ r = CancelEntry(g, i)
      \/ Allowed(taken, g, row.cell) /\ ~past /\ ~late /\ ~full /\ (r = opened \/ r = CloseAt(opened, i, -1, now))
  BY Zenon, <1>3, <1>4
<1>6. QED
  BY <1>5 DEF taken, r, row, g, opened, past, late, full, RestingFilled

----------------------------------------------------------------------------
(* The same operations id by id: what becomes of the entry or position of   *)
(* one id, all others staying as they are.                                  *)

LEMMA PlaceLocal ==
  ASSUME NEW b \in Books, NEW i \in Ids, NEW row \in Row
  PROVE  LET r == Place(b, i, row)
         IN  r \in Books /\ Same(b, r) /\ Beside(b, r, i) /\ r.ev = b.ev /\ PlacedAs(b, r, i, row)
<1> DEFINE r == Place(b, i, row)
<1>1. r \in Books
  BY PlaceIs
<1>2. Same(b, r) /\ r.ev = b.ev
  BY DEF Place, Books, Same
<1>3. /\ r.rows = [b.rows EXCEPT ![i] = row] /\ r.act = [b.act EXCEPT ![i] = "pending"]
      /\ r.pend = b.pend \cup {i} /\ r.open = b.open
  BY DEF Place, Books
<1>4. b.rows \in [Ids -> Row] /\ b.act \in [Ids -> Actions]
  BY BookFields
<1> HIDE DEF r
<1>5. PlacedAs(b, r, i, row)
  BY <1>3, <1>4 DEF PlacedAs
<1>6. Beside(b, r, i)
  BY <1>3, <1>4 DEF Beside, Still
<1>7. QED
  BY <1>1, <1>2, <1>5, <1>6 DEF r

LEMMA CancelLocal ==
  ASSUME NEW b \in Books, NEW i \in Ids
  PROVE  LET r == CancelEntry(b, i)
         IN  r \in Books /\ Same(b, r) /\ Beside(b, r, i) /\ r.ev = b.ev /\ Cancelled(b, r, i)
<1> DEFINE r == CancelEntry(b, i)
<1>1. r \in Books
  BY CancelIs
<1>2. Same(b, r) /\ r.ev = b.ev
  BY DEF CancelEntry, Books, Same
<1>3. /\ r.rows = [b.rows EXCEPT ![i] = IF @.st = "pending" THEN Gone ELSE @]
      /\ r.act = [b.act EXCEPT ![i] = "rejected"] /\ r.pend = b.pend \ {i} /\ r.open = b.open
  BY DEF CancelEntry, Books
<1>4. b.rows \in [Ids -> Row] /\ b.act \in [Ids -> Actions]
  BY BookFields
<1> HIDE DEF r
<1>5. Cancelled(b, r, i)
  BY <1>3, <1>4 DEF Cancelled
<1>6. Beside(b, r, i)
  BY <1>3, <1>4 DEF Beside, Still
<1>7. QED
  BY <1>1, <1>2, <1>5, <1>6 DEF r

LEMMA CloseLocal ==
  ASSUME NEW b \in Books, NEW i \in Ids, NEW pnl \in Outcomes, NEW t \in Nat
  PROVE  LET r == CloseAt(b, i, pnl, t)
         IN  r \in Books /\ Same(b, r) /\ Beside(b, r, i) /\ r.ev = Append(b.ev, i) /\ Shut(b, r, i, pnl, t)
<1> DEFINE r == CloseAt(b, i, pnl, t)
<1>1. r \in Books
  BY CloseIs
<1>2. Same(b, r) /\ r.ev = Append(b.ev, i)
  BY DEF CloseAt, Books, Same
<1>3. /\ r.rows = [b.rows EXCEPT ![i] = ClosedRow(b, i, pnl, t)] /\ r.act = b.act
      /\ r.open = b.open \ {i} /\ r.pend = b.pend
  BY DEF CloseAt, ClosedRow, Books
<1>4. b.rows \in [Ids -> Row] /\ b.act \in [Ids -> Actions]
  BY BookFields
<1> HIDE DEF r
<1>5. Shut(b, r, i, pnl, t)
  BY <1>3, <1>4 DEF Shut
<1>6. Beside(b, r, i)
  BY <1>3, <1>4 DEF Beside, Still
<1>7. QED
  BY <1>1, <1>2, <1>5, <1>6 DEF r

LEMMA OpenLocal ==
  ASSUME NEW b \in Books, NEW i \in Ids, NEW t \in Nat
  PROVE  LET r == OpenAt(b, i, t)
         IN  r \in Books /\ Same(b, r) /\ Beside(b, r, i) /\ r.ev = b.ev /\ Started(b, r, i)
<1> DEFINE r == OpenAt(b, i, t)
           x == [b.rows[i] EXCEPT !.st = "open", !.at = t]
           y == IF b.rows[i].st = "pending" THEN x ELSE b.rows[i]
<1>1. b.rows[i] \in Row /\ b.rows \in [Ids -> Row] /\ b.act \in [Ids -> Actions] /\ b.pend \in SUBSET Ids
      /\ b.open \in SUBSET Ids
  BY BookFields
<1>2. x \in Row /\ x.st = "open" /\ x.cell = b.rows[i].cell
  BY <1>1 DEF Row, Statuses
<1>3. r = [b EXCEPT !.rows = [b.rows EXCEPT ![i] = y], !.pend = b.pend \ {i}, !.open = b.open \cup {i},
                    !.act = [b.act EXCEPT ![i] = "opened"]]
  BY <1>1 DEF OpenAt, Books
<1> HIDE DEF x
<1>4. y \in Row
  BY <1>1, <1>2
<1> HIDE DEF y
<1>5. [b.rows EXCEPT ![i] = y] \in [Ids -> Row] /\ [b.act EXCEPT ![i] = "opened"] \in [Ids -> Actions]
  BY <1>1, <1>4 DEF Actions
<1> HIDE DEF r
<1>6. r \in Books
  BY <1>1, <1>3, <1>5 DEF Books
<1>7. r.rows = [b.rows EXCEPT ![i] = y] /\ r.pend = b.pend \ {i} /\ r.open = b.open \cup {i}
      /\ r.act = [b.act EXCEPT ![i] = "opened"]
  BY <1>3 DEF Books
<1>8. Same(b, r) /\ r.ev = b.ev
  BY <1>3 DEF Books, Same
<1>9. r.rows[i] = y
  BY <1>1, <1>7
<1>10. r.act[i] = "opened" /\ i \in r.open /\ i \notin r.pend
  BY <1>1, <1>7
<1>11. Started(b, r, i)
  BY <1>2, <1>9, <1>10 DEF Started, y
<1>12. Beside(b, r, i)
  BY <1>1, <1>7 DEF Beside, Still
<1>13. QED
  BY <1>6, <1>8, <1>11, <1>12 DEF r

LEMMA MarkLocal ==
  ASSUME NEW b \in Books, NEW i \in Ids, NEW r, r = Ignored(b, i) \/ r = Rejected(b, i)
  PROVE  r \in Books /\ Same(b, r) /\ Beside(b, r, i) /\ r.ev = b.ev /\ MarkedAs(b, r, i)
<1>1. PICK a \in {"ignored", "rejected"} : r = [b EXCEPT !.act = [b.act EXCEPT ![i] = a]]
  BY DEF Ignored, Rejected, Books
<1>2. b.act \in [Ids -> Actions]
  BY BookFields
<1>3. [b.act EXCEPT ![i] = a] \in [Ids -> Actions]
  BY <1>1, <1>2 DEF Actions
<1>4. r \in Books /\ Same(b, r) /\ r.ev = b.ev /\ r.rows = b.rows /\ r.pend = b.pend /\ r.open = b.open
      /\ r.act = [b.act EXCEPT ![i] = a]
  BY <1>1, <1>3 DEF Books, Same
<1>5. MarkedAs(b, r, i)
  BY <1>1, <1>2, <1>4 DEF MarkedAs
<1>6. Beside(b, r, i)
  BY <1>2, <1>4 DEF Beside, Still
<1>7. QED
  BY <1>4, <1>5, <1>6

----------------------------------------------------------------------------
(* The rest of a handler: its items, and which may stand behind which.      *)

LEMMA ItemIs ==
  ASSUME NEW op \in Ops, NEW i \in 0..MaxSignals, op \in EntryOps => i \in Ids,
         NEW via \in Vias, NEW time \in Nat, NEW loud \in BOOLEAN
  PROVE  /\ Item(op, i, via, time, loud) \in Items
         /\ Item(op, i, via, time, loud).op = op /\ Item(op, i, via, time, loud).id = i
         /\ Item(op, i, via, time, loud).via = via /\ Item(op, i, via, time, loud).time = time
BY DEF Item, Items

LEMMA ItemFields ==
  ASSUME NEW x \in Items
  PROVE  /\ x.op \in Ops /\ x.id \in 0..MaxSignals /\ x.via \in Vias /\ x.time \in Nat /\ x.loud \in BOOLEAN
         /\ x.op \in EntryOps => x.id \in Ids
BY DEF Items

LEMMA EachIs ==
  ASSUME NEW op \in EntryOps, NEW S \in SUBSET Ids, NEW via \in Vias, NEW time \in Nat
  PROVE  Serves(Each(op, S, via, time), op, S, via, time)
<1> DEFINE ids == ById(S)
           e == [k \in 1..Len(ids) |-> Item(op, ids[k], via, time, TRUE)]
<1>1. /\ Len(ids) \in Nat /\ \A k \in 1..Len(ids) : ids[k] \in S
      /\ \A j, k \in 1..Len(ids) : j < k => ids[j] # ids[k]
      /\ \A i \in S : \E k \in 1..Len(ids) : ids[k] = i
  BY ByIdLists
<1>2. Each(op, S, via, time) = e
  BY DEF Each
<1> HIDE DEF ids
<1>3. \A k \in 1..Len(ids) : Item(op, ids[k], via, time, TRUE) \in Items
  <2>1. ASSUME NEW k \in 1..Len(ids) PROVE Item(op, ids[k], via, time, TRUE) \in Items
    <3>1. op \in Ops
      BY Zenon DEF EntryOps, Ops, LateOps, BootOps
    <3>2. ids[k] \in Ids
      BY <1>1
    <3>3. ids[k] \in 0..MaxSignals
      BY <3>2, Constants DEF Ids
    <3>4. QED
      BY <3>1, <3>2, <3>3, ItemIs
  <2>2. QED
    BY <2>1
<1>4. e \in Seq(Items) /\ Len(e) = Len(ids)
  <2>1. e \in [1..Len(ids) -> Items]
    BY <1>3
  <2>2. Len(ids) \in Nat
    BY <1>1
  <2> HIDE DEF e
  <2>3. QED
    BY <2>1, <2>2
<1>5. \A k \in 1..Len(ids) : e[k].op = op /\ e[k].id = ids[k] /\ e[k].via = via /\ e[k].time = time
  BY DEF Item
<1> HIDE DEF e
<1>6. QED
  BY <1>1, <1>2, <1>4, <1>5 DEF Serves

LEMMA TradesIs ==
  ASSUME NEW b, b.ev \in Seq(Ids), NEW loud \in BOOLEAN
  PROVE  LET e == Trades(b, loud)
         IN  /\ e \in Seq(Items) /\ Len(e) = Len(b.ev) /\ Len(e) \in Nat
             /\ \A k \in 1..Len(e) : e[k].op = "trade" /\ e[k].id = b.ev[k] /\ e[k].id \in Ids
<1> DEFINE e == [k \in 1..Len(b.ev) |-> Item("trade", b.ev[k], "none", 0, loud)]
<1>1. Len(b.ev) \in Nat /\ \A k \in 1..Len(b.ev) : b.ev[k] \in Ids
  OBVIOUS
<1>2. Trades(b, loud) = e
  BY DEF Trades
<1>3. \A k \in 1..Len(b.ev) : Item("trade", b.ev[k], "none", 0, loud) \in Items
  <2>1. ASSUME NEW k \in 1..Len(b.ev) PROVE Item("trade", b.ev[k], "none", 0, loud) \in Items
    <3>1. b.ev[k] \in Ids
      BY <1>1
    <3>2. b.ev[k] \in 0..MaxSignals
      BY <3>1, Constants DEF Ids
    <3>3. "trade" \in Ops /\ "none" \in Vias
      BY DEF Ops, Vias
    <3>4. QED
      BY <3>1, <3>2, <3>3, ItemIs
  <2>2. QED
    BY <2>1
<1>4. e \in Seq(Items) /\ Len(e) = Len(b.ev)
  BY <1>1, <1>3
<1>5. \A k \in 1..Len(b.ev) : e[k].op = "trade" /\ e[k].id = b.ev[k]
  BY DEF Item
<1> HIDE DEF e
<1>6. QED
  BY <1>1, <1>2, <1>4, <1>5

----------------------------------------------------------------------------
(* Sequences of items.                                                      *)

LEMMA TailIs ==
  ASSUME NEW w \in Seq(Items), w # <<>>
  PROVE  /\ Tail(w) \in Seq(Items) /\ Len(w) \in Nat /\ Len(w) >= 1 /\ Len(Tail(w)) = Len(w) - 1
         /\ \A k \in 1..Len(Tail(w)) : Tail(w)[k] = w[k + 1] /\ k + 1 \in 1..Len(w)
         /\ Head(w) = w[1] /\ Head(w) \in Items /\ 1 \in 1..Len(w)
OBVIOUS

LEMMA JoinIs ==
  ASSUME NEW v \in Seq(Items), NEW w \in Seq(Items)
  PROVE  /\ v \o w \in Seq(Items) /\ Len(v) \in Nat /\ Len(w) \in Nat /\ Len(v \o w) = Len(v) + Len(w)
         /\ \A k \in 1..Len(v \o w) : \/ k \in 1..Len(v) /\ (v \o w)[k] = v[k]
                                      \/ k - Len(v) \in 1..Len(w) /\ (v \o w)[k] = w[k - Len(v)]
OBVIOUS

LEMMA TurnsTail ==
  ASSUME NEW w \in Seq(Items), w # <<>>, Turns(w)
  PROVE  /\ Turns(Tail(w))
         /\ \A k \in 1..Len(Tail(w)) : Follows(Head(w).op, Tail(w)[k].op)
<1>1. \A k \in 1..Len(Tail(w)) : Tail(w)[k] = w[k + 1] /\ k + 1 \in 1..Len(w)
  BY TailIs
<1>2. Head(w) = w[1] /\ 1 \in 1..Len(w) /\ Len(Tail(w)) \in Nat
  BY TailIs
<1>3. Turns(Tail(w))
  <2>1. ASSUME NEW j \in 1..Len(Tail(w)), NEW k \in 1..Len(Tail(w)), j < k
        PROVE  Follows(Tail(w)[j].op, Tail(w)[k].op)
    <3>1. Follows(w[j + 1].op, w[k + 1].op)
      <4>1. j + 1 \in 1..Len(w) /\ k + 1 \in 1..Len(w)
        BY <1>1
      <4>2. j + 1 < k + 1
        BY <2>1
      <4>3. QED
        BY <4>1, <4>2 DEF Turns
    <3>2. QED
      BY <3>1, <1>1
  <2>2. QED
    BY <2>1 DEF Turns
<1>4. ASSUME NEW k \in 1..Len(Tail(w)) PROVE Follows(Head(w).op, Tail(w)[k].op)
  <2>1. 1 < k + 1
    BY <1>2
  <2>2. Follows(w[1].op, w[k + 1].op)
    BY <2>1, <1>1, <1>2 DEF Turns
  <2>3. QED
    BY <2>2, <1>1, <1>2
<1>5. QED
  BY <1>3, <1>4

LEMMA TurnsJoin ==
  ASSUME NEW v \in Seq(Items), NEW w \in Seq(Items), Turns(v), Turns(w),
         \A j \in 1..Len(v), k \in 1..Len(w) : Follows(v[j].op, w[k].op)
  PROVE  Turns(v \o w)
<1> DEFINE z == v \o w
<1>1. /\ Len(v) \in Nat /\ Len(w) \in Nat /\ Len(z) = Len(v) + Len(w)
      /\ \A k \in 1..Len(z) : \/ k \in 1..Len(v) /\ z[k] = v[k]
                              \/ k - Len(v) \in 1..Len(w) /\ z[k] = w[k - Len(v)]
  BY JoinIs
<1> HIDE DEF z
<1>2. ASSUME NEW j \in 1..Len(z), NEW k \in 1..Len(z), j < k
      PROVE  Follows(z[j].op, z[k].op)
  <2>1. CASE k \in 1..Len(v) /\ z[k] = v[k]
    <3>1. j \in 1..Len(v) /\ z[j] = v[j]
      BY <1>1, <1>2, <2>1
    <3>2. QED
      BY <3>1, <2>1, <1>2 DEF Turns
  <2>2. CASE k - Len(v) \in 1..Len(w) /\ z[k] = w[k - Len(v)]
    <3>1. CASE j \in 1..Len(v) /\ z[j] = v[j]
      BY <3>1, <2>2
    <3>2. CASE j - Len(v) \in 1..Len(w) /\ z[j] = w[j - Len(v)]
      <4>1. j - Len(v) < k - Len(v)
        BY <1>1, <1>2
      <4>2. QED
        BY <4>1, <3>2, <2>2 DEF Turns
    <3>3. QED
      BY <1>1, <3>1, <3>2
  <2>3. QED
    BY <1>1, <2>1, <2>2
<1>3. Turns(z)
  BY <1>2 DEF Turns
<1>4. QED
  BY <1>3 DEF z

\* Late items are in turn in any order, and a run of one kind may be repeated.
LEMMA LateTurns ==
  ASSUME NEW w, AllLate(w)
  PROVE  Turns(w)
BY Zenon DEF AllLate, Turns, Follows

LEMMA SameTurns ==
  ASSUME NEW w, NEW op, op \in LateOps \cup {"trade", "fill", "cancel", "missed", "drop"},
         \A k \in 1..Len(w) : w[k].op = op
  PROVE  Turns(w)
BY Zenon DEF Turns, Follows

\* Unfolding leaves the items alone, or only late items are left.
LEMMA UnfoldIs ==
  ASSUME NEW items \in Seq(Items), Turns(items), NEW rows, NEW m, NEW opened,
         m.open \in SUBSET Ids, m.pend \in SUBSET Ids, now \in Nat
  PROVE  LET r == Unfold(items, rows, m, opened)
         IN  /\ r \in Seq(Items) /\ Turns(r)
             /\ r = items \/ (AllLate(items) /\ AllLate(r))
             /\ items = <<>> => r = <<>>
<1> DEFINE Heads(op, w) == w # <<>> /\ Head(w).op = op
           checks == IF Heads("house", items) THEN Each("check", m.pend, "none", now) \o Tail(items)
                     ELSE items
           exits == {i \in m.open \ opened : MayExit(rows[i], checks[1].via, checks[1].time)}
           outs == Each("exit", exits, checks[1].via, checks[1].time) \o Tail(checks)
           shuts == Each("close", m.open, "none", now) \o Tail(checks)
           r == CASE Heads("exits", checks) -> outs
                  [] Heads("close all", checks) -> shuts
                  [] OTHER -> checks
<1>1. Unfold(items, rows, m, opened) = r
  BY DEF Unfold
<1>2. ASSUME NEW w \in Seq(Items), w # <<>>, Turns(w), Head(w).op \in LateOps,
             NEW op \in EntryOps \cap LateOps, NEW S \in SUBSET Ids, NEW via \in Vias, NEW time \in Nat
      PROVE  LET z == Each(op, S, via, time) \o Tail(w) IN z \in Seq(Items) /\ AllLate(z)
  <2> DEFINE e == Each(op, S, via, time)
             z == e \o Tail(w)
  <2>1. e \in Seq(Items) /\ \A k \in 1..Len(e) : e[k].op = op
    <3>1. Serves(e, op, S, via, time)
      BY EachIs
    <3> HIDE DEF e
    <3>2. QED
      BY <3>1 DEF Serves
  <2>2. Tail(w) \in Seq(Items) /\ \A k \in 1..Len(Tail(w)) : Tail(w)[k].op \in LateOps
    <3>1. \A k \in 1..Len(Tail(w)) : Follows(Head(w).op, Tail(w)[k].op)
      BY <1>2, TurnsTail
    <3>2. QED
      BY Zenon, <3>1, <1>2, TailIs DEF Follows, LateOps
  <2> HIDE DEF e
  <2>3. z \in Seq(Items) /\ Len(z) = Len(e) + Len(Tail(w)) /\ Len(e) \in Nat
    BY <2>1, <2>2, JoinIs
  <2>4. ASSUME NEW k \in 1..Len(z) PROVE z[k].op \in LateOps
    <3>1. \/ k \in 1..Len(e) /\ z[k] = e[k]
          \/ k - Len(e) \in 1..Len(Tail(w)) /\ z[k] = Tail(w)[k - Len(e)]
      BY <2>1, <2>2, JoinIs
    <3>2. op \in LateOps
      OBVIOUS
    <3>3. QED
      BY <3>1, <3>2, <2>1, <2>2
  <2>5. AllLate(z)
    BY <2>4 DEF AllLate
  <2>6. QED
    BY <2>3, <2>5 DEF e
<1>3. "check" \in EntryOps \cap LateOps /\ "exit" \in EntryOps \cap LateOps /\ "close" \in EntryOps \cap LateOps
      /\ "house" \in LateOps /\ "exits" \in LateOps /\ "close all" \in LateOps /\ "none" \in Vias
  BY DEF EntryOps, LateOps, Vias
<1>9. ASSUME NEW w \in Seq(Items), w # <<>>, Turns(w), Head(w).op \in LateOps PROVE AllLate(w)
  <2>1. ASSUME NEW k \in 1..Len(w) PROVE w[k].op \in LateOps
    <3>1. w[1].op \in LateOps /\ 1 \in 1..Len(w)
      BY <1>9, TailIs
    <3>2. k # 1 => Follows(w[1].op, w[k].op)
      BY <1>9, <3>1 DEF Turns
    <3>3. QED
      BY Zenon, <3>1, <3>2 DEF Follows, LateOps
  <2>2. QED
    BY <2>1 DEF AllLate
<1>4. /\ checks \in Seq(Items) /\ Turns(checks)
      /\ checks = items \/ (AllLate(items) /\ AllLate(checks))
      /\ items = <<>> => checks = <<>>
  <2>1. CASE Heads("house", items)
    BY Zenon, <2>1, <1>2, <1>3, <1>9, LateTurns
  <2>2. CASE ~Heads("house", items)
    BY <2>2
  <2>3. QED
    BY <2>1, <2>2
<1> HIDE DEF checks
<1>5. CASE Heads("exits", checks)
  <2>1. checks[1].via \in Vias /\ checks[1].time \in Nat
    BY <1>4, <1>5, TailIs, ItemFields
  <2>2. exits \in SUBSET Ids
    OBVIOUS
  <2>3. r = outs
    BY Zenon, <1>5
  <2> HIDE DEF exits
  <2>4. outs \in Seq(Items) /\ AllLate(outs)
    BY Zenon, <1>2, <1>3, <1>4, <1>5, <2>1, <2>2
  <2>6. AllLate(checks)
    BY Zenon, <1>3, <1>4, <1>5, <1>9
  <2> HIDE DEF outs, r
  <2>5. QED
    BY <1>1, <1>4, <1>5, <2>3, <2>4, <2>6, LateTurns
<1>6. CASE Heads("close all", checks)
  <2>1. r = shuts
    BY Zenon, <1>6
  <2>2. shuts \in Seq(Items) /\ AllLate(shuts)
    BY Zenon, <1>2, <1>3, <1>4, <1>6
  <2>4. AllLate(checks)
    BY Zenon, <1>3, <1>4, <1>6, <1>9
  <2> HIDE DEF shuts, r
  <2>3. QED
    BY Zenon, <1>1, <1>4, <1>6, <2>1, <2>2, <2>4, LateTurns
<1>7. CASE ~Heads("exits", checks) /\ ~Heads("close all", checks)
  <2>1. r = checks
    BY Zenon, <1>7
  <2> HIDE DEF r
  <2>2. QED
    BY <1>1, <1>4, <2>1
<1>8. QED
  BY Zenon, <1>5, <1>6, <1>7

----------------------------------------------------------------------------
(* What a decision or a fill leaves, and when it opens a position.          *)

LEMMA GateWhole ==
  ASSUME NEW b, Whole(b), b.dec, now \in Nat
  PROVE  LET g == Gate(b, now)
         IN  /\ Whole(g) /\ g.resets = b.resets /\ g.mkt = b.mkt /\ Judged(b, g, now)
             /\ ~Opens(b, g)
<1> DEFINE g == Gate(b, now)
<1>1. b \in Books /\ ~b.bad
  BY DEF Whole
<1>2. /\ g \in Books /\ Moves(b, g, now) /\ ~g.bad /\ Judged(b, g, now)
      /\ Unmoved(b, g) \/ (SweptTo(b, g, now) /\ g.risk.tripped)
  BY <1>1, GateIs
<1> HIDE DEF g
<1>3. g.act = b.act \/ g.act = SweptActions(b)
  BY <1>2 DEF Unmoved, SweptTo
<1>4. ~Opens(b, g)
  BY <1>3 DEF SweptActions, Opens
<1>5. QED
  BY <1>2, <1>4 DEF Whole, Judged, Moves, Alike, g

LEMMA JudgedEnters ==
  ASSUME NEW b, NEW g, NEW c, NEW r, Judged(b, g, now), Allowed(b, g, c), r.risk = g.risk
  PROVE  Enters(b, r)
BY DEF Judged, Allowed, Enters

\* each operation on a row keeps a book whole, and only one of them opens
LEMMA StaysWhole ==
  ASSUME NEW b, NEW r, Whole(b), r \in Books, Same(b, r)
  PROVE  Whole(r) /\ r.resets = b.resets /\ r.risk = b.risk /\ r.mkt = b.mkt /\ r.dec = b.dec
BY DEF Whole, Same

LEMMA OpWhole ==
  ASSUME NEW b, Whole(b), NEW i \in Ids, NEW r, now \in Nat,
         \/ r = Ignored(b, i) \/ r = Rejected(b, i) \/ r = CancelEntry(b, i)
         \/ \E pnl \in Outcomes : r = CloseAt(b, i, pnl, now)
         \/ \E row \in Row : r = Place(b, i, row)
  PROVE  Whole(r) /\ r.resets = b.resets /\ r.risk = b.risk /\ r.mkt = b.mkt /\ r.dec = b.dec /\ ~Opens(b, r)
<1>1. b \in Books
  BY DEF Whole
<1>2. CASE r = Ignored(b, i) \/ r = Rejected(b, i)
  <2>1. r \in Books /\ Same(b, r) /\ Beside(b, r, i) /\ MarkedAs(b, r, i)
    BY <1>1, <1>2, MarkLocal
  <2>2. QED
    BY <2>1, StaysWhole DEF Opens, Beside, Still, MarkedAs
<1>3. CASE r = CancelEntry(b, i)
  <2>1. r \in Books /\ Same(b, r) /\ Beside(b, r, i) /\ Cancelled(b, r, i)
    BY <1>1, <1>3, CancelLocal
  <2>2. QED
    BY <2>1, StaysWhole DEF Opens, Beside, Still, Cancelled
<1>4. ASSUME NEW pnl \in Outcomes, r = CloseAt(b, i, pnl, now)
      PROVE  Whole(r) /\ r.resets = b.resets /\ r.risk = b.risk /\ r.mkt = b.mkt /\ r.dec = b.dec /\ ~Opens(b, r)
  <2>1. r \in Books /\ Same(b, r) /\ Beside(b, r, i) /\ Shut(b, r, i, pnl, now)
    BY <1>1, <1>4, CloseLocal
  <2>2. QED
    BY <2>1, StaysWhole DEF Opens, Beside, Still, Shut
<1>5. ASSUME NEW row \in Row, r = Place(b, i, row)
      PROVE  Whole(r) /\ r.resets = b.resets /\ r.risk = b.risk /\ r.mkt = b.mkt /\ r.dec = b.dec /\ ~Opens(b, r)
  <2>1. r \in Books /\ Same(b, r) /\ Beside(b, r, i) /\ PlacedAs(b, r, i, row)
    BY <1>1, <1>5, PlaceLocal
  <2>2. QED
    BY <2>1, StaysWhole DEF Opens, Beside, Still, PlacedAs
<1>6. QED
  BY <1>2, <1>3, <1>4, <1>5

LEMMA OpenWhole ==
  ASSUME NEW b, Whole(b), NEW i \in Ids, now \in Nat
  PROVE  LET r == OpenAt(b, i, now)
         IN  Whole(r) /\ r.resets = b.resets /\ r.risk = b.risk /\ r.mkt = b.mkt /\ r.dec = b.dec
<1> DEFINE r == OpenAt(b, i, now)
<1>1. b \in Books
  BY DEF Whole
<1>2. r \in Books /\ Same(b, r)
  BY <1>1, OpenLocal
<1> HIDE DEF r
<1>3. QED
  BY <1>2, StaysWhole DEF r

LEMMA ClearedWhole ==
  ASSUME NEW g, Whole(g), NEW old, now \in Nat
  PROVE  LET r == Cleared(g, old) IN Whole(r) /\ r.resets = g.resets /\ r.risk = g.risk
<1>1. g.open \in SUBSET Ids /\ g.mkt \in Outcomes
  BY BookFields DEF Whole
<1>2. CASE old \in g.open
  <2>1. old \in Ids /\ Cleared(g, old) = CloseAt(g, old, g.mkt, now)
    BY <1>1, <1>2 DEF Cleared
  <2>2. QED
    BY <1>1, <2>1, OpWhole
<1>3. CASE old \notin g.open
  BY <1>3 DEF Cleared
<1>4. QED
  BY <1>2, <1>3

LEMMA OpensOn ==
  ASSUME NEW b, NEW g, NEW r, ~Opens(b, g), ~Opens(g, r)
  PROVE  ~Opens(b, r)
BY DEF Opens

LEMMA ExecuteWhole ==
  ASSUME NEW b, Whole(b), b.dec, now \in Nat,
         NEW i \in Ids, NEW c \in Cells, NEW side \in Sides, NEW says, NEW bank \in BOOLEAN
  PROVE  LET r == ExecuteEntry(b, i, c, side, says, bank)
         IN  Whole(r) /\ r.resets = b.resets /\ (Opens(b, r) => Enters(b, r))
<1> DEFINE r == ExecuteEntry(b, i, c, side, says, bank)
           old == HeldIn(b, c)
           row == NewRow(c, side, old)
           g == Gate(b, now)
<1>0. b \in Books /\ ~b.bad
  BY DEF Whole
<1>1. \/ r = Ignored(b, i) \/ r = Rejected(b, i) \/ r = Rejected(g, i)
      \/ Admitted(b, g, i, c, row, old, r)
  BY <1>0, ExecuteIs
<1>2. old \in 0..MaxSignals
  BY <1>0, HeldIs
<1> HIDE DEF old
<1>3. row \in Row
  BY <1>2, NewRowIs
<1>4. Whole(g) /\ g.resets = b.resets /\ g.mkt = b.mkt /\ Judged(b, g, now) /\ ~Opens(b, g)
  BY GateWhole
<1> HIDE DEF g, row, r
<1>5. g.mkt \in Outcomes /\ g.open \in SUBSET Ids
  BY <1>4, BookFields DEF Whole
<1>6. CASE r = Ignored(b, i) \/ r = Rejected(b, i)
  <2>1. Whole(r) /\ r.resets = b.resets /\ ~Opens(b, r)
    BY <1>6, OpWhole
  <2>2. QED
    BY <2>1 DEF r
<1>7. CASE r = Rejected(g, i)
  <2>1. Whole(r) /\ r.resets = g.resets /\ ~Opens(g, r)
    BY <1>7, <1>4, OpWhole
  <2>2. QED
    BY <2>1, <1>4, OpensOn DEF r
<1>8. CASE Admitted(b, g, i, c, row, old, r)
  <2>0. Allowed(b, g, c) /\ (r = Place(g, i, row) \/ r = OpenAt(Place(Cleared(g, old), i, row), i, now))
    BY <1>8 DEF Admitted
  <2>1. CASE r = Place(g, i, row)
    <3>1. Whole(r) /\ r.resets = g.resets /\ ~Opens(g, r)
      BY <2>1, <1>3, <1>4, OpWhole
    <3>2. QED
      BY <3>1, <1>4, OpensOn DEF r
  <2>2. CASE r = OpenAt(Place(Cleared(g, old), i, row), i, now)
    <3> DEFINE x == Cleared(g, old)
               p == Place(x, i, row)
    <3>1. Whole(x) /\ x.resets = g.resets /\ x.risk = g.risk
      BY <1>4, <1>5, ClearedWhole
    <3> HIDE DEF x
    <3>2. Whole(p) /\ p.resets = g.resets /\ p.risk = g.risk
      BY <3>1, <1>3, OpWhole
    <3>3. r = OpenAt(p, i, now)
      BY <2>2 DEF x
    <3> HIDE DEF p
    <3>4. Whole(r) /\ r.resets = g.resets /\ r.risk = g.risk
      BY <3>2, <3>3, OpenWhole
    <3>5. Enters(b, r)
      BY <2>0, <1>4, <3>4, JudgedEnters
    <3>6. QED
      BY <3>4, <3>5, <1>4 DEF r
  <2>3. QED
    BY <2>0, <2>1, <2>2
<1>9. QED
  BY <1>1, <1>6, <1>7, <1>8

\* what a fill leaves; the gate judged a book from which the entry is taken
LEMMA FilledWhole ==
  ASSUME NEW b, Whole(b), b.dec, now \in Nat,
         NEW i \in Ids, NEW says, NEW stopped \in BOOLEAN
  PROVE  LET r == Filled(b, i, says, stopped)
         IN  Whole(r) /\ r.resets = b.resets /\ (Opens(b, r) => Enters(b, r))
<1> DEFINE r == Filled(b, i, says, stopped)
           taken == [b EXCEPT !.pend = @ \ {i}]
           g == Gate(taken, now)
<1>0. b \in Books /\ ~b.bad
  BY DEF Whole
<1>1. \/ r = CancelEntry(b, i) \/ r = CancelEntry(g, i)
      \/ WaitingFilled(b, g, i, Replaced(b, i), r)
      \/ RestingFilled(b, g, i, Time, r)
  <2>1. CASE b.rows[i].kind = "rest"
    <3>1. r = FillResting(b, i, Time, says, stopped)
      BY <2>1 DEF Filled
    <3> HIDE DEF r
    <3>2. QED
      BY <1>0, <3>1, FillRestingIs
  <2>2. CASE b.rows[i].kind # "rest"
    <3>1. r = FillWaiting(b, i, says)
      BY <2>2 DEF Filled
    <3> HIDE DEF r
    <3>2. QED
      BY <1>0, <3>1, FillWaitingIs
  <2>3. QED
    BY <2>1, <2>2
<1>2. /\ taken \in Books /\ taken.resets = b.resets /\ taken.dec /\ ~taken.bad
      /\ taken.saved = b.saved /\ taken.risk = b.risk /\ taken.rows = b.rows /\ taken.act = b.act
  BY <1>0, TakenIs
<1> HIDE DEF taken
<1>3. Whole(taken)
  BY <1>2 DEF Whole
<1>4. Whole(g) /\ g.resets = taken.resets /\ g.mkt = taken.mkt /\ Judged(taken, g, now) /\ ~Opens(taken, g)
  BY <1>2, <1>3, GateWhole
<1>5. Judged(b, g, now) /\ ~Opens(b, g)
  BY <1>2, <1>4 DEF Judged, Opens, Equity, IdsOf
<1> HIDE DEF g, r
<1>6. CASE r = CancelEntry(b, i)
  <2>1. Whole(r) /\ r.resets = b.resets /\ ~Opens(b, r)
    BY <1>6, OpWhole
  <2>2. QED
    BY <2>1 DEF r
<1>7. CASE r = CancelEntry(g, i)
  <2>1. Whole(r) /\ r.resets = g.resets /\ ~Opens(g, r)
    BY <1>7, <1>4, OpWhole
  <2>2. QED
    BY <2>1, <1>2, <1>4, <1>5, OpensOn DEF r
<1>8. ASSUME NEW held, r = OpenAt(Cleared(g, held), i, now), Allowed(taken, g, b.rows[i].cell)
      PROVE  Whole(r) /\ r.resets = b.resets /\ Enters(b, r)
  <2> DEFINE x == Cleared(g, held)
  <2>1. Whole(x) /\ x.resets = g.resets /\ x.risk = g.risk
    BY <1>4, ClearedWhole
  <2> HIDE DEF x
  <2>2. Whole(r) /\ r.resets = g.resets /\ r.risk = g.risk
    BY <1>8, <2>1, OpenWhole DEF x
  <2>3. Enters(b, r)
    BY <1>5, <1>8, <2>2 DEF Judged, Allowed, Enters
  <2>4. QED
    BY <2>2, <2>3, <1>2, <1>4
<1>9. CASE WaitingFilled(b, g, i, Replaced(b, i), r)
  <2>1. r = OpenAt(Cleared(g, Replaced(b, i)), i, now) /\ Allowed(taken, g, b.rows[i].cell)
    BY <1>9 DEF WaitingFilled, taken
  <2>2. QED
    BY <2>1, <1>8 DEF r
<1>10. CASE RestingFilled(b, g, i, Time, r)
  <2> DEFINE o == OpenAt(g, i, now)
  <2>1. (r = o \/ r = CloseAt(o, i, -1, now)) /\ Allowed(taken, g, b.rows[i].cell)
    BY <1>10 DEF RestingFilled, taken
  <2>2. Whole(o) /\ o.resets = g.resets /\ o.risk = g.risk
    BY <1>4, OpenWhole
  <2> HIDE DEF o
  <2>3. Whole(r) /\ r.resets = g.resets /\ r.risk = g.risk
    <3>1. -1 \in Outcomes
      BY DEF Outcomes
    <3>2. QED
      BY <2>1, <2>2, <3>1, OpWhole
  <2>4. Enters(b, r)
    BY <1>5, <2>1, <2>3 DEF Judged, Allowed, Enters
  <2>5. QED
    BY <2>3, <2>4, <1>2, <1>4 DEF r
<1>11. QED
  BY <1>1, <1>6, <1>7, <1>9, <1>10

----------------------------------------------------------------------------
(* The types of the variables.                                              *)

LEMMA DiskFields ==
  ASSUME Types
  PROVE  /\ disk.rows \in [Ids -> Row] /\ disk.act \in [Ids -> Actions] /\ disk.rec \in SUBSET Ids
         /\ disk.saved \in RiskState /\ disk.resets \in Nat
         /\ mem.open \in SUBSET Ids /\ mem.pend \in SUBSET Ids
         /\ now \in Nat
<1>1. mem.open \in SUBSET Ids /\ mem.pend \in SUBSET Ids
  <2>1. CASE up
    BY <2>1 DEF Types, Mems
  <2>2. CASE ~up
    BY <2>2 DEF Types, Down
  <2>3. QED
    BY <2>1, <2>2
<1>2. QED
  BY <1>1 DEF Types, Disks

LEMMA OtherMarket ==
  ASSUME NEW b \in Books, NEW m \in Outcomes
  PROVE  LET r == [b EXCEPT !.mkt = m]
             x == [b EXCEPT !.dec = TRUE, !.mkt = m]
         IN  /\ r \in Books /\ Unmoved(b, r) /\ r.rec = b.rec /\ r.saved = b.saved /\ r.resets = b.resets
             /\ r.risk = b.risk /\ r.dec = b.dec /\ r.mkt = m
             /\ x \in Books /\ Unmoved(b, x) /\ x.rec = b.rec /\ x.saved = b.saved /\ x.resets = b.resets
             /\ x.risk = b.risk /\ x.dec /\ x.mkt = m
BY DEF Books, Unmoved

LEMMA BookIs ==
  ASSUME Types, up, NEW m \in Outcomes
  PROVE  /\ InBook(Decision(m)) /\ Decision(m).dec /\ Decision(m).mkt = m
         /\ InBook([Book EXCEPT !.mkt = m]) /\ ~[Book EXCEPT !.mkt = m].dec
         /\ InBook(Book) /\ ~Book.dec
<1>1. /\ disk.rows \in [Ids -> Row] /\ disk.act \in [Ids -> Actions] /\ disk.rec \in SUBSET Ids
      /\ disk.saved \in RiskState /\ disk.resets \in Nat
      /\ mem.open \in SUBSET Ids /\ mem.pend \in SUBSET Ids
  BY DiskFields
<1>2. mem.risk = disk.saved /\ -1 \in Outcomes /\ <<>> \in Seq(Ids)
  BY DEF Types, Outcomes
<1>3. Book \in Books
  BY <1>1, <1>2 DEF Books, Book
<1>4. /\ Book.rows = disk.rows /\ Book.act = disk.act /\ Book.rec = disk.rec /\ Book.saved = disk.saved
      /\ Book.resets = disk.resets /\ Book.open = mem.open /\ Book.pend = mem.pend /\ Book.risk = mem.risk
      /\ Book.ev = <<>> /\ ~Book.bad /\ ~Book.dec
  BY DEF Book
<1>5. InBook(Book)
  BY <1>2, <1>3, <1>4 DEF InBook, Whole
<1> DEFINE r == [Book EXCEPT !.mkt = m]
           x == [Book EXCEPT !.dec = TRUE, !.mkt = m]
<1>6. /\ r \in Books /\ Unmoved(Book, r) /\ r.rec = Book.rec /\ r.saved = Book.saved /\ r.resets = Book.resets
      /\ r.risk = Book.risk /\ r.dec = Book.dec
      /\ x \in Books /\ Unmoved(Book, x) /\ x.rec = Book.rec /\ x.saved = Book.saved /\ x.resets = Book.resets
      /\ x.risk = Book.risk /\ x.dec /\ x.mkt = m
  BY Zenon, <1>3, OtherMarket
<1>7. Decision(m) = x
  BY DEF Decision
<1> HIDE DEF r, x
<1>8. InBook(r) /\ InBook(x)
  BY <1>2, <1>4, <1>6 DEF InBook, Whole, Unmoved
<1>9. QED
  BY <1>4, <1>5, <1>6, <1>7, <1>8 DEF r

LEMMA Kept ==
  ASSUME NEW b, Whole(b)
  PROVE  /\ Durable(b) \in Disks /\ Volatile(b) \in Mems /\ Volatile(b).risk = Durable(b).saved
         /\ Durable(b).rows = b.rows /\ Durable(b).act = b.act /\ Durable(b).rec = b.rec
         /\ Durable(b).saved = b.saved /\ Durable(b).resets = b.resets
         /\ Volatile(b).open = b.open /\ Volatile(b).pend = b.pend /\ Volatile(b).risk = b.risk
<1>1. /\ b.rows \in [Ids -> Row] /\ b.act \in [Ids -> Actions] /\ b.rec \in SUBSET Ids
      /\ b.saved \in RiskState /\ b.resets \in Nat /\ b.open \in SUBSET Ids /\ b.pend \in SUBSET Ids
      /\ b.risk \in RiskState /\ b.saved = b.risk
  BY BookFields DEF Whole
<1>2. QED
  BY <1>1 DEF Durable, Volatile, Disks, Mems

LEMMA ContinueIs ==
  ASSUME NEW items \in Seq(Items), Turns(items), mem'.open \in SUBSET Ids, mem'.pend \in SUBSET Ids, now \in Nat,
         NEW opened \in SUBSET Ids, Continue(items, opened)
  PROVE  NextWork(items) /\ fresh' \in SUBSET Ids
<1> DEFINE rows == disk'.rows
           m == mem'
           r == Unfold(items, rows, m, opened)
<1>1. work' = r /\ fresh' = IF r = <<>> THEN {} ELSE opened
  BY DEF Continue
<1>2. m.open \in SUBSET Ids /\ m.pend \in SUBSET Ids
  OBVIOUS
<1> HIDE DEF m, rows
<1>3. /\ r \in Seq(Items) /\ Turns(r)
      /\ r = items \/ (AllLate(items) /\ AllLate(r))
      /\ items = <<>> => r = <<>>
  BY <1>2, UnfoldIs
<1> HIDE DEF r
<1>4. QED
  BY <1>1, <1>3 DEF NextWork

\* the items behind the head, and trades before them
LEMMA Behind ==
  ASSUME Types, work # <<>>
  PROVE  /\ Tail(work) \in Seq(Items) /\ Turns(Tail(work)) /\ Head(work) \in Items
         /\ \A k \in 1..Len(Tail(work)) : Follows(Head(work).op, Tail(work)[k].op)
BY TailIs, TurnsTail DEF Types

LEMMA TradesBehind ==
  ASSUME Types, work # <<>>, NEW b, b.ev \in Seq(Ids), NEW loud \in BOOLEAN,
         b.ev = <<>> \/ Head(work).op \in LateOps \cup {"trade", "fill"}
  PROVE  LET items == Trades(b, loud) \o Tail(work) IN items \in Seq(Items) /\ Turns(items)
<1> DEFINE t == Trades(b, loud)
           r == Tail(work)
<1>1. t \in Seq(Items) /\ Len(t) = Len(b.ev) /\ Len(t) \in Nat /\ \A k \in 1..Len(t) : t[k].op = "trade"
  BY TradesIs
<1>2. r \in Seq(Items) /\ Turns(r) /\ \A k \in 1..Len(r) : Follows(Head(work).op, r[k].op)
  BY Behind
<1> HIDE DEF t, r
<1>3. Turns(t)
  BY <1>1, SameTurns
<1>4. ASSUME NEW j \in 1..Len(t), NEW k \in 1..Len(r) PROVE Follows(t[j].op, r[k].op)
  <2>1. b.ev # <<>>
    BY <1>1
  <2>2. Head(work).op \in LateOps \cup {"trade", "fill"} /\ Follows(Head(work).op, r[k].op)
    BY <2>1, <1>2
  <2>3. r[k].op \in {"trade", "fill"} \/ r[k].op \in LateOps
    BY Zenon, <2>2 DEF Follows, LateOps
  <2>4. QED
    BY Zenon, <2>3, <1>1 DEF Follows
<1>5. t \o r \in Seq(Items)
  BY <1>1, <1>2, JoinIs
<1>6. QED
  BY <1>1, <1>2, <1>3, <1>4, <1>5, TurnsJoin DEF t, r

LEMMA CommitIs ==
  ASSUME Types, up, work # <<>>, NEW b, Whole(b), NEW loud \in BOOLEAN, NEW opened \in SUBSET Ids,
         b.ev = <<>> \/ Head(work).op \in LateOps \cup {"trade", "fill"}, Commit(b, loud, opened)
  PROVE  /\ disk' = Durable(b) /\ mem' = Volatile(b)
         /\ disk' \in Disks /\ mem' \in Mems /\ mem'.risk = disk'.saved
         /\ NextWork(Trades(b, loud) \o Tail(work)) /\ fresh' \in SUBSET Ids
<1>1. disk' = Durable(b) /\ mem' = Volatile(b) /\ Continue(Trades(b, loud) \o Tail(work), opened)
  BY DEF Commit
<1>2. disk' \in Disks /\ mem' \in Mems /\ mem'.risk = disk'.saved
  BY <1>1, Kept
<1>3. mem'.open \in SUBSET Ids /\ mem'.pend \in SUBSET Ids
  BY <1>2 DEF Mems
<1>4. b.ev \in Seq(Ids)
  BY BookFields DEF Whole
<1> DEFINE items == Trades(b, loud) \o Tail(work)
<1>5. items \in Seq(Items) /\ Turns(items)
  BY <1>4, TradesBehind
<1>6. Continue(items, opened) /\ now \in Nat
  BY <1>1 DEF Types
<1> HIDE DEF items
<1>7. NextWork(items) /\ fresh' \in SUBSET Ids
  BY <1>3, <1>5, <1>6, ContinueIs
<1>8. QED
  BY <1>1, <1>2, <1>7 DEF items

LEMMA SkipIs ==
  ASSUME Types, up, work # <<>>, Skip \/ Undone(TRUE)
  PROVE  /\ disk' = disk /\ mem' = mem /\ NextWork(Tail(work)) /\ fresh' \in SUBSET Ids
<1>1. disk' = disk /\ mem' = mem /\ Continue(Tail(work), fresh)
  BY DEF Skip, Undone
<1>2. mem'.open \in SUBSET Ids /\ mem'.pend \in SUBSET Ids /\ now \in Nat /\ fresh \in SUBSET Ids
  BY <1>1, DiskFields DEF Types
<1>3. QED
  BY <1>1, <1>2, Behind, ContinueIs

LEMMA StopIs ==
  ASSUME Types, up, UNCHANGED <<disk, mem>>, NEW opened \in SUBSET Ids, Continue(<<>>, opened)
  PROVE  /\ disk' = disk /\ mem' = mem /\ work' = <<>> /\ NextWork(<<>>) /\ fresh' \in SUBSET Ids
<1>1. mem'.open \in SUBSET Ids /\ mem'.pend \in SUBSET Ids /\ now \in Nat
  BY DiskFields DEF Types
<1>2. <<>> \in Seq(Items) /\ Turns(<<>>)
  BY DEF Turns
<1>3. NextWork(<<>>) /\ fresh' \in SUBSET Ids
  BY <1>1, <1>2, ContinueIs
<1>4. QED
  BY <1>3 DEF NextWork

\* the facts of the next state that depend on the action
LEMMA TypesNext ==
  ASSUME Types, up', disk' \in Disks, mem' \in Mems, mem'.risk = disk'.saved,
         NEW items, NextWork(items), fresh' \in SUBSET Ids,
         now' = now, source' = source, seen' = seen, used' \in Nat, torn' \in BOOLEAN,
         tape' \in [live : BOOLEAN, time : Nat]
  PROVE  Types'
BY DEF Types, NextWork

----------------------------------------------------------------------------
(* One lemma per action: its outcomes, and that the types are kept.         *)

\* an action of the running handler, which keeps what is no part of it
LEMMA RunKeeps ==
  ASSUME Types, up, up' = up, disk' \in Disks, mem' \in Mems, mem'.risk = disk'.saved,
         NEW items, NextWork(items), fresh' \in SUBSET Ids, UNCHANGED <<now, source, tape, seen>>,
         used' \in Nat, torn' \in BOOLEAN
  PROVE  Types'
<1>1. up' /\ now' = now /\ source' = source /\ seen' = seen /\ tape' \in [live : BOOLEAN, time : Nat]
  BY DEF Types
<1>2. QED
  BY <1>1, TypesNext

LEMMA HeadIs ==
  ASSUME Types, NEW op, Running(op)
  PROVE  /\ up /\ work # <<>> /\ Head(work).op = op /\ Head(work) \in Items /\ Head(work) = work[1] /\ 1 \in 1..Len(work)
         /\ op \in EntryOps => Entry \in Ids
         /\ Time \in Nat /\ Via \in Vias /\ Head(work).loud \in BOOLEAN
<1>1. up /\ work # <<>> /\ Head(work).op = op /\ work \in Seq(Items)
  BY DEF Running, Types
<1>2. Head(work) \in Items /\ Head(work) = work[1] /\ 1 \in 1..Len(work)
  BY <1>1, TailIs
<1>3. QED
  BY <1>1, <1>2, ItemFields DEF Entry, Time, Via

LEMMA UsedMore ==
  ASSUME Types, NEW site, Fault(site) \/ Works
  PROVE  used' \in Nat
BY DEF Types, Fault, Works

LEMMA StillTyped ==
  ASSUME Types, up, disk' = disk, mem' = mem
  PROVE  disk' \in Disks /\ mem' \in Mems /\ mem'.risk = disk'.saved
BY DEF Types

LEMMA DecideIs ==
  ASSUME Types, Decide
  PROVE  /\ Types' /\ Begins /\ torn' = torn
         /\ \/ disk' = disk /\ mem' = mem /\ work' = <<>> /\ seen' = seen
            \/ /\ seen + 1 \in Ids /\ seen' = seen + 1
               /\ \E c \in Cells, side \in Sides, says \in Verdicts, bank \in BOOLEAN, m \in Outcomes : \E r :
                    /\ r = ExecuteEntry(Decision(m), seen + 1, c, side, says, bank)
                    /\ Whole(r) /\ disk' = Durable(r) /\ mem' = Volatile(r) /\ work' = Trades(r, FALSE)
<1>1. up /\ work = <<>> /\ up' = up /\ now' = now /\ source' = source /\ tape' = tape /\ fresh' = fresh /\ torn' = torn
  BY DEF Decide, Idle
<1>2. seen + 1 \in Ids /\ seen \in 0..MaxSignals
  BY SMTT(30), Constants DEF Decide, Types, Ids
<1>3. PICK c \in Cells, side \in Sides, says \in Verdicts, bank \in BOOLEAN, m \in Outcomes :
        \/ /\ disk' = Durable(ExecuteEntry(Decision(m), seen + 1, c, side, says, bank))
           /\ mem' = Volatile(ExecuteEntry(Decision(m), seen + 1, c, side, says, bank))
           /\ work' = Trades(ExecuteEntry(Decision(m), seen + 1, c, side, says, bank), FALSE)
           /\ seen' = seen + 1 /\ Works
        \/ Fault("fill") /\ UNCHANGED <<disk, mem, work, seen>>
  BY ZenonT(60) DEF Decide
<1> DEFINE r == ExecuteEntry(Decision(m), seen + 1, c, side, says, bank)
<1>4. used' \in Nat
  BY <1>3, UsedMore
<1>5. CASE UNCHANGED <<disk, mem, work, seen>>
  <2>1. Types'
    BY <1>1, <1>4, <1>5 DEF Types
  <2>2. QED
    BY <1>1, <1>5, <2>1 DEF Begins
<1>6. CASE /\ disk' = Durable(r) /\ mem' = Volatile(r) /\ work' = Trades(r, FALSE) /\ seen' = seen + 1
  <2>1. Whole(Decision(m)) /\ Decision(m).dec /\ now \in Nat
    BY <1>1, BookIs DEF InBook, Types
  <2>2. Whole(r)
    BY <2>1, <1>2, ExecuteWhole
  <2> HIDE DEF r
  <2>3. r.ev \in Seq(Ids)
    BY <2>2, BookFields DEF Whole
  <2>4. work' \in Seq(Items) /\ Turns(work')
    <3> DEFINE w == Trades(r, FALSE)
    <3>1. w \in Seq(Items) /\ \A k \in 1..Len(w) : w[k].op = "trade"
      BY <2>3, TradesIs
    <3> HIDE DEF w
    <3>2. Turns(w)
      BY <3>1, SameTurns
    <3>3. QED
      BY <1>6, <3>1, <3>2 DEF w
  <2>5. disk' \in Disks /\ mem' \in Mems /\ mem'.risk = disk'.saved
    BY <2>2, <1>6, Kept
  <2>6. seen' \in 0..MaxSignals
    BY <1>2, <1>6, Constants DEF Ids
  <2>7. Types'
    BY <1>1, <1>4, <2>4, <2>5, <2>6 DEF Types
  <2>8. r = ExecuteEntry(Decision(m), seen + 1, c, side, says, bank)
    BY DEF r
  <2>9. QED
    BY <1>1, <1>2, <1>6, <2>2, <2>7, <2>8 DEF Begins
<1>7. QED
  BY <1>3, <1>5, <1>6

LEMMA FillEntryIs ==
  ASSUME Types, FillEntry
  PROVE  /\ Types' /\ Runs /\ torn' = torn /\ Running("fill") /\ Entry \in Ids
         /\ \/ Left(Tail(work))
            \/ \E touched \in BOOLEAN, says \in Verdicts, stopped \in BOOLEAN, m \in Outcomes : \E r :
                 /\ Reaches(disk.rows[Entry], Via, Time, touched)
                 /\ r = Filled(Decision(m), Entry, says, stopped)
                 /\ Committed(r, FALSE)
<1>1. Running("fill") /\ up' = up /\ UNCHANGED <<now, source, tape, seen>> /\ torn' = torn
  BY DEF FillEntry
<1>2. up /\ work # <<>> /\ Head(work).op = "fill" /\ Entry \in Ids /\ torn' \in BOOLEAN
  BY <1>1, HeadIs DEF EntryOps, Types
<1>3. PICK touched \in BOOLEAN, says \in Verdicts, stopped \in BOOLEAN, m \in Outcomes :
        LET b == Filled(Decision(m), Entry, says, stopped)
        IN IF ~Reaches(disk.rows[Entry], Via, Time, touched)
           THEN Skip /\ Works
           ELSE \/ Commit(b, FALSE, fresh \cup (b.open \ mem.open)) /\ Works
                \/ Undone(TRUE) /\ Fault("fill")
  BY DEF FillEntry
<1> DEFINE r == Filled(Decision(m), Entry, says, stopped)
           opened == fresh \cup (r.open \ mem.open)
<1>4. used' \in Nat
  BY <1>3, UsedMore
<1>5. CASE Skip \/ Undone(TRUE)
  <2>1. disk' = disk /\ mem' = mem /\ NextWork(Tail(work)) /\ fresh' \in SUBSET Ids
    BY <1>2, <1>5, SkipIs
  <2>2. Types'
    BY <1>1, <1>2, <1>4, <2>1, StillTyped, RunKeeps
  <2>3. QED
    BY <1>1, <1>2, <2>1, <2>2 DEF Runs, Left
<1>6. CASE Reaches(disk.rows[Entry], Via, Time, touched) /\ Commit(r, FALSE, opened)
  <2>1. Whole(Decision(m)) /\ Decision(m).dec /\ now \in Nat
    BY <1>2, BookIs DEF InBook, Types
  <2>2. Whole(r)
    BY <2>1, <1>2, FilledWhole
  <2> HIDE DEF r
  <2>3. r.open \in SUBSET Ids /\ fresh \in SUBSET Ids
    BY <2>2, BookFields DEF Whole, Types
  <2>4. opened \in SUBSET Ids
    BY <2>3
  <2> HIDE DEF opened
  <2>5. /\ disk' = Durable(r) /\ mem' = Volatile(r) /\ disk' \in Disks /\ mem' \in Mems /\ mem'.risk = disk'.saved
        /\ NextWork(Trades(r, FALSE) \o Tail(work)) /\ fresh' \in SUBSET Ids
    BY <1>2, <1>6, <2>2, <2>4, CommitIs
  <2>6. Types'
    BY <1>1, <1>2, <1>4, <2>5, RunKeeps
  <2>7. Committed(r, FALSE)
    BY <2>2, <2>5 DEF Committed
  <2>8. r = Filled(Decision(m), Entry, says, stopped)
    BY DEF r
  <2>9. QED
    BY <1>1, <1>2, <1>6, <2>6, <2>7, <2>8 DEF Runs
<1>7. QED
  BY <1>3, <1>5, <1>6

LEMMA StartsIs ==
  ASSUME Types, up, work = <<>>, disk' = disk, mem' = mem, NEW items \in Seq(Items), Turns(items), Starts(items),
         UNCHANGED <<up, now, source, seen, used, torn>>, tape' \in [live : BOOLEAN, time : Nat]
  PROVE  Types' /\ Begins /\ seen' = seen /\ Left(items)
<1>1. Continue(items, {})
  BY DEF Starts
<1>2. mem'.open \in SUBSET Ids /\ mem'.pend \in SUBSET Ids /\ now \in Nat
  BY DiskFields
<1>3. NextWork(items) /\ fresh' \in SUBSET Ids
  BY <1>1, <1>2, ContinueIs
<1>4. disk' \in Disks /\ mem' \in Mems /\ mem'.risk = disk'.saved
  BY StillTyped
<1>5. Types'
  BY <1>3, <1>4 DEF Types, NextWork
<1>6. QED
  BY <1>3, <1>5 DEF Begins, Left

LEMMA LateItem ==
  ASSUME NEW op \in LateOps \ EntryOps, NEW via \in Vias, NEW time \in Nat
  PROVE  Item(op, 0, via, time, TRUE) \in Items /\ Item(op, 0, via, time, TRUE).op = op
<1>1. op \in Ops /\ op \notin EntryOps /\ 0 \in 0..MaxSignals
  BY Constants DEF Ops
<1>2. ASSUME NEW loud \in BOOLEAN
      PROVE  Item(op, 0, via, time, loud) \in Items /\ Item(op, 0, via, time, loud).op = op
  BY <1>1, ItemIs
<1>3. QED
  BY <1>2

LEMMA OneLate ==
  ASSUME NEW op \in LateOps \ EntryOps, NEW via \in Vias, NEW time \in Nat
  PROVE  LET w == <<Item(op, 0, via, time, TRUE)>> IN w \in Seq(Items) /\ Turns(w) /\ AllLate(w)
<1> DEFINE x == Item(op, 0, via, time, TRUE)
<1>1. op \in Ops /\ op \notin EntryOps
  BY DEF Ops
<1>2. x \in Items /\ x.op = op
  BY LateItem
<1> HIDE DEF x
<1>3. <<x>> \in Seq(Items) /\ AllLate(<<x>>)
  BY <1>2 DEF AllLate
<1>4. QED
  BY <1>3, LateTurns DEF x

LEMMA TwoLate ==
  ASSUME NEW op \in LateOps \ EntryOps, NEW via \in Vias, NEW time \in Nat,
         NEW op2 \in LateOps \ EntryOps, NEW via2 \in Vias, NEW time2 \in Nat
  PROVE  LET w == <<Item(op, 0, via, time, TRUE), Item(op2, 0, via2, time2, TRUE)>>
         IN  w \in Seq(Items) /\ Turns(w) /\ AllLate(w)
<1> DEFINE x == Item(op, 0, via, time, TRUE)
           y == Item(op2, 0, via2, time2, TRUE)
<1>1. op \in Ops /\ op \notin EntryOps /\ op2 \in Ops /\ op2 \notin EntryOps /\ 0 \in 0..MaxSignals
  BY Constants DEF Ops
<1>2. x \in Items /\ x.op = op
  BY LateItem
<1>3. y \in Items /\ y.op = op2
  BY LateItem
<1> HIDE DEF x, y
<1>4. <<x, y>> \in Seq(Items) /\ AllLate(<<x, y>>)
  BY <1>2, <1>3 DEF AllLate
<1>5. QED
  BY <1>4, LateTurns DEF x, y

LEMMA OffersIs ==
  ASSUME Types, NEW late \in Seq(Items), AllLate(late), NEW via \in Vias, NEW time \in Nat
  PROVE  LET items == Each("fill", mem.pend, via, time) \o late
         IN  items \in Seq(Items) /\ Turns(items) /\ Offers(items, via, time)
<1> DEFINE e == Each("fill", mem.pend, via, time)
           z == e \o late
<1>1. "fill" \in EntryOps /\ mem.pend \in SUBSET Ids
  BY DiskFields DEF EntryOps
<1>2. /\ e \in Seq(Items) /\ Len(e) \in Nat
      /\ \A k \in 1..Len(e) : e[k].op = "fill" /\ e[k].id \in mem.pend /\ e[k].via = via /\ e[k].time = time
      /\ \A j, k \in 1..Len(e) : j < k => e[j].id # e[k].id
  <2>1. ASSUME NEW p \in EntryOps PROVE Serves(Each(p, mem.pend, via, time), p, mem.pend, via, time)
    BY <1>1, EachIs
  <2>2. Serves(e, "fill", mem.pend, via, time)
    BY <1>1, <2>1
  <2> HIDE DEF e
  <2>3. QED
    BY <2>2 DEF Serves
<1> HIDE DEF e
<1>3. Turns(e) /\ Turns(late) /\ \A j \in 1..Len(e), k \in 1..Len(late) : Follows(e[j].op, late[k].op)
  BY Zenon, <1>2, SameTurns, LateTurns DEF AllLate, Follows
<1>4. Turns(z)
  BY <1>2, <1>3, TurnsJoin
<1>5. /\ z \in Seq(Items) /\ Len(late) \in Nat /\ Len(z) = Len(e) + Len(late)
      /\ \A k \in 1..Len(z) : \/ k \in 1..Len(e) /\ z[k] = e[k]
                              \/ k - Len(e) \in 1..Len(late) /\ z[k] = late[k - Len(e)]
  BY <1>2, JoinIs
<1> HIDE DEF z
<1>6. \A k \in 1..Len(z) : \/ k \in 1..Len(e) /\ z[k] = e[k]
                           \/ z[k].op \in LateOps /\ z[k].op # "fill"
  BY Zenon, <1>5 DEF AllLate, LateOps
<1>7. Offers(z, via, time)
  <2>1. ASSUME NEW k \in 1..Len(z)
        PROVE  \/ z[k].op \in LateOps
               \/ z[k].op = "fill" /\ z[k].id \in mem.pend /\ z[k].via = via /\ z[k].time = time
    BY <1>2, <1>6
  <2>2. ASSUME NEW j \in 1..Len(z), NEW k \in 1..Len(z), j < k, z[j].op = "fill", z[k].op = "fill"
        PROVE  z[j].id # z[k].id
    <3>1. j \in 1..Len(e) /\ z[j] = e[j] /\ k \in 1..Len(e) /\ z[k] = e[k]
      BY <1>6, <2>2
    <3>2. QED
      BY <1>2, <2>2, <3>1
  <2>3. QED
    BY <2>1, <2>2 DEF Offers
<1>8. QED
  BY <1>4, <1>5, <1>7 DEF e, z

LEMMA TapePrintIs ==
  ASSUME Types, TapePrint
  PROVE  /\ Types' /\ Begins /\ seen' = seen /\ torn' = torn
         /\ \E items : \E time \in 0..now : Left(items) /\ Offers(items, "print", time)
<1>1. up /\ work = <<>> /\ disk' = disk /\ mem' = mem /\ UNCHANGED <<up, now, source, seen, used, torn>> /\ now \in Nat
  BY DEF TapePrint, Idle, Types
<1>2. PICK time \in 0..now :
        /\ tape' = [live |-> TRUE, time |-> time]
        /\ Starts(IF source = "tape"
                  THEN Each("fill", mem.pend, "print", time) \o <<Item("exits", 0, "print", time, TRUE)>>
                  ELSE <<>>)
  BY DEF TapePrint
<1> DEFINE late == <<Item("exits", 0, "print", time, TRUE)>>
           full == Each("fill", mem.pend, "print", time) \o late
           items == IF source = "tape" THEN full ELSE <<>>
<1>3. tape' \in [live : BOOLEAN, time : Nat] /\ time \in Nat
  BY <1>1, <1>2
<1>4. late \in Seq(Items) /\ AllLate(late)
  BY Zenon, <1>3, OneLate DEF LateOps, EntryOps, Vias
<1> HIDE DEF late
<1>5. full \in Seq(Items) /\ Turns(full) /\ Offers(full, "print", time)
  BY Zenon, <1>3, <1>4, OffersIs DEF Vias
<1> HIDE DEF full
<1>6. items \in Seq(Items) /\ Turns(items) /\ Offers(items, "print", time)
  <2>1. <<>> \in Seq(Items) /\ Turns(<<>>) /\ Offers(<<>>, "print", time)
    BY DEF Turns, Offers
  <2>2. QED
    BY <1>5, <2>1
<1>7. Starts(items)
  BY <1>2 DEF full, late
<1> HIDE DEF items
<1>8. Types' /\ Begins /\ seen' = seen /\ Left(items)
  BY <1>1, <1>3, <1>6, <1>7, StartsIs
<1>9. QED
  BY <1>1, <1>6, <1>8

LEMMA CandleIs ==
  ASSUME Types, Candle
  PROVE  /\ Types' /\ Begins /\ seen' = seen /\ torn' = torn
         /\ \E items : \E time \in 0..now : Left(items) /\ Offers(items, "bar", time)
<1>1. up /\ work = <<>> /\ disk' = disk /\ mem' = mem /\ UNCHANGED <<up, now, source, tape, seen, used, torn>>
      /\ now \in Nat /\ tape' \in [live : BOOLEAN, time : Nat]
  BY Zenon DEF Candle, Idle, Types
<1>2. PICK time \in 0..now, old \in BOOLEAN :
        Starts((IF old THEN <<>> ELSE Each("fill", mem.pend, "bar", time))
               \o <<Item("house", 0, "none", now, TRUE),
                    Item("exits", 0, IF old THEN "old bar" ELSE "bar", time, TRUE)>>)
  <2>1. PICK time \in 0..now, resync \in BOOLEAN :
          LET old == resync \/ now > time + 2
          IN  Starts((IF old THEN <<>> ELSE Each("fill", mem.pend, "bar", time))
                     \o <<Item("house", 0, "none", now, TRUE),
                          Item("exits", 0, IF old THEN "old bar" ELSE "bar", time, TRUE)>>)
    BY Zenon DEF Candle
  <2>2. (resync \/ now > time + 2) \in BOOLEAN
    OBVIOUS
  <2>3. QED
    BY Zenon, <2>1, <2>2
<1> DEFINE via == IF old THEN "old bar" ELSE "bar"
           late == <<Item("house", 0, "none", now, TRUE), Item("exits", 0, via, time, TRUE)>>
           items == (IF old THEN <<>> ELSE Each("fill", mem.pend, "bar", time)) \o late
<1>3. time \in Nat /\ via \in Vias
  BY <1>1 DEF Vias
<1> HIDE DEF via
<1>4. late \in Seq(Items) /\ AllLate(late) /\ Turns(late)
  BY ZenonT(60), <1>1, <1>3, TwoLate DEF LateOps, EntryOps, Vias
<1>5. Starts(items)
  BY Zenon, <1>2 DEF via
<1> HIDE DEF late
<1>6. items \in Seq(Items) /\ Turns(items) /\ Offers(items, "bar", time)
  <2>1. CASE old
    <3>1. items = late
      BY <1>4, <2>1
    <3>2. Offers(late, "bar", time)
      BY Zenon, <1>4 DEF AllLate, Offers, LateOps
    <3> HIDE DEF items
    <3>3. QED
      BY <1>4, <3>1, <3>2
  <2>2. CASE ~old
    <3>1. items = Each("fill", mem.pend, "bar", time) \o late
      BY <2>2
    <3> HIDE DEF items
    <3>2. QED
      BY Zenon, <1>3, <1>4, <3>1, OffersIs DEF Vias
  <2>3. QED
    BY <2>1, <2>2
<1> HIDE DEF items
<1>7. Types' /\ Begins /\ seen' = seen /\ Left(items)
  BY <1>1, <1>5, <1>6, StartsIs
<1>8. QED
  BY <1>1, <1>6, <1>7

LEMMA TimerIs ==
  ASSUME Types, Timer
  PROVE  /\ Types' /\ Begins /\ seen' = seen /\ torn' = torn
         /\ \E items : Left(items) /\ AllLate(items)
<1>1. up /\ work = <<>> /\ disk' = disk /\ mem' = mem /\ UNCHANGED <<up, now, source, tape, seen, used, torn>>
      /\ now \in Nat /\ tape' \in [live : BOOLEAN, time : Nat]
  BY DEF Timer, Idle, Types
<1> DEFINE items == <<Item("house", 0, "none", now, TRUE), Item("tick", 0, "none", 0, TRUE)>>
<1>2. items \in Seq(Items) /\ AllLate(items) /\ Turns(items)
  BY Zenon, <1>1, TwoLate DEF LateOps, EntryOps, Vias
<1>3. Starts(items)
  BY DEF Timer
<1> HIDE DEF items
<1>4. Types' /\ Begins /\ seen' = seen /\ Left(items)
  BY <1>1, <1>2, <1>3, StartsIs
<1>5. QED
  BY <1>1, <1>2, <1>4

LEMMA OwnExitIs ==
  ASSUME Types, OwnExit
  PROVE  /\ Types' /\ Begins /\ seen' = seen /\ torn' = torn
         /\ \E items : Left(items) /\ AllLate(items)
<1>1. up /\ work = <<>> /\ disk' = disk /\ mem' = mem /\ UNCHANGED <<up, now, source, tape, seen, used, torn>>
      /\ now \in Nat /\ tape' \in [live : BOOLEAN, time : Nat]
  BY DEF OwnExit, Idle, Types
<1>2. PICK i \in mem.open : Starts(<<Item("exit", i, "market", now, TRUE)>>)
  BY DEF OwnExit
<1> DEFINE x == Item("exit", i, "market", now, TRUE)
<1>3. i \in Ids
  BY DiskFields
<1>5. "exit" \in Ops /\ "exit" \in LateOps /\ "market" \in Vias
  BY DEF Ops, LateOps, Vias
<1>6. x \in Items /\ x.op = "exit"
  <2>1. now \in Nat
    BY <1>1
  <2>2. QED
    BY <1>3, <1>5, <2>1, Constants DEF Item, Items, Ids
<1>7. Starts(<<x>>)
  BY <1>2
<1> HIDE DEF x
<1>8. <<x>> \in Seq(Items) /\ AllLate(<<x>>)
  BY <1>5, <1>6 DEF AllLate
<1>9. Turns(<<x>>)
  BY <1>8, LateTurns
<1>10. Types' /\ Begins /\ seen' = seen /\ Left(<<x>>)
  BY <1>1, <1>7, <1>8, <1>9, StartsIs
<1>11. QED
  BY <1>1, <1>8, <1>10

LEMMA CheckEntryIs ==
  ASSUME Types, CheckEntry
  PROVE  /\ Types' /\ Runs /\ torn' = torn /\ Running("check") /\ Entry \in Ids
         /\ \/ Left(Tail(work))
            \/ Left(<<>>)
            \/ Entry \in mem.pend /\ Committed(CancelEntry(Decision(-1), Entry), FALSE)
            \/ /\ disk' = disk /\ mem' = mem /\ Entry \in mem.pend
               /\ disk.rows[Entry].kind = "wait" /\ now >= disk.rows[Entry].till
               /\ work' = <<Item("fill", Entry, "mark", now, TRUE)>> \o Tail(work)
<1>1. Running("check") /\ up' = up /\ UNCHANGED <<now, source, tape, seen>> /\ torn' = torn
  BY DEF CheckEntry
<1>2. up /\ work # <<>> /\ Head(work).op = "check" /\ Entry \in Ids /\ torn' \in BOOLEAN
  BY <1>1, HeadIs DEF EntryOps, Types
<1> DEFINE r == CancelEntry(Decision(-1), Entry)
           x == Item("fill", Entry, "mark", now, TRUE)
           quiet == source # "tape" /\ disk.rows[Entry].kind = "wait" /\ now >= disk.rows[Entry].till + QuietFill
<1>3. \/ Skip /\ Works
      \/ Entry \in mem.pend /\ Commit(r, FALSE, fresh) /\ Works
      \/ Undone(FALSE) /\ Fault("fill")
      \/ /\ Entry \in mem.pend /\ quiet
         /\ work' = <<x>> \o Tail(work)
         /\ UNCHANGED <<disk, mem, fresh>> /\ Works
  <2> DEFINE lapsed == IF disk.rows[Entry].kind = "rest" THEN now > disk.rows[Entry].till
                       ELSE now > disk.rows[Entry].till + PendingExpiry
             in == Entry \in mem.pend
             a1 == Skip /\ Works
             a2 == \/ Commit(r, FALSE, fresh) /\ Works
                   \/ Undone(FALSE) /\ Fault("fill")
             a3 == /\ work' = <<x>> \o Tail(work)
                   /\ UNCHANGED <<disk, mem, fresh>> /\ Works
  <2>1. PICK blocked \in BOOLEAN :
          CASE ~in -> a1
            [] in /\ (blocked \/ lapsed) -> a2
            [] in /\ ~blocked /\ ~lapsed /\ quiet -> a3
            [] OTHER -> a1
    BY DEF CheckEntry
  <2>2. a1 \/ (in /\ a2) \/ (in /\ quiet /\ a3)
    <3> HIDE DEF a1, a2, a3, in, quiet, lapsed
    <3>1. CASE ~in
      BY <2>1, <3>1
    <3>2. CASE in /\ (blocked \/ lapsed)
      BY <2>1, <3>2
    <3>3. CASE in /\ ~blocked /\ ~lapsed /\ quiet
      BY <2>1, <3>3
    <3>4. CASE in /\ ~blocked /\ ~lapsed /\ ~quiet
      BY <2>1, <3>4
    <3>5. QED
      BY <3>1, <3>2, <3>3, <3>4
  <2>3. QED
    BY <2>2
<1>4. used' \in Nat
  BY <1>3, UsedMore
<1>5. CASE Skip
  <2>1. disk' = disk /\ mem' = mem /\ NextWork(Tail(work)) /\ fresh' \in SUBSET Ids
    BY <1>2, <1>5, SkipIs
  <2>2. Types'
    BY <1>1, <1>2, <1>4, <2>1, StillTyped, RunKeeps
  <2>3. QED
    BY <1>1, <1>2, <2>1, <2>2 DEF Runs, Left
<1>6. CASE Entry \in mem.pend /\ Commit(r, FALSE, fresh)
  <2>1. Whole(Decision(-1)) /\ Decision(-1).ev = <<>> /\ fresh \in SUBSET Ids
    BY <1>2, BookIs DEF InBook, Types, Outcomes
  <2>2. Whole(r) /\ r.ev = <<>>
    BY <1>2, <2>1, CancelLocal, StaysWhole DEF Whole
  <2> HIDE DEF r
  <2>3. /\ disk' = Durable(r) /\ mem' = Volatile(r) /\ disk' \in Disks /\ mem' \in Mems /\ mem'.risk = disk'.saved
        /\ NextWork(Trades(r, FALSE) \o Tail(work)) /\ fresh' \in SUBSET Ids
    BY <1>2, <1>6, <2>1, <2>2, CommitIs
  <2>4. Types'
    BY <1>1, <1>2, <1>4, <2>3, RunKeeps
  <2>5. QED
    BY <1>1, <1>2, <1>6, <2>2, <2>3, <2>4 DEF Runs, Committed, r
<1>7. CASE Undone(FALSE)
  <2>1. UNCHANGED <<disk, mem>> /\ Continue(<<>>, fresh) /\ fresh \in SUBSET Ids
    BY <1>7 DEF Undone, Types
  <2>2. disk' = disk /\ mem' = mem /\ NextWork(<<>>) /\ fresh' \in SUBSET Ids
    BY <1>2, <2>1, StopIs
  <2>3. Types'
    BY <1>1, <1>2, <1>4, <2>2, StillTyped, RunKeeps
  <2>4. QED
    BY <1>1, <1>2, <2>2, <2>3 DEF Runs, Left
<1>8. CASE Entry \in mem.pend /\ quiet /\ work' = <<x>> \o Tail(work) /\ UNCHANGED <<disk, mem, fresh>>
  <2>1. now \in Nat
    BY DEF Types
  <2>2. x \in Items /\ x.op = "fill"
    BY <1>2, <2>1, Constants DEF Item, Items, Ids, Ops, LateOps, EntryOps, BootOps, Vias
  <2> HIDE DEF x
  <2>3. /\ Tail(work) \in Seq(Items) /\ Turns(Tail(work))
        /\ \A k \in 1..Len(Tail(work)) : Follows("check", Tail(work)[k].op)
    BY <1>2, Behind
  <2>4. <<x>> \in Seq(Items) /\ Turns(<<x>>) /\ Len(<<x>>) = 1 /\ <<x>>[1] = x
    BY <2>2 DEF Turns
  <2>5. \A j \in 1..Len(<<x>>), k \in 1..Len(Tail(work)) : Follows(<<x>>[j].op, Tail(work)[k].op)
    <3>1. ASSUME NEW k \in 1..Len(Tail(work)) PROVE Follows("fill", Tail(work)[k].op)
      BY Zenon, <2>3 DEF Follows, LateOps
    <3>2. \A j \in 1..Len(<<x>>) : <<x>>[j].op = "fill"
      BY <2>2, <2>4
    <3>3. QED
      BY <3>1, <3>2
  <2>6. work' \in Seq(Items) /\ Turns(work')
    BY <1>8, <2>3, <2>4, <2>5, JoinIs, TurnsJoin
  <2>7. NextWork(work') /\ fresh' \in SUBSET Ids
    BY <1>8, <2>6 DEF NextWork, Types
  <2>8. Types'
    BY <1>1, <1>2, <1>4, <1>8, <2>7, StillTyped, RunKeeps
  <2>9. disk.rows[Entry].till \in Nat
    BY <1>2, DiskFields, RowFields
  <2>10. now >= disk.rows[Entry].till
    BY <1>8, <2>1, <2>9, Constants
  <2>11. QED
    BY <1>1, <1>2, <1>8, <2>8, <2>10 DEF Runs, x
<1>9. QED
  BY <1>3, <1>5, <1>6, <1>7, <1>8

LEMMA ExitPositionIs ==
  ASSUME Types, ExitPosition
  PROVE  /\ Types' /\ Runs /\ torn' = torn /\ (Running("exit") \/ Running("close"))
         /\ \/ Left(Tail(work))
            \/ Entry \in mem.open /\ Entry \in Ids /\ \E pnl \in Outcomes : Committed(CloseAt(Book, Entry, pnl, now), TRUE)
<1>1. (Running("exit") \/ Running("close")) /\ up' = up /\ UNCHANGED <<now, source, tape, seen>> /\ torn' = torn
  BY DEF ExitPosition
<1>2. up /\ work # <<>> /\ Head(work).op \in {"exit", "close"} /\ Entry \in Ids /\ torn' \in BOOLEAN
  BY <1>1, HeadIs DEF EntryOps, Types
<1>3. \/ Skip /\ (Works \/ Fault("fill"))
      \/ Entry \in mem.open /\ \E pnl \in Outcomes : Commit(CloseAt(Book, Entry, pnl, now), TRUE, fresh) /\ Works
  BY DEF ExitPosition
<1>4. used' \in Nat
  BY <1>3, UsedMore
<1>5. CASE Skip
  <2>1. disk' = disk /\ mem' = mem /\ NextWork(Tail(work)) /\ fresh' \in SUBSET Ids
    BY <1>2, <1>5, SkipIs
  <2>2. Types'
    BY <1>1, <1>2, <1>4, <2>1, StillTyped, RunKeeps
  <2>3. QED
    BY <1>1, <1>2, <2>1, <2>2 DEF Runs, Left
<1>6. ASSUME Entry \in mem.open, NEW pnl \in Outcomes, Commit(CloseAt(Book, Entry, pnl, now), TRUE, fresh)
      PROVE  Types' /\ Runs /\ Committed(CloseAt(Book, Entry, pnl, now), TRUE)
  <2> DEFINE r == CloseAt(Book, Entry, pnl, now)
  <2>1. Whole(Book) /\ fresh \in SUBSET Ids /\ now \in Nat
    BY <1>2, BookIs DEF InBook, Types, Outcomes
  <2>2. Whole(r)
    BY <1>2, <2>1, OpWhole
  <2>3. Head(work).op \in LateOps
    BY Zenon, <1>2 DEF LateOps
  <2>4. Commit(r, TRUE, fresh)
    BY <1>6
  <2> HIDE DEF r
  <2>5. /\ disk' = Durable(r) /\ mem' = Volatile(r) /\ disk' \in Disks /\ mem' \in Mems /\ mem'.risk = disk'.saved
        /\ NextWork(Trades(r, TRUE) \o Tail(work)) /\ fresh' \in SUBSET Ids
    BY <1>2, <2>1, <2>2, <2>3, <2>4, CommitIs
  <2>6. Types'
    BY <1>1, <1>2, <1>4, <2>5, RunKeeps
  <2>7. QED
    BY <1>1, <1>2, <2>2, <2>5, <2>6 DEF Runs, Committed, r
<1>7. QED
  BY <1>1, <1>2, <1>3, <1>5, <1>6

LEMMA CountWhole ==
  ASSUME NEW b, Whole(b), NEW i \in Ids, now \in Nat
  PROVE  LET r == OnTradeClosed(b, i, now) IN r \in Books /\ r.saved = r.risk /\ r.resets = b.resets
<1> DEFINE r == OnTradeClosed(b, i, now)
<1>1. b \in Books /\ b.saved = b.risk
  BY DEF Whole
<1>2. /\ r \in Books /\ Moves(b, r, now)
      /\ IF i \in b.rec \/ b.bad THEN r = b
         ELSE /\ r.rec = b.rec \cup {i} /\ Judged(b, r, now)
              /\ IF b.risk.seen # b.resets THEN r.risk.base = r.rec ELSE CountedIn(b, i, r)
  BY <1>1, CountIs
<1> HIDE DEF r
<1>3. QED
  BY <1>1, <1>2 DEF Judged, Moves, Alike, r

LEMMA TickWhole ==
  ASSUME NEW b, Whole(b), now \in Nat
  PROVE  LET r == Tick(b, now) IN r \in Books /\ r.saved = r.risk /\ r.resets = b.resets
<1> DEFINE r == Tick(b, now)
<1>1. b \in Books
  BY DEF Whole
<1>2. r \in Books /\ Moves(b, r, now) /\ Judged(b, r, now)
  BY <1>1, TickIs
<1> HIDE DEF r
<1>3. QED
  BY <1>2 DEF Judged, Moves, Alike, r

LEMMA RiskWhole ==
  ASSUME Types, NEW r, RiskResult(r)
  PROVE  r \in Books /\ r.saved = r.risk /\ r.resets = disk.resets
<1>1. PICK m \in Outcomes :
        \/ Running("trade") /\ r = OnTradeClosed([Book EXCEPT !.mkt = m], Entry, now)
        \/ Running("tick") /\ r = Tick([Book EXCEPT !.mkt = m], now)
  BY DEF RiskResult
<1> DEFINE b == [Book EXCEPT !.mkt = m]
<1>2. up /\ (Running("trade") => Entry \in Ids) /\ now \in Nat
  BY <1>1, HeadIs DEF EntryOps, Types
<1>3. Whole(b) /\ b.resets = disk.resets
  BY <1>2, BookIs DEF InBook
<1>4. \/ Entry \in Ids /\ r = OnTradeClosed(b, Entry, now)
      \/ r = Tick(b, now)
  BY <1>1, <1>2
<1> HIDE DEF b
<1>5. QED
  BY <1>2, <1>3, <1>4, CountWhole, TickWhole

LEMMA RiskStepIs ==
  ASSUME Types, RiskStep
  PROVE  /\ Types' /\ Runs /\ (Running("trade") \/ Running("tick"))
         /\ Running("trade") => Entry \in Ids
         /\ \/ torn' /\ (Left(Tail(work)) \/ Left(<<>>))
            \/ torn' = torn /\ \E r : RiskResult(r) /\ Committed(r, FALSE)
<1>1. (Running("trade") \/ Running("tick")) /\ up' = up /\ UNCHANGED <<now, source, tape, seen>>
  BY DEF RiskStep
<1>2. /\ up /\ work # <<>> /\ Head(work).op \in {"trade", "tick"} /\ (Running("trade") => Entry \in Ids)
      /\ fresh \in SUBSET Ids /\ torn \in BOOLEAN
  BY <1>1, HeadIs DEF EntryOps, Types
<1>3. PICK r : RiskResult(r) /\ RiskCommits(r)
  BY DEF RiskStep, RiskResult
<1>4. r \in Books /\ r.saved = r.risk
  BY <1>3, RiskWhole
<1>5. \/ ~r.bad /\ Commit(r, FALSE, fresh) /\ Works /\ torn' = torn
      \/ /\ Works \/ Fault("receipt")
         /\ torn' = TRUE
         /\ UNCHANGED <<disk, mem>>
         /\ Continue(IF Head(work).loud THEN <<>> ELSE Tail(work), fresh)
  BY <1>3 DEF RiskCommits
<1>6. used' \in Nat
  BY <1>5, UsedMore
<1>7. CASE ~r.bad /\ Commit(r, FALSE, fresh) /\ torn' = torn
  <2>1. Whole(r) /\ Head(work).op \in LateOps \cup {"trade", "fill"}
    BY Zenon, <1>2, <1>4, <1>7 DEF Whole, LateOps
  <2>2. /\ disk' = Durable(r) /\ mem' = Volatile(r) /\ disk' \in Disks /\ mem' \in Mems /\ mem'.risk = disk'.saved
        /\ NextWork(Trades(r, FALSE) \o Tail(work)) /\ fresh' \in SUBSET Ids
    BY <1>2, <1>7, <2>1, CommitIs
  <2>3. Types'
    BY <1>1, <1>2, <1>6, <1>7, <2>2, RunKeeps
  <2>4. QED
    BY <1>1, <1>2, <1>3, <1>7, <2>1, <2>2, <2>3 DEF Runs, Committed
<1>8. CASE /\ torn' = TRUE /\ UNCHANGED <<disk, mem>>
           /\ Continue(IF Head(work).loud THEN <<>> ELSE Tail(work), fresh)
  <2>0. torn' \in BOOLEAN
    BY <1>8
  <2>1. CASE Head(work).loud
    <3>1. Continue(<<>>, fresh)
      BY <1>8, <2>1
    <3>2. disk' = disk /\ mem' = mem /\ NextWork(<<>>) /\ fresh' \in SUBSET Ids
      BY <1>2, <1>8, <3>1, StopIs
    <3>3. Types'
      BY <1>1, <1>2, <1>6, <2>0, <3>2, StillTyped, RunKeeps
    <3>4. QED
      BY <1>1, <1>2, <1>8, <3>2, <3>3 DEF Runs, Left
  <2>2. CASE ~Head(work).loud
    <3>1. Skip
      BY <1>8, <2>2 DEF Skip
    <3>2. disk' = disk /\ mem' = mem /\ NextWork(Tail(work)) /\ fresh' \in SUBSET Ids
      BY <1>2, <3>1, SkipIs
    <3>3. Types'
      BY <1>1, <1>2, <1>6, <2>0, <3>2, StillTyped, RunKeeps
    <3>4. QED
      BY <1>1, <1>2, <1>8, <3>2, <3>3 DEF Runs, Left
  <2>3. QED
    BY <2>1, <2>2
<1>9. QED
  BY <1>5, <1>7, <1>8

LEMMA CancelItemIs ==
  ASSUME Types, CancelItem
  PROVE  /\ Types' /\ Runs /\ torn' = torn /\ Running("cancel") /\ Entry \in Ids
         /\ \/ Left(<<>>)
            \/ Committed(CancelEntry(Decision(-1), Entry), FALSE)
<1>1. Running("cancel") /\ up' = up /\ UNCHANGED <<now, source, tape, seen>> /\ torn' = torn
  BY DEF CancelItem
<1>2. up /\ work # <<>> /\ Head(work).op = "cancel" /\ Entry \in Ids /\ torn' \in BOOLEAN
  BY <1>1, HeadIs DEF EntryOps, Types
<1> DEFINE r == CancelEntry(Decision(-1), Entry)
<1>3. \/ Commit(r, FALSE, fresh) /\ Works
      \/ Undone(FALSE) /\ Fault("fill")
  BY DEF CancelItem
<1>4. used' \in Nat
  BY <1>3, UsedMore
<1>5. CASE Commit(r, FALSE, fresh)
  <2>1. Whole(Decision(-1)) /\ Decision(-1).ev = <<>> /\ fresh \in SUBSET Ids
    BY <1>2, BookIs DEF InBook, Types, Outcomes
  <2>2. Whole(r) /\ r.ev = <<>>
    BY <1>2, <2>1, CancelLocal, StaysWhole DEF Whole
  <2> HIDE DEF r
  <2>3. /\ disk' = Durable(r) /\ mem' = Volatile(r) /\ disk' \in Disks /\ mem' \in Mems /\ mem'.risk = disk'.saved
        /\ NextWork(Trades(r, FALSE) \o Tail(work)) /\ fresh' \in SUBSET Ids
    BY <1>2, <1>5, <2>1, <2>2, CommitIs
  <2>4. Types'
    BY <1>1, <1>2, <1>4, <2>3, RunKeeps
  <2>5. QED
    BY <1>1, <1>2, <2>2, <2>3, <2>4 DEF Runs, Committed, r
<1>6. CASE Undone(FALSE)
  <2>1. UNCHANGED <<disk, mem>> /\ Continue(<<>>, fresh) /\ fresh \in SUBSET Ids
    BY <1>6 DEF Undone, Types
  <2>2. disk' = disk /\ mem' = mem /\ NextWork(<<>>) /\ fresh' \in SUBSET Ids
    BY <1>2, <2>1, StopIs
  <2>3. Types'
    BY <1>1, <1>2, <1>4, <2>2, StillTyped, RunKeeps
  <2>4. QED
    BY <1>1, <1>2, <2>2, <2>3 DEF Runs, Left
<1>7. QED
  BY <1>3, <1>5, <1>6

\* a command of the operator
LEMMA CommandIs ==
  ASSUME Types, Command
  PROVE  /\ up /\ work = <<>> /\ up' /\ UNCHANGED <<up, now, source, tape, seen, torn>> /\ used' \in Nat
         /\ now \in Nat /\ tape' \in [live : BOOLEAN, time : Nat]
BY DEF Command, Idle, Types

LEMMA HaltIs ==
  ASSUME NEW b, Whole(b)
  PROVE  LET r == Halt(b)
         IN  /\ Whole(r) /\ Unmoved(b, r) /\ r.resets = b.resets /\ r.rec = b.rec
             /\ r.risk.streak = b.risk.streak /\ r.risk.until = b.risk.until /\ r.risk.base = b.risk.base
             /\ r.risk.seen = b.risk.seen /\ r.risk.tripped = b.risk.tripped /\ r.risk.day = b.risk.day
<1> DEFINE x == [b.risk EXCEPT !.halt = TRUE]
           c == [b EXCEPT !.risk = x]
           r == Halt(b)
<1>1. b \in Books /\ b.risk \in RiskState /\ ~b.bad
  BY BookFields DEF Whole
<1>2. /\ x \in RiskState /\ x.streak = b.risk.streak /\ x.until = b.risk.until /\ x.base = b.risk.base
      /\ x.seen = b.risk.seen /\ x.tripped = b.risk.tripped /\ x.day = b.risk.day
  BY <1>1 DEF RiskState
<1>3. r = Save(c)
  BY <1>1 DEF Halt, Books
<1> HIDE DEF x
<1>4. c \in Books /\ Unmoved(b, c) /\ Alike(b, c) /\ c.rec = b.rec /\ c.risk = x
  BY <1>1, <1>2, RiskUpdate
<1> HIDE DEF c
<1>5. Save(c) \in Books /\ Unmoved(c, Save(c)) /\ Alike(c, Save(c)) /\ Save(c).rec = c.rec /\ Save(c).risk = c.risk
      /\ Save(c).saved = c.risk
  BY <1>4, SaveIs
<1> HIDE DEF r
<1>6. Unmoved(b, r) /\ r.resets = b.resets /\ r.rec = b.rec /\ r.risk = x /\ r.saved = x /\ r \in Books
  BY <1>3, <1>4, <1>5 DEF Unmoved, Alike
<1>7. QED
  BY <1>1, <1>2, <1>6 DEF Whole, Unmoved, r

LEMMA CloseAllIs ==
  ASSUME Types, NEW halt \in BOOLEAN, CloseAllCommand(halt)
  PROVE  /\ Types' /\ Begins /\ seen' = seen /\ torn' = torn /\ Untouched /\ HaltedOnly
         /\ \E items : NextWork(items) /\ Cancels(items)
<1>1. /\ up /\ work = <<>> /\ up' /\ UNCHANGED <<up, now, source, tape, seen, torn>> /\ used' \in Nat /\ now \in Nat
      /\ tape' \in [live : BOOLEAN, time : Nat]
  BY Zenon, CommandIs DEF CloseAllCommand
<1> DEFINE e == Each("cancel", mem.pend, "none", now)
           late == <<Item("close all", 0, "none", now, TRUE)>>
           z == e \o late
<1>2. mem' = (IF halt THEN Volatile(Halt(Book)) ELSE mem) /\ disk' = (IF halt THEN Durable(Halt(Book)) ELSE disk)
      /\ Continue(z, {})
  BY Zenon DEF CloseAllCommand, Starts
<1>3. disk' \in Disks /\ mem' \in Mems /\ mem'.risk = disk'.saved /\ Untouched /\ HaltedOnly
  <2>1. CASE halt
    <3> DEFINE r == Halt(Book)
    <3>0. InBook(Book)
      BY <1>1, BookIs DEF Outcomes
    <3>1. /\ Whole(r) /\ Unmoved(Book, r) /\ r.resets = Book.resets /\ r.rec = Book.rec
          /\ r.risk.streak = Book.risk.streak /\ r.risk.until = Book.risk.until /\ r.risk.base = Book.risk.base
          /\ r.risk.seen = Book.risk.seen
      BY <3>0, HaltIs DEF InBook
    <3> HIDE DEF r
    <3>2. disk' = Durable(r) /\ mem' = Volatile(r)
      BY Zenon, <1>2, <2>1 DEF r
    <3>3. /\ disk' \in Disks /\ mem' \in Mems /\ mem'.risk = disk'.saved
          /\ disk'.rows = r.rows /\ disk'.act = r.act /\ disk'.rec = r.rec /\ disk'.saved = r.saved
          /\ disk'.resets = r.resets /\ mem'.open = r.open /\ mem'.pend = r.pend
      BY <3>1, <3>2, Kept
    <3>4. r.saved = r.risk /\ disk.saved = mem.risk
      BY <1>1, <3>1 DEF Whole, Types
    <3>5. QED
      BY <3>0, <3>1, <3>3, <3>4 DEF InBook, Unmoved, Untouched, HaltedOnly
  <2>2. CASE ~halt
    <3>1. disk' = disk /\ mem' = mem
      BY Zenon, <1>2, <2>2
    <3>2. QED
      BY <1>1, <3>1, StillTyped DEF Untouched, HaltedOnly
  <2>3. QED
    BY <2>1, <2>2
<1>4. /\ e \in Seq(Items) /\ \A k \in 1..Len(e) : e[k].op = "cancel" /\ e[k].id \in mem.pend
  <2>1. "cancel" \in EntryOps /\ "none" \in Vias /\ mem.pend \in SUBSET Ids /\ now \in Nat
    BY <1>1, DiskFields DEF EntryOps, Vias
  <2>2. ASSUME NEW p \in EntryOps, NEW v \in Vias
        PROVE  Serves(Each(p, mem.pend, v, now), p, mem.pend, v, now)
    BY <2>1, EachIs
  <2>3. Serves(e, "cancel", mem.pend, "none", now)
    BY <2>1, <2>2
  <2> HIDE DEF e, late
  <2>4. QED
    BY <2>3 DEF Serves
<1>5. late \in Seq(Items) /\ AllLate(late) /\ Turns(late)
  BY Zenon, <1>1, OneLate DEF LateOps, EntryOps, Vias
<1> HIDE DEF e, late
<1>6. Turns(e) /\ \A j \in 1..Len(e), k \in 1..Len(late) : Follows(e[j].op, late[k].op)
  BY Zenon, <1>4, <1>5, SameTurns DEF AllLate, Follows
<1>7. z \in Seq(Items) /\ Turns(z)
  BY <1>4, <1>5, <1>6, JoinIs, TurnsJoin
<1>8. Cancels(z)
  <2>1. \A k \in 1..Len(z) : \/ k \in 1..Len(e) /\ z[k] = e[k]
                             \/ k - Len(e) \in 1..Len(late) /\ z[k] = late[k - Len(e)]
    BY <1>4, <1>5, JoinIs
  <2> HIDE DEF z
  <2>2. QED
    BY <2>1, <1>4, <1>5 DEF Cancels, AllLate
<1> HIDE DEF z
<1>9. NextWork(z) /\ fresh' \in SUBSET Ids
  <2>1. mem'.open \in SUBSET Ids /\ mem'.pend \in SUBSET Ids
    BY <1>3 DEF Mems
  <2>2. QED
    BY <1>1, <1>2, <1>7, <2>1, ContinueIs
<1>10. Types'
  BY <1>1, <1>3, <1>9 DEF Types, NextWork
<1>11. QED
  BY <1>1, <1>3, <1>8, <1>9, <1>10 DEF Begins

----------------------------------------------------------------------------
(* Commands and the process.                                                *)

LEMMA RiskResetIs ==
  ASSUME Types, RiskReset
  PROVE  /\ Types' /\ Begins /\ seen' = seen /\ torn' = torn /\ Untouched /\ work' = work
         /\ disk'.saved = FreshState(Book, now)
<1>1. /\ up /\ work = <<>> /\ up' /\ UNCHANGED <<up, now, source, tape, seen, torn>> /\ used' \in Nat /\ now \in Nat
      /\ tape' \in [live : BOOLEAN, time : Nat]
  BY CommandIs DEF RiskReset
<1> DEFINE f == FreshState(Book, now)
           c == [Book EXCEPT !.risk = f]
           r == Save(c)
<1>2. disk' = Durable(r) /\ mem' = Volatile(r) /\ work' = work /\ fresh' = fresh
  BY DEF RiskReset
<1>3. InBook(Book)
  BY <1>1, BookIs DEF Outcomes
<1>4. Book \in Books /\ ~Book.bad
  BY <1>3 DEF InBook, Whole
<1>5. f \in RiskState
  BY <1>1, <1>4, FreshIs
<1> HIDE DEF f
<1>6. c \in Books /\ Unmoved(Book, c) /\ Alike(Book, c) /\ c.rec = Book.rec /\ c.risk = f
  BY <1>4, <1>5, RiskUpdate
<1> HIDE DEF c
<1>7. r \in Books /\ Unmoved(c, r) /\ Alike(c, r) /\ r.rec = c.rec /\ r.risk = f /\ r.saved = f
  BY <1>6, SaveIs
<1> HIDE DEF r
<1>8. Unmoved(Book, r) /\ r.rec = Book.rec /\ r.resets = Book.resets
  BY <1>6, <1>7 DEF Unmoved, Alike
<1>9. Whole(r)
  BY <1>4, <1>7, <1>8 DEF Whole, Unmoved
<1>10. /\ disk' \in Disks /\ mem' \in Mems /\ mem'.risk = disk'.saved
       /\ disk'.rows = r.rows /\ disk'.act = r.act /\ disk'.rec = r.rec /\ disk'.saved = r.saved
       /\ disk'.resets = r.resets /\ mem'.open = r.open /\ mem'.pend = r.pend
  BY <1>2, <1>9, Kept
<1>11. Untouched
  BY <1>3, <1>8, <1>10 DEF InBook, Unmoved, Untouched
<1>12. Types'
  BY <1>1, <1>2, <1>10 DEF Types
<1>13. QED
  BY <1>1, <1>2, <1>7, <1>10, <1>11, <1>12 DEF Begins, f

LEMMA BookResetIs ==
  ASSUME Types, BookReset
  PROVE  /\ Types' /\ Begins /\ seen' = seen /\ torn' = torn
         /\ disk'.rec = disk.rec /\ disk'.saved = disk.saved /\ disk'.resets = disk.resets
         /\ mem'.open = {} /\ mem'.pend = {}
         /\ \A i \in Ids : /\ disk'.rows[i] = Archived(disk.rows[i])
                           /\ disk'.act[i] = IF disk.act[i] = "opened" THEN "reset" ELSE disk.act[i]
         /\ \A k \in 1..Len(work') : work'[k].op \in LateOps \cup {"stamp"}
<1>1. /\ up /\ work = <<>> /\ up' /\ UNCHANGED <<up, now, source, tape, seen, torn>> /\ used' \in Nat /\ now \in Nat
      /\ tape' \in [live : BOOLEAN, time : Nat]
  BY CommandIs DEF BookReset
<1>2. disk \in Disks /\ mem \in Mems /\ mem.risk = disk.saved
  BY <1>1 DEF Types
<1> DEFINE rows == [i \in Ids |-> Archived(disk.rows[i])]
           acts == [i \in Ids |-> IF disk.act[i] = "opened" THEN "reset" ELSE disk.act[i]]
           late == <<Item("stamp", 0, "none", 0, TRUE)>>
<1>3. disk' = [disk EXCEPT !.rows = rows, !.act = acts] /\ mem' = [mem EXCEPT !.open = {}, !.pend = {}]
      /\ Continue(late, {})
  BY <1>2 DEF BookReset, Starts, Archived, Disks
<1>4. \A i \in Ids : Archived(disk.rows[i]) \in Row
  BY <1>2, NoRowType DEF Disks, Archived, Row, Statuses
<1>5. rows \in [Ids -> Row] /\ acts \in [Ids -> Actions]
  BY <1>2, <1>4 DEF Disks, Actions
<1> HIDE DEF rows, acts
<1>6. disk' \in Disks /\ disk'.rows = rows /\ disk'.act = acts /\ disk'.rec = disk.rec /\ disk'.saved = disk.saved
      /\ disk'.resets = disk.resets
  BY <1>2, <1>3, <1>5 DEF Disks
<1>7. mem' \in Mems /\ mem'.open = {} /\ mem'.pend = {} /\ mem'.risk = mem.risk
  BY <1>2, <1>3 DEF Mems
<1>8. late \in Seq(Items) /\ Turns(late) /\ \A k \in 1..Len(late) : late[k].op = "stamp"
  <2> DEFINE x == Item("stamp", 0, "none", 0, TRUE)
  <2>1. x \in Items /\ x.op = "stamp"
    BY Constants DEF Item, Items, Ops, EntryOps, Vias
  <2> HIDE DEF x
  <2>2. <<x>> \in Seq(Items) /\ \A k \in 1..Len(<<x>>) : <<x>>[k].op = "stamp"
    BY <2>1
  <2>3. Turns(<<x>>)
    BY DEF Turns
  <2>4. QED
    BY <2>2, <2>3 DEF x
<1> HIDE DEF late
<1>9. NextWork(late) /\ fresh' \in SUBSET Ids
  BY <1>1, <1>3, <1>7, <1>8, ContinueIs
<1>10. Types'
  BY <1>1, <1>2, <1>6, <1>7, <1>9 DEF Types, NextWork
<1>11. \A k \in 1..Len(work') : work'[k].op \in LateOps \cup {"stamp"}
  BY <1>8, <1>9 DEF NextWork, AllLate
<1>12. QED
  BY <1>1, <1>6, <1>7, <1>10, <1>11 DEF Begins, rows, acts

LEMMA StampIs ==
  ASSUME Types, Stamp
  PROVE  /\ Types' /\ Runs /\ torn' = torn /\ Running("stamp")
         /\ disk'.rows = disk.rows /\ disk'.act = disk.act /\ disk'.rec = disk.rec /\ disk'.saved = disk.saved
         /\ disk'.resets = disk.resets + 1 /\ mem' = mem /\ work' = Tail(work)
<1>1. /\ Running("stamp") /\ disk' = [disk EXCEPT !.resets = @ + 1] /\ work' = Tail(work)
      /\ UNCHANGED <<mem, up, now, source, tape, seen, fresh, used, torn>>
  BY DEF Stamp
<1>2. up /\ work # <<>> /\ disk \in Disks /\ disk.resets \in Nat
  BY <1>1 DEF Types, Running, Disks
<1>3. disk' \in Disks /\ disk'.rows = disk.rows /\ disk'.act = disk.act /\ disk'.rec = disk.rec
      /\ disk'.saved = disk.saved /\ disk'.resets = disk.resets + 1
  <2>1. disk' = [disk EXCEPT !.resets = disk.resets + 1]
    BY <1>1
  <2>2. disk.resets + 1 \in Nat
    BY <1>2
  <2>3. QED
    BY Zenon, <1>2, <2>1, <2>2 DEF Disks
<1>4. work' \in Seq(Items) /\ Turns(work')
  BY <1>1, <1>2, Behind
<1>5. Types'
  BY <1>1, <1>2, <1>3, <1>4 DEF Types
<1>6. QED
  BY <1>1, <1>2, <1>3, <1>5 DEF Runs

LEMMA VoidPositionIs ==
  ASSUME Types, VoidPosition
  PROVE  /\ Types' /\ Begins /\ seen' = seen /\ torn' = torn /\ work' = work
         /\ disk'.rec = disk.rec /\ disk'.saved = disk.saved /\ disk'.resets = disk.resets
         /\ mem'.pend = mem.pend
         /\ \E i \in mem.open :
              /\ mem'.open = mem.open \ {i} /\ i \in Ids
              /\ disk'.rows[i] = Gone /\ disk'.act[i] = "rejected"
              /\ \A j \in Ids \ {i} : disk'.rows[j] = disk.rows[j] /\ disk'.act[j] = disk.act[j]
<1>1. /\ up /\ work = <<>> /\ up' /\ UNCHANGED <<up, now, source, tape, seen, torn>> /\ used' \in Nat /\ now \in Nat
      /\ tape' \in [live : BOOLEAN, time : Nat]
  BY CommandIs DEF VoidPosition
<1>2. disk \in Disks /\ mem \in Mems /\ mem.risk = disk.saved /\ disk.rows \in [Ids -> Row] /\ disk.act \in [Ids -> Actions]
      /\ mem.open \in SUBSET Ids
  BY <1>1 DEF Types, Disks, Mems
<1>3. PICK i \in mem.open : /\ disk' = [disk EXCEPT !.rows[i] = Gone, !.act[i] = "rejected"]
                            /\ mem' = [mem EXCEPT !.open = @ \ {i}]
  BY Zenon DEF VoidPosition
<1>4. work' = work /\ fresh' = fresh
  BY DEF VoidPosition
<1> DEFINE rows == [disk.rows EXCEPT ![i] = Gone]
           acts == [disk.act EXCEPT ![i] = "rejected"]
<1>5. i \in Ids
  BY <1>2
<1>6. rows \in [Ids -> Row] /\ acts \in [Ids -> Actions]
  BY <1>2, <1>5, NoRowType DEF Actions
<1>7. /\ rows[i] = Gone /\ acts[i] = "rejected"
      /\ \A j \in Ids \ {i} : rows[j] = disk.rows[j] /\ acts[j] = disk.act[j]
  BY <1>2, <1>5
<1>8. disk' = [disk EXCEPT !.rows = rows, !.act = acts]
  BY <1>2, <1>3 DEF Disks
<1> HIDE DEF rows, acts
<1>9. disk' \in Disks /\ disk'.rows = rows /\ disk'.act = acts /\ disk'.rec = disk.rec /\ disk'.saved = disk.saved
      /\ disk'.resets = disk.resets
  BY <1>2, <1>6, <1>8 DEF Disks
<1>10. mem' \in Mems /\ mem'.open = mem.open \ {i} /\ mem'.pend = mem.pend /\ mem'.risk = mem.risk
  BY <1>2, <1>3 DEF Mems
<1>11. Types'
  BY <1>1, <1>2, <1>4, <1>9, <1>10 DEF Types
<1>12. QED
  BY <1>1, <1>4, <1>5, <1>7, <1>9, <1>10, <1>11 DEF Begins

LEMMA KillIs ==
  ASSUME Types, Kill
  PROVE  /\ Types' /\ ~up' /\ disk' = disk /\ now' = now /\ seen' = seen /\ torn' = torn
         /\ mem' = Down /\ work' = <<>>
<1>1. /\ up' = FALSE /\ mem' = Down /\ work' = <<>> /\ fresh' = {} /\ used' = used + 1
      /\ UNCHANGED <<disk, now, source, tape, seen, torn>>
  BY DEF Kill
<1>2. used' \in Nat
  <2>1. used \in Nat
    BY DEF Types
  <2>2. QED
    BY <1>1, <2>1
<1>3. <<>> \in Seq(Items) /\ Turns(<<>>)
  BY DEF Turns
<1>4. QED
  BY <1>1, <1>2, <1>3 DEF Types

LEMMA ClockIs ==
  ASSUME Types, Clock
  PROVE  /\ Types' /\ work = <<>> /\ work' = <<>> /\ disk' = disk /\ mem' = mem /\ up' = up /\ now' = now + 1
         /\ seen' = seen /\ torn' = torn
<1>1. /\ work = <<>> /\ now' = now + 1 /\ tape' = [tape EXCEPT !.live = FALSE]
      /\ UNCHANGED <<disk, mem, up, source, seen, work, fresh, used, torn>>
  BY DEF Clock
<1>2. now \in Nat /\ tape \in [live : BOOLEAN, time : Nat]
  BY DEF Types
<1>3. tape' \in [live : BOOLEAN, time : Nat]
  BY <1>1, <1>2
<1>4. now' \in Nat
  BY <1>1, <1>2
<1>5. QED
  BY <1>1, <1>3, <1>4 DEF Types

LEMMA DropEntryIs ==
  ASSUME Types, DropEntry
  PROVE  /\ Types' /\ Runs /\ torn' = torn /\ mem' = mem /\ Entry \in Ids
         /\ disk'.rec = disk.rec /\ disk'.saved = disk.saved /\ disk'.resets = disk.resets
         /\ \A j \in Ids \ {Entry} : disk'.rows[j] = disk.rows[j] /\ disk'.act[j] = disk.act[j]
         /\ \/ /\ Running("drop") /\ disk'.rows[Entry] = Gone /\ disk'.act[Entry] = disk.act[Entry]
               /\ work' = <<Item("dropped", Entry, "none", 0, TRUE)>> \o Tail(work)
            \/ /\ Running("dropped") /\ disk'.rows[Entry] = disk.rows[Entry] /\ disk'.act[Entry] = "rejected"
               /\ work' = Tail(work)
<1>1. /\ Running("drop") \/ Running("dropped")
      /\ UNCHANGED <<mem, up, now, source, tape, seen, fresh, used, torn>>
  BY DEF DropEntry
<1>2. /\ up /\ work # <<>> /\ Head(work).op \in {"drop", "dropped"} /\ Entry \in Ids /\ disk \in Disks
      /\ disk.rows \in [Ids -> Row] /\ disk.act \in [Ids -> Actions]
  BY <1>1, HeadIs DEF EntryOps, Types, Disks
<1>3. /\ Tail(work) \in Seq(Items) /\ Turns(Tail(work))
      /\ \A k \in 1..Len(Tail(work)) : Follows(Head(work).op, Tail(work)[k].op)
  BY <1>2, Behind
<1>4. CASE Running("drop") /\ disk' = [disk EXCEPT !.rows[Entry] = Gone]
           /\ work' = <<Item("dropped", Entry, "none", 0, TRUE)>> \o Tail(work)
  <2> DEFINE rows == [disk.rows EXCEPT ![Entry] = Gone]
             x == Item("dropped", Entry, "none", 0, TRUE)
  <2>1. rows \in [Ids -> Row] /\ rows[Entry] = Gone /\ \A j \in Ids \ {Entry} : rows[j] = disk.rows[j]
    BY <1>2, NoRowType
  <2>2. disk' = [disk EXCEPT !.rows = rows]
    BY <1>2, <1>4 DEF Disks
  <2> HIDE DEF rows
  <2>3. disk' \in Disks /\ disk'.rows = rows /\ disk'.act = disk.act /\ disk'.rec = disk.rec
        /\ disk'.saved = disk.saved /\ disk'.resets = disk.resets
    BY <1>2, <2>1, <2>2 DEF Disks
  <2>4. x \in Items /\ x.op = "dropped"
    BY <1>2, Constants DEF Item, Items, Ids, Ops, BootOps, EntryOps, Vias
  <2>5. work' = <<x>> \o Tail(work)
    BY <1>4
  <2> HIDE DEF x
  <2>6. <<x>> \in Seq(Items) /\ Turns(<<x>>) /\ Len(<<x>>) = 1 /\ <<x>>[1] = x
    BY <2>4 DEF Turns
  <2>7. \A j \in 1..Len(<<x>>), k \in 1..Len(Tail(work)) : Follows(<<x>>[j].op, Tail(work)[k].op)
    <3>1. ASSUME NEW k \in 1..Len(Tail(work)) PROVE Follows("dropped", Tail(work)[k].op)
      BY Zenon, <1>2, <1>3 DEF Follows, LateOps
    <3>2. \A j \in 1..Len(<<x>>) : <<x>>[j].op = "dropped"
      BY <2>4, <2>6
    <3>3. QED
      BY <3>1, <3>2
  <2>8. work' \in Seq(Items) /\ Turns(work')
    BY <1>3, <2>5, <2>6, <2>7, JoinIs, TurnsJoin
  <2>9. Types'
    BY <1>1, <1>2, <2>3, <2>8 DEF Types
  <2>10. QED
    BY <1>1, <1>2, <1>4, <2>1, <2>3, <2>9 DEF Runs
<1>5. CASE Running("dropped") /\ disk' = [disk EXCEPT !.act[Entry] = "rejected"] /\ work' = Tail(work)
  <2> DEFINE acts == [disk.act EXCEPT ![Entry] = "rejected"]
  <2>1. acts \in [Ids -> Actions] /\ acts[Entry] = "rejected" /\ \A j \in Ids \ {Entry} : acts[j] = disk.act[j]
    BY <1>2 DEF Actions
  <2>2. disk' = [disk EXCEPT !.act = acts]
    BY <1>2, <1>5 DEF Disks
  <2> HIDE DEF acts
  <2>3. disk' \in Disks /\ disk'.rows = disk.rows /\ disk'.act = acts /\ disk'.rec = disk.rec
        /\ disk'.saved = disk.saved /\ disk'.resets = disk.resets
    BY <1>2, <2>1, <2>2 DEF Disks
  <2>4. Types'
    BY <1>1, <1>2, <1>3, <1>5, <2>3 DEF Types
  <2>5. QED
    BY <1>1, <1>2, <1>5, <2>1, <2>3, <2>4 DEF Runs
<1>6. QED
  BY <1>4, <1>5 DEF DropEntry

LEMMA FoundIs ==
  ASSUME Types
  PROVE  Found \in Books /\ Found.rows = disk.rows /\ Found.rec = disk.rec
BY DiskFields DEF Found, Books, Outcomes

\* the order in which the trades recovery missed are counted
LEMMA MissedIs ==
  ASSUME Types
  PROVE  LET m == [k \in 1..Cardinality(Uncounted(disk)) |->
                     Item("missed", Oldest(disk, Uncounted(disk))[k], "none", 0, TRUE)]
         IN  /\ m \in Seq(Items) /\ Len(m) \in Nat
             /\ \A k \in 1..Len(m) : m[k].op = "missed" /\ m[k].id \in Uncounted(disk)
             /\ \A j, k \in 1..Len(m) : j < k => disk.rows[m[j].id].end <= disk.rows[m[k].id].end
             /\ \A i \in Uncounted(disk) : \E k \in 1..Len(m) : m[k].id = i
<1> DEFINE S == Uncounted(disk)
           s == Oldest(disk, S)
           m == [k \in 1..Cardinality(S) |-> Item("missed", s[k], "none", 0, TRUE)]
           rank == [i \in S |-> disk.rows[i].end]
<1>1. S \in SUBSET Ids
  BY DEF Uncounted, IdsOf
<1>2. \A i \in S : rank[i] \in Nat /\ rank[i] = disk.rows[i].end
  BY <1>1, DiskFields, RowFields
<1>3. s = InOrder(S, rank)
  BY DEF Oldest
<1>a. Cardinality(S) = Cardinality(Uncounted(disk))
  OBVIOUS
<1> HIDE DEF rank, S, s
<1>4. /\ Len(s) \in Nat /\ Len(s) = Cardinality(S) /\ \A k \in 1..Len(s) : s[k] \in S
      /\ \A j, k \in 1..Len(s) : j < k => rank[s[j]] <= rank[s[k]]
      /\ \A i \in S : \E k \in 1..Len(s) : s[k] = i
  <2> DEFINE o == InOrder(S, rank)
  <2>1. /\ Len(o) \in Nat /\ Len(o) = Cardinality(S) /\ \A k \in 1..Len(o) : o[k] \in S
        /\ \A j, k \in 1..Len(o) : j < k => rank[o[j]] <= rank[o[k]]
        /\ \A i \in S : \E k \in 1..Len(o) : o[k] = i
    BY <1>1, <1>2, InOrderLists
  <2> HIDE DEF o
  <2>2. s = o
    BY <1>3 DEF o
  <2>3. QED
    BY <2>1, <2>2
<1>5. \A k \in 1..Cardinality(S) : Item("missed", s[k], "none", 0, TRUE) \in Items
  <2>1. ASSUME NEW k \in 1..Cardinality(S) PROVE Item("missed", s[k], "none", 0, TRUE) \in Items
    <3>1. s[k] \in Ids
      BY <1>1, <1>4
    <3>2. QED
      BY <3>1, Constants DEF Item, Items, Ids, Ops, BootOps, EntryOps, Vias
  <2>2. QED
    BY <2>1
<1>6. m \in Seq(Items) /\ Len(m) = Len(s)
  <2>1. m \in [1..Cardinality(S) -> Items]
    BY <1>5
  <2>2. Cardinality(S) \in Nat /\ Cardinality(S) = Len(s)
    BY <1>4
  <2> HIDE DEF m
  <2>3. QED
    BY <2>1, <2>2
<1>7. \A k \in 1..Len(s) : m[k].op = "missed" /\ m[k].id = s[k]
  BY <1>4 DEF Item
<1>b. m = [k \in 1..Cardinality(Uncounted(disk)) |-> Item("missed", Oldest(disk, Uncounted(disk))[k], "none", 0, TRUE)]
  BY DEF s, S
<1> HIDE DEF m
<1>8. \A j, k \in 1..Len(m) : j < k => disk.rows[m[j].id].end <= disk.rows[m[k].id].end
  BY <1>2, <1>4, <1>6, <1>7
<1>9. S = Uncounted(disk)
  BY DEF S
<1> DEFINE z == [k \in 1..Cardinality(Uncounted(disk)) |-> Item("missed", Oldest(disk, Uncounted(disk))[k], "none", 0, TRUE)]
<1>10. z = m
  BY <1>b
<1> HIDE DEF z
<1>11. /\ z \in Seq(Items) /\ Len(z) \in Nat
       /\ \A k \in 1..Len(z) : z[k].op = "missed" /\ z[k].id \in Uncounted(disk)
       /\ \A j, k \in 1..Len(z) : j < k => disk.rows[z[j].id].end <= disk.rows[z[k].id].end
       /\ \A i \in Uncounted(disk) : \E k \in 1..Len(z) : z[k].id = i
  BY <1>4, <1>6, <1>7, <1>8, <1>9, <1>10
<1>12. QED
  BY <1>11 DEF z

LEMMA TickItem ==
  LET x == Item("first tick", 0, "none", 0, TRUE) IN x \in Items /\ x.op = "first tick"
<1>1. ASSUME NEW op \in Ops, op \notin EntryOps, NEW via \in Vias, NEW time \in Nat
      PROVE  Item(op, 0, via, time, TRUE) \in Items /\ Item(op, 0, via, time, TRUE).op = op
  <2>1. 0 \in 0..MaxSignals
    BY Constants
  <2>2. op \in EntryOps => 0 \in Ids
    BY <1>1
  <2>3. TRUE \in BOOLEAN
    OBVIOUS
  <2>4. ASSUME NEW i \in 0..MaxSignals, op \in EntryOps => i \in Ids, NEW loud \in BOOLEAN
        PROVE  Item(op, i, via, time, loud) \in Items /\ Item(op, i, via, time, loud).op = op
    BY <2>4, ItemIs
  <2>5. QED
    BY <2>1, <2>2, <2>3, <2>4
<1>2. "first tick" \in Ops /\ "first tick" \notin EntryOps /\ "none" \in Vias
  BY DEF Ops, BootOps, EntryOps, Vias
<1>3. QED
  BY Zenon, <1>1, <1>2

LEMMA Alone ==
  ASSUME NEW x \in Items
  PROVE  <<x>> \in Seq(Items) /\ Turns(<<x>>) /\ \A k \in 1..Len(<<x>>) : <<x>>[k] = x
<1>1. <<x>> \in Seq(Items) /\ \A k \in 1..Len(<<x>>) : <<x>>[k] = x
  OBVIOUS
<1>2. Turns(<<x>>)
  BY DEF Turns
<1>3. QED
  BY <1>1, <1>2

\* one item more at the end
LEMMA OneMoreItem ==
  ASSUME NEW v \in Seq(Items), NEW x \in Items
  PROVE  LET w == v \o <<x>>
         IN  /\ w \in Seq(Items) /\ Len(v) \in Nat /\ Len(w) \in Nat /\ Len(w) = Len(v) + 1 /\ w[Len(w)] = x
             /\ \A k \in 1..Len(v) : k \in 1..Len(w) /\ w[k] = v[k]
             /\ \A k \in 1..Len(w) : k \in 1..Len(v) \/ k = Len(w)
OBVIOUS

LEMMA BootIs ==
  ASSUME Types, Boot
  PROVE  /\ Types' /\ ~up /\ up' /\ disk' = disk /\ now' = now /\ seen' = seen /\ torn' = torn
         /\ mem'.open = IdsOf(disk, "open") /\ mem'.pend = KeptEntries(disk.rows, now)
         /\ \A k \in 1..Len(work') : BootItem(work'[k])
         /\ \A j, k \in 1..Len(work') : j < k /\ work'[k].op = "drop" => work'[j].id # work'[k].id
         /\ \A j, k \in 1..Len(work') : j < k /\ work'[j].op = "missed" /\ work'[k].op = "missed"
              => disk.rows[work'[j].id].end <= disk.rows[work'[k].id].end
         /\ \A i \in Unloaded : \E k \in 1..Len(work') : work'[k].op = "drop" /\ work'[k].id = i
         /\ \A i \in Uncounted(disk) : \E k \in 1..Len(work') : work'[k].op = "missed" /\ work'[k].id = i
         /\ Len(work') >= 1 /\ work'[Len(work')].op = "first tick"
<1> DEFINE kept == KeptEntries(disk.rows, now)
           open == {i \in Ids : disk.rows[i].st = "open"}
           d == Each("drop", Unloaded, "none", now)
           m == [k \in 1..Cardinality(Uncounted(disk)) |->
                     Item("missed", Oldest(disk, Uncounted(disk))[k], "none", 0, TRUE)]
           x == Item("first tick", 0, "none", 0, TRUE)
           dm == d \o m
           w == dm \o <<x>>
<1>1. /\ ~up /\ up' = TRUE /\ mem' = [open |-> open, pend |-> kept, risk |-> disk.saved]
      /\ work' = w /\ tape' = [live |-> FALSE, time |-> 0]
      /\ UNCHANGED <<disk, now, source, seen, fresh, used, torn>>
  BY Zenon DEF Boot, Unloaded
<1>2. now \in Nat /\ disk \in Disks /\ disk.saved \in RiskState
  BY DEF Types, Disks
<1>3. mem' \in Mems /\ mem'.open = open /\ mem'.pend = kept /\ mem'.risk = disk.saved
  BY Zenon, <1>1, <1>2 DEF Mems, KeptEntries
<1>4. open = IdsOf(disk, "open")
  BY DEF IdsOf
<1> HIDE DEF open, kept
<1>5. /\ d \in Seq(Items) /\ Len(d) \in Nat
      /\ \A k \in 1..Len(d) : d[k].op = "drop" /\ d[k].id \in Unloaded
      /\ \A j, k \in 1..Len(d) : j < k => d[j].id # d[k].id
      /\ \A i \in Unloaded : \E k \in 1..Len(d) : d[k].id = i
  <2>1. Unloaded \in SUBSET Ids /\ "drop" \in EntryOps /\ "none" \in Vias
    BY DEF Unloaded, EntryOps, Vias
  <2>2. ASSUME NEW p \in EntryOps, NEW v \in Vias
        PROVE  Serves(Each(p, Unloaded, v, now), p, Unloaded, v, now)
    BY <1>2, <2>1, EachIs
  <2>3. Serves(d, "drop", Unloaded, "none", now)
    BY <2>1, <2>2
  <2> HIDE DEF d, m, x
  <2>4. QED
    BY <2>3 DEF Serves
<1>6. /\ m \in Seq(Items) /\ Len(m) \in Nat
      /\ \A k \in 1..Len(m) : m[k].op = "missed" /\ m[k].id \in Uncounted(disk)
      /\ \A j, k \in 1..Len(m) : j < k => disk.rows[m[j].id].end <= disk.rows[m[k].id].end
      /\ \A i \in Uncounted(disk) : \E k \in 1..Len(m) : m[k].id = i
  BY MissedIs
<1>7. x \in Items /\ x.op = "first tick"
  BY Zenon, TickItem
<1> HIDE DEF d, m, x
<1>8. Turns(d) /\ Turns(m)
  BY <1>5, <1>6, SameTurns
<1>9. \A j \in 1..Len(d), k \in 1..Len(m) : Follows(d[j].op, m[k].op)
  BY Zenon, <1>5, <1>6 DEF Follows
<1>10. /\ dm \in Seq(Items) /\ Len(dm) = Len(d) + Len(m) /\ Len(dm) \in Nat
       /\ \A k \in 1..Len(dm) : \/ k \in 1..Len(d) /\ dm[k] = d[k]
                                \/ k - Len(d) \in 1..Len(m) /\ dm[k] = m[k - Len(d)]
  BY <1>5, <1>6, JoinIs
<1>11. \A k \in 1..Len(d) : k \in 1..Len(dm) /\ dm[k] = d[k]
  BY <1>5, <1>6
<1>12. \A k \in 1..Len(m) : Len(d) + k \in 1..Len(dm) /\ dm[Len(d) + k] = m[k]
  BY <1>5, <1>6
<1>13. Turns(dm)
  BY <1>5, <1>6, <1>8, <1>9, TurnsJoin
<1>14. \A k \in 1..Len(dm) : \/ dm[k].op = "drop" /\ dm[k].id \in Unloaded
                             \/ dm[k].op = "missed" /\ dm[k].id \in Uncounted(disk)
  BY <1>5, <1>6, <1>10
<1>15. \A j, k \in 1..Len(dm) : j < k /\ dm[k].op = "drop" => dm[j].id # dm[k].id
  <2>1. ASSUME NEW j \in 1..Len(dm), NEW k \in 1..Len(dm), j < k, dm[k].op = "drop" PROVE dm[j].id # dm[k].id
    <3>1. k \in 1..Len(d) /\ dm[k] = d[k]
      BY <2>1, <1>6, <1>10
    <3>2. j \in 1..Len(d) /\ dm[j] = d[j]
      BY <2>1, <3>1, <1>5, <1>11
    <3>3. QED
      BY <2>1, <3>1, <3>2, <1>5
  <2>2. QED
    BY <2>1
<1>16. \A j, k \in 1..Len(dm) : j < k /\ dm[j].op = "missed" /\ dm[k].op = "missed"
              => disk.rows[dm[j].id].end <= disk.rows[dm[k].id].end
  <2>1. ASSUME NEW j \in 1..Len(dm), NEW k \in 1..Len(dm), j < k, dm[j].op = "missed", dm[k].op = "missed"
        PROVE disk.rows[dm[j].id].end <= disk.rows[dm[k].id].end
    <3>1. k - Len(d) \in 1..Len(m) /\ dm[k] = m[k - Len(d)]
      BY <2>1, <1>5, <1>10
    <3>2. j - Len(d) \in 1..Len(m) /\ dm[j] = m[j - Len(d)]
      BY <2>1, <1>5, <1>10
    <3>3. j - Len(d) < k - Len(d)
      BY <2>1, <1>5, <1>10
    <3>4. QED
      BY <3>1, <3>2, <3>3, <1>6
  <2>2. QED
    BY <2>1
<1>17. \A i \in Unloaded : \E k \in 1..Len(dm) : dm[k].op = "drop" /\ dm[k].id = i
  BY <1>5, <1>11
<1>18. \A i \in Uncounted(disk) : \E k \in 1..Len(dm) : dm[k].op = "missed" /\ dm[k].id = i
  BY <1>6, <1>12
<1> HIDE DEF dm
<1>19. /\ <<x>> \in Seq(Items) /\ Turns(<<x>>)
       /\ \A j \in 1..Len(dm), k \in 1..Len(<<x>>) : Follows(dm[j].op, <<x>>[k].op)
  <2>0. <<x>> \in Seq(Items) /\ Turns(<<x>>) /\ \A k \in 1..Len(<<x>>) : <<x>>[k] = x
    BY Zenon, <1>7, Alone
  <2>1. \A k \in 1..Len(<<x>>) : <<x>>[k].op = "first tick"
    BY Zenon, <1>7, <2>0
  <2>2. \A j \in 1..Len(dm) : Follows(dm[j].op, "first tick")
    BY Zenon, <1>14 DEF Follows
  <2>3. QED
    BY Zenon, <2>0, <2>1, <2>2
<1>20. /\ w \in Seq(Items) /\ Len(w) = Len(dm) + 1 /\ Len(w) \in Nat /\ w[Len(w)] = x
       /\ \A k \in 1..Len(dm) : k \in 1..Len(w) /\ w[k] = dm[k]
       /\ \A k \in 1..Len(w) : k \in 1..Len(dm) \/ k = Len(w)
  BY Zenon, <1>7, <1>10, OneMoreItem
<1>21. Turns(w)
  BY <1>10, <1>13, <1>19, TurnsJoin
<1>a. /\ work' \in Seq(Items) /\ Len(work') = Len(dm) + 1 /\ Len(work') \in Nat /\ work'[Len(work')] = x /\ Turns(work')
      /\ \A k \in 1..Len(dm) : k \in 1..Len(work') /\ work'[k] = dm[k]
      /\ \A k \in 1..Len(work') : k \in 1..Len(dm) \/ k = Len(work')
  <2> HIDE DEF w
  <2>1. work' = w
    BY <1>1
  <2>2. QED
    BY <2>1, <1>20, <1>21
<1> HIDE DEF w
<1>22. Types'
  <2>1. tape' \in [live : BOOLEAN, time : Nat]
    BY <1>1
  <2>2. QED
    BY <1>1, <1>3, <1>a, <2>1 DEF Types
<1>23. \A k \in 1..Len(work') : BootItem(work'[k])
  <2>1. (\A k \in 1..Len(dm) : BootItem(dm[k])) /\ BootItem(x)
    BY Zenon, <1>7, <1>14 DEF BootItem
  <2>2. QED
    BY <1>a, <2>1
<1>24. \A j, k \in 1..Len(work') : j < k /\ work'[k].op = "drop" => work'[j].id # work'[k].id
  <2>1. ASSUME NEW j \in 1..Len(work'), NEW k \in 1..Len(work'), j < k, work'[k].op = "drop" PROVE work'[j].id # work'[k].id
    <3>1. work'[Len(work')].op = "first tick"
      BY Zenon, <1>7, <1>a
    <3>3. k # Len(work')
      BY Zenon, <2>1, <3>1
    <3>4. k \in 1..Len(dm)
      BY <3>3, <1>a
    <3>5. j # Len(work')
      BY <2>1, <1>a
    <3>6. j \in 1..Len(dm)
      BY <3>5, <1>a
    <3>2. QED
      BY <2>1, <3>4, <3>6, <1>15, <1>a
  <2>2. QED
    BY <2>1
<1>25. \A j, k \in 1..Len(work') : j < k /\ work'[j].op = "missed" /\ work'[k].op = "missed"
              => disk.rows[work'[j].id].end <= disk.rows[work'[k].id].end
  <2>1. ASSUME NEW j \in 1..Len(work'), NEW k \in 1..Len(work'), j < k, work'[j].op = "missed", work'[k].op = "missed"
        PROVE disk.rows[work'[j].id].end <= disk.rows[work'[k].id].end
    <3>1. k \in 1..Len(dm) /\ j \in 1..Len(dm)
      BY Zenon, <2>1, <1>7, <1>a
    <3>2. QED
      BY <2>1, <3>1, <1>16, <1>a
  <2>2. QED
    BY <2>1
<1>26. \A i \in Unloaded : \E k \in 1..Len(work') : work'[k].op = "drop" /\ work'[k].id = i
  BY <1>17, <1>a
<1>27. \A i \in Uncounted(disk) : \E k \in 1..Len(work') : work'[k].op = "missed" /\ work'[k].id = i
  BY <1>18, <1>a
<1>28. Len(work') >= 1 /\ work'[Len(work')].op = "first tick"
  <2>1. Len(work') >= 1
    BY <1>10, <1>a
  <2>2. QED
    BY Zenon, <2>1, <1>7, <1>a
<1>30. /\ ~up /\ up' /\ disk' = disk /\ now' = now /\ seen' = seen /\ torn' = torn
       /\ mem'.open = IdsOf(disk, "open") /\ mem'.pend = KeptEntries(disk.rows, now)
  BY <1>1, <1>3, <1>4 DEF kept
<1>31. QED
  BY Zenon, <1>22, <1>23, <1>24, <1>25, <1>26, <1>27, <1>28, <1>30

LEMMA StartWhole ==
  ASSUME Types, NEW r, StartResult(r)
  PROVE  r \in Books /\ r.saved = r.risk /\ r.resets = disk.resets
<1>1. PICK m \in Outcomes :
        \/ Running("missed") /\ r = OnTradeClosed([Book EXCEPT !.mkt = m], Entry, now)
        \/ Running("first tick") /\ r = Tick([Book EXCEPT !.mkt = m], now)
  BY Zenon DEF StartResult
<1> DEFINE b == [Book EXCEPT !.mkt = m]
<1>2. up /\ (Running("missed") => Entry \in Ids) /\ now \in Nat
  BY Zenon, <1>1, HeadIs DEF EntryOps, Types
<1>3. Whole(b) /\ b.resets = disk.resets
  BY <1>2, BookIs DEF InBook
<1>4. \/ Entry \in Ids /\ r = OnTradeClosed(b, Entry, now)
      \/ r = Tick(b, now)
  BY Zenon, <1>1, <1>2
<1> HIDE DEF b
<1>5. QED
  BY <1>2, <1>3, <1>4, CountWhole, TickWhole

\* nothing is announced while the application starts
LEMMA Unannounced ==
  ASSUME NEW r \in Books
  PROVE  LET x == [r EXCEPT !.ev = <<>>]
         IN  /\ x \in Books /\ x.ev = <<>> /\ x.saved = r.saved /\ x.risk = r.risk /\ x.bad = r.bad
             /\ Durable(x) = Durable(r) /\ Volatile(x) = Volatile(r)
<1> DEFINE x == [r EXCEPT !.ev = <<>>]
<1>0. <<>> \in Seq(Ids)
  OBVIOUS
<1>1. x \in Books /\ x.ev = <<>> /\ x.saved = r.saved /\ x.risk = r.risk /\ x.bad = r.bad
      /\ x.rows = r.rows /\ x.act = r.act /\ x.rec = r.rec /\ x.resets = r.resets /\ x.open = r.open /\ x.pend = r.pend
  BY <1>0 DEF Books
<1> HIDE DEF x
<1>2. QED
  BY <1>1 DEF Durable, Volatile, x

LEMMA NoTrades ==
  ASSUME NEW b, b.ev = <<>>, NEW loud \in BOOLEAN, NEW w \in Seq(Items)
  PROVE  Trades(b, loud) \o w = w
<1>1. Len(b.ev) = 0
  OBVIOUS
<1>2. b.ev \in Seq(Ids)
  OBVIOUS
<1> DEFINE t == Trades(b, loud)
<1>3. t \in Seq(Items) /\ Len(t) = 0
  BY <1>1, <1>2, TradesIs
<1> HIDE DEF t
<1>4. t = <<>>
  BY <1>3
<1>5. QED
  BY <1>4 DEF t

LEMMA BootRiskIs ==
  ASSUME Types, BootRisk
  PROVE  /\ Types' /\ up /\ work # <<>> /\ now' = now /\ seen' = seen /\ torn' = torn
         /\ Running("missed") \/ Running("first tick")
         /\ Running("missed") => Entry \in Ids
         /\ \/ ~up' /\ disk' = disk /\ mem' = Down /\ work' = <<>>
            \/ /\ up' /\ NextWork(Tail(work))
               /\ \E r : StartResult(r) /\ Whole(r) /\ disk' = Durable(r) /\ mem' = Volatile(r)
<1>1. (Running("missed") \/ Running("first tick")) /\ UNCHANGED <<now, source, tape, seen, used, torn>>
  BY Zenon DEF BootRisk
<1>2. /\ up /\ work # <<>> /\ Head(work).op \in {"missed", "first tick"} /\ (Running("missed") => Entry \in Ids)
      /\ used \in Nat /\ torn \in BOOLEAN
  BY Zenon, <1>1, HeadIs DEF EntryOps, Types
<1>3. PICK r : StartResult(r) /\ Starting(r)
  BY Zenon DEF BootRisk, StartResult
<1>4. r \in Books /\ r.saved = r.risk
  BY <1>3, StartWhole
<1>5. CASE r.bad
  <2>1. up' = FALSE /\ mem' = Down /\ work' = <<>> /\ fresh' = {} /\ disk' = disk
    BY <1>3, <1>5 DEF Starting
  <2>2. <<>> \in Seq(Items) /\ Turns(<<>>)
    BY DEF Turns
  <2>3. Types'
    BY Zenon, <1>1, <2>1, <2>2 DEF Types
  <2>4. QED
    BY Zenon, <1>1, <1>2, <2>1, <2>3
<1>6. CASE ~r.bad
  <2> DEFINE x == [r EXCEPT !.ev = <<>>]
  <2>1. up' = up /\ Commit(x, TRUE, {})
    BY <1>3, <1>6 DEF Starting
  <2>2. /\ x \in Books /\ x.ev = <<>> /\ x.saved = r.saved /\ x.risk = r.risk /\ x.bad = r.bad
        /\ Durable(x) = Durable(r) /\ Volatile(x) = Volatile(r)
    BY <1>4, Unannounced
  <2> HIDE DEF x
  <2>3. Whole(x) /\ Whole(r) /\ {} \in SUBSET Ids
    BY <1>4, <1>6, <2>2 DEF Whole
  <2>4. /\ disk' = Durable(x) /\ mem' = Volatile(x) /\ disk' \in Disks /\ mem' \in Mems /\ mem'.risk = disk'.saved
        /\ NextWork(Trades(x, TRUE) \o Tail(work)) /\ fresh' \in SUBSET Ids
    BY Zenon, <1>2, <2>1, <2>2, <2>3, CommitIs
  <2>5. NextWork(Tail(work))
    BY Zenon, <1>2, <2>2, <2>4, Behind, NoTrades
  <2>6. Types'
    BY Zenon, <1>1, <1>2, <2>1, <2>4, RunKeeps
  <2>7. QED
    BY Zenon, <1>1, <1>2, <1>3, <2>1, <2>2, <2>3, <2>4, <2>5, <2>6
<1>7. QED
  BY Zenon, <1>5, <1>6

----------------------------------------------------------------------------
(* The types hold.                                                          *)

LEMMA InitTypes == Init => Types
<1> SUFFICES ASSUME Init PROVE Types
  OBVIOUS
<1> DEFINE b0 == [Found EXCEPT !.risk = FreshState(Empty, 0)]
           f == FreshState(Empty, 0)
<1>1. /\ disk = Durable([Empty EXCEPT !.saved = FreshState(Empty, 0)])
      /\ mem = Volatile([Empty EXCEPT !.risk = FreshState(Empty, 0)])
      /\ up = TRUE /\ now = 0 /\ source \in Sources /\ tape = [live |-> FALSE, time |-> 0]
      /\ seen = 0 /\ work = <<>> /\ fresh = {} /\ used = 0 /\ torn = FALSE
  BY DEF Init
<1>2. /\ disk.rows = [i \in Ids |-> NoRow] /\ disk.act = [i \in Ids |-> "new"] /\ disk.rec = {}
      /\ disk.saved = f /\ disk.resets = 0 /\ mem.open = {} /\ mem.pend = {} /\ mem.risk = f
      /\ disk = [rows |-> [i \in Ids |-> NoRow], act |-> [i \in Ids |-> "new"], rec |-> {}, saved |-> f, resets |-> 0]
      /\ mem = [open |-> {}, pend |-> {}, risk |-> f]
  BY <1>1 DEF Durable, Volatile, Empty
<1>3. [i \in Ids |-> NoRow] \in [Ids -> Row] /\ [i \in Ids |-> "new"] \in [Ids -> Actions]
  BY NoRowType DEF Actions
<1>4. f \in RiskState
  <2>1. Day(0) \in Nat
    BY DayIsNat
  <2>2. Equity(Empty) \in Int
    <3>1. IdsOf(Empty, "closed") \in SUBSET Ids
      BY DEF IdsOf
    <3>2. /\ {i \in IdsOf(Empty, "closed") : Empty.rows[i].pnl > 0} \in SUBSET Ids
          /\ {i \in IdsOf(Empty, "closed") : Empty.rows[i].pnl < 0} \in SUBSET Ids
      BY <3>1
    <3>3. QED
      BY <3>2, IdSets DEF Equity
  <2>3. Empty.resets = 0 /\ Empty.rec = {}
    BY DEF Empty
  <2>4. [s \in Scanners |-> 0] \in [Scanners -> Nat]
    OBVIOUS
  <2>5. QED
    BY <2>1, <2>2, <2>3, <2>4 DEF FreshState, RiskState
<1> HIDE DEF f
<1>5. disk \in Disks /\ mem \in Mems /\ mem.risk = disk.saved
  BY <1>2, <1>3, <1>4 DEF Disks, Mems
<1>6. <<>> \in Seq(Items) /\ Turns(<<>>)
  BY DEF Turns
<1>7. seen \in 0..MaxSignals /\ tape \in [live : BOOLEAN, time : Nat]
  BY <1>1, Constants
<1>8. QED
  BY <1>1, <1>5, <1>6, <1>7 DEF Types

LEMMA NextTypes == Types /\ [Next]_vars => Types'
<1> SUFFICES ASSUME Types, [Next]_vars PROVE Types'
  OBVIOUS
<1>1. CASE Decide \/ TapePrint \/ Candle \/ OwnExit \/ Timer \/ Clock
  BY <1>1, DecideIs, TapePrintIs, CandleIs, OwnExitIs, TimerIs, ClockIs
<1>2. CASE FillEntry \/ CheckEntry \/ ExitPosition \/ RiskStep \/ CancelItem \/ Stamp \/ DropEntry \/ BootRisk
  BY Zenon, <1>2, FillEntryIs, CheckEntryIs, ExitPositionIs, RiskStepIs, CancelItemIs, StampIs, DropEntryIs, BootRiskIs
<1>3. ASSUME NEW halt \in BOOLEAN, CloseAllCommand(halt) PROVE Types'
  BY <1>3, CloseAllIs
<1>4. CASE RiskReset \/ BookReset \/ VoidPosition \/ Kill \/ Boot
  BY Zenon, <1>4, RiskResetIs, BookResetIs, VoidPositionIs, KillIs, BootIs
<1>5. CASE UNCHANGED vars
  BY <1>5 DEF vars, Types
<1>6. QED
  BY <1>1, <1>2, <1>3, <1>4, <1>5 DEF Next, Work

\* Types is an invariant: maps and table stay of their types, the process holds
\* the risk state the database holds, and a handler's items follow one another
\* in an order the code can produce.
THEOREM TypeInvariant == Spec => []Types
<1>1. Init => Types
  BY InitTypes
<1>2. Types /\ [Next]_vars => Types'
  BY NextTypes
<1>3. QED
  BY <1>1, <1>2, PTL DEF Spec

----------------------------------------------------------------------------
(* No position opens while the switch or the operator halts the account.    *)

LEMMA MovesOpensNot ==
  ASSUME NEW b, NEW r, NEW t, Moves(b, r, t), ~r.bad
  PROVE  ~Opens(b, r)
<1>1. r.act = b.act \/ r.act = SweptActions(b)
  BY DEF Moves, Unmoved, SweptTo
<1>2. QED
  BY <1>1 DEF SweptActions, Opens

\* the risk manager's transactions, those of the start included
LEMMA RiskOpensNot ==
  ASSUME Types, NEW r, RiskResult(r) \/ StartResult(r), ~r.bad
  PROVE  /\ \E m \in Outcomes : Moves([Book EXCEPT !.mkt = m], r, now)
         /\ ~Opens(Book, r)
<1>1. PICK m \in Outcomes :
        \/ (Running("trade") \/ Running("missed")) /\ r = OnTradeClosed([Book EXCEPT !.mkt = m], Entry, now)
        \/ (Running("tick") \/ Running("first tick")) /\ r = Tick([Book EXCEPT !.mkt = m], now)
  BY Zenon DEF RiskResult, StartResult
<1> DEFINE b == [Book EXCEPT !.mkt = m]
<1>2. up /\ (Running("trade") \/ Running("missed") => Entry \in Ids) /\ now \in Nat
  BY Zenon, <1>1, HeadIs DEF EntryOps, Types
<1>3. b \in Books /\ b.act = Book.act
  BY <1>2, BookIs DEF InBook, Whole
<1>4. \/ Entry \in Ids /\ r = OnTradeClosed(b, Entry, now)
      \/ r = Tick(b, now)
  BY Zenon, <1>1, <1>2
<1>a. b = [Book EXCEPT !.mkt = m]
  OBVIOUS
<1> HIDE DEF b
<1>5. Moves(b, r, now)
  BY <1>2, <1>3, <1>4, CountIs, TickIs
<1>6. ~Opens(b, r)
  BY <1>5, MovesOpensNot
<1>7. ~Opens(Book, r)
  BY <1>3, <1>6 DEF Opens
<1>8. QED
  BY <1>5, <1>7, <1>a

LEMMA CommittedEnters ==
  ASSUME Types, NEW b, InBook(b), NEW r, Whole(r), disk' = Durable(r), mem' = Volatile(r),
         Opens(b, r) => Enters(b, r)
  PROVE  EntersOpen
<1>1. b.act = disk.act /\ disk'.act = r.act /\ mem'.risk = r.risk /\ b.rows = disk.rows /\ b.resets = disk.resets
  BY Kept DEF InBook
<1>2. Equity(b) = Equity(disk)
  BY <1>1 DEF Equity, IdsOf
<1>3. ASSUME NEW i \in Ids, Opened(i) PROVE Enters(b, r)
  BY <1>1, <1>3 DEF Opened, Opens
<1>4. QED
  BY <1>1, <1>2, <1>3 DEF EntersOpen, Enters

LEMMA StillClosed ==
  ASSUME \A i \in Ids : disk'.act[i] = "opened" => disk.act[i] = "opened"
  PROVE  EntersOpen
BY DEF EntersOpen, Opened

LEMMA HaltedStep ==
  ASSUME Types, [Next]_vars
  PROVE  EntersOpen
<1>1. CASE disk' = disk
  BY <1>1, StillClosed
<1>2. CASE Decide
  <2>1. SUFFICES ASSUME disk' # disk PROVE EntersOpen
    BY <1>1
  <2>2. up /\ seen + 1 \in Ids /\ now \in Nat
    BY <1>2, <2>1, DecideIs DEF Begins, Types
  <2>3. PICK c \in Cells, side \in Sides, says \in Verdicts, bank \in BOOLEAN, m \in Outcomes : \E r :
          /\ r = ExecuteEntry(Decision(m), seen + 1, c, side, says, bank)
          /\ Whole(r) /\ disk' = Durable(r) /\ mem' = Volatile(r)
    BY <1>2, <2>1, DecideIs
  <2>4. InBook(Decision(m)) /\ Decision(m).dec
    BY <2>2, BookIs
  <2> DEFINE b == Decision(m)
  <2> HIDE DEF b
  <2>5. InBook(b) /\ Whole(b) /\ b.dec
    BY <2>4 DEF InBook, b
  <2>6. PICK r : /\ r = ExecuteEntry(b, seen + 1, c, side, says, bank)
                 /\ Whole(r) /\ disk' = Durable(r) /\ mem' = Volatile(r)
    BY <2>3 DEF b
  <2>7. Opens(b, r) => Enters(b, r)
    BY <2>2, <2>5, <2>6, ExecuteWhole
  <2>8. QED
    BY <2>5, <2>6, <2>7, CommittedEnters
<1>3. CASE FillEntry
  <2>1. SUFFICES ASSUME disk' # disk PROVE EntersOpen
    BY <1>1
  <2>2. up /\ Entry \in Ids /\ now \in Nat
    BY <1>3, <2>1, FillEntryIs DEF Runs, Types
  <2>3. PICK touched \in BOOLEAN, says \in Verdicts, stopped \in BOOLEAN, m \in Outcomes : \E r :
          /\ r = Filled(Decision(m), Entry, says, stopped) /\ Committed(r, FALSE)
    BY <1>3, <2>1, FillEntryIs DEF Left
  <2>4. InBook(Decision(m)) /\ Decision(m).dec
    BY <2>2, BookIs
  <2> DEFINE b == Decision(m)
  <2> HIDE DEF b
  <2>5. InBook(b) /\ Whole(b) /\ b.dec
    BY <2>4 DEF InBook, b
  <2>6. PICK r : r = Filled(b, Entry, says, stopped) /\ Committed(r, FALSE)
    BY <2>3 DEF b
  <2>7. Opens(b, r) => Enters(b, r)
    BY <2>2, <2>5, <2>6, FilledWhole
  <2>8. QED
    BY <2>5, <2>6, <2>7, CommittedEnters DEF Committed
<1>4. ASSUME up, Entry \in Ids, \/ Committed(CancelEntry(Decision(-1), Entry), FALSE)
                                \/ \E pnl \in Outcomes : Committed(CloseAt(Book, Entry, pnl, now), TRUE)
      PROVE  EntersOpen
  <2>1. PICK r : /\ r = CancelEntry(Decision(-1), Entry) \/ \E pnl \in Outcomes : r = CloseAt(Book, Entry, pnl, now)
                 /\ Whole(r) /\ disk' = Durable(r) /\ mem' = Volatile(r)
    BY <1>4 DEF Committed
  <2>2. InBook(Decision(-1)) /\ InBook(Book) /\ now \in Nat
    BY <1>4, BookIs DEF Outcomes, Types
  <2>3. PICK b : InBook(b) /\ (r = CancelEntry(b, Entry) \/ \E pnl \in Outcomes : r = CloseAt(b, Entry, pnl, now))
    BY <2>1, <2>2
  <2>4. ~Opens(b, r)
    BY <1>4, <2>2, <2>3, OpWhole DEF InBook
  <2>5. QED
    BY <2>1, <2>3, <2>4, CommittedEnters
<1>5. CASE CheckEntry \/ ExitPosition \/ CancelItem
  <2>1. SUFFICES ASSUME disk' # disk PROVE EntersOpen
    BY <1>1
  <2>2. /\ up /\ Entry \in Ids
        /\ \/ Committed(CancelEntry(Decision(-1), Entry), FALSE)
           \/ \E pnl \in Outcomes : Committed(CloseAt(Book, Entry, pnl, now), TRUE)
    BY <1>5, <2>1, CheckEntryIs, ExitPositionIs, CancelItemIs DEF Runs, Left
  <2>3. QED
    BY <1>4, <2>2
<1>6. CASE RiskStep \/ BootRisk
  <2>1. SUFFICES ASSUME disk' # disk PROVE EntersOpen
    BY <1>1
  <2>2. PICK r : (RiskResult(r) \/ StartResult(r)) /\ Whole(r) /\ disk' = Durable(r) /\ mem' = Volatile(r)
    BY Zenon, <1>6, <2>1, RiskStepIs, BootRiskIs DEF Left, Committed
  <2>3. up
    BY Zenon, <1>6, RiskStepIs, BootRiskIs DEF Runs
  <2>4. ~Opens(Book, r)
    BY <2>2, RiskOpensNot DEF Whole
  <2>5. InBook(Book)
    BY <2>3, BookIs DEF Outcomes
  <2>6. QED
    BY <2>2, <2>4, <2>5, CommittedEnters
<1>7. CASE Stamp \/ RiskReset \/ \E halt \in BOOLEAN : CloseAllCommand(halt)
  <2>1. disk'.act = disk.act
    BY <1>7, StampIs, RiskResetIs, CloseAllIs DEF Untouched
  <2>2. QED
    BY <2>1, StillClosed
<1>8. CASE BookReset
  <2>1. \A i \in Ids : disk'.act[i] = IF disk.act[i] = "opened" THEN "reset" ELSE disk.act[i]
    BY <1>8, BookResetIs
  <2>2. QED
    BY <2>1, StillClosed
<1>9. CASE VoidPosition
  <2>1. \A i \in Ids : disk'.act[i] \in {"rejected", disk.act[i]}
    BY <1>9, VoidPositionIs
  <2>2. QED
    BY <2>1, StillClosed
<1>10. CASE DropEntry
  <2>1. \A i \in Ids : disk'.act[i] \in {"rejected", disk.act[i]}
    BY <1>10, DropEntryIs
  <2>2. QED
    BY <2>1, StillClosed
<1>11. CASE TapePrint \/ Candle \/ OwnExit \/ Timer \/ Clock \/ Kill \/ Boot \/ UNCHANGED vars
  <2>1. disk' = disk
    BY Zenon, <1>11, TapePrintIs, CandleIs, OwnExitIs, TimerIs, ClockIs, KillIs, BootIs DEF Left, vars
  <2>2. QED
    BY <2>1, <1>1
<1>12. QED
  BY <1>2, <1>3, <1>5, <1>6, <1>7, <1>8, <1>9, <1>10, <1>11 DEF Next, Work

\* No position opens once the day's loss has reached the limit or the operator
\* has halted the account, and the day it is judged by is today: whether the
\* entry is decided, woken by a print, by a candle or by housekeeping, the gate
\* ticks in the transaction that opens the position.
THEOREM NoEntryWhenHaltedHolds == Spec => NoEntryWhenHalted
<1>1. Types /\ [Next]_vars => EntersOpen
  BY HaltedStep
<1>2. Types /\ [Next]_vars =>
        [\A i \in Ids : Opened(i) =>
           /\ ~mem'.risk.halt /\ ~mem'.risk.tripped
           /\ mem'.risk.day = Day(now)
           /\ mem'.risk.seen = disk.resets => Equity(disk) - mem'.risk.start > -LossLimit]_vars
  BY <1>1 DEF EntersOpen
<1>3. Spec => []Types
  BY TypeInvariant
<1>4. QED
  BY <1>2, <1>3, PTL DEF Spec, NoEntryWhenHalted

----------------------------------------------------------------------------
(* Memory, table and signal agree on one id; what the operations keep of it *)

LEMMA StillSound ==
  ASSUME NEW b, NEW r, NEW j, NEW t, Still(b, r, j), r.risk = b.risk, r.resets = b.resets
  PROVE  /\ SoundAt(b, b, j) => SoundAt(r, r, j)
         /\ NoNews(b, r, j)
         /\ Known(b, b, t, j) => Known(r, r, t, j)
BY DEF Still, SoundAt, NoNews, Known, Locks

LEMMA MovesSound ==
  ASSUME NEW b \in Books, NEW r, NEW t, Moves(b, r, t), ~r.bad, NEW j \in Ids
  PROVE  /\ SoundAt(b, b, j) => SoundAt(r, r, j)
         /\ SoundAt(b, b, j) => NoNews(b, r, j)
         /\ j \notin b.pend /\ j \notin b.open => Still(b, r, j)
         /\ SoundAt(b, b, j) /\ Known(b, b, t, j) => Known(r, r, t, j)
         /\ Locks(b, b, t) => Locks(r, r, t)
<1>1. Locks(b, b, t) => Locks(r, r, t)
  BY DEF Moves, Barred, Locks
<1>2. CASE Unmoved(b, r)
  BY <1>1, <1>2 DEF Unmoved, SoundAt, NoNews, Still, Known
<1>3. CASE ~Barred(b, t) /\ SweptTo(b, r, t) /\ Barred(r, t)
  <2>1. /\ r.rows[j] = SweptRows(b, t)[j] /\ r.act[j] = SweptActions(b)[j] /\ r.open = {} /\ r.pend = {}
    BY <1>3 DEF SweptTo
  <2>2. CASE j \in b.pend
    <3>1. r.rows[j] = IF b.rows[j].st = "pending" THEN Gone ELSE b.rows[j]
      BY <2>1, <2>2 DEF SweptRows
    <3>2. r.act[j] = "rejected"
      BY <2>1, <2>2 DEF SweptActions
    <3>3. Locks(r, r, t)
      BY <1>3 DEF Barred, Locks
    <3>4. QED
      BY <2>1, <2>2, <3>1, <3>2, <3>3, NoRowType DEF SoundAt, NoNews, Known
  <2>3. CASE j \notin b.pend /\ j \in b.open
    <3>1. r.rows[j] = ClosedRow(b, j, b.mkt, t) /\ r.act[j] = b.act[j]
      BY <2>1, <2>3 DEF SweptRows, SweptActions
    <3>2. r.rows[j].st = "closed"
      BY <3>1, NoRowType DEF ClosedRow, Row
    <3>3. QED
      BY <1>1, <2>1, <2>3, <3>1, <3>2 DEF SoundAt, NoNews, Known
  <2>4. CASE j \notin b.pend /\ j \notin b.open
    <3>1. r.rows[j] = b.rows[j] /\ r.act[j] = b.act[j]
      BY <2>1, <2>4 DEF SweptRows, SweptActions
    <3>2. QED
      BY <1>1, <2>1, <2>4, <3>1 DEF SoundAt, NoNews, Known, Still
  <2>5. QED
    BY <2>2, <2>3, <2>4
<1>4. QED
  BY <1>2, <1>3 DEF Moves

\* Of two operations in a row.
LEMMA NoNewsOn ==
  ASSUME NEW b, NEW g, NEW r, NEW j, NoNews(b, g, j), NoNews(g, r, j)
  PROVE  NoNews(b, r, j)
BY DEF NoNews

LEMMA CancelHandles ==
  ASSUME NEW b \in Books, Sound(b), NEW i \in Ids, b.rows[i].st \in {"pending", "gone"}
  PROVE  Handles(b, CancelEntry(b, i), i)
<1> DEFINE r == CancelEntry(b, i)
<1>1. r \in Books /\ Same(b, r) /\ Beside(b, r, i) /\ Cancelled(b, r, i)
  BY CancelLocal
<1> HIDE DEF r
<1>2. SoundAt(r, r, i)
  BY <1>1, NoRowType DEF Sound, SoundAt, Cancelled
<1>3. ASSUME NEW j \in Ids \ {i}
      PROVE  SoundAt(r, r, j) /\ NoNews(b, r, j) /\ (Known(b, b, now, j) => Known(r, r, now, j))
  BY <1>1, StillSound DEF Beside, Same, Sound
<1>4. Sound(r)
  BY <1>2, <1>3 DEF Sound
<1>5. QED
  BY <1>3, <1>4 DEF Handles, r

LEMMA CloseHandles ==
  ASSUME NEW b \in Books, Sound(b), NEW i \in b.open, NEW pnl \in Outcomes, now \in Nat
  PROVE  /\ Handles(b, CloseAt(b, i, pnl, now), i)
         /\ NoNews(b, CloseAt(b, i, pnl, now), i) /\ i \notin CloseAt(b, i, pnl, now).pend
<1> DEFINE r == CloseAt(b, i, pnl, now)
<1>0. i \in Ids
  BY BookFields
<1>1. r \in Books /\ Same(b, r) /\ Beside(b, r, i) /\ Shut(b, r, i, pnl, now)
  BY <1>0, CloseLocal
<1> HIDE DEF r
<1>2. ClosedRow(b, i, pnl, now).st = "closed"
  BY NoRowType DEF ClosedRow, Row
<1>3. SoundAt(r, r, i) /\ NoNews(b, r, i) /\ i \notin r.pend
  BY <1>0, <1>1, <1>2 DEF Sound, SoundAt, Shut, NoNews
<1>4. ASSUME NEW j \in Ids \ {i}
      PROVE  SoundAt(r, r, j) /\ NoNews(b, r, j) /\ (Known(b, b, now, j) => Known(r, r, now, j))
  BY <1>1, StillSound DEF Beside, Same, Sound
<1>5. Sound(r)
  BY <1>3, <1>4 DEF Sound
<1>6. QED
  BY <1>3, <1>4, <1>5 DEF Handles, r

\* a signal without a row is refused, or placed
LEMMA MarkHandles ==
  ASSUME NEW b \in Books, Sound(b), NEW i \in Ids, b.rows[i].st = "none", NEW r, r = Ignored(b, i) \/ r = Rejected(b, i)
  PROVE  Handles(b, r, i)
<1>1. r \in Books /\ Same(b, r) /\ Beside(b, r, i) /\ MarkedAs(b, r, i)
  BY MarkLocal
<1>2. SoundAt(r, r, i)
  BY <1>1 DEF Sound, SoundAt, MarkedAs
<1>3. ASSUME NEW j \in Ids \ {i}
      PROVE  SoundAt(r, r, j) /\ NoNews(b, r, j) /\ (Known(b, b, now, j) => Known(r, r, now, j))
  BY <1>1, StillSound DEF Beside, Same, Sound
<1>4. Sound(r)
  BY <1>2, <1>3 DEF Sound
<1>5. QED
  BY <1>3, <1>4 DEF Handles

LEMMA PlaceHandles ==
  ASSUME NEW b \in Books, Sound(b), NEW i \in Ids, b.rows[i].st = "none", NEW row \in Row, row.st = "pending"
  PROVE  Handles(b, Place(b, i, row), i) /\ Place(b, i, row).rows[i] = row
<1> DEFINE r == Place(b, i, row)
<1>1. r \in Books /\ Same(b, r) /\ Beside(b, r, i) /\ PlacedAs(b, r, i, row)
  BY PlaceLocal
<1> HIDE DEF r
<1>2. SoundAt(r, r, i) /\ r.rows[i] = row
  BY <1>1 DEF Sound, SoundAt, PlacedAs
<1>3. ASSUME NEW j \in Ids \ {i}
      PROVE  SoundAt(r, r, j) /\ NoNews(b, r, j) /\ (Known(b, b, now, j) => Known(r, r, now, j))
  BY <1>1, StillSound DEF Beside, Same, Sound
<1>4. Sound(r)
  BY <1>2, <1>3 DEF Sound
<1>5. QED
  BY <1>2, <1>3, <1>4 DEF Handles, r

\* The row of the entry waits; the map may have let go of it already.
LEMMA OpenHandles ==
  ASSUME NEW b \in Books, NEW i \in Ids, \A j \in Ids \ {i} : SoundAt(b, b, j), b.rows[i].st = "pending", now \in Nat
  PROVE  Handles(b, OpenAt(b, i, now), i)
<1> DEFINE r == OpenAt(b, i, now)
<1>1. r \in Books /\ Same(b, r) /\ Beside(b, r, i) /\ Started(b, r, i)
  BY OpenLocal
<1> HIDE DEF r
<1>2. SoundAt(r, r, i)
  BY <1>1 DEF SoundAt, Started
<1>3. ASSUME NEW j \in Ids \ {i}
      PROVE  SoundAt(r, r, j) /\ NoNews(b, r, j) /\ (Known(b, b, now, j) => Known(r, r, now, j))
  BY <1>1, StillSound DEF Beside, Same
<1>4. Sound(r)
  BY <1>2, <1>3 DEF Sound
<1>5. QED
  BY <1>3, <1>4 DEF Handles, r

LEMMA HandlesOn ==
  ASSUME NEW b, NEW g, NEW r, NEW i, Handles(b, g, i), Handles(g, r, i)
  PROVE  Handles(b, r, i)
BY NoNewsOn DEF Handles

LEMMA MovesHandles ==
  ASSUME NEW b \in Books, Sound(b), NEW r, Moves(b, r, now), ~r.bad, NEW i
  PROVE  Handles(b, r, i) /\ \A j \in Ids : NoNews(b, r, j) /\ (Known(b, b, now, j) => Known(r, r, now, j))
<1>1. ASSUME NEW j \in Ids
      PROVE  SoundAt(r, r, j) /\ NoNews(b, r, j) /\ (Known(b, b, now, j) => Known(r, r, now, j))
  BY MovesSound DEF Sound
<1>2. QED
  BY <1>1 DEF Handles, Sound

LEMMA ClearedKeeps ==
  ASSUME NEW g \in Books, NEW i \in Ids, \A j \in Ids \ {i} : SoundAt(g, g, j), i \notin g.open, NEW old, now \in Nat
  PROVE  LET x == Cleared(g, old)
         IN  /\ x \in Books /\ Still(g, x, i)
             /\ \A j \in Ids \ {i} : /\ SoundAt(x, x, j) /\ NoNews(g, x, j)
                                     /\ Known(g, g, now, j) => Known(x, x, now, j)
<1>1. CASE old \in g.open
  <2> DEFINE x == CloseAt(g, old, g.mkt, now)
  <2>1. Cleared(g, old) = x /\ old \in Ids /\ old # i /\ g.mkt \in Outcomes
    BY <1>1, BookFields DEF Cleared
  <2>2. x \in Books /\ Same(g, x) /\ Beside(g, x, old) /\ Shut(g, x, old, g.mkt, now)
    BY <2>1, CloseLocal
  <2> HIDE DEF x
  <2>3. ClosedRow(g, old, g.mkt, now).st = "closed"
    BY NoRowType DEF ClosedRow, Row
  <2>4. SoundAt(x, x, old) /\ NoNews(g, x, old) /\ ~Known(g, g, now, old)
    BY <1>1, <2>1, <2>2, <2>3 DEF SoundAt, NoNews, Known, Shut
  <2>5. ASSUME NEW j \in Ids \ {i}, j # old
        PROVE  SoundAt(x, x, j) /\ NoNews(g, x, j) /\ (Known(g, g, now, j) => Known(x, x, now, j))
    BY <2>2, <2>5, StillSound DEF Beside, Same
  <2>6. Still(g, x, i)
    BY <2>1, <2>2 DEF Beside
  <2>7. QED
    BY <2>1, <2>2, <2>4, <2>5, <2>6
<1>2. CASE old \notin g.open
  <2>1. Cleared(g, old) = g
    BY <1>2 DEF Cleared
  <2>2. \A j \in Ids : Still(g, g, j) /\ NoNews(g, g, j)
    BY DEF Still, NoNews
  <2>3. QED
    BY <2>1, <2>2
<1>3. QED
  BY <1>1, <1>2

LEMMA GateMoves ==
  ASSUME NEW b \in Books, b.dec, ~b.bad, now \in Nat
  PROVE  LET g == Gate(b, now)
         IN  /\ g \in Books /\ Moves(b, g, now) /\ ~g.bad
             /\ \A j \in Ids : /\ SoundAt(b, b, j) => SoundAt(g, g, j) /\ NoNews(b, g, j)
                               /\ j \notin b.pend /\ j \notin b.open => Still(b, g, j)
                               /\ SoundAt(b, b, j) /\ Known(b, b, now, j) => Known(g, g, now, j)
             /\ Locks(b, b, now) => Locks(g, g, now)
<1> DEFINE g == Gate(b, now)
<1>1. g \in Books /\ Moves(b, g, now) /\ ~g.bad
  BY GateIs
<1> HIDE DEF g
<1>2. Locks(b, b, now) => Locks(g, g, now)
  BY <1>1 DEF Moves, Barred, Locks
<1>3. QED
  BY <1>1, <1>2, MovesSound DEF g

\* A decision keeps a book sound; it touches no other entry's row.
LEMMA ExecuteHandles ==
  ASSUME NEW b, Whole(b), b.dec, Sound(b), now \in Nat, NEW i \in Ids, b.rows[i].st = "none",
         NEW c \in Cells, NEW side \in Sides, NEW says, NEW bank \in BOOLEAN
  PROVE  Handles(b, ExecuteEntry(b, i, c, side, says, bank), i)
<1> DEFINE r == ExecuteEntry(b, i, c, side, says, bank)
           old == HeldIn(b, c)
           row == NewRow(c, side, old)
           g == Gate(b, now)
<1>0. b \in Books /\ ~b.bad
  BY DEF Whole
<1>1. \/ r = Ignored(b, i) \/ r = Rejected(b, i) \/ r = Rejected(g, i)
      \/ Admitted(b, g, i, c, row, old, r)
  BY <1>0, ExecuteIs
<1>2. old \in 0..MaxSignals
  BY <1>0, HeldIs
<1> HIDE DEF old
<1>3. row \in Row /\ row.st = "pending"
  BY <1>2, NewRowIs
<1>4. /\ g \in Books /\ Moves(b, g, now) /\ ~g.bad
      /\ \A j \in Ids : j \notin b.pend /\ j \notin b.open => Still(b, g, j)
  BY <1>0, GateMoves
<1> HIDE DEF g, row, r
<1>5. Handles(b, g, i)
  BY <1>0, <1>4, MovesHandles
<1>6. Sound(g) /\ g.rows[i].st = "none" /\ i \notin g.open
  BY <1>4, <1>5 DEF Handles, Sound, SoundAt, Still
<1>7. CASE r = Ignored(b, i) \/ r = Rejected(b, i)
  BY <1>0, <1>7, MarkHandles DEF r
<1>8. CASE r = Rejected(g, i)
  BY <1>4, <1>5, <1>6, <1>8, MarkHandles, HandlesOn DEF r
<1>9. CASE r = Place(g, i, row)
  BY <1>3, <1>4, <1>5, <1>6, <1>9, PlaceHandles, HandlesOn DEF r
<1>10. CASE r = OpenAt(Place(Cleared(g, old), i, row), i, now)
  <2> DEFINE x == Cleared(g, old)
             p == Place(x, i, row)
  <2>1. /\ x \in Books /\ Still(g, x, i)
        /\ \A j \in Ids \ {i} : /\ SoundAt(x, x, j) /\ NoNews(g, x, j)
                                /\ Known(g, g, now, j) => Known(x, x, now, j)
    BY <1>4, <1>6, ClearedKeeps DEF Sound
  <2> HIDE DEF x
  <2>2. SoundAt(x, x, i) /\ x.rows[i].st = "none"
    BY <1>6, <2>1 DEF Sound, SoundAt, Still
  <2>3. Sound(x) /\ Handles(g, x, i)
    BY <2>1, <2>2 DEF Sound, Handles
  <2>4. Handles(x, p, i) /\ p \in Books /\ p.rows[i] = row
    BY <1>3, <2>1, <2>2, <2>3, PlaceHandles, PlaceLocal
  <2> HIDE DEF p
  <2>5. r = OpenAt(p, i, now)
    BY <1>10 DEF p, x
  <2>6. Handles(p, r, i)
    BY <1>3, <2>4, <2>5, OpenHandles DEF Handles, Sound
  <2>7. QED
    BY <1>5, <2>3, <2>4, <2>6, HandlesOn DEF r
<1>11. QED
  BY <1>1, <1>7, <1>8, <1>9, <1>10 DEF Admitted

\* So does a fill, of an entry the handler's snapshot holds rightly.
LEMMA FilledHandles ==
  ASSUME NEW b, Whole(b), b.dec, Sound(b), now \in Nat, NEW i \in Ids, Known(b, b, now, i),
         NEW says, NEW stopped \in BOOLEAN
  PROVE  LET r == Filled(b, i, says, stopped)
         IN  Handles(b, r, i) /\ i \notin r.pend /\ r.rows[i].st # "none"
<1> DEFINE r == Filled(b, i, says, stopped)
           taken == [b EXCEPT !.pend = @ \ {i}]
           g == Gate(taken, now)
<1>0. b \in Books /\ ~b.bad
  BY DEF Whole
<1>1. \/ r = CancelEntry(b, i) \/ r = CancelEntry(g, i)
      \/ WaitingFilled(b, g, i, Replaced(b, i), r)
      \/ RestingFilled(b, g, i, Time, r)
  <2>1. CASE b.rows[i].kind = "rest"
    <3>1. r = FillResting(b, i, Time, says, stopped)
      BY <2>1 DEF Filled
    <3> HIDE DEF r
    <3>2. QED
      BY <1>0, <3>1, FillRestingIs
  <2>2. CASE b.rows[i].kind # "rest"
    <3>1. r = FillWaiting(b, i, says)
      BY <2>2 DEF Filled
    <3> HIDE DEF r
    <3>2. QED
      BY <1>0, <3>1, FillWaitingIs
  <2>3. QED
    BY <2>1, <2>2
<1>2. /\ taken \in Books /\ taken.resets = b.resets /\ taken.dec /\ ~taken.bad /\ taken.pend = b.pend \ {i}
      /\ taken.risk = b.risk /\ taken.rows = b.rows /\ taken.act = b.act /\ taken.open = b.open
  BY <1>0, TakenIs
<1>b. taken = [b EXCEPT !.pend = @ \ {i}]
  OBVIOUS
<1>3. /\ g \in Books /\ Moves(taken, g, now) /\ ~g.bad
      /\ \A j \in Ids : /\ SoundAt(taken, taken, j) => SoundAt(g, g, j) /\ NoNews(taken, g, j)
                        /\ j \notin taken.pend /\ j \notin taken.open => Still(taken, g, j)
                        /\ SoundAt(taken, taken, j) /\ Known(taken, taken, now, j) => Known(g, g, now, j)
      /\ Locks(taken, taken, now) => Locks(g, g, now)
  <2> HIDE DEF taken
  <2>1. QED
    BY <1>2, GateMoves
<1> HIDE DEF taken, g, r
<1>a. Locks(b, b, now) => Locks(taken, taken, now)
  BY <1>2 DEF Locks
<1>4. b.rows[i].st \in {"pending", "gone"} /\ i \notin b.open /\ (b.rows[i].st # "pending" => Locks(b, b, now))
  BY DEF Known, Sound, SoundAt
<1>5. ASSUME NEW j \in Ids \ {i}
      PROVE  /\ SoundAt(taken, taken, j) /\ NoNews(b, taken, j)
             /\ Known(b, b, now, j) => Known(taken, taken, now, j)
  BY <1>2 DEF Sound, SoundAt, NoNews, Known, Locks
<1>6. Still(taken, g, i)
  BY <1>2, <1>3, <1>4
<1>7. ASSUME NEW j \in Ids \ {i}
      PROVE  /\ SoundAt(g, g, j) /\ NoNews(b, g, j)
             /\ Known(b, b, now, j) => Known(g, g, now, j)
  BY <1>3, <1>5, NoNewsOn
<1>8. g.rows[i] = b.rows[i] /\ g.act[i] = b.act[i] /\ i \notin g.open /\ i \notin g.pend
  BY <1>2, <1>4, <1>6 DEF Still
<1>9. CASE r = CancelEntry(b, i)
  <2>1. Handles(b, r, i)
    BY <1>0, <1>4, <1>9, CancelHandles
  <2>2. Cancelled(b, r, i)
    BY <1>0, <1>9, CancelLocal
  <2>3. QED
    BY <1>4, <2>1, <2>2, NoRowType DEF Cancelled, r
<1>10. CASE r = CancelEntry(g, i)
  <2>1. r \in Books /\ Same(g, r) /\ Beside(g, r, i) /\ Cancelled(g, r, i)
    BY <1>3, <1>10, CancelLocal
  <2>2. SoundAt(r, r, i) /\ i \notin r.pend /\ r.rows[i].st # "none"
    BY <1>4, <1>8, <2>1, NoRowType DEF SoundAt, Cancelled
  <2>3. ASSUME NEW j \in Ids \ {i}
        PROVE  SoundAt(r, r, j) /\ NoNews(b, r, j) /\ (Known(b, b, now, j) => Known(r, r, now, j))
    <3>1. SoundAt(r, r, j) /\ NoNews(g, r, j) /\ (Known(g, g, now, j) => Known(r, r, now, j))
      BY <1>7, <2>1, StillSound DEF Beside, Same
    <3>2. QED
      BY <3>1, <1>7, NoNewsOn
  <2>4. QED
    BY <2>2, <2>3 DEF Handles, Sound, r
<1>11. ASSUME Allowed(taken, g, b.rows[i].cell)
       PROVE  b.rows[i].st = "pending" /\ ~Locks(g, g, now)
  <2>1. ~Locks(g, g, now)
    BY <1>11 DEF Allowed, Locks
  <2>2. ~Locks(b, b, now)
    BY <2>1, <1>3, <1>a
  <2>3. QED
    BY <2>1, <2>2, <1>4
<1>12. ASSUME NEW x \in Books, NEW held, x = Cleared(g, held), b.rows[i].st = "pending"
       PROVE  /\ Handles(b, OpenAt(x, i, now), i) /\ i \notin OpenAt(x, i, now).pend
              /\ i \in OpenAt(x, i, now).open /\ OpenAt(x, i, now) \in Books /\ OpenAt(x, i, now).rows[i].st # "none"
  <2>1. /\ Still(g, x, i)
        /\ \A j \in Ids \ {i} : /\ SoundAt(x, x, j) /\ NoNews(g, x, j)
                                /\ Known(g, g, now, j) => Known(x, x, now, j)
    BY <1>3, <1>7, <1>8, <1>12, ClearedKeeps
  <2>2. x.rows[i].st = "pending"
    BY <1>8, <1>12, <2>1 DEF Still
  <2> DEFINE o == OpenAt(x, i, now)
  <2>3. Handles(x, o, i)
    BY <2>1, <2>2, <1>12, OpenHandles
  <2>4. Started(x, o, i) /\ o \in Books
    BY <1>12, OpenLocal
  <2> HIDE DEF o
  <2>5. ASSUME NEW j \in Ids \ {i}
        PROVE  NoNews(b, o, j) /\ (Known(b, b, now, j) => Known(o, o, now, j))
    BY <1>7, <2>1, <2>3, NoNewsOn DEF Handles
  <2>6. QED
    BY <2>2, <2>3, <2>4, <2>5 DEF Handles, Started, o
<1>13. CASE WaitingFilled(b, g, i, Replaced(b, i), r)
  <2>1. r = OpenAt(Cleared(g, Replaced(b, i)), i, now) /\ Allowed(taken, g, b.rows[i].cell)
    BY <1>13, <1>b DEF WaitingFilled
  <2>2. Cleared(g, Replaced(b, i)) \in Books
    BY <1>3, <1>7, <1>8, ClearedKeeps
  <2>3. b.rows[i].st = "pending"
    BY <2>1, <1>11
  <2>4. QED
    BY <2>1, <2>2, <2>3, <1>12 DEF r
<1>14. CASE RestingFilled(b, g, i, Time, r)
  <2> DEFINE o == OpenAt(g, i, now)
  <2>1. (r = o \/ r = CloseAt(o, i, -1, now)) /\ Allowed(taken, g, b.rows[i].cell)
    BY <1>14, <1>b DEF RestingFilled
  <2>2. b.rows[i].st = "pending"
    BY <2>1, <1>11
  <2>3. Cleared(g, i) = g
    BY <1>8 DEF Cleared
  <2>4. Handles(b, o, i) /\ i \notin o.pend /\ i \in o.open /\ o \in Books /\ o.rows[i].st # "none"
    BY <1>3, <1>12, <2>2, <2>3
  <2> HIDE DEF o
  <2>5. CASE r = o
    BY <2>4, <2>5 DEF r
  <2>6. CASE r = CloseAt(o, i, -1, now)
    <3>1. -1 \in Outcomes /\ Sound(o)
      BY <2>4 DEF Outcomes, Handles
    <3>2. Handles(o, r, i) /\ NoNews(o, r, i) /\ i \notin r.pend
      BY <2>4, <2>6, <3>1, CloseHandles
    <3>3. Shut(o, r, i, -1, now)
      BY <2>4, <2>6, <3>1, CloseLocal
    <3>4. ClosedRow(o, i, -1, now).st = "closed"
      BY NoRowType DEF ClosedRow, Row
    <3>5. QED
      BY <2>4, <3>2, <3>3, <3>4, HandlesOn DEF r, Shut
  <2>7. QED
    BY <2>1, <2>5, <2>6
<1>15. QED
  BY <1>1, <1>9, <1>10, <1>13, <1>14

----------------------------------------------------------------------------
(* Memory, table and signals agree: the invariant.                          *)

LEMMA TailIn ==
  ASSUME NEW w \in Seq(Items), w # <<>>, NEW G, \A k \in 1..Len(w) : w[k] \in G, Orders(w)
  PROVE  /\ \A k \in 1..Len(Tail(w)) : Tail(w)[k] \in G
         /\ Orders(Tail(w)) /\ Head(w) \in G
         /\ \A k \in 1..Len(Tail(w)) : Tail(w)[k].op = Head(w).op /\ Head(w).op \in {"fill", "drop"}
                                         => Tail(w)[k].id # Head(w).id
<1>1. /\ \A k \in 1..Len(Tail(w)) : Tail(w)[k] = w[k + 1] /\ k + 1 \in 1..Len(w) /\ k \in Nat
      /\ Head(w) = w[1] /\ 1 \in 1..Len(w)
  BY TailIs
<1>2. \A k \in 1..Len(Tail(w)) : Tail(w)[k] \in G
  BY <1>1
<1>3. ASSUME NEW j \in 1..Len(Tail(w)), NEW k \in 1..Len(Tail(w)), j < k,
             Tail(w)[j].op = Tail(w)[k].op, Tail(w)[k].op \in {"fill", "drop"}
      PROVE  Tail(w)[j].id # Tail(w)[k].id
  <2>1. j + 1 < k + 1 /\ j + 1 \in 1..Len(w) /\ k + 1 \in 1..Len(w)
    BY <1>1, <1>3
  <2>2. Tail(w)[j] = w[j + 1] /\ Tail(w)[k] = w[k + 1]
    BY <1>1
  <2>3. QED
    BY <1>3, <2>1, <2>2 DEF Orders
<1>4. ASSUME NEW k \in 1..Len(Tail(w)), Tail(w)[k].op = Head(w).op, Head(w).op \in {"fill", "drop"}
      PROVE  Tail(w)[k].id # Head(w).id
  <2>1. 1 < k + 1 /\ k + 1 \in 1..Len(w) /\ Tail(w)[k] = w[k + 1]
    BY <1>1
  <2>2. QED
    BY <1>1, <1>4, <2>1 DEF Orders
<1>5. Orders(Tail(w))
  BY <1>3 DEF Orders
<1>6. QED
  BY <1>1, <1>2, <1>4, <1>5

LEMMA NextIn ==
  ASSUME NEW items \in Seq(Items), NextWork(items), NEW G, \A x \in Items : x.op \in LateOps => x \in G,
         \A k \in 1..Len(items) : items[k] \in G, Orders(items)
  PROVE  (\A k \in 1..Len(work') : work'[k] \in G) /\ Orders(work')
<1>1. CASE work' = items
  BY <1>1
<1>2. CASE AllLate(work')
  <2>1. \A k \in 1..Len(work') : work'[k] \in Items /\ work'[k].op \in LateOps
    BY <1>2 DEF AllLate, NextWork
  <2>2. QED
    BY Zenon, <2>1 DEF Orders, LateOps
<1>3. QED
  BY <1>1, <1>2 DEF NextWork

LEMMA TradesIn ==
  ASSUME NEW w \in Seq(Items), NEW b, b.ev \in Seq(Ids), NEW loud \in BOOLEAN,
         NEW G, \A x \in Items : x.op = "trade" => x \in G,
         \A k \in 1..Len(w) : w[k] \in G, Orders(w)
  PROVE  LET items == Trades(b, loud) \o w
         IN items \in Seq(Items) /\ (\A k \in 1..Len(items) : items[k] \in G) /\ Orders(items)
<1> DEFINE t == Trades(b, loud)
           z == t \o w
<1>1. t \in Seq(Items) /\ Len(t) \in Nat /\ \A k \in 1..Len(t) : t[k].op = "trade"
  BY TradesIs
<1> HIDE DEF t
<1>2. /\ z \in Seq(Items) /\ Len(w) \in Nat /\ Len(z) = Len(t) + Len(w)
      /\ \A k \in 1..Len(z) : \/ k \in 1..Len(t) /\ z[k] = t[k]
                              \/ k - Len(t) \in 1..Len(w) /\ z[k] = w[k - Len(t)]
  BY <1>1, JoinIs
<1> HIDE DEF z
<1>3. \A k \in 1..Len(t) : t[k] \in G
  BY <1>1
<1>4. \A k \in 1..Len(z) : z[k] \in G
  BY <1>2, <1>3
<1>5. ASSUME NEW j \in 1..Len(z), NEW k \in 1..Len(z), j < k, z[j].op = z[k].op, z[k].op \in {"fill", "drop"}
      PROVE  z[j].id # z[k].id
  <2>1. j - Len(t) \in 1..Len(w) /\ z[j] = w[j - Len(t)]
    BY <1>1, <1>2, <1>5
  <2>2. k - Len(t) \in 1..Len(w) /\ z[k] = w[k - Len(t)]
    BY <1>1, <1>2, <1>5
  <2>3. j - Len(t) < k - Len(t)
    BY <1>1, <1>5
  <2>4. QED
    BY <1>5, <2>1, <2>2, <2>3 DEF Orders
<1>6. Orders(z)
  BY <1>5 DEF Orders
<1>7. QED
  BY <1>2, <1>4, <1>6 DEF z, t

\* every item but the first is in the tail
LEMMA OneLess == ASSUME NEW n \in Nat, NEW m \in 1..n, m # 1 PROVE m - 1 \in 1..(n - 1) /\ (m - 1) + 1 = m
OBVIOUS

LEMMA OneBefore ==
  ASSUME NEW w \in Seq(Items), w # <<>>, NEW k \in 1..Len(w), k # 1
  PROVE  \E n \in 1..Len(Tail(w)) : Tail(w)[n] = w[k]
<1>1. /\ Len(w) \in Nat /\ Len(Tail(w)) = Len(w) - 1
      /\ \A n \in 1..Len(Tail(w)) : Tail(w)[n] = w[n + 1]
  BY TailIs
<1>2. k - 1 \in 1..(Len(w) - 1) /\ (k - 1) + 1 = k
  BY <1>1, OneLess
<1>3. QED
  BY <1>1, <1>2

\* Every item but those of the start has nothing dropped behind it.
LEMMA NoDrops ==
  ASSUME Types, work # <<>>, Head(work).op \in LateOps \cup {"trade", "fill", "cancel", "missed", "first tick", "stamp"}
  PROVE  (\A k \in 1..Len(work) : work[k].op # "drop") /\ Drops(work) = {}
<1>1. /\ work \in Seq(Items)
      /\ \A k \in 1..Len(Tail(work)) : Follows(Head(work).op, Tail(work)[k].op)
  BY Zenon, Behind DEF Types
<1>2. ASSUME NEW k \in 1..Len(work) PROVE work[k].op # "drop"
  <2>1. CASE k = 1
    BY Zenon, <1>1, <2>1, TailIs DEF LateOps
  <2>2. CASE k # 1
    <3>1. PICK n \in 1..Len(Tail(work)) : Tail(work)[n] = work[k]
      BY Zenon, <1>1, <2>2, OneBefore
    <3>2. Follows(Head(work).op, work[k].op)
      BY Zenon, <1>1, <3>1
    <3>3. QED
      BY Zenon, <3>2 DEF Follows, LateOps
  <2>3. QED
    BY Zenon, <2>1, <2>2
<1>3. QED
  BY Zenon, <1>2 DEF Drops

\* a sound book is the whole of the agreement while nothing is dropped
LEMMA AgreesInBook ==
  ASSUME Types, Agree, up, Drops(work) = {}, NEW b, InBook(b)
  PROVE  /\ Sound(b) /\ \A i \in Ids : i > seen => b.rows[i].st = "none"
         /\ \A k \in 1..Len(work) : Fits(b, b, now, work[k])
<1>1. b.rows = disk.rows /\ b.act = disk.act /\ b.open = mem.open /\ b.pend = mem.pend /\ b.risk = mem.risk
      /\ b.resets = disk.resets
  BY DEF InBook
<1>2. Sound(b) /\ \A i \in Ids : i > seen => b.rows[i].st = "none"
  BY <1>1 DEF Agree, Sound, SoundAt
<1>3. \A k \in 1..Len(work) : Fits(b, b, now, work[k])
  BY <1>1 DEF Agree, Fits, Known, Locks
<1>4. QED
  BY <1>2, <1>3

LEMMA AgreeMade ==
  ASSUME Types, NEW r, Whole(r), Sound(r), disk' = Durable(r), mem' = Volatile(r), now' = now,
         \A k \in 1..Len(work') : Fits(r, r, now, work'[k]) /\ work'[k].op # "drop", Orders(work'),
         \A j \in Ids : j > seen' => r.rows[j].st = "none"
  PROVE  Agree'
<1>1. /\ disk'.rows = r.rows /\ disk'.act = r.act /\ mem'.open = r.open /\ mem'.pend = r.pend /\ mem'.risk = r.risk
      /\ disk'.resets = r.resets
  BY Kept
<1>2. Drops(work') = {}
  BY DEF Drops
<1>3. \A k \in 1..Len(work') : Fits(disk', mem', now', work'[k])
  BY <1>1 DEF Fits, Known, Locks
<1>4. QED
  BY <1>1, <1>2, <1>3 DEF Agree, Sound, SoundAt

\* What one transaction leaves of the handler's items.
LEMMA FitsOn ==
  ASSUME NEW b, NEW r, NEW i, Handles(b, r, i), NEW x \in Items, Fits(b, b, now, x),
         x.op = "fill" => x.id # i, x.op \notin {"cancel", "drop", "dropped"}
  PROVE  Fits(r, r, now, x)
<1>1. CASE x.op = "fill"
  <2>1. x.id \in Ids \ {i}
    BY <1>1, ItemFields DEF EntryOps
  <2>2. NoNews(b, r, x.id) /\ (Known(b, b, now, x.id) => Known(r, r, now, x.id))
    BY <2>1 DEF Handles
  <2>3. QED
    BY <1>1, <2>2 DEF Fits, NoNews
<1>2. QED
  BY <1>1 DEF Fits

LEMMA LateFits ==
  ASSUME NEW d, NEW m, NEW t, NEW x \in Items, x.op \in LateOps \cup {"trade"}
  PROVE  Fits(d, m, t, x) /\ x.op # "drop"
BY Zenon DEF Fits, LateOps

LEMMA TransactionAgrees ==
  ASSUME Types, Agree, Runs, NEW b, InBook(b), NEW r, NEW i, Handles(b, r, i), NEW loud \in BOOLEAN, Committed(r, loud),
         Head(work).op \in LateOps \cup {"trade", "fill"},
         \A k \in 1..Len(Tail(work)) : Tail(work)[k].op = "fill" => Tail(work)[k].id # i,
         i \in Ids => (b.rows[i].st = "none" => r.rows[i].st = "none")
  PROVE  Agree'
<1> DEFINE G == {x \in Items : Fits(r, r, now, x) /\ x.op # "drop"}
<1>1. /\ up /\ now' = now /\ work # <<>> /\ seen' = seen
      /\ Whole(r) /\ disk' = Durable(r) /\ mem' = Volatile(r)
      /\ NextWork(Trades(r, loud) \o Tail(work))
  BY DEF Runs, Committed
<1>2. /\ work \in Seq(Items) /\ Tail(work) \in Seq(Items)
      /\ \A k \in 1..Len(Tail(work)) : Follows(Head(work).op, Tail(work)[k].op)
  BY <1>1, Behind DEF Types
<1>3. Drops(work) = {}
  BY Zenon, <1>1, NoDrops
<1>4. /\ Sound(b) /\ \A j \in Ids : j > seen => b.rows[j].st = "none"
      /\ \A k \in 1..Len(work) : Fits(b, b, now, work[k])
  BY <1>1, <1>3, AgreesInBook
<1>5. ASSUME NEW k \in 1..Len(Tail(work)) PROVE Tail(work)[k] \in G
  <2>1. Tail(work)[k] \in Items /\ Fits(b, b, now, Tail(work)[k])
    BY <1>1, <1>2, <1>4, TailIs
  <2>2. Tail(work)[k].op \notin {"cancel", "drop", "dropped"}
    BY Zenon, <1>2 DEF Follows, LateOps
  <2>3. QED
    BY <2>1, <2>2, FitsOn
<1>6. \A x \in Items : x.op \in LateOps \cup {"trade"} => x \in G
  BY LateFits
<1>7. Orders(Tail(work))
  <2>1. \A k \in 1..Len(work) : work[k] \in Items
    BY <1>2
  <2>2. QED
    BY <1>1, <1>2, <2>1, TailIn DEF Agree
<1>8. r.ev \in Seq(Ids) /\ Sound(r)
  BY <1>1, BookFields DEF Whole, Handles
<1> HIDE DEF G
<1> DEFINE items == Trades(r, loud) \o Tail(work)
<1>9. items \in Seq(Items) /\ (\A k \in 1..Len(items) : items[k] \in G) /\ Orders(items)
  BY <1>2, <1>5, <1>6, <1>7, <1>8, TradesIn
<1>10. NextWork(items)
  BY <1>1
<1> HIDE DEF items
<1>11. (\A k \in 1..Len(work') : work'[k] \in G) /\ Orders(work')
  BY <1>6, <1>9, <1>10, NextIn
<1>12. \A j \in Ids : j > seen' => r.rows[j].st = "none"
  BY <1>1, <1>4 DEF Handles, NoNews
<1>13. \A k \in 1..Len(work') : Fits(r, r, now, work'[k]) /\ work'[k].op # "drop"
  BY <1>11 DEF G
<1>14. QED
  BY <1>1, <1>8, <1>11, <1>12, <1>13, AgreeMade

\* Nothing of the book changes: an item passes by, or a handler begins.
LEMMA StayAgrees ==
  ASSUME Types, Agree, up, now' = now, seen' = seen, disk' = disk, mem' = mem, Drops(work) = {},
         NEW items \in Seq(Items), NextWork(items),
         \A k \in 1..Len(items) : Fits(disk, mem, now, items[k]) /\ items[k].op # "drop", Orders(items)
  PROVE  Agree'
<1> DEFINE G == {x \in Items : Fits(disk, mem, now, x) /\ x.op # "drop"}
<1>1. \A x \in Items : x.op \in LateOps => x \in G
  BY LateFits
<1>2. \A k \in 1..Len(items) : items[k] \in G
  OBVIOUS
<1> HIDE DEF G
<1>3. (\A k \in 1..Len(work') : work'[k] \in G) /\ Orders(work')
  BY <1>1, <1>2, NextIn
<1>4. \A k \in 1..Len(work') : Fits(disk', mem', now', work'[k]) /\ work'[k].op # "drop"
  BY <1>3 DEF G
<1>5. Drops(work') = {}
  BY <1>4 DEF Drops
<1>6. QED
  BY <1>3, <1>4, <1>5 DEF Agree

\* so does the handler with the rest of its items, or without them
LEMMA LeftAgrees ==
  ASSUME Types, Agree, Runs, Head(work).op \in LateOps \cup {"trade", "fill", "cancel"},
         NEW items, Left(items), items = Tail(work) \/ items = <<>>
  PROVE  Agree'
<1>1. up /\ now' = now /\ work # <<>> /\ seen' = seen /\ disk' = disk /\ mem' = mem /\ NextWork(items)
  BY DEF Runs, Left
<1>2. (\A k \in 1..Len(work) : work[k].op # "drop") /\ Drops(work) = {}
  BY Zenon, <1>1, NoDrops
<1>3. CASE items = <<>>
  <2>1. items \in Seq(Items) /\ Orders(items) /\ \A k \in 1..Len(items) : FALSE
    BY <1>3 DEF Orders
  <2>2. QED
    BY <1>1, <1>2, <2>1, StayAgrees
<1>4. CASE items = Tail(work)
  <2> DEFINE G == {x \in Items : Fits(disk, mem, now, x) /\ x.op # "drop"}
  <2>1. work \in Seq(Items) /\ \A k \in 1..Len(work) : work[k] \in G
    BY <1>2 DEF Types, Agree
  <2> HIDE DEF G
  <2>2. (\A k \in 1..Len(Tail(work)) : Tail(work)[k] \in G) /\ Orders(Tail(work)) /\ Tail(work) \in Seq(Items)
    BY <1>1, <2>1, TailIn, TailIs DEF Agree
  <2>3. \A k \in 1..Len(items) : Fits(disk, mem, now, items[k]) /\ items[k].op # "drop"
    BY <1>4, <2>2 DEF G
  <2>4. QED
    BY <1>1, <1>2, <1>4, <2>2, <2>3, StayAgrees
<1>5. QED
  BY <1>3, <1>4

\* Cancelling leaves the other entries to be cancelled.
LEMMA CancelAgrees ==
  ASSUME Types, Agree, Runs, Entry \in Ids, Head(work).op \in LateOps \cup {"cancel"},
         disk.rows[Entry].st \in {"pending", "gone"}, Committed(CancelEntry(Decision(-1), Entry), FALSE)
  PROVE  Agree'
<1> DEFINE b == Decision(-1)
           r == CancelEntry(b, Entry)
           i == Entry
           G == {x \in Items : Fits(r, r, now, x) /\ x.op # "drop"}
<1>1. /\ up /\ now' = now /\ work # <<>> /\ seen' = seen
      /\ Whole(r) /\ disk' = Durable(r) /\ mem' = Volatile(r)
      /\ NextWork(Trades(r, FALSE) \o Tail(work))
  BY DEF Runs, Committed
<1>2. /\ work \in Seq(Items) /\ Tail(work) \in Seq(Items)
      /\ \A k \in 1..Len(Tail(work)) : Follows(Head(work).op, Tail(work)[k].op)
  BY <1>1, Behind DEF Types
<1>3. Drops(work) = {}
  BY Zenon, <1>1, NoDrops
<1>a. InBook(b) /\ b \in Books
  <2>1. -1 \in Outcomes
    BY DEF Outcomes
  <2>2. QED
    BY <1>1, <2>1, BookIs DEF InBook, Whole
<1>b. b.rows = disk.rows /\ b.rows[i].st \in {"pending", "gone"}
  BY <1>a DEF InBook
<1> HIDE DEF b
<1>4. /\ Sound(b) /\ \A j \in Ids : j > seen => b.rows[j].st = "none"
      /\ \A k \in 1..Len(work) : Fits(b, b, now, work[k])
  BY <1>1, <1>3, <1>a, AgreesInBook
<1>5. Beside(b, r, i) /\ Cancelled(b, r, i) /\ r.ev = b.ev /\ Handles(b, r, i)
  BY <1>4, <1>a, <1>b, CancelLocal, CancelHandles
<1> HIDE DEF r, i
<1>6. ASSUME NEW k \in 1..Len(Tail(work)) PROVE Tail(work)[k] \in G
  <2>1. Tail(work)[k] \in Items /\ Fits(b, b, now, Tail(work)[k])
    BY <1>1, <1>2, <1>4, TailIs
  <2>2. Tail(work)[k].op \in LateOps \cup {"cancel"}
    BY Zenon, <1>2 DEF Follows, LateOps
  <2>3. CASE Tail(work)[k].op \in LateOps
    BY <2>1, <2>3, LateFits DEF G
  <2>4. CASE Tail(work)[k].op = "cancel"
    <3> DEFINE j == Tail(work)[k].id
    <3>1. j \in Ids /\ b.rows[j].st \in {"pending", "gone"}
      BY <2>1, <2>4, ItemFields DEF EntryOps, Fits
    <3>2. CASE j = i
      <4>1. r.rows[i].st = "gone"
        BY <1>5, <3>1, <3>2, NoRowType DEF Cancelled
      <4>2. QED
        BY <2>1, <2>4, <3>2, <4>1 DEF Fits, G
    <3>3. CASE j # i
      <4>1. r.rows[j] = b.rows[j]
        BY <1>5, <3>1, <3>3 DEF Beside, Still
      <4>2. QED
        BY <2>1, <2>4, <3>1, <4>1 DEF Fits, G
    <3>4. QED
      BY <3>2, <3>3
  <2>5. QED
    BY <2>2, <2>3, <2>4
<1>7. \A x \in Items : x.op \in LateOps \cup {"trade"} => x \in G
  BY LateFits
<1>8. Orders(Tail(work))
  <2>1. \A k \in 1..Len(work) : work[k] \in Items
    BY <1>2
  <2>2. QED
    BY <1>1, <1>2, <2>1, TailIn DEF Agree
<1>9. r.ev \in Seq(Ids) /\ Sound(r)
  BY <1>1, <1>5, BookFields DEF Whole, Handles
<1> HIDE DEF G
<1> DEFINE items == Trades(r, FALSE) \o Tail(work)
<1>10. items \in Seq(Items) /\ (\A k \in 1..Len(items) : items[k] \in G) /\ Orders(items)
  BY <1>2, <1>6, <1>7, <1>8, <1>9, TradesIn
<1>11. NextWork(items)
  BY <1>1
<1> HIDE DEF items
<1>12. (\A k \in 1..Len(work') : work'[k] \in G) /\ Orders(work')
  BY <1>7, <1>10, <1>11, NextIn
<1>13. \A j \in Ids : j > seen' => r.rows[j].st = "none"
  <2>1. ASSUME NEW j \in Ids, j > seen' PROVE r.rows[j].st = "none"
    <3>1. b.rows[j].st = "none" /\ j # i
      BY <1>1, <1>4, <1>b, <2>1 DEF i
    <3>2. QED
      BY <1>5, <2>1, <3>1 DEF Beside, Still
  <2>2. QED
    BY <2>1
<1>14. \A k \in 1..Len(work') : Fits(r, r, now, work'[k]) /\ work'[k].op # "drop"
  BY <1>12 DEF G
<1>15. QED
  BY <1>1, <1>9, <1>12, <1>13, <1>14, AgreeMade

----------------------------------------------------------------------------
(* Every step keeps the agreement.                                          *)

LEMMA DecideAgrees ==
  ASSUME Types, Agree, Decide
  PROVE  Agree'
<1>1. /\ up /\ up' /\ now' = now /\ work = <<>>
      /\ \/ disk' = disk /\ mem' = mem /\ work' = <<>> /\ seen' = seen
         \/ /\ seen + 1 \in Ids /\ seen' = seen + 1
            /\ \E c \in Cells, side \in Sides, says \in Verdicts, bank \in BOOLEAN, m \in Outcomes : \E r :
                 /\ r = ExecuteEntry(Decision(m), seen + 1, c, side, says, bank)
                 /\ Whole(r) /\ disk' = Durable(r) /\ mem' = Volatile(r) /\ work' = Trades(r, FALSE)
  BY DecideIs DEF Begins
<1>2. CASE disk' = disk /\ mem' = mem /\ work' = <<>> /\ seen' = seen
  BY <1>1, <1>2 DEF Agree, Drops, Orders
<1>3. CASE seen + 1 \in Ids /\ seen' = seen + 1
  <2>1. PICK c \in Cells, side \in Sides, says \in Verdicts, bank \in BOOLEAN, m \in Outcomes : \E r :
          /\ r = ExecuteEntry(Decision(m), seen + 1, c, side, says, bank)
          /\ Whole(r) /\ disk' = Durable(r) /\ mem' = Volatile(r) /\ work' = Trades(r, FALSE)
    <3>1. CASE seen' = seen
      BY <1>3, <3>1 DEF Types
    <3>2. CASE seen' # seen
      BY <1>1, <3>2
    <3>3. QED
      BY <3>1, <3>2
  <2> DEFINE b == Decision(m)
             i == seen + 1
             r == ExecuteEntry(b, i, c, side, says, bank)
             G == {x \in Items : Fits(r, r, now, x) /\ x.op # "drop"}
  <2>2. Whole(r) /\ disk' = Durable(r) /\ mem' = Volatile(r) /\ work' = Trades(r, FALSE)
    BY <2>1
  <2>3. InBook(b) /\ b.dec /\ now \in Nat /\ seen \in Nat
    <3>1. InBook(b) /\ b.dec
      BY <1>1, BookIs
    <3>2. now \in Nat /\ seen \in Nat
      BY DEF Types
    <3>3. QED
      BY <3>1, <3>2
  <2>4. Drops(work) = {}
    BY <1>1 DEF Drops
  <2> HIDE DEF b
  <2>5. Sound(b) /\ \A j \in Ids : j > seen => b.rows[j].st = "none"
    BY <1>1, <2>3, <2>4, AgreesInBook
  <2>6. i \in Ids /\ b.rows[i].st = "none" /\ Whole(b)
    BY <1>3, <2>3, <2>5 DEF InBook
  <2>7. Handles(b, r, i)
    BY <2>3, <2>5, <2>6, ExecuteHandles
  <2>8. r.ev \in Seq(Ids) /\ Sound(r)
    BY <2>2, <2>7, BookFields DEF Whole, Handles
  <2>9. \A j \in Ids : j > seen' => r.rows[j].st = "none"
    <3>1. ASSUME NEW j \in Ids, j > seen' PROVE r.rows[j].st = "none"
      <4>1. j > seen /\ j \in Ids \ {i}
        BY <1>3, <2>3, <3>1 DEF Ids
      <4>2. QED
        BY <2>5, <2>7, <4>1 DEF Handles, NoNews
    <3>2. QED
      BY <3>1
  <2> HIDE DEF r, i
  <2>10. \A x \in Items : x.op \in LateOps \cup {"trade"} => x \in G
    BY LateFits
  <2>11. work' \in Seq(Items) /\ \A k \in 1..Len(work') : work'[k].op = "trade"
    BY <2>2, <2>8, TradesIs
  <2>12. \A k \in 1..Len(work') : Fits(r, r, now, work'[k]) /\ work'[k].op # "drop"
    BY <2>11, LateFits
  <2>13. Orders(work')
    BY <2>11 DEF Orders
  <2>14. QED
    BY <1>1, <2>2, <2>8, <2>9, <2>12, <2>13, AgreeMade
<1>4. QED
  BY <1>1, <1>2, <1>3

LEMMA FillEntryAgrees ==
  ASSUME Types, Agree, FillEntry
  PROVE  Agree'
<1>1. /\ Runs /\ Running("fill") /\ Entry \in Ids
      /\ \/ Left(Tail(work))
         \/ \E touched \in BOOLEAN, says \in Verdicts, stopped \in BOOLEAN, m \in Outcomes : \E r :
              /\ Reaches(disk.rows[Entry], Via, Time, touched)
              /\ r = Filled(Decision(m), Entry, says, stopped)
              /\ Committed(r, FALSE)
  BY FillEntryIs
<1>2. up /\ work # <<>> /\ Head(work).op = "fill" /\ Head(work) = work[1] /\ 1 \in 1..Len(work) /\ now \in Nat
  BY <1>1, HeadIs DEF Types
<1>3. CASE Left(Tail(work))
  BY <1>1, <1>2, <1>3, LeftAgrees
<1>4. ASSUME NEW says \in Verdicts, NEW stopped \in BOOLEAN, NEW m \in Outcomes,
             Committed(Filled(Decision(m), Entry, says, stopped), FALSE)
      PROVE  Agree'
  <2> DEFINE b == Decision(m)
             i == Entry
             r == Filled(b, i, says, stopped)
  <2>1. InBook(b) /\ b.dec
    BY <1>2, BookIs
  <2> HIDE DEF b
  <2>2. Drops(work) = {}
    BY Zenon, <1>2, NoDrops
  <2>3. Sound(b) /\ Fits(b, b, now, Head(work))
    BY <1>2, <2>1, <2>2, AgreesInBook
  <2>4. Known(b, b, now, i) /\ i \in Ids /\ Whole(b)
    BY <1>1, <1>2, <2>1, <2>3 DEF Fits, InBook, Entry
  <2>5. Handles(b, r, i) /\ b.rows[i].st # "none"
    <3>1. Handles(b, r, i)
      BY <1>2, <2>1, <2>3, <2>4, FilledHandles
    <3>2. b.rows[i].st # "none"
      BY <2>3, <2>4 DEF Known, Sound, SoundAt
    <3>3. QED
      BY <3>1, <3>2
  <2>6. Committed(r, FALSE)
    BY <1>4 DEF b
  <2>7. \A k \in 1..Len(Tail(work)) : Tail(work)[k].op = "fill" => Tail(work)[k].id # i
    <3>1. work \in Seq(Items) /\ \A k \in 1..Len(work) : work[k] \in Items
      BY DEF Types
    <3>2. \A k \in 1..Len(Tail(work)) : Tail(work)[k].op = Head(work).op /\ Head(work).op \in {"fill", "drop"}
                                         => Tail(work)[k].id # Head(work).id
      BY <1>2, <3>1, TailIn DEF Agree
    <3>3. QED
      BY <1>2, <3>2 DEF Entry
  <2> HIDE DEF r, i
  <2>8. Head(work).op \in LateOps \cup {"trade", "fill"}
    BY <1>2
  <2>r. Runs
    BY <1>1
  <2>9. ASSUME NEW loud \in BOOLEAN, Committed(r, loud) PROVE Agree'
    BY <2>r, <2>1, <2>5, <2>7, <2>8, <2>9, TransactionAgrees
  <2>10. QED
    BY <2>6, <2>9
<1>5. QED
  BY <1>1, <1>3, <1>4

\* A handler begins with items that fit.
LEMMA BeginAgrees ==
  ASSUME Types, Agree, Begins, seen' = seen, NEW items, Left(items),
         \A k \in 1..Len(items) : Fits(disk, mem, now, items[k]) /\ items[k].op # "drop", Orders(items),
         items \in Seq(Items)
  PROVE  Agree'
<1>1. up /\ now' = now /\ work = <<>> /\ disk' = disk /\ mem' = mem /\ NextWork(items)
  BY DEF Begins, Left
<1>2. Drops(work) = {}
  BY <1>1 DEF Drops
<1>3. QED
  BY <1>1, <1>2, StayAgrees

LEMMA OffersAgree ==
  ASSUME Types, Agree, Begins, seen' = seen, NEW items \in Seq(Items), NEW time \in 0..now, NEW via \in {"print", "bar"},
         Left(items), Offers(items, via, time)
  PROVE  Agree'
<1>1. \A k \in 1..Len(items) : items[k] \in Items
  OBVIOUS
<1>2. now \in Nat /\ time <= now
  BY DEF Types
<1>3. ASSUME NEW k \in 1..Len(items) PROVE Fits(disk, mem, now, items[k]) /\ items[k].op # "drop"
  <2>1. CASE items[k].op \in LateOps
    BY <1>1, <2>1, LateFits
  <2>2. CASE items[k].op = "fill" /\ items[k].id \in mem.pend /\ items[k].via = via /\ items[k].time = time
    BY <1>2, <2>2 DEF Fits, Known
  <2>3. QED
    BY <2>1, <2>2 DEF Offers
<1>4. Orders(items)
  BY <1>3 DEF Offers, Orders
<1>5. QED
  BY <1>3, <1>4, BeginAgrees

LEMMA LateAgrees ==
  ASSUME Types, Agree, Begins, seen' = seen, NEW items \in Seq(Items), Left(items), AllLate(items)
  PROVE  Agree'
<1>1. \A k \in 1..Len(items) : items[k] \in Items /\ items[k].op \in LateOps
  BY DEF AllLate
<1>2. \A k \in 1..Len(items) : Fits(disk, mem, now, items[k]) /\ items[k].op # "drop"
  BY <1>1, LateFits
<1>3. Orders(items)
  BY Zenon, <1>1 DEF Orders, LateOps
<1>4. QED
  BY <1>2, <1>3, BeginAgrees

LEMMA MarkItem ==
  ASSUME NEW i \in Ids, NEW time \in Nat
  PROVE  /\ Item("fill", i, "mark", time, TRUE) \in Items
         /\ Item("fill", i, "mark", time, TRUE).op = "fill" /\ Item("fill", i, "mark", time, TRUE).id = i
         /\ Item("fill", i, "mark", time, TRUE).via = "mark" /\ Item("fill", i, "mark", time, TRUE).time = time
<1>1. "fill" \in Ops /\ "mark" \in Vias
  BY DEF Ops, Vias
<1>2. i \in 0..MaxSignals
  BY Constants DEF Ids
<1>3. QED
  BY <1>1, <1>2 DEF Item, Items

LEMMA CheckEntryAgrees ==
  ASSUME Types, Agree, CheckEntry
  PROVE  Agree'
<1>1. /\ Runs /\ Running("check") /\ Entry \in Ids
      /\ \/ Left(Tail(work))
         \/ Left(<<>>)
         \/ Entry \in mem.pend /\ Committed(CancelEntry(Decision(-1), Entry), FALSE)
         \/ /\ disk' = disk /\ mem' = mem /\ Entry \in mem.pend
            /\ disk.rows[Entry].kind = "wait" /\ now >= disk.rows[Entry].till
            /\ work' = <<Item("fill", Entry, "mark", now, TRUE)>> \o Tail(work)
  BY CheckEntryIs
<1>2. /\ up /\ up' /\ work # <<>> /\ Head(work).op = "check" /\ Head(work).op \in LateOps /\ now \in Nat
      /\ now' = now /\ seen' = seen
  BY Zenon, <1>1, HeadIs DEF Types, LateOps, Runs
<1>3. CASE Left(Tail(work))
  BY <1>1, <1>2, <1>3, LeftAgrees
<1>4. CASE Left(<<>>)
  BY <1>1, <1>2, <1>4, LeftAgrees
<1>5. CASE Entry \in mem.pend /\ Committed(CancelEntry(Decision(-1), Entry), FALSE)
  <2>1. disk.rows[Entry].st = "pending"
    BY <1>1, <1>2, <1>5 DEF Agree
  <2>2. QED
    BY <1>1, <1>2, <1>5, <2>1, CancelAgrees
<1>6. CASE /\ disk' = disk /\ mem' = mem /\ Entry \in mem.pend
           /\ disk.rows[Entry].kind = "wait" /\ now >= disk.rows[Entry].till
           /\ work' = <<Item("fill", Entry, "mark", now, TRUE)>> \o Tail(work)
  <2> DEFINE x == Item("fill", Entry, "mark", now, TRUE)
             r == Tail(work)
  <2>1. x \in Items /\ x.op = "fill" /\ x.id = Entry /\ x.via = "mark" /\ x.time = now
    <3>1. /\ Item("fill", Entry, "mark", now, TRUE) \in Items
          /\ Item("fill", Entry, "mark", now, TRUE).op = "fill"
          /\ Item("fill", Entry, "mark", now, TRUE).id = Entry
          /\ Item("fill", Entry, "mark", now, TRUE).via = "mark"
          /\ Item("fill", Entry, "mark", now, TRUE).time = now
      BY <1>1, <1>2, MarkItem
    <3>2. QED
      BY <3>1
  <2> HIDE DEF x
  <2>2. Fits(disk, mem, now, x)
    BY <1>2, <1>6, <2>1 DEF Fits, Known
  <2>3. r \in Seq(Items) /\ \A k \in 1..Len(r) : r[k] \in Items /\ r[k].op \in LateOps
    <3>1. r \in Seq(Items) /\ \A k \in 1..Len(r) : Follows(Head(work).op, r[k].op)
      BY <1>2, Behind
    <3>2. \A o : Follows("check", o) => o \in LateOps
      BY Zenon DEF Follows, LateOps
    <3> HIDE DEF r
    <3>3. \A k \in 1..Len(r) : r[k] \in Items
      BY <3>1
    <3>4. QED
      BY <1>2, <3>1, <3>2, <3>3
  <2> HIDE DEF r
  <2>4. /\ <<x>> \in Seq(Items) /\ \A k \in 1..Len(<<x>>) : <<x>>[k] = x
        /\ Len(<<x>>) = 1
    BY <2>1, Alone
  <2> DEFINE one == <<x>>
             w == one \o r
  <2>a. one \in Seq(Items) /\ Len(one) = 1 /\ \A k \in 1..Len(one) : one[k] = x
    BY <2>4
  <2> HIDE DEF one
  <2>5. w \in Seq(Items) /\ Len(r) \in Nat /\ \A k \in 1..Len(w) : (k = 1 /\ w[k] = x) \/ (w[k] \in Items /\ w[k].op \in LateOps)
    <3>1. /\ w \in Seq(Items) /\ Len(r) \in Nat
          /\ \A k \in 1..Len(w) : \/ k \in 1..Len(one) /\ w[k] = one[k]
                                  \/ k - Len(one) \in 1..Len(r) /\ w[k] = r[k - Len(one)]
      BY <2>3, <2>a, JoinIs
    <3> HIDE DEF w
    <3>2. ASSUME NEW k \in 1..Len(w) PROVE (k = 1 /\ w[k] = x) \/ (w[k] \in Items /\ w[k].op \in LateOps)
      <4>1. CASE k \in 1..Len(one) /\ w[k] = one[k]
        BY <2>a, <4>1
      <4>2. CASE k - Len(one) \in 1..Len(r) /\ w[k] = r[k - Len(one)]
        BY <2>3, <4>2
      <4>3. QED
        BY <3>1, <4>1, <4>2
    <3>3. QED
      BY <3>1, <3>2
  <2>6. work' = w
    BY <1>6 DEF x, r, one
  <2> HIDE DEF w
  <2>7. ASSUME NEW k \in 1..Len(w) PROVE Fits(disk, mem, now, w[k]) /\ w[k].op # "drop"
    <3>1. CASE k = 1 /\ w[k] = x
      BY <2>1, <2>2, <3>1
    <3>2. CASE w[k] \in Items /\ w[k].op \in LateOps
      BY <3>2, LateFits
    <3>3. QED
      BY <2>5, <3>1, <3>2
  <2>8. Orders(w)
    <3>1. ASSUME NEW j \in 1..Len(w), NEW k \in 1..Len(w), j < k, w[j].op = w[k].op, w[k].op \in {"fill", "drop"}
          PROVE  FALSE
      <4>1. w[k].op \in LateOps
        BY <2>5, <3>1
      <4>2. QED
        BY Zenon, <3>1, <4>1 DEF LateOps
    <3>2. QED
      BY <3>1 DEF Orders
  <2>9. Drops(work) = {} /\ Drops(work') = {}
    BY Zenon, <1>2, <2>6, <2>7, NoDrops DEF Drops
  <2>10. QED
    BY <1>2, <1>6, <2>6, <2>7, <2>8, <2>9 DEF Agree
<1>7. QED
  BY <1>1, <1>3, <1>4, <1>5, <1>6

LEMMA ExitPositionAgrees ==
  ASSUME Types, Agree, ExitPosition
  PROVE  Agree'
<1>1. /\ Runs /\ (Running("exit") \/ Running("close"))
      /\ \/ Left(Tail(work))
         \/ Entry \in mem.open /\ Entry \in Ids /\ \E pnl \in Outcomes : Committed(CloseAt(Book, Entry, pnl, now), TRUE)
  BY ExitPositionIs
<1>2. Runs /\ up /\ work # <<>> /\ Head(work).op \in LateOps /\ now \in Nat
  BY Zenon, <1>1, HeadIs DEF Types, LateOps
<1>3. CASE Left(Tail(work))
  BY <1>2, <1>3, LeftAgrees
<1>4. ASSUME Entry \in mem.open, Entry \in Ids, NEW pnl \in Outcomes, Committed(CloseAt(Book, Entry, pnl, now), TRUE)
      PROVE  Agree'
  <2> DEFINE b == Book
             i == Entry
             r == CloseAt(b, i, pnl, now)
  <2>1. InBook(b)
    BY <1>2, <1>4, BookIs
  <2> HIDE DEF b
  <2>2. Drops(work) = {}
    BY Zenon, <1>2, NoDrops
  <2>3. Sound(b) /\ b \in Books /\ i \in b.open
    <3>1. Sound(b)
      BY <1>2, <2>1, <2>2, AgreesInBook
    <3>2. QED
      BY <1>4, <2>1, <3>1 DEF InBook, Whole
  <2>4. Handles(b, r, i) /\ b.rows[i].st # "none"
    <3>1. Handles(b, r, i)
      BY <1>2, <2>3, CloseHandles
    <3>2. b.rows[i].st # "none"
      BY <1>4, <2>3 DEF Sound, SoundAt
    <3>3. QED
      BY <3>1, <3>2
  <2>5. Committed(r, TRUE)
    BY <1>4 DEF b
  <2>6. \A k \in 1..Len(Tail(work)) : Tail(work)[k].op = "fill" => Tail(work)[k].id # i
    <3>1. \A k \in 1..Len(Tail(work)) : Follows(Head(work).op, Tail(work)[k].op)
      BY <1>2, Behind
    <3>2. QED
      BY Zenon, <1>2, <3>1 DEF Follows, LateOps
  <2> HIDE DEF r, i
  <2>7. ASSUME NEW loud \in BOOLEAN, Committed(r, loud) PROVE Agree'
    BY <1>2, <2>1, <2>4, <2>6, <2>7, TransactionAgrees
  <2>8. QED
    BY <2>5, <2>7
<1>5. QED
  BY <1>1, <1>3, <1>4

\* The risk manager's transaction, seen from the book.
LEMMA RiskHandles ==
  ASSUME Types, NEW m \in Outcomes, up, Sound([Book EXCEPT !.mkt = m]),
         NEW r, Moves([Book EXCEPT !.mkt = m], r, now), ~r.bad
  PROVE  \A i : Handles([Book EXCEPT !.mkt = m], r, i)
<1> DEFINE b == [Book EXCEPT !.mkt = m]
<1>1. b \in Books
  BY BookIs DEF InBook, Whole
<1> HIDE DEF b
<1>2. ASSUME NEW i PROVE Handles(b, r, i)
  BY <1>1, MovesHandles DEF b
<1>3. QED
  BY <1>2 DEF b

LEMMA RiskStepAgrees ==
  ASSUME Types, Agree, RiskStep
  PROVE  Agree'
<1>1. /\ Runs /\ (Running("trade") \/ Running("tick"))
      /\ \/ torn' /\ (Left(Tail(work)) \/ Left(<<>>))
         \/ torn' = torn /\ \E r : RiskResult(r) /\ Committed(r, FALSE)
  BY RiskStepIs
<1>2. Runs /\ up /\ work # <<>> /\ Head(work).op \in LateOps \cup {"trade"}
  BY Zenon, <1>1, HeadIs DEF LateOps
<1>3. CASE Left(Tail(work)) \/ Left(<<>>)
  BY <1>2, <1>3, LeftAgrees
<1>4. ASSUME NEW r, RiskResult(r), Committed(r, FALSE) PROVE Agree'
  <2>1. ~r.bad
    BY <1>4 DEF Committed, Whole
  <2>2. PICK m \in Outcomes : Moves([Book EXCEPT !.mkt = m], r, now)
    BY <1>4, <2>1, RiskOpensNot
  <2> DEFINE b == [Book EXCEPT !.mkt = m]
  <2>3. InBook(b) /\ Moves(b, r, now)
    BY <1>2, <2>2, BookIs
  <2>4. Drops(work) = {}
    BY Zenon, <1>2, NoDrops
  <2>5. Sound(b)
    <3> HIDE DEF b
    <3>1. QED
      BY <1>2, <2>3, <2>4, AgreesInBook
  <2>6. Handles(b, r, 0)
    BY <1>2, <2>1, <2>3, <2>5, RiskHandles
  <2> HIDE DEF b
  <2>7. \A k \in 1..Len(Tail(work)) : Tail(work)[k].op = "fill" => Tail(work)[k].id # 0
    <3>1. Tail(work) \in Seq(Items)
      BY <1>2, Behind
    <3>2. \A k \in 1..Len(Tail(work)) : Tail(work)[k] \in Items
      BY <3>1
    <3>3. QED
      BY <3>2, ItemFields DEF EntryOps, Ids
  <2>8. 0 \notin Ids
    BY Constants DEF Ids
  <2>9. ASSUME NEW loud \in BOOLEAN, Committed(r, loud) PROVE Agree'
    BY <1>2, <2>3, <2>6, <2>7, <2>8, <2>9, TransactionAgrees
  <2>10. QED
    BY <1>4, <2>9
<1>5. QED
  BY <1>1, <1>3, <1>4

LEMMA CancelItemAgrees ==
  ASSUME Types, Agree, CancelItem
  PROVE  Agree'
<1>1. /\ Runs /\ Running("cancel") /\ Entry \in Ids
      /\ \/ Left(<<>>)
         \/ Committed(CancelEntry(Decision(-1), Entry), FALSE)
  BY CancelItemIs
<1>2. up /\ work # <<>> /\ Head(work).op = "cancel" /\ Head(work) = work[1] /\ 1 \in 1..Len(work)
  BY <1>1, HeadIs
<1>3. CASE Left(<<>>)
  BY <1>1, <1>2, <1>3, LeftAgrees
<1>4. disk.rows[Entry].st \in {"pending", "gone"}
  BY <1>2 DEF Agree, Fits, Entry
<1>5. CASE Committed(CancelEntry(Decision(-1), Entry), FALSE)
  BY <1>1, <1>2, <1>4, <1>5, CancelAgrees
<1>6. QED
  BY <1>1, <1>3, <1>5

\* The commands begin with an idle account.
LEMMA IdleAgrees ==
  ASSUME Agree, up, work = <<>>, up', seen' = seen, now' = now,
         NEW D, NEW M, D = disk', M = mem',
         \A i \in Ids : /\ SoundAt(D, M, i)
                        /\ disk.rows[i].st = "none" => D.rows[i].st = "none",
         \A k \in 1..Len(work') : Fits(D, M, now, work'[k]) /\ work'[k].op # "drop", Orders(work')
  PROVE  Agree'
<1>1. Drops(work') = {}
  BY DEF Drops
<1>2. \A i \in Ids : i > seen' => disk'.rows[i].st = "none"
  BY DEF Agree
<1>3. \A k \in 1..Len(work') : Fits(disk', mem', now', work'[k])
  OBVIOUS
<1>4. QED
  BY <1>1, <1>2, <1>3 DEF Agree, SoundAt

LEMMA SoundIdle ==
  ASSUME Agree, up, work = <<>>
  PROVE  \A i \in Ids : SoundAt(disk, mem, i)
<1>1. Drops(work) = {}
  BY DEF Drops
<1>2. QED
  BY <1>1 DEF Agree, SoundAt

LEMMA CloseAllAgrees ==
  ASSUME Types, Agree, NEW halt \in BOOLEAN, CloseAllCommand(halt)
  PROVE  Agree'
<1>1. /\ Begins /\ seen' = seen /\ Untouched
      /\ \E items : NextWork(items) /\ Cancels(items)
  BY CloseAllIs
<1>2. /\ up /\ work = <<>> /\ up' /\ now' = now /\ Types'
      /\ disk'.rows = disk.rows /\ disk'.act = disk.act /\ disk'.resets = disk.resets
      /\ mem'.open = mem.open /\ mem'.pend = mem.pend
  BY <1>1, CloseAllIs DEF Begins, Untouched
<1> DEFINE D == disk'
           M == mem'
<1>3. \A i \in Ids : SoundAt(disk, mem, i)
  BY <1>2, SoundIdle
<1>4. \A i \in Ids : SoundAt(D, M, i)
  BY <1>2, <1>3 DEF SoundAt
<1>5. \A i \in mem.pend : i \in Ids => D.rows[i].st = "pending"
  BY <1>2, <1>3 DEF SoundAt
<1>6. work' \in Seq(Items)
  BY <1>1 DEF NextWork
<1>7. \A k \in 1..Len(work') : \/ work'[k].op \in LateOps
                               \/ work'[k].op = "cancel" /\ work'[k].id \in mem.pend
  BY <1>1 DEF NextWork, AllLate, Cancels
<1>8. D.rows = disk.rows /\ disk' = D /\ mem' = M
  BY <1>2
<1> HIDE DEF D, M
<1>9. ASSUME NEW k \in 1..Len(work') PROVE Fits(D, M, now, work'[k]) /\ work'[k].op # "drop"
  <2>1. work'[k] \in Items
    BY <1>6
  <2>2. CASE work'[k].op \in LateOps
    BY <2>1, <2>2, LateFits
  <2>3. CASE work'[k].op = "cancel" /\ work'[k].id \in mem.pend
    <3>1. D.rows[work'[k].id].st = "pending"
      BY <1>5, <2>1, <2>3, ItemFields DEF EntryOps
    <3>2. QED
      BY <2>3, <3>1 DEF Fits
  <2>4. QED
    BY <1>7, <2>2, <2>3
<1>10. Orders(work')
  BY Zenon, <1>7 DEF Orders, LateOps
<1>11. QED
  BY <1>1, <1>2, <1>4, <1>8, <1>9, <1>10, IdleAgrees

\* work with another first item, and without it
LEMMA HeadChanged ==
  ASSUME NEW w \in Seq(Items), w # <<>>, NEW x \in Items
  PROVE  LET v == <<x>> \o Tail(w)
         IN  /\ v \in Seq(Items) /\ Len(v) = Len(w) /\ Len(w) \in Nat /\ v[1] = x /\ 1 \in 1..Len(w)
             /\ \A k \in 1..Len(w) : k # 1 => v[k] = w[k]
<1> DEFINE r == Tail(w)
           one == <<x>>
           v == one \o r
<1>1. /\ r \in Seq(Items) /\ Len(w) \in Nat /\ Len(w) >= 1 /\ Len(r) = Len(w) - 1
      /\ \A k \in 1..Len(r) : r[k] = w[k + 1]
  BY TailIs
<1>2. one \in Seq(Items) /\ Len(one) = 1 /\ one[1] = x
  OBVIOUS
<1> HIDE DEF r, one
<1>3. /\ v \in Seq(Items) /\ Len(v) = Len(one) + Len(r)
      /\ \A k \in 1..Len(v) : \/ k \in 1..Len(one) /\ v[k] = one[k]
                              \/ k - Len(one) \in 1..Len(r) /\ v[k] = r[k - Len(one)]
  BY <1>1, <1>2, JoinIs
<1> HIDE DEF v
<1>4. Len(v) = Len(w) /\ 1 \in 1..Len(w)
  BY <1>1, <1>2, <1>3
<1>5. v[1] = x
  <2>1. 1 \in 1..Len(v) /\ 1 - Len(one) \notin 1..Len(r)
    BY <1>1, <1>2, <1>4
  <2>2. QED
    BY <1>2, <1>3, <2>1
<1>6. ASSUME NEW k \in 1..Len(w), k # 1 PROVE v[k] = w[k]
  <2>1. k \notin 1..Len(one) /\ k - Len(one) = k - 1 /\ (k - 1) + 1 = k
    BY <1>1, <1>2, <1>6
  <2>2. k - 1 \in 1..Len(r) /\ v[k] = r[k - 1]
    BY <1>3, <1>4, <2>1
  <2>3. r[k - 1] = w[(k - 1) + 1]
    BY <1>1, <2>2
  <2>4. QED
    BY <2>1, <2>2, <2>3
<1>7. QED
  BY <1>1, <1>3, <1>4, <1>5, <1>6 DEF v, one, r

LEMMA RiskResetAgrees ==
  ASSUME Types, Agree, RiskReset
  PROVE  Agree'
<1>1. Begins /\ seen' = seen /\ Untouched /\ work' = work
  BY RiskResetIs
<1>2. /\ up /\ work = <<>> /\ work' = <<>> /\ up' /\ seen' = seen
      /\ disk'.rows = disk.rows /\ disk'.act = disk.act /\ mem'.open = mem.open /\ mem'.pend = mem.pend
  BY <1>1 DEF Begins, Untouched
<1>3. Drops(work') = Drops(work) /\ Orders(work') /\ \A k \in 1..Len(work') : FALSE
  BY <1>2 DEF Drops, Orders
<1>4. QED
  BY <1>2, <1>3 DEF Agree

LEMMA ArchivedRow ==
  ASSUME NEW row \in Row
  PROVE  /\ Archived(row).st \notin {"open", "closed", "pending"}
         /\ row.st = "none" => Archived(row).st = "none"
BY NoRowType DEF Archived, Row, NoRow

LEMMA BookResetAgrees ==
  ASSUME Types, Agree, BookReset
  PROVE  Agree'
<1>1. /\ Begins /\ seen' = seen /\ mem'.open = {} /\ mem'.pend = {}
      /\ \A i \in Ids : /\ disk'.rows[i] = Archived(disk.rows[i])
                        /\ disk'.act[i] = IF disk.act[i] = "opened" THEN "reset" ELSE disk.act[i]
      /\ \A k \in 1..Len(work') : work'[k].op \in LateOps \cup {"stamp"}
      /\ Types'
  BY BookResetIs
<1>2. up /\ work = <<>> /\ up' /\ now' = now /\ seen' = seen
  BY <1>1 DEF Begins
<1>3. \A i \in Ids : disk.rows[i] \in Row
  BY DiskFields
<1> DEFINE D == disk'
           M == mem'
<1>4. \A i \in Ids : /\ SoundAt(D, M, i)
                     /\ disk.rows[i].st = "none" => D.rows[i].st = "none"
  BY <1>1, <1>3, ArchivedRow DEF SoundAt
<1> HIDE DEF D, M
<1>5. \A k \in 1..Len(work') : Fits(D, M, now, work'[k]) /\ work'[k].op # "drop"
  BY Zenon, <1>1 DEF Fits, LateOps
<1>6. Orders(work')
  BY Zenon, <1>1 DEF Orders, LateOps
<1>7. QED
  BY <1>2, <1>4, <1>5, <1>6, IdleAgrees DEF D, M

LEMMA StampAgrees ==
  ASSUME Types, Agree, Stamp
  PROVE  Agree'
<1>1. /\ Runs /\ Running("stamp") /\ disk'.rows = disk.rows /\ disk'.act = disk.act /\ mem' = mem /\ work' = Tail(work)
  BY StampIs
<1>2. up /\ up' /\ seen' = seen /\ work # <<>> /\ Head(work).op = "stamp"
  BY <1>1, HeadIs DEF Runs
<1>3. Drops(work) = {}
  BY Zenon, <1>2, NoDrops
<1>4. \A k \in 1..Len(work') : FALSE
  <2>1. \A k \in 1..Len(Tail(work)) : Follows(Head(work).op, Tail(work)[k].op)
    BY <1>2, Behind
  <2>2. QED
    BY Zenon, <1>1, <1>2, <2>1 DEF Follows, LateOps
<1>5. Drops(work') = {} /\ Orders(work')
  BY <1>4 DEF Drops, Orders
<1>6. QED
  BY <1>1, <1>2, <1>3, <1>4, <1>5 DEF Agree

LEMMA VoidPositionAgrees ==
  ASSUME Types, Agree, VoidPosition
  PROVE  Agree'
<1>1. /\ Begins /\ seen' = seen /\ work' = work /\ mem'.pend = mem.pend
      /\ \E i \in mem.open :
           /\ mem'.open = mem.open \ {i} /\ i \in Ids
           /\ disk'.rows[i] = Gone /\ disk'.act[i] = "rejected"
           /\ \A j \in Ids \ {i} : disk'.rows[j] = disk.rows[j] /\ disk'.act[j] = disk.act[j]
  BY VoidPositionIs
<1>2. up /\ work = <<>> /\ work' = <<>> /\ up' /\ now' = now /\ seen' = seen
  BY <1>1 DEF Begins
<1>3. PICK i \in mem.open :
           /\ mem'.open = mem.open \ {i} /\ i \in Ids
           /\ disk'.rows[i] = Gone /\ disk'.act[i] = "rejected"
           /\ \A j \in Ids \ {i} : disk'.rows[j] = disk.rows[j] /\ disk'.act[j] = disk.act[j]
  BY <1>1
<1>4. Gone.st = "gone"
  BY DEF Gone, NoRow
<1>5. \A j \in Ids : SoundAt(disk, mem, j)
  BY <1>2, SoundIdle
<1> DEFINE D == disk'
           M == mem'
<1>6. /\ SoundAt(D, M, i)
      /\ disk.rows[i].st # "none"
  BY <1>1, <1>3, <1>4, <1>5 DEF SoundAt
<1>7. \A j \in Ids \ {i} : /\ SoundAt(D, M, j)
                           /\ disk.rows[j].st = "none" => D.rows[j].st = "none"
  BY <1>1, <1>3, <1>5 DEF SoundAt
<1> HIDE DEF D, M
<1>8. Orders(work') /\ \A k \in 1..Len(work') : FALSE
  BY <1>2 DEF Orders
<1>9. QED
  BY <1>2, <1>6, <1>7, <1>8, IdleAgrees DEF D, M

LEMMA KillAgrees ==
  ASSUME Types, Agree, Kill
  PROVE  Agree'
<1>1. ~up' /\ disk' = disk /\ seen' = seen /\ work' = <<>>
  BY KillIs
<1>2. Orders(work') /\ \A k \in 1..Len(work') : FALSE
  BY <1>1 DEF Orders
<1>3. QED
  BY <1>1, <1>2 DEF Agree

LEMMA ClockAgrees ==
  ASSUME Types, Agree, Clock
  PROVE  Agree'
<1>1. work = <<>> /\ work' = <<>> /\ disk' = disk /\ mem' = mem /\ up' = up /\ seen' = seen
  BY ClockIs
<1>2. Orders(work') /\ Drops(work') = Drops(work) /\ \A k \in 1..Len(work') : FALSE
  BY <1>1 DEF Orders, Drops
<1>3. QED
  BY <1>1, <1>2 DEF Agree

\* The start: an entry that waits is loaded, or is to be dropped.
LEMMA BootAgrees ==
  ASSUME Types, Agree, Boot
  PROVE  Agree'
<1>1. /\ up' /\ disk' = disk /\ now' = now /\ seen' = seen
      /\ mem'.open = IdsOf(disk, "open") /\ mem'.pend = KeptEntries(disk.rows, now)
      /\ \A k \in 1..Len(work') : BootItem(work'[k])
      /\ \A j, k \in 1..Len(work') : j < k /\ work'[k].op = "drop" => work'[j].id # work'[k].id
      /\ \A i \in Unloaded : \E k \in 1..Len(work') : work'[k].op = "drop" /\ work'[k].id = i
  BY Zenon, BootIs
<1>2. Drops(work') = Unloaded
  <2>1. \A k \in 1..Len(work') : work'[k].op = "drop" => work'[k].id \in Unloaded
    BY Zenon, <1>1 DEF BootItem
  <2>2. QED
    BY <1>1, <2>1 DEF Drops
<1> DEFINE D == disk'
           M == mem'
<1>3. \A i \in Ids : /\ i \in M.open <=> D.rows[i].st = "open"
                     /\ i \in M.pend \/ i \in Unloaded <=> D.rows[i].st = "pending"
  BY <1>1 DEF IdsOf, KeptEntries, Unloaded
<1>4. \A i \in Unloaded : D.rows[i].st = "pending" /\ i \notin M.pend
  BY <1>1 DEF Unloaded
<1> HIDE DEF D, M
<1>5. ASSUME NEW k \in 1..Len(work') PROVE Fits(D, M, now, work'[k])
  <2>1. BootItem(work'[k])
    BY <1>1
  <2>2. QED
    BY Zenon, <1>4, <2>1 DEF Fits, BootItem
<1>6. Orders(work')
  <2>1. ASSUME NEW j \in 1..Len(work'), NEW k \in 1..Len(work'), j < k,
               work'[j].op = work'[k].op, work'[k].op \in {"fill", "drop"}
        PROVE  work'[j].id # work'[k].id
    <3>1. BootItem(work'[k])
      BY <1>1
    <3>2. work'[k].op = "drop"
      BY Zenon, <2>1, <3>1 DEF BootItem
    <3>3. QED
      BY <1>1, <2>1, <3>2
  <2>2. QED
    BY <2>1 DEF Orders
<1>7. \A i \in Ids : /\ disk'.rows[i].st \in {"open", "closed"} <=> disk'.act[i] = "opened"
                     /\ disk'.rows[i].st = "pending" => disk'.act[i] = "pending"
                     /\ i > seen' => disk'.rows[i].st = "none"
  BY <1>1 DEF Agree
<1>8. QED
  BY <1>1, <1>2, <1>3, <1>5, <1>6, <1>7 DEF Agree, D, M

LEMMA BootRiskAgrees ==
  ASSUME Types, Agree, BootRisk
  PROVE  Agree'
<1>1. /\ up /\ work # <<>> /\ now' = now /\ seen' = seen
      /\ (Running("missed") \/ Running("first tick"))
      /\ \/ ~up' /\ disk' = disk /\ mem' = Down /\ work' = <<>>
         \/ /\ up' /\ NextWork(Tail(work))
            /\ \E r : StartResult(r) /\ Whole(r) /\ disk' = Durable(r) /\ mem' = Volatile(r)
  BY Zenon, BootRiskIs
<1>2. Head(work).op \in {"missed", "first tick"}
  BY Zenon, <1>1, HeadIs
<1>3. CASE ~up' /\ disk' = disk /\ mem' = Down /\ work' = <<>>
  <2>1. Orders(work') /\ \A k \in 1..Len(work') : FALSE
    BY <1>3 DEF Orders
  <2>2. QED
    BY Zenon, <1>1, <1>3, <2>1 DEF Agree
<1>4. ASSUME up', NextWork(Tail(work)), NEW r, StartResult(r), Whole(r), disk' = Durable(r), mem' = Volatile(r)
      PROVE  Agree'
  <2>1. ~r.bad
    BY <1>4 DEF Whole
  <2>2. PICK m \in Outcomes : Moves([Book EXCEPT !.mkt = m], r, now)
    BY <1>4, <2>1, RiskOpensNot
  <2> DEFINE b == [Book EXCEPT !.mkt = m]
  <2>3. InBook(b) /\ Moves(b, r, now)
    BY Zenon, <1>1, <2>2, BookIs
  <2>4. Drops(work) = {}
    BY Zenon, <1>1, <1>2, NoDrops
  <2>5. Sound(b) /\ \A j \in Ids : j > seen => b.rows[j].st = "none"
    <3> HIDE DEF b
    <3>1. QED
      BY Zenon, <1>1, <2>3, <2>4, AgreesInBook
  <2>6. Handles(b, r, 0)
    BY Zenon, <1>1, <2>1, <2>3, <2>5, RiskHandles
  <2> HIDE DEF b
  <2>7. 0 \notin Ids
    BY Constants DEF Ids
  <2>8. Sound(r) /\ \A j \in Ids : j > seen' => r.rows[j].st = "none"
    BY Zenon, <1>1, <2>5, <2>6, <2>7 DEF Handles, NoNews
  <2> DEFINE G == {x \in Items : x.op \in LateOps \cup {"missed", "first tick"}}
  <2>9. Tail(work) \in Seq(Items) /\ \A k \in 1..Len(Tail(work)) : Follows(Head(work).op, Tail(work)[k].op)
    BY Zenon, <1>1, Behind
  <2>10. \A k \in 1..Len(Tail(work)) : Tail(work)[k] \in Items /\ Tail(work)[k].op \in {"missed", "first tick"}
    <3>1. \A o : Follows("missed", o) \/ Follows("first tick", o) => o \in {"missed", "first tick"}
      BY Zenon DEF Follows, LateOps
    <3> DEFINE w == Tail(work)
    <3>2. w \in Seq(Items) /\ \A k \in 1..Len(w) : Follows(Head(work).op, w[k].op)
      BY <2>9
    <3> HIDE DEF w
    <3>3. \A k \in 1..Len(w) : w[k] \in Items
      BY <3>2
    <3>4. \A k \in 1..Len(w) : w[k] \in Items /\ w[k].op \in {"missed", "first tick"}
      BY Zenon, <1>2, <3>1, <3>2, <3>3
    <3>5. QED
      BY Zenon, <3>4 DEF w
  <2>11. \A k \in 1..Len(Tail(work)) : Tail(work)[k] \in G
    BY Zenon, <2>10
  <2>12. Orders(Tail(work))
    BY Zenon, <2>10 DEF Orders
  <2>13. \A x \in Items : x.op \in LateOps => x \in G
    BY Zenon
  <2> HIDE DEF G
  <2>14. \A k \in 1..Len(work') : work'[k] \in G
    BY <1>4, <2>9, <2>11, <2>12, <2>13, NextIn
  <2>15. Orders(work')
    BY <1>4, <2>9, <2>11, <2>12, <2>13, NextIn
  <2>16. \A k \in 1..Len(work') : Fits(r, r, now, work'[k]) /\ work'[k].op # "drop"
    BY Zenon, <2>14 DEF G, Fits, LateOps
  <2>17. QED
    BY Zenon, <1>1, <1>4, <2>8, <2>15, <2>16, AgreeMade
<1>5. QED
  BY Zenon, <1>1, <1>3, <1>4

LEMMA DroppedItem ==
  ASSUME NEW i \in Ids
  PROVE  /\ Item("dropped", i, "none", 0, TRUE) \in Items
         /\ Item("dropped", i, "none", 0, TRUE).op = "dropped" /\ Item("dropped", i, "none", 0, TRUE).id = i
<1>1. "dropped" \in Ops /\ "none" \in Vias /\ 0 \in Nat
  BY DEF Ops, BootOps, Vias
<1>2. i \in 0..MaxSignals
  BY Constants DEF Ids
<1>3. QED
  BY <1>1, <1>2 DEF Item, Items

\* An entry recovery drops: its row, then its signal.
LEMMA DropEntryAgrees ==
  ASSUME Types, Agree, DropEntry
  PROVE  Agree'
<1>1. /\ Runs /\ mem' = mem /\ Entry \in Ids
      /\ \A j \in Ids \ {Entry} : disk'.rows[j] = disk.rows[j] /\ disk'.act[j] = disk.act[j]
      /\ \/ /\ Running("drop") /\ disk'.rows[Entry] = Gone /\ disk'.act[Entry] = disk.act[Entry]
            /\ work' = <<Item("dropped", Entry, "none", 0, TRUE)>> \o Tail(work)
         \/ /\ Running("dropped") /\ disk'.rows[Entry] = disk.rows[Entry] /\ disk'.act[Entry] = "rejected"
            /\ work' = Tail(work)
  BY DropEntryIs
<1>2. /\ up /\ up' /\ work # <<>> /\ now' = now /\ seen' = seen /\ (Running("drop") \/ Running("dropped"))
      /\ work \in Seq(Items) /\ Gone.st = "gone"
  BY <1>1 DEF Runs, Types, Gone, NoRow
<1> DEFINE i == Entry
           r == Tail(work)
<1>3. /\ Head(work) = work[1] /\ 1 \in 1..Len(work) /\ i \in Ids /\ work[1].id = i /\ work[1] \in Items
      /\ work[1].op \in {"drop", "dropped"}
  BY <1>1, <1>2, HeadIs DEF Entry
<1>4. /\ r \in Seq(Items) /\ Len(work) \in Nat /\ Len(r) = Len(work) - 1
      /\ \A k \in 1..Len(r) : r[k] = work[k + 1] /\ k + 1 \in 1..Len(work) /\ Follows(work[1].op, r[k].op)
  BY <1>2, <1>3, TailIs, Behind
<1>5. \A k \in 1..Len(r) : r[k] \in Items /\ r[k].op \in {"drop", "missed", "first tick"}
  <2>1. \A k \in 1..Len(r) : r[k] \in Items
    BY <1>4
  <2>2. QED
    BY Zenon, <1>3, <1>4, <2>1 DEF Follows, LateOps
<1>6. \A k \in 1..Len(work) : k # 1 => \E n \in 1..Len(r) : r[n] = work[k]
  BY <1>2, OneBefore
<1>7. \A k \in 1..Len(work) : Fits(disk, mem, now, work[k])
  BY DEF Agree
<1>8. CASE Running("drop") /\ disk'.rows[i] = Gone /\ disk'.act[i] = disk.act[i]
           /\ work' = <<Item("dropped", i, "none", 0, TRUE)>> \o r
  <2> DEFINE x == Item("dropped", i, "none", 0, TRUE)
             v == <<x>> \o r
  <2>1. x \in Items /\ x.op = "dropped" /\ x.id = i
    BY <1>3, DroppedItem
  <2>2. work[1].op = "drop"
    BY <1>3, <1>8 DEF Running
  <2>3. disk.rows[i].st = "pending" /\ i \notin mem.pend /\ disk.act[i] = "pending"
    BY <1>3, <1>7, <2>2 DEF Fits, Agree
  <2> HIDE DEF x
  <2>4. v \in Seq(Items) /\ Len(v) = Len(work) /\ v[1] = x /\ \A k \in 1..Len(work) : k # 1 => v[k] = work[k]
    BY <1>2, <2>1, HeadChanged
  <2>5. work' = v
    BY <1>8 DEF x
  <2> HIDE DEF v
  <2>6. \A k \in 1..Len(work) : k # 1 => work[k] \in Items /\ work[k].op \in {"drop", "missed", "first tick"}
    BY Zenon, <1>5, <1>6
  <2>7. \A k \in 1..Len(work) : k # 1 /\ work[k].op = "drop" => work[k].id # i /\ work[k].id \in Ids
    <3>1. ASSUME NEW k \in 1..Len(work), k # 1, work[k].op = "drop" PROVE work[k].id # i /\ work[k].id \in Ids
      <4>1. 1 < k
        BY <1>4, <3>1
      <4>2. Orders(work)
        BY DEF Agree
      <4>3. work[1].id # work[k].id
        BY <1>3, <2>2, <3>1, <4>1, <4>2 DEF Orders
      <4>4. QED
        BY Zenon, <1>3, <2>6, <3>1, <4>3, ItemFields DEF EntryOps
    <3>2. QED
      BY <3>1
  <2>8. \A j \in Ids : j \in Drops(v) <=> j \in Drops(work) /\ j # i
    <3>1. ASSUME NEW j \in Ids, j \in Drops(v) PROVE j \in Drops(work) /\ j # i
      <4>1. PICK k \in 1..Len(v) : v[k].op = "drop" /\ v[k].id = j
        BY <3>1 DEF Drops
      <4>2. k # 1 /\ k \in 1..Len(work)
        BY <2>1, <2>4, <4>1
      <4>3. QED
        BY <2>4, <2>7, <4>1, <4>2 DEF Drops
    <3>2. ASSUME NEW j \in Ids, j \in Drops(work), j # i PROVE j \in Drops(v)
      <4>1. PICK k \in 1..Len(work) : work[k].op = "drop" /\ work[k].id = j
        BY <3>2 DEF Drops
      <4>2. k # 1
        BY <1>3, <3>2, <4>1
      <4>3. QED
        BY <2>4, <4>1, <4>2 DEF Drops
    <3>3. QED
      BY <3>1, <3>2
  <2>9. \A j \in Ids : /\ disk'.rows[j].st \in {"open", "closed"} <=> disk'.act[j] = "opened"
                       /\ disk'.rows[j].st = "pending" => disk'.act[j] = "pending"
                       /\ j > seen' => disk'.rows[j].st = "none"
    <3>1. i <= seen
      BY <1>3, <2>3 DEF Agree, Types, Ids
    <3>2. ASSUME NEW j \in Ids
          PROVE  /\ disk'.rows[j].st \in {"open", "closed"} <=> disk'.act[j] = "opened"
                 /\ disk'.rows[j].st = "pending" => disk'.act[j] = "pending"
                 /\ j > seen => disk'.rows[j].st = "none"
      <4>1. CASE j = i
        <5>1. ~(i > seen)
          BY <1>3, <3>1 DEF Types, Ids
        <5>2. QED
          BY <1>2, <1>8, <2>3, <4>1, <5>1
      <4>2. CASE j # i
        BY <1>1, <3>2, <4>2 DEF Agree
      <4>3. QED
        BY <4>1, <4>2
    <3>3. QED
      BY <1>2, <3>2
  <2>10. \A j \in Ids : /\ j \in mem'.open <=> disk'.rows[j].st = "open"
                        /\ j \in mem'.pend \/ j \in Drops(work') <=> disk'.rows[j].st = "pending"
    <3>1. ASSUME NEW j \in Ids
          PROVE  /\ j \in mem.open <=> disk'.rows[j].st = "open"
                 /\ j \in mem.pend \/ j \in Drops(v) <=> disk'.rows[j].st = "pending"
      <4>1. CASE j = i
        BY <1>2, <1>8, <2>3, <2>8, <4>1 DEF Agree
      <4>2. CASE j # i
        BY <1>1, <1>2, <2>8, <4>2 DEF Agree
      <4>3. QED
        BY <4>1, <4>2
    <3>2. QED
      BY <1>1, <2>5, <3>1
  <2> DEFINE D == disk'
  <2>11. ASSUME NEW k \in 1..Len(v) PROVE Fits(D, mem, now, v[k])
    <3>1. CASE k = 1
      BY <1>2, <1>8, <2>1, <2>4, <3>1 DEF Fits
    <3>2. CASE k # 1
      <4>1. k \in 1..Len(work) /\ v[k] = work[k] /\ Fits(disk, mem, now, work[k])
        BY <1>7, <2>4, <3>2
      <4>2. work[k].op \in {"drop", "missed", "first tick"}
        BY Zenon, <2>6, <3>2, <4>1
      <4>3. work[k].op = "drop" => D.rows[work[k].id] = disk.rows[work[k].id]
        BY <1>1, <2>7, <3>2, <4>1
      <4>4. QED
        BY Zenon, <4>1, <4>2, <4>3 DEF Fits
    <3>3. QED
      BY <3>1, <3>2
  <2>12. Orders(v)
    <3>1. ASSUME NEW j \in 1..Len(v), NEW k \in 1..Len(v), j < k, v[j].op = v[k].op, v[k].op \in {"fill", "drop"}
          PROVE  v[j].id # v[k].id
      <4>1. j # 1 /\ k # 1 /\ j \in 1..Len(work) /\ k \in 1..Len(work)
        BY <2>1, <2>4, <3>1
      <4>2. v[j] = work[j] /\ v[k] = work[k]
        BY <2>4, <4>1
      <4>3. QED
        BY <3>1, <4>1, <4>2 DEF Agree, Orders
    <3>2. QED
      BY <3>1 DEF Orders
  <2>13. \A k \in 1..Len(work') : Fits(disk', mem', now', work'[k])
    BY <1>1, <1>2, <2>5, <2>11
  <2>14. Orders(work')
    BY <2>5, <2>12
  <2>15. QED
    BY <1>2, <2>9, <2>10, <2>13, <2>14 DEF Agree
<1>9. CASE Running("dropped") /\ disk'.rows[i] = disk.rows[i] /\ disk'.act[i] = "rejected" /\ work' = r
  <2>1. work[1].op = "dropped"
    BY <1>3, <1>9 DEF Running
  <2>2. disk.rows[i].st = "gone"
    BY <1>3, <1>7, <2>1 DEF Fits
  <2>3. \A j \in Ids : /\ disk'.rows[j] = disk.rows[j]
                       /\ j # i => disk'.act[j] = disk.act[j]
    BY <1>1, <1>9
  <2> HIDE DEF i, r
  <2>4. Drops(r) = Drops(work)
    <3>1. \A n \in Drops(r) : n \in Drops(work)
      BY <1>4 DEF Drops
    <3>2. ASSUME NEW n \in Drops(work) PROVE n \in Drops(r)
      <4>1. PICK k \in 1..Len(work) : work[k].op = "drop" /\ work[k].id = n
        BY DEF Drops
      <4>2. k # 1
        BY <2>1, <4>1
      <4>3. QED
        BY <1>6, <4>1, <4>2 DEF Drops
    <3>3. QED
      BY <3>1, <3>2
  <2>5. /\ \A k \in 1..Len(r) : Fits(disk, mem, now, r[k])
        /\ Orders(r)
    <3> DEFINE G == {x \in Items : Fits(disk, mem, now, x)}
    <3>1. \A k \in 1..Len(work) : work[k] \in G
      BY <1>2, <1>7
    <3>2. Orders(work)
      BY DEF Agree
    <3> HIDE DEF G
    <3>3. (\A k \in 1..Len(Tail(work)) : Tail(work)[k] \in G) /\ Orders(Tail(work))
      BY <1>2, <3>1, <3>2, TailIn
    <3>4. QED
      BY <3>3 DEF G, r
  <2> DEFINE D == disk'
  <2>6. ASSUME NEW k \in 1..Len(r) PROVE Fits(D, mem, now, r[k])
    <3>1. r[k].op \in {"drop", "missed", "first tick"} /\ r[k] \in Items
      BY Zenon, <1>5
    <3>2. r[k].op = "drop" => D.rows[r[k].id] = disk.rows[r[k].id]
      BY <2>3, <3>1, ItemFields DEF EntryOps
    <3>3. QED
      BY Zenon, <2>5, <3>1, <3>2 DEF Fits
  <2>7. \A k \in 1..Len(work') : Fits(disk', mem', now', work'[k])
    BY <1>1, <1>2, <1>9, <2>6
  <2>8. Drops(work') = Drops(work) /\ Orders(work')
    BY <1>9, <2>4, <2>5
  <2>9. \A j \in Ids : /\ disk'.rows[j].st \in {"open", "closed"} <=> disk'.act[j] = "opened"
                       /\ disk'.rows[j].st = "pending" => disk'.act[j] = "pending"
                       /\ j > seen' => disk'.rows[j].st = "none"
    BY <1>2, <1>9, <2>2, <2>3 DEF Agree
  <2>10. \A j \in Ids : /\ j \in mem'.open <=> disk'.rows[j].st = "open"
                        /\ j \in mem'.pend \/ j \in Drops(work') <=> disk'.rows[j].st = "pending"
    BY <1>1, <1>2, <2>3, <2>8 DEF Agree
  <2>11. QED
    BY <1>2, <2>7, <2>8, <2>9, <2>10 DEF Agree
<1>10. QED
  BY <1>1, <1>8, <1>9

LEMMA InitAgrees == Init => Agree
<1> SUFFICES ASSUME Init PROVE Agree
  OBVIOUS
<1>1. /\ disk = Durable([Empty EXCEPT !.saved = FreshState(Empty, 0)])
      /\ mem = Volatile([Empty EXCEPT !.risk = FreshState(Empty, 0)]) /\ work = <<>>
  BY DEF Init
<1>2. /\ Empty.rows = [i \in Ids |-> NoRow] /\ Empty.act = [i \in Ids |-> "new"] /\ Empty.open = {} /\ Empty.pend = {}
      /\ NoRow.st = "none"
  BY DEF Empty, NoRow
<1>3. ASSUME NEW f PROVE /\ Durable([Empty EXCEPT !.saved = f]).rows = Empty.rows
                         /\ Durable([Empty EXCEPT !.saved = f]).act = Empty.act
                         /\ Volatile([Empty EXCEPT !.risk = f]).open = Empty.open
                         /\ Volatile([Empty EXCEPT !.risk = f]).pend = Empty.pend
  BY DEF Durable, Volatile, Empty
<1>4. disk.rows = [i \in Ids |-> NoRow] /\ disk.act = [i \in Ids |-> "new"] /\ mem.open = {} /\ mem.pend = {}
  BY <1>1, <1>2, <1>3
<1>5. Drops(work) = {} /\ Orders(work) /\ \A k \in 1..Len(work) : FALSE
  BY <1>1 DEF Drops, Orders
<1>6. QED
  BY <1>2, <1>4, <1>5 DEF Agree

LEMMA LateWorkAgrees ==
  ASSUME Types, Agree, Begins, seen' = seen, NEW items, Left(items), AllLate(work')
  PROVE  Agree'
<1>1. PICK w : w = work'
  OBVIOUS
<1>2. w \in Seq(Items) /\ AllLate(w) /\ Left(w)
  BY <1>1 DEF Left, NextWork
<1>3. QED
  BY <1>2, LateAgrees

LEMMA OfferedAgree ==
  ASSUME Types, Agree, Begins, seen' = seen, NEW items, NEW time \in 0..now, NEW via \in {"print", "bar"},
         Left(items), Offers(items, via, time)
  PROVE  Agree'
<1>1. work' \in Seq(Items) /\ (work' = items \/ AllLate(work'))
  BY DEF Left, NextWork
<1>2. CASE AllLate(work')
  BY <1>2, LateWorkAgrees
<1>3. CASE work' = items
  BY <1>1, <1>3, OffersAgree
<1>4. QED
  BY <1>1, <1>2, <1>3

LEMMA PriceAgrees ==
  ASSUME Types, Agree, TapePrint \/ Candle \/ Timer \/ OwnExit
  PROVE  Agree'
<1>1. CASE TapePrint
  <2>1. Begins /\ seen' = seen /\ \E items : \E time \in 0..now : Left(items) /\ Offers(items, "print", time)
    BY <1>1, TapePrintIs
  <2>2. ASSUME NEW items, NEW time \in 0..now, Left(items), Offers(items, "print", time) PROVE Agree'
    <3>1. ASSUME NEW via \in {"print", "bar"}, Offers(items, via, time) PROVE Agree'
      BY <2>1, <2>2, <3>1, OfferedAgree
    <3>2. QED
      BY <2>2, <3>1
  <2>3. QED
    BY <2>1, <2>2
<1>2. CASE Candle
  <2>1. Begins /\ seen' = seen /\ \E items : \E time \in 0..now : Left(items) /\ Offers(items, "bar", time)
    BY <1>2, CandleIs
  <2>2. ASSUME NEW items, NEW time \in 0..now, Left(items), Offers(items, "bar", time) PROVE Agree'
    <3>1. ASSUME NEW via \in {"print", "bar"}, Offers(items, via, time) PROVE Agree'
      BY <2>1, <2>2, <3>1, OfferedAgree
    <3>2. QED
      BY <2>2, <3>1
  <2>3. QED
    BY <2>1, <2>2
<1>3. CASE Timer \/ OwnExit
  <2>1. Begins /\ seen' = seen /\ \E items : Left(items) /\ AllLate(items)
    BY <1>3, TimerIs, OwnExitIs
  <2>2. ASSUME NEW items, Left(items), AllLate(items) PROVE AllLate(work')
    BY <2>2 DEF Left, NextWork
  <2>3. QED
    BY <2>1, <2>2, LateWorkAgrees
<1>4. QED
  BY <1>1, <1>2, <1>3

LEMMA NextAgrees == Types /\ Agree /\ [Next]_vars => Agree'
<1> SUFFICES ASSUME Types, Agree, [Next]_vars PROVE Agree'
  OBVIOUS
<1>1. CASE TapePrint \/ Candle \/ Timer \/ OwnExit
  BY <1>1, PriceAgrees
<1>2. CASE Decide \/ FillEntry \/ CheckEntry \/ ExitPosition \/ RiskStep \/ CancelItem
  BY <1>2, DecideAgrees, FillEntryAgrees, CheckEntryAgrees, ExitPositionAgrees, RiskStepAgrees, CancelItemAgrees
<1>3. CASE Stamp \/ DropEntry \/ BootRisk \/ RiskReset \/ BookReset \/ VoidPosition \/ Kill \/ Boot \/ Clock
  BY <1>3, StampAgrees, DropEntryAgrees, BootRiskAgrees, RiskResetAgrees, BookResetAgrees, VoidPositionAgrees,
     KillAgrees, BootAgrees, ClockAgrees
<1>4. ASSUME NEW halt \in BOOLEAN, CloseAllCommand(halt) PROVE Agree'
  BY <1>4, CloseAllAgrees
<1>5. CASE UNCHANGED vars
  BY <1>5 DEF vars, Agree, Drops
<1>6. QED
  BY <1>1, <1>2, <1>3, <1>4, <1>5 DEF Next, Work

LEMMA AgreeRecords == Types /\ Agree => RecordsAgree
<1> SUFFICES ASSUME Types, Agree PROVE RecordsAgree
  OBVIOUS
<1>1. ASSUME up, ~Dropping
      PROVE  mem.open = IdsOf(disk, "open") /\ mem.pend = IdsOf(disk, "pending")
  <2>1. Drops(work) = {}
    BY <1>1 DEF Dropping, Drops
  <2>2. mem.open \in SUBSET Ids /\ mem.pend \in SUBSET Ids
    BY DiskFields
  <2>3. QED
    BY <1>1, <2>1, <2>2 DEF Agree, IdsOf
<1>2. \A i \in Ids : /\ disk.rows[i].st \in {"open", "closed"} <=> disk.act[i] = "opened"
                     /\ disk.rows[i].st = "pending" => disk.act[i] = "pending"
  BY DEF Agree
<1>3. QED
  BY <1>1, <1>2 DEF RecordsAgree

\* Agree is an invariant: what an item of the running handler takes for granted
\* when it was queued still holds when its turn comes, whatever the items
\* before it have committed, failed at or rolled back.
THEOREM AgreeInvariant == Spec => []Agree
<1>1. Init => Agree
  BY InitAgrees
<1>2. Types /\ Agree /\ [Next]_vars => Agree'
  BY NextAgrees
<1>3. Spec => []Types
  BY TypeInvariant
<1>4. QED
  BY <1>1, <1>2, <1>3, PTL DEF Spec

\* The maps in memory, the table and the outcome written with the signal agree
\* at every commit, through failed writes, kills of the process between two
\* commits, restarts and resets.
THEOREM RecordsAgreeHolds == Spec => []RecordsAgree
<1>1. Types /\ Agree => RecordsAgree
  BY AgreeRecords
<1>2. Spec => []Types
  BY TypeInvariant
<1>3. Spec => []Agree
  BY AgreeInvariant
<1>4. QED
  BY <1>1, <1>2, <1>3, PTL

----------------------------------------------------------------------------
(* Entries fill in their windows.                                           *)

LEMMA NotOpening ==
  ASSUME \A i \in Ids : disk'.act[i] = "opened" => disk.act[i] = "opened"
  PROVE  OnTime
BY DEF OnTime, Opened

\* Filled opens the entry only from a price inside its window.
LEMMA FilledWindow ==
  ASSUME NEW b \in Books, b.dec, ~b.bad, now \in Nat, NEW i \in Ids, NEW says, NEW stopped \in BOOLEAN,
         Filled(b, i, says, stopped).act[i] = "opened"
  PROVE  IF b.rows[i].kind = "rest" THEN ~(Time >= b.rows[i].till) /\ ~(now - Time > LimitLate)
                                    ELSE ~(now > b.rows[i].till + PendingExpiry)
<1> DEFINE r == Filled(b, i, says, stopped)
           g == Gate([b EXCEPT !.pend = @ \ {i}], now)
<1>1. r # CancelEntry(b, i)
  <2>1. CancelEntry(b, i).act[i] = "rejected"
    BY CancelLocal DEF Cancelled
  <2>2. QED
    BY <2>1
<1>2. r # CancelEntry(g, i)
  <2>1. g \in Books
    <3> DEFINE taken == [b EXCEPT !.pend = @ \ {i}]
    <3>1. taken \in Books /\ taken.dec /\ ~taken.bad
      BY TakenIs
    <3> HIDE DEF taken
    <3>2. Gate(taken, now) \in Books
      BY <3>1, GateIs
    <3>3. QED
      BY <3>2 DEF taken
  <2>2. CancelEntry(g, i).act[i] = "rejected"
    BY <2>1, CancelLocal DEF Cancelled
  <2>3. QED
    BY <2>2
<1>3. CASE b.rows[i].kind = "rest"
  <2>1. r = FillResting(b, i, Time, says, stopped)
    BY <1>3 DEF Filled
  <2>2. RestingFilled(b, g, i, Time, r)
    BY <1>1, <1>2, <2>1, FillRestingIs
  <2>3. QED
    BY <1>3, <2>2 DEF RestingFilled
<1>4. CASE b.rows[i].kind # "rest"
  <2>1. r = FillWaiting(b, i, says)
    BY <1>4 DEF Filled
  <2>2. WaitingFilled(b, g, i, Replaced(b, i), r)
    BY <1>1, <1>2, <2>1, FillWaitingIs
  <2>3. QED
    BY <1>4, <2>2 DEF WaitingFilled
<1>5. QED
  BY <1>3, <1>4

LEMMA FillEntryOnTime ==
  ASSUME Types, Agree, FillEntry
  PROVE  OnTime
<1>1. /\ Runs /\ Running("fill") /\ Entry \in Ids
      /\ \/ Left(Tail(work))
         \/ \E touched \in BOOLEAN, says \in Verdicts, stopped \in BOOLEAN, m \in Outcomes : \E r :
              /\ Reaches(disk.rows[Entry], Via, Time, touched)
              /\ r = Filled(Decision(m), Entry, says, stopped)
              /\ Committed(r, FALSE)
  BY FillEntryIs
<1>2. up /\ work # <<>> /\ Head(work).op = "fill" /\ Head(work) = work[1] /\ 1 \in 1..Len(work) /\ now \in Nat
  BY <1>1, HeadIs DEF Types
<1>3. CASE Left(Tail(work))
  BY <1>3, NotOpening DEF Left
<1>4. ASSUME NEW touched \in BOOLEAN, NEW says \in Verdicts, NEW stopped \in BOOLEAN, NEW m \in Outcomes,
             Reaches(disk.rows[Entry], Via, Time, touched),
             Committed(Filled(Decision(m), Entry, says, stopped), FALSE)
      PROVE  OnTime
  <2> DEFINE b == Decision(m)
             i == Entry
             r == Filled(b, i, says, stopped)
             row == disk.rows[i]
  <2>1. InBook(b) /\ b.dec
    BY <1>2, BookIs
  <2> HIDE DEF b
  <2>2. Drops(work) = {}
    BY Zenon, <1>2, NoDrops
  <2>3. Sound(b) /\ Fits(b, b, now, Head(work))
    BY <1>2, <2>1, <2>2, AgreesInBook
  <2>4. Known(b, b, now, i) /\ i \in Ids /\ Whole(b) /\ Time <= now /\ Via \in {"print", "bar", "mark"}
        /\ (Via = "mark" /\ i \in b.pend => b.rows[i].kind = "wait" /\ now >= b.rows[i].till)
    BY <1>1, <1>2, <2>1, <2>3 DEF Fits, InBook, Entry, Time, Via
  <2>5. Handles(b, r, i)
    BY <1>2, <2>1, <2>3, <2>4, FilledHandles
  <2>6. Committed(r, FALSE)
    BY <1>4 DEF b
  <2>7. disk'.act = r.act /\ disk.act = b.act /\ disk.rows = b.rows
    BY <2>1, <2>6, Kept DEF Committed, InBook
  <2>8. \A j \in Ids \ {i} : ~Opened(j)
    BY <2>5, <2>7 DEF Handles, NoNews, Opened
  <2>9. /\ row.at \in Nat /\ row.till \in Nat /\ Time \in Nat
        /\ row.st = "pending" => i \in b.pend
    <3>1. row \in Row
      BY <2>4, DiskFields
    <3>2. row.at \in Nat /\ row.till \in Nat
      BY <3>1 DEF Row
    <3>3. Time \in Nat
      BY <1>1, HeadIs
    <3>4. row.st = "pending" => i \in b.pend
      BY <2>3, <2>4, <2>7 DEF Sound, SoundAt
    <3>5. QED
      BY <3>2, <3>3, <3>4
  <2>10. ASSUME Opened(i), row.st = "pending"
         PROVE  /\ row.kind = "wait" => now >= row.till /\ now <= row.till + PendingExpiry
                /\ row.kind = "rest" => Time \in row.at..(row.till - 1) /\ now - Time <= LimitLate
    <3>1. r.act[i] = "opened" /\ b.rows[i] = row
      BY <2>7, <2>10 DEF Opened
    <3>2. b \in Books /\ ~b.bad
      BY <2>4 DEF Whole
    <3>3. IF row.kind = "rest" THEN ~(Time >= row.till) /\ ~(now - Time > LimitLate)
                               ELSE ~(now > row.till + PendingExpiry)
      BY <1>2, <2>1, <2>4, <3>1, <3>2, FilledWindow
    <3>4. Via # "mark" => \/ row.kind = "rest" /\ Time >= row.at
                          \/ row.kind # "rest" /\ (Time >= row.till \/ now >= row.till)
      <4>1. Reaches(row, Via, Time, touched)
        BY <1>4
      <4>2. CASE Via = "print"
        BY <4>1, <4>2 DEF Reaches
      <4>3. CASE Via = "bar"
        BY <4>1, <4>3 DEF Reaches
      <4>4. QED
        BY <2>4, <4>2, <4>3
    <3>5. Via = "mark" => row.kind = "wait" /\ now >= row.till
      BY <2>4, <2>9, <2>10, <3>1
    <3> HIDE DEF row
    <3>6. LimitLate \in Nat /\ PendingExpiry \in Nat
      BY Constants
    <3>7. ASSUME row.kind = "wait" PROVE now >= row.till /\ now <= row.till + PendingExpiry
      <4>1. Time >= row.till \/ now >= row.till
        BY <3>4, <3>5, <3>7
      <4>2. ~(now > row.till + PendingExpiry)
        BY <3>3, <3>7
      <4>3. QED
        BY <1>2, <2>4, <2>9, <3>6, <4>1, <4>2
    <3>8. ASSUME row.kind = "rest" PROVE Time \in row.at..(row.till - 1) /\ now - Time <= LimitLate
      <4>1. Time >= row.at
        BY <3>4, <3>5, <3>8
      <4>2. ~(Time >= row.till) /\ ~(now - Time > LimitLate)
        BY <3>3, <3>8
      <4>3. QED
        BY <1>2, <2>9, <3>6, <4>1, <4>2
    <3>9. QED
      BY <3>7, <3>8
  <2>11. QED
    BY <2>8, <2>10 DEF OnTime
<1>5. QED
  BY <1>1, <1>3, <1>4

LEMMA DecideOnTime ==
  ASSUME Types, Agree, Decide
  PROVE  OnTime
<1>1. /\ up /\ up' /\ now' = now /\ work = <<>> /\ now \in Nat
      /\ \/ disk' = disk /\ mem' = mem /\ work' = <<>> /\ seen' = seen
         \/ /\ seen + 1 \in Ids /\ seen' = seen + 1
            /\ \E c \in Cells, side \in Sides, says \in Verdicts, bank \in BOOLEAN, m \in Outcomes : \E r :
                 /\ r = ExecuteEntry(Decision(m), seen + 1, c, side, says, bank)
                 /\ Whole(r) /\ disk' = Durable(r) /\ mem' = Volatile(r) /\ work' = Trades(r, FALSE)
  BY DecideIs DEF Begins, Types
<1>2. CASE disk' = disk
  BY <1>2, NotOpening
<1>3. ASSUME seen + 1 \in Ids, NEW c \in Cells, NEW side \in Sides, NEW says \in Verdicts, NEW bank \in BOOLEAN,
             NEW m \in Outcomes, NEW r, r = ExecuteEntry(Decision(m), seen + 1, c, side, says, bank),
             Whole(r), disk' = Durable(r)
      PROVE  OnTime
  <2> DEFINE b == Decision(m)
             i == seen + 1
  <2>1. r = ExecuteEntry(b, i, c, side, says, bank) /\ i \in Ids
    BY <1>3
  <2>2. InBook(b) /\ b.dec
    BY <1>1, BookIs
  <2>3. Drops(work) = {} /\ seen \in Nat
    BY <1>1 DEF Drops, Types
  <2> HIDE DEF b
  <2>4. Sound(b) /\ \A j \in Ids : j > seen => b.rows[j].st = "none"
    BY <1>1, <2>2, <2>3, AgreesInBook
  <2>5. b.rows[i].st = "none" /\ Whole(b)
    BY <2>1, <2>2, <2>3, <2>4 DEF InBook
  <2> HIDE DEF i
  <2>6. Handles(b, r, i)
    BY <1>1, <2>1, <2>2, <2>4, <2>5, ExecuteHandles
  <2>7. disk'.act = r.act /\ disk.act = b.act /\ disk.rows = b.rows
    BY <1>3, <2>2, Kept DEF InBook
  <2>8. \A j \in Ids \ {i} : ~Opened(j)
    BY <2>6, <2>7 DEF Handles, NoNews, Opened
  <2>9. disk.rows[i].st # "pending"
    BY <2>5, <2>7
  <2>10. QED
    BY <2>8, <2>9 DEF OnTime
<1>4. QED
  BY <1>1, <1>2, <1>3

LEMMA OnTimeStep ==
  ASSUME Types, Agree, [Next]_vars
  PROVE  OnTime
<1>1. ASSUME disk'.act = disk.act PROVE OnTime
  BY <1>1, NotOpening
<1>2. ASSUME NEW b, InBook(b), NEW r, Whole(r), disk' = Durable(r), ~Opens(b, r) PROVE OnTime
  <2>1. disk'.act = r.act /\ disk.act = b.act
    BY <1>2, Kept DEF InBook
  <2>2. QED
    BY <1>2, <2>1, NotOpening DEF Opens
<1>3. CASE Decide \/ FillEntry
  BY <1>3, DecideOnTime, FillEntryOnTime
<1>4. CASE CheckEntry \/ ExitPosition \/ CancelItem
  <2>1. SUFFICES ASSUME disk' # disk PROVE OnTime
    BY <1>1
  <2>2. /\ up /\ Entry \in Ids
        /\ \/ Committed(CancelEntry(Decision(-1), Entry), FALSE)
           \/ \E pnl \in Outcomes : Committed(CloseAt(Book, Entry, pnl, now), TRUE)
    BY <1>4, <2>1, CheckEntryIs, ExitPositionIs, CancelItemIs DEF Runs, Left
  <2>3. PICK r : /\ r = CancelEntry(Decision(-1), Entry) \/ \E pnl \in Outcomes : r = CloseAt(Book, Entry, pnl, now)
                 /\ Whole(r) /\ disk' = Durable(r)
    BY <2>2 DEF Committed
  <2>4. InBook(Decision(-1)) /\ InBook(Book) /\ now \in Nat
    BY <2>2, BookIs DEF Outcomes, Types
  <2>5. PICK b : InBook(b) /\ (r = CancelEntry(b, Entry) \/ \E pnl \in Outcomes : r = CloseAt(b, Entry, pnl, now))
    BY <2>3, <2>4
  <2>6. ~Opens(b, r)
    BY <2>2, <2>4, <2>5, OpWhole DEF InBook
  <2>7. QED
    BY <1>2, <2>3, <2>5, <2>6
<1>5. CASE RiskStep \/ BootRisk
  <2>1. SUFFICES ASSUME disk' # disk PROVE OnTime
    BY <1>1
  <2>2. PICK r : (RiskResult(r) \/ StartResult(r)) /\ Whole(r) /\ disk' = Durable(r)
    BY Zenon, <1>5, <2>1, RiskStepIs, BootRiskIs DEF Left, Committed
  <2>3. up
    BY Zenon, <1>5, RiskStepIs, BootRiskIs DEF Runs
  <2>4. ~Opens(Book, r)
    BY <2>2, RiskOpensNot DEF Whole
  <2>5. InBook(Book)
    BY <2>3, BookIs DEF Outcomes
  <2>6. QED
    BY <1>2, <2>2, <2>4, <2>5
<1>6. CASE Stamp \/ RiskReset \/ \E halt \in BOOLEAN : CloseAllCommand(halt)
  BY <1>1, <1>6, StampIs, RiskResetIs, CloseAllIs DEF Untouched
<1>7. CASE BookReset \/ VoidPosition \/ DropEntry
  <2>1. \A i \in Ids : disk'.act[i] \in {"reset", "rejected", disk.act[i]}
    BY <1>7, BookResetIs, VoidPositionIs, DropEntryIs
  <2>2. QED
    BY <2>1, NotOpening
<1>8. CASE TapePrint \/ Candle \/ OwnExit \/ Timer \/ Clock \/ Kill \/ Boot \/ UNCHANGED vars
  <2>1. disk' = disk
    BY Zenon, <1>8, TapePrintIs, CandleIs, OwnExitIs, TimerIs, ClockIs, KillIs, BootIs DEF Left, vars
  <2>2. QED
    BY <2>1, <1>1
<1>9. QED
  BY <1>3, <1>4, <1>5, <1>6, <1>7, <1>8 DEF Next, Work

\* An entry fills only in its window: a deferred one from its due time until it
\* expires, a resting one not by an event of after its life or that came more
\* than LimitLate behind. The snapshot a handler fills from was taken before
\* other items committed, so the proof rests on what Agree says of each item.
THEOREM FillsOnTimeHolds == Spec => FillsOnTime
<1>1. Types /\ Agree /\ [Next]_vars =>
        [\A i \in Ids : Opened(i) =>
           LET row == disk.rows[i]
           IN row.st = "pending" =>
                /\ row.kind = "wait" => now >= row.till /\ now <= row.till + PendingExpiry
                /\ row.kind = "rest" => Time \in row.at..(row.till - 1) /\ now - Time <= LimitLate]_vars
  BY OnTimeStep DEF OnTime
<1>2. Spec => []Types
  BY TypeInvariant
<1>3. Spec => []Agree
  BY AgreeInvariant
<1>4. QED
  BY <1>1, <1>2, <1>3, PTL DEF Spec, FillsOnTime

----------------------------------------------------------------------------
(* The limits on entries. Every cell is held by one position and one entry   *)
(* at most, and both only while the entry replaces the position, so what     *)
(* maxOpenPositions bounds is the number of cells held.                      *)

LEMMA CellCount ==
  ASSUME NEW S \in SUBSET Ids, NEW rows
  PROVE  /\ IsFiniteSet(CellsOf(rows, S)) /\ Cardinality(CellsOf(rows, S)) \in Nat
         /\ Cardinality(CellsOf(rows, S)) <= Cardinality(S)
         /\ (\A i, j \in S : rows[i].cell = rows[j].cell => i = j)
              => Cardinality(CellsOf(rows, S)) = Cardinality(S)
<1> DEFINE T == CellsOf(rows, S)
           f == [i \in S |-> rows[i].cell]
<1>1. f \in Surjection(S, T)
  <2>1. f \in [S -> T]
    BY DEF CellsOf
  <2>2. \A t \in T : \E i \in S : f[i] = t
    BY DEF CellsOf
  <2>3. QED
    BY <2>1, <2>2 DEF Surjection
<1>2. IsFiniteSet(S) /\ Cardinality(S) \in Nat
  BY IdSets
<1>3. (\A i, j \in S : rows[i].cell = rows[j].cell => i = j) => f \in Injection(S, T)
  <2>1. f \in [S -> T] /\ \A i \in S : f[i] = rows[i].cell
    BY DEF CellsOf
  <2> HIDE DEF f, T
  <2>2. ASSUME \A i, j \in S : rows[i].cell = rows[j].cell => i = j PROVE f \in Injection(S, T)
    <3>1. \A a, b \in S : f[a] = f[b] => a = b
      BY <2>1, <2>2
    <3>2. QED
      BY <2>1, <3>1 DEF Injection, IsInjective
  <2>3. QED
    BY <2>2
<1> HIDE DEF f, T
<1>4. IsFiniteSet(T) /\ Cardinality(T) <= Cardinality(S) /\ (f \in Injection(S, T) => Cardinality(T) = Cardinality(S))
  BY <1>1, <1>2, FS_Surjection
<1>5. Cardinality(T) \in Nat
  BY <1>4, FS_CardinalityType
<1>6. QED
  BY <1>3, <1>4, <1>5 DEF T

LEMMA FewerCells ==
  ASSUME NEW S \in SUBSET Ids, NEW rows, NEW T \in SUBSET CellsOf(rows, S)
  PROVE  Cardinality(T) <= Cardinality(CellsOf(rows, S)) /\ Cardinality(T) \in Nat /\ IsFiniteSet(T)
BY CellCount, FS_Subset, FS_CardinalityType

\* Positions close and entries go.
LEMMA SeatsLess ==
  ASSUME NEW rows, NEW O \in SUBSET Ids, NEW P \in SUBSET Ids, Seats(rows, O, P),
         NEW q, NEW O2 \in SUBSET O, NEW P2 \in SUBSET P, \A j \in O2 \cup P2 : q[j] = rows[j]
  PROVE  Seats(q, O2, P2)
<1>1. CellsOf(q, O2 \cup P2) \in SUBSET CellsOf(rows, O \cup P)
  BY DEF CellsOf
<1>2. O \cup P \in SUBSET Ids
  OBVIOUS
<1>3. Cardinality(CellsOf(q, O2 \cup P2)) <= Cardinality(CellsOf(rows, O \cup P))
      /\ Cardinality(CellsOf(rows, O \cup P)) \in Nat /\ Cardinality(CellsOf(q, O2 \cup P2)) \in Nat
  BY <1>1, <1>2, FewerCells, CellCount
<1>4. Cardinality(CellsOf(q, O2 \cup P2)) <= MaxOpen
  BY <1>3, Constants DEF Seats
<1>5. \A i, j \in O2 : q[i].cell = q[j].cell => i = j
  BY DEF Seats
<1>6. \A i, j \in P2 : q[i].cell = q[j].cell => i = j
  BY DEF Seats
<1>7. \A i \in O2, j \in P2 : q[i].cell = q[j].cell => q[j].old = i
  BY DEF Seats
<1>8. \A j \in P2 : q[j].kind = "rest" => q[j].old = 0
  BY DEF Seats
<1>9. QED
  BY <1>4, <1>5, <1>6, <1>7, <1>8 DEF Seats

\* An entry fills, and the position of its cell is gone.
LEMMA SeatTaken ==
  ASSUME NEW rows, NEW O \in SUBSET Ids, NEW P \in SUBSET Ids, Seats(rows, O, P), NEW i \in P,
         NEW q, NEW O2 \in SUBSET O, NEW P2 \in SUBSET P, i \notin P2, \A j \in O2 \cup P2 : q[j] = rows[j],
         q[i].cell = rows[i].cell, \A j \in O2 : rows[j].cell # rows[i].cell
  PROVE  Seats(q, O2 \cup {i}, P2)
<1>1. CellsOf(q, (O2 \cup {i}) \cup P2) \in SUBSET CellsOf(rows, O \cup P)
  BY DEF CellsOf
<1>2. O \cup P \in SUBSET Ids
  OBVIOUS
<1>3. Cardinality(CellsOf(q, (O2 \cup {i}) \cup P2)) <= Cardinality(CellsOf(rows, O \cup P))
      /\ Cardinality(CellsOf(rows, O \cup P)) \in Nat /\ Cardinality(CellsOf(q, (O2 \cup {i}) \cup P2)) \in Nat
  BY <1>1, <1>2, FewerCells, CellCount
<1>4. Cardinality(CellsOf(q, (O2 \cup {i}) \cup P2)) <= MaxOpen
  BY <1>3, Constants DEF Seats
<1>5. \A m, j \in O2 \cup {i} : q[m].cell = q[j].cell => m = j
  BY DEF Seats
<1>6. \A m, j \in P2 : q[m].cell = q[j].cell => m = j
  BY DEF Seats
<1>7. \A m \in O2 \cup {i}, j \in P2 : q[m].cell = q[j].cell => q[j].old = m
  BY DEF Seats
<1>8. \A j \in P2 : q[j].kind = "rest" => q[j].old = 0
  BY DEF Seats
<1>9. QED
  BY <1>4, <1>5, <1>6, <1>7, <1>8 DEF Seats

\* An entry is placed: in the cell of the position it replaces, or in a cell
\* that was free while there was room.
LEMMA SeatPlaced ==
  ASSUME NEW rows, NEW O \in SUBSET Ids, NEW P \in SUBSET Ids, Seats(rows, O, P), NEW i \in Ids, i \notin O \cup P,
         NEW q, \A j \in O \cup P : q[j] = rows[j],
         \A j \in P : q[j].cell # q[i].cell, \A j \in O : q[j].cell = q[i].cell => q[i].old = j,
         q[i].kind = "rest" => q[i].old = 0,
         (\E j \in O : q[j].cell = q[i].cell) \/ Cardinality(O) + Cardinality(P) < MaxOpen
  PROVE  Seats(q, O, P \cup {i})
<1> DEFINE C == CellsOf(rows, O \cup P)
           D == CellsOf(q, O \cup (P \cup {i}))
<1>1. D = C \cup {q[i].cell}
  BY DEF CellsOf
<1>2. O \cup P \in SUBSET Ids /\ O \in SUBSET Ids /\ P \in SUBSET Ids
  OBVIOUS
<1>3. IsFiniteSet(C) /\ Cardinality(C) \in Nat /\ Cardinality(C) <= Cardinality(O \cup P) /\ Cardinality(C) <= MaxOpen
  BY <1>2, CellCount DEF Seats
<1>4. Cardinality(O \cup P) <= Cardinality(O) + Cardinality(P) /\ Cardinality(O \cup P) \in Nat
      /\ Cardinality(O) \in Nat /\ Cardinality(P) \in Nat
  <2>1. /\ IsFiniteSet(O) /\ IsFiniteSet(P) /\ Cardinality(O) \in Nat /\ Cardinality(P) \in Nat
        /\ Cardinality(O \cup P) \in Nat /\ Cardinality(O \cap P) \in Nat
    BY <1>2, IdSets
  <2>2. Cardinality(O \cup P) = Cardinality(O) + Cardinality(P) - Cardinality(O \cap P)
    BY <2>1, FS_Union
  <2>3. QED
    BY <2>1, <2>2
<1>5. CASE \E j \in O : q[j].cell = q[i].cell
  <2>1. D = C
    BY <1>1, <1>5 DEF CellsOf
  <2>2. QED
    <3>1. Cardinality(D) <= MaxOpen
      BY <1>3, <2>1
    <3>2. QED
      BY <3>1 DEF Seats
<1>6. CASE Cardinality(O) + Cardinality(P) < MaxOpen
  <2> HIDE DEF C, D
  <2>1. Cardinality(D) = IF q[i].cell \in C THEN Cardinality(C) ELSE Cardinality(C) + 1
    BY <1>1, <1>3, FS_AddElement
  <2>2. Cardinality(D) <= MaxOpen
    BY <1>3, <1>4, <1>6, <2>1, Constants
  <2>3. QED
    BY <2>2 DEF Seats, D
<1>7. QED
  BY <1>5, <1>6

LEMMA LessSeated ==
  ASSUME NEW b \in Books, Seated(b), NEW r, LessOf(b, r)
  PROVE  Seated(r)
<1>1. b.open \in SUBSET Ids /\ b.pend \in SUBSET Ids
  BY BookFields
<1>2. QED
  BY <1>1, SeatsLess DEF Seated, LessOf

LEMMA LessOn ==
  ASSUME NEW b, NEW g, NEW r, LessOf(b, g), LessOf(g, r)
  PROVE  LessOf(b, r)
BY DEF LessOf

LEMMA MovesLess ==
  ASSUME NEW b, NEW r, NEW t, Moves(b, r, t), ~r.bad
  PROVE  LessOf(b, r)
BY DEF Moves, Unmoved, SweptTo, LessOf

LEMMA CancelLess ==
  ASSUME NEW b \in Books, NEW i \in Ids, i \notin b.open
  PROVE  LessOf(b, CancelEntry(b, i))
<1> DEFINE r == CancelEntry(b, i)
<1>1. Beside(b, r, i) /\ Cancelled(b, r, i) /\ r \in Books
  BY CancelLocal
<1>3. r.open \in SUBSET Ids /\ r.pend \in SUBSET Ids
  BY <1>1, BookFields
<1> HIDE DEF r
<1>4. LessOf(b, r)
  BY <1>1, <1>3 DEF Beside, Still, Cancelled, LessOf
<1>5. QED
  BY <1>4 DEF r

LEMMA CloseLess ==
  ASSUME NEW b \in Books, NEW i \in b.open, i \notin b.pend, NEW pnl \in Outcomes, now \in Nat
  PROVE  LessOf(b, CloseAt(b, i, pnl, now))
<1> DEFINE r == CloseAt(b, i, pnl, now)
<1>0. i \in Ids
  BY BookFields
<1>1. Beside(b, r, i) /\ Shut(b, r, i, pnl, now) /\ r \in Books
  BY <1>0, CloseLocal
<1>2. r.open \in SUBSET Ids /\ r.pend \in SUBSET Ids
  BY <1>1, BookFields
<1> HIDE DEF r
<1>3. LessOf(b, r)
  BY <1>1, <1>2 DEF Beside, Still, Shut, LessOf
<1>4. QED
  BY <1>3 DEF r

LEMMA MarkLess ==
  ASSUME NEW b \in Books, NEW i \in Ids, NEW r, r = Ignored(b, i) \/ r = Rejected(b, i)
  PROVE  LessOf(b, r)
<1>1. r \in Books /\ Beside(b, r, i) /\ MarkedAs(b, r, i)
  BY MarkLocal
<1>2. r.open \in SUBSET Ids /\ r.pend \in SUBSET Ids
  BY <1>1, BookFields
<1>3. QED
  BY <1>1, <1>2 DEF LessOf, Beside, Still, MarkedAs

LEMMA PlacedSeated ==
  ASSUME NEW b \in Books, Seated(b), NEW i \in Ids, i \notin b.open, i \notin b.pend, NEW row \in Row,
         \A j \in b.pend : b.rows[j].cell # row.cell, \A j \in b.open : b.rows[j].cell = row.cell => row.old = j,
         row.kind = "rest" => row.old = 0,
         (\E j \in b.open : b.rows[j].cell = row.cell) \/ Cardinality(b.open) + Cardinality(b.pend) < MaxOpen
  PROVE  Seated(Place(b, i, row))
<1> DEFINE r == Place(b, i, row)
<1>1. Beside(b, r, i) /\ PlacedAs(b, r, i, row) /\ r \in Books
  BY PlaceLocal
<1>2. r.open \in SUBSET Ids /\ r.pend \in SUBSET Ids /\ b.open \in SUBSET Ids /\ b.pend \in SUBSET Ids
  BY <1>1, BookFields
<1> HIDE DEF r
<1>3. /\ r.open = b.open /\ r.pend = b.pend \cup {i} /\ r.rows[i] = row
      /\ \A j \in b.open \cup b.pend : r.rows[j] = b.rows[j]
  <2>1. \A j \in Ids \ {i} : r.rows[j] = b.rows[j] /\ (j \in r.open <=> j \in b.open) /\ (j \in r.pend <=> j \in b.pend)
    BY <1>1 DEF Beside, Still
  <2>2. r.rows[i] = row /\ i \in r.pend /\ (i \in r.open <=> i \in b.open)
    BY <1>1 DEF PlacedAs
  <2>3. r.open = b.open
    <3>1. \A j \in Ids : j \in r.open <=> j \in b.open
      BY <2>1, <2>2
    <3>2. QED
      BY <1>2, <3>1
  <2>4. r.pend = b.pend \cup {i}
    BY <1>2, <2>1, <2>2
  <2>5. QED
    BY <1>2, <2>1, <2>2, <2>3, <2>4
<1>4. Seats(r.rows, b.open, b.pend \cup {i})
  <2> DEFINE O == b.open
             P == b.pend
             q == r.rows
  <2>1. /\ O \in SUBSET Ids /\ P \in SUBSET Ids /\ i \notin O \cup P /\ Seats(b.rows, O, P)
        /\ \A j \in O \cup P : q[j] = b.rows[j]
    BY <1>2, <1>3 DEF Seated
  <2>2. \A j \in P : q[j].cell # q[i].cell
    BY <1>3
  <2>3. \A j \in O : q[j].cell = q[i].cell => q[i].old = j
    BY <1>3
  <2>4. q[i].kind = "rest" => q[i].old = 0
    BY <1>3
  <2>5. (\E j \in O : q[j].cell = q[i].cell) \/ Cardinality(O) + Cardinality(P) < MaxOpen
    BY <1>3
  <2> HIDE DEF O, P, q
  <2>6. Seats(q, O, P \cup {i})
    BY <2>1, <2>2, <2>3, <2>4, <2>5, SeatPlaced
  <2>7. QED
    BY <2>6 DEF O, P, q
<1>5. QED
  BY <1>3, <1>4 DEF Seated, r

\* an entry that waits in x opens; x has let go of the position it replaces
LEMMA OpenSeated ==
  ASSUME NEW b \in Books, Seated(b), NEW i \in b.pend, NEW x \in Books, LessOf(b, x), x.rows[i] = b.rows[i],
         b.rows[i].st = "pending", \A j \in x.open : x.rows[j].cell # b.rows[i].cell, now \in Nat
  PROVE  Seated(OpenAt(x, i, now))
<1> DEFINE r == OpenAt(x, i, now)
<1>0. i \in Ids
  BY BookFields
<1>1. Beside(x, r, i) /\ Started(x, r, i) /\ r \in Books
  BY <1>0, OpenLocal
<1>2. r.open \in SUBSET Ids /\ r.pend \in SUBSET Ids /\ x.open \in SUBSET Ids /\ x.pend \in SUBSET Ids
      /\ b.open \in SUBSET Ids /\ b.pend \in SUBSET Ids
  BY <1>1, BookFields
<1> HIDE DEF r
<1>3. /\ r.open = x.open \cup {i} /\ r.pend = x.pend \ {i} /\ r.rows[i].cell = b.rows[i].cell
      /\ i \notin x.open
      /\ \A j \in x.open \cup (x.pend \ {i}) : r.rows[j] = b.rows[j]
  <2>1. i \notin x.open
    BY DEF LessOf
  <2>2. QED
    BY <1>0, <1>1, <1>2, <2>1 DEF Beside, Still, Started, LessOf
<1>4. x.open \in SUBSET b.open /\ x.pend \ {i} \in SUBSET b.pend
  BY DEF LessOf
<1>5. \A j \in x.open : b.rows[j].cell # b.rows[i].cell
  BY DEF LessOf
<1>6. Seats(r.rows, x.open \cup {i}, x.pend \ {i})
  <2> DEFINE O == b.open
             P == b.pend
             q == r.rows
             O2 == x.open
             P2 == x.pend \ {i}
  <2>1. /\ O \in SUBSET Ids /\ P \in SUBSET Ids /\ Seats(b.rows, O, P) /\ i \in P
        /\ O2 \in SUBSET O /\ P2 \in SUBSET P /\ i \notin P2
    BY <1>2, <1>4 DEF Seated
  <2>2. (\A j \in O2 \cup P2 : q[j] = b.rows[j]) /\ q[i].cell = b.rows[i].cell
    BY <1>3
  <2>3. \A j \in O2 : b.rows[j].cell # b.rows[i].cell
    BY <1>5
  <2> HIDE DEF O, P, q, O2, P2
  <2>4. Seats(q, O2 \cup {i}, P2)
    BY <2>1, <2>2, <2>3, SeatTaken
  <2>5. QED
    BY <2>4 DEF q, O2, P2
<1>7. QED
  BY <1>3, <1>6 DEF Seated, r

\* the position that an entry replaces is closed
LEMMA ClearedLess ==
  ASSUME NEW g \in Books, NEW old, old \notin g.pend, now \in Nat
  PROVE  LET x == Cleared(g, old)
         IN  x \in Books /\ LessOf(g, x) /\ x.open = g.open \ {old} /\ x.pend = g.pend
<1>1. CASE old \in g.open
  <2> DEFINE x == CloseAt(g, old, g.mkt, now)
  <2>1. Cleared(g, old) = x /\ old \in Ids /\ g.mkt \in Outcomes
    BY <1>1, BookFields DEF Cleared
  <2>2. LessOf(g, x)
    BY <1>1, <2>1, CloseLess
  <2>3. x \in Books /\ Beside(g, x, old) /\ Shut(g, x, old, g.mkt, now)
    BY <2>1, CloseLocal
  <2>4. x.open \in SUBSET Ids /\ x.pend \in SUBSET Ids /\ g.open \in SUBSET Ids /\ g.pend \in SUBSET Ids
    BY <2>3, BookFields
  <2> HIDE DEF x
  <2>5. \A j \in Ids \ {old} : (j \in x.open <=> j \in g.open) /\ (j \in x.pend <=> j \in g.pend)
    BY <2>3 DEF Beside, Still
  <2>6. old \notin x.open /\ (old \in x.pend <=> old \in g.pend)
    BY <2>3 DEF Shut
  <2>7. x.open = g.open \ {old}
    BY <2>4, <2>5, <2>6
  <2>8. \A j \in Ids : j \in x.pend <=> j \in g.pend
    BY <2>5, <2>6
  <2>9. x.pend = g.pend
    BY <2>4, <2>8
  <2>10. QED
    BY <2>1, <2>2, <2>3, <2>7, <2>9
<1>2. CASE old \notin g.open
  <2>1. Cleared(g, old) = g /\ g.open \ {old} = g.open
    BY <1>2 DEF Cleared
  <2>2. QED
    BY <2>1 DEF LessOf
<1>3. QED
  BY <1>1, <1>2

\* A decision seats its entry where there is room.
LEMMA ExecuteSeated ==
  ASSUME NEW b, Whole(b), b.dec, Sound(b), Seated(b), now \in Nat, NEW i \in Ids, b.rows[i].st = "none",
         NEW c \in Cells, NEW side \in Sides, NEW says, NEW bank \in BOOLEAN
  PROVE  Seated(ExecuteEntry(b, i, c, side, says, bank))
<1> DEFINE r == ExecuteEntry(b, i, c, side, says, bank)
           old == HeldIn(b, c)
           row == NewRow(c, side, old)
           g == Gate(b, now)
<1>0. b \in Books /\ ~b.bad
  BY DEF Whole
<1>1. \/ r = Ignored(b, i) \/ r = Rejected(b, i) \/ r = Rejected(g, i)
      \/ Admitted(b, g, i, c, row, old, r)
  BY <1>0, ExecuteIs
<1>2. /\ old \in 0..MaxSignals
      /\ InCell(b, b.open, c) = {} => old = 0
      /\ InCell(b, b.open, c) # {} => old \in InCell(b, b.open, c)
  BY <1>0, HeldIs
<1>a. b.open \in SUBSET Ids /\ b.pend \in SUBSET Ids /\ 0 \notin Ids
  BY <1>0, BookFields, Constants DEF Ids
<1> HIDE DEF old
<1>3. /\ row \in Row /\ row.st = "pending" /\ row.cell = c
      /\ row.kind = "rest" => row.old = 0 /\ old = 0
      /\ row.kind = "wait" => row.old = old
  BY <1>2, NewRowIs
<1>4. g \in Books /\ Moves(b, g, now) /\ ~g.bad
  BY <1>0, GateMoves
<1> HIDE DEF g, row, r
<1>5. LessOf(b, g)
  BY <1>4, MovesLess
<1>6. i \notin b.open /\ i \notin b.pend /\ \A j \in b.open : j \notin b.pend
  BY <1>a DEF Sound, SoundAt
<1>7. CASE r = Ignored(b, i) \/ r = Rejected(b, i)
  <2>1. LessOf(b, r)
    BY <1>0, <1>7, MarkLess
  <2>2. QED
    BY <1>0, <2>1, LessSeated DEF r
<1>8. CASE r = Rejected(g, i)
  <2>1. LessOf(b, r)
    BY <1>4, <1>5, <1>8, MarkLess, LessOn
  <2>2. QED
    BY <1>0, <2>1, LessSeated DEF r
<1>9. ASSUME Admitted(b, g, i, c, row, old, r)
      PROVE  /\ g.rows = b.rows /\ g.open = b.open /\ g.pend = b.pend /\ Seated(g)
             /\ \A j \in b.pend : b.rows[j].cell # c
             /\ \A j \in b.open : b.rows[j].cell = c => j = old
             /\ old = 0 => \A j \in b.open : b.rows[j].cell # c
             /\ old # 0 => old \in b.open /\ b.rows[old].cell = c
             /\ Cardinality(b.open \ {old}) + Cardinality(b.pend) < MaxOpen
  <2>1. g.rows = b.rows /\ g.open = b.open /\ g.pend = b.pend
    BY <1>9 DEF Admitted, Allowed, Unmoved
  <2>2. Seated(g)
    BY <2>1 DEF Seated
  <2>3. \A j \in b.pend : b.rows[j].cell # c
    BY <1>9 DEF Admitted, InCell
  <2>4. \A j \in b.open : b.rows[j].cell = c => j \in InCell(b, b.open, c)
    BY DEF InCell
  <2>5. (old = 0 => \A j \in b.open : b.rows[j].cell # c) /\ (old # 0 => old \in b.open /\ b.rows[old].cell = c)
    BY <1>2, <1>a, <2>4 DEF InCell
  <2>6. \A j \in b.open : b.rows[j].cell = c => j = old
    BY <2>5 DEF Seated, Seats
  <2>7. Cardinality(b.open \ {old}) + Cardinality(b.pend) < MaxOpen
    <3>1. Cardinality(b.open \ {old}) \in Nat /\ Cardinality(b.pend) \in Nat
      BY <1>a, IdSets
    <3>2. ~(Cardinality(b.open \ {old}) + Cardinality(b.pend) >= MaxOpen)
      BY <1>9 DEF Admitted
    <3>3. QED
      BY <3>1, <3>2, Constants
  <2>8. QED
    BY <2>1, <2>2, <2>3, <2>5, <2>6, <2>7
<1>10. CASE Admitted(b, g, i, c, row, old, r) /\ row.kind # "now"
  <2>1. r = Place(g, i, row)
    BY <1>10 DEF Admitted
  <2>2. row.kind \in {"rest", "wait"}
    BY <1>3, <1>10 DEF Row
  <2>3. /\ \A j \in g.pend : g.rows[j].cell # row.cell
        /\ \A j \in g.open : g.rows[j].cell = row.cell => row.old = j
    BY <1>3, <1>9, <1>10, <2>2
  <2>4. (\E j \in g.open : g.rows[j].cell = row.cell) \/ Cardinality(g.open) + Cardinality(g.pend) < MaxOpen
    <3>1. CASE old # 0
      BY <1>3, <1>9, <1>10, <3>1
    <3>2. CASE old = 0
      <4>1. b.open \ {old} = b.open
        BY <1>a, <3>2
      <4>2. QED
        BY <1>9, <1>10, <4>1
    <3>3. QED
      BY <3>1, <3>2
  <2>5. Seated(g) /\ i \notin g.open /\ i \notin g.pend
    BY <1>6, <1>9, <1>10
  <2>6. Seated(Place(g, i, row))
    BY <1>3, <1>4, <2>3, <2>4, <2>5, PlacedSeated
  <2>7. QED
    BY <2>1, <2>6 DEF r
<1>11. CASE Admitted(b, g, i, c, row, old, r) /\ row.kind = "now"
  <2> DEFINE x == Cleared(g, old)
             p == Place(x, i, row)
  <2>1. r = OpenAt(p, i, now)
    BY <1>11 DEF Admitted
  <2>2. old \notin g.pend
    BY <1>6, <1>9, <1>11, <1>a
  <2>3. x \in Books /\ LessOf(g, x) /\ x.open = g.open \ {old} /\ x.pend = g.pend
    BY <1>4, <2>2, ClearedLess
  <2> HIDE DEF x
  <2>4. Seated(x)
    BY <1>4, <1>9, <1>11, <2>3, LessSeated
  <2>5. /\ x.open = b.open \ {old} /\ x.pend = b.pend
        /\ \A j \in x.open \cup x.pend : x.rows[j] = b.rows[j]
    BY <1>9, <1>11, <2>3 DEF LessOf
  <2>6. i \notin x.open /\ i \notin x.pend
    BY <1>6, <2>5
  <2>7. /\ \A j \in x.pend : x.rows[j].cell # row.cell
        /\ \A j \in x.open : x.rows[j].cell # row.cell
    BY <1>3, <1>9, <1>11, <2>5
  <2>8. Cardinality(x.open) + Cardinality(x.pend) < MaxOpen
    BY <1>9, <1>11, <2>5
  <2>9. Seated(p)
    <3>1. row.kind = "rest" => row.old = 0
      BY <1>11
    <3>2. QED
      BY <1>3, <2>3, <2>4, <2>6, <2>7, <2>8, <3>1, PlacedSeated
  <2>10. p \in Books /\ Beside(x, p, i) /\ PlacedAs(x, p, i, row)
    BY <1>3, <2>3, PlaceLocal
  <2> HIDE DEF p
  <2>11. p.rows[i] = row /\ i \in p.pend /\ i \notin p.open
    BY <2>6, <2>10 DEF PlacedAs
  <2>12. \A j \in p.open : p.rows[j].cell # p.rows[i].cell
    <3>1. p.open \in SUBSET Ids
      BY <2>10, BookFields
    <3>2. \A j \in p.open : j \in x.open /\ p.rows[j] = x.rows[j]
      BY <2>10, <2>11, <3>1 DEF Beside, Still
    <3>3. QED
      BY <2>7, <2>11, <3>2
  <2>13. LessOf(p, p)
    BY DEF LessOf
  <2>14. Seated(OpenAt(p, i, now))
    BY <1>3, <2>9, <2>10, <2>11, <2>12, <2>13, OpenSeated
  <2>15. QED
    BY <2>1, <2>14 DEF r
<1>12. QED
  BY <1>1, <1>7, <1>8, <1>10, <1>11

\* A fill takes the seat of its entry, once the position it replaces has left.
LEMMA FilledSeated ==
  ASSUME NEW b, Whole(b), b.dec, Sound(b), Seated(b), now \in Nat, NEW i \in Ids, Known(b, b, now, i),
         NEW says, NEW stopped \in BOOLEAN
  PROVE  Seated(Filled(b, i, says, stopped))
<1> DEFINE r == Filled(b, i, says, stopped)
           taken == [b EXCEPT !.pend = @ \ {i}]
           g == Gate(taken, now)
<1>0. b \in Books /\ ~b.bad
  BY DEF Whole
<1>1. \/ r = CancelEntry(b, i) \/ r = CancelEntry(g, i)
      \/ WaitingFilled(b, g, i, Replaced(b, i), r)
      \/ RestingFilled(b, g, i, Time, r) /\ b.rows[i].kind = "rest"
  <2>1. CASE b.rows[i].kind = "rest"
    <3>1. r = FillResting(b, i, Time, says, stopped)
      BY <2>1 DEF Filled
    <3> HIDE DEF r
    <3>2. QED
      BY <1>0, <2>1, <3>1, FillRestingIs
  <2>2. CASE b.rows[i].kind # "rest"
    <3>1. r = FillWaiting(b, i, says)
      BY <2>2 DEF Filled
    <3> HIDE DEF r
    <3>2. QED
      BY <1>0, <3>1, FillWaitingIs
  <2>3. QED
    BY <2>1, <2>2
<1>2. /\ taken \in Books /\ taken.resets = b.resets /\ taken.dec /\ ~taken.bad /\ taken.pend = b.pend \ {i}
      /\ taken.risk = b.risk /\ taken.rows = b.rows /\ taken.open = b.open
  BY <1>0, TakenIs
<1>b. taken = [b EXCEPT !.pend = @ \ {i}]
  OBVIOUS
<1>3. /\ g \in Books /\ Moves(taken, g, now) /\ ~g.bad
      /\ Locks(taken, taken, now) => Locks(g, g, now)
  <2> HIDE DEF taken
  <2>1. QED
    BY <1>2, GateMoves
<1> HIDE DEF taken, g, r
<1>a. b.open \in SUBSET Ids /\ b.pend \in SUBSET Ids
  BY <1>0, BookFields
<1>4. i \notin b.open /\ (b.rows[i].st # "pending" => Locks(b, b, now)) /\ \A j \in b.open : j \notin b.pend
  BY <1>a DEF Known, Sound, SoundAt
<1>5. LessOf(b, g)
  <2>1. LessOf(b, taken)
    BY <1>2 DEF LessOf
  <2>2. LessOf(taken, g)
    BY <1>3, MovesLess
  <2>3. QED
    BY <2>1, <2>2, LessOn
<1>6. i \notin g.open
  BY <1>4, <1>5 DEF LessOf
<1>7. CASE r = CancelEntry(b, i)
  BY <1>0, <1>4, <1>7, CancelLess, LessSeated DEF r
<1>8. CASE r = CancelEntry(g, i)
  <2>1. LessOf(g, r)
    BY <1>3, <1>6, <1>8, CancelLess
  <2>2. QED
    BY <1>0, <1>5, <2>1, LessOn, LessSeated DEF r
<1>9. ASSUME Allowed(taken, g, b.rows[i].cell)
      PROVE  /\ b.rows[i].st = "pending" /\ i \in b.pend
             /\ g.rows = b.rows /\ g.open = b.open /\ g.pend = b.pend \ {i}
  <2>1. ~Locks(g, g, now)
    BY <1>9 DEF Allowed, Locks
  <2>2. ~Locks(b, b, now)
    BY <2>1, <1>2, <1>3 DEF Locks
  <2>3. g.rows = taken.rows /\ g.open = taken.open /\ g.pend = taken.pend
    BY <1>9 DEF Allowed, Unmoved
  <2>4. QED
    BY <1>2, <1>4, <2>2, <2>3 DEF Sound, SoundAt
<1>10. CASE WaitingFilled(b, g, i, Replaced(b, i), r)
  <2> DEFINE old == Replaced(b, i)
             x == Cleared(g, old)
  <2>1. r = OpenAt(x, i, now) /\ Allowed(taken, g, b.rows[i].cell)
    BY <1>10, <1>b DEF WaitingFilled
  <2>2. old \in b.open \/ old = 0
    BY DEF Replaced
  <2>3. old \notin g.pend
    <3>1. 0 \notin Ids
      BY Constants DEF Ids
    <3>2. QED
      BY <1>4, <1>9, <1>a, <2>1, <2>2, <3>1
  <2>4. \A j \in b.open : b.rows[j].cell = b.rows[i].cell => old = j
    BY <1>9, <2>1 DEF Seated, Seats, Replaced
  <2> HIDE DEF old
  <2>5. x \in Books /\ LessOf(g, x) /\ x.open = g.open \ {old} /\ x.pend = g.pend
    BY <1>3, <2>3, ClearedLess
  <2>6. LessOf(b, x)
    BY <1>5, <2>5, LessOn
  <2>7. x.rows[i] = b.rows[i]
    <3>1. CASE old \in g.open
      <4>1. old \in Ids /\ g.mkt \in Outcomes /\ old # i
        BY <1>3, <1>6, <3>1, BookFields
      <4>2. x = CloseAt(g, old, g.mkt, now)
        BY <3>1 DEF Cleared
      <4> HIDE DEF x
      <4>3. Beside(g, x, old)
        BY <1>3, <4>1, <4>2, CloseLocal
      <4>4. QED
        BY <1>9, <2>1, <4>1, <4>3 DEF Beside, Still
    <3>2. CASE old \notin g.open
      BY <1>9, <2>1, <3>2 DEF Cleared
    <3>3. QED
      BY <3>1, <3>2
  <2> HIDE DEF x
  <2>8. \A j \in x.open : x.rows[j].cell # b.rows[i].cell
    <3>1. \A j \in x.open : j \in b.open /\ j # old /\ x.rows[j] = b.rows[j]
      BY <2>5, <2>6 DEF LessOf
    <3>2. QED
      BY <2>4, <3>1
  <2>9. Seated(OpenAt(x, i, now))
    BY <1>0, <1>9, <2>1, <2>5, <2>6, <2>7, <2>8, OpenSeated
  <2>10. QED
    BY <2>1, <2>9 DEF r
<1>11. CASE RestingFilled(b, g, i, Time, r) /\ b.rows[i].kind = "rest"
  <2> DEFINE o == OpenAt(g, i, now)
  <2>1. (r = o \/ r = CloseAt(o, i, -1, now)) /\ Allowed(taken, g, b.rows[i].cell)
    BY <1>11, <1>b DEF RestingFilled
  <2>2. b.rows[i].old = 0 /\ 0 \notin Ids
    BY <1>9, <1>11, <2>1, Constants DEF Seated, Seats, Ids
  <2>3. \A j \in b.open : b.rows[j].cell # b.rows[i].cell
    BY <1>9, <1>a, <2>1, <2>2 DEF Seated, Seats
  <2>4. \A j \in g.open : g.rows[j].cell # b.rows[i].cell
    BY <1>9, <2>1, <2>3
  <2>5. Seated(o)
    BY <1>0, <1>3, <1>5, <1>9, <2>1, <2>4, OpenSeated
  <2>6. o \in Books /\ Started(g, o, i)
    BY <1>3, OpenLocal
  <2> HIDE DEF o
  <2>7. CASE r = o
    BY <2>5, <2>7 DEF r
  <2>8. CASE r = CloseAt(o, i, -1, now)
    <3>1. -1 \in Outcomes /\ i \in o.open /\ i \notin o.pend
      BY <2>6 DEF Outcomes, Started
    <3>2. LessOf(o, r)
      BY <2>6, <2>8, <3>1, CloseLess
    <3>3. QED
      BY <2>5, <2>6, <3>2, LessSeated DEF r
  <2>9. QED
    BY <2>1, <2>7, <2>8
<1>12. QED
  BY <1>1, <1>7, <1>8, <1>10, <1>11

----------------------------------------------------------------------------
(* The table keeps the limits.                                              *)

LEMMA LeavesSeats ==
  ASSUME DiskSeated, Leaves(disk, disk')
  PROVE  DiskSeated'
<1> DEFINE D == disk'
           O2 == IdsOf(D, "open")
           P2 == IdsOf(D, "pending")
<1>1. \A j \in Ids : D.rows[j] = disk.rows[j] \/ D.rows[j].st \notin Live
  BY DEF Leaves
<1> HIDE DEF D
<1>2. /\ IdsOf(disk, "open") \in SUBSET Ids /\ IdsOf(disk, "pending") \in SUBSET Ids
      /\ O2 \in SUBSET IdsOf(disk, "open") /\ P2 \in SUBSET IdsOf(disk, "pending")
      /\ \A j \in O2 \cup P2 : D.rows[j] = disk.rows[j]
  BY <1>1 DEF IdsOf, Live
<1> HIDE DEF O2, P2
<1>3. Seats(D.rows, O2, P2)
  BY <1>2, SeatsLess DEF DiskSeated
<1>4. QED
  BY <1>3 DEF D, O2, P2, DiskSeated

LEMMA CommittedLeaves ==
  ASSUME DiskSeated, NEW b, b.rows = disk.rows, NEW r, Whole(r), disk' = Durable(r), Leaves(b, r)
  PROVE  DiskSeated'
<1>1. disk'.rows = r.rows
  BY Kept
<1>2. Leaves(disk, disk')
  BY <1>1 DEF Leaves
<1>3. QED
  BY <1>2, LeavesSeats

LEMMA OpLeaves ==
  ASSUME NEW b \in Books, NEW i \in Ids, now \in Nat
  PROVE  /\ Leaves(b, CancelEntry(b, i))
         /\ \A pnl \in Outcomes : Leaves(b, CloseAt(b, i, pnl, now))
<1>1. Gone.st \notin Live
  BY DEF Gone, NoRow, Live
<1>2. Leaves(b, CancelEntry(b, i))
  <2> DEFINE r == CancelEntry(b, i)
  <2>1. Beside(b, r, i) /\ Cancelled(b, r, i)
    BY CancelLocal
  <2> HIDE DEF r
  <2>2. Leaves(b, r)
    BY <1>1, <2>1 DEF Beside, Still, Cancelled, Leaves
  <2>3. QED
    BY <2>2 DEF r
<1>3. ASSUME NEW pnl \in Outcomes PROVE Leaves(b, CloseAt(b, i, pnl, now))
  <2> DEFINE r == CloseAt(b, i, pnl, now)
  <2>1. Beside(b, r, i) /\ Shut(b, r, i, pnl, now)
    BY CloseLocal
  <2>2. ClosedRow(b, i, pnl, now).st \notin Live
    BY ClosedRowType DEF Live
  <2> HIDE DEF r
  <2>3. Leaves(b, r)
    BY <2>1, <2>2 DEF Beside, Still, Shut, Leaves
  <2>4. QED
    BY <2>3 DEF r
<1>4. QED
  BY <1>2, <1>3

LEMMA MovesLeaves ==
  ASSUME NEW b \in Books, NEW r, now \in Nat, Moves(b, r, now), ~r.bad
  PROVE  Leaves(b, r)
<1>1. r.rows = b.rows \/ r.rows = SweptRows(b, now)
  BY DEF Moves, Unmoved, SweptTo
<1>2. Gone.st \notin Live
  BY DEF Gone, NoRow, Live
<1>3. ASSUME NEW j \in Ids PROVE ClosedRow(b, j, b.mkt, now).st \notin Live
  <2>1. b.mkt \in Outcomes
    BY BookFields
  <2>2. QED
    BY <2>1, ClosedRowType DEF Live
<1>4. CASE r.rows = b.rows
  BY <1>4 DEF Leaves
<1>5. CASE r.rows = SweptRows(b, now)
  <2>1. ASSUME NEW j \in Ids PROVE SweptRows(b, now)[j] \in {b.rows[j], Gone, ClosedRow(b, j, b.mkt, now)}
    BY DEF SweptRows
  <2>2. QED
    BY <1>2, <1>3, <1>5, <2>1 DEF Leaves
<1>6. QED
  BY <1>1, <1>4, <1>5

\* a decision or a fill seats what it places or opens
LEMMA SoundSeats ==
  ASSUME NEW b \in Books, Sound(b)
  PROVE  Seated(b) <=> Seats(b.rows, IdsOf(b, "open"), IdsOf(b, "pending"))
<1>1. b.open \in SUBSET Ids /\ b.pend \in SUBSET Ids
  BY BookFields
<1>2. b.open = IdsOf(b, "open") /\ b.pend = IdsOf(b, "pending")
  BY <1>1 DEF Sound, SoundAt, IdsOf
<1>3. QED
  BY <1>2 DEF Seated

LEMMA SeatedInBook ==
  ASSUME DiskSeated, NEW b, InBook(b), Sound(b)
  PROVE  Seated(b)
<1>1. b \in Books /\ b.rows = disk.rows
  BY DEF InBook, Whole
<1>2. IdsOf(b, "open") = IdsOf(disk, "open") /\ IdsOf(b, "pending") = IdsOf(disk, "pending")
  BY <1>1 DEF IdsOf
<1>3. QED
  BY <1>1, <1>2, SoundSeats DEF DiskSeated

LEMMA SeatedMade ==
  ASSUME NEW r, Whole(r), Sound(r), Seated(r), disk' = Durable(r)
  PROVE  DiskSeated'
<1> DEFINE D == disk'
<1>1. D.rows = r.rows
  BY Kept
<1> HIDE DEF D
<1>2. IdsOf(D, "open") = IdsOf(r, "open") /\ IdsOf(D, "pending") = IdsOf(r, "pending")
  BY <1>1 DEF IdsOf
<1>3. Seats(D.rows, IdsOf(D, "open"), IdsOf(D, "pending"))
  BY <1>1, <1>2, SoundSeats DEF Whole
<1>4. QED
  BY <1>3 DEF D, DiskSeated

LEMMA DecideSeats ==
  ASSUME Types, Agree, DiskSeated, Decide
  PROVE  DiskSeated'
<1>1. /\ up /\ up' /\ now' = now /\ work = <<>> /\ now \in Nat
      /\ \/ disk' = disk /\ mem' = mem /\ work' = <<>> /\ seen' = seen
         \/ /\ seen + 1 \in Ids /\ seen' = seen + 1
            /\ \E c \in Cells, side \in Sides, says \in Verdicts, bank \in BOOLEAN, m \in Outcomes : \E r :
                 /\ r = ExecuteEntry(Decision(m), seen + 1, c, side, says, bank)
                 /\ Whole(r) /\ disk' = Durable(r) /\ mem' = Volatile(r) /\ work' = Trades(r, FALSE)
  BY DecideIs DEF Begins, Types
<1>2. CASE disk' = disk
  BY <1>2, LeavesSeats DEF Leaves
<1>3. ASSUME seen + 1 \in Ids, NEW c \in Cells, NEW side \in Sides, NEW says \in Verdicts, NEW bank \in BOOLEAN,
             NEW m \in Outcomes, NEW r, r = ExecuteEntry(Decision(m), seen + 1, c, side, says, bank),
             Whole(r), disk' = Durable(r)
      PROVE  DiskSeated'
  <2> DEFINE b == Decision(m)
             i == seen + 1
  <2>1. r = ExecuteEntry(b, i, c, side, says, bank) /\ i \in Ids
    BY <1>3
  <2>2. InBook(b) /\ b.dec
    BY <1>1, BookIs
  <2>3. Drops(work) = {} /\ seen \in Nat
    BY <1>1 DEF Drops, Types
  <2> HIDE DEF b
  <2>4. Sound(b) /\ \A j \in Ids : j > seen => b.rows[j].st = "none"
    BY <1>1, <2>2, <2>3, AgreesInBook
  <2>5. b.rows[i].st = "none" /\ Whole(b) /\ Seated(b)
    BY <1>1, <2>1, <2>2, <2>3, <2>4, SeatedInBook DEF InBook
  <2> HIDE DEF i
  <2>6. Handles(b, r, i)
    BY <1>1, <2>1, <2>2, <2>4, <2>5, ExecuteHandles
  <2>7. Seated(r)
    BY <1>1, <2>1, <2>2, <2>4, <2>5, ExecuteSeated
  <2>8. Sound(r)
    BY <2>6 DEF Handles
  <2>9. QED
    BY <1>3, <2>7, <2>8, SeatedMade
<1>4. QED
  BY <1>1, <1>2, <1>3

LEMMA FillEntrySeats ==
  ASSUME Types, Agree, DiskSeated, FillEntry
  PROVE  DiskSeated'
<1>1. /\ Runs /\ Running("fill") /\ Entry \in Ids
      /\ \/ Left(Tail(work))
         \/ \E touched \in BOOLEAN, says \in Verdicts, stopped \in BOOLEAN, m \in Outcomes : \E r :
              /\ Reaches(disk.rows[Entry], Via, Time, touched)
              /\ r = Filled(Decision(m), Entry, says, stopped)
              /\ Committed(r, FALSE)
  BY FillEntryIs
<1>2. up /\ work # <<>> /\ Head(work).op = "fill" /\ Head(work) = work[1] /\ 1 \in 1..Len(work) /\ now \in Nat
  BY <1>1, HeadIs DEF Types
<1>3. CASE Left(Tail(work))
  BY <1>3, LeavesSeats DEF Left, Leaves
<1>4. ASSUME NEW says \in Verdicts, NEW stopped \in BOOLEAN, NEW m \in Outcomes, NEW r,
             r = Filled(Decision(m), Entry, says, stopped), Committed(r, FALSE)
      PROVE  DiskSeated'
  <2> DEFINE b == Decision(m)
             i == Entry
  <2>1. InBook(b) /\ b.dec /\ r = Filled(b, i, says, stopped)
    BY <1>2, <1>4, BookIs
  <2> HIDE DEF b
  <2>2. Drops(work) = {}
    BY Zenon, <1>2, NoDrops
  <2>3. Sound(b) /\ Fits(b, b, now, Head(work))
    BY <1>2, <2>1, <2>2, AgreesInBook
  <2>4. Known(b, b, now, i) /\ i \in Ids /\ Whole(b)
    BY <1>1, <1>2, <2>1, <2>3 DEF Fits, InBook, Entry
  <2>5. Seated(b)
    BY <2>1, <2>3, SeatedInBook
  <2> HIDE DEF i
  <2>6. Handles(b, r, i)
    BY <1>2, <2>1, <2>3, <2>4, FilledHandles
  <2>7. Seated(r)
    BY <1>2, <2>1, <2>3, <2>4, <2>5, FilledSeated
  <2>8. Sound(r) /\ Whole(r) /\ disk' = Durable(r)
    BY <1>4, <2>6 DEF Handles, Committed
  <2>9. QED
    BY <2>7, <2>8, SeatedMade
<1>5. QED
  BY <1>1, <1>3, <1>4

LEMMA SeatsStep == Types /\ Agree /\ DiskSeated /\ [Next]_vars => DiskSeated'
<1> SUFFICES ASSUME Types, Agree, DiskSeated, [Next]_vars PROVE DiskSeated'
  OBVIOUS
<1>1. ASSUME disk'.rows = disk.rows PROVE DiskSeated'
  BY <1>1, LeavesSeats DEF Leaves
<1>2. CASE Decide \/ FillEntry
  BY <1>2, DecideSeats, FillEntrySeats
<1>3. CASE CheckEntry \/ ExitPosition \/ CancelItem
  <2>1. SUFFICES ASSUME disk' # disk PROVE DiskSeated'
    BY <1>1
  <2>2. /\ up /\ Entry \in Ids
        /\ \/ Committed(CancelEntry(Decision(-1), Entry), FALSE)
           \/ \E pnl \in Outcomes : Committed(CloseAt(Book, Entry, pnl, now), TRUE)
    BY <1>3, <2>1, CheckEntryIs, ExitPositionIs, CancelItemIs DEF Runs, Left
  <2>3. PICK r : /\ r = CancelEntry(Decision(-1), Entry) \/ \E pnl \in Outcomes : r = CloseAt(Book, Entry, pnl, now)
                 /\ Whole(r) /\ disk' = Durable(r)
    BY <2>2 DEF Committed
  <2>4. InBook(Decision(-1)) /\ InBook(Book) /\ now \in Nat
    BY <2>2, BookIs DEF Outcomes, Types
  <2>5. PICK b : InBook(b) /\ (r = CancelEntry(b, Entry) \/ \E pnl \in Outcomes : r = CloseAt(b, Entry, pnl, now))
    BY <2>3, <2>4
  <2>6. b \in Books /\ b.rows = disk.rows
    BY <2>5 DEF InBook, Whole
  <2>7. Leaves(b, r)
    BY <2>2, <2>4, <2>5, <2>6, OpLeaves
  <2>8. QED
    BY <2>3, <2>6, <2>7, CommittedLeaves
<1>4. CASE RiskStep \/ BootRisk
  <2>1. SUFFICES ASSUME disk' # disk PROVE DiskSeated'
    BY <1>1
  <2>2. PICK r : (RiskResult(r) \/ StartResult(r)) /\ Whole(r) /\ disk' = Durable(r)
    BY Zenon, <1>4, <2>1, RiskStepIs, BootRiskIs DEF Left, Committed
  <2>3. up /\ now \in Nat /\ ~r.bad
    BY Zenon, <1>4, <2>2, RiskStepIs, BootRiskIs DEF Runs, Types, Whole
  <2>4. PICK m \in Outcomes : Moves([Book EXCEPT !.mkt = m], r, now)
    BY <2>2, <2>3, RiskOpensNot
  <2> DEFINE b == [Book EXCEPT !.mkt = m]
  <2>5. InBook(b) /\ Moves(b, r, now)
    BY <2>3, <2>4, BookIs
  <2> HIDE DEF b
  <2>6. b \in Books /\ b.rows = disk.rows
    BY <2>5 DEF InBook, Whole
  <2>7. Leaves(b, r)
    BY <2>3, <2>5, <2>6, MovesLeaves
  <2>8. QED
    BY <2>2, <2>6, <2>7, CommittedLeaves
<1>5. CASE Stamp \/ RiskReset \/ \E halt \in BOOLEAN : CloseAllCommand(halt)
  BY <1>1, <1>5, StampIs, RiskResetIs, CloseAllIs DEF Untouched
<1>6. CASE BookReset
  <2>1. \A i \in Ids : disk'.rows[i] = Archived(disk.rows[i]) /\ disk.rows[i] \in Row
    BY <1>6, BookResetIs, DiskFields
  <2> DEFINE D == disk'
  <2>2. \A i \in Ids : D.rows[i] = Archived(disk.rows[i]) /\ disk.rows[i] \in Row
    BY <2>1
  <2> HIDE DEF D
  <2>3. Leaves(disk, D)
    BY <2>2, ArchivedRow DEF Leaves, Live
  <2>4. QED
    BY <2>3, LeavesSeats DEF D
<1>7. CASE VoidPosition \/ DropEntry
  <2>1. \A i \in Ids : disk'.rows[i] = disk.rows[i] \/ disk'.rows[i] = Gone
    BY <1>7, VoidPositionIs, DropEntryIs
  <2> DEFINE D == disk'
  <2>2. \A i \in Ids : D.rows[i] = disk.rows[i] \/ D.rows[i] = Gone
    BY <2>1
  <2> HIDE DEF D
  <2>3. Leaves(disk, D)
    BY <2>2 DEF Leaves, Live, Gone, NoRow
  <2>4. QED
    BY <2>3, LeavesSeats DEF D
<1>8. CASE TapePrint \/ Candle \/ OwnExit \/ Timer \/ Clock \/ Kill \/ Boot \/ UNCHANGED vars
  <2>1. disk' = disk
    BY Zenon, <1>8, TapePrintIs, CandleIs, OwnExitIs, TimerIs, ClockIs, KillIs, BootIs DEF Left, vars
  <2>2. QED
    BY <2>1, <1>1
<1>9. QED
  BY <1>2, <1>3, <1>4, <1>5, <1>6, <1>7, <1>8 DEF Next, Work

LEMMA NoSeats == ASSUME NEW rows PROVE Seats(rows, {}, {})
<1>1. CellsOf(rows, {} \cup {}) = {}
  BY DEF CellsOf
<1>2. Cardinality(CellsOf(rows, {} \cup {})) = 0
  BY <1>1, FS_EmptySet
<1>3. Cardinality(CellsOf(rows, {} \cup {})) <= MaxOpen
  BY <1>2, Constants
<1>4. QED
  BY <1>3 DEF Seats

LEMMA InitSeats == Init => DiskSeated
<1> SUFFICES ASSUME Init PROVE DiskSeated
  OBVIOUS
<1>1. disk = Durable([Empty EXCEPT !.saved = FreshState(Empty, 0)])
  BY DEF Init
<1>2. Empty.rows = [i \in Ids |-> NoRow] /\ NoRow.st = "none"
  BY DEF Empty, NoRow
<1>3. ASSUME NEW f PROVE Durable([Empty EXCEPT !.saved = f]).rows = Empty.rows
  BY DEF Durable, Empty
<1>4. disk.rows = [i \in Ids |-> NoRow]
  BY <1>1, <1>2, <1>3
<1>5. IdsOf(disk, "open") = {} /\ IdsOf(disk, "pending") = {}
  BY <1>2, <1>4 DEF IdsOf
<1>6. QED
  BY <1>5, NoSeats DEF DiskSeated

LEMMA AtMostOne ==
  ASSUME NEW S, \A x, y \in S : x = y
  PROVE  Cardinality(S) <= 1
<1>1. CASE S = {}
  BY <1>1, FS_EmptySet
<1>2. CASE S # {}
  <2>1. PICK x : S = {x}
    BY <1>2
  <2>2. QED
    BY <2>1, FS_Singleton
<1>3. QED
  BY <1>1, <1>2

LEMMA OnePerCell ==
  ASSUME NEW b, NEW S, \A i, j \in S : b.rows[i].cell = b.rows[j].cell => i = j, NEW c
  PROVE  Cardinality(InCell(b, S, c)) <= 1
<1> DEFINE T == InCell(b, S, c)
<1>1. \A x, y \in T : x = y
  BY DEF InCell
<1> HIDE DEF T
<1>2. Cardinality(T) <= 1
  BY <1>1, AtMostOne
<1>3. QED
  BY <1>2 DEF T

LEMMA SeatsBound ==
  ASSUME NEW rows, NEW O \in SUBSET Ids, NEW P \in SUBSET Ids, Seats(rows, O, P)
  PROVE  /\ Cardinality(O) <= MaxOpen
         /\ Cardinality(O) + Cardinality(P) - Cardinality({i \in O : \E j \in P : rows[j].old = i}) <= MaxOpen
<1> DEFINE A == CellsOf(rows, O)
           B == CellsOf(rows, P)
           C == CellsOf(rows, O \cup P)
           R == {i \in O : \E j \in P : rows[j].old = i}
<1>1. O \cup P \in SUBSET Ids /\ R \in SUBSET Ids
  OBVIOUS
<1>2. C = A \cup B
  BY DEF CellsOf
<1>3. A \cap B \in SUBSET CellsOf(rows, R)
  <2>1. ASSUME NEW c \in A \cap B PROVE c \in CellsOf(rows, R)
    <3>1. PICK i \in O, j \in P : c = rows[i].cell /\ c = rows[j].cell
      BY DEF CellsOf
    <3>2. i \in R
      BY <3>1 DEF Seats
    <3>3. QED
      BY <3>1, <3>2 DEF CellsOf
  <2>2. QED
    BY <2>1
<1> HIDE DEF A, B, C, R
<1>4. /\ IsFiniteSet(A) /\ Cardinality(A) \in Nat /\ Cardinality(A) = Cardinality(O)
      /\ IsFiniteSet(B) /\ Cardinality(B) \in Nat /\ Cardinality(B) = Cardinality(P)
  <2>1. (\A i, j \in O : rows[i].cell = rows[j].cell => i = j) /\ (\A i, j \in P : rows[i].cell = rows[j].cell => i = j)
    BY DEF Seats
  <2>2. QED
    BY <2>1, CellCount DEF A, B
<1>5. Cardinality(C) \in Nat /\ Cardinality(C) <= MaxOpen
  <2>1. Cardinality(C) \in Nat
    BY <1>1, CellCount DEF C
  <2>2. QED
    BY <2>1 DEF Seats, C
<1>6. Cardinality(C) = Cardinality(A) + Cardinality(B) - Cardinality(A \cap B)
  BY <1>2, <1>4, FS_Union
<1>7. Cardinality(A \cap B) <= Cardinality(R) /\ Cardinality(A \cap B) \in Nat /\ Cardinality(R) \in Nat
  <2>1. /\ Cardinality(A \cap B) \in Nat /\ Cardinality(A \cap B) <= Cardinality(CellsOf(rows, R))
    BY <1>1, <1>3, FewerCells
  <2>2. /\ Cardinality(CellsOf(rows, R)) \in Nat /\ Cardinality(CellsOf(rows, R)) <= Cardinality(R)
        /\ Cardinality(R) \in Nat
    BY <1>1, CellCount, IdSets
  <2>3. QED
    BY <2>1, <2>2
<1>8. A \in SUBSET C
  BY <1>2
<1>9. Cardinality(A) <= Cardinality(C)
  <2>1. IsFiniteSet(C)
    BY <1>1, CellCount DEF C
  <2>2. QED
    BY <1>8, <2>1, FS_Subset
<1>10. Cardinality(O) <= MaxOpen
  BY <1>4, <1>5, <1>9, Constants
<1>11. Cardinality(O) + Cardinality(P) - Cardinality(R) <= MaxOpen
  BY <1>4, <1>5, <1>6, <1>7, Constants
<1>12. QED
  BY <1>10, <1>11 DEF R

LEMMA SeatsBounded == Types /\ Agree /\ DiskSeated => EntriesBounded
<1> SUFFICES ASSUME Types, Agree, DiskSeated PROVE EntriesBounded
  OBVIOUS
<1> DEFINE O == mem.open
           P == mem.pend
<1>1. O \in SUBSET Ids /\ P \in SUBSET Ids
  BY DiskFields
<1>2. Seats(disk.rows, O, P)
  <2>1. CASE up
    <3>1. O \in SUBSET IdsOf(disk, "open") /\ P \in SUBSET IdsOf(disk, "pending")
      BY <1>1, <2>1 DEF Agree, IdsOf
    <3>2. IdsOf(disk, "open") \in SUBSET Ids /\ IdsOf(disk, "pending") \in SUBSET Ids
      BY DEF IdsOf
    <3> HIDE DEF O, P
    <3>3. QED
      BY <3>1, <3>2, SeatsLess DEF DiskSeated
  <2>2. CASE ~up
    <3>1. O = {} /\ P = {}
      BY <2>2 DEF Types, Down
    <3> HIDE DEF O, P
    <3>2. QED
      BY <3>1, NoSeats
  <2>3. QED
    BY <2>1, <2>2
<1>3. /\ Cardinality(O) <= MaxOpen
      /\ Cardinality(O) + Cardinality(P) - Cardinality({i \in O : \E j \in P : disk.rows[j].old = i}) <= MaxOpen
  <2> HIDE DEF O, P
  <2>1. QED
    BY <1>1, <1>2, SeatsBound
<1>4. /\ \A i, j \in O : disk.rows[i].cell = disk.rows[j].cell => i = j
      /\ \A i, j \in P : disk.rows[i].cell = disk.rows[j].cell => i = j
      /\ \A i \in O, j \in P : disk.rows[i].cell = disk.rows[j].cell => disk.rows[j].old = i
  <2> HIDE DEF O, P
  <2>1. QED
    BY <1>2 DEF Seats
<1>5. ASSUME NEW c \in Cells
      PROVE  /\ Cardinality(InCell(disk, O, c)) <= 1 /\ Cardinality(InCell(disk, P, c)) <= 1
             /\ \A i \in InCell(disk, O, c), j \in InCell(disk, P, c) : disk.rows[j].old = i
  <2> HIDE DEF O, P
  <2>1. Cardinality(InCell(disk, O, c)) <= 1
    BY <1>4, OnePerCell
  <2>2. Cardinality(InCell(disk, P, c)) <= 1
    BY <1>4, OnePerCell
  <2>3. \A i \in InCell(disk, O, c), j \in InCell(disk, P, c) : disk.rows[j].old = i
    <3>1. \A i \in InCell(disk, O, c) : i \in O /\ disk.rows[i].cell = c
      BY DEF InCell
    <3>2. \A j \in InCell(disk, P, c) : j \in P /\ disk.rows[j].cell = c
      BY DEF InCell
    <3>3. QED
      BY <1>4, <3>1, <3>2
  <2>4. QED
    BY <2>1, <2>2, <2>3
<1>6. QED
  BY <1>3, <1>5 DEF EntriesBounded

\* What the table holds keeps the limits at every commit, whether the process
\* runs or not: a cell is held by one position and one entry at most, by both
\* only while the entry replaces this very position, and maxOpenPositions
\* bounds the cells held.
THEOREM SeatsInvariant == Spec => []DiskSeated
<1>1. Init => DiskSeated
  BY InitSeats
<1>2. Types /\ Agree /\ DiskSeated /\ [Next]_vars => DiskSeated'
  BY SeatsStep
<1>3. Spec => []Types
  BY TypeInvariant
<1>4. Spec => []Agree
  BY AgreeInvariant
<1>5. QED
  BY <1>1, <1>2, <1>3, <1>4, PTL DEF Spec

\* maxOpenPositions bounds open positions, and open and pending ones together
\* once a reversal counts as one, through fills, reversals, failed writes, kills
\* of the process and restarts: the limit is checked when an entry is placed and
\* again when it fills, and what happens between the two never needs a seat
\* more. The limit on the table is inductive; the one on the maps is not.
THEOREM EntriesBoundedHolds == Spec => []EntriesBounded
<1>1. Types /\ Agree /\ DiskSeated => EntriesBounded
  BY SeatsBounded
<1>2. Spec => []Types
  BY TypeInvariant
<1>3. Spec => []Agree
  BY AgreeInvariant
<1>4. Spec => []DiskSeated
  BY SeatsInvariant
<1>5. QED
  BY <1>1, <1>2, <1>3, <1>4, PTL

----------------------------------------------------------------------------
(* Cooldowns: the scores and the rows they are told by.                     *)

LEMMA StreakSame ==
  ASSUME NEW rows, NEW q, NEW W, NEW L, NEW n, NEW until, \A i \in W \cup L : q[i] = rows[i],
         Streak(rows, W, L, n, until)
  PROVE  Streak(q, W, L, n, until)
<1> SUFFICES ASSUME NEW S \in SUBSET L
             PROVE  /\ (\A w \in W, i \in S : q[w].end < q[i].end) => Cardinality(S) <= n
                    /\ Cardinality(S) >= CooldownAfter /\ Unbroken(q, W, S)
                         => \A i \in S : q[i].end + CooldownTicks <= until
  BY DEF Streak
<1>1. \A w \in W : q[w].end = rows[w].end
  OBVIOUS
<1>2. \A i \in S : q[i].end = rows[i].end
  OBVIOUS
<1>3. Unbroken(q, W, S) => Unbroken(rows, W, S)
  BY <1>1, <1>2 DEF Unbroken
<1>4. (\A w \in W, i \in S : rows[w].end < rows[i].end) => Cardinality(S) <= n
  BY DEF Streak
<1>5. Cardinality(S) >= CooldownAfter /\ Unbroken(rows, W, S) => \A i \in S : rows[i].end + CooldownTicks <= until
  BY DEF Streak
<1>6. QED
  BY <1>1, <1>2, <1>3, <1>4, <1>5

LEMMA StreakNone ==
  ASSUME NEW rows, NEW W, NEW n \in Nat, NEW until
  PROVE  Streak(rows, W, {}, n, until)
<1>1. Cardinality({}) = 0
  BY FS_EmptySet
<1>2. \A S \in SUBSET {} : S = {}
  OBVIOUS
<1>3. QED
  BY <1>1, <1>2, Constants DEF Streak

\* one more loss, no older than any trade counted
LEMMA StreakLoss ==
  ASSUME NEW rows \in [Ids -> Row], NEW W \in SUBSET Ids, NEW L \in SUBSET Ids, NEW u \in Ids, u \notin L,
         NEW n \in Nat, NEW until \in Nat, \A c \in W \cup L : rows[c].end <= rows[u].end,
         Streak(rows, W, L, n, until)
  PROVE  Streak(rows, W, L \cup {u}, n + 1,
                IF n + 1 >= CooldownAfter THEN rows[u].end + CooldownTicks ELSE until)
<1> DEFINE later == IF n + 1 >= CooldownAfter THEN rows[u].end + CooldownTicks ELSE until
<1>0. CooldownAfter \in Nat /\ CooldownTicks \in Nat /\ \A i \in Ids : rows[i].end \in Nat
  BY Constants, RowFields
<1> SUFFICES ASSUME NEW S \in SUBSET (L \cup {u})
             PROVE  /\ (\A w \in W, i \in S : rows[w].end < rows[i].end) => Cardinality(S) <= n + 1
                    /\ Cardinality(S) >= CooldownAfter /\ Unbroken(rows, W, S)
                         => \A i \in S : rows[i].end + CooldownTicks <= later
  BY DEF Streak
<1> DEFINE T == S \ {u}
<1>1. T \in SUBSET L /\ S \in SUBSET Ids /\ T \in SUBSET Ids
  OBVIOUS
<1>2. Cardinality(S) \in Nat /\ Cardinality(T) \in Nat /\ Cardinality(S) <= Cardinality(T) + 1
  <2>1. Cardinality(S) \in Nat /\ Cardinality(T) \in Nat
    BY <1>1, IdSets
  <2>2. Cardinality(T) = IF u \in S THEN Cardinality(S) - 1 ELSE Cardinality(S)
    BY <1>1, OneMore
  <2>3. QED
    BY <2>1, <2>2
<1>3. (\A w \in W, i \in S : rows[w].end < rows[i].end) => Cardinality(S) <= n + 1
  <2>1. (\A w \in W, i \in T : rows[w].end < rows[i].end) => Cardinality(T) <= n
    BY <1>1 DEF Streak
  <2> HIDE DEF T
  <2>2. T \subseteq S
    BY DEF T
  <2>3. QED
    BY <1>2, <2>1, <2>2
<1>4. ASSUME Cardinality(S) >= CooldownAfter, Unbroken(rows, W, S), NEW i \in S
      PROVE  rows[i].end + CooldownTicks <= later
  <2>1. i \in Ids /\ rows[i].end <= rows[u].end /\ rows[u].end \in Nat /\ rows[i].end \in Nat
    BY <1>0, <1>1
  <2>2. CASE u \in S
    <3>1. \A w \in W, j \in S : rows[w].end < rows[j].end
      <4>1. SUFFICES ASSUME NEW w \in W, NEW j \in S PROVE rows[w].end < rows[j].end
        OBVIOUS
      <4>2. ~(rows[j].end <= rows[w].end /\ rows[w].end <= rows[u].end)
        BY <1>4, <2>2 DEF Unbroken
      <4>3. rows[w].end <= rows[u].end /\ rows[w].end \in Nat /\ rows[j].end \in Nat
        BY <1>0, <1>1
      <4>4. QED
        BY <4>2, <4>3
    <3>2. n + 1 >= CooldownAfter
      BY <3>1, <1>0, <1>2, <1>3, <1>4
    <3>3. QED
      BY <1>0, <2>1, <3>2
  <2>3. CASE u \notin S
    <3>1. S \in SUBSET L
      BY <2>3
    <3>2. rows[i].end + CooldownTicks <= until
      BY <3>1, <1>4 DEF Streak
    <3>3. QED
      BY <1>0, <2>1, <3>2
  <2>4. QED
    BY <2>2, <2>3
<1>5. QED
  BY <1>3, <1>4

\* one more win
LEMMA StreakWin ==
  ASSUME NEW rows \in [Ids -> Row], NEW W \in SUBSET Ids, NEW L \in SUBSET Ids, NEW u \in Ids,
         NEW n \in Nat, NEW until \in Nat, \A c \in W \cup L : rows[c].end <= rows[u].end,
         Streak(rows, W, L, n, until)
  PROVE  Streak(rows, W \cup {u}, L, 0, until)
<1>0. \A i \in Ids : rows[i].end \in Nat
  BY RowFields
<1> SUFFICES ASSUME NEW S \in SUBSET L
             PROVE  /\ (\A w \in W \cup {u}, i \in S : rows[w].end < rows[i].end) => Cardinality(S) <= 0
                    /\ Cardinality(S) >= CooldownAfter /\ Unbroken(rows, W \cup {u}, S)
                         => \A i \in S : rows[i].end + CooldownTicks <= until
  BY DEF Streak
<1>1. ASSUME \A w \in W \cup {u}, i \in S : rows[w].end < rows[i].end
      PROVE  Cardinality(S) <= 0
  <2>1. \A i \in S : rows[u].end < rows[i].end /\ rows[i].end <= rows[u].end /\ rows[i].end \in Nat /\ rows[u].end \in Nat
    BY <1>0, <1>1
  <2>2. \A i \in S : FALSE
    BY <2>1
  <2>3. S = {}
    BY <2>2
  <2>4. QED
    BY <2>3, FS_EmptySet
<1>2. Unbroken(rows, W \cup {u}, S) => Unbroken(rows, W, S)
  BY DEF Unbroken
<1>3. Cardinality(S) >= CooldownAfter /\ Unbroken(rows, W, S) => \A i \in S : rows[i].end + CooldownTicks <= until
  BY DEF Streak
<1>4. QED
  BY <1>1, <1>2, <1>3

----------------------------------------------------------------------------
(* How operations change rows and scores.                                   *)

LEMMA CleanOn ==
  ASSUME NEW b, NEW r, NEW t \in Nat, Clean(b, t), Alters(b, r, t), SameScores(b, r),
         b.saved.seen = b.resets \/ NoneMade(b, r)
  PROVE  Clean(r, t)
<1>1. ASSUME NEW i \in Ids
      PROVE  /\ r.rows[i].st = "closed" => r.rows[i].end <= t /\ r.rows[i].pnl \in Outcomes
             /\ i \in r.rec => r.rows[i].st \in {"closed", "archived"}
             /\ r.rows[i].st \in Standing => r.rows[i].cell \in Cells
  BY DEF Clean, Alters, Evolves, SameScores, Standing
<1>2. ASSUME r.saved.seen # r.resets PROVE Bare(r)
  <2>1. Bare(b) /\ NoneMade(b, r)
    BY <1>2 DEF Clean, SameScores
  <2>2. QED
    BY <2>1 DEF Bare, Standing, Alters, Evolves, NoneMade
<1>3. QED
  BY <1>1, <1>2 DEF Clean, SameScores

\* a trade that is closed stays as it is; one that closes now has no receipt
LEMMA ClosedOn ==
  ASSUME NEW b, NEW r, NEW t, Clean(b, t), Alters(b, r, t), NEW i \in Ids
  PROVE  /\ b.rows[i].st = "closed" => r.rows[i] = b.rows[i]
         /\ r.rows[i].st = "closed" => \/ b.rows[i].st = "closed" /\ r.rows[i] = b.rows[i]
                                       \/ b.rows[i].st = "open" /\ r.rows[i].end = t /\ i \notin b.rec
BY DEF Clean, Alters, Evolves

LEMMA ScoresOn ==
  ASSUME NEW b, NEW r, NEW t, Clean(b, t), Alters(b, r, t), SameScores(b, r)
  PROVE  /\ Scored(r) = Scored(b)
         /\ \A i \in Scored(b) : i \in Ids /\ r.rows[i] = b.rows[i] /\ b.rows[i].st = "closed"
         /\ \A s : Won(r, s) = Won(b, s) /\ Lost(r, s) = Lost(b, s)
<1>1. \A i \in Scored(b) : i \in Ids /\ r.rows[i] = b.rows[i] /\ b.rows[i].st = "closed"
  BY ClosedOn DEF Scored, IdsOf
<1>2. ASSUME NEW i PROVE i \in Scored(r) <=> i \in Scored(b)
  BY ClosedOn DEF Scored, IdsOf, SameScores
<1>3. Scored(r) = Scored(b)
  BY <1>2
<1>4. ASSUME NEW s PROVE Won(r, s) = Won(b, s) /\ Lost(r, s) = Lost(b, s)
  BY <1>1, <1>3 DEF Won, Lost
<1>5. QED
  BY <1>1, <1>3, <1>4

LEMMA CountsOn ==
  ASSUME NEW b, NEW r, NEW t \in Nat, Clean(b, t), Counts(b), Alters(b, r, t), SameScores(b, r)
  PROVE  Counts(r)
<1>1. /\ Scored(r) = Scored(b)
      /\ \A i \in Scored(b) : i \in Ids /\ r.rows[i] = b.rows[i] /\ b.rows[i].st = "closed"
      /\ \A s : Won(r, s) = Won(b, s) /\ Lost(r, s) = Lost(b, s)
  BY ScoresOn
<1>2. ASSUME NEW u \in Uncounted(r), NEW c \in Scored(r) PROVE r.rows[c].end <= r.rows[u].end
  <2>1. u \in Ids /\ r.rows[u].st = "closed" /\ u \notin b.rec
    BY DEF Uncounted, IdsOf, SameScores
  <2>2. c \in Scored(b) /\ r.rows[c] = b.rows[c] /\ b.rows[c].end <= t
    BY <1>1 DEF Clean
  <2>3. CASE b.rows[u].st = "closed" /\ r.rows[u] = b.rows[u]
    <3>1. u \in Uncounted(b)
      BY <2>1, <2>3 DEF Uncounted, IdsOf
    <3>2. QED
      BY <2>2, <2>3, <3>1 DEF Counts
  <2>4. CASE r.rows[u].end = t
    BY <2>2, <2>4
  <2>5. QED
    BY <2>1, <2>3, <2>4, ClosedOn
<1>3. ASSUME NEW s \in Scanners PROVE Streak(r.rows, Won(r, s), Lost(r, s), r.saved.streak[s], r.saved.until[s])
  <2>1. Streak(b.rows, Won(b, s), Lost(b, s), b.saved.streak[s], b.saved.until[s])
    BY DEF Counts
  <2>2. \A i \in Won(b, s) \cup Lost(b, s) : r.rows[i] = b.rows[i]
    BY <1>1 DEF Won, Lost
  <2>3. Streak(r.rows, Won(b, s), Lost(b, s), b.saved.streak[s], b.saved.until[s])
    BY <2>1, <2>2, StreakSame
  <2>4. QED
    BY <1>1, <2>3 DEF SameScores
<1>4. QED
  BY <1>2, <1>3 DEF Counts

\* an empty record asks for nothing
LEMMA CountsNone ==
  ASSUME NEW d, d.saved \in RiskState, Scored(d) = {}
  PROVE  Counts(d)
<1>1. \A s : Lost(d, s) = {}
  BY DEF Lost
<1>2. \A s \in Scanners : d.saved.streak[s] \in Nat
  BY RiskFields
<1>3. QED
  BY <1>1, <1>2, StreakNone DEF Counts

LEMMA BareScores == ASSUME NEW d, Bare(d) PROVE Scored(d) = {} /\ Uncounted(d) = {}
BY DEF Bare, Standing, Scored, Uncounted, IdsOf

----------------------------------------------------------------------------
(* The events a step leaves.                                                *)

LEMMA PostedIs ==
  ASSUME NEW b \in Books
  PROVE  /\ Posted(b) \in SUBSET Ids /\ (b.ev = <<>> => Posted(b) = {})
<1>1. b.ev \in Seq(Ids)
  BY BookFields
<1>2. \A k \in 1..Len(b.ev) : b.ev[k] \in Ids
  BY <1>1
<1>3. b.ev = <<>> => 1..Len(b.ev) = {}
  OBVIOUS
<1>4. QED
  BY <1>2, <1>3 DEF Posted

LEMMA PostedSame ==
  ASSUME NEW b, NEW r, r.ev = b.ev
  PROVE  Posted(r) = Posted(b)
BY DEF Posted

LEMMA PostedOne ==
  ASSUME NEW b \in Books, NEW i \in Ids, NEW r, r.ev = Append(b.ev, i)
  PROVE  Posted(r) = Posted(b) \cup {i}
<1> DEFINE e == b.ev
           f == Append(e, i)
<1>1. e \in Seq(Ids) /\ Len(e) \in Nat
  BY BookFields
<1>2. Len(f) = Len(e) + 1 /\ f[Len(e) + 1] = i /\ \A k \in 1..Len(e) : f[k] = e[k]
  BY <1>1
<1> HIDE DEF e, f
<1>3. {f[k] : k \in 1..Len(f)} = {e[k] : k \in 1..Len(e)} \cup {i}
  <2>1. ASSUME NEW x \in {f[k] : k \in 1..Len(f)} PROVE x \in {e[k] : k \in 1..Len(e)} \cup {i}
    <3>1. PICK k \in 1..Len(f) : x = f[k]
      OBVIOUS
    <3>2. k \in 1..Len(e) \/ k = Len(e) + 1
      BY <1>1, <1>2
    <3>3. QED
      BY <1>2, <3>1, <3>2
  <2>2. ASSUME NEW x \in {e[k] : k \in 1..Len(e)} PROVE x \in {f[k] : k \in 1..Len(f)}
    <3>1. PICK k \in 1..Len(e) : x = e[k]
      OBVIOUS
    <3>2. k \in 1..Len(f) /\ x = f[k]
      BY <1>1, <1>2, <3>1
    <3>3. QED
      BY <3>2
  <2>3. i \in {f[k] : k \in 1..Len(f)}
    <3>1. Len(e) + 1 \in 1..Len(f)
      BY <1>1, <1>2
    <3>2. QED
      BY <1>2, <3>1
  <2>4. QED
    BY <2>1, <2>2, <2>3
<1>4. QED
  BY <1>3 DEF Posted, e, f

LEMMA PostedMore ==
  ASSUME NEW b \in Books, NEW S \in SUBSET Ids, NEW r, r.ev = b.ev \o ById(S)
  PROVE  Posted(r) = Posted(b) \cup S
<1> DEFINE e == b.ev
           s == ById(S)
           f == e \o s
<1>1. e \in Seq(Ids) /\ Len(e) \in Nat
  BY BookFields
<1>2. s \in Seq(Ids) /\ Len(s) \in Nat /\ (\A k \in 1..Len(s) : s[k] \in S) /\ \A x \in S : \E k \in 1..Len(s) : s[k] = x
  BY ByIdLists
<1> HIDE DEF s
<1>3. /\ Len(f) = Len(e) + Len(s) /\ \A k \in 1..Len(e) : f[k] = e[k]
      /\ \A k \in 1..Len(s) : f[Len(e) + k] = s[k]
      /\ \A k \in 1..Len(f) : k \notin 1..Len(e) => k - Len(e) \in 1..Len(s) /\ f[k] = s[k - Len(e)]
  BY <1>1, <1>2
<1> HIDE DEF e, f
<1>4. ASSUME NEW x \in {f[k] : k \in 1..Len(f)} PROVE x \in {e[k] : k \in 1..Len(e)} \cup S
  <2>1. PICK k \in 1..Len(f) : x = f[k]
    OBVIOUS
  <2>2. CASE k \in 1..Len(e)
    BY <1>3, <2>1, <2>2
  <2>3. CASE k \notin 1..Len(e)
    BY <1>2, <1>3, <2>1, <2>3
  <2>4. QED
    BY <2>2, <2>3
<1>5. ASSUME NEW x \in {e[k] : k \in 1..Len(e)} PROVE x \in {f[k] : k \in 1..Len(f)}
  <2>1. PICK k \in 1..Len(e) : x = e[k]
    OBVIOUS
  <2>2. k \in 1..Len(f) /\ x = f[k]
    BY <1>1, <1>2, <1>3, <2>1
  <2>3. QED
    BY <2>2
<1>6. ASSUME NEW x \in S PROVE x \in {f[k] : k \in 1..Len(f)}
  <2>1. PICK k \in 1..Len(s) : s[k] = x
    BY <1>2
  <2>2. Len(e) + k \in 1..Len(f) /\ f[Len(e) + k] = x
    BY <1>1, <1>2, <1>3, <2>1
  <2>3. QED
    BY <2>2
<1>7. {f[k] : k \in 1..Len(f)} = {e[k] : k \in 1..Len(e)} \cup S
  BY <1>4, <1>5, <1>6
<1>8. QED
  BY <1>7 DEF Posted, e, f, s

LEMMA SettledOn ==
  ASSUME NEW b \in Books, NEW r, NEW t, Clean(b, t), Acts(b, r, t), Sealed(b, t)
  PROVE  /\ Sealed(r, t)
         /\ r.rec = b.rec /\ Uncounted(b) \subseteq Posted(b) => Uncounted(r) \subseteq Posted(r)
         /\ r.rec = b.rec => \A u \in Uncounted(r) : u \in Uncounted(b) \/ u \in Posted(r)
<1>1. Posted(b) \in SUBSET Ids
  BY PostedIs
<1>2. ASSUME NEW u \in Posted(r) PROVE r.rows[u].st = "closed" /\ r.rows[u].end = t
  <2>1. CASE u \in Posted(b)
    BY <1>1, <2>1, ClosedOn DEF Sealed, Acts
  <2>2. CASE u \notin Posted(b)
    BY <2>2 DEF Acts, Announces
  <2>3. QED
    BY <2>1, <2>2
<1>3. ASSUME r.rec = b.rec, NEW u \in Uncounted(r) PROVE u \in Uncounted(b) \/ u \in Posted(r)
  <2>1. u \in Ids /\ r.rows[u].st = "closed" /\ u \notin b.rec
    BY <1>3 DEF Uncounted, IdsOf
  <2>2. b.rows[u].st = "closed" \/ b.rows[u].st = "open"
    BY <2>1, ClosedOn DEF Acts
  <2>3. b.rows[u].st = "closed" => u \in Uncounted(b)
    BY <2>1 DEF Uncounted, IdsOf
  <2>4. b.rows[u].st = "open" => u \in Posted(r)
    BY <2>1 DEF Acts, Announces
  <2>5. QED
    BY <2>2, <2>3, <2>4
<1>4. Posted(b) \subseteq Posted(r)
  BY DEF Acts, Announces
<1>5. QED
  BY <1>2, <1>3, <1>4 DEF Sealed

----------------------------------------------------------------------------
(* The operations as such steps.                                            *)

LEMMA StillActs ==
  ASSUME NEW b, NEW r, NEW t, r.rows = b.rows, r.ev = b.ev
  PROVE  Acts(b, r, t)
<1>1. Posted(r) = Posted(b)
  BY PostedSame
<1>2. QED
  BY <1>1 DEF Acts, Alters, Evolves, Announces

LEMMA CancelActs ==
  ASSUME NEW b \in Books, NEW i \in Ids, NEW t
  PROVE  LET r == CancelEntry(b, i) IN r \in Books /\ Acts(b, r, t) /\ NoneMade(b, r) /\ SameScores(b, r)
<1> DEFINE r == CancelEntry(b, i)
<1>1. r \in Books /\ Same(b, r) /\ Beside(b, r, i) /\ r.ev = b.ev /\ Cancelled(b, r, i)
  BY CancelLocal
<1>2. Gone.st = "gone"
  BY NoRowType
<1> HIDE DEF r
<1>3. Posted(r) = Posted(b)
  BY <1>1, PostedSame
<1>4. \A j \in Ids : Evolves(b.rows[j], r.rows[j], t) /\ (r.rows[j] = b.rows[j] \/ r.rows[j].st = "gone")
                     /\ (b.rows[j].st = "none" => r.rows[j] = b.rows[j])
  BY <1>1, <1>2 DEF Beside, Still, Cancelled, Evolves
<1>5. QED
  BY <1>1, <1>3, <1>4 DEF Acts, Alters, Announces, NoneMade, SameScores, Same, r

LEMMA CloseActs ==
  ASSUME NEW b \in Books, NEW i \in Ids, b.rows[i].st = "open", NEW pnl \in Outcomes, NEW t \in Nat
  PROVE  LET r == CloseAt(b, i, pnl, t) IN r \in Books /\ Acts(b, r, t) /\ NoneMade(b, r) /\ SameScores(b, r)
<1> DEFINE r == CloseAt(b, i, pnl, t)
<1>1. r \in Books /\ Same(b, r) /\ Beside(b, r, i) /\ r.ev = Append(b.ev, i) /\ Shut(b, r, i, pnl, t)
  BY CloseLocal
<1>2. LET y == ClosedRow(b, i, pnl, t) IN y.st = "closed" /\ y.cell = b.rows[i].cell /\ y.end = t /\ y.pnl = pnl
  BY ClosedRowType
<1> HIDE DEF r
<1>3. Posted(r) = Posted(b) \cup {i}
  BY <1>1, PostedOne
<1>4. r.rows[i].st = "closed" /\ r.rows[i].end = t /\ Evolves(b.rows[i], r.rows[i], t)
  BY <1>1, <1>2 DEF Shut, Evolves
<1>5. \A j \in Ids : j # i => r.rows[j] = b.rows[j]
  BY <1>1 DEF Beside, Still
<1>6. Alters(b, r, t) /\ NoneMade(b, r)
  BY <1>4, <1>5 DEF Alters, NoneMade, Evolves
<1>7. Announces(b, r, t)
  BY <1>3, <1>4, <1>5 DEF Announces
<1>8. QED
  BY <1>1, <1>6, <1>7 DEF Acts, SameScores, Same, r

LEMMA OpenActs ==
  ASSUME NEW b \in Books, NEW i \in Ids, NEW t \in Nat
  PROVE  LET r == OpenAt(b, i, t)
         IN  r \in Books /\ Acts(b, r, t) /\ NoneMade(b, r) /\ SameScores(b, r) /\ Started(b, r, i)
<1> DEFINE r == OpenAt(b, i, t)
<1>1. r \in Books /\ Same(b, r) /\ Beside(b, r, i) /\ r.ev = b.ev /\ Started(b, r, i)
  BY OpenLocal
<1> HIDE DEF r
<1>2. Posted(r) = Posted(b)
  BY <1>1, PostedSame
<1>3. \A j \in Ids : /\ Evolves(b.rows[j], r.rows[j], t)
                     /\ b.rows[j].st \in {"open", "none"} => r.rows[j] = b.rows[j]
  BY <1>1 DEF Beside, Still, Started, Evolves
<1>4. QED
  BY <1>1, <1>2, <1>3 DEF Acts, Alters, Announces, NoneMade, SameScores, Same, r

LEMMA PlaceActs ==
  ASSUME NEW b \in Books, NEW i \in Ids, b.rows[i].st = "none", NEW row \in Row, row.st = "pending", row.cell \in Cells, NEW t
  PROVE  LET r == Place(b, i, row) IN r \in Books /\ Acts(b, r, t) /\ SameScores(b, r) /\ r.rows[i] = row
<1> DEFINE r == Place(b, i, row)
<1>1. r \in Books /\ Same(b, r) /\ Beside(b, r, i) /\ r.ev = b.ev /\ PlacedAs(b, r, i, row)
  BY PlaceLocal
<1> HIDE DEF r
<1>2. Posted(r) = Posted(b)
  BY <1>1, PostedSame
<1>3. \A j \in Ids : Evolves(b.rows[j], r.rows[j], t) /\ (b.rows[j].st = "open" => r.rows[j] = b.rows[j])
  BY <1>1 DEF Beside, Still, PlacedAs, Evolves
<1>4. QED
  BY <1>1, <1>2, <1>3 DEF Acts, Alters, Announces, SameScores, Same, PlacedAs, r

LEMMA MovesActs ==
  ASSUME NEW b \in Books, Holds(b), NEW r, NEW t \in Nat, Moves(b, r, t), ~r.bad
  PROVE  /\ Acts(b, r, t) /\ NoneMade(b, r) /\ Holds(r) /\ r.resets = b.resets
         /\ r.open \subseteq b.open /\ r.pend \subseteq b.pend
         /\ Sweeps(b, r)
<1>1. CASE Unmoved(b, r)
  <2>1. r.rows = b.rows /\ r.ev = b.ev /\ r.open = b.open /\ r.pend = b.pend
    BY <1>1 DEF Unmoved
  <2>2. Acts(b, r, t)
    BY <2>1, StillActs
  <2>3. r.resets = b.resets
    BY DEF Moves, Alike
  <2>4. NoneMade(b, r) /\ Holds(r)
    BY <2>1 DEF NoneMade, Holds
  <2>5. QED
    BY <2>1, <2>2, <2>3, <2>4 DEF Sweeps
<1>2. CASE SweptTo(b, r, t)
  <2>1. r.rows = SweptRows(b, t) /\ r.open = {} /\ r.pend = {} /\ r.ev = b.ev \o ById(b.open)
    BY <1>2 DEF SweptTo
  <2>2. b.open \in SUBSET Ids /\ b.mkt \in Outcomes
    BY BookFields
  <2>3. Posted(r) = Posted(b) \cup b.open
    BY <2>1, <2>2, PostedMore
  <2>4. Gone.st = "gone"
    BY NoRowType
  <2>5. ASSUME NEW j \in Ids
        PROVE  /\ Evolves(b.rows[j], r.rows[j], t)
               /\ b.rows[j].st = "none" => r.rows[j] = b.rows[j]
               /\ j \in b.open => b.rows[j].st = "open" /\ r.rows[j].st = "closed" /\ r.rows[j].end = t
               /\ j \notin b.open => r.rows[j] = b.rows[j] \/ r.rows[j].st = "gone"
    <3>1. LET y == ClosedRow(b, j, b.mkt, t) IN y.st = "closed" /\ y.cell = b.rows[j].cell /\ y.end = t /\ y.pnl = b.mkt
      BY <2>2, ClosedRowType
    <3>2. r.rows[j] = IF j \in b.pend THEN IF b.rows[j].st = "pending" THEN Gone ELSE b.rows[j]
                      ELSE IF j \in b.open THEN ClosedRow(b, j, b.mkt, t) ELSE b.rows[j]
      BY <2>1 DEF SweptRows
    <3>3. CASE j \in b.pend
      <4>1. b.rows[j].st = "pending" /\ r.rows[j] = Gone /\ j \notin b.open
        BY <3>2, <3>3 DEF Holds
      <4>2. QED
        BY <4>1, <2>4 DEF Evolves
    <3>4. CASE j \notin b.pend /\ j \in b.open
      <4>1. b.rows[j].st = "open" /\ r.rows[j] = ClosedRow(b, j, b.mkt, t)
        BY <3>2, <3>4 DEF Holds
      <4>2. QED
        BY <4>1, <3>1, <3>4, <2>2 DEF Evolves
    <3>5. CASE j \notin b.pend /\ j \notin b.open
      <4>1. r.rows[j] = b.rows[j]
        BY <3>2, <3>5
      <4>2. QED
        BY <4>1, <3>5 DEF Evolves
    <3>6. QED
      BY <3>3, <3>4, <3>5
  <2>6. Alters(b, r, t) /\ NoneMade(b, r)
    BY <2>5 DEF Alters, NoneMade
  <2>7. Announces(b, r, t)
    BY <2>2, <2>3, <2>5 DEF Announces
  <2>8. QED
    BY <2>1, <2>6, <2>7 DEF Acts, Holds, Moves, Alike, Sweeps
<1>3. CASE b.pend # {} /\ ~b.dec /\ r.bad
  BY <1>3
<1>4. QED
  BY <1>1, <1>2, <1>3 DEF Moves

----------------------------------------------------------------------------
(* Counting, recovering, judging.                                           *)

LEMMA TickTallied ==
  ASSUME NEW b, Whole(b), Tallied(b), now \in Nat, ~Tick(b, now).bad
  PROVE  LET r == Tick(b, now)
         IN  /\ Whole(r) /\ Tallied(r) /\ Acts(b, r, now) /\ NoneMade(b, r) /\ r.rec = b.rec /\ r.saved.seen = r.resets
             /\ r.open \subseteq b.open /\ r.pend \subseteq b.pend /\ Sweeps(b, r)
             /\ b.saved.seen = b.resets => r.saved.base = b.saved.base
<1> DEFINE r == Tick(b, now)
<1>0. b \in Books /\ b.saved = b.risk /\ ~b.bad
  BY DEF Whole
<1>1. /\ r \in Books /\ r.rec = b.rec /\ Moves(b, r, now) /\ Judged(b, r, now)
      /\ IF b.risk.seen # b.resets THEN r.risk = FreshState(b, now) ELSE ScoresKept(b, r)
  BY <1>0, TickIs
<1>2. r.saved = r.risk /\ r.saved.seen = r.resets /\ ~r.bad
  BY <1>1 DEF Judged
<1> HIDE DEF r
<1>3. /\ Acts(b, r, now) /\ NoneMade(b, r) /\ Holds(r) /\ r.resets = b.resets
      /\ r.open \subseteq b.open /\ r.pend \subseteq b.pend /\ Sweeps(b, r)
  BY <1>0, <1>1, <1>2, MovesActs DEF Tallied
<1>4. CASE b.saved.seen = b.resets
  <2>1. SameScores(b, r)
    BY <1>0, <1>1, <1>2, <1>3, <1>4 DEF SameScores, ScoresKept
  <2>2. Clean(r, now) /\ Counts(r)
    BY <1>3, <2>1, CleanOn, CountsOn DEF Tallied, Acts
  <2>3. QED
    BY <1>1, <1>2, <1>3, <2>1, <2>2 DEF Tallied, Whole, SameScores, r
<1>5. CASE b.saved.seen # b.resets
  <2>1. Bare(b)
    BY <1>5 DEF Tallied, Clean
  <2>2. Bare(r)
    BY <1>3, <2>1 DEF Bare, Standing, Acts, Alters, Evolves, NoneMade
  <2>3. Scored(r) = {} /\ r.saved \in RiskState
    BY <1>1, <2>2, BareScores, BookFields
  <2>4. Counts(r)
    BY <2>3, CountsNone
  <2>5. \A i \in Ids : i \in r.rec => r.rows[i].st \in {"closed", "archived"}
    BY <1>1, <1>3 DEF Tallied, Clean, Acts, Alters, Evolves
  <2>6. r.saved.base \subseteq r.rec
    BY <1>0, <1>1, <1>2, <1>5, FreshIs
  <2>7. Clean(r, now)
    BY <1>2, <2>2, <2>5, <2>6 DEF Clean, Bare, Standing
  <2>8. QED
    BY <1>1, <1>2, <1>3, <1>5, <2>4, <2>7 DEF Tallied, Whole, r
<1>6. QED
  BY <1>4, <1>5

\* The record with one trade more, no older than any that is in it.
LEMMA CountedCounts ==
  ASSUME NEW b \in Books, Clean(b, now), Counts(b), NEW i \in Uncounted(b), b.risk = b.saved,
         \A u \in Uncounted(b) : b.rows[i].end <= b.rows[u].end,
         NEW e, e.rows = b.rows, e.rec = b.rec \cup {i}, e.risk = e.saved, CountedIn(b, i, e)
  PROVE  Counts(e)
<1> DEFINE z == ScannerOf[b.rows[i].cell]
           n == IF b.rows[i].pnl < 0 THEN b.saved.streak[z] + 1 ELSE 0
<1>1. i \in Ids /\ b.rows[i].st = "closed" /\ i \notin b.rec /\ b.rows[i].cell \in Cells /\ b.rows[i].pnl \in Outcomes
  BY DEF Uncounted, IdsOf, Clean, Standing
<1>2. z \in Scanners /\ b.saved \in RiskState /\ b.rows \in [Ids -> Row]
  BY <1>1, Constants, BookFields
<1>3. b.saved.streak \in [Scanners -> Nat] /\ b.saved.until \in [Scanners -> Nat]
  BY SMTT(30), <1>2, RiskFields
<1>4. /\ e.saved.streak = [b.saved.streak EXCEPT ![z] = n]
      /\ e.saved.until = [b.saved.until EXCEPT ![z] = IF n >= CooldownAfter THEN b.rows[i].end + CooldownTicks ELSE @]
      /\ e.saved.base = b.saved.base
  BY DEF CountedIn
<1>5. i \notin b.saved.base
  BY SMTT(30), <1>1 DEF Clean
<1>6. Scored(e) = Scored(b) \cup {i}
  BY <1>1, <1>4, <1>5 DEF Scored, IdsOf
<1>7. Scored(b) \in SUBSET Ids /\ \A c \in Scored(b) : b.rows[c].end <= b.rows[i].end
  BY DEF Counts, Scored, IdsOf
<1>8. i \notin Scored(b)
  BY <1>1 DEF Scored
<1>9. ASSUME NEW u \in Uncounted(e), NEW c \in Scored(e) PROVE e.rows[c].end <= e.rows[u].end
  <2>1. u \in Uncounted(b)
    BY DEF Uncounted, IdsOf
  <2>2. QED
    BY <1>6, <2>1 DEF Counts
<1>10. ASSUME NEW s \in Scanners PROVE Streak(e.rows, Won(e, s), Lost(e, s), e.saved.streak[s], e.saved.until[s])
  <2>1. Streak(b.rows, Won(b, s), Lost(b, s), b.saved.streak[s], b.saved.until[s])
    BY DEF Counts
  <2>2. Won(b, s) \in SUBSET Ids /\ Lost(b, s) \in SUBSET Ids /\ i \notin Lost(b, s)
        /\ \A c \in Won(b, s) \cup Lost(b, s) : b.rows[c].end <= b.rows[i].end
    BY <1>7, <1>8 DEF Won, Lost
  <2>3. b.saved.streak[s] \in Nat /\ b.saved.until[s] \in Nat
    BY <1>3
  <2>4. CASE s # z
    <3>1. Won(e, s) = Won(b, s) /\ Lost(e, s) = Lost(b, s)
      BY SMTT(30), <1>6, <2>4 DEF Won, Lost
    <3>2. e.saved.streak[s] = b.saved.streak[s] /\ e.saved.until[s] = b.saved.until[s]
      BY <1>3, <1>4, <2>4
    <3>3. QED
      BY <2>1, <3>1, <3>2
  <2>5. CASE s = z /\ b.rows[i].pnl < 0
    <3>1. Won(e, s) = Won(b, s) /\ Lost(e, s) = Lost(b, s) \cup {i}
      BY SMTT(30), <1>1, <1>6, <2>5 DEF Won, Lost, Outcomes
    <3>2. /\ e.saved.streak[s] = b.saved.streak[s] + 1
          /\ e.saved.until[s] = IF b.saved.streak[s] + 1 >= CooldownAfter THEN b.rows[i].end + CooldownTicks
                                ELSE b.saved.until[s]
      BY <1>2, <1>3, <1>4, <2>5
    <3>3. Streak(b.rows, Won(b, s), Lost(b, s) \cup {i}, b.saved.streak[s] + 1,
                 IF b.saved.streak[s] + 1 >= CooldownAfter THEN b.rows[i].end + CooldownTicks ELSE b.saved.until[s])
      BY <1>1, <1>2, <2>1, <2>2, <2>3, StreakLoss
    <3>4. QED
      BY <3>1, <3>2, <3>3
  <2>6. CASE s = z /\ ~(b.rows[i].pnl < 0)
    <3>1. Won(e, s) = Won(b, s) \cup {i} /\ Lost(e, s) = Lost(b, s)
      BY <1>1, <1>6, <2>6 DEF Won, Lost, Outcomes
    <3>2. e.saved.streak[s] = 0 /\ e.saved.until[s] = b.saved.until[s]
      BY <1>2, <1>3, <1>4, <2>6, Constants
    <3>3. Streak(b.rows, Won(b, s) \cup {i}, Lost(b, s), 0, b.saved.until[s])
      BY <1>1, <1>2, <2>1, <2>2, <2>3, StreakWin
    <3>4. QED
      BY <3>1, <3>2, <3>3
  <2>7. QED
    BY <2>4, <2>5, <2>6
<1>11. QED
  BY <1>9, <1>10 DEF Counts

LEMMA CountTallied ==
  ASSUME NEW b, Whole(b), Tallied(b), now \in Nat, NEW i \in Ids, b.rows[i].st = "closed",
         i \notin b.rec => \A u \in Uncounted(b) : b.rows[i].end <= b.rows[u].end,
         ~OnTradeClosed(b, i, now).bad
  PROVE  LET r == OnTradeClosed(b, i, now)
         IN  /\ Whole(r) /\ Tallied(r) /\ Acts(b, r, now) /\ NoneMade(b, r) /\ r.rec = b.rec \cup {i}
             /\ r.saved.base = b.saved.base /\ r.saved.seen = b.saved.seen /\ r.resets = b.resets
             /\ r.open \subseteq b.open /\ r.pend \subseteq b.pend /\ Sweeps(b, r)
<1> DEFINE r == OnTradeClosed(b, i, now)
<1>0. b \in Books /\ b.saved = b.risk /\ ~b.bad
  BY DEF Whole
<1>1. /\ r \in Books /\ Moves(b, r, now)
      /\ IF i \in b.rec \/ b.bad THEN r = b
         ELSE /\ r.rec = b.rec \cup {i} /\ Judged(b, r, now)
              /\ IF b.risk.seen # b.resets THEN r.risk.base = r.rec ELSE CountedIn(b, i, r)
  BY <1>0, CountIs
<1>2. ~r.bad
  OBVIOUS
<1>3. b.saved.seen = b.resets
  BY DEF Tallied, Clean, Bare, Standing
<1> HIDE DEF r
<1>4. /\ Acts(b, r, now) /\ NoneMade(b, r) /\ Holds(r) /\ r.resets = b.resets
      /\ r.open \subseteq b.open /\ r.pend \subseteq b.pend /\ Sweeps(b, r)
  BY <1>0, <1>1, <1>2, MovesActs DEF Tallied
<1>5. CASE i \in b.rec
  <2>1. r = b /\ b.rec \cup {i} = b.rec
    BY <1>1, <1>5
  <2>2. QED
    BY <1>4, <2>1 DEF r
<1>6. CASE i \notin b.rec
  <2>1. r.rec = b.rec \cup {i} /\ Judged(b, r, now) /\ CountedIn(b, i, r)
    BY SMTT(30), <1>0, <1>1, <1>3, <1>6
  <2>2. r.saved = r.risk /\ r.saved.base = b.saved.base /\ r.saved.seen = b.saved.seen
    BY <1>0, <2>1 DEF Judged, CountedIn
  <2> DEFINE e == [b EXCEPT !.rec = r.rec, !.risk = r.risk, !.saved = r.saved]
  <2>3. e.rows = b.rows /\ e.rec = r.rec /\ e.risk = r.risk /\ e.saved = r.saved /\ e.resets = b.resets
    BY SMTT(30), <1>0 DEF Books
  <2> HIDE DEF e
  <2>4. CountedIn(b, i, e)
    BY <2>1, <2>3 DEF CountedIn
  <2>5. i \in Uncounted(b)
    BY <1>6 DEF Uncounted, IdsOf
  <2>6. Counts(e)
    BY <1>0, <1>6, <2>1, <2>2, <2>3, <2>4, <2>5, CountedCounts DEF Tallied
  <2>7. Clean(e, now)
    BY <1>3, <2>1, <2>2, <2>3 DEF Tallied, Clean
  <2>8. Alters(e, r, now)
    BY <1>4, <2>3 DEF Acts, Alters
  <2>9. SameScores(e, r)
    BY <1>4, <2>3 DEF SameScores
  <2>10. e.saved.seen = e.resets
    BY <1>3, <2>2, <2>3
  <2>11. Clean(r, now) /\ Counts(r)
    BY <2>6, <2>7, <2>8, <2>9, <2>10, CleanOn, CountsOn
  <2>12. QED
    BY <1>1, <1>2, <1>4, <2>1, <2>2, <2>11 DEF Whole, Tallied, r
<1>7. QED
  BY <1>5, <1>6

LEMMA HalfwayOn ==
  ASSUME NEW b, NEW f, NEW m, NEW n \in Nat, Halfway(b, f, m, n), Len(m) \in Nat, n + 1 \in 1..Len(m), now \in Nat,
         b \in Books, \A k \in 1..Len(m) : m[k] \in Ids /\ b.rows[m[k]].st = "closed",
         \A j, k \in 1..Len(m) : j < k => b.rows[m[j]].end <= b.rows[m[k]].end,
         NEW r, r = OnTradeClosed(f, m[n + 1], now)
  PROVE  Halfway(b, r, m, n + 1)
<1> DEFINE i == m[n + 1]
<1>1. i \in Ids /\ b.rows[i].st = "closed" /\ f.rows[i] = b.rows[i] /\ b.rows[i].end \in Nat
  BY BookFields, RowFields DEF Halfway
<1>2. Whole(f) /\ Tallied(f) /\ f.dec /\ f \in Books /\ ~f.bad
  BY DEF Halfway, Whole
<1>3. r \in Books /\ Moves(f, r, now)
  BY <1>1, <1>2, CountIs
<1>4. ~r.bad /\ r.dec
  BY <1>2, <1>3 DEF Moves, Alike, Unmoved, SweptTo
<1>5. f.rows[i].end <= now
  BY <1>1, <1>2 DEF Tallied, Clean
<1>6. ASSUME NEW u \in Uncounted(f) PROVE f.rows[i].end <= f.rows[u].end
  <2>1. CASE u \in Posted(f)
    BY <1>5, <2>1 DEF Halfway, Sealed
  <2>2. ASSUME NEW k \in 1..Len(m), k > n, m[k] = u PROVE f.rows[i].end <= f.rows[u].end
    <3>1. m[k] \in Ids /\ f.rows[u] = b.rows[u]
      BY <2>2 DEF Halfway
    <3>2. k = n + 1 \/ n + 1 < k
      BY <2>2
    <3>3. CASE k = n + 1
      BY <1>1, <2>2, <3>1, <3>3
    <3>4. CASE n + 1 < k
      BY <1>1, <2>2, <3>1, <3>4
    <3>5. QED
      BY <3>2, <3>3, <3>4
  <2>3. QED
    BY <2>1, <2>2 DEF Halfway
<1> HIDE DEF i
<1>7. r = OnTradeClosed(f, i, now)
  BY DEF i
<1>8. /\ Whole(r) /\ Tallied(r) /\ Acts(f, r, now) /\ r.rec = f.rec \cup {i}
      /\ r.saved.base = f.saved.base /\ r.saved.seen = f.saved.seen /\ r.resets = f.resets
  BY <1>1, <1>2, <1>4, <1>6, <1>7, CountTallied
<1>9. Sealed(r, now)
  BY <1>2, <1>8, SettledOn DEF Halfway, Tallied
<1>10. \A j \in Ids : b.rows[j].st = "closed" => r.rows[j] = b.rows[j]
  BY <1>2, <1>8, ClosedOn DEF Halfway, Tallied, Acts
<1>11. ASSUME NEW u \in Uncounted(r) PROVE u \in Posted(r) \/ \E k \in 1..Len(m) : k > n + 1 /\ m[k] = u
  <2>1. u \in Ids /\ r.rows[u].st = "closed" /\ u \notin f.rec /\ u # i
    BY <1>8 DEF Uncounted, IdsOf
  <2>2. f.rows[u].st = "closed" \/ f.rows[u].st = "open"
    BY <1>2, <1>8, <2>1, ClosedOn DEF Tallied, Acts
  <2>3. CASE f.rows[u].st = "open"
    BY <1>8, <2>1, <2>3 DEF Acts, Announces
  <2>4. CASE f.rows[u].st = "closed"
    <3>1. u \in Uncounted(f)
      BY <2>1, <2>4 DEF Uncounted, IdsOf
    <3>2. CASE u \in Posted(f)
      BY <1>8, <3>2 DEF Acts, Announces
    <3>3. ASSUME NEW k \in 1..Len(m), k > n, m[k] = u PROVE k > n + 1
      BY <2>1, <3>3 DEF i
    <3>4. QED
      BY <3>1, <3>2, <3>3 DEF Halfway
  <2>5. QED
    BY <2>2, <2>3, <2>4
<1>12. QED
  BY <1>4, <1>8, <1>9, <1>10, <1>11 DEF Halfway

\* What a recovery leaves uncounted it has closed itself, and announces.
LEMMA RecoverTallied ==
  ASSUME NEW b, Whole(b), b.dec, b.ev = <<>>, Tallied(b), now \in Nat
  PROVE  LET r == Recover(b, now)
         IN  /\ Whole(r) /\ Tallied(r) /\ Settled(r, now) /\ r.dec /\ r.resets = b.resets
             /\ r.saved.base = b.saved.base /\ r.saved.seen = b.saved.seen
<1> DEFINE m == Oldest(b, Uncounted(b))
           N == Len(m)
<1>0. b \in Books /\ ~b.bad
  BY DEF Whole
<1>1. PICK f : RecoversAs(f, b, m, N, now) /\ Recover(b, now) = f[N]
  BY <1>0, RecoverIs
<1>2. /\ N \in Nat /\ \A k \in 1..N : m[k] \in Ids /\ b.rows[m[k]].st = "closed"
      /\ \A j, k \in 1..N : j < k => b.rows[m[j]].end <= b.rows[m[k]].end
      /\ \A i \in Uncounted(b) : \E k \in 1..N : m[k] = i
  BY <1>0, OldestLists DEF Uncounted, IdsOf
<1> HIDE DEF m
<1> DEFINE T == {n \in 0..N : Halfway(b, f[n], m, n)}
<1>3. 0 \in T
  <2>1. f[0] = b
    BY <1>1 DEF RecoversAs
  <2>2. Posted(b) = {}
    BY <1>0, PostedIs
  <2>3. Sealed(b, now)
    BY <2>2 DEF Sealed
  <2>4. \A u \in Uncounted(b) : \E k \in 1..N : k > 0 /\ m[k] = u
    BY <1>2
  <2>5. Halfway(b, b, m, 0)
    BY <2>3, <2>4 DEF Halfway
  <2>6. QED
    BY <1>2, <2>1, <2>5
<1>4. ASSUME NEW n \in 0..N, n < N, n \in T PROVE n + 1 \in T
  <2>1. n \in Nat /\ n + 1 \in 1..N /\ n + 1 \in 0..N /\ Halfway(b, f[n], m, n)
    BY <1>2, <1>4
  <2>2. f[n + 1] = OnTradeClosed(f[n], m[n + 1], now)
    BY <1>1, <1>4 DEF RecoversAs
  <2>3. Halfway(b, f[n + 1], m, n + 1)
    BY <1>0, <1>2, <2>1, <2>2, HalfwayOn
  <2>4. QED
    BY <2>1, <2>3
<1>5. N \in T
  <2> HIDE DEF T
  <2>1. \A n \in 0..N : n \in T
    BY <1>2, <1>3, <1>4, UpTo
  <2>2. QED
    BY <2>1, <1>2
<1> DEFINE r == Recover(b, now)
<1>6. Halfway(b, r, m, N)
  BY <1>1, <1>5
<1> HIDE DEF r
<1>7. Uncounted(r) \subseteq Posted(r)
  <2>1. \A k \in 1..N : ~(k > N)
    BY <1>2
  <2>2. QED
    BY <1>6, <2>1 DEF Halfway
<1>8. QED
  BY <1>6, <1>7 DEF Halfway, Settled, r

LEMMA GateTallied ==
  ASSUME NEW b, Whole(b), b.dec, b.ev = <<>>, Tallied(b), now \in Nat
  PROVE  LET g == Gate(b, now)
         IN  /\ Whole(g) /\ Tallied(g) /\ Settled(g, now) /\ g.dec /\ g.resets = b.resets
             /\ g.saved.seen = g.resets
             /\ b.saved.seen = b.resets => g.saved.base = b.saved.base
             /\ g.ev = <<>> => Uncounted(g) = {}
<1> DEFINE r == Recover(b, now)
           g == Gate(b, now)
<1>1. /\ Whole(r) /\ Tallied(r) /\ Settled(r, now) /\ r.dec /\ r.resets = b.resets
      /\ r.saved.base = b.saved.base /\ r.saved.seen = b.saved.seen
  BY RecoverTallied
<1>2. g = Tick(r, now) /\ r \in Books /\ ~r.bad
  BY <1>1 DEF Gate, Whole
<1>3. b \in Books /\ ~b.bad
  BY DEF Whole
<1>4. g \in Books /\ ~g.bad
  <2> HIDE DEF g
  <2>1. QED
    BY <1>3, GateIs DEF g
<1> HIDE DEF r, g
<1>5. Moves(r, g, now)
  BY <1>2, TickIs
<1>6. g.dec /\ g.resets = r.resets
  BY <1>1, <1>5 DEF Moves, Alike
<1>7. /\ Whole(g) /\ Tallied(g) /\ Acts(r, g, now) /\ g.rec = r.rec /\ g.saved.seen = g.resets
      /\ r.saved.seen = r.resets => g.saved.base = r.saved.base
  BY <1>1, <1>2, <1>4, TickTallied
<1>8. Settled(g, now)
  BY <1>1, <1>2, <1>7, SettledOn DEF Settled, Tallied
<1>9. g.ev = <<>> => Uncounted(g) = {}
  BY <1>4, <1>8, PostedIs DEF Settled
<1>10. QED
  BY <1>1, <1>6, <1>7, <1>8, <1>9 DEF g

----------------------------------------------------------------------------
(* Decisions: what they leave, and that nothing opens in a cooldown.        *)

LEMMA LastsOn ==
  ASSUME NEW b \in Books, Lasts(b), now \in Nat, NEW r, Acts(b, r, now), SameScores(b, r)
  PROVE  Lasts(r)
<1>1. Clean(r, now) /\ Counts(r)
  BY CleanOn, CountsOn DEF Lasts, Acts
<1>2. Settled(r, now)
  BY SettledOn DEF Lasts, Settled, SameScores
<1>3. QED
  BY <1>1, <1>2 DEF Lasts, SameScores

LEMMA QuietOn ==
  ASSUME NEW b, Tallied(b), now \in Nat, NEW r \in Books, Acts(b, r, now), SameScores(b, r), NoneMade(b, r),
         r.ev = <<>>, r.open \subseteq b.open, r.pend \subseteq b.pend
  PROVE  Quiet(b, r)
<1>1. Clean(r, now) /\ Counts(r)
  BY CleanOn, CountsOn DEF Tallied, Acts
<1>2. ASSUME NEW u \in Uncounted(r) PROVE u \in Uncounted(b)
  <2>1. u \in Ids /\ r.rows[u].st = "closed" /\ u \notin b.rec
    BY <1>2 DEF Uncounted, IdsOf, SameScores
  <2>2. b.rows[u].st = "closed" \/ b.rows[u].st = "open"
    BY <2>1, ClosedOn DEF Tallied, Acts
  <2>3. Posted(r) = {}
    BY PostedIs
  <2>4. QED
    BY <2>1, <2>2, <2>3 DEF Acts, Announces, Uncounted, IdsOf
<1>3. QED
  BY <1>1, <1>2 DEF Quiet

LEMMA NoCooldown ==
  ASSUME Types, NEW b, InBook(b), Clean(b, now), NEW g \in Books, g.saved = g.risk, g.rows = b.rows, Counts(g),
         Uncounted(g) = {}, b.saved.seen = b.resets => g.saved.base = b.saved.base,
         NEW c \in Cells, ~(now < g.risk.until[ScannerOf[c]])
  PROVE  ~CoolsDown(ScannerOf[c])
<1> DEFINE s == ScannerOf[c]
<1>1. SUFFICES ASSUME NEW S \in SUBSET Ids, Cardinality(S) >= CooldownAfter, LossesInARow(s, S),
                      NEW i \in S, now < disk.rows[i].end + CooldownTicks
               PROVE  FALSE
  BY DEF CoolsDown
<1>2. s \in Scanners /\ CooldownTicks \in Nat /\ now \in Nat
  BY Constants DEF Types
<1>3. b.saved.base = mem.risk.base /\ b.rows = disk.rows
  BY DEF InBook, Whole
<1> DEFINE mine == {j \in IdsOf(disk, "closed") \ mem.risk.base : ScannerOf[disk.rows[j].cell] = s}
<1>4. /\ S \subseteq mine
      /\ \A j \in S : disk.rows[j].pnl < 0
      /\ \A w \in mine, j, k \in S : ~(/\ disk.rows[w].pnl > 0
                                       /\ disk.rows[j].end <= disk.rows[w].end
                                       /\ disk.rows[w].end <= disk.rows[k].end)
  BY <1>1 DEF LossesInARow
<1>5. i \in Ids /\ b.rows[i].st = "closed"
  BY <1>1, <1>3, <1>4 DEF IdsOf
<1>6. b.saved.seen = b.resets
  BY <1>5 DEF Clean, Bare, Standing
<1>7. \A j \in mine : j \in Scored(g) /\ ScannerOf[g.rows[j].cell] = s /\ g.rows[j] = disk.rows[j]
  BY <1>3, <1>6 DEF Scored, Uncounted, IdsOf
<1>8. Won(g, s) \subseteq mine
  BY <1>3, <1>6 DEF Won, Scored, IdsOf
<1>9. \A w \in Won(g, s) : w \in mine /\ disk.rows[w].pnl > 0 /\ g.rows[w] = disk.rows[w]
  BY <1>7, <1>8 DEF Won
<1> HIDE DEF mine, s
<1>10. S \in SUBSET Lost(g, s)
  BY <1>4, <1>7 DEF Lost
<1>11. Unbroken(g.rows, Won(g, s), S)
  <2>1. \A j \in S : g.rows[j] = disk.rows[j]
    BY <1>4, <1>7
  <2>2. QED
    BY <1>4, <1>9, <2>1 DEF Unbroken
<1>12. Streak(g.rows, Won(g, s), Lost(g, s), g.saved.streak[s], g.saved.until[s])
  BY <1>2 DEF Counts
<1>13. g.rows[i].end + CooldownTicks <= g.saved.until[s]
  BY <1>1, <1>10, <1>11, <1>12 DEF Streak
<1>14. g.rows[i].end \in Nat /\ g.rows[i] = disk.rows[i]
  BY <1>3, <1>5, BookFields, RowFields
<1>15. g.saved.until[s] \in Nat
  <2>1. g.saved \in RiskState
    BY BookFields
  <2>2. g.saved.until \in [Scanners -> Nat]
    BY <2>1, RiskFields
  <2>3. QED
    BY <1>2, <2>2
<1>16. ~(now < g.saved.until[s])
  BY DEF s
<1>17. QED
  BY <1>1, <1>2, <1>13, <1>14, <1>15, <1>16

LEMMA ClearedActs ==
  ASSUME NEW g \in Books, Holds(g), NEW old, now \in Nat
  PROVE  LET x == Cleared(g, old)
         IN  /\ x \in Books /\ Acts(g, x, now) /\ SameScores(g, x)
             /\ \A j \in Ids : g.rows[j].st # "open" => x.rows[j] = g.rows[j]
<1>1. CASE old \in g.open
  <2>1. old \in Ids /\ g.mkt \in Outcomes /\ g.rows[old].st = "open"
    BY <1>1, BookFields DEF Holds
  <2> DEFINE x == CloseAt(g, old, g.mkt, now)
  <2>2. x \in Books /\ Acts(g, x, now) /\ SameScores(g, x)
    BY <2>1, CloseActs
  <2>3. Beside(g, x, old)
    BY <2>1, CloseLocal
  <2> HIDE DEF x
  <2>4. \A j \in Ids : g.rows[j].st # "open" => x.rows[j] = g.rows[j]
    BY <2>1, <2>3 DEF Beside, Still
  <2>5. Cleared(g, old) = x
    BY <1>1 DEF Cleared, x
  <2>6. QED
    BY <2>2, <2>4, <2>5
<1>2. CASE old \notin g.open
  <2>1. Cleared(g, old) = g
    BY <1>2 DEF Cleared
  <2>2. Acts(g, g, now)
    BY StillActs
  <2>3. QED
    BY <2>1, <2>2 DEF SameScores
<1>3. QED
  BY <1>1, <1>2

LEMMA GateLasts ==
  ASSUME NEW b, Whole(b), b.dec, b.ev = <<>>, Tallied(b), now \in Nat
  PROVE  LET g == Gate(b, now)
         IN  /\ g \in Books /\ g.saved = g.risk /\ Lasts(g) /\ Holds(g) /\ Counts(g)
             /\ b.saved.seen = b.resets => g.saved.base = b.saved.base
             /\ g.ev = <<>> => Uncounted(g) = {}
<1> DEFINE g == Gate(b, now)
<1>1. /\ Whole(g) /\ Tallied(g) /\ Settled(g, now) /\ g.saved.seen = g.resets
      /\ b.saved.seen = b.resets => g.saved.base = b.saved.base
      /\ g.ev = <<>> => Uncounted(g) = {}
  BY GateTallied
<1> HIDE DEF g
<1>2. QED
  BY <1>1 DEF Whole, Tallied, Lasts, g

LEMMA MarkActs ==
  ASSUME NEW b \in Books, NEW i \in Ids, NEW r, r = Ignored(b, i) \/ r = Rejected(b, i), NEW t
  PROVE  /\ r \in Books /\ Acts(b, r, t) /\ SameScores(b, r) /\ NoneMade(b, r) /\ r.act[i] # "opened"
         /\ r.open = b.open /\ r.pend = b.pend /\ r.ev = b.ev
<1>1. /\ r \in Books /\ r.rows = b.rows /\ r.open = b.open /\ r.pend = b.pend /\ r.rec = b.rec
      /\ r.saved = b.saved /\ r.resets = b.resets /\ r.ev = b.ev
      /\ r.act = [b.act EXCEPT ![i] = "ignored"] \/ r.act = [b.act EXCEPT ![i] = "rejected"]
  BY MarkIs
<1>2. r.act[i] # "opened"
  BY <1>1, BookFields
<1>3. Acts(b, r, t)
  BY <1>1, StillActs
<1>4. QED
  BY <1>1, <1>2, <1>3 DEF SameScores, NoneMade

LEMMA ExecuteCounts ==
  ASSUME Types, NEW b, InBook(b), b.dec, Tallied(b), NEW i \in Ids, b.rows[i].st = "none",
         NEW c \in Cells, NEW side \in Sides, NEW says, NEW bank \in BOOLEAN
  PROVE  LET r == ExecuteEntry(b, i, c, side, says, bank)
         IN  (Quiet(b, r) \/ Lasts(r)) /\ Cool(r, i)
<1> DEFINE r == ExecuteEntry(b, i, c, side, says, bank)
           old == HeldIn(b, c)
           row == NewRow(c, side, old)
           g == Gate(b, now)
<1>0. Whole(b) /\ b \in Books /\ ~b.bad /\ b.ev = <<>> /\ now \in Nat
  BY DiskFields DEF InBook, Whole
<1>1. \/ r = Ignored(b, i) \/ r = Rejected(b, i) \/ r = Rejected(g, i)
      \/ Admitted(b, g, i, c, row, old, r)
  BY <1>0, ExecuteIs
<1>2. old \in 0..MaxSignals
  BY <1>0, HeldIs
<1> HIDE DEF old
<1>3. row \in Row /\ row.st = "pending" /\ row.cell = c
  BY <1>0, <1>2, NewRowIs
<1>4. /\ g \in Books /\ g.saved = g.risk /\ Lasts(g) /\ Holds(g) /\ Counts(g)
      /\ b.saved.seen = b.resets => g.saved.base = b.saved.base
      /\ g.ev = <<>> => Uncounted(g) = {}
  BY <1>0, GateLasts
<1> HIDE DEF g, row, r
<1>5. CASE r = Ignored(b, i) \/ r = Rejected(b, i)
  <2>1. /\ r \in Books /\ Acts(b, r, now) /\ SameScores(b, r) /\ NoneMade(b, r) /\ r.act[i] # "opened"
        /\ r.open = b.open /\ r.pend = b.pend /\ r.ev = b.ev
    BY <1>0, <1>5, MarkActs
  <2>2. Quiet(b, r)
    BY <1>0, <2>1, QuietOn
  <2>3. QED
    BY <2>1, <2>2 DEF Cool, r
<1>6. CASE r = Rejected(g, i)
  <2>1. Acts(g, r, now) /\ SameScores(g, r) /\ r.act[i] # "opened"
    BY <1>4, <1>6, MarkActs
  <2>2. Lasts(r)
    BY <1>0, <1>4, <2>1, LastsOn
  <2>3. QED
    BY <2>1, <2>2 DEF Cool, r
<1>7. ASSUME Admitted(b, g, i, c, row, old, r)
      PROVE  g.rows = b.rows /\ ~CoolsDown(ScannerOf[c])
  <2>1. g.rows = b.rows /\ g.ev = <<>> /\ ~(now < g.risk.until[ScannerOf[c]])
    BY <1>0, <1>7 DEF Admitted, Allowed, Unmoved
  <2>2. QED
    BY <1>4, <2>1, NoCooldown DEF Tallied
<1>8. CASE Admitted(b, g, i, c, row, old, r) /\ row.kind # "now"
  <2>1. r = Place(g, i, row)
    BY <1>8 DEF Admitted
  <2>2. g.rows[i].st = "none"
    BY <1>7, <1>8
  <2> DEFINE p == Place(g, i, row)
  <2>3. Acts(g, p, now) /\ SameScores(g, p)
    BY <1>3, <1>4, <2>2, PlaceActs
  <2>4. p.act[i] = "pending"
    BY <1>3, <1>4, PlaceLocal DEF PlacedAs
  <2> HIDE DEF p
  <2>5. Lasts(p)
    BY <1>0, <1>4, <2>3, LastsOn
  <2>6. r = p
    BY <2>1 DEF p
  <2>7. QED
    BY <2>4, <2>5, <2>6 DEF Cool, r
<1>9. CASE Admitted(b, g, i, c, row, old, r) /\ row.kind = "now"
  <2> DEFINE x == Cleared(g, old)
             p == Place(x, i, row)
             o == OpenAt(p, i, now)
  <2>1. r = o
    BY <1>9 DEF Admitted
  <2>2. /\ x \in Books /\ Acts(g, x, now) /\ SameScores(g, x)
        /\ \A j \in Ids : g.rows[j].st # "open" => x.rows[j] = g.rows[j]
    BY <1>0, <1>4, ClearedActs
  <2> HIDE DEF x
  <2>3. Lasts(x) /\ x.rows[i].st = "none"
    BY <1>0, <1>4, <1>7, <1>9, <2>2, LastsOn
  <2>4. p \in Books /\ Acts(x, p, now) /\ SameScores(x, p) /\ p.rows[i] = row
    BY <1>3, <2>2, <2>3, PlaceActs
  <2> HIDE DEF p
  <2>5. Lasts(p)
    BY <1>0, <2>2, <2>3, <2>4, LastsOn
  <2>6. Acts(p, o, now) /\ SameScores(p, o) /\ Started(p, o, i)
    BY <1>0, <2>4, OpenActs
  <2> HIDE DEF o
  <2>7. Lasts(o)
    BY <1>0, <2>4, <2>5, <2>6, LastsOn
  <2>8. o.rows[i].cell = c
    BY <1>3, <2>4, <2>6 DEF Started
  <2>9. Cool(o, i)
    BY <1>7, <1>9, <2>8 DEF Cool
  <2>10. QED
    BY <2>1, <2>7, <2>9 DEF r
<1>10. QED
  BY <1>1, <1>5, <1>6, <1>8, <1>9

LEMMA FilledCounts ==
  ASSUME Types, NEW b, InBook(b), b.dec, Tallied(b), Sound(b), NEW i \in Ids, Known(b, b, now, i),
         NEW says, NEW stopped \in BOOLEAN
  PROVE  LET r == Filled(b, i, says, stopped)
         IN  (Quiet(b, r) \/ Lasts(r)) /\ Cool(r, i)
<1> DEFINE r == Filled(b, i, says, stopped)
           taken == [b EXCEPT !.pend = @ \ {i}]
           g == Gate(taken, now)
<1>0. Whole(b) /\ b \in Books /\ ~b.bad /\ b.ev = <<>> /\ now \in Nat
  BY DiskFields DEF InBook, Whole
<1>1. \/ r = CancelEntry(b, i) \/ r = CancelEntry(g, i)
      \/ WaitingFilled(b, g, i, Replaced(b, i), r)
      \/ RestingFilled(b, g, i, Time, r)
  <2>1. CASE b.rows[i].kind = "rest"
    <3>1. r = FillResting(b, i, Time, says, stopped)
      BY <2>1 DEF Filled
    <3> HIDE DEF r
    <3>2. QED
      BY <1>0, <3>1, FillRestingIs
  <2>2. CASE b.rows[i].kind # "rest"
    <3>1. r = FillWaiting(b, i, says)
      BY <2>2 DEF Filled
    <3> HIDE DEF r
    <3>2. QED
      BY <1>0, <3>1, FillWaitingIs
  <2>3. QED
    BY <2>1, <2>2
<1>2. /\ taken \in Books /\ taken.resets = b.resets /\ taken.dec /\ ~taken.bad /\ taken.pend = b.pend \ {i}
      /\ taken.risk = b.risk /\ taken.rows = b.rows /\ taken.open = b.open /\ taken.saved = b.saved
      /\ taken.rec = b.rec /\ taken.ev = b.ev
  BY <1>0, TakenIs
<1>b. taken = [b EXCEPT !.pend = @ \ {i}]
  OBVIOUS
<1>3. /\ g \in Books /\ Moves(taken, g, now) /\ ~g.bad
      /\ Locks(taken, taken, now) => Locks(g, g, now)
  <2> HIDE DEF taken
  <2>1. QED
    BY <1>0, <1>2, GateMoves
<1>c. Whole(taken)
  BY <1>0, <1>2 DEF Whole
<1>d. Tallied(taken)
  <2> HIDE DEF taken
  <2>1. Clean(taken, now)
    BY <1>2 DEF Tallied, Clean, Bare
  <2>2. Counts(taken)
    <3>1. Alters(b, taken, now)
      BY <1>2 DEF Alters, Evolves
    <3>2. QED
      BY <1>0, <1>2, <3>1, CountsOn DEF Tallied, SameScores
  <2>3. QED
    BY <1>2, <2>1, <2>2 DEF Tallied, Holds
<1>4. /\ g.saved = g.risk /\ Lasts(g) /\ Holds(g) /\ Counts(g)
      /\ b.saved.seen = b.resets => g.saved.base = b.saved.base
      /\ g.ev = <<>> => Uncounted(g) = {}
  <2> HIDE DEF taken
  <2>1. QED
    BY <1>0, <1>2, <1>c, <1>d, GateLasts
<1> HIDE DEF taken, g, r
<1>5. b.rows[i].st # "pending" => Locks(b, b, now)
  BY DEF Known, Sound, SoundAt
<1>6. CASE r = CancelEntry(b, i)
  <2> DEFINE x == CancelEntry(b, i)
  <2>1. x \in Books /\ Acts(b, x, now) /\ NoneMade(b, x) /\ SameScores(b, x)
    BY <1>0, CancelActs
  <2>2. x.pend = b.pend \ {i} /\ x.open = b.open /\ x.ev = b.ev
    BY <1>0, CancelIs
  <2>3. x.act[i] = "rejected"
    BY <1>0, CancelLocal DEF Cancelled
  <2> HIDE DEF x
  <2>4. Quiet(b, x)
    BY <1>0, <2>1, <2>2, QuietOn
  <2>5. r = x
    BY <1>6 DEF x
  <2>6. QED
    BY <2>3, <2>4, <2>5 DEF Cool, r
<1>7. CASE r = CancelEntry(g, i)
  <2> DEFINE x == CancelEntry(g, i)
  <2>1. Acts(g, x, now) /\ SameScores(g, x)
    BY <1>3, CancelActs
  <2>2. x.act[i] = "rejected"
    BY <1>3, CancelLocal DEF Cancelled
  <2> HIDE DEF x
  <2>3. Lasts(x)
    BY <1>0, <1>3, <1>4, <2>1, LastsOn
  <2>4. r = x
    BY <1>7 DEF x
  <2>5. QED
    BY <2>2, <2>3, <2>4 DEF Cool, r
<1>8. ASSUME Allowed(taken, g, b.rows[i].cell)
      PROVE  /\ b.rows[i].st = "pending" /\ g.rows = b.rows
             /\ ~CoolsDown(ScannerOf[b.rows[i].cell])
  <2>1. ~Locks(g, g, now)
    BY <1>8 DEF Allowed, Locks
  <2>2. ~Locks(b, b, now)
    BY <2>1, <1>2, <1>3 DEF Locks
  <2>3. b.rows[i].st = "pending"
    BY <1>5, <2>2
  <2>4. b.rows[i].cell \in Cells
    BY <2>3 DEF Tallied, Clean, Standing
  <2>5. g.rows = b.rows /\ g.ev = <<>> /\ ~(now < g.risk.until[ScannerOf[b.rows[i].cell]])
    BY <1>0, <1>2, <1>8 DEF Allowed, Unmoved
  <2>6. QED
    BY <1>3, <1>4, <2>3, <2>4, <2>5, NoCooldown DEF Tallied
<1>9. CASE WaitingFilled(b, g, i, Replaced(b, i), r)
  <2> DEFINE old == Replaced(b, i)
             x == Cleared(g, old)
             o == OpenAt(x, i, now)
  <2>1. r = o /\ Allowed(taken, g, b.rows[i].cell)
    BY <1>9, <1>b DEF WaitingFilled
  <2> HIDE DEF old
  <2>2. /\ x \in Books /\ Acts(g, x, now) /\ SameScores(g, x)
        /\ \A j \in Ids : g.rows[j].st # "open" => x.rows[j] = g.rows[j]
    BY <1>0, <1>3, <1>4, ClearedActs
  <2> HIDE DEF x
  <2>3. Lasts(x) /\ x.rows[i] = b.rows[i]
    BY <1>0, <1>3, <1>4, <1>8, <2>1, <2>2, LastsOn
  <2>4. Acts(x, o, now) /\ SameScores(x, o) /\ Started(x, o, i)
    BY <1>0, <2>2, OpenActs
  <2> HIDE DEF o
  <2>5. Lasts(o)
    BY <1>0, <2>2, <2>3, <2>4, LastsOn
  <2>6. o.rows[i].cell = b.rows[i].cell
    BY <1>8, <2>1, <2>3, <2>4 DEF Started
  <2>7. Cool(o, i)
    BY <1>8, <2>1, <2>6 DEF Cool
  <2>8. QED
    BY <2>1, <2>5, <2>7 DEF r
<1>10. CASE RestingFilled(b, g, i, Time, r)
  <2> DEFINE o == OpenAt(g, i, now)
             x == CloseAt(o, i, -1, now)
  <2>1. (r = o \/ r = x) /\ Allowed(taken, g, b.rows[i].cell)
    BY <1>10, <1>b DEF RestingFilled
  <2>2. o \in Books /\ Acts(g, o, now) /\ SameScores(g, o) /\ Started(g, o, i)
    BY <1>0, <1>3, OpenActs
  <2> HIDE DEF o
  <2>3. Lasts(o)
    BY <1>0, <1>3, <1>4, <2>2, LastsOn
  <2>4. o.rows[i].cell = b.rows[i].cell /\ o.rows[i].st = "open"
    BY <1>8, <2>1, <2>2 DEF Started
  <2>5. -1 \in Outcomes
    BY DEF Outcomes
  <2>6. Acts(o, x, now) /\ SameScores(o, x)
    BY <1>0, <2>2, <2>4, <2>5, CloseActs
  <2>7. Shut(o, x, i, -1, now)
    BY <1>0, <2>2, <2>5, CloseLocal
  <2> HIDE DEF x
  <2>8. Lasts(x)
    BY <1>0, <2>2, <2>3, <2>6, LastsOn
  <2>9. x.rows[i].cell = b.rows[i].cell
    BY <1>0, <2>2, <2>4, <2>5, <2>7, ClosedRowType DEF Shut
  <2>10. Cool(o, i) /\ Cool(x, i)
    BY <1>8, <2>1, <2>4, <2>9 DEF Cool
  <2>11. QED
    BY <2>1, <2>3, <2>8, <2>10 DEF r
<1>11. QED
  BY <1>1, <1>6, <1>7, <1>9, <1>10

----------------------------------------------------------------------------
(* The record and the running handler. Posts are the items that count a     *)
(* trade. Lists of items that post nothing are Mute.                        *)

LEMMA ListedIs ==
  ASSUME NEW w
  PROVE  /\ \A k \in 1..Len(w) : w[k].op \in Posts => w[k].id \in Listed(w)
         /\ \A u \in Listed(w) : \E k \in 1..Len(w) : w[k].op \in Posts /\ w[k].id = u
BY DEF Listed

LEMMA MuteIs ==
  ASSUME NEW w, Mute(w)
  PROVE  /\ Listed(w) = {}
         /\ \A d, t : AllDue(d, t, w) /\ Lined(d, w)
<1>1. Listed(w) = {}
  BY DEF Mute, Listed
<1>2. \A d, t : AllDue(d, t, w) /\ Lined(d, w)
  BY DEF Mute, AllDue, Due, Lined, Posts
<1>3. QED
  BY <1>1, <1>2

LEMMA LateMute == ASSUME NEW w, AllLate(w) PROVE Mute(w)
BY Zenon DEF AllLate, Mute, LateOps, Posts

\* what Continue unfolds lists nothing
LEMMA NextTracks ==
  ASSUME NEW items, NextWork(items), NEW d, NEW t, AllDue(d, t, items), Lined(d, items)
  PROVE  AllDue(d, t, work') /\ Lined(d, work') /\ Listed(work') = Listed(items)
<1> DEFINE w == work'
<1>1. CASE w = items
  BY <1>1
<1>2. CASE AllLate(items) /\ AllLate(w)
  <2> HIDE DEF w
  <2>1. Mute(items) /\ Mute(w)
    BY <1>2, LateMute
  <2>2. Listed(items) = {} /\ Listed(w) = {} /\ AllDue(d, t, w) /\ Lined(d, w)
    BY <2>1, MuteIs
  <2>3. QED
    BY <2>2 DEF w
<1>3. QED
  BY <1>1, <1>2 DEF NextWork

LEMMA TailTracks ==
  ASSUME NEW w \in Seq(Items), w # <<>>, NEW d, NEW t, AllDue(d, t, w), Lined(d, w)
  PROVE  /\ AllDue(d, t, Tail(w)) /\ Lined(d, Tail(w)) /\ Due(d, t, Head(w))
         /\ Listed(Tail(w)) \subseteq Listed(w)
         /\ \A u \in Listed(w) : u \in Listed(Tail(w)) \/ (u = Head(w).id /\ Head(w).op \in Posts)
         /\ Head(w).op \in Posts => \A u \in Listed(w) : d.rows[Head(w).id].end <= d.rows[u].end \/ u = Head(w).id
<1> DEFINE v == Tail(w)
<1>1. /\ v \in Seq(Items) /\ Len(w) \in Nat /\ Len(w) >= 1 /\ Len(v) = Len(w) - 1
      /\ \A k \in 1..Len(v) : v[k] = w[k + 1] /\ k + 1 \in 1..Len(w)
      /\ Head(w) = w[1] /\ 1 \in 1..Len(w)
  BY TailIs
<1> HIDE DEF v
<1>2. AllDue(d, t, v) /\ Due(d, t, Head(w))
  BY <1>1 DEF AllDue
<1>3. Lined(d, v)
  <2>1. SUFFICES ASSUME NEW j \in 1..Len(v), NEW k \in 1..Len(v), j < k, v[j].op \in Posts, v[k].op \in Posts
                 PROVE  d.rows[v[j].id].end <= d.rows[v[k].id].end
    BY DEF Lined
  <2>2. j + 1 \in 1..Len(w) /\ k + 1 \in 1..Len(w) /\ j + 1 < k + 1 /\ v[j] = w[j + 1] /\ v[k] = w[k + 1]
    BY <1>1, <2>1
  <2>3. QED
    BY <2>1, <2>2 DEF Lined
<1>4. Listed(v) \subseteq Listed(w)
  BY <1>1, ListedIs
<1>5. ASSUME NEW k \in 1..Len(w) PROVE k = 1 \/ \E n \in 1..Len(v) : v[n] = w[k] /\ 1 < k
  <2>1. CASE k # 1
    <3>1. k - 1 \in 1..Len(v) /\ (k - 1) + 1 = k /\ 1 < k
      BY <1>1, <2>1
    <3>2. QED
      BY <1>1, <3>1
  <2>2. QED
    BY <2>1
<1>6. \A u \in Listed(w) : u \in Listed(v) \/ (u = Head(w).id /\ Head(w).op \in Posts)
  <2>1. ASSUME NEW u \in Listed(w) PROVE u \in Listed(v) \/ (u = Head(w).id /\ Head(w).op \in Posts)
    <3>1. PICK k \in 1..Len(w) : w[k].op \in Posts /\ w[k].id = u
      BY ListedIs
    <3>2. k = 1 \/ \E n \in 1..Len(v) : v[n] = w[k]
      BY <1>5
    <3>3. QED
      BY <1>1, <3>1, <3>2, ListedIs
  <2>2. QED
    BY <2>1
<1>7. ASSUME Head(w).op \in Posts, NEW u \in Listed(w) PROVE d.rows[Head(w).id].end <= d.rows[u].end \/ u = Head(w).id
  <2>1. PICK k \in 1..Len(w) : w[k].op \in Posts /\ w[k].id = u
    BY ListedIs
  <2>2. k = 1 \/ 1 < k
    BY <1>5
  <2>3. QED
    BY <1>1, <1>7, <2>1, <2>2 DEF Lined
<1>8. QED
  BY <1>2, <1>3, <1>4, <1>6, <1>7 DEF v

\* the events of a commit before a list that has no older posts
LEMMA TradesTrack ==
  ASSUME NEW r \in Books, NEW t \in Nat, Sealed(r, t), NEW loud \in BOOLEAN, NEW w \in Seq(Items), AllDue(r, t, w),
         \A k \in 1..Len(w) : w[k].op # "missed"
  PROVE  LET items == Trades(r, loud) \o w
         IN  AllDue(r, t, items) /\ Lined(r, items) /\ Listed(items) = Posted(r) \cup Listed(w)
<1> DEFINE e == Trades(r, loud)
           z == e \o w
<1>1. r.ev \in Seq(Ids)
  BY BookFields
<1>2. e \in Seq(Items) /\ Len(e) = Len(r.ev) /\ Len(e) \in Nat /\ \A k \in 1..Len(e) : e[k].op = "trade" /\ e[k].id = r.ev[k]
  BY <1>1, TradesIs
<1> HIDE DEF e
<1>3. /\ z \in Seq(Items) /\ Len(w) \in Nat /\ Len(z) = Len(e) + Len(w)
      /\ \A k \in 1..Len(z) : \/ k \in 1..Len(e) /\ z[k] = e[k]
                              \/ k - Len(e) \in 1..Len(w) /\ z[k] = w[k - Len(e)]
  BY <1>2, JoinIs
<1> HIDE DEF z
<1>4. /\ \A k \in 1..Len(e) : k \in 1..Len(z) /\ z[k] = e[k]
      /\ \A k \in 1..Len(w) : Len(e) + k \in 1..Len(z) /\ z[Len(e) + k] = w[k]
  <2>1. ASSUME NEW k \in 1..Len(e) PROVE k \in 1..Len(z) /\ z[k] = e[k]
    BY <1>2, <1>3
  <2>2. ASSUME NEW k \in 1..Len(w) PROVE Len(e) + k \in 1..Len(z) /\ z[Len(e) + k] = w[k]
    <3>1. Len(e) + k \in 1..Len(z) /\ Len(e) + k \notin 1..Len(e) /\ (Len(e) + k) - Len(e) = k
      BY <1>2, <1>3
    <3>2. QED
      BY <1>3, <3>1
  <2>3. QED
    BY <2>1, <2>2
<1>5. \A k \in 1..Len(e) : e[k].id \in Posted(r)
  BY <1>2 DEF Posted
<1>6. \A u \in Posted(r) : \E k \in 1..Len(e) : e[k].id = u
  BY <1>2 DEF Posted
<1>7. AllDue(r, t, z)
  <2>1. \A k \in 1..Len(e) : Due(r, t, e[k])
    BY <1>2, <1>5 DEF Due, Sealed
  <2>2. QED
    BY <1>3, <2>1 DEF AllDue
<1>8. \A k \in 1..Len(z) : z[k].op \in Posts => r.rows[z[k].id].end = t
  <2>1. \A k \in 1..Len(z) : z[k].op # "missed"
    BY <1>2, <1>3
  <2>2. QED
    BY <1>7, <2>1 DEF AllDue, Due, Posts
<1>9. Lined(r, z)
  BY <1>8 DEF Lined
<1>10. Listed(z) \subseteq Posted(r) \cup Listed(w)
  <2>1. ASSUME NEW u \in Listed(z) PROVE u \in Posted(r) \cup Listed(w)
    <3>1. PICK k \in 1..Len(z) : z[k].op \in Posts /\ z[k].id = u
      BY ListedIs
    <3>2. QED
      BY <1>3, <1>5, <3>1, ListedIs
  <2>2. QED
    BY <2>1
<1>11. Posted(r) \cup Listed(w) \subseteq Listed(z)
  <2>1. ASSUME NEW u \in Posted(r) PROVE u \in Listed(z)
    <3>1. PICK k \in 1..Len(e) : e[k].id = u
      BY <1>6
    <3>2. k \in 1..Len(z) /\ z[k].op \in Posts /\ z[k].id = u
      BY <1>2, <1>4, <3>1 DEF Posts
    <3>3. QED
      BY <3>2, ListedIs
  <2>2. ASSUME NEW u \in Listed(w) PROVE u \in Listed(z)
    <3>1. PICK k \in 1..Len(w) : w[k].op \in Posts /\ w[k].id = u
      BY ListedIs
    <3>2. QED
      BY <1>4, <3>1, ListedIs
  <2>3. QED
    BY <2>1, <2>2
<1>12. QED
  BY <1>7, <1>9, <1>10, <1>11 DEF z, e

LEMMA SameTracks ==
  ASSUME NEW d, NEW e, e.rows = d.rows, e.rec = d.rec, e.saved = d.saved, e.resets = d.resets, NEW t \in Nat,
         Clean(d, t)
  PROVE  /\ Clean(e, t) /\ (Counts(d) => Counts(e)) /\ Uncounted(e) = Uncounted(d)
         /\ \A w : (AllDue(d, t, w) => AllDue(e, t, w)) /\ (Lined(d, w) => Lined(e, w))
<1>1. Clean(e, t)
  BY DEF Clean, Bare
<1>2. Counts(d) => Counts(e)
  <2>1. Alters(d, e, t) /\ SameScores(d, e)
    BY DEF Alters, Evolves, SameScores
  <2>2. QED
    BY <2>1, CountsOn
<1>3. Uncounted(e) = Uncounted(d)
  BY DEF Uncounted, IdsOf
<1>4. \A w : (AllDue(d, t, w) => AllDue(e, t, w)) /\ (Lined(d, w) => Lined(e, w))
  <2>1. \A x : Due(d, t, x) => Due(e, t, x)
    BY DEF Due, Bare
  <2>2. QED
    BY <2>1 DEF AllDue, Lined
<1>5. QED
  BY <1>1, <1>2, <1>3, <1>4

LEMMA TrackMade ==
  ASSUME Types, NEW r, Whole(r), disk' = Durable(r), mem' = Volatile(r), now' = now, Clean(r, now), Counts(r),
         AllDue(r, now, work'), Lined(r, work'), Told(r, r, now, work')
  PROVE  Tracked'
<1> DEFINE d == disk'
           m == mem'
           w == work'
<1>1. /\ d.rows = r.rows /\ d.rec = r.rec /\ d.saved = r.saved /\ d.resets = r.resets
      /\ m.open = r.open /\ m.pend = r.pend
  BY Kept
<1>2. now \in Nat
  BY DEF Types
<1>3. AllDue(r, now, w) /\ Lined(r, w) /\ Told(r, r, now, w)
  OBVIOUS
<1> HIDE DEF d, m, w
<1>4. Clean(d, now) /\ Counts(d) /\ Uncounted(d) = Uncounted(r) /\ AllDue(d, now, w) /\ Lined(d, w)
  BY <1>1, <1>2, <1>3, SameTracks
<1>5. Told(d, m, now, w)
  BY <1>1, <1>3, <1>4 DEF Told
<1>6. QED
  BY <1>4, <1>5 DEF Tracked, d, m, w

LEMMA HeadMute ==
  ASSUME Types, work # <<>>, Head(work).op \in LateOps \cup {"fill", "cancel"}
  PROVE  Listed(work) = {} /\ Mute(Tail(work)) /\ Tail(work) \in Seq(Items)
<1>1. work \in Seq(Items) /\ Head(work) = work[1]
  BY TailIs DEF Types
<1>2. /\ Tail(work) \in Seq(Items)
      /\ \A k \in 1..Len(Tail(work)) : Follows(Head(work).op, Tail(work)[k].op)
  BY Behind
<1>3. Mute(Tail(work))
  BY Zenon, <1>2 DEF Mute, Posts, Follows, LateOps
<1>4. \A k \in 1..Len(work) : work[k].op \notin Posts
  <2>1. ASSUME NEW k \in 1..Len(work) PROVE work[k].op \notin Posts
    <3>1. CASE k = 1
      BY Zenon, <1>1, <3>1 DEF Posts, LateOps
    <3>2. CASE k # 1
      BY <1>1, <1>3, <3>2, OneBefore DEF Mute
    <3>3. QED
      BY <3>1, <3>2
  <2>2. QED
    BY <2>1
<1>5. Listed(work) = {}
  BY <1>4, ListedIs
<1>6. QED
  BY <1>2, <1>3, <1>5

LEMMA BookTallied ==
  ASSUME Types, Agree, Tracked, up, Drops(work) = {}, NEW b, InBook(b)
  PROVE  /\ Tallied(b) /\ Sound(b) /\ Told(b, b, now, work) /\ Posted(b) = {} /\ b \in Books /\ Whole(b)
         /\ AllDue(b, now, work) /\ Lined(b, work)
<1>1. Sound(b) /\ now \in Nat
  BY AgreesInBook DEF Types
<1>2. /\ b.rows = disk.rows /\ b.rec = disk.rec /\ b.saved = disk.saved /\ b.resets = disk.resets
      /\ b.open = mem.open /\ b.pend = mem.pend /\ b.ev = <<>> /\ Whole(b) /\ b \in Books
  BY DEF InBook, Whole
<1>3. Clean(b, now) /\ Counts(b) /\ Uncounted(b) = Uncounted(disk) /\ AllDue(b, now, work) /\ Lined(b, work)
  BY <1>1, <1>2, SameTracks DEF Tracked
<1>4. Told(b, b, now, work)
  BY <1>2, <1>3 DEF Tracked, Told
<1>5. Holds(b)
  <2>1. b.open \in SUBSET Ids /\ b.pend \in SUBSET Ids
    BY <1>2, BookFields
  <2>2. QED
    BY <1>1, <2>1 DEF Sound, SoundAt, Holds
<1>6. QED
  BY <1>1, <1>2, <1>3, <1>4, <1>5, PostedIs DEF Tallied

LEMMA LeftTracked ==
  ASSUME Types, Tracked, up, disk' = disk, mem' = mem, now' = now, Listed(work) = {}, Mute(work')
  PROVE  Tracked'
<1> DEFINE w == work'
<1>1. Listed(w) = {} /\ AllDue(disk, now, w) /\ Lined(disk, w)
  BY MuteIs
<1> HIDE DEF w
<1>2. Told(disk, mem, now, w)
  BY <1>1 DEF Tracked, Told
<1>3. QED
  BY <1>1, <1>2 DEF Tracked, w

\* a transaction of the paper engine, and what follows it
LEMMA DealTracked ==
  ASSUME Types, now' = now, NEW b, Told(b, b, now, work), Listed(work) = {}, NEW r, Quiet(b, r) \/ Lasts(r),
         Whole(r), disk' = Durable(r), mem' = Volatile(r),
         NEW w \in Seq(Items), Mute(w), NEW loud \in BOOLEAN, NextWork(Trades(r, loud) \o w)
  PROVE  Tracked'
<1> DEFINE items == Trades(r, loud) \o w
           v == work'
<1>1. r \in Books /\ now \in Nat
  BY DEF Whole, Types
<1>2. Listed(w) = {} /\ AllDue(r, now, w) /\ \A k \in 1..Len(w) : w[k].op # "missed"
  BY MuteIs DEF Mute, Posts
<1>3. Sealed(r, now)
  BY <1>1, PostedIs DEF Quiet, Lasts, Settled, Sealed
<1>4. AllDue(r, now, items) /\ Lined(r, items) /\ Listed(items) = Posted(r) \cup Listed(w)
  BY <1>1, <1>2, <1>3, TradesTrack
<1> HIDE DEF items
<1>5. NextWork(items)
  BY DEF items
<1>6. AllDue(r, now, v) /\ Lined(r, v) /\ Listed(v) = Posted(r)
  BY <1>2, <1>4, <1>5, NextTracks
<1> HIDE DEF v
<1>7. CASE Lasts(r)
  <2>1. Told(r, r, now, v)
    BY <1>6, <1>7 DEF Lasts, Settled, Told
  <2>2. Clean(r, now) /\ Counts(r)
    BY <1>7 DEF Lasts
  <2>3. QED
    BY <1>6, <2>1, <2>2, TrackMade DEF v
<1>8. CASE Quiet(b, r)
  <2>1. Posted(r) = {}
    BY <1>1, <1>8, PostedIs DEF Quiet
  <2>2. Told(r, r, now, v)
    BY <1>6, <1>8, <2>1 DEF Quiet, Told
  <2>3. Clean(r, now) /\ Counts(r)
    BY <1>8 DEF Quiet
  <2>4. QED
    BY <1>6, <2>2, <2>3, TrackMade DEF v
<1>9. QED
  BY <1>7, <1>8

LEMMA TransactionTracked ==
  ASSUME Types, Tracked, Runs, Head(work).op \in LateOps \cup {"fill", "cancel"}, NEW b, Told(b, b, now, work),
         NEW r, Quiet(b, r) \/ Lasts(r), NEW loud \in BOOLEAN, Committed(r, loud)
  PROVE  Tracked'
<1>1. Listed(work) = {} /\ Mute(Tail(work)) /\ Tail(work) \in Seq(Items)
  BY HeadMute DEF Runs
<1>2. Whole(r) /\ disk' = Durable(r) /\ mem' = Volatile(r) /\ NextWork(Trades(r, loud) \o Tail(work)) /\ now' = now
  BY DEF Committed, Runs
<1>3. ASSUME NEW w \in Seq(Items), w = Tail(work) PROVE Tracked'
  BY <1>1, <1>2, <1>3, DealTracked
<1>4. QED
  BY <1>1, <1>3

LEMMA LeftMute ==
  ASSUME Types, Tracked, Runs, Head(work).op \in LateOps \cup {"fill", "cancel"},
         NEW items, Left(items), items = Tail(work) \/ items = <<>>
  PROVE  Tracked'
<1>1. Listed(work) = {} /\ Mute(Tail(work))
  BY HeadMute DEF Runs
<1>2. Mute(<<>>)
  BY DEF Mute
<1>3. Mute(items)
  BY <1>1, <1>2
<1>4. Mute(work')
  <2>1. CASE work' = items
    BY <1>3, <2>1
  <2>2. CASE AllLate(work')
    <3> DEFINE v == work'
    <3> HIDE DEF v
    <3>1. AllLate(v)
      BY <2>2 DEF v
    <3>2. Mute(v)
      BY <3>1, LateMute
    <3>3. QED
      BY <3>2 DEF v
  <2>3. QED
    BY <2>1, <2>2 DEF Left, NextWork
<1>5. QED
  BY <1>1, <1>4, LeftTracked DEF Left, Runs

----------------------------------------------------------------------------
(* The record through every action, and what opens.                         *)

LEMMA NoneOpened ==
  ASSUME \A i \in Ids : disk'.act[i] = "opened" => disk.act[i] = "opened"
  PROVE  CoolOpen
BY DEF CoolOpen, Opened

LEMMA CommittedCool ==
  ASSUME NEW b, InBook(b), NEW r, Whole(r), disk' = Durable(r), NEW i \in Ids, Handles(b, r, i), Cool(r, i)
  PROVE  CoolOpen
<1>1. disk'.act = r.act /\ disk'.rows = r.rows /\ disk.act = b.act
  BY Kept DEF InBook
<1>2. \A j \in Ids \ {i} : ~Opened(j)
  BY <1>1 DEF Handles, NoNews, Opened
<1>3. QED
  BY <1>1, <1>2 DEF CoolOpen, Opened, Cool

LEMMA DecideTracked ==
  ASSUME Types, Agree, Tracked, Decide
  PROVE  Tracked' /\ CoolOpen
<1>1. /\ Types' /\ up /\ up' /\ now' = now /\ work = <<>> /\ now \in Nat /\ seen \in Nat
      /\ \/ disk' = disk /\ mem' = mem /\ work' = <<>> /\ seen' = seen
         \/ /\ seen + 1 \in Ids /\ seen' = seen + 1
            /\ \E c \in Cells, side \in Sides, says \in Verdicts, bank \in BOOLEAN, m \in Outcomes : \E r :
                 /\ r = ExecuteEntry(Decision(m), seen + 1, c, side, says, bank)
                 /\ Whole(r) /\ disk' = Durable(r) /\ mem' = Volatile(r) /\ work' = Trades(r, FALSE)
  <2>1. now \in Nat /\ seen \in Nat
    BY DEF Types
  <2>2. /\ Types' /\ Begins
        /\ \/ disk' = disk /\ mem' = mem /\ work' = <<>> /\ seen' = seen
           \/ /\ seen + 1 \in Ids /\ seen' = seen + 1
              /\ \E c \in Cells, side \in Sides, says \in Verdicts, bank \in BOOLEAN, m \in Outcomes : \E r :
                   /\ r = ExecuteEntry(Decision(m), seen + 1, c, side, says, bank)
                   /\ Whole(r) /\ disk' = Durable(r) /\ mem' = Volatile(r) /\ work' = Trades(r, FALSE)
    BY DecideIs
  <2>3. QED
    BY <2>1, <2>2 DEF Begins
<1>2. Listed(work) = {} /\ Mute(<<>>) /\ Drops(work) = {}
  BY <1>1 DEF Listed, Mute, Drops
<1>3. CASE disk' = disk /\ mem' = mem /\ work' = <<>>
  <2>1. Tracked'
    BY <1>1, <1>2, <1>3, LeftTracked
  <2>2. QED
    BY <1>3, <2>1, NoneOpened
<1>4. ASSUME seen + 1 \in Ids, NEW c \in Cells, NEW side \in Sides, NEW says \in Verdicts, NEW bank \in BOOLEAN,
             NEW m \in Outcomes, NEW r, r = ExecuteEntry(Decision(m), seen + 1, c, side, says, bank),
             Whole(r), disk' = Durable(r), mem' = Volatile(r), work' = Trades(r, FALSE)
      PROVE  Tracked' /\ CoolOpen
  <2> DEFINE b == Decision(m)
             i == seen + 1
  <2>1. r = ExecuteEntry(b, i, c, side, says, bank) /\ i \in Ids
    BY <1>4
  <2>2. InBook(b) /\ b.dec
    BY <1>1, BookIs
  <2> HIDE DEF b
  <2>3. /\ Tallied(b) /\ Sound(b) /\ Told(b, b, now, work) /\ b \in Books /\ Whole(b)
        /\ \A j \in Ids : j > seen => b.rows[j].st = "none"
    BY <1>1, <1>2, <2>2, BookTallied, AgreesInBook
  <2>4. b.rows[i].st = "none"
    BY <1>1, <2>1, <2>3
  <2> HIDE DEF i
  <2>5. (Quiet(b, r) \/ Lasts(r)) /\ Cool(r, i)
    BY <2>1, <2>2, <2>3, <2>4, ExecuteCounts
  <2>6. Handles(b, r, i)
    BY <1>1, <2>1, <2>2, <2>3, <2>4, ExecuteHandles
  <2>7. CoolOpen
    BY <1>4, <2>1, <2>2, <2>5, <2>6, CommittedCool
  <2>8. NextWork(Trades(r, FALSE) \o <<>>)
    <3>1. Trades(r, FALSE) \in Seq(Items)
      BY <1>1, <1>4 DEF Types
    <3> DEFINE e == Trades(r, FALSE)
    <3> HIDE DEF e
    <3>2. e \o <<>> = e
      BY <3>1 DEF e
    <3>3. work' \in Seq(Items) /\ Turns(work') /\ work' = e
      BY <1>1, <1>4 DEF Types, e
    <3>4. QED
      BY <3>2, <3>3 DEF NextWork, e
  <2>9. Tracked'
    <3>1. ASSUME NEW w \in Seq(Items), w = <<>>, NEW loud \in BOOLEAN, loud = FALSE PROVE Tracked'
      <4>1. Mute(w) /\ NextWork(Trades(r, loud) \o w)
        BY <1>2, <2>8, <3>1
      <4>2. QED
        BY <1>1, <1>2, <1>4, <2>3, <2>5, <4>1, DealTracked
    <3>2. <<>> \in Seq(Items) /\ FALSE \in BOOLEAN
      OBVIOUS
    <3>3. QED
      BY <3>1, <3>2
  <2>10. QED
    BY <2>7, <2>9
<1>5. QED
  BY <1>1, <1>3, <1>4

LEMMA FillEntryTracked ==
  ASSUME Types, Agree, Tracked, FillEntry
  PROVE  Tracked' /\ CoolOpen
<1>1. /\ Runs /\ Running("fill") /\ Entry \in Ids
      /\ \/ Left(Tail(work))
         \/ \E touched \in BOOLEAN, says \in Verdicts, stopped \in BOOLEAN, m \in Outcomes : \E r :
              /\ Reaches(disk.rows[Entry], Via, Time, touched)
              /\ r = Filled(Decision(m), Entry, says, stopped)
              /\ Committed(r, FALSE)
  BY FillEntryIs
<1>2. up /\ work # <<>> /\ Head(work).op = "fill" /\ Head(work) = work[1] /\ 1 \in 1..Len(work) /\ now \in Nat
  BY <1>1, HeadIs DEF Types
<1>3. CASE Left(Tail(work))
  <2>1. Tracked'
    BY <1>1, <1>2, <1>3, LeftMute
  <2>2. QED
    BY <1>3, <2>1, NoneOpened DEF Left
<1>4. ASSUME NEW says \in Verdicts, NEW stopped \in BOOLEAN, NEW m \in Outcomes,
             Committed(Filled(Decision(m), Entry, says, stopped), FALSE)
      PROVE  Tracked' /\ CoolOpen
  <2> DEFINE b == Decision(m)
             i == Entry
             r == Filled(b, i, says, stopped)
  <2>1. InBook(b) /\ b.dec
    BY <1>2, BookIs
  <2> HIDE DEF b
  <2>2. Drops(work) = {}
    BY Zenon, <1>2, NoDrops
  <2>3. Tallied(b) /\ Sound(b) /\ Told(b, b, now, work) /\ Whole(b) /\ Fits(b, b, now, Head(work))
    BY <1>2, <2>1, <2>2, BookTallied, AgreesInBook
  <2>4. Known(b, b, now, i) /\ i \in Ids
    BY <1>1, <1>2, <2>1, <2>3 DEF Fits, InBook, Entry
  <2>5. (Quiet(b, r) \/ Lasts(r)) /\ Cool(r, i)
    BY <2>1, <2>3, <2>4, FilledCounts
  <2>6. Handles(b, r, i)
    BY <1>2, <2>1, <2>3, <2>4, FilledHandles
  <2>7. Committed(r, FALSE)
    BY <1>4 DEF b
  <2> HIDE DEF r, i
  <2>8. CoolOpen
    BY <2>1, <2>4, <2>5, <2>6, <2>7, CommittedCool DEF Committed
  <2>9. ASSUME NEW loud \in BOOLEAN, Committed(r, loud) PROVE Tracked'
    BY <1>1, <1>2, <2>3, <2>5, <2>9, TransactionTracked
  <2>10. QED
    BY <2>7, <2>8, <2>9
<1>5. QED
  BY <1>1, <1>3, <1>4

LEMMA CancelTracked ==
  ASSUME Types, Agree, Tracked, Runs, Entry \in Ids, Head(work).op \in LateOps \cup {"cancel"},
         Committed(CancelEntry(Decision(-1), Entry), FALSE)
  PROVE  Tracked'
<1> DEFINE b == Decision(-1)
           r == CancelEntry(b, Entry)
<1>1. InBook(b)
  BY BookIs DEF Runs, Outcomes
<1>2. Drops(work) = {} /\ up /\ now \in Nat
  BY Zenon, NoDrops DEF Runs, Types
<1> HIDE DEF b
<1>3. Tallied(b) /\ Told(b, b, now, work) /\ b \in Books /\ b.ev = <<>>
  BY <1>1, <1>2, BookTallied DEF InBook
<1>4. r \in Books /\ Acts(b, r, now) /\ NoneMade(b, r) /\ SameScores(b, r)
  BY <1>3, CancelActs
<1>5. r.pend = b.pend \ {Entry} /\ r.open = b.open /\ r.ev = b.ev
  BY <1>3, CancelIs
<1>6. Committed(r, FALSE)
  BY DEF b
<1> HIDE DEF r
<1>7. Quiet(b, r)
  BY <1>2, <1>3, <1>4, <1>5, QuietOn
<1>8. ASSUME NEW loud \in BOOLEAN, Committed(r, loud) PROVE Tracked'
  BY <1>3, <1>7, <1>8, TransactionTracked
<1>9. QED
  BY <1>6, <1>8

LEMMA NotOpened ==
  ASSUME NEW b, InBook(b), NEW r, Whole(r), disk' = Durable(r), ~Opens(b, r)
  PROVE  CoolOpen
<1>1. disk'.act = r.act /\ disk.act = b.act
  BY Kept DEF InBook
<1>2. QED
  BY <1>1, NoneOpened DEF Opens

LEMMA CheckEntryTracked ==
  ASSUME Types, Agree, Tracked, CheckEntry
  PROVE  Tracked'
<1>1. /\ Runs /\ Running("check") /\ Entry \in Ids
      /\ \/ Left(Tail(work))
         \/ Left(<<>>)
         \/ Entry \in mem.pend /\ Committed(CancelEntry(Decision(-1), Entry), FALSE)
         \/ /\ disk' = disk /\ mem' = mem
            /\ work' = <<Item("fill", Entry, "mark", now, TRUE)>> \o Tail(work)
  BY CheckEntryIs
<1>2. work # <<>> /\ Head(work).op = "check" /\ "check" \in LateOps /\ now \in Nat /\ work \in Seq(Items) /\ up /\ now' = now
  BY <1>1, HeadIs DEF LateOps, Types, Runs
<1>3. CASE Left(Tail(work)) \/ Left(<<>>)
  <2>1. ASSUME NEW items, items = Tail(work) \/ items = <<>>, Left(items) PROVE Tracked'
    BY <1>1, <1>2, <2>1, LeftMute
  <2>2. QED
    BY <1>3, <2>1
<1>4. CASE Committed(CancelEntry(Decision(-1), Entry), FALSE)
  BY <1>1, <1>2, <1>4, CancelTracked
<1>5. CASE disk' = disk /\ mem' = mem /\ work' = <<Item("fill", Entry, "mark", now, TRUE)>> \o Tail(work)
  <2> DEFINE x == Item("fill", Entry, "mark", now, TRUE)
             v == <<x>> \o Tail(work)
  <2>1. x \in Items /\ x.op = "fill"
    BY <1>1, <1>2, MarkItem
  <2>2. Listed(work) = {} /\ Mute(Tail(work)) /\ Tail(work) \in Seq(Items)
    BY <1>2, HeadMute
  <2> HIDE DEF x
  <2>3. /\ Len(v) = Len(work) /\ Len(work) \in Nat /\ v[1] = x
        /\ \A k \in 1..Len(work) : k # 1 => v[k] = work[k]
    BY <1>2, <2>1, HeadChanged
  <2>4. work' = v
    BY <1>5 DEF x
  <2> HIDE DEF v
  <2>5. /\ Len(Tail(work)) = Len(work) - 1
        /\ \A k \in 1..Len(Tail(work)) : Tail(work)[k] = work[k + 1]
    BY <1>2, TailIs
  <2>6. ASSUME NEW k \in 1..Len(v) PROVE v[k].op \notin Posts \cup {"stamp"}
    <3>1. CASE k = 1
      BY <2>1, <2>3, <3>1 DEF Posts
    <3>2. CASE k # 1
      <4>1. k - 1 \in 1..Len(Tail(work)) /\ (k - 1) + 1 = k
        BY <2>3, <2>5, <3>2
      <4>2. v[k] = Tail(work)[k - 1]
        BY <2>3, <2>5, <3>2, <4>1
      <4>3. QED
        BY <2>2, <4>1, <4>2 DEF Mute
    <3>3. QED
      BY <3>1, <3>2
  <2>7. Mute(work')
    BY <2>4, <2>6 DEF Mute
  <2>8. QED
    BY <1>2, <1>5, <2>2, <2>7, LeftTracked
<1>6. QED
  BY <1>1, <1>3, <1>4, <1>5

LEMMA CancelItemTracked ==
  ASSUME Types, Agree, Tracked, CancelItem
  PROVE  Tracked'
<1>1. /\ Runs /\ Running("cancel") /\ Entry \in Ids
      /\ Left(<<>>) \/ Committed(CancelEntry(Decision(-1), Entry), FALSE)
  BY CancelItemIs
<1>2. Head(work).op = "cancel"
  BY <1>1, HeadIs
<1>3. CASE Left(<<>>)
  <2>1. ASSUME NEW items, items = <<>>, Left(items) PROVE Tracked'
    BY <1>1, <1>2, <2>1, LeftMute
  <2>2. QED
    BY <1>3, <2>1
<1>4. CASE Committed(CancelEntry(Decision(-1), Entry), FALSE)
  BY <1>1, <1>2, <1>4, CancelTracked
<1>5. QED
  BY <1>1, <1>3, <1>4

LEMMA ExitPositionTracked ==
  ASSUME Types, Agree, Tracked, ExitPosition
  PROVE  Tracked'
<1>1. /\ Runs /\ (Running("exit") \/ Running("close"))
      /\ \/ Left(Tail(work))
         \/ Entry \in mem.open /\ Entry \in Ids /\ \E pnl \in Outcomes : Committed(CloseAt(Book, Entry, pnl, now), TRUE)
  BY ExitPositionIs
<1>2. Head(work).op \in LateOps /\ work # <<>> /\ up /\ now \in Nat
  BY Zenon, <1>1, HeadIs DEF LateOps, Types
<1>3. CASE Left(Tail(work))
  <2>1. ASSUME NEW items, items = Tail(work), Left(items) PROVE Tracked'
    BY <1>1, <1>2, <2>1, LeftMute
  <2>2. QED
    BY <1>3, <2>1
<1>4. ASSUME Entry \in mem.open, Entry \in Ids, NEW pnl \in Outcomes, Committed(CloseAt(Book, Entry, pnl, now), TRUE)
      PROVE  Tracked'
  <2> DEFINE b == Book
             i == Entry
             r == CloseAt(b, i, pnl, now)
  <2>1. InBook(b)
    BY <1>2, BookIs DEF Outcomes
  <2>2. Drops(work) = {} /\ Listed(work) = {}
    BY Zenon, <1>2, NoDrops, HeadMute
  <2>3. Committed(r, TRUE) /\ i \in Ids /\ i \in mem.open
    BY <1>4
  <2> HIDE DEF b, i
  <2>4. Tallied(b) /\ Sound(b) /\ Told(b, b, now, work) /\ Posted(b) = {} /\ b \in Books
    BY <1>2, <2>1, <2>2, BookTallied
  <2>5. i \in b.open /\ b.rows[i].st = "open"
    BY <2>1, <2>3, <2>4 DEF InBook, Sound, SoundAt
  <2>6. Uncounted(b) = {}
    BY <2>2, <2>4, <2>5 DEF Told
  <2>7. Lasts(b)
    <3>1. ~Bare(b)
      BY <2>3, <2>5 DEF Bare, Standing
    <3>2. QED
      BY <2>4, <2>6, <3>1 DEF Lasts, Tallied, Clean, Settled, Sealed
  <2>8. Acts(b, r, now) /\ SameScores(b, r)
    BY <1>2, <2>3, <2>4, <2>5, CloseActs
  <2> HIDE DEF r
  <2>9. Lasts(r)
    BY <1>2, <2>4, <2>7, <2>8, LastsOn
  <2>10. ASSUME NEW loud \in BOOLEAN, Committed(r, loud) PROVE Tracked'
    BY <1>1, <1>2, <2>4, <2>9, <2>10, TransactionTracked
  <2>11. QED
    BY <2>3, <2>10
<1>5. QED
  BY <1>1, <1>3, <1>4

----------------------------------------------------------------------------
(* Steps of the risk manager: what they close without a receipt closes now,  *)
(* and then nothing is held any more.                                       *)

LEMMA RiskTold ==
  ASSUME NEW b, Clean(b, now), Sound(b), NEW w, Told(b, b, now, w),
         NEW r, Acts(b, r, now), Sweeps(b, r), r.open \subseteq b.open, r.pend \subseteq b.pend,
         NEW E, r.rec = b.rec \cup E, NEW v, Listed(w) \subseteq E \cup Listed(v),
         Listed(v) # {} => Listed(w) # {} \/ \E j \in Ids : b.rows[j].st = "open"
  PROVE  Told(r, r, now, v)
<1> SUFFICES ASSUME NEW u \in Uncounted(r)
             PROVE  /\ u \in Listed(v) \/ (r.open = {} /\ r.pend = {})
                    /\ Listed(v) # {} => u \in Listed(v) \/ r.rows[u].end = now
  BY DEF Told
<1>1. u \in Ids /\ r.rows[u].st = "closed" /\ u \notin b.rec /\ u \notin E
  BY DEF Uncounted, IdsOf
<1>2. \/ b.rows[u].st = "closed" /\ r.rows[u] = b.rows[u]
      \/ b.rows[u].st = "open" /\ r.rows[u].end = now
  BY <1>1, ClosedOn DEF Acts
<1>3. CASE b.rows[u].st = "closed" /\ r.rows[u] = b.rows[u]
  <2>1. u \in Uncounted(b)
    BY <1>1, <1>3 DEF Uncounted, IdsOf
  <2>2. CASE u \in Listed(w)
    BY <1>1, <2>2
  <2>3. CASE u \notin Listed(w)
    <3>1. b.open = {} /\ b.pend = {} /\ (Listed(w) # {} => b.rows[u].end = now)
      BY <2>1, <2>3 DEF Told
    <3>2. \A j \in Ids : b.rows[j].st # "open"
      BY <3>1 DEF Sound, SoundAt
    <3>3. QED
      BY <1>3, <3>1, <3>2
  <2>4. QED
    BY <2>2, <2>3
<1>4. CASE b.rows[u].st = "open" /\ r.rows[u].end = now
  <2>1. r.rows # b.rows
    BY <1>1, <1>4
  <2>2. QED
    BY <1>4, <2>1 DEF Sweeps
<1>5. QED
  BY <1>2, <1>3, <1>4

LEMMA DueOn ==
  ASSUME NEW b, NEW r, NEW t, Clean(b, t), Alters(b, r, t), NEW w \in Seq(Items), AllDue(b, t, w),
         \A k \in 1..Len(w) : w[k].op # "stamp"
  PROVE  AllDue(r, t, w) /\ (Lined(b, w) => Lined(r, w))
<1>1. ASSUME NEW k \in 1..Len(w), w[k].op \in Posts PROVE w[k].id \in Ids
  <2>1. w[k] \in Items
    OBVIOUS
  <2>2. QED
    BY <1>1, <2>1, ItemFields DEF Posts, EntryOps
<1>2. ASSUME NEW k \in 1..Len(w), w[k].op \in Posts
      PROVE  b.rows[w[k].id].st = "closed" /\ r.rows[w[k].id] = b.rows[w[k].id]
  <2>1. b.rows[w[k].id].st = "closed"
    BY <1>2 DEF AllDue, Due
  <2>2. QED
    BY <1>1, <1>2, <2>1, ClosedOn
<1>3. AllDue(r, t, w)
  <2>1. ASSUME NEW k \in 1..Len(w) PROVE Due(r, t, w[k])
    BY <1>2 DEF AllDue, Due, Posts
  <2>2. QED
    BY <2>1 DEF AllDue
<1>4. Lined(b, w) => Lined(r, w)
  BY <1>2 DEF Lined
<1>5. QED
  BY <1>3, <1>4

LEMMA RiskTracked ==
  ASSUME Types, Runs, NEW b \in Books, Tallied(b), Sound(b), Posted(b) = {}, Told(b, b, now, work), AllDue(b, now, work),
         Lined(b, work), NEW E,
         \/ Head(work).op = "trade" /\ E = {Entry}
         \/ Head(work).op = "tick" /\ E = {},
         NEW r, Tallied(r), Acts(b, r, now), Sweeps(b, r), r.open \subseteq b.open, r.pend \subseteq b.pend,
         r.rec = b.rec \cup E, NEW loud \in BOOLEAN, Committed(r, loud)
  PROVE  Tracked'
<1> DEFINE w == Tail(work)
           items == Trades(r, loud) \o w
           v == work'
<1>1. /\ Whole(r) /\ disk' = Durable(r) /\ mem' = Volatile(r) /\ NextWork(items) /\ now' = now /\ now \in Nat
      /\ work \in Seq(Items) /\ work # <<>> /\ r \in Books
  BY DEF Committed, Runs, Types, Whole
<1>2. w \in Seq(Items) /\ \A k \in 1..Len(w) : Follows(Head(work).op, w[k].op)
  BY <1>1, Behind
<1>3. \A k \in 1..Len(w) : w[k].op \notin {"missed", "stamp"}
  BY Zenon, <1>2 DEF Follows, LateOps
<1>4. /\ AllDue(b, now, w) /\ Lined(b, w)
      /\ \A u \in Listed(work) : u \in Listed(w) \/ (u = Head(work).id /\ Head(work).op \in Posts)
      /\ Listed(w) \subseteq Listed(work)
  BY <1>1, TailTracks
<1>5. Clean(b, now) /\ Clean(r, now) /\ Counts(r) /\ Alters(b, r, now) /\ Announces(b, r, now)
  BY DEF Tallied, Acts
<1> HIDE DEF w
<1>6. AllDue(r, now, w)
  BY <1>2, <1>3, <1>4, <1>5, DueOn
<1>7. Sealed(r, now)
  BY <1>1, <1>5, SettledOn DEF Sealed
<1>8. AllDue(r, now, items) /\ Lined(r, items) /\ Listed(items) = Posted(r) \cup Listed(w)
  BY <1>1, <1>2, <1>3, <1>6, <1>7, TradesTrack
<1> HIDE DEF items
<1>9. AllDue(r, now, v) /\ Lined(r, v) /\ Listed(v) = Posted(r) \cup Listed(w)
  BY <1>1, <1>8, NextTracks
<1> HIDE DEF v
<1>10. Listed(work) \subseteq E \cup Listed(v)
  BY <1>4, <1>9 DEF Posts, Entry
<1>11. ASSUME Listed(v) # {} PROVE Listed(work) # {} \/ \E j \in Ids : b.rows[j].st = "open"
  <2>1. CASE Listed(w) # {}
    BY <1>4, <2>1
  <2>2. CASE Posted(r) # {}
    <3>1. Posted(r) \subseteq Ids
      BY <1>1, PostedIs
    <3>2. QED
      BY <1>5, <2>2, <3>1 DEF Announces
  <2>3. QED
    BY <1>9, <1>11, <2>1, <2>2
<1>12. Told(r, r, now, v)
  BY <1>5, <1>10, <1>11, RiskTold
<1>13. QED
  BY <1>1, <1>5, <1>9, <1>12, TrackMade DEF v

LEMMA RiskStepTracked ==
  ASSUME Types, Agree, Tracked, RiskStep, ~torn'
  PROVE  Tracked'
<1>1. /\ Runs /\ (Running("trade") \/ Running("tick")) /\ (Running("trade") => Entry \in Ids)
      /\ \E r : RiskResult(r) /\ Committed(r, FALSE)
  BY RiskStepIs
<1>2. PICK r : RiskResult(r) /\ Committed(r, FALSE)
  BY <1>1
<1>3. PICK m \in Outcomes : \/ Running("trade") /\ r = OnTradeClosed([Book EXCEPT !.mkt = m], Entry, now)
                            \/ Running("tick") /\ r = Tick([Book EXCEPT !.mkt = m], now)
  BY <1>2 DEF RiskResult
<1> DEFINE b == [Book EXCEPT !.mkt = m]
<1>4. up /\ now \in Nat /\ work \in Seq(Items) /\ work # <<>>
  BY <1>1 DEF Runs, Types
<1>5. InBook(b)
  BY <1>4, BookIs
<1>6. \/ Running("trade") /\ r = OnTradeClosed(b, Entry, now) /\ Head(work).op = "trade" /\ Entry \in Ids
      \/ Running("tick") /\ r = Tick(b, now) /\ Head(work).op = "tick"
  BY <1>1, <1>3 DEF Running
<1> HIDE DEF b
<1>7. Drops(work) = {}
  BY Zenon, <1>4, <1>6, NoDrops DEF LateOps
<1>8. /\ Tallied(b) /\ Sound(b) /\ Told(b, b, now, work) /\ Posted(b) = {} /\ b \in Books /\ Whole(b)
      /\ AllDue(b, now, work) /\ Lined(b, work)
  BY <1>4, <1>5, <1>7, BookTallied
<1>9. ~r.bad
  BY <1>2 DEF Committed, Whole
<1>10. ASSUME NEW E, NEW loud \in BOOLEAN, Committed(r, loud),
              \/ Head(work).op = "trade" /\ E = {Entry}
              \/ Head(work).op = "tick" /\ E = {},
              Tallied(r), Acts(b, r, now), Sweeps(b, r), r.open \subseteq b.open, r.pend \subseteq b.pend,
              r.rec = b.rec \cup E
       PROVE  Tracked'
  BY <1>1, <1>8, <1>10, RiskTracked
<1>11. CASE r = OnTradeClosed(b, Entry, now) /\ Head(work).op = "trade" /\ Entry \in Ids
  <2> DEFINE i == Entry
  <2>1. i = Head(work).id /\ Head(work).op \in Posts
    BY <1>11 DEF Entry, Posts
  <2>2. /\ Due(b, now, Head(work))
        /\ \A u \in Listed(work) : b.rows[Head(work).id].end <= b.rows[u].end \/ u = Head(work).id
    BY <1>4, <1>8, <2>1, TailTracks
  <2>3. b.rows[i].st = "closed" /\ b.rows[i].end = now
    BY <1>11, <2>1, <2>2 DEF Due
  <2>4. i \in Listed(work)
    <3>1. work[1].op \in Posts /\ 1 \in 1..Len(work) /\ work[1].id = i
      BY <1>4, <2>1, TailIs
    <3>2. QED
      BY <3>1, ListedIs
  <2>5. i \in Ids
    BY <1>11
  <2> HIDE DEF i
  <2>6. ASSUME NEW u \in Uncounted(b) PROVE b.rows[i].end <= b.rows[u].end
    <3>1. u \in Listed(work) \/ b.rows[u].end = now
      BY <1>8, <2>4 DEF Told
    <3>2. b.rows[i].end <= b.rows[i].end
      BY <1>4, <2>3
    <3>3. QED
      BY <1>4, <2>1, <2>2, <2>3, <3>1, <3>2
  <2>7. r = OnTradeClosed(b, i, now)
    BY <1>11 DEF i
  <2>8. /\ Tallied(r) /\ Acts(b, r, now) /\ r.rec = b.rec \cup {i}
        /\ r.open \subseteq b.open /\ r.pend \subseteq b.pend /\ Sweeps(b, r)
    BY <1>4, <1>8, <1>9, <2>3, <2>5, <2>6, <2>7, CountTallied
  <2>9. QED
    BY <1>2, <1>10, <1>11, <2>8 DEF i
<1>12. CASE r = Tick(b, now) /\ Head(work).op = "tick"
  <2>1. /\ Tallied(r) /\ Acts(b, r, now) /\ r.rec = b.rec
        /\ r.open \subseteq b.open /\ r.pend \subseteq b.pend /\ Sweeps(b, r)
    BY <1>4, <1>8, <1>9, <1>12, TickTallied
  <2>2. r.rec = b.rec \cup {}
    BY <2>1
  <2>3. QED
    BY <1>2, <1>10, <1>12, <2>1, <2>2
<1>13. QED
  BY <1>6, <1>11, <1>12

\* the process ends, its handler with it
LEMMA DownTracked ==
  ASSUME Tracked, disk' = disk, now' = now, work' = <<>>, ~up'
  PROVE  Tracked'
<1>1. Clean(disk, now) /\ Counts(disk)
  BY DEF Tracked
<1>2. AllDue(disk, now, <<>>) /\ Lined(disk, <<>>)
  BY DEF AllDue, Lined
<1> DEFINE d == disk'
           w == work'
<1>3. Clean(d, now) /\ Counts(d) /\ AllDue(d, now, w) /\ Lined(d, w)
  BY <1>1, <1>2
<1> HIDE DEF d, w
<1>4. QED
  BY <1>3 DEF Tracked, d, w

LEMMA StartTracked ==
  ASSUME Types, now' = now, work # <<>>, NEW b \in Books, Tallied(b), Sound(b), Told(b, b, now, work), AllDue(b, now, work),
         Lined(b, work), NEW E,
         \/ Head(work).op = "missed" /\ E = {Entry}
         \/ Head(work).op = "first tick" /\ E = {},
         NEW r, Whole(r), Tallied(r), Acts(b, r, now), Sweeps(b, r), r.open \subseteq b.open, r.pend \subseteq b.pend,
         r.rec = b.rec \cup E, disk' = Durable(r), mem' = Volatile(r), NextWork(Tail(work))
  PROVE  Tracked'
<1> DEFINE w == Tail(work)
           v == work'
<1>1. now \in Nat /\ work \in Seq(Items) /\ r \in Books /\ NextWork(w)
  BY Zenon DEF Types, Whole
<1>2. w \in Seq(Items) /\ \A k \in 1..Len(w) : Follows(Head(work).op, w[k].op)
  BY Zenon, Behind
<1>3. \A k \in 1..Len(w) : w[k].op # "stamp"
  BY Zenon, <1>2 DEF Follows, LateOps
<1>4. /\ AllDue(b, now, w) /\ Lined(b, w)
      /\ \A u \in Listed(work) : u \in Listed(w) \/ (u = Head(work).id /\ Head(work).op \in Posts)
      /\ Listed(w) \subseteq Listed(work)
  BY Zenon, <1>1, TailTracks
<1>5. Clean(b, now) /\ Clean(r, now) /\ Counts(r) /\ Alters(b, r, now) /\ Announces(b, r, now)
  BY Zenon DEF Tallied, Acts
<1> HIDE DEF w
<1>6. AllDue(r, now, w) /\ Lined(r, w)
  BY Zenon, <1>2, <1>3, <1>4, <1>5, DueOn
<1>7. AllDue(r, now, v) /\ Lined(r, v) /\ Listed(v) = Listed(w)
  BY Zenon, <1>1, <1>6, NextTracks
<1> HIDE DEF v
<1>8. Listed(work) \subseteq E \cup Listed(v)
  BY Zenon, <1>4, <1>7 DEF Posts, Entry
<1>9. Listed(v) # {} => Listed(work) # {}
  BY Zenon, <1>4, <1>7
<1>10. Told(r, r, now, v)
  BY Zenon, <1>5, <1>8, <1>9, RiskTold
<1>11. QED
  BY Zenon, <1>5, <1>7, <1>10, TrackMade DEF v

LEMMA BootRiskTracked ==
  ASSUME Types, Agree, Tracked, BootRisk
  PROVE  Tracked'
<1>1. /\ Types' /\ up /\ work # <<>> /\ now' = now
      /\ Running("missed") \/ Running("first tick")
      /\ Running("missed") => Entry \in Ids
      /\ \/ ~up' /\ disk' = disk /\ mem' = Down /\ work' = <<>>
         \/ /\ up' /\ NextWork(Tail(work))
            /\ \E r : StartResult(r) /\ Whole(r) /\ disk' = Durable(r) /\ mem' = Volatile(r)
  BY Zenon, BootRiskIs
<1>2. now \in Nat /\ work \in Seq(Items)
  BY DEF Types
<1>3. CASE ~up' /\ disk' = disk /\ work' = <<>>
  BY Zenon, <1>1, <1>3, DownTracked
<1>4. ASSUME NextWork(Tail(work)), NEW r, StartResult(r), Whole(r), disk' = Durable(r), mem' = Volatile(r)
      PROVE  Tracked'
  <2>1. PICK m \in Outcomes : \/ Running("missed") /\ r = OnTradeClosed([Book EXCEPT !.mkt = m], Entry, now)
                              \/ Running("first tick") /\ r = Tick([Book EXCEPT !.mkt = m], now)
    BY Zenon, <1>4 DEF StartResult
  <2> DEFINE b == [Book EXCEPT !.mkt = m]
             i == Entry
  <2>2. InBook(b)
    BY Zenon, <1>1, BookIs
  <2>3. \/ r = OnTradeClosed(b, i, now) /\ Head(work).op = "missed" /\ i \in Ids
        \/ r = Tick(b, now) /\ Head(work).op = "first tick"
    BY Zenon, <1>1, <2>1 DEF Running
  <2>4. i = Entry /\ i = Head(work).id
    BY DEF Entry
  <2> HIDE DEF b, i
  <2>5. Drops(work) = {}
    BY Zenon, <1>1, <2>3, NoDrops
  <2>6. /\ Tallied(b) /\ Sound(b) /\ Told(b, b, now, work) /\ b \in Books /\ Whole(b)
        /\ AllDue(b, now, work) /\ Lined(b, work)
    BY Zenon, <1>1, <2>2, <2>5, BookTallied
  <2>7. ~r.bad
    BY <1>4 DEF Whole
  <2>8. CASE r = OnTradeClosed(b, i, now) /\ Head(work).op = "missed" /\ i \in Ids
    <3>1. Head(work).op \in Posts
      BY <2>8 DEF Posts
    <3>2. /\ Due(b, now, Head(work))
          /\ \A u \in Listed(work) : b.rows[Head(work).id].end <= b.rows[u].end \/ u = Head(work).id
      BY Zenon, <1>1, <1>2, <2>6, <3>1, TailTracks
    <3>3. b.rows[i].st = "closed"
      BY <2>4, <3>1, <3>2 DEF Due
    <3>4. i \in Listed(work)
      <4>1. work[1].op \in Posts /\ 1 \in 1..Len(work) /\ work[1].id = i
        BY Zenon, <1>1, <1>2, <2>4, <3>1, TailIs
      <4>2. QED
        BY <4>1, ListedIs
    <3>5. b.rows[i].end <= now /\ b.rows[i].end \in Nat
      BY <2>6, <2>8, <3>3, BookFields, RowFields DEF Tallied, Clean
    <3>6. ASSUME NEW u \in Uncounted(b) PROVE b.rows[i].end <= b.rows[u].end
      <4>1. u \in Listed(work) \/ b.rows[u].end = now
        BY <2>6, <3>4 DEF Told
      <4>2. b.rows[i].end <= b.rows[i].end
        BY <3>5
      <4>3. QED
        BY <2>4, <3>2, <3>5, <4>1, <4>2
    <3>7. /\ Tallied(r) /\ Acts(b, r, now) /\ r.rec = b.rec \cup {i}
          /\ r.open \subseteq b.open /\ r.pend \subseteq b.pend /\ Sweeps(b, r)
      BY <1>2, <2>6, <2>7, <2>8, <3>3, <3>6, CountTallied
    <3>8. QED
      BY Zenon, <1>1, <1>4, <2>4, <2>6, <2>8, <3>7, StartTracked
  <2>9. CASE r = Tick(b, now) /\ Head(work).op = "first tick"
    <3>1. /\ Tallied(r) /\ Acts(b, r, now) /\ r.rec = b.rec
          /\ r.open \subseteq b.open /\ r.pend \subseteq b.pend /\ Sweeps(b, r)
      BY Zenon, <1>2, <2>6, <2>7, <2>9, TickTallied
    <3>2. r.rec = b.rec \cup {}
      BY <3>1
    <3>3. QED
      BY Zenon, <1>1, <1>4, <2>6, <2>9, <3>1, <3>2, StartTracked
  <2>10. QED
    BY Zenon, <2>3, <2>8, <2>9
<1>5. QED
  BY Zenon, <1>1, <1>3, <1>4

----------------------------------------------------------------------------
(* Handlers that begin, commands, the process.                              *)

LEMMA NothingListed == Listed(<<>>) = {} /\ Mute(<<>>)
BY DEF Listed, Mute

LEMMA MuteNext ==
  ASSUME NEW items, Mute(items), NextWork(items)
  PROVE  Mute(work')
BY LateMute DEF NextWork

LEMMA IdleTracked ==
  ASSUME NEW D, NEW M, NEW w, D = disk', M = mem', w = work', now' = now, Clean(D, now), Counts(D),
         AllDue(D, now, w), Lined(D, w), Listed(w) = {},
         \A u \in Uncounted(D) : M.open = {} /\ M.pend = {}
  PROVE  Tracked'
<1>1. Told(D, M, now, w)
  BY DEF Told
<1>2. QED
  BY <1>1 DEF Tracked

LEMMA PriceTracked ==
  ASSUME Types, Tracked, TapePrint \/ Candle \/ Timer \/ OwnExit
  PROVE  Tracked'
<1>1. ASSUME NEW items, NEW via, NEW time, Begins, Left(items), AllLate(items) \/ Offers(items, via, time)
      PROVE  Tracked'
  <2>1. Mute(items)
    BY Zenon, <1>1 DEF Offers, AllLate, Mute, LateOps, Posts
  <2>2. Mute(work')
    BY <1>1, <2>1, MuteNext DEF Left
  <2>3. Listed(work) = {}
    BY <1>1, NothingListed DEF Begins
  <2>4. QED
    BY <1>1, <2>2, <2>3, LeftTracked DEF Left, Begins
<1>2. ASSUME NEW via, Begins, \E items : \E time \in 0..now : Left(items) /\ Offers(items, via, time)
      PROVE  Tracked'
  BY <1>1, <1>2
<1>3. CASE TapePrint
  BY <1>2, <1>3, TapePrintIs
<1>4. CASE Candle
  BY <1>2, <1>4, CandleIs
<1>5. ASSUME Begins, \E items : Left(items) /\ AllLate(items)
      PROVE  Tracked'
  BY <1>1, <1>5
<1>6. CASE Timer
  BY <1>5, <1>6, TimerIs
<1>7. CASE OwnExit
  BY <1>5, <1>7, OwnExitIs
<1>8. QED
  BY <1>3, <1>4, <1>6, <1>7

\* an idle process: what is uncounted, nothing is held
LEMMA IdleTold ==
  ASSUME Tracked, up, work = <<>>
  PROVE  \A u \in Uncounted(disk) : mem.open = {} /\ mem.pend = {}
BY NothingListed DEF Tracked, Told

LEMMA CloseAllTracked ==
  ASSUME Types, Tracked, NEW halt \in BOOLEAN, CloseAllCommand(halt)
  PROVE  Tracked'
<1>1. /\ Begins /\ Untouched /\ HaltedOnly
      /\ \E items : NextWork(items) /\ Cancels(items)
  BY CloseAllIs
<1> DEFINE D == disk'
           M == mem'
           w == work'
<1>2. /\ D.rows = disk.rows /\ D.rec = disk.rec /\ D.resets = disk.resets
      /\ M.open = mem.open /\ M.pend = mem.pend /\ SameScores(disk, D) /\ now' = now /\ now \in Nat
  BY <1>1 DEF Untouched, HaltedOnly, SameScores, Begins, Types
<1>3. Mute(w)
  <2>1. PICK items : NextWork(items) /\ Cancels(items)
    BY <1>1
  <2>2. Mute(items)
    BY Zenon, <2>1 DEF Cancels, Mute, LateOps, Posts
  <2>3. QED
    BY <2>1, <2>2, MuteNext
<1>a. D = disk' /\ M = mem' /\ w = work'
  OBVIOUS
<1> HIDE DEF D, M, w
<1>4. Alters(disk, D, now) /\ NoneMade(disk, D)
  BY <1>2 DEF Alters, Evolves, NoneMade
<1>5. Clean(disk, now) /\ Counts(disk)
  BY DEF Tracked
<1>6. Clean(D, now) /\ Counts(D)
  BY <1>2, <1>4, <1>5, CleanOn, CountsOn
<1>7. Uncounted(D) = Uncounted(disk)
  BY <1>2 DEF Uncounted, IdsOf
<1>8. \A u \in Uncounted(D) : M.open = {} /\ M.pend = {}
  BY <1>1, <1>2, <1>7, IdleTold DEF Begins
<1>9. AllDue(D, now, w) /\ Lined(D, w) /\ Listed(w) = {}
  BY <1>3, MuteIs
<1>10. QED
  BY <1>2, <1>a, <1>6, <1>8, <1>9, IdleTracked

LEMMA RiskResetTracked ==
  ASSUME Types, Tracked, RiskReset
  PROVE  Tracked'
<1>1. Types' /\ Begins /\ Untouched /\ work' = work /\ disk'.saved = FreshState(Book, now)
  BY RiskResetIs
<1> DEFINE D == disk'
           M == mem'
           w == work'
<1>2. /\ D.rows = disk.rows /\ D.rec = disk.rec /\ D.resets = disk.resets
      /\ M.open = mem.open /\ M.pend = mem.pend /\ now' = now /\ now \in Nat /\ w = <<>> /\ up /\ work = <<>>
  BY <1>1 DEF Untouched, Begins, Types
<1>3. D.saved \in RiskState /\ D.saved.seen = D.resets /\ D.saved.base = D.rec
  <2>1. InBook(Book)
    BY <1>2, BookIs DEF Outcomes
  <2>2. Book \in Books /\ Book.rec = disk.rec /\ Book.resets = disk.resets
    BY <2>1 DEF InBook, Whole
  <2>3. QED
    BY <1>1, <1>2, <2>2, FreshIs
<1>a. D = disk' /\ M = mem' /\ w = work'
  OBVIOUS
<1> HIDE DEF D, M, w
<1>4. Clean(disk, now)
  BY DEF Tracked
<1>5. Clean(D, now)
  BY <1>2, <1>3, <1>4 DEF Clean
<1>6. Scored(D) = {}
  BY <1>3 DEF Scored
<1>7. Counts(D)
  BY <1>3, <1>6, CountsNone
<1>8. Uncounted(D) = Uncounted(disk)
  BY <1>2 DEF Uncounted, IdsOf
<1>9. \A u \in Uncounted(D) : M.open = {} /\ M.pend = {}
  BY <1>2, <1>8, IdleTold
<1>10. AllDue(D, now, w) /\ Lined(D, w) /\ Listed(w) = {}
  BY <1>2, NothingListed, MuteIs
<1>11. QED
  BY <1>2, <1>a, <1>5, <1>7, <1>9, <1>10, IdleTracked

LEMMA BookResetTracked ==
  ASSUME Types, Tracked, BookReset
  PROVE  Tracked'
<1>1. /\ Types' /\ Begins
      /\ disk'.rec = disk.rec /\ disk'.saved = disk.saved /\ disk'.resets = disk.resets
      /\ \A i \in Ids : disk'.rows[i] = Archived(disk.rows[i])
      /\ \A k \in 1..Len(work') : work'[k].op \in LateOps \cup {"stamp"}
  BY BookResetIs
<1> DEFINE D == disk'
           M == mem'
           w == work'
<1>2. /\ D.rec = disk.rec /\ D.saved = disk.saved /\ D.resets = disk.resets
      /\ \A i \in Ids : D.rows[i] = Archived(disk.rows[i])
      /\ \A k \in 1..Len(w) : w[k].op \in LateOps \cup {"stamp"}
      /\ now' = now /\ disk.rows \in [Ids -> Row]
  BY <1>1, DiskFields DEF Begins
<1>3. D.saved \in RiskState
  BY <1>2, DiskFields
<1>a. D = disk' /\ M = mem' /\ w = work'
  OBVIOUS
<1> HIDE DEF D, M, w
<1>4. \A i \in Ids : D.rows[i].st \notin Standing
  BY <1>2, ArchivedRow DEF Standing
<1>5. Clean(disk, now)
  BY DEF Tracked
<1>6. \A i \in Ids : i \in D.rec => D.rows[i].st = "archived"
  <2>1. ASSUME NEW i \in Ids, i \in D.rec PROVE D.rows[i].st = "archived"
    <3>1. disk.rows[i].st \in {"closed", "archived"}
      BY <1>2, <1>5, <2>1 DEF Clean
    <3>2. Archived(disk.rows[i]).st = "archived"
      BY <3>1, NoRowType DEF Archived, Row
    <3>3. QED
      BY <1>2, <3>2
  <2>2. QED
    BY <2>1
<1>7. Bare(D)
  BY <1>4 DEF Bare
<1>8. Clean(D, now)
  BY <1>2, <1>4, <1>5, <1>6, <1>7 DEF Clean, Standing
<1>9. Counts(D) /\ Uncounted(D) = {}
  BY <1>3, <1>7, BareScores, CountsNone
<1>10. \A k \in 1..Len(w) : w[k].op \notin Posts
  BY Zenon, <1>2 DEF LateOps, Posts
<1>11. AllDue(D, now, w) /\ Lined(D, w) /\ Listed(w) = {}
  BY <1>7, <1>10 DEF AllDue, Due, Lined, Listed, Posts
<1>12. QED
  BY <1>2, <1>a, <1>8, <1>9, <1>11, IdleTracked

LEMMA VoidPositionTracked ==
  ASSUME Types, Agree, Tracked, VoidPosition
  PROVE  Tracked'
<1>1. /\ Begins /\ work' = work
      /\ disk'.rec = disk.rec /\ disk'.saved = disk.saved /\ disk'.resets = disk.resets
      /\ \E i \in mem.open : /\ i \in Ids /\ disk'.rows[i] = Gone
                             /\ \A j \in Ids \ {i} : disk'.rows[j] = disk.rows[j]
  BY VoidPositionIs
<1>2. PICK i \in mem.open : i \in Ids /\ disk'.rows[i] = Gone /\ \A j \in Ids \ {i} : disk'.rows[j] = disk.rows[j]
  BY <1>1
<1> DEFINE D == disk'
           M == mem'
           w == work'
<1>3. /\ D.rec = disk.rec /\ D.saved = disk.saved /\ D.resets = disk.resets /\ D.rows[i] = Gone
      /\ \A j \in Ids \ {i} : D.rows[j] = disk.rows[j]
      /\ now' = now /\ now \in Nat /\ w = <<>> /\ up /\ work = <<>>
  BY <1>1, <1>2 DEF Begins, Types
<1>a. D = disk' /\ M = mem' /\ w = work'
  OBVIOUS
<1> HIDE DEF D, M, w
<1>4. disk.rows[i].st = "open" /\ Gone.st = "gone"
  BY <1>2, <1>3, NoRowType DEF Agree
<1>5. Alters(disk, D, now) /\ NoneMade(disk, D) /\ SameScores(disk, D)
  <2>1. ASSUME NEW j \in Ids PROVE Evolves(disk.rows[j], D.rows[j], now) /\ (disk.rows[j].st = "none" => D.rows[j] = disk.rows[j])
    BY <1>2, <1>3, <1>4 DEF Evolves
  <2>2. QED
    BY <1>3, <2>1 DEF Alters, NoneMade, SameScores
<1>6. Clean(disk, now) /\ Counts(disk)
  BY DEF Tracked
<1>7. Clean(D, now) /\ Counts(D)
  BY <1>3, <1>5, <1>6, CleanOn, CountsOn
<1>8. ASSUME NEW u \in Uncounted(D) PROVE FALSE
  <2>1. u \in Uncounted(disk)
    BY <1>3, <1>4, <1>8 DEF Uncounted, IdsOf
  <2>2. QED
    BY <1>2, <1>3, <2>1, IdleTold
<1>9. AllDue(D, now, w) /\ Lined(D, w) /\ Listed(w) = {}
  BY <1>3, NothingListed, MuteIs
<1>10. QED
  BY <1>3, <1>a, <1>7, <1>8, <1>9, IdleTracked

LEMMA KillTracked ==
  ASSUME Types, Tracked, Kill
  PROVE  Tracked'
BY KillIs, DownTracked

LEMMA ClockTracked ==
  ASSUME Types, Tracked, Clock
  PROVE  Tracked'
<1>1. work = <<>> /\ work' = <<>> /\ disk' = disk /\ mem' = mem /\ up' = up /\ now' = now + 1 /\ now \in Nat
  BY ClockIs DEF Types
<1>2. Clean(disk, now) /\ Counts(disk)
  BY DEF Tracked
<1>3. Clean(disk, now + 1)
  <2>1. ASSUME NEW i \in Ids, disk.rows[i].st = "closed" PROVE disk.rows[i].end <= now + 1
    <3>1. disk.rows[i].end <= now /\ disk.rows[i].end \in Nat
      BY <1>2, <2>1, DiskFields, RowFields DEF Clean
    <3>2. QED
      BY <1>1, <3>1
  <2>2. QED
    BY <1>2, <2>1 DEF Clean
<1>4. AllDue(disk, now + 1, <<>>) /\ Lined(disk, <<>>) /\ Listed(<<>>) = {}
  BY NothingListed, MuteIs
<1>5. up => Told(disk, mem, now + 1, <<>>)
  BY <1>1, <1>4, IdleTold DEF Told
<1>6. QED
  BY <1>1, <1>2, <1>3, <1>4, <1>5 DEF Tracked

LEMMA BootTracked ==
  ASSUME Types, Tracked, Boot
  PROVE  Tracked'
<1>1. /\ disk' = disk /\ now' = now /\ \A k \in 1..Len(work') : BootItem(work'[k])
      /\ \A j, k \in 1..Len(work') : j < k /\ work'[j].op = "missed" /\ work'[k].op = "missed"
           => disk.rows[work'[j].id].end <= disk.rows[work'[k].id].end
      /\ \A i \in Uncounted(disk) : \E k \in 1..Len(work') : work'[k].op = "missed" /\ work'[k].id = i
  BY Zenon, BootIs
<1> DEFINE w == work'
           M == mem'
<1>2. /\ \A k \in 1..Len(w) : BootItem(w[k])
      /\ \A j, k \in 1..Len(w) : j < k /\ w[j].op = "missed" /\ w[k].op = "missed"
           => disk.rows[w[j].id].end <= disk.rows[w[k].id].end
      /\ \A i \in Uncounted(disk) : \E k \in 1..Len(w) : w[k].op = "missed" /\ w[k].id = i
  BY <1>1
<1>a. w = work' /\ M = mem'
  OBVIOUS
<1> HIDE DEF w, M
<1>3. \A k \in 1..Len(w) : w[k].op \in Posts => w[k].op = "missed" /\ disk.rows[w[k].id].st = "closed"
  BY Zenon, <1>2 DEF BootItem, Posts, Uncounted, IdsOf
<1>4. AllDue(disk, now, w)
  <2>1. \A k \in 1..Len(w) : w[k].op # "trade" /\ w[k].op # "stamp"
    BY Zenon, <1>2 DEF BootItem
  <2>2. QED
    BY <1>3, <2>1 DEF AllDue, Due
<1>5. Lined(disk, w)
  BY <1>2, <1>3 DEF Lined
<1>6. \A u \in Uncounted(disk) : u \in Listed(w)
  BY <1>2, ListedIs DEF Posts
<1>7. Told(disk, M, now, w)
  BY <1>6 DEF Told
<1>8. QED
  BY <1>1, <1>a, <1>4, <1>5, <1>7 DEF Tracked

LEMMA StampTracked ==
  ASSUME Types, Tracked, Stamp
  PROVE  Tracked'
<1>1. /\ Types' /\ Runs /\ Running("stamp")
      /\ disk'.rows = disk.rows /\ disk'.rec = disk.rec /\ disk'.saved = disk.saved
      /\ work' = Tail(work)
  BY StampIs
<1>2. /\ work \in Seq(Items) /\ work # <<>> /\ Head(work).op = "stamp" /\ now' = now
  BY <1>1, HeadIs DEF Types, Runs
<1> DEFINE D == disk'
           M == mem'
           w == work'
<1>3. D.rows = disk.rows /\ D.rec = disk.rec /\ D.saved = disk.saved /\ w = Tail(work)
  BY <1>1
<1>a. D = disk' /\ M = mem' /\ w = work'
  OBVIOUS
<1> HIDE DEF D, M, w
<1>4. D.saved \in RiskState
  BY <1>3, DiskFields
<1>5. Bare(disk)
  <2>1. AllDue(disk, now, work) /\ Lined(disk, work)
    BY DEF Tracked
  <2>2. Due(disk, now, Head(work))
    BY <1>2, <2>1, TailTracks
  <2>3. QED
    BY <1>2, <2>2 DEF Due
<1>6. Bare(D)
  BY <1>3, <1>5 DEF Bare
<1>7. Clean(disk, now)
  BY DEF Tracked
<1>8. Clean(D, now)
  BY <1>3, <1>6, <1>7 DEF Clean
<1>9. Counts(D) /\ Uncounted(D) = {}
  BY <1>4, <1>6, BareScores, CountsNone
<1>10. Mute(w)
  <2>1. \A k \in 1..Len(Tail(work)) : Follows(Head(work).op, Tail(work)[k].op)
    BY <1>2, Behind
  <2>2. QED
    BY Zenon, <1>2, <1>3, <2>1 DEF Mute, Follows, LateOps
<1>11. AllDue(D, now, w) /\ Lined(D, w) /\ Listed(w) = {}
  BY <1>10, MuteIs
<1>12. QED
  BY <1>2, <1>a, <1>8, <1>9, <1>11, IdleTracked

LEMMA DropEntryTracked ==
  ASSUME Types, Agree, Tracked, DropEntry
  PROVE  Tracked'
<1>1. /\ Runs /\ mem' = mem /\ Entry \in Ids
      /\ disk'.rec = disk.rec /\ disk'.saved = disk.saved /\ disk'.resets = disk.resets
      /\ \A j \in Ids \ {Entry} : disk'.rows[j] = disk.rows[j]
      /\ \/ /\ Running("drop") /\ disk'.rows[Entry] = Gone
            /\ work' = <<Item("dropped", Entry, "none", 0, TRUE)>> \o Tail(work)
         \/ /\ Running("dropped") /\ disk'.rows[Entry] = disk.rows[Entry]
            /\ work' = Tail(work)
  BY DropEntryIs
<1>2. /\ work \in Seq(Items) /\ work # <<>> /\ now' = now /\ now \in Nat /\ up
      /\ Head(work).op \in {"drop", "dropped"}
  BY <1>1 DEF Types, Runs, Running
<1> DEFINE D == disk'
           v == work'
           i == Entry
<1>3. /\ D.rec = disk.rec /\ D.saved = disk.saved /\ D.resets = disk.resets /\ i \in Ids
      /\ \A j \in Ids \ {i} : D.rows[j] = disk.rows[j]
      /\ \/ /\ Head(work).op = "drop" /\ D.rows[i] = Gone
            /\ v = <<Item("dropped", i, "none", 0, TRUE)>> \o Tail(work)
         \/ D.rows[i] = disk.rows[i] /\ v = Tail(work)
  BY <1>1 DEF Running
<1>a. D = disk' /\ v = work' /\ i = Head(work).id
  BY DEF Entry
<1> HIDE DEF D, v, i
<1>4. Clean(disk, now) /\ Counts(disk) /\ AllDue(disk, now, work) /\ Lined(disk, work) /\ Told(disk, mem, now, work)
  BY <1>2 DEF Tracked
<1>5. Head(work).op = "drop" => disk.rows[i].st = "pending"
  <2>1. Fits(disk, mem, now, Head(work))
    BY <1>2, TailIs DEF Agree
  <2>2. QED
    BY <1>a, <2>1 DEF Fits
<1>6. Alters(disk, D, now) /\ NoneMade(disk, D) /\ SameScores(disk, D)
  <2>1. Gone.st = "gone"
    BY NoRowType
  <2>2. ASSUME NEW j \in Ids PROVE Evolves(disk.rows[j], D.rows[j], now) /\ (disk.rows[j].st = "none" => D.rows[j] = disk.rows[j])
    BY <1>3, <1>5, <2>1 DEF Evolves
  <2>3. QED
    BY <1>3, <2>2 DEF Alters, NoneMade, SameScores
<1>7. Clean(D, now) /\ Counts(D)
  BY <1>2, <1>4, <1>6, CleanOn, CountsOn
<1>8. \A u \in Uncounted(D) : u \in Uncounted(disk) /\ D.rows[u] = disk.rows[u]
  BY <1>3, NoRowType DEF Uncounted, IdsOf
<1>9. \A k \in 1..Len(work) : work[k].op # "stamp"
  <2>1. \A k \in 1..Len(work) : k = 1 \/ \E n \in 1..Len(Tail(work)) : Tail(work)[n] = work[k]
    BY <1>2, OneBefore
  <2>2. \A k \in 1..Len(Tail(work)) : Follows(Head(work).op, Tail(work)[k].op)
    BY <1>2, Behind
  <2>3. Head(work) = work[1]
    BY <1>2, TailIs
  <2>4. QED
    BY Zenon, <1>2, <2>1, <2>2, <2>3 DEF Follows, LateOps
<1>10. AllDue(D, now, work) /\ Lined(D, work)
  BY <1>2, <1>4, <1>6, <1>9, DueOn
<1>11. AllDue(D, now, v) /\ Lined(D, v) /\ Listed(v) = Listed(work)
  <2>1. CASE v = Tail(work)
    BY <1>2, <1>10, <2>1, TailTracks DEF Posts
  <2>2. CASE v = <<Item("dropped", i, "none", 0, TRUE)>> \o Tail(work)
    <3> DEFINE x == Item("dropped", i, "none", 0, TRUE)
    <3>1. x \in Items /\ x.op = "dropped"
      BY <1>3, DroppedItem
    <3>b. v = <<x>> \o Tail(work)
      BY <2>2
    <3> HIDE DEF x
    <3>2. /\ Len(v) = Len(work) /\ Len(work) \in Nat /\ v[1] = x /\ 1 \in 1..Len(work)
          /\ \A k \in 1..Len(work) : k # 1 => v[k] = work[k]
      BY <1>2, <3>1, <3>b, HeadChanged
    <3>3. work[1].op \notin Posts /\ work[1].op # "stamp" /\ x.op \notin Posts /\ x.op # "stamp"
      BY <1>2, <3>1, TailIs DEF Posts
    <3>4. \A k \in 1..Len(v) : k = 1 \/ v[k] = work[k]
      BY <3>2
    <3>5. AllDue(D, now, v)
      BY <1>10, <3>2, <3>3, <3>4 DEF AllDue, Due, Posts
    <3>6. Lined(D, v)
      BY <1>10, <3>2, <3>3, <3>4 DEF Lined
    <3>7. Listed(v) = Listed(work)
      BY <3>2, <3>3, <3>4 DEF Listed
    <3>8. QED
      BY <3>5, <3>6, <3>7
  <2>3. QED
    BY <1>3, <2>1, <2>2
<1>12. Told(D, mem, now, v)
  BY <1>4, <1>8, <1>11 DEF Told
<1>13. QED
  BY <1>1, <1>2, <1>a, <1>7, <1>11, <1>12 DEF Tracked

----------------------------------------------------------------------------
(* The record holds, and with it the rule on cooldowns.                     *)

LEMMA InitTracked == Init => Tracked
<1> SUFFICES ASSUME Init PROVE Tracked
  OBVIOUS
<1> DEFINE f == FreshState(Empty, 0)
<1>1. Types
  BY InitTypes
<1>2. /\ disk = Durable([Empty EXCEPT !.saved = f]) /\ now = 0 /\ work = <<>>
  BY DEF Init
<1>3. f.seen = Empty.resets /\ f.base = Empty.rec
  BY DEF FreshState
<1> HIDE DEF f
<1>4. /\ disk.rows = [i \in Ids |-> NoRow] /\ disk.rec = {} /\ disk.saved = f /\ disk.resets = 0
      /\ f.seen = 0 /\ f.base = {}
  BY <1>2, <1>3 DEF Durable, Empty
<1>5. \A i \in Ids : disk.rows[i].st = "none"
  BY <1>4, NoRowType
<1>6. Bare(disk)
  BY <1>5 DEF Bare, Standing
<1>7. Clean(disk, now)
  BY <1>4, <1>5, <1>6 DEF Clean, Standing
<1>8. Scored(disk) = {} /\ Uncounted(disk) = {}
  BY <1>6, BareScores
<1>9. Counts(disk)
  BY <1>1, <1>8, DiskFields, CountsNone
<1>10. AllDue(disk, now, work) /\ Lined(disk, work)
  BY <1>2, NothingListed, MuteIs
<1>11. Told(disk, mem, now, work)
  BY <1>8 DEF Told
<1>12. QED
  BY <1>7, <1>9, <1>10, <1>11 DEF Tracked

LEMMA TornStays ==
  ASSUME Types, [Next]_vars, ~torn'
  PROVE  ~torn
<1>1. CASE Decide \/ TapePrint \/ Candle \/ OwnExit \/ Timer \/ Clock
  BY <1>1, DecideIs, TapePrintIs, CandleIs, OwnExitIs, TimerIs, ClockIs
<1>2. CASE FillEntry \/ CheckEntry \/ ExitPosition \/ RiskStep \/ CancelItem \/ Stamp \/ DropEntry \/ BootRisk
  BY Zenon, <1>2, FillEntryIs, CheckEntryIs, ExitPositionIs, RiskStepIs, CancelItemIs, StampIs, DropEntryIs, BootRiskIs
<1>3. ASSUME NEW halt \in BOOLEAN, CloseAllCommand(halt) PROVE ~torn
  BY <1>3, CloseAllIs
<1>4. CASE RiskReset \/ BookReset \/ VoidPosition \/ Kill \/ Boot
  BY Zenon, <1>4, RiskResetIs, BookResetIs, VoidPositionIs, KillIs, BootIs
<1>5. CASE UNCHANGED vars
  BY <1>5 DEF vars
<1>6. QED
  BY <1>1, <1>2, <1>3, <1>4, <1>5 DEF Next, Work

LEMMA NextStreaks == Types /\ Agree /\ Streaks /\ [Next]_vars => Streaks'
<1> SUFFICES ASSUME Types, Agree, Streaks, [Next]_vars, ~torn' PROVE Tracked'
  BY DEF Streaks
<1>0. Tracked
  BY TornStays DEF Streaks
<1>1. CASE TapePrint \/ Candle \/ Timer \/ OwnExit
  BY <1>0, <1>1, PriceTracked
<1>2. CASE Decide \/ FillEntry \/ CheckEntry \/ ExitPosition \/ RiskStep \/ CancelItem
  BY <1>0, <1>2, DecideTracked, FillEntryTracked, CheckEntryTracked, ExitPositionTracked, RiskStepTracked, CancelItemTracked
<1>3. CASE Stamp \/ DropEntry \/ BootRisk \/ RiskReset \/ BookReset \/ VoidPosition \/ Kill \/ Boot \/ Clock
  BY <1>0, <1>3, StampTracked, DropEntryTracked, BootRiskTracked, RiskResetTracked, BookResetTracked, VoidPositionTracked,
     KillTracked, BootTracked, ClockTracked
<1>4. ASSUME NEW halt \in BOOLEAN, CloseAllCommand(halt) PROVE Tracked'
  BY <1>0, <1>4, CloseAllTracked
<1>5. CASE UNCHANGED vars
  BY <1>0, <1>5 DEF vars, Tracked
<1>6. QED
  BY <1>1, <1>2, <1>3, <1>4, <1>5 DEF Next, Work

\* Streaks is an invariant: as long as no write of the risk manager has failed,
\* streaks and cooldowns are never less than the closed rows of the table ask
\* for, a close without a receipt waits in the running handler in the order of
\* the closes, and an idle process with such a close holds nothing.
THEOREM StreaksInvariant == Spec => []Streaks
<1>1. Init => Streaks
  BY InitTracked DEF Streaks
<1>2. Types /\ Agree /\ Streaks /\ [Next]_vars => Streaks'
  BY NextStreaks
<1>3. Spec => []Types
  BY TypeInvariant
<1>4. Spec => []Agree
  BY AgreeInvariant
<1>5. QED
  BY <1>1, <1>2, <1>3, <1>4, PTL DEF Spec

LEMMA CoolStep ==
  ASSUME Types, Agree, Tracked, [Next]_vars
  PROVE  CoolOpen
<1>1. ASSUME disk'.act = disk.act PROVE CoolOpen
  BY <1>1, NoneOpened
<1>2. CASE Decide \/ FillEntry
  BY <1>2, DecideTracked, FillEntryTracked
<1>3. CASE CheckEntry \/ ExitPosition \/ CancelItem
  <2>1. SUFFICES ASSUME disk' # disk PROVE CoolOpen
    BY <1>1
  <2>2. /\ up /\ Entry \in Ids
        /\ \/ Committed(CancelEntry(Decision(-1), Entry), FALSE)
           \/ \E pnl \in Outcomes : Committed(CloseAt(Book, Entry, pnl, now), TRUE)
    BY <1>3, <2>1, CheckEntryIs, ExitPositionIs, CancelItemIs DEF Runs, Left
  <2>3. PICK r : /\ r = CancelEntry(Decision(-1), Entry) \/ \E pnl \in Outcomes : r = CloseAt(Book, Entry, pnl, now)
                 /\ Whole(r) /\ disk' = Durable(r)
    BY <2>2 DEF Committed
  <2>4. InBook(Decision(-1)) /\ InBook(Book) /\ now \in Nat
    BY <2>2, BookIs DEF Outcomes, Types
  <2>5. PICK b : InBook(b) /\ (r = CancelEntry(b, Entry) \/ \E pnl \in Outcomes : r = CloseAt(b, Entry, pnl, now))
    BY <2>3, <2>4
  <2>6. ~Opens(b, r)
    BY <2>2, <2>4, <2>5, OpWhole DEF InBook
  <2>7. QED
    BY <2>3, <2>5, <2>6, NotOpened
<1>4. CASE RiskStep \/ BootRisk
  <2>1. SUFFICES ASSUME disk' # disk PROVE CoolOpen
    BY <1>1
  <2>2. PICK r : (RiskResult(r) \/ StartResult(r)) /\ Whole(r) /\ disk' = Durable(r)
    BY Zenon, <1>4, <2>1, RiskStepIs, BootRiskIs DEF Left, Committed
  <2>3. up
    BY Zenon, <1>4, RiskStepIs, BootRiskIs DEF Runs
  <2>4. ~Opens(Book, r)
    BY <2>2, RiskOpensNot DEF Whole
  <2>5. InBook(Book)
    BY <2>3, BookIs DEF Outcomes
  <2>6. QED
    BY <2>2, <2>4, <2>5, NotOpened
<1>5. CASE Stamp \/ RiskReset \/ \E halt \in BOOLEAN : CloseAllCommand(halt)
  BY <1>1, <1>5, StampIs, RiskResetIs, CloseAllIs DEF Untouched
<1>6. CASE BookReset \/ VoidPosition \/ DropEntry
  <2>1. \A i \in Ids : disk'.act[i] \in {"reset", "rejected", disk.act[i]}
    BY <1>6, BookResetIs, VoidPositionIs, DropEntryIs
  <2>2. QED
    BY <2>1, NoneOpened
<1>7. CASE TapePrint \/ Candle \/ OwnExit \/ Timer \/ Clock \/ Kill \/ Boot \/ UNCHANGED vars
  <2>1. disk' = disk
    BY Zenon, <1>7, TapePrintIs, CandleIs, OwnExitIs, TimerIs, ClockIs, KillIs, BootIs DEF Left, vars
  <2>2. QED
    BY <2>1, <1>1
<1>8. QED
  BY <1>2, <1>3, <1>4, <1>5, <1>6, <1>7 DEF Next, Work

\* No position opens while its scanner cools down after CooldownAfter losses in
\* a row, as long as no write of the risk manager has failed: whether the
\* closes were announced one by one, counted by the gate or by a restart after
\* a kill, and whenever the entry was placed. What the gate reads is the
\* streak; that it is the one the table shows is what Streaks adds.
THEOREM NoEntryInCooldownHolds == Spec => NoEntryInCooldown
<1>1. Types /\ Agree /\ Streaks /\ [Next]_vars =>
        [\A i \in Ids : Opened(i) /\ ~torn => ~CoolsDown(ScannerOf[disk'.rows[i].cell])]_vars
  <2>1. ASSUME Types, Agree, Streaks, [Next]_vars, ~torn PROVE CoolOpen
    BY <2>1, CoolStep DEF Streaks
  <2>2. QED
    BY <2>1 DEF CoolOpen
<1>2. Spec => []Types
  BY TypeInvariant
<1>3. Spec => []Agree
  BY AgreeInvariant
<1>4. Spec => []Streaks
  BY StreaksInvariant
<1>5. QED
  BY <1>1, <1>2, <1>3, <1>4, PTL DEF Spec, NoEntryInCooldown
====
