----------------------- MODULE ExchangeExecutor_proofs -----------------------
(***************************************************************************)
(* Theorems about ExchangeExecutor, for every position size and every      *)
(* number of faults, short fills and crashes: type correctness, one order  *)
(* per command, exits never beyond what is held, a truthful ledger,        *)
(* entries only while the paper position is open, and no closed position   *)
(* forgotten between tasks.                                                 *)
(*                                                                         *)
(* IInv is what holds of the tables and the exchange; Remembered is what   *)
(* the memory and the queue of tasks add to it once start() has run.       *)
(***************************************************************************)
EXTENDS ExchangeExecutor, TLAPS, SequenceTheorems, WellFoundedInduction

----------------------------------------------------------------------------
(* Sums.  Induction is over the least number without the property wanted.   *)

\* A nonempty set of natural numbers has a least element.
LEMMA LeastNatural ==
  ASSUME NEW T \in SUBSET Nat, T # {}
  PROVE  \E x \in T : \A y \in T : x <= y
<1>1. PICK x \in T : \A y \in T : ~(<<y, x>> \in OpToRel(<, Nat))
  BY NatLessThanWellFounded, WFMin
<1>2. \A y \in T : ~(y < x)
  BY <1>1 DEF OpToRel
<1>3. QED
  BY <1>2

\* Min picks that element.
LEMMA MinIsLeast ==
  ASSUME NEW T \in SUBSET Nat, T # {}
  PROVE  Min(T) \in T /\ \A y \in T : Min(T) <= y
BY LeastNatural DEF Min

\* What holds at 0 and passes from a number to the next holds up to N.
LEMMA UpTo ==
  ASSUME NEW N \in Nat, NEW T, 0 \in T, \A n \in 0..N : n < N /\ n \in T => n + 1 \in T
  PROVE  \A n \in 0..N : n \in T
<1> DEFINE U == {n \in 0..N : n \notin T}
<1>1. SUFFICES ASSUME U # {} PROVE FALSE
  OBVIOUS
<1>2. U \in SUBSET Nat
  OBVIOUS
<1>3. PICK x \in U : \A y \in U : x <= y
  BY <1>1, <1>2, LeastNatural
<1>4. x # 0 /\ x - 1 \in 0..N /\ x - 1 \notin U
  BY <1>3
<1>5. QED
  BY <1>3, <1>4

SumsOf(f, s) ==
  /\ s \in [0..Len(f) -> Int]
  /\ s[0] = 0
  /\ \A n \in 0..Len(f) : n < Len(f) => s[n + 1] = s[n] + f[n + 1]

\* The partial sums of f exist, and Total is the last of them.
LEMMA TotalIsLastSum ==
  ASSUME NEW f \in Seq(Int)
  PROVE  \E s : SumsOf(f, s) /\ Total(f) = s[Len(f)]
<1> DEFINE N == Len(f)
           Part(k, s) == s \in [0..k -> Int] /\ s[0] = 0 /\ \A n \in 0..k : n < k => s[n + 1] = s[n] + f[n + 1]
           T == {k \in 0..N : \E s : Part(k, s)}
<1>0. N \in Nat /\ \A n \in 1..N : f[n] \in Int
  OBVIOUS
<1>1. 0 \in T
  <2>1. Part(0, [n \in 0..0 |-> 0])
    OBVIOUS
  <2>2. 0 \in 0..N
    BY <1>0
  <2> HIDE DEF Part
  <2>3. QED
    BY <2>1, <2>2
<1>2. ASSUME NEW k \in 0..N, k < N, k \in T PROVE k + 1 \in T
  <2>1. PICK s : Part(k, s)
    BY <1>2
  <2> DEFINE s1 == [n \in 0..(k + 1) |-> IF n = k + 1 THEN s[k] + f[k + 1] ELSE s[n]]
  <2>2. k \in Nat /\ k + 1 \in 1..N /\ f[k + 1] \in Int /\ s[k] \in Int
    BY <2>1, <1>0, <1>2
  <2>3. s1 \in [0..(k + 1) -> Int] /\ s1[0] = 0
    BY <2>1, <2>2
  <2>4. ASSUME NEW n \in 0..(k + 1), n < k + 1 PROVE s1[n + 1] = s1[n] + f[n + 1]
    <3>1. n \in 0..k /\ n + 1 \in 0..(k + 1) /\ s1[n] = s[n]
      BY <2>2, <2>4
    <3>2. CASE n = k
      BY <3>1, <3>2, <2>2
    <3>3. CASE n < k
      BY <3>1, <3>3, <2>1, <2>2
    <3>4. QED
      BY <3>1, <3>2, <3>3, <2>2
  <2>5. Part(k + 1, s1)
    BY <2>3, <2>4
  <2> HIDE DEF Part, s1
  <2>6. QED
    BY <2>5, <2>2, <1>0
<1>3. N \in T
  <2> HIDE DEF T, N
  <2>1. \A n \in 0..N : n \in T
    BY <1>0, <1>1, <1>2, UpTo
  <2>2. QED
    BY <2>1, <1>0
<1>4. PICK s : Part(N, s)
  BY <1>3
<1> DEFINE Def(sum) == sum = [n \in 0..Len(f) |-> IF n = 0 THEN 0 ELSE sum[n - 1] + f[n]]
           S == CHOOSE sum : Def(sum)
<1>5. Def(s)
  <2>1. ASSUME NEW n \in 0..N PROVE s[n] = IF n = 0 THEN 0 ELSE s[n - 1] + f[n]
    <3>1. CASE n = 0
      BY <3>1, <1>4
    <3>2. CASE n # 0
      <4>1. n - 1 \in 0..N /\ n - 1 < N /\ (n - 1) + 1 = n
        BY <3>2, <1>0
      <4>2. s[(n - 1) + 1] = s[n - 1] + f[(n - 1) + 1]
        BY <4>1, <1>4
      <4>3. QED
        BY <4>1, <4>2, <3>2
    <3>3. QED
      BY <3>1, <3>2
  <2>2. s = [n \in 0..N |-> s[n]]
    BY <1>4
  <2>3. QED
    BY <2>1, <2>2
<1>6. Def(S)
  <2> HIDE DEF Def
  <2>1. QED
    BY <1>5
<1>7. Total(f) = S[Len(f)]
  BY DEF Total
<1> HIDE DEF S
<1>8. /\ DOMAIN S = 0..N
      /\ \A n \in 0..N : S[n] = IF n = 0 THEN 0 ELSE S[n - 1] + f[n]
  BY <1>6
<1> HIDE DEF Def
<1>9. S[0] = 0
  BY <1>8, <1>0
<1>10. ASSUME NEW n \in 0..N, n < N PROVE S[n + 1] = S[n] + f[n + 1]
  <2>1. n + 1 \in 0..N /\ n + 1 # 0 /\ (n + 1) - 1 = n
    BY <1>10, <1>0
  <2>2. S[n + 1] = S[(n + 1) - 1] + f[n + 1]
    BY <2>1, <1>8
  <2>3. QED
    BY <2>1, <2>2
<1>11. \A n \in 0..N : S[n] \in Int
  <2> DEFINE V == {n \in 0..N : S[n] \in Int}
  <2>1. 0 \in V
    BY <1>9, <1>0
  <2>2. ASSUME NEW n \in 0..N, n < N, n \in V PROVE n + 1 \in V
    <3>1. S[n + 1] = S[n] + f[n + 1] /\ n + 1 \in 1..N
      BY <2>2, <1>10, <1>0
    <3>2. QED
      BY <2>2, <3>1, <1>0
  <2>3. \A n \in 0..N : n \in V
    <3> HIDE DEF V, N
    <3>1. QED
      BY <2>1, <2>2, <1>0, UpTo
  <2>4. QED
    BY <2>3
<1>12. S \in [0..N -> Int]
  BY <1>6, <1>11 DEF Def
<1>13. QED
  BY <1>7, <1>9, <1>10, <1>12 DEF SumsOf

\* The total of integers is an integer.
LEMMA TotalInt ==
  ASSUME NEW f \in Seq(Int)
  PROVE  Total(f) \in Int
<1>1. PICK s : SumsOf(f, s) /\ Total(f) = s[Len(f)]
  BY TotalIsLastSum
<1>2. Len(f) \in 0..Len(f)
  OBVIOUS
<1>3. QED
  BY <1>1, <1>2 DEF SumsOf

\* Two sequences that agree but at r.
LEMMA TotalUpdate ==
  ASSUME NEW f \in Seq(Int), NEW g \in Seq(Int), Len(g) = Len(f), NEW r \in 1..Len(f),
         \A i \in 1..Len(f) : i # r => g[i] = f[i]
  PROVE  Total(g) = Total(f) - f[r] + g[r]
<1>1. PICK s : SumsOf(f, s) /\ Total(f) = s[Len(f)]
  BY TotalIsLastSum
<1>2. PICK t : SumsOf(g, t) /\ Total(g) = t[Len(g)]
  BY TotalIsLastSum
<1>0. PICK d \in Int : g[r] = f[r] + d
  <2>1. f[r] \in Int /\ g[r] \in Int
    OBVIOUS
  <2>2. \A x, y \in Int : y - x \in Int /\ y = x + (y - x)
    OBVIOUS
  <2>3. QED
    BY <2>1, <2>2
<1> DEFINE N == Len(f)
           V == {n \in 0..N : t[n] = IF n < r THEN s[n] ELSE s[n] + d}
<1>3. N \in Nat /\ Len(g) = N /\ 0 \in 0..N /\ N \in 0..N
  OBVIOUS
<1>4. s[0] = 0 /\ t[0] = 0 /\ \A n \in 0..N : s[n] \in Int /\ t[n] \in Int
  BY <1>1, <1>2, <1>3 DEF SumsOf
<1>5. ASSUME NEW n \in 0..N, n < N
      PROVE  /\ n + 1 \in 1..N /\ f[n + 1] \in Int /\ s[n + 1] = s[n] + f[n + 1]
             /\ g[n + 1] \in Int /\ t[n + 1] = t[n] + g[n + 1]
  <2>1. n + 1 \in 1..N /\ n + 1 \in 1..Len(g) /\ n \in 0..Len(g) /\ n < Len(g)
    BY <1>3, <1>5
  <2>2. QED
    BY <1>5, <2>1, <1>1, <1>2 DEF SumsOf
<1>6. 0 \in V
  BY <1>3, <1>4
<1>12. \A x, y \in Int : x + (y + d) = x + y + d
  BY <1>0
<1>13. \A x, y \in Int : x + d + y = x + y + d
  BY <1>0
<1>7. ASSUME NEW n \in 0..N, n < N, n \in V PROVE n + 1 \in V
  <2>1. /\ n \in Int /\ r \in Int /\ n + 1 \in 0..N /\ n + 1 \in 1..Len(f)
        /\ n + 1 # r => g[n + 1] = f[n + 1]
        /\ t[n] = IF n < r THEN s[n] ELSE s[n] + d
    BY <1>5, <1>7
  <2>2. /\ s[n] \in Int /\ t[n] \in Int /\ f[n + 1] \in Int /\ g[n + 1] \in Int
        /\ s[n + 1] = s[n] + f[n + 1] /\ t[n + 1] = t[n] + g[n + 1]
    BY <1>4, <1>5, <1>7
  <2>3. t[n + 1] = IF n + 1 < r THEN s[n + 1] ELSE s[n + 1] + d
    <3>1. CASE n + 1 < r
      BY <3>1, <2>1, <2>2
    <3>2. CASE n + 1 = r
      <4>1. g[n + 1] = f[n + 1] + d /\ t[n] = s[n]
        BY <3>2, <2>1, <1>0
      <4>2. ~(n + 1 < r)
        BY <3>2, <2>1
      <4>3. t[n + 1] = s[n] + (f[n + 1] + d)
        BY <4>1, <2>2
      <4>4. t[n + 1] = s[n + 1] + d
        BY <4>3, <2>2, <1>0, <1>12, Zenon
      <4>5. QED
        BY <4>2, <4>4
    <3>3. CASE n + 1 > r
      <4>1. g[n + 1] = f[n + 1] /\ t[n] = s[n] + d
        BY <3>3, <2>1
      <4>2. ~(n + 1 < r)
        BY <3>3, <2>1
      <4>3. t[n + 1] = s[n] + d + f[n + 1]
        BY <4>1, <2>2
      <4>4. t[n + 1] = s[n + 1] + d
        BY <4>3, <2>2, <1>0, <1>13, Zenon
      <4>5. QED
        BY <4>2, <4>4
    <3>4. QED
      BY <3>1, <3>2, <3>3, <2>1
  <2>4. QED
    BY <2>1, <2>3
<1>8. N \in V
  <2> HIDE DEF V, N
  <2>1. \A n \in 0..N : n \in V
    BY <1>3, <1>6, <1>7, UpTo
  <2>2. QED
    BY <2>1, <1>3
<1>9. t[N] = s[N] + d /\ s[N] \in Int /\ f[r] \in Int
  BY <1>3, <1>4, <1>8
<1>10. \A x, y \in Int : x + d = x - y + (y + d)
  BY <1>0
<1>11. QED
  BY <1>0, <1>1, <1>2, <1>3, <1>9, <1>10

\* A longer sequence.
LEMMA TotalAppend ==
  ASSUME NEW f \in Seq(Int), NEW g \in Seq(Int), Len(g) = Len(f) + 1,
         \A i \in 1..Len(f) : g[i] = f[i]
  PROVE  Total(g) = Total(f) + g[Len(g)]
<1>1. PICK s : SumsOf(f, s) /\ Total(f) = s[Len(f)]
  BY TotalIsLastSum
<1>2. PICK t : SumsOf(g, t) /\ Total(g) = t[Len(g)]
  BY TotalIsLastSum
<1> DEFINE N == Len(f)
           V == {n \in 0..N : t[n] = s[n]}
<1>3. N \in Nat /\ Len(g) = N + 1 /\ 0 \in 0..N /\ N \in 0..N
  OBVIOUS
<1>4. s[0] = 0 /\ t[0] = 0 /\ \A n \in 0..N : s[n] \in Int /\ t[n] \in Int
  BY <1>1, <1>2, <1>3 DEF SumsOf
<1>5. ASSUME NEW n \in 0..N, n < N
      PROVE  /\ n + 1 \in 1..N /\ f[n + 1] \in Int /\ s[n + 1] = s[n] + f[n + 1]
             /\ g[n + 1] \in Int /\ t[n + 1] = t[n] + g[n + 1]
  <2>1. n + 1 \in 1..N /\ n + 1 \in 1..Len(g) /\ n \in 0..Len(g) /\ n < Len(g)
    BY <1>3, <1>5
  <2>2. QED
    BY <1>5, <2>1, <1>1, <1>2 DEF SumsOf
<1>6. 0 \in V
  BY <1>3, <1>4
<1>7. ASSUME NEW n \in 0..N, n < N, n \in V PROVE n + 1 \in V
  <2>1. g[n + 1] = f[n + 1]
    BY <1>4, <1>5, <1>7
  <2>2. n + 1 \in 0..N
    BY <1>5, <1>7
  <2>3. QED
    BY <2>1, <2>2, <1>4, <1>5, <1>7
<1>8. N \in V
  <2> HIDE DEF V, N
  <2>1. \A n \in 0..N : n \in V
    BY <1>3, <1>6, <1>7, UpTo
  <2>2. QED
    BY <2>1, <1>3
<1>9. t[N + 1] = t[N] + g[N + 1]
  <2>1. N \in 0..Len(g) /\ N < Len(g)
    BY <1>3
  <2>2. QED
    BY <1>2, <2>1 DEF SumsOf
<1>10. QED
  BY <1>1, <1>2, <1>3, <1>8, <1>9

\* Sums grow with their terms.
LEMMA TotalMonotone ==
  ASSUME NEW f \in Seq(Int), NEW g \in Seq(Int), Len(g) = Len(f),
         \A i \in 1..Len(f) : f[i] <= g[i]
  PROVE  Total(f) <= Total(g)
<1>1. PICK s : SumsOf(f, s) /\ Total(f) = s[Len(f)]
  BY TotalIsLastSum
<1>2. PICK t : SumsOf(g, t) /\ Total(g) = t[Len(g)]
  BY TotalIsLastSum
<1> DEFINE N == Len(f)
           V == {n \in 0..N : s[n] <= t[n]}
<1>3. N \in Nat /\ Len(g) = N /\ 0 \in 0..N /\ N \in 0..N
  OBVIOUS
<1>4. s[0] = 0 /\ t[0] = 0 /\ \A n \in 0..N : s[n] \in Int /\ t[n] \in Int
  BY <1>1, <1>2, <1>3 DEF SumsOf
<1>5. ASSUME NEW n \in 0..N, n < N
      PROVE  /\ n + 1 \in 1..N /\ f[n + 1] \in Int /\ s[n + 1] = s[n] + f[n + 1]
             /\ g[n + 1] \in Int /\ t[n + 1] = t[n] + g[n + 1]
  <2>1. n + 1 \in 1..N /\ n + 1 \in 1..Len(g) /\ n \in 0..Len(g) /\ n < Len(g)
    BY <1>3, <1>5
  <2>2. QED
    BY <1>5, <2>1, <1>1, <1>2 DEF SumsOf
<1>6. 0 \in V
  BY <1>3, <1>4
<1>7. ASSUME NEW n \in 0..N, n < N, n \in V PROVE n + 1 \in V
  <2>1. f[n + 1] <= g[n + 1]
    BY <1>4, <1>5, <1>7
  <2>2. n + 1 \in 0..N
    BY <1>5, <1>7
  <2>3. QED
    BY <2>1, <2>2, <1>4, <1>5, <1>7
<1>8. N \in V
  <2> HIDE DEF V, N
  <2>1. \A n \in 0..N : n \in V
    BY <1>3, <1>6, <1>7, UpTo
  <2>2. QED
    BY <2>1, <1>3
<1>9. QED
  BY <1>1, <1>2, <1>3, <1>8

\* A sum without a positive term is not positive.
LEMMA TotalNotPositive ==
  ASSUME NEW f \in Seq(Int), \A i \in 1..Len(f) : f[i] <= 0
  PROVE  Total(f) <= 0
<1>1. PICK s : SumsOf(f, s) /\ Total(f) = s[Len(f)]
  BY TotalIsLastSum
<1> DEFINE N == Len(f)
           V == {n \in 0..N : s[n] <= 0}
<1>3. N \in Nat /\ 0 \in 0..N /\ N \in 0..N
  OBVIOUS
<1>4. s[0] = 0 /\ \A n \in 0..N : s[n] \in Int
  BY <1>1, <1>3 DEF SumsOf
<1>5. ASSUME NEW n \in 0..N, n < N
      PROVE  /\ n + 1 \in 1..N /\ f[n + 1] \in Int /\ s[n + 1] = s[n] + f[n + 1]
  <2>1. n + 1 \in 1..N
    BY <1>3, <1>5
  <2>2. QED
    BY <1>5, <2>1, <1>1 DEF SumsOf
<1>6. 0 \in V
  BY <1>3, <1>4
<1>7. ASSUME NEW n \in 0..N, n < N, n \in V PROVE n + 1 \in V
  <2>1. f[n + 1] <= 0
    BY <1>4, <1>5, <1>7
  <2>2. n + 1 \in 0..N
    BY <1>5, <1>7
  <2>3. QED
    BY <2>1, <2>2, <1>4, <1>5, <1>7
<1>8. N \in V
  <2> HIDE DEF V, N
  <2>1. \A n \in 0..N : n \in V
    BY <1>3, <1>6, <1>7, UpTo
  <2>2. QED
    BY <2>1, <1>3
<1>9. QED
  BY <1>1, <1>3, <1>8

\* A sum without a negative term is not negative.
LEMMA TotalNotNegative ==
  ASSUME NEW f \in Seq(Int), \A i \in 1..Len(f) : f[i] >= 0
  PROVE  Total(f) >= 0
<1>1. PICK s : SumsOf(f, s) /\ Total(f) = s[Len(f)]
  BY TotalIsLastSum
<1> DEFINE N == Len(f)
           V == {n \in 0..N : s[n] >= 0}
<1>3. N \in Nat /\ 0 \in 0..N /\ N \in 0..N
  OBVIOUS
<1>4. s[0] = 0 /\ \A n \in 0..N : s[n] \in Int
  BY <1>1, <1>3 DEF SumsOf
<1>5. ASSUME NEW n \in 0..N, n < N
      PROVE  /\ n + 1 \in 1..N /\ f[n + 1] \in Int /\ s[n + 1] = s[n] + f[n + 1]
  <2>1. n + 1 \in 1..N
    BY <1>3, <1>5
  <2>2. QED
    BY <1>5, <2>1, <1>1 DEF SumsOf
<1>6. 0 \in V
  BY <1>3, <1>4
<1>7. ASSUME NEW n \in 0..N, n < N, n \in V PROVE n + 1 \in V
  <2>1. f[n + 1] >= 0
    BY <1>4, <1>5, <1>7
  <2>2. n + 1 \in 0..N
    BY <1>5, <1>7
  <2>3. QED
    BY <2>1, <2>2, <1>4, <1>5, <1>7
<1>8. N \in V
  <2> HIDE DEF V, N
  <2>1. \A n \in 0..N : n \in V
    BY <1>3, <1>6, <1>7, UpTo
  <2>2. QED
    BY <2>1, <1>3
<1>9. QED
  BY <1>1, <1>3, <1>8

----------------------------------------------------------------------------
(* The inductive invariant.                                                 *)

\* What a row of the ledger and the exchange's side of it have to do with each other.
RowOK(l, x) ==
  /\ l.filled <= x.filled /\ x.filled <= l.size
  /\ x.st \in {"wire", "lost", "refused"} => x.filled = 0
  /\ l.state = "rejected" => x.st = "refused"
  /\ l.state = "cancelled" => x.st = "done" /\ x.filled = 0
  /\ l.state = "filled" => x.filled = l.filled /\ x.filled > 0 /\ (x.st = "done" \/ x.filled = l.size)

\* The first command is the entry, every other one an exit; an entry row is its order.
Records ==
  /\ \A r \in Rows :
       /\ RowOK(ledger[r], exch[r])
       /\ ledger[r].purpose = "entry" => ledger[r].cmd = 1 /\ ledger[r].size <= Qty
  /\ \A c \in DOMAIN cmds : cmds[c].kind = "entry" => c = 1
  /\ book.status = "none" => cmds = <<>>

\* No entry was filled, and none can be any more.
NeverHad ==
  \A r \in Rows : ledger[r].purpose = "entry" => exch[r].filled = 0 /\ exch[r].st \notin {"wire", "open"}

\* What a point of the program leaves in hand.
Places ==
  /\ ctl.at \in {"leverage", "record", "void"} => ctl.todo # {}
  /\ ctl.at \in {"post", "confirm", "settle"} => ctl.row # 0 /\ (ctl.why \in {"enter", "exit"} => ctl.todo # {})
  /\ ctl.nested => /\ ctl.todo # {}
                   /\ ctl.at \in {"recover", "snapshot"} \/ (ctl.at \in {"confirm", "settle"} /\ ctl.why = "recover")

\* The row in hand is of the kind that is asked for, and a verdict is what the ledger says.
InHand ==
  /\ ctl.at \in {"post", "confirm", "settle"} /\ ctl.why \in {"enter", "unconfirmed"} =>
       ledger[ctl.row].purpose = "entry"
  /\ ctl.at = "settle" /\ ctl.verdict = "unfilled" => ledger[ctl.row].state \in {"cancelled", "rejected"}
  /\ mem.unconfirmed # 0 => ledger[mem.unconfirmed].purpose = "entry"

\* A position is voided, or about to be, only if its entry is not and will not be filled.
Voided ==
  /\ ctl.at = "leverage" => cmds[Cmd].kind = "entry" /\ RowsOf(Cmd) = {}
  /\ ctl.at = "void" \/ book.status = "void" => NeverHad

Control == Places /\ InHand /\ Voided

\* The exposure map is the ledger's, or not rebuilt yet; exits in flight are covered.
Counted ==
  /\ mem.exposure \in {0, Exposure(ledger)}
  /\ Held >= 0
  /\ LiveOf("exit") <= Held

IInv == TypeOK /\ Records /\ OncePerCommand /\ Control /\ Counted

----------------------------------------------------------------------------
(* What a step does to the orders.                                          *)

ExchOrder == [st : {"wire", "lost", "refused", "open", "done"}, filled : Nat]

OrdersKept == ledger' = ledger /\ exch' = exch

\* The exchange moves the order r.
OrderMoves(r, x) ==
  /\ ledger' = ledger /\ exch' = [exch EXCEPT ![r] = x] /\ UNCHANGED <<book, cmds, mem, ctl>>
  /\ \/ exch[r].st = "wire" /\ x.st \in {"open", "lost", "refused"} /\ x.filled = exch[r].filled
     \/ /\ exch[r].st = "open" /\ exch[r].filled # ledger[r].size /\ x.st = "open"
        /\ x.filled = exch[r].filled + 1 /\ (ledger[r].purpose = "exit" => Held > 0)
     \/ exch[r].st = "open" /\ exch[r].filled # ledger[r].size /\ x.st = "done" /\ x.filled = exch[r].filled

SameOrder(l, k) == l.cmd = k.cmd /\ l.src = k.src /\ l.purpose = k.purpose /\ l.size = k.size

\* An order that cannot be filled behind the executor's back any more, in the given state.
Ended(s, x, l) ==
  /\ s = "rejected" => x.st = "refused"
  /\ s = "cancelled" => x.st = "done" /\ x.filled = 0
  /\ s = "filled" => x.filled > 0 /\ (x.st = "done" \/ x.filled = l.size)

\* The row r is the one that is sent or looked up.
AtRow(r) == r = ctl.row /\ (ctl.at \in {"post", "confirm"} \/ (ctl.at = "settle" /\ ctl.why = "pending"))

\* The row r is given another state, its fill is not touched.
OrderMarked(r, l) ==
  /\ ledger' = [ledger EXCEPT ![r] = l] /\ exch' = exch /\ mem' = mem /\ AtRow(r)
  /\ SameOrder(l, ledger[r]) /\ l.filled = ledger[r].filled
  /\ l.state \in {"unknown", "rejected", "submitted"}
  /\ l.state = "rejected" => exch[r].st = "refused"

\* The exchange was asked about the row r.
OrderRead(r, l) ==
  /\ ledger' = [ledger EXCEPT ![r] = l] /\ exch' = exch /\ mem' = [mem EXCEPT !.exposure = Exposure(ledger')]
  /\ AtRow(r) /\ SameOrder(l, ledger[r]) /\ l.filled = exch[r].filled /\ Ended(l.state, exch[r], l)

\* An order is sent: an entry once, an exit within the exposure and while no other is unsettled.
OrderSent(l) ==
  /\ ledger' = Append(ledger, l) /\ exch' = Append(exch, [st |-> "wire", filled |-> 0]) /\ mem' = mem
  /\ l.filled = 0 /\ l.state = "intent"
  /\ l.cmd # 0 => RowsOf(l.cmd) = {} /\ l.cmd \in DOMAIN cmds
  /\ l.purpose = "entry" => l.cmd = 1 /\ l.size <= Qty /\ book.status = "open"
  /\ l.purpose = "exit" => UnsettledExits = {} /\ l.size <= mem.exposure /\ (l.cmd = 0 \/ Unsettled = {})

OrderStep ==
  \/ OrdersKept
  \/ \E r \in Rows, x \in ExchOrder : OrderMoves(r, x)
  \/ \E r \in Rows, l \in Row : OrderMarked(r, l) \/ OrderRead(r, l)
  \/ \E l \in Row : OrderSent(l)

USE DEF Rows

\* What type correctness says of a single row and a single command.
LEMMA TypeFacts ==
  ASSUME TypeOK
  PROVE  /\ ledger \in Seq(Row) /\ exch \in Seq(ExchOrder) /\ Len(exch) = Len(ledger)
         /\ Rows = 1..Len(ledger) /\ DOMAIN exch = 1..Len(ledger)
         /\ \A r \in Rows : ledger[r] \in Row /\ exch[r] \in ExchOrder
         /\ cmds \in Seq([kind : {"entry", "exit"}, qty : 1..Qty, state : CommandStates])
         /\ DOMAIN cmds \in SUBSET Nat
         /\ \A c \in DOMAIN cmds : cmds[c] \in [kind : {"entry", "exit"}, qty : 1..Qty, state : CommandStates]
<1>1. ledger \in Seq(Row) /\ exch \in Seq(ExchOrder) /\ Len(exch) = Len(ledger)
  BY DEF TypeOK, ExchOrder
<1>2. cmds \in Seq([kind : {"entry", "exit"}, qty : 1..Qty, state : CommandStates])
  BY DEF TypeOK
<1>3. Rows = 1..Len(ledger) /\ DOMAIN exch = 1..Len(ledger)
  <2>1. DOMAIN ledger = 1..Len(ledger)
    BY <1>1
  <2>2. DOMAIN exch = 1..Len(exch)
    BY <1>1
  <2>3. QED
    BY <1>1, <2>1, <2>2
<1>4. \A r \in Rows : ledger[r] \in Row /\ exch[r] \in ExchOrder
  <2>1. ASSUME NEW r \in 1..Len(ledger) PROVE ledger[r] \in Row
    BY <1>1, ElementOfSeq
  <2>2. ASSUME NEW r \in 1..Len(exch) PROVE exch[r] \in ExchOrder
    BY <1>1, ElementOfSeq
  <2>3. QED
    BY <1>1, <1>3, <2>1, <2>2
<1>5. DOMAIN cmds \in SUBSET Nat /\ DOMAIN cmds = 1..Len(cmds)
  BY <1>2
<1>6. ASSUME NEW c \in 1..Len(cmds)
      PROVE  cmds[c] \in [kind : {"entry", "exit"}, qty : 1..Qty, state : CommandStates]
  BY <1>2, ElementOfSeq
<1>7. QED
  BY <1>1, <1>2, <1>3, <1>4, <1>5, <1>6

\* The command in hand is one of those to be done.
LEMMA CommandInHand ==
  ASSUME TypeOK, ctl.todo # {}
  PROVE  Cmd \in ctl.todo /\ Cmd \in DOMAIN cmds /\ Cmd \in Nat \ {0}
<1>1. ctl.todo \in SUBSET DOMAIN cmds /\ DOMAIN cmds \in SUBSET (Nat \ {0})
  <2>1. ctl.todo \in SUBSET DOMAIN cmds
    BY DEF TypeOK
  <2>2. cmds \in Seq([kind : {"entry", "exit"}, qty : 1..Qty, state : CommandStates])
    BY DEF TypeOK
  <2>3. DOMAIN cmds \in SUBSET (Nat \ {0})
    BY <2>2
  <2>4. QED
    BY <2>1, <2>3
<1>2. Min(ctl.todo) \in ctl.todo
  BY <1>1, MinIsLeast
<1>3. QED
  BY <1>1, <1>2 DEF Cmd

\* What a request may be built from.
LEMMA SentRow ==
  ASSUME NEW c \in Nat, NEW src \in Nat, NEW p \in {"entry", "exit"}, NEW n \in Nat \ {0}
  PROVE  [cmd |-> c, src |-> src, purpose |-> p, size |-> n, state |-> "intent", known |-> FALSE, filled |-> 0] \in Row
BY DEF Row, LedgerStates

\* remainder() names an exit command that still lacks contracts.
LEMMA RemainderFacts ==
  ASSUME TypeOK, HasRemainder
  PROVE  Remainder \in DOMAIN cmds /\ Remainder \in Nat /\ Uncovered(Remainder) \in Nat \ {0}
<1>1. Open \in SUBSET DOMAIN cmds /\ DOMAIN cmds \in SUBSET Nat /\ Open # {}
  BY TypeFacts DEF Open, HasRemainder
<1>2. Remainder \in Open
  BY <1>1, MinIsLeast DEF Remainder
<1>3. Uncovered(Remainder) > 0
  BY <1>2 DEF Open
<1>4. Remainder \in DOMAIN cmds /\ cmds[Remainder].qty \in Int
  BY <1>1, <1>2, TypeFacts, ExecutorAssumption
<1>5. [r \in Rows |-> IF ledger[r].src = Remainder THEN ledger[r].filled ELSE 0] \in Seq(Int)
  BY TypeFacts DEF Row
<1>6. Uncovered(Remainder) \in Int
  BY <1>4, <1>5, TotalInt DEF Uncovered
<1>7. QED
  BY <1>1, <1>3, <1>4, <1>6

\* The exposure lies between nothing and the entry, the gap between nothing and the exposure.
LEMMA ExposureNat ==
  ASSUME TypeOK PROVE mem.exposure \in 0..Qty /\ Gap \in 0..mem.exposure /\ Qty \in Nat \ {0}
<1>1. mem.exposure \in 0..Qty /\ book.open \in 0..Qty /\ Qty \in Nat \ {0}
  BY ExecutorAssumption DEF TypeOK, ExecutorAssumption
<1>2. QED
  BY <1>1 DEF Gap, NotBelowZero

\* Every step does one of these to the orders.
LEMMA StepKinds ==
  ASSUME TypeOK, Records, Control, Next
  PROVE  OrderStep
<1> USE DEF OrderStep
<1>1. CASE PaperEntry \/ (\E q \in 1..Qty : PaperExit(q)) \/ SweepTick \/ Crash
  BY <1>1 DEF PaperEntry, PaperExit, SweepTick, Crash, OrdersKept, durable
<1>2. CASE TakeTask \/ RecoverRow \/ RecoverExposure \/ SnapshotAnswered \/ SnapshotFails
  BY <1>2 DEF TakeTask, RecoverRow, RecoverExposure, SnapshotAnswered, SnapshotFails, OrdersKept, durable
<1>3. CASE DrainEnds \/ DrainKnown \/ DrainStale \/ DrainExpired \/ DrainWaits \/ DrainEntry
  BY <1>3 DEF DrainEnds, DrainKnown, DrainStale, DrainExpired, DrainWaits, DrainEntry, OrdersKept, durable
<1>4. CASE LeverageRefused \/ VoidPosition \/ RecordCommand
  BY <1>4 DEF LeverageRefused, VoidPosition, RecordCommand, OrdersKept
<1>5. CASE SettleEntry \/ SettleExit \/ SettleStranded \/ SettleRecovered \/ SweepUnconfirmed
  BY <1>5 DEF SettleEntry, SettleExit, SettleStranded, SettleRecovered, SweepUnconfirmed, OrdersKept, durable
<1>6. CASE DrainExit
  <2> USE <1>6
  <2>1. CASE Gap = 0
    BY <2>1 DEF DrainExit, OrdersKept
  <2>2. CASE Gap # 0
    <3> DEFINE n == Least(cmds[Cmd].qty, Gap)
               l == [cmd |-> Cmd, src |-> Cmd, purpose |-> "exit", size |-> n,
                     state |-> "intent", known |-> FALSE, filled |-> 0]
    <3>1. RowsOf(Cmd) = {} /\ Unsettled = {} /\ ctl.todo # {} /\ Send(Cmd, Cmd, "exit", n, "exit") /\ mem' = mem
      BY <2>2 DEF DrainExit, Draining
    <3>2. Cmd \in Nat \ {0} /\ Cmd \in DOMAIN cmds /\ cmds[Cmd].qty \in 1..Qty
      BY <3>1, CommandInHand, TypeFacts
    <3>3. n \in Nat \ {0} /\ n <= mem.exposure
      BY <2>2, <3>2, ExposureNat DEF Least
    <3> HIDE DEF n
    <3>4. l \in Row
      BY <3>2, <3>3, SentRow
    <3>5. OrderSent(l)
      BY <3>1, <3>2, <3>3 DEF Send, OrderSent, UnsettledExits
    <3>6. QED
      BY <3>4, <3>5
  <2>3. QED
    BY <2>1, <2>2
<1>7. CASE LeverageHeld
  <2> USE <1>7
  <2>1. CASE book.status # "open"
    BY <2>1 DEF LeverageHeld, OrdersKept
  <2>2. CASE book.status = "open"
    <3> DEFINE l == [cmd |-> Cmd, src |-> Cmd, purpose |-> "entry", size |-> cmds[Cmd].qty,
                     state |-> "intent", known |-> FALSE, filled |-> 0]
    <3>1. ctl.at = "leverage" /\ Send(Cmd, Cmd, "entry", cmds[Cmd].qty, "enter") /\ mem' = mem
      BY <2>2 DEF LeverageHeld
    <3>2. RowsOf(Cmd) = {} /\ ctl.todo # {} /\ cmds[Cmd].kind = "entry"
      BY <3>1 DEF Control, Places, Voided
    <3>3. Cmd \in Nat \ {0} /\ Cmd \in DOMAIN cmds /\ cmds[Cmd].qty \in 1..Qty
      BY <3>2, CommandInHand, TypeFacts
    <3>4. Cmd = 1
      BY <3>2, <3>3 DEF Records
    <3>5. cmds[Cmd].qty \in Nat \ {0} /\ cmds[Cmd].qty <= Qty
      BY <3>3, ExposureNat
    <3>6. l \in Row
      BY <3>3, <3>5, SentRow
    <3>7. OrderSent(l)
      BY <2>2, <3>1, <3>2, <3>3, <3>4, <3>5 DEF Send, OrderSent
    <3>8. QED
      BY <3>6, <3>7
  <2>3. QED
    BY <2>1, <2>2
<1>8. CASE SweepRest
  <2> USE <1>8
  <2>1. CASE OrdersKept
    BY <2>1
  <2>2. CASE ~OrdersKept
    <3> DEFINE n == Least(Gap, Uncovered(Remainder))
               l == [cmd |-> 0, src |-> Remainder, purpose |-> "exit", size |-> n,
                     state |-> "intent", known |-> FALSE, filled |-> 0]
    <3>1. HasRemainder /\ Gap > 0 /\ Unsettled = {} /\ Send(0, Remainder, "exit", n, "rest") /\ mem' = mem
      BY <2>2 DEF SweepRest, OrdersKept
    <3>2. n \in Nat \ {0} /\ n <= mem.exposure
      BY <3>1, ExposureNat, RemainderFacts DEF Least
    <3>3. Remainder \in Nat
      BY <3>1, RemainderFacts
    <3> HIDE DEF n
    <3>4. l \in Row
      BY <3>2, <3>3, SentRow
    <3>5. OrderSent(l)
      BY <3>1, <3>2 DEF Send, OrderSent, UnsettledExits
    <3>6. QED
      BY <3>4, <3>5
  <2>3. QED
    BY <2>1, <2>2
<1>9. CASE CloseStranded
  <2> USE <1>9
  <2>1. CASE OrdersKept
    BY <2>1
  <2>2. CASE ~OrdersKept
    <3>1. UnsettledExits = {} /\ mem.exposure > 0 /\ mem' = mem
      BY <2>2 DEF CloseStranded, OrdersKept
    <3>2. CASE HasRemainder
      <4> DEFINE n == Least(mem.exposure, Uncovered(Remainder))
                 l == [cmd |-> 0, src |-> Remainder, purpose |-> "exit", size |-> n,
                       state |-> "intent", known |-> FALSE, filled |-> 0]
      <4>1. Send(0, Remainder, "exit", n, "stranded")
        BY <2>2, <3>2 DEF CloseStranded, OrdersKept
      <4>2. n \in Nat \ {0} /\ n <= mem.exposure /\ Remainder \in Nat
        BY <3>1, <3>2, ExposureNat, RemainderFacts DEF Least
      <4> HIDE DEF n
      <4>3. l \in Row
        BY <4>2, SentRow
      <4>4. OrderSent(l)
        BY <3>1, <4>1, <4>2 DEF Send, OrderSent
      <4>5. QED
        BY <4>3, <4>4
    <3>3. CASE ~HasRemainder
      <4> DEFINE l == [cmd |-> 0, src |-> 0, purpose |-> "exit", size |-> mem.exposure,
                       state |-> "intent", known |-> FALSE, filled |-> 0]
      <4>1. Send(0, 0, "exit", mem.exposure, "stranded")
        BY <2>2, <3>3 DEF CloseStranded, OrdersKept
      <4>2. mem.exposure \in Nat \ {0}
        BY <3>1, ExposureNat
      <4>3. l \in Row
        BY <4>2, SentRow
      <4>4. OrderSent(l)
        BY <3>1, <4>1, <4>2 DEF Send, OrderSent
      <4>5. QED
        BY <4>3, <4>4
    <3>4. QED
      BY <3>2, <3>3
  <2>3. QED
    BY <2>1, <2>2
<1>10. CASE PostOk \/ PostRejected \/ PostUnanswered \/ LookupEmpty \/ SettlePending
  <2> USE <1>10
  <2>1. CASE OrdersKept
    BY <2>1
  <2>2. CASE ~OrdersKept
    <3>1. ctl.at \in {"post", "confirm", "settle"}
      BY DEF PostOk, PostRejected, PostUnanswered, LookupEmpty, SettlePending
    <3>2. ctl.row \in Rows
      BY <3>1, TypeFacts DEF TypeOK, Control, Places
    <3> DEFINE R == ledger[ctl.row]
    <3>3. R \in Row
      BY <3>2, TypeFacts
    <3>4. CASE PostOk
      <4> DEFINE l == [R EXCEPT !.state = "submitted", !.known = TRUE]
      <4>1. l \in Row /\ l.state = "submitted" /\ SameOrder(l, R) /\ l.filled = R.filled
        BY <3>3 DEF Row, LedgerStates, SameOrder
      <4>2. ledger' = [ledger EXCEPT ![ctl.row] = l] /\ exch' = exch /\ mem' = mem /\ AtRow(ctl.row)
        BY <3>4 DEF PostOk, AtRow
      <4>3. QED
        BY <3>2, <4>1, <4>2 DEF OrderMarked
    <3>5. CASE PostRejected
      <4> DEFINE l == [R EXCEPT !.state = "rejected"]
      <4>1. l \in Row /\ l.state = "rejected" /\ SameOrder(l, R) /\ l.filled = R.filled
        BY <3>3 DEF Row, LedgerStates, SameOrder
      <4>2. ledger' = [ledger EXCEPT ![ctl.row] = l] /\ exch' = exch /\ mem' = mem /\ exch[ctl.row].st = "refused"
            /\ AtRow(ctl.row)
        BY <3>5 DEF PostRejected, SetRow, Order, AtRow
      <4>3. QED
        BY <3>2, <4>1, <4>2 DEF OrderMarked
    <3>6. CASE PostUnanswered \/ LookupEmpty \/ SettlePending
      <4> DEFINE l == [R EXCEPT !.state = "unknown"]
      <4>1. l \in Row /\ l.state = "unknown" /\ SameOrder(l, R) /\ l.filled = R.filled
        BY <3>3 DEF Row, LedgerStates, SameOrder
      <4>2. ledger' = [ledger EXCEPT ![ctl.row] = l] /\ exch' = exch /\ mem' = mem /\ AtRow(ctl.row)
        BY <2>2, <3>6 DEF PostUnanswered, LookupEmpty, SettlePending, SetRow, OrdersKept, AtRow
      <4>3. QED
        BY <3>2, <4>1, <4>2 DEF OrderMarked
    <3>7. QED
      BY <3>4, <3>5, <3>6
  <2>3. QED
    BY <2>1, <2>2
<1>11. CASE LookupDone \/ LookupOpen \/ LookupAgain
  <2> USE <1>11
  <2>1. ctl.at = "confirm" /\ exch' = exch
    BY DEF LookupDone, LookupOpen, LookupAgain, Found
  <2>2. ctl.row \in Rows
    BY <2>1, TypeFacts DEF TypeOK, Control, Places
  <2> DEFINE R == ledger[ctl.row]
             X == exch[ctl.row]
             l(s) == [R EXCEPT !.state = s, !.known = TRUE, !.filled = X.filled]
  <2>3. R \in Row /\ X \in ExchOrder /\ RowOK(R, X)
    BY <2>2, TypeFacts DEF Records
  <2>4. ASSUME NEW s \in LedgerStates
        PROVE  l(s) \in Row /\ l(s).state = s /\ SameOrder(l(s), R) /\ l(s).filled = X.filled
    BY <2>3 DEF Row, LedgerStates, SameOrder, ExchOrder
  <2>5. ASSUME NEW s \in LedgerStates, Observe(s), Ended(s, X, R)
        PROVE  OrderRead(ctl.row, l(s))
    <3>1. ledger' = [ledger EXCEPT ![ctl.row] = l(s)] /\ mem' = [mem EXCEPT !.exposure = Exposure(ledger')]
      BY <2>5 DEF Observe, Order
    <3>2. l(s).state = s /\ SameOrder(l(s), R) /\ l(s).filled = X.filled /\ l(s).size = R.size
      BY <2>4 DEF SameOrder
    <3>3. QED
      BY <2>1, <2>5, <3>1, <3>2 DEF OrderRead, Ended, AtRow
  <2>6. PICK s \in LedgerStates : Observe(s) /\ Ended(s, X, R)
    <3>1. CASE LookupDone
      <4>1. X.st = "done" \/ (X.st = "open" /\ X.filled = R.size)
        BY <3>1 DEF LookupDone, Done, Full
      <4>2. X.filled \in Nat /\ R.size \in Nat \ {0}
        BY <2>3 DEF Row, ExchOrder
      <4>3. CASE X.filled > 0
        BY <3>1, <4>1, <4>3 DEF LookupDone, Order, LedgerStates, Ended
      <4>4. CASE ~(X.filled > 0)
        BY <3>1, <4>1, <4>2, <4>4 DEF LookupDone, Order, LedgerStates, Ended
      <4>5. QED
        BY <4>3, <4>4
    <3>2. CASE LookupOpen
      BY <3>2 DEF LookupOpen, LedgerStates, Ended
    <3>3. CASE LookupAgain
      <4>1. ~Done(ctl.row) /\ Found
        BY <3>3 DEF LookupAgain
      <4>2. X.st = "open" /\ X.filled # R.size
        BY <4>1 DEF Done, Full, Found, Order
      <4>3. R.state \notin {"rejected", "cancelled", "filled"}
        BY <2>3, <4>2 DEF RowOK
      <4>4. R.state \in LedgerStates
        BY <2>3 DEF Row
      <4>5. QED
        BY <3>3, <4>3, <4>4 DEF LookupAgain, LedgerStates, Ended
    <3>4. QED
      BY <3>1, <3>2, <3>3
  <2>7. QED
    BY <2>2, <2>4, <2>5, <2>6
<1>12. CASE Exchange
  <2>1. PICK r \in Rows : Accept(r) \/ Fill(r) \/ EndShort(r) \/ \E how \in {"lost", "refused"} : Drop(r, how)
    BY <1>12 DEF Exchange
  <2> DEFINE X == exch[r]
  <2>2. X \in ExchOrder /\ UNCHANGED <<ledger, book, cmds, mem, ctl>>
    BY <2>1, TypeFacts DEF Accept, Drop, Fill, EndShort, durable
  <2>3. ASSUME NEW x \in ExchOrder, OrderMoves(r, x) PROVE OrderStep
    BY <2>3
  <2>4. CASE Accept(r)
    <3>1. [X EXCEPT !.st = "open"] \in ExchOrder
      BY <2>2 DEF ExchOrder
    <3>2. OrderMoves(r, [X EXCEPT !.st = "open"])
      BY <2>2, <2>4 DEF Accept, OrderMoves, ExchOrder
    <3>3. QED
      BY <2>3, <3>1, <3>2
  <2>5. CASE \E how \in {"lost", "refused"} : Drop(r, how)
    <3>1. PICK how \in {"lost", "refused"} : Drop(r, how)
      BY <2>5
    <3>2. [X EXCEPT !.st = how] \in ExchOrder
      BY <2>2 DEF ExchOrder
    <3>3. OrderMoves(r, [X EXCEPT !.st = how])
      BY <2>2, <3>1 DEF Drop, OrderMoves, ExchOrder
    <3>4. QED
      BY <2>3, <3>2, <3>3
  <2>6. CASE Fill(r)
    <3>1. [X EXCEPT !.filled = @ + 1] \in ExchOrder
      BY <2>2 DEF ExchOrder
    <3>2. OrderMoves(r, [X EXCEPT !.filled = @ + 1])
      BY <2>2, <2>6 DEF Fill, Full, OrderMoves, ExchOrder
    <3>3. QED
      BY <2>3, <3>1, <3>2
  <2>7. CASE EndShort(r)
    <3>1. [X EXCEPT !.st = "done"] \in ExchOrder
      BY <2>2 DEF ExchOrder
    <3>2. OrderMoves(r, [X EXCEPT !.st = "done"])
      BY <2>2, <2>7 DEF EndShort, Full, OrderMoves, ExchOrder
    <3>3. QED
      BY <2>3, <3>1, <3>2
  <2>8. QED
    BY <2>1, <2>4, <2>5, <2>6, <2>7
<1>13. QED
  BY <1>1, <1>2, <1>3, <1>4, <1>5, <1>6, <1>7, <1>8, <1>9, <1>10, <1>11, <1>12 DEF Next, Step

\* The tables keep their shape, a row its order.
LEMMA OrdersTyped ==
  ASSUME TypeOK, OrderStep
  PROVE  /\ ledger' \in Seq(Row) /\ exch' \in Seq(ExchOrder) /\ Len(exch') = Len(ledger')
         /\ Len(ledger') \in {Len(ledger), Len(ledger) + 1}
         /\ Rows' = 1..Len(ledger')
         /\ \A r \in 1..Len(ledger') : ledger'[r] \in Row /\ exch'[r] \in ExchOrder
         /\ \A r \in 1..Len(ledger) : SameOrder(ledger'[r], ledger[r])
<1> DEFINE Shape == /\ ledger' \in Seq(Row) /\ exch' \in Seq(ExchOrder) /\ Len(exch') = Len(ledger')
                    /\ Len(ledger') \in {Len(ledger), Len(ledger) + 1}
                    /\ \A r \in 1..Len(ledger) : SameOrder(ledger'[r], ledger[r])
<1>0. /\ ledger \in Seq(Row) /\ exch \in Seq(ExchOrder) /\ Len(exch) = Len(ledger)
      /\ Rows = 1..Len(ledger)
  BY TypeFacts
<1>1. Shape
  <2>1. CASE OrdersKept
    BY <1>0, <2>1 DEF OrdersKept, SameOrder
  <2>2. ASSUME NEW r \in Rows, NEW x \in ExchOrder, OrderMoves(r, x) PROVE Shape
    BY <1>0, <2>2 DEF OrderMoves, SameOrder
  <2>3. ASSUME NEW r \in Rows, NEW l \in Row, OrderMarked(r, l) \/ OrderRead(r, l) PROVE Shape
    <3>1. ledger' = [ledger EXCEPT ![r] = l] /\ exch' = exch /\ SameOrder(l, ledger[r])
      BY <2>3 DEF OrderMarked, OrderRead
    <3>2. /\ ledger' \in Seq(Row) /\ Len(ledger') = Len(ledger)
          /\ \A i \in 1..Len(ledger) : ledger'[i] = IF i = r THEN l ELSE ledger[i]
      BY <1>0, <3>1
    <3>3. QED
      BY <1>0, <3>1, <3>2 DEF SameOrder
  <2>4. ASSUME NEW l \in Row, OrderSent(l) PROVE Shape
    <3>1. [st |-> "wire", filled |-> 0] \in ExchOrder
      BY DEF ExchOrder
    <3>2. QED
      BY <1>0, <2>4, <3>1 DEF OrderSent, SameOrder
  <2> HIDE DEF Shape
  <2>5. QED
    BY <2>1, <2>2, <2>3, <2>4 DEF OrderStep
<1>2. Rows' = 1..Len(ledger')
  BY <1>1
<1>3. ASSUME NEW r \in 1..Len(ledger') PROVE ledger'[r] \in Row /\ exch'[r] \in ExchOrder
  <2>1. ledger'[r] \in Row
    BY <1>1, ElementOfSeq
  <2>2. r \in 1..Len(exch')
    BY <1>1
  <2>3. exch'[r] \in ExchOrder
    BY <1>1, <2>2, ElementOfSeq
  <2>4. QED
    BY <2>1, <2>3
<1>4. QED
  BY <1>1, <1>2, <1>3

\* The ledger grows only when an order is sent.
LEMMA OneIsSent ==
  ASSUME TypeOK, OrderStep, Len(ledger') # Len(ledger)
  PROVE  \E l \in Row : OrderSent(l)
<1>1. ~OrdersKept /\ (\A r \in Rows, x \in ExchOrder : ~OrderMoves(r, x))
  BY DEF OrdersKept, OrderMoves
<1>2. \A r \in Rows, l \in Row : ~OrderMarked(r, l) /\ ~OrderRead(r, l)
  BY TypeFacts DEF OrderMarked, OrderRead
<1>3. QED
  BY <1>1, <1>2 DEF OrderStep

\* A command is sent at most once.
LEMMA NextOnce ==
  ASSUME TypeOK, OncePerCommand, OrderStep
  PROVE  OncePerCommand'
<1>0. Rows = 1..Len(ledger) /\ Rows' = 1..Len(ledger') /\ Len(ledger) \in Nat
  BY TypeFacts, OrdersTyped
<1>1. CASE Len(ledger') = Len(ledger)
  <2>1. \A r \in Rows : ledger'[r].cmd = ledger[r].cmd
    BY <1>0, OrdersTyped DEF SameOrder
  <2>2. QED
    BY <1>0, <1>1, <2>1, Zenon DEF OncePerCommand
<1>2. CASE Len(ledger') # Len(ledger)
  <2>1. PICK l \in Row : OrderSent(l)
    BY <1>2, OneIsSent
  <2> DEFINE N == Len(ledger) + 1
  <2>2. Rows' = 1..N /\ ledger'[N] = l /\ \A r \in Rows : ledger'[r] = ledger[r]
    BY <2>1, <1>0, TypeFacts DEF OrderSent
  <2>3. l.cmd # 0 => \A r \in Rows : ledger[r].cmd # l.cmd
    BY <2>1 DEF OrderSent, RowsOf
  <2>4. \A r \in Rows' : r \in Rows \/ r = N
    BY <1>0, <2>2
  <2> HIDE DEF N
  <2>5. QED
    BY <2>2, <2>3, <2>4 DEF OncePerCommand
<1>3. QED
  BY <1>1, <1>2

\* A row and the exchange's side of it stay in agreement.
LEMMA NextRows ==
  ASSUME TypeOK, Records, OrderStep
  PROVE  \A r \in Rows' : /\ RowOK(ledger'[r], exch'[r])
                          /\ ledger'[r].purpose = "entry" => ledger'[r].cmd = 1 /\ ledger'[r].size <= Qty
<1> DEFINE Good(l, x) == RowOK(l, x) /\ (l.purpose = "entry" => l.cmd = 1 /\ l.size <= Qty)
<1>0. /\ Rows = 1..Len(ledger) /\ Len(ledger) \in Nat /\ Len(exch) = Len(ledger)
      /\ ledger \in Seq(Row) /\ exch \in Seq(ExchOrder)
      /\ \A r \in Rows : Good(ledger[r], exch[r]) /\ ledger[r] \in Row /\ exch[r] \in ExchOrder
  BY TypeFacts DEF Records
<1>1. CASE OrdersKept
  BY <1>1, <1>0 DEF OrdersKept
<1>2. ASSUME NEW r \in Rows, NEW x \in ExchOrder, OrderMoves(r, x) PROVE \A i \in Rows' : Good(ledger'[i], exch'[i])
  <2>1. Rows' = Rows /\ (\A i \in Rows : ledger'[i] = ledger[i] /\ exch'[i] = IF i = r THEN x ELSE exch[i])
    BY <1>0, <1>2 DEF OrderMoves
  <2>2. Good(ledger[r], exch[r]) /\ ledger[r] \in Row /\ exch[r] \in ExchOrder
    BY <1>0
  <2>3. RowOK(ledger[r], x)
    BY <1>2, <2>2 DEF OrderMoves, RowOK, Row, ExchOrder
  <2> HIDE DEF Good
  <2>4. Good(ledger[r], x)
    BY <2>2, <2>3 DEF Good
  <2>5. QED
    BY <2>1, <2>4, <1>0
<1>3. ASSUME NEW r \in Rows, NEW l \in Row, OrderMarked(r, l) \/ OrderRead(r, l)
      PROVE  \A i \in Rows' : Good(ledger'[i], exch'[i])
  <2>1. Rows' = Rows /\ exch' = exch /\ (\A i \in Rows : ledger'[i] = IF i = r THEN l ELSE ledger[i])
    BY <1>0, <1>3 DEF OrderMarked, OrderRead
  <2>2. Good(ledger[r], exch[r]) /\ exch[r] \in ExchOrder
    BY <1>0
  <2>3. Good(l, exch[r])
    <3>1. CASE OrderMarked(r, l)
      BY <3>1, <2>2 DEF OrderMarked, SameOrder, RowOK, Row, ExchOrder
    <3>2. CASE OrderRead(r, l)
      BY <3>2, <2>2 DEF OrderRead, SameOrder, Ended, RowOK, Row, ExchOrder
    <3>3. QED
      BY <1>3, <3>1, <3>2
  <2> HIDE DEF Good
  <2>4. QED
    BY <2>1, <2>3, <1>0
<1>4. ASSUME NEW l \in Row, OrderSent(l) PROVE \A i \in Rows' : Good(ledger'[i], exch'[i])
  <2> DEFINE N == Len(ledger) + 1
             x == [st |-> "wire", filled |-> 0]
  <2>1. x \in ExchOrder
    BY DEF ExchOrder
  <2>2. /\ Rows' = 1..N /\ ledger'[N] = l /\ exch'[N] = x
        /\ \A i \in Rows : ledger'[i] = ledger[i] /\ exch'[i] = exch[i]
    BY <1>0, <1>4, <2>1 DEF OrderSent
  <2>3. Good(l, x)
    BY <1>4 DEF OrderSent, RowOK, Row
  <2>4. \A i \in Rows' : i \in Rows \/ i = N
    BY <1>0, <2>2
  <2> HIDE DEF Good, N, x
  <2>5. QED
    BY <2>2, <2>3, <2>4, <1>0
<1>5. QED
  BY <1>1, <1>2, <1>3, <1>4 DEF OrderStep

----------------------------------------------------------------------------
(* What is held and what may still be filled.                               *)

NetTerms(l, x) == [r \in DOMAIN l |-> IF l[r].purpose = "entry" THEN x[r].filled ELSE -x[r].filled]
LiveTerm(l, x) == IF x.st \in {"wire", "open"} THEN l.size - x.filled ELSE 0
LiveTerms(l, x, p) == [r \in DOMAIN l |-> IF l[r].purpose = p THEN LiveTerm(l[r], x[r]) ELSE 0]

\* The terms of both sums are integers, one for each row.
LEMMA TermFacts ==
  ASSUME NEW l \in Seq(Row), NEW x \in Seq(ExchOrder), Len(x) = Len(l), NEW p
  PROVE  /\ NetTerms(l, x) \in Seq(Int) /\ Len(NetTerms(l, x)) = Len(l)
         /\ NetTerms(l, l) \in Seq(Int) /\ Len(NetTerms(l, l)) = Len(l)
         /\ LiveTerms(l, x, p) \in Seq(Int) /\ Len(LiveTerms(l, x, p)) = Len(l)
<1>1. DOMAIN l = 1..Len(l) /\ Len(l) \in Nat
  OBVIOUS
<1>2. ASSUME NEW r \in 1..Len(l) PROVE l[r].filled \in Nat /\ x[r].filled \in Nat /\ l[r].size \in Nat
  <2>1. l[r] \in Row
    BY ElementOfSeq
  <2>2. r \in 1..Len(x)
    OBVIOUS
  <2>3. x[r] \in ExchOrder
    BY <2>2, ElementOfSeq
  <2>4. QED
    BY <2>1, <2>3 DEF Row, ExchOrder
<1>3. ASSUME NEW f \in [1..Len(l) -> Int] PROVE f \in Seq(Int) /\ Len(f) = Len(l)
  BY <1>1
<1>4. NetTerms(l, x) \in [1..Len(l) -> Int] /\ NetTerms(l, l) \in [1..Len(l) -> Int]
  BY <1>1, <1>2 DEF NetTerms
<1>5. LiveTerms(l, x, p) \in [1..Len(l) -> Int]
  BY <1>1, <1>2 DEF LiveTerms, LiveTerm
<1>6. QED
  BY <1>3, <1>4, <1>5

\* Held, the exposure and the live exits as totals of those terms.
LEMMA SumsAre ==
  /\ \A l, x : Net(l, x) = Total(NetTerms(l, x))
  /\ Held = Total(NetTerms(ledger, exch)) /\ LiveOf("exit") = Total(LiveTerms(ledger, exch, "exit"))
  /\ Held' = Total(NetTerms(ledger', exch')) /\ LiveOf("exit")' = Total(LiveTerms(ledger', exch', "exit"))
<1>1. \A l, x : Net(l, x) = Total(NetTerms(l, x))
  BY DEF Net, NetTerms
<1>2. Held = Total(NetTerms(ledger, exch)) /\ Held' = Total(NetTerms(ledger', exch'))
  BY <1>1 DEF Held
<1>3. LiveOf("exit") = Total(LiveTerms(ledger, exch, "exit"))
  BY DEF LiveOf, Live, LiveTerms, LiveTerm
<1>4. LiveOf("exit")' = Total(LiveTerms(ledger', exch', "exit"))
  BY DEF LiveOf, Live, LiveTerms, LiveTerm
<1>5. QED
  BY <1>1, <1>2, <1>3, <1>4

\* So the three are integers.
LEMMA SumsInt ==
  ASSUME TypeOK
  PROVE  Held \in Int /\ LiveOf("exit") \in Int /\ Net(ledger, ledger) \in Int /\ Exposure(ledger) \in Nat
<1>1. ledger \in Seq(Row) /\ exch \in Seq(ExchOrder) /\ Len(exch) = Len(ledger)
  BY TypeFacts
<1>2. Held \in Int /\ LiveOf("exit") \in Int /\ Net(ledger, ledger) \in Int
  BY <1>1, TermFacts, TotalInt, SumsAre
<1>3. QED
  BY <1>2 DEF Exposure, NotBelowZero

\* The orders are the same but for what the executor knows of them.
LEMMA SameOrdersSameSums ==
  ASSUME TypeOK, NEW r \in Rows, NEW l \in Row, ledger' = [ledger EXCEPT ![r] = l],
         exch' = exch, SameOrder(l, ledger[r])
  PROVE  Held' = Held /\ LiveOf("exit")' = LiveOf("exit")
<1>1. ledger \in Seq(Row) /\ DOMAIN ledger' = DOMAIN ledger
  BY TypeFacts
<1>2. \A i \in DOMAIN ledger : ledger'[i].purpose = ledger[i].purpose /\ ledger'[i].size = ledger[i].size
  BY <1>1, TypeFacts DEF SameOrder
<1>3. NetTerms(ledger', exch') = NetTerms(ledger, exch)
  BY <1>1, <1>2 DEF NetTerms
<1>4. LiveTerms(ledger', exch', "exit") = LiveTerms(ledger, exch, "exit")
  BY <1>1, <1>2 DEF LiveTerms, LiveTerm
<1>5. QED
  BY <1>3, <1>4, SumsAre

\* No exit is unsettled: none can be filled any more, and the ledger counts no more than is held.
LEMMA ExitsSettled ==
  ASSUME TypeOK, Records, UnsettledExits = {}
  PROVE  LiveOf("exit") <= 0 /\ Net(ledger, ledger) <= Held
<1>1. ledger \in Seq(Row) /\ exch \in Seq(ExchOrder) /\ Len(exch) = Len(ledger) /\ Rows = 1..Len(ledger)
  BY TypeFacts
<1> DEFINE LT == LiveTerms(ledger, exch, "exit")
           NL == NetTerms(ledger, ledger)
           NX == NetTerms(ledger, exch)
<1>2. /\ LT \in Seq(Int) /\ NL \in Seq(Int) /\ NX \in Seq(Int)
      /\ Len(LT) = Len(ledger) /\ Len(NL) = Len(ledger) /\ Len(NX) = Len(ledger)
  BY <1>1, TermFacts
<1>3. ASSUME NEW r \in 1..Len(ledger) PROVE LT[r] <= 0 /\ NL[r] <= NX[r]
  <2>1. /\ NX[r] = IF ledger[r].purpose = "entry" THEN exch[r].filled ELSE -exch[r].filled
        /\ NL[r] = IF ledger[r].purpose = "entry" THEN ledger[r].filled ELSE -ledger[r].filled
        /\ LT[r] = IF ledger[r].purpose = "exit" THEN LiveTerm(ledger[r], exch[r]) ELSE 0
    BY <1>1 DEF NetTerms, LiveTerms
  <2>2. RowOK(ledger[r], exch[r]) /\ ledger[r] \in Row /\ exch[r] \in ExchOrder
    BY <1>1, TypeFacts DEF Records
  <2>3. ledger[r].purpose = "exit" => ledger[r].state \in {"filled", "cancelled", "rejected"}
    BY <1>1, <2>2 DEF UnsettledExits, Unsettled, OpenStates, Row, LedgerStates
  <2> HIDE DEF LT, NL, NX
  <2>4. CASE ledger[r].purpose = "entry"
    BY <2>1, <2>2, <2>4 DEF RowOK, Row, ExchOrder
  <2>5. CASE ledger[r].purpose = "exit"
    BY <2>1, <2>2, <2>3, <2>5 DEF RowOK, Row, ExchOrder, LiveTerm
  <2>6. QED
    BY <2>2, <2>4, <2>5 DEF Row
<1> HIDE DEF LT, NL, NX
<1>4. Total(LT) <= 0
  BY <1>2, <1>3, TotalNotPositive
<1>5. Total(NL) <= Total(NX)
  BY <1>2, <1>3, TotalMonotone
<1>6. QED
  BY <1>4, <1>5, SumsAre DEF LT, NL, NX

\* Exits in flight stay covered by what is held.
LEMMA NextCovered ==
  ASSUME TypeOK, Records, Counted, OrderStep
  PROVE  Held' >= 0 /\ LiveOf("exit")' <= Held'
<1>0. /\ ledger \in Seq(Row) /\ exch \in Seq(ExchOrder) /\ Len(exch) = Len(ledger) /\ Rows = 1..Len(ledger)
      /\ ledger' \in Seq(Row) /\ exch' \in Seq(ExchOrder) /\ Len(exch') = Len(ledger')
  BY TypeFacts, OrdersTyped
<1> DEFINE LT == LiveTerms(ledger, exch, "exit")
           NX == NetTerms(ledger, exch)
           LT1 == LiveTerms(ledger', exch', "exit")
           NX1 == NetTerms(ledger', exch')
<1>1. /\ LT \in Seq(Int) /\ Len(LT) = Len(ledger) /\ NX \in Seq(Int) /\ Len(NX) = Len(ledger)
      /\ LT1 \in Seq(Int) /\ Len(LT1) = Len(ledger') /\ NX1 \in Seq(Int) /\ Len(NX1) = Len(ledger')
  BY <1>0, TermFacts
<1>2. /\ \A r \in 1..Len(ledger) :
           /\ NX[r] = IF ledger[r].purpose = "entry" THEN exch[r].filled ELSE -exch[r].filled
           /\ LT[r] = IF ledger[r].purpose = "exit" THEN LiveTerm(ledger[r], exch[r]) ELSE 0
      /\ \A r \in 1..Len(ledger') :
           /\ NX1[r] = IF ledger'[r].purpose = "entry" THEN exch'[r].filled ELSE -exch'[r].filled
           /\ LT1[r] = IF ledger'[r].purpose = "exit" THEN LiveTerm(ledger'[r], exch'[r]) ELSE 0
  BY <1>0 DEF NetTerms, LiveTerms
<1>3. Held = Total(NX) /\ LiveOf("exit") = Total(LT) /\ Held' = Total(NX1) /\ LiveOf("exit")' = Total(LT1)
  BY SumsAre
<1> HIDE DEF LT, NX, LT1, NX1
<1>4. Held \in Int /\ LiveOf("exit") \in Int /\ Held >= 0 /\ LiveOf("exit") <= Held
  BY SumsInt DEF Counted
<1>5. CASE OrdersKept
  <2>1. Held' = Held /\ LiveOf("exit")' = LiveOf("exit")
    BY <1>5, <1>3 DEF OrdersKept, LT, LT1, NX, NX1
  <2>2. QED
    BY <2>1, <1>4
<1>6. ASSUME NEW r \in Rows, NEW l \in Row, OrderMarked(r, l) \/ OrderRead(r, l)
      PROVE  Held' >= 0 /\ LiveOf("exit")' <= Held'
  <2>1. Held' = Held /\ LiveOf("exit")' = LiveOf("exit")
    BY <1>6, SameOrdersSameSums DEF OrderMarked, OrderRead
  <2>2. QED
    BY <2>1, <1>4
<1>7. ASSUME NEW r \in Rows, NEW x \in ExchOrder, OrderMoves(r, x)
      PROVE  Held' >= 0 /\ LiveOf("exit")' <= Held'
  <2>1. /\ ledger' = ledger /\ r \in 1..Len(ledger) /\ exch'[r] = x
        /\ \A i \in 1..Len(ledger) : i # r => exch'[i] = exch[i]
    BY <1>0, <1>7 DEF OrderMoves
  <2>2. \A i \in 1..Len(ledger) : i # r => NX1[i] = NX[i] /\ LT1[i] = LT[i]
    BY <1>2, <2>1
  <2>3. Held' = Held - NX[r] + NX1[r]
    <3>1. Len(NX1) = Len(NX) /\ r \in 1..Len(NX) /\ \A i \in 1..Len(NX) : i # r => NX1[i] = NX[i]
      BY <1>1, <2>1, <2>2
    <3>2. QED
      BY <1>1, <1>3, <3>1, TotalUpdate
  <2>4. LiveOf("exit")' = LiveOf("exit") - LT[r] + LT1[r]
    <3>1. Len(LT1) = Len(LT) /\ r \in 1..Len(LT) /\ \A i \in 1..Len(LT) : i # r => LT1[i] = LT[i]
      BY <1>1, <2>1, <2>2
    <3>2. QED
      BY <1>1, <1>3, <3>1, TotalUpdate
  <2>5. RowOK(ledger[r], exch[r]) /\ ledger[r] \in Row /\ exch[r] \in ExchOrder
    BY <1>0, TypeFacts DEF Records
  <2>6. /\ NX[r] = IF ledger[r].purpose = "entry" THEN exch[r].filled ELSE -exch[r].filled
        /\ LT[r] = IF ledger[r].purpose = "exit" THEN LiveTerm(ledger[r], exch[r]) ELSE 0
        /\ NX1[r] = IF ledger[r].purpose = "entry" THEN x.filled ELSE -x.filled
        /\ LT1[r] = IF ledger[r].purpose = "exit" THEN LiveTerm(ledger[r], x) ELSE 0
    BY <1>2, <2>1
  <2> DEFINE n == ledger[r].size
             a == exch[r].filled
  <2>7. n \in Nat /\ a \in Nat /\ a <= n /\ x.filled \in Nat
    BY <2>5 DEF Row, ExchOrder, RowOK
  <2>8. CASE ledger[r].purpose = "entry"
    <3>1. NX[r] = a /\ NX1[r] = x.filled /\ LT[r] = 0 /\ LT1[r] = 0
      BY <2>6, <2>8
    <3>2. x.filled >= a
      BY <1>7, <2>7 DEF OrderMoves
    <3> HIDE DEF a
    <3>3. QED
      BY <3>1, <3>2, <2>3, <2>4, <2>7, <1>4
  <2>9. CASE ledger[r].purpose = "exit"
    <3>1. NX[r] = -a /\ NX1[r] = -x.filled /\ LT[r] = LiveTerm(ledger[r], exch[r]) /\ LT1[r] = LiveTerm(ledger[r], x)
      BY <2>6, <2>9
    <3>2. exch[r].st \in {"wire", "open"} /\ LT[r] = n - a
      BY <1>7, <3>1 DEF OrderMoves, LiveTerm
    <3>3. CASE x.filled = a
      <4>1. LT1[r] \in Int /\ LT1[r] <= n - a
        BY <2>7, <3>1, <3>3 DEF LiveTerm
      <4> HIDE DEF a, n
      <4>2. QED
        BY <4>1, <3>1, <3>2, <3>3, <2>3, <2>4, <2>7, <1>4
    <3>4. CASE x.filled # a
      <4>1. x.filled = a + 1 /\ x.st = "open" /\ Held > 0
        BY <1>7, <2>9, <3>4 DEF OrderMoves
      <4>2. LT1[r] = n - (a + 1)
        BY <3>1, <4>1 DEF LiveTerm
      <4> HIDE DEF a, n
      <4>3. QED
        BY <4>1, <4>2, <3>1, <3>2, <2>3, <2>4, <2>7, <1>4
    <3>5. QED
      BY <3>3, <3>4
  <2>10. QED
    BY <2>5, <2>8, <2>9 DEF Row
<1>8. ASSUME NEW l \in Row, OrderSent(l)
      PROVE  Held' >= 0 /\ LiveOf("exit")' <= Held'
  <2> DEFINE N == Len(ledger) + 1
             x == [st |-> "wire", filled |-> 0]
  <2>1. /\ Len(ledger') = N /\ ledger'[N] = l /\ exch'[N] = x /\ N \in 1..N
        /\ \A i \in 1..Len(ledger) : ledger'[i] = ledger[i] /\ exch'[i] = exch[i] /\ i \in 1..N
    BY <1>0, <1>8 DEF OrderSent
  <2>2. \A i \in 1..Len(ledger) : NX1[i] = NX[i] /\ LT1[i] = LT[i]
    BY <1>2, <2>1
  <2>3. Held' = Held + NX1[N] /\ LiveOf("exit")' = LiveOf("exit") + LT1[N]
    <3>1. Len(NX1) = Len(NX) + 1 /\ Len(LT1) = Len(LT) + 1 /\ Len(NX1) = N /\ Len(LT1) = N
      BY <1>1, <2>1
    <3>2. /\ \A i \in 1..Len(NX) : NX1[i] = NX[i]
          /\ \A i \in 1..Len(LT) : LT1[i] = LT[i]
      BY <1>1, <2>2
    <3> HIDE DEF NX, NX1, LT, LT1, N
    <3>3. Total(NX1) = Total(NX) + NX1[N]
      BY <1>1, <3>1, <3>2, TotalAppend
    <3>4. Total(LT1) = Total(LT) + LT1[N]
      BY <1>1, <3>1, <3>2, TotalAppend
    <3>5. QED
      BY <1>3, <3>3, <3>4
  <2>4. l.size \in Nat \ {0} /\ l.purpose \in {"entry", "exit"}
    BY DEF Row
  <2>5. NX1[N] = 0
    BY <1>2, <2>1
  <2>6. LT1[N] = IF l.purpose = "exit" THEN l.size ELSE 0
    BY <1>2, <2>1, <2>4 DEF LiveTerm
  <2>7. CASE l.purpose = "entry"
    <3>1. LT1[N] = 0
      BY <2>6, <2>7
    <3>2. QED
      BY <3>1, <2>3, <2>5, <1>4
  <2>8. CASE l.purpose = "exit"
    <3>1. UnsettledExits = {} /\ l.size <= mem.exposure
      BY <1>8, <2>8 DEF OrderSent
    <3>2. LiveOf("exit") <= 0 /\ Net(ledger, ledger) <= Held
      BY <3>1, ExitsSettled
    <3>3. mem.exposure \in Nat /\ mem.exposure = Exposure(ledger)
      BY <2>4, <3>1, ExposureNat DEF Counted
    <3>4. mem.exposure <= Held
      BY <2>4, <3>1, <3>2, <3>3, <1>4, SumsInt DEF Exposure, NotBelowZero
    <3>5. LT1[N] = l.size
      BY <2>6, <2>8
    <3>6. QED
      BY <3>1, <3>2, <3>3, <3>4, <3>5, <2>3, <2>4, <2>5, <1>4
  <2>9. QED
    BY <2>4, <2>7, <2>8
<1>9. QED
  BY <1>5, <1>6, <1>7, <1>8 DEF OrderStep

\* The exposure map follows the ledger, is left alone, or is lost with the process.
LEMMA ExposureStep ==
  ASSUME TypeOK, Next
  PROVE  mem'.exposure \in {0, mem.exposure, Exposure(ledger')}
<1>0. mem \in [exposure : 0..Qty, unconfirmed : 0..Len(ledger), stranded : BOOLEAN,
               deferred : BOOLEAN, listening : BOOLEAN, products : BOOLEAN, unheard : BOOLEAN]
  BY DEF TypeOK
<1>1. CASE PaperEntry \/ (\E q \in 1..Qty : PaperExit(q)) \/ SweepTick \/ Crash
  BY <1>0, <1>1 DEF PaperEntry, PaperExit, SweepTick, Crash, NoMem
<1>2. CASE TakeTask
  BY <1>0, <1>2 DEF TakeTask, StartRecover, StartDrain
<1>3. CASE RecoverRow \/ RecoverExposure \/ SnapshotAnswered \/ SnapshotFails
  BY <1>0, <1>3 DEF RecoverRow, RecoverExposure, SnapshotAnswered, SnapshotFails, durable
<1>4. CASE DrainEnds \/ DrainKnown \/ DrainStale \/ DrainExpired \/ DrainWaits \/ DrainEntry \/ DrainExit
  BY <1>0, <1>4 DEF DrainEnds, DrainKnown, DrainStale, DrainExpired, DrainWaits, DrainEntry, DrainExit, StartRecover
<1>5. CASE LeverageHeld \/ LeverageRefused \/ VoidPosition \/ RecordCommand \/ PostOk \/ PostRejected \/ PostUnanswered
  BY <1>0, <1>5 DEF LeverageHeld, LeverageRefused, VoidPosition, RecordCommand, PostOk, PostRejected, PostUnanswered
<1>6. CASE LookupDone \/ LookupOpen \/ LookupAgain \/ LookupEmpty
  BY <1>0, <1>6 DEF LookupDone, LookupOpen, LookupAgain, LookupEmpty, Observe
<1>7. CASE SettleEntry \/ SettleExit \/ SettleStranded \/ SettlePending \/ SettleRecovered
  BY <1>0, <1>7 DEF SettleEntry, SettleExit, SettleStranded, SettlePending, SettleRecovered
<1>8. CASE SweepRest \/ CloseStranded \/ SweepUnconfirmed
  BY <1>0, <1>8 DEF SweepRest, CloseStranded, SweepUnconfirmed
<1>9. CASE Exchange
  BY <1>0, <1>9 DEF Exchange, Accept, Drop, Fill, EndShort
<1>10. QED
  BY <1>1, <1>2, <1>3, <1>4, <1>5, <1>6, <1>7, <1>8, <1>9 DEF Next, Step

\* Only an answer changes what the ledger says is held.
LEMMA LedgerExposure ==
  ASSUME TypeOK, OrderStep
  PROVE  \/ Exposure(ledger') = Exposure(ledger)
         \/ mem'.exposure = Exposure(ledger') /\ \E r \in Rows, l \in Row : OrderRead(r, l)
<1>0. /\ ledger \in Seq(Row) /\ exch \in Seq(ExchOrder) /\ Len(exch) = Len(ledger) /\ Rows = 1..Len(ledger)
      /\ ledger' \in Seq(Row) /\ exch' \in Seq(ExchOrder) /\ Len(exch') = Len(ledger')
  BY TypeFacts, OrdersTyped
<1>1. CASE ledger' = ledger
  BY <1>1
<1>2. ASSUME NEW r \in Rows, NEW l \in Row, OrderMarked(r, l) PROVE Exposure(ledger') = Exposure(ledger)
  <2>1. DOMAIN ledger' = DOMAIN ledger
    BY <1>2 DEF OrderMarked
  <2>2. \A i \in DOMAIN ledger : ledger'[i].purpose = ledger[i].purpose /\ ledger'[i].filled = ledger[i].filled
    BY <1>0, <1>2 DEF OrderMarked, SameOrder
  <2>3. NetTerms(ledger', ledger') = NetTerms(ledger, ledger)
    BY <2>1, <2>2 DEF NetTerms
  <2>4. QED
    BY <2>3, SumsAre DEF Exposure
<1>3. ASSUME NEW r \in Rows, NEW l \in Row, OrderRead(r, l) PROVE mem'.exposure = Exposure(ledger')
  BY <1>3 DEF OrderRead, TypeOK
<1>4. ASSUME NEW l \in Row, OrderSent(l) PROVE Exposure(ledger') = Exposure(ledger)
  <2> DEFINE N == Len(ledger) + 1
             f == NetTerms(ledger, ledger)
             g == NetTerms(ledger', ledger')
  <2>1. Len(ledger') = N /\ ledger'[N] = l /\ N \in 1..N /\ \A i \in 1..Len(ledger) : ledger'[i] = ledger[i] /\ i \in 1..N
    BY <1>0, <1>4 DEF OrderSent
  <2>2. f \in Seq(Int) /\ Len(f) = Len(ledger) /\ g \in Seq(Int) /\ Len(g) = N
    BY <1>0, <2>1, TermFacts
  <2>3. /\ \A i \in 1..Len(ledger) : g[i] = f[i]
        /\ g[N] = IF l.purpose = "entry" THEN l.filled ELSE -l.filled
    BY <1>0, <2>1 DEF NetTerms
  <2>4. g[N] = 0
    <3>1. l.filled \in Int /\ l.filled <= 0 /\ l.filled >= 0
      BY <1>4 DEF OrderSent
    <3>2. \A n \in Int : n <= 0 /\ n >= 0 => n = 0 /\ 0 - n = 0 /\ -n = 0 - n
      OBVIOUS
    <3> HIDE DEF g, N
    <3>3. CASE l.purpose = "entry"
      BY <2>3, <3>1, <3>2, <3>3
    <3>4. CASE l.purpose # "entry"
      <4>1. g[N] = -l.filled
        BY <2>3, <3>4
      <4>2. QED
        BY <4>1, <3>1, <3>2
    <3>5. QED
      BY <3>3, <3>4
  <2> HIDE DEF f, g
  <2>5. Total(g) = Total(f) + g[N] /\ Total(f) \in Int
    BY <2>1, <2>2, <2>3, TotalAppend, TotalInt
  <2>6. Total(g) = Total(f)
    BY <2>4, <2>5
  <2>7. Net(ledger', ledger') = Net(ledger, ledger)
    BY <2>6, SumsAre DEF f, g
  <2>8. QED
    BY <2>7 DEF Exposure
<1>5. QED
  BY <1>1, <1>2, <1>3, <1>4 DEF OrderStep, OrdersKept, OrderMoves

\* No step spoils what is counted.
LEMMA NextCounted ==
  ASSUME TypeOK, Records, Counted, OrderStep, Next
  PROVE  Counted'
<1>1. mem'.exposure \in {0, Exposure(ledger')}
  BY ExposureStep, LedgerExposure DEF Counted
<1>2. QED
  BY <1>1, NextCovered DEF Counted

\* One entry of at most Qty contracts is all that adds to the exposure.
LEMMA ExposureBounded ==
  ASSUME NEW l \in Seq(Row),
         \A r \in 1..Len(l) : l[r].purpose = "entry" => l[r].cmd = 1 /\ l[r].filled <= Qty,
         \A r, s \in 1..Len(l) : l[r].cmd = l[s].cmd /\ l[r].cmd # 0 => r = s
  PROVE  Exposure(l) \in 0..Qty
<1> DEFINE f == NetTerms(l, l)
<1>0. Qty \in Nat
  BY ExecutorAssumption DEF ExecutorAssumption
<1>1. f \in [1..Len(l) -> Int] /\ f \in Seq(Int) /\ Len(f) = Len(l) /\ Len(l) \in Nat
  <2>1. ASSUME NEW r \in 1..Len(l) PROVE l[r].filled \in Nat
    <3>1. l[r] \in Row
      BY ElementOfSeq
    <3>2. QED
      BY <3>1 DEF Row
  <2>2. f \in [1..Len(l) -> Int]
    BY <2>1 DEF NetTerms
  <2>3. QED
    BY <2>2
<1>2. ASSUME NEW r \in 1..Len(l) PROVE /\ l[r].purpose # "entry" => f[r] <= 0
                                       /\ l[r].purpose = "entry" => f[r] <= Qty
  <2>1. l[r] \in Row
    BY ElementOfSeq
  <2>2. QED
    BY <2>1 DEF NetTerms, Row
<1>3. Net(l, l) = Total(f)
  BY SumsAre
<1> HIDE DEF f
<1>4. Total(f) \in Int /\ Total(f) <= Qty
  <2>1. Total(f) \in Int
    BY <1>1, TotalInt
  <2>2. CASE \A r \in 1..Len(l) : l[r].purpose # "entry"
    <3>1. Total(f) <= 0
      BY <1>1, <1>2, <2>2, TotalNotPositive
    <3>2. QED
      BY <3>1, <2>1, <1>0
  <2>3. CASE \E r \in 1..Len(l) : l[r].purpose = "entry"
    <3>1. PICK r \in 1..Len(l) : l[r].purpose = "entry"
      BY <2>3
    <3> DEFINE g == [i \in 1..Len(l) |-> IF i = r THEN 0 ELSE f[i]]
    <3>2. \A i \in 1..Len(l) : i # r => l[i].purpose # "entry"
      BY <3>1
    <3>3. g \in Seq(Int) /\ Len(g) = Len(l) /\ r \in 1..Len(f)
      BY <1>1
    <3>4. (\A i \in 1..Len(f) : i # r => g[i] = f[i]) /\ g[r] = 0
      BY <1>1
    <3>5. \A i \in 1..Len(g) : g[i] <= 0
      BY <1>2, <3>2, <3>3
    <3> HIDE DEF g
    <3>6. Total(g) <= 0 /\ Total(g) \in Int
      BY <3>3, <3>5, TotalNotPositive, TotalInt
    <3>7. Total(g) = Total(f) - f[r] + g[r]
      BY <1>1, <3>3, <3>4, TotalUpdate
    <3>8. f[r] \in Int /\ f[r] <= Qty
      BY <1>1, <1>2, <3>1
    <3>9. QED
      BY <3>4, <3>6, <3>7, <3>8, <2>1, <1>0
  <2>4. QED
    BY <2>1, <2>2, <2>3
<1>5. QED
  BY <1>0, <1>3, <1>4 DEF Exposure, NotBelowZero

\* The row in hand.
LEMMA RowInHand ==
  ASSUME TypeOK, Records, Control, ctl.at \in {"post", "confirm", "settle"}
  PROVE  /\ ctl.row \in Rows /\ ledger[ctl.row] \in Row /\ exch[ctl.row] \in ExchOrder
         /\ RowOK(ledger[ctl.row], exch[ctl.row])
         /\ ledger[ctl.row].purpose = "entry" => ledger[ctl.row].filled \in 0..Qty
<1>1. ctl.row \in Rows
  BY TypeFacts DEF TypeOK, Control, Places
<1>2. ledger[ctl.row] \in Row /\ exch[ctl.row] \in ExchOrder /\ RowOK(ledger[ctl.row], exch[ctl.row])
  BY <1>1, TypeFacts DEF Records
<1>3. ledger[ctl.row].purpose = "entry" => ledger[ctl.row].size <= Qty
  BY <1>1 DEF Records
<1>4. QED
  BY <1>1, <1>2, <1>3, ExecutorAssumption DEF RowOK, Row, ExchOrder, ExecutorAssumption

BookType == [status : {"none", "open", "closed", "void"}, qty : 0..Qty, open : 0..Qty]

\* Steps that leave the paper position and the outbox alone.
LEMMA PaperKept ==
  ASSUME TypeOK,
         \/ SweepTick \/ Crash \/ TakeTask \/ RecoverRow \/ RecoverExposure \/ SnapshotAnswered \/ SnapshotFails
         \/ DrainEnds \/ DrainKnown \/ PostOk \/ PostRejected \/ PostUnanswered
         \/ LookupDone \/ LookupOpen \/ LookupAgain \/ LookupEmpty \/ SettleExit \/ SettleStranded \/ SettlePending
         \/ SweepRest \/ CloseStranded \/ SweepUnconfirmed \/ Exchange \/ LeverageHeld
  PROVE  book' = book /\ cmds' = cmds
<1>1. CASE SweepTick \/ Crash \/ TakeTask \/ RecoverRow \/ RecoverExposure \/ SnapshotAnswered \/ SnapshotFails
  BY <1>1 DEF SweepTick, Crash, TakeTask, RecoverRow, RecoverExposure, SnapshotAnswered, SnapshotFails, durable
<1>2. CASE DrainEnds \/ DrainKnown \/ PostOk \/ PostRejected \/ PostUnanswered \/ LeverageHeld
  BY <1>2 DEF DrainEnds, DrainKnown, PostOk, PostRejected, PostUnanswered, LeverageHeld, durable
<1>3. CASE LookupDone \/ LookupOpen \/ LookupAgain \/ LookupEmpty \/ SettleExit \/ SettleStranded \/ SettlePending
  BY <1>3 DEF LookupDone, LookupOpen, LookupAgain, LookupEmpty, SettleExit, SettleStranded, SettlePending, durable
<1>4. CASE SweepRest \/ CloseStranded \/ SweepUnconfirmed \/ Exchange
  BY <1>4 DEF SweepRest, CloseStranded, SweepUnconfirmed, Exchange, Accept, Drop, Fill, EndShort, durable
<1>5. QED
  BY <1>1, <1>2, <1>3, <1>4

\* Types, variable by variable: the paper book.
LEMMA NextBook ==
  ASSUME TypeOK, Records, Control, Next
  PROVE  book' \in BookType /\ (book'.status = "none" => book.status = "none" /\ cmds' = cmds)
<1>0. book \in BookType /\ Qty \in Nat
  BY ExecutorAssumption DEF TypeOK, BookType, ExecutorAssumption
<1>1. ASSUME Void PROVE book' \in BookType /\ (book'.status = "none" => book.status = "none")
  BY <1>0, <1>1 DEF Void, BookType
<1>2. ASSUME NEW n \in 0..Qty, Adopt(n) PROVE book' \in BookType /\ (book'.status = "none" => book.status = "none")
  BY <1>0, <1>2 DEF Adopt, BookType
<1>3. CASE PaperEntry
  BY <1>0, <1>3 DEF PaperEntry, BookType
<1>4. ASSUME NEW q \in 1..Qty, PaperExit(q)
      PROVE  book' \in BookType /\ (book'.status = "none" => book.status = "none" /\ cmds' = cmds)
  <2>1. book.open \in 0..Qty /\ q \in 1..book.open /\ book.status = "open"
    BY <1>0, <1>4 DEF PaperExit, BookType
  <2>2. book.open - q \in 0..Qty /\ 0 \in 0..Qty
    BY <1>0, <2>1
  <2>3. \/ book' = [book EXCEPT !.open = @ - q]
        \/ book' = [book EXCEPT !.open = 0, !.status = "closed"]
    BY <1>4 DEF PaperExit
  <2>4. QED
    BY <1>0, <2>1, <2>2, <2>3 DEF BookType
<1>5. CASE DrainStale \/ DrainExpired \/ DrainWaits \/ DrainEntry \/ DrainExit \/ RecordCommand
  <2>1. book' = book
    BY <1>5 DEF DrainStale, DrainExpired, DrainWaits, DrainEntry, DrainExit, RecordCommand
  <2>2. cmds = <<>> => ctl.todo = {}
    BY DEF TypeOK
  <2>3. ctl.todo # {}
    BY <1>5 DEF DrainStale, DrainExpired, DrainWaits, DrainEntry, DrainExit, RecordCommand, Draining, Control, Places
  <2>4. book.status # "none"
    BY <2>2, <2>3 DEF Records
  <2>5. QED
    BY <2>1, <2>4, <1>0
<1>6. CASE LeverageRefused \/ VoidPosition
  BY <1>1, <1>6 DEF LeverageRefused, VoidPosition
<1>7. CASE SettleEntry
  <2>1. ctl.at = "settle" /\ ledger[ctl.row].filled \in 0..Qty /\ cmds' = cmds
    BY <1>7, RowInHand DEF SettleEntry, Control, InHand
  <2>2. book' = book \/ Void \/ Adopt(ledger[ctl.row].filled)
    BY <1>7 DEF SettleEntry
  <2>3. QED
    BY <1>0, <1>1, <1>2, <2>1, <2>2
<1>8. CASE SettleRecovered
  <2>1. ctl.at = "settle" /\ cmds' = cmds
    BY <1>8 DEF SettleRecovered
  <2>2. \/ book' = book \/ Void
        \/ ledger[ctl.row].purpose = "entry" /\ Adopt(ledger[ctl.row].filled)
    BY <1>8 DEF SettleRecovered
  <2>3. QED
    BY <1>0, <1>1, <1>2, <2>1, <2>2, RowInHand
<1>9. CASE book' = book /\ cmds' = cmds
  BY <1>0, <1>9, Zenon
<1>10. QED
  BY <1>3, <1>4, <1>5, <1>6, <1>7, <1>8, <1>9, PaperKept DEF Next, Step

CommandType == [kind : {"entry", "exit"}, qty : 1..Qty, state : CommandStates]

\* The outbox grows by the commands of the paper book, the first of them its entry.
LEMMA NextCmds ==
  ASSUME TypeOK, Records, Control, Next
  PROVE  /\ cmds' \in Seq(CommandType) /\ Len(cmds') \in {Len(cmds), Len(cmds) + 1}
         /\ DOMAIN cmds = 1..Len(cmds) /\ DOMAIN cmds' = 1..Len(cmds')
         /\ \A c \in DOMAIN cmds : cmds'[c].kind = cmds[c].kind /\ cmds'[c].qty = cmds[c].qty
         /\ \A c \in DOMAIN cmds' : cmds'[c].kind = "entry" => c = 1
<1>0. /\ cmds \in Seq(CommandType) /\ DOMAIN cmds = 1..Len(cmds) /\ Len(cmds) \in Nat
      /\ \A c \in DOMAIN cmds : cmds[c] \in CommandType
      /\ \A c \in DOMAIN cmds : cmds[c].kind = "entry" => c = 1
  BY TypeFacts DEF TypeOK, CommandType, Records
<1> DEFINE Good == /\ cmds' \in Seq(CommandType) /\ Len(cmds') \in {Len(cmds), Len(cmds) + 1}
                   /\ \A c \in DOMAIN cmds : cmds'[c].kind = cmds[c].kind /\ cmds'[c].qty = cmds[c].qty
                   /\ \A c \in DOMAIN cmds' : cmds'[c].kind = "entry" => c = 1
<1>1. ASSUME cmds' = cmds PROVE Good
  BY <1>0, <1>1
<1>2. ASSUME NEW k \in {"entry", "exit"}, NEW q \in 1..Qty, cmds' = Append(cmds, Command(k, q)),
             k = "entry" => cmds = <<>>
      PROVE  Good
  <2>1. Command(k, q) \in CommandType /\ Command(k, q).kind = k
    BY DEF Command, CommandType, CommandStates
  <2> DEFINE N == Len(cmds) + 1
  <2>2. /\ cmds' \in Seq(CommandType) /\ Len(cmds') = N /\ cmds'[N] = Command(k, q)
        /\ \A c \in DOMAIN cmds : cmds'[c] = cmds[c]
    BY <1>0, <1>2, <2>1
  <2>3. DOMAIN cmds' = 1..N /\ (k = "entry" => N = 1)
    BY <1>2, <2>2
  <2>4. \A c \in 1..N : c \in DOMAIN cmds \/ c = N
    BY <1>0
  <2> HIDE DEF N
  <2>5. Len(cmds') \in {Len(cmds), Len(cmds) + 1}
    BY <2>2 DEF N
  <2>6. QED
    BY <1>0, <2>1, <2>2, <2>3, <2>4, <2>5
<1>3. ASSUME NEW s \in CommandStates, cmds' = [cmds EXCEPT ![Cmd].state = s], ctl.todo # {} PROVE Good
  <2>1. Cmd \in DOMAIN cmds
    BY <1>3, CommandInHand
  <2>2. [cmds[Cmd] EXCEPT !.state = s] \in CommandType
    BY <1>0, <2>1 DEF CommandType
  <2>3. cmds' = [cmds EXCEPT ![Cmd] = [cmds[Cmd] EXCEPT !.state = s]]
    BY <1>3
  <2>4. cmds' \in Seq(CommandType) /\ Len(cmds') = Len(cmds) /\ DOMAIN cmds' = DOMAIN cmds
    BY <1>0, <2>1, <2>2, <2>3
  <2>5. \A c \in DOMAIN cmds : cmds'[c].kind = cmds[c].kind /\ cmds'[c].qty = cmds[c].qty
    BY <1>0, <2>1, <2>3 DEF CommandType
  <2>6. QED
    BY <1>0, <2>4, <2>5
<1> HIDE DEF Good
<1>4. ASSUME PaperEntry PROVE Good
  <2>1. cmds' = Append(cmds, Command("entry", Qty)) /\ cmds = <<>> /\ Qty \in 1..Qty
    BY <1>4, ExecutorAssumption DEF PaperEntry, Records, ExecutorAssumption
  <2>2. "entry" \in {"entry", "exit"} /\ Qty \in 1..Qty /\ ("entry" = "entry" => cmds = <<>>)
    BY <2>1
  <2>3. QED
    BY <1>2, <2>1, <2>2
<1>5. ASSUME NEW q \in 1..Qty, PaperExit(q) PROVE Good
  <2>1. cmds' = Append(cmds, Command("exit", q)) /\ "exit" \in {"entry", "exit"} /\ ("exit" = "entry" => cmds = <<>>)
    BY <1>5 DEF PaperExit
  <2>2. QED
    BY <1>2, <2>1
<1>6. ASSUME DrainStale \/ DrainExpired \/ DrainWaits \/ DrainEntry \/ DrainExit \/ RecordCommand PROVE Good
  <2>1. ctl.todo # {}
    BY <1>6 DEF DrainStale, DrainExpired, DrainWaits, DrainEntry, DrainExit, RecordCommand, Draining, Control, Places
  <2>2. PICK s \in CommandStates : cmds' = [cmds EXCEPT ![Cmd].state = s]
    BY <1>6 DEF SetCommand, DrainStale, DrainExpired, DrainWaits, DrainEntry, DrainExit, RecordCommand, CommandStates
  <2>3. QED
    BY <1>3, <2>1, <2>2
<1>7. ASSUME LeverageRefused \/ VoidPosition \/ SettleEntry \/ SettleRecovered PROVE Good
  <2>1. cmds' = cmds
    BY <1>7 DEF LeverageRefused, VoidPosition, SettleEntry, SettleRecovered
  <2>2. QED
    BY <1>1, <2>1 DEF Good
<1>8. Good
  BY <1>1, <1>4, <1>5, <1>6, <1>7, PaperKept DEF Next, Step, Good
<1>9. DOMAIN cmds' = 1..Len(cmds')
  BY <1>8 DEF Good
<1>10. QED
  BY <1>0, <1>8, <1>9 DEF Good


\* The queue holds tasks.
LEMMA NextTasks ==
  ASSUME TypeOK, Next
  PROVE  tasks' \in Seq(Tasks)
<1>0. tasks \in Seq(Tasks)
  BY DEF TypeOK
<1>1. /\ <<"start">> \in Seq(Tasks) /\ <<"drain">> \in Seq(Tasks) /\ <<"voided">> \in Seq(Tasks)
      /\ <<"drain", "closed">> \in Seq(Tasks) /\ "sweep" \in Tasks
  BY DEF Tasks
<1>2. ASSUME NEW e \in Seq(Tasks), Emit(e) PROVE tasks' \in Seq(Tasks)
  BY <1>0, <1>2 DEF Emit
<1>3. ASSUME Void PROVE tasks' \in Seq(Tasks)
  BY <1>0, <1>1, <1>2, <1>3 DEF Void
<1>4. CASE PaperEntry
  BY <1>1, <1>2, <1>4 DEF PaperEntry
<1>5. ASSUME NEW q \in 1..Qty, PaperExit(q) PROVE tasks' \in Seq(Tasks)
  BY <1>1, <1>2, <1>5 DEF PaperExit
<1>6. CASE SweepTick \/ Crash
  <2>1. Append(tasks, "sweep") \in Seq(Tasks)
    BY <1>0, <1>1
  <2>2. QED
    BY <1>1, <1>6, <2>1 DEF SweepTick, Crash
<1>7. CASE TakeTask
  <2>1. tasks # <<>> /\ tasks' = Tail(tasks)
    BY <1>7 DEF TakeTask
  <2>2. QED
    BY <1>0, <2>1
<1>8. CASE RecoverRow \/ RecoverExposure \/ SnapshotAnswered \/ SnapshotFails \/ DrainEnds \/ DrainKnown \/ DrainStale
           \/ DrainExpired \/ DrainWaits \/ DrainEntry \/ DrainExit \/ LeverageHeld \/ RecordCommand
  BY <1>0, <1>1, <1>8 DEF RecoverRow, RecoverExposure, SnapshotAnswered, SnapshotFails, DrainEnds, DrainKnown,
     DrainStale, DrainExpired, DrainWaits, DrainEntry, DrainExit, LeverageHeld, RecordCommand
<1>9. CASE LeverageRefused \/ VoidPosition
  BY <1>3, <1>9 DEF LeverageRefused, VoidPosition
<1>10. CASE PostOk \/ PostRejected \/ PostUnanswered \/ LookupDone \/ LookupOpen \/ LookupAgain \/ LookupEmpty
           \/ SettleExit \/ SettleStranded \/ SettlePending \/ SweepRest \/ CloseStranded \/ SweepUnconfirmed
  BY <1>0, <1>10 DEF PostOk, PostRejected, PostUnanswered, LookupDone, LookupOpen, LookupAgain, LookupEmpty,
     SettleExit, SettleStranded, SettlePending, SweepRest, CloseStranded, SweepUnconfirmed
<1>11. CASE SettleEntry \/ SettleRecovered
  BY <1>0, <1>3, <1>11 DEF SettleEntry, SettleRecovered
<1>12. CASE Exchange
  BY <1>0, <1>12 DEF Exchange, Accept, Drop, Fill, EndShort
<1>13. QED
  BY <1>4, <1>5, <1>6, <1>7, <1>8, <1>9, <1>10, <1>11, <1>12 DEF Next, Step

\* What the ledger says is held is never more than the entry.
LEMMA ExposureInRange ==
  ASSUME TypeOK, Records, OncePerCommand, OrderStep
  PROVE  Exposure(ledger) \in 0..Qty /\ Exposure(ledger') \in 0..Qty
<1>1. Exposure(ledger) \in 0..Qty
  <2>1. ledger \in Seq(Row) /\ Rows = 1..Len(ledger)
    BY TypeFacts
  <2>2. ASSUME NEW r \in 1..Len(ledger), ledger[r].purpose = "entry"
        PROVE  ledger[r].cmd = 1 /\ ledger[r].filled <= Qty
    <3>1. RowOK(ledger[r], exch[r]) /\ ledger[r].cmd = 1 /\ ledger[r].size <= Qty
      BY <2>1, <2>2 DEF Records
    <3>2. ledger[r] \in Row /\ exch[r] \in ExchOrder /\ Qty \in Nat
      BY <2>1, TypeFacts, ExecutorAssumption DEF ExecutorAssumption
    <3>3. QED
      BY <3>1, <3>2 DEF RowOK, Row, ExchOrder
  <2>3. \A r, s \in 1..Len(ledger) : ledger[r].cmd = ledger[s].cmd /\ ledger[r].cmd # 0 => r = s
    BY <2>1 DEF OncePerCommand
  <2>4. QED
    BY <2>1, <2>2, <2>3, ExposureBounded
<1>2. Exposure(ledger') \in 0..Qty
  <2>1. ledger' \in Seq(Row) /\ Rows' = 1..Len(ledger')
    BY OrdersTyped
  <2>2. ASSUME NEW r \in 1..Len(ledger'), ledger'[r].purpose = "entry"
        PROVE  ledger'[r].cmd = 1 /\ ledger'[r].filled <= Qty
    <3>1. RowOK(ledger'[r], exch'[r]) /\ ledger'[r].cmd = 1 /\ ledger'[r].size <= Qty
      BY <2>1, <2>2, NextRows
    <3>2. ledger'[r] \in Row /\ exch'[r] \in ExchOrder /\ Qty \in Nat
      BY OrdersTyped, ExecutorAssumption DEF ExecutorAssumption
    <3>3. QED
      BY <3>1, <3>2 DEF RowOK, Row, ExchOrder
  <2>3. \A r, s \in 1..Len(ledger') : ledger'[r].cmd = ledger'[s].cmd /\ ledger'[r].cmd # 0 => r = s
    BY <2>1, NextOnce DEF OncePerCommand
  <2> DEFINE l == ledger'
  <2>4. l \in Seq(Row) /\ \A r \in 1..Len(l) : l[r].purpose = "entry" => l[r].cmd = 1 /\ l[r].filled <= Qty
    BY <2>1, <2>2
  <2>5. \A r, s \in 1..Len(l) : l[r].cmd = l[s].cmd /\ l[r].cmd # 0 => r = s
    BY <2>3
  <2> HIDE DEF l
  <2>6. Exposure(l) \in 0..Qty
    BY <2>4, <2>5, ExposureBounded
  <2>7. QED
    BY <2>6 DEF l
<1>3. QED
  BY <1>1, <1>2

MemType(n) == [exposure : 0..Qty, unconfirmed : 0..n, stranded : BOOLEAN,
               deferred : BOOLEAN, listening : BOOLEAN, products : BOOLEAN, unheard : BOOLEAN]

\* The executor's memory.
LEMMA NextMem ==
  ASSUME TypeOK, Records, OncePerCommand, Control, Next
  PROVE  mem' \in MemType(Len(ledger'))
<1>0. /\ mem \in MemType(Len(ledger)) /\ Len(ledger) \in Nat /\ Len(ledger') \in Nat /\ Len(ledger') >= Len(ledger)
      /\ Qty \in Nat
  BY StepKinds, OrdersTyped, TypeFacts, ExecutorAssumption DEF TypeOK, MemType, ExecutorAssumption
<1>1. mem \in MemType(Len(ledger'))
  BY <1>0 DEF MemType
<1>2. Exposure(ledger) \in 0..Qty /\ Exposure(ledger') \in 0..Qty
  BY ExposureInRange, StepKinds
<1>3. CASE mem' = mem
  BY <1>1, <1>3
<1>4. CASE Crash
  BY <1>0, <1>4 DEF Crash, NoMem, MemType
<1>5. CASE TakeTask \/ DrainKnown \/ DrainEnds
  <2>1. \/ mem' = mem
        \/ \E p \in BOOLEAN : mem' = [mem EXCEPT !.deferred = FALSE, !.products = p]
        \/ \E p \in BOOLEAN : mem' = [mem EXCEPT !.products = p]
        \/ mem' = [mem EXCEPT !.unconfirmed = 0, !.stranded = TRUE]
        \/ mem' = [mem EXCEPT !.unconfirmed = 0]
        \/ mem' = [mem EXCEPT !.listening = TRUE]
    <3>1. mem.products \in BOOLEAN
      BY <1>0 DEF MemType
    <3>2. QED
      BY <1>5, <3>1 DEF TakeTask, DrainKnown, DrainEnds, StartRecover, StartDrain
  <2>2. 0 \in 0..Len(ledger')
    BY <1>0
  <2>3. QED
    BY <1>1, <2>1, <2>2 DEF MemType
<1>6. CASE RecoverExposure \/ SnapshotAnswered \/ SnapshotFails
  BY <1>1, <1>2, <1>6 DEF RecoverExposure, SnapshotAnswered, SnapshotFails, MemType
<1>7. CASE LookupDone \/ LookupOpen \/ LookupAgain
  BY <1>1, <1>2, <1>7 DEF LookupDone, LookupOpen, LookupAgain, Observe, MemType
<1>8. CASE SettleEntry \/ SettleRecovered
  <2>1. ctl.at = "settle" /\ ctl.row \in 0..Len(ledger')
    <3>1. ctl.at = "settle"
      BY <1>8 DEF SettleEntry, SettleRecovered
    <3>2. ctl.row \in Rows
      BY <3>1, RowInHand
    <3>3. QED
      BY <1>0, <3>1, <3>2, TypeFacts
  <2>2. QED
    BY <1>1, <1>8, <2>1 DEF SettleEntry, SettleRecovered, MemType
<1>9. CASE SettleStranded \/ CloseStranded
  BY <1>1, <1>9 DEF SettleStranded, CloseStranded, MemType
<1>10. CASE PaperEntry \/ (\E q \in 1..Qty : PaperExit(q)) \/ SweepTick
  <2>1. mem' = mem \/ mem' = [mem EXCEPT !.unheard = ~mem.listening]
    BY <1>10 DEF PaperEntry, PaperExit, SweepTick
  <2>2. QED
    BY <1>1, <2>1 DEF MemType
<1>11. CASE RecoverRow \/ DrainStale \/ DrainExpired \/ DrainWaits \/ DrainEntry \/ DrainExit \/ LeverageHeld
            \/ LeverageRefused \/ VoidPosition \/ RecordCommand \/ PostOk \/ PostRejected \/ PostUnanswered
  BY <1>3, <1>11 DEF RecoverRow, DrainStale, DrainExpired, DrainWaits, DrainEntry, DrainExit, LeverageHeld,
     LeverageRefused, VoidPosition, RecordCommand, PostOk, PostRejected, PostUnanswered
<1>12. CASE LookupEmpty \/ SettleExit \/ SettlePending \/ SweepRest \/ SweepUnconfirmed \/ Exchange
  BY <1>3, <1>12 DEF LookupEmpty, SettleExit, SettlePending, SweepRest, SweepUnconfirmed, Exchange,
     Accept, Drop, Fill, EndShort
<1>13. QED
  BY <1>4, <1>5, <1>6, <1>7, <1>8, <1>9, <1>10, <1>11, <1>12 DEF Next, Step

\* The counters of the bounds.
LEMMA NextBudget ==
  ASSUME TypeOK, Next
  PROVE  faults' \in 0..MaxFaults /\ shorts' \in 0..MaxShort /\ crashes' \in 0..MaxCrashes
<1>0. faults \in 0..MaxFaults /\ shorts \in 0..MaxShort /\ crashes \in 0..MaxCrashes
      /\ MaxFaults \in Nat /\ MaxShort \in Nat /\ MaxCrashes \in Nat
  BY ExecutorAssumption DEF TypeOK, ExecutorAssumption
<1>1. CASE UNCHANGED budget
  BY <1>0, <1>1 DEF budget
<1>2. ASSUME Fault \/ UNCHANGED faults, UNCHANGED <<shorts, crashes>>
      PROVE  faults' \in 0..MaxFaults /\ shorts' \in 0..MaxShort /\ crashes' \in 0..MaxCrashes
  BY <1>0, <1>2 DEF Fault
<1>3. CASE Exchange
  <2>1. PICK r \in Rows : Accept(r) \/ Fill(r) \/ EndShort(r) \/ \E how \in {"lost", "refused"} : Drop(r, how)
    BY <1>3 DEF Exchange
  <2>2. CASE Accept(r) \/ Fill(r)
    BY <2>2, <1>1 DEF Accept, Fill
  <2>3. CASE EndShort(r)
    BY <2>3, <1>0 DEF EndShort
  <2>4. CASE \E how \in {"lost", "refused"} : Drop(r, how)
    BY <2>4, <1>2 DEF Drop
  <2>5. QED
    BY <2>1, <2>2, <2>3, <2>4
<1>4. CASE Crash
  BY <1>0, <1>4 DEF Crash
<1>5. CASE PaperEntry \/ (\E q \in 1..Qty : PaperExit(q)) \/ SweepTick
  BY <1>1, <1>5 DEF PaperEntry, PaperExit, SweepTick
<1>6. CASE SnapshotFails \/ PostUnanswered \/ LookupEmpty \/ TakeTask
  BY <1>2, <1>6 DEF SnapshotFails, PostUnanswered, LookupEmpty, TakeTask, LoadProducts, SweepLoads
<1>7. CASE DrainWaits \/ RecoverRow \/ RecoverExposure \/ SnapshotAnswered \/ DrainEnds \/ DrainKnown \/ DrainStale
           \/ DrainExpired \/ DrainEntry \/ DrainExit \/ LeverageHeld
  BY <1>1, <1>7 DEF DrainWaits, RecoverRow, RecoverExposure, SnapshotAnswered, DrainEnds, DrainKnown, DrainStale,
     DrainExpired, DrainEntry, DrainExit, LeverageHeld
<1>8. CASE LeverageRefused \/ VoidPosition \/ RecordCommand \/ PostOk \/ PostRejected \/ LookupDone \/ LookupOpen
           \/ LookupAgain \/ SettleEntry
  BY <1>1, <1>8 DEF LeverageRefused, VoidPosition, RecordCommand, PostOk, PostRejected, LookupDone, LookupOpen,
     LookupAgain, SettleEntry
<1>9. CASE SettleExit \/ SettleStranded \/ SettlePending \/ SettleRecovered \/ SweepRest \/ CloseStranded \/ SweepUnconfirmed
  BY <1>1, <1>9 DEF SettleExit, SettleStranded, SettlePending, SettleRecovered, SweepRest, CloseStranded, SweepUnconfirmed
<1>10. QED
  BY <1>3, <1>4, <1>5, <1>6, <1>7, <1>8, <1>9 DEF Next, Step

CtlType(n, m) == [task : Tasks, at : Points, why : Reasons, row : 0..n,
                  verdict : {"none", "filled", "unfilled", "unknown"}, nested : BOOLEAN,
                  todo : SUBSET (1..m), rows : SUBSET (1..n)]

\* Where the running task stands.
LEMMA NextCtl ==
  ASSUME TypeOK, Records, Control, Next
  PROVE  ctl' \in CtlType(Len(ledger'), Len(cmds'))
<1> DEFINE n == Len(ledger')
           m == Len(cmds')
           T == CtlType(n, m)
<1>1. /\ Len(ledger) \in Nat /\ n \in {Len(ledger), Len(ledger) + 1} /\ Rows = 1..Len(ledger)
      /\ Len(cmds) \in Nat /\ m \in {Len(cmds), Len(cmds) + 1} /\ DOMAIN cmds = 1..Len(cmds)
  <2>1. OrderStep
    BY StepKinds
  <2>2. n \in {Len(ledger), Len(ledger) + 1}
    BY <2>1, OrdersTyped
  <2>3. ledger \in Seq(Row) /\ Rows = 1..Len(ledger) /\ cmds \in Seq([kind : {"entry", "exit"}, qty : 1..Qty, state : CommandStates])
    BY TypeFacts, Zenon
  <2>4. m \in {Len(cmds), Len(cmds) + 1} /\ DOMAIN cmds = 1..Len(cmds)
    BY NextCmds
  <2> HIDE DEF n, m
  <2>5. QED
    BY <2>2, <2>3, <2>4
<1>2. 0..Len(ledger) \in SUBSET (0..n) /\ Rows \in SUBSET (1..n) /\ DOMAIN cmds \in SUBSET (1..m) /\ 0 \in 0..n
  BY <1>1
<1>3. ctl \in [task : Tasks, at : Points, why : Reasons, row : 0..Len(ledger),
               verdict : {"none", "filled", "unfilled", "unknown"}, nested : BOOLEAN,
               todo : SUBSET DOMAIN cmds, rows : SUBSET Rows]
  BY DEF TypeOK
<1> HIDE DEF n, m
<1> SUFFICES ctl' \in T
  BY DEF n, m
<1>4. ctl \in T
  BY <1>2, <1>3 DEF CtlType
<1>5. NoCtl \in T
  BY <1>2 DEF NoCtl, CtlType, Tasks, Points, Reasons
<1>6. Pending \in SUBSET (1..m) /\ Unsettled \in SUBSET (1..n) /\ {r \in Rows : ledger[r].cmd \in Pending} \in SUBSET (1..n)
  BY <1>2 DEF Pending, Unsettled
<1>7. ASSUME NEW p \in Points, Goto(p) PROVE ctl' \in T
  BY <1>2, <1>4, <1>7 DEF Goto, CtlType, Reasons
<1>8. ASSUME Finish PROVE ctl' \in T
  BY <1>5, <1>8 DEF Finish
<1>9. ASSUME NextCommand \/ StopDrain PROVE ctl' \in T
  <2>1. /\ ctl.todo \ {Cmd} \in SUBSET (1..m) /\ {} \in SUBSET (1..m)
        /\ "drain" \in Points /\ "none" \in Reasons
    BY <1>4 DEF CtlType, Points, Reasons
  <2>2. \/ ctl' = [ctl EXCEPT !.at = "drain", !.why = "none", !.row = 0, !.verdict = "none", !.todo = ctl.todo \ {Cmd}]
        \/ ctl' = [ctl EXCEPT !.todo = {}]
    BY <1>9 DEF NextCommand, StopDrain
  <2>3. QED
    BY <1>2, <1>4, <2>1, <2>2 DEF CtlType
<1>10. ASSUME NEW v \in {"filled", "unfilled", "unknown"}, Verdict(v) PROVE ctl' \in T
  BY <1>2, <1>4, <1>10 DEF Verdict, CtlType, Points
<1>11. ASSUME NEW c, NEW s, NEW p, NEW q, NEW w \in Reasons, Send(c, s, p, q, w) PROVE ctl' \in T
  <2>1. ctl' = [ctl EXCEPT !.at = "post", !.why = w, !.row = Len(ledger) + 1, !.verdict = "none"]
    BY <1>11 DEF Send
  <2>2. n = Len(ledger) + 1
    <3>1. ledger \in Seq(Row)
      BY TypeFacts
    <3>2. QED
      BY <3>1, <1>11 DEF Send, n
  <2>3. Len(ledger) + 1 \in 0..n
    BY <2>2, <1>1
  <2>4. QED
    BY <1>4, <2>1, <2>3 DEF CtlType, Points
<1>12. ASSUME FinishStrand PROVE ctl' \in T
  <2>1. "unconfirmed" \in Points
    BY DEF Points
  <2>2. QED
    BY <2>1, <1>7, <1>8, <1>12 DEF FinishStrand
<1>13. ASSUME NEW b \in BOOLEAN, NEW t \in Tasks, NEW k, StartRecover(b, t, k) \/ StartDrain(t, k) PROVE ctl' \in T
  <2>1. Unsettled \cup {r \in Rows : ledger[r].cmd \in Pending} \in SUBSET (1..n)
    BY <1>6
  <2>2. \/ ctl' = [ctl EXCEPT !.task = t, !.at = "recover", !.nested = b, !.why = "none", !.row = 0,
                              !.rows = Unsettled \cup {r \in Rows : ledger[r].cmd \in Pending}]
        \/ ctl' = [ctl EXCEPT !.task = t, !.at = "drain", !.nested = FALSE, !.todo = Pending]
    BY <1>13 DEF StartRecover, StartDrain
  <2>3. /\ "recover" \in Points /\ "drain" \in Points /\ "none" \in Reasons /\ FALSE \in BOOLEAN
        /\ Pending \in SUBSET (1..m) /\ 0 \in 0..n
    BY <1>2, <1>6 DEF Points, Reasons
  <2>4. CASE ctl' = [ctl EXCEPT !.task = t, !.at = "recover", !.nested = b, !.why = "none", !.row = 0,
                                !.rows = Unsettled \cup {r \in Rows : ledger[r].cmd \in Pending}]
    <3> DEFINE R == Unsettled \cup {r \in Rows : ledger[r].cmd \in Pending}
    <3>1. R \in SUBSET (1..n)
      BY <2>1
    <3>2. ctl' = [ctl EXCEPT !.task = t, !.at = "recover", !.nested = b, !.why = "none", !.row = 0, !.rows = R]
      BY <2>4
    <3> HIDE DEF R
    <3>3. QED
      BY <1>4, <1>13, <2>3, <3>1, <3>2 DEF CtlType
  <2>5. CASE ctl' = [ctl EXCEPT !.task = t, !.at = "drain", !.nested = FALSE, !.todo = Pending]
    BY <1>4, <1>13, <2>3, <2>5 DEF CtlType
  <2>6. QED
    BY <2>2, <2>4, <2>5
<1>14. ASSUME ctl' = ctl PROVE ctl' \in T
  BY <1>4, <1>14
<1>15. ASSUME NEW p \in Points, ctl' = [ctl EXCEPT !.at = p] PROVE ctl' \in T
  BY <1>4, <1>15 DEF CtlType
<1>16. /\ "drain" \in Points /\ "leverage" \in Points /\ "void" \in Points /\ "post" \in Points /\ "confirm" \in Points
       /\ "record" \in Points /\ "rest" \in Points /\ "strand" \in Points /\ "snapshot" \in Points
       /\ "recover" \in Points /\ "unconfirmed" \in Points
       /\ "enter" \in Reasons /\ "exit" \in Reasons /\ "rest" \in Reasons /\ "stranded" \in Reasons
  BY DEF Points, Reasons
<1>17. CASE PaperEntry \/ (\E q \in 1..Qty : PaperExit(q)) \/ SweepTick \/ Exchange
  BY <1>14, <1>17 DEF PaperEntry, PaperExit, SweepTick, Exchange, Accept, Drop, Fill, EndShort
<1>18. CASE TakeTask
  <2>1. tasks # <<>> /\ tasks \in Seq(Tasks)
    BY <1>18 DEF TakeTask, TypeOK
  <2>2. Head(tasks) \in Tasks
    BY <2>1
  <2> DEFINE t == Head(tasks)
  <2>3. \/ \E k : StartRecover(FALSE, t, k) \/ StartDrain(t, k)
        \/ ctl' = ctl \/ ctl' = [ctl EXCEPT !.task = t, !.at = "strand"]
    BY <1>18 DEF TakeTask
  <2> HIDE DEF t
  <2>4. t \in Tasks /\ FALSE \in BOOLEAN
    BY <2>2 DEF t
  <2>5. CASE ctl' = [ctl EXCEPT !.task = t, !.at = "strand"]
    BY <1>4, <1>16, <2>4, <2>5 DEF CtlType
  <2>6. QED
    BY <1>13, <1>14, <2>3, <2>4, <2>5
<1>19. CASE RecoverRow
  <2>1. ctl.rows # {} /\ ctl.rows \in SUBSET Rows /\ Rows \in SUBSET Nat
    BY <1>1, <1>3, <1>19 DEF RecoverRow
  <2> DEFINE r == Min(ctl.rows)
  <2>2. r \in ctl.rows
    BY <2>1, MinIsLeast
  <2>3. r \in 0..n
    BY <2>1, <2>2, <1>1
  <2> DEFINE p == IF r \in Unsettled THEN "confirm" ELSE "settle"
             v == CASE r \in Unsettled -> "none" [] ledger[r].state = "filled" -> "filled" [] OTHER -> "unfilled"
  <2>4. p \in {"confirm", "settle"} /\ v \in {"none", "filled", "unfilled"}
    OBVIOUS
  <2>5. ctl' = [ctl EXCEPT !.why = "recover", !.row = r, !.rows = @ \ {r}, !.at = p, !.verdict = v]
    BY <1>19 DEF RecoverRow
  <2> HIDE DEF r, p, v
  <2>6. QED
    BY <1>4, <2>3, <2>4, <2>5 DEF CtlType, Points, Reasons
<1>20. CASE RecoverExposure
  BY <1>7, <1>16, <1>20 DEF RecoverExposure
<1>21. CASE SnapshotAnswered \/ SnapshotFails
  <2>1. ctl.todo \in SUBSET (1..m) /\ FALSE \in BOOLEAN /\ "record" \in Points /\ "drain" \in Points
    BY <1>4 DEF CtlType, Points
  <2>2. \/ ctl' = [ctl EXCEPT !.at = "record", !.nested = FALSE]
        \/ ctl' = [ctl EXCEPT !.at = "drain", !.todo = Pending]
    BY <1>21 DEF SnapshotAnswered, SnapshotFails, AfterRecover
  <2>3. CASE ctl' = [ctl EXCEPT !.at = "record", !.nested = FALSE]
    BY <1>4, <2>1, <2>3 DEF CtlType
  <2>4. CASE ctl' = [ctl EXCEPT !.at = "drain", !.todo = Pending]
    BY <1>4, <1>6, <2>1, <2>4 DEF CtlType
  <2>5. QED
    BY <2>2, <2>3, <2>4
<1>22. CASE DrainEnds
  BY <1>7, <1>8, <1>16, <1>22 DEF DrainEnds
<1>23. CASE DrainKnown
  <2>1. ctl.task \in Tasks /\ TRUE \in BOOLEAN
    BY <1>3
  <2>2. QED
    BY <1>13, <1>23, <2>1 DEF DrainKnown
<1>24. CASE DrainStale \/ DrainWaits \/ RecordCommand
  BY <1>9, <1>24 DEF DrainStale, DrainWaits, RecordCommand
<1>25. CASE DrainExpired
  BY <1>4, <1>25 DEF DrainExpired, CtlType, Points, Reasons
<1>26. CASE DrainEntry
  BY <1>7, <1>16, <1>26 DEF DrainEntry
<1>27. CASE DrainExit
  BY <1>9, <1>11, <1>16, <1>27 DEF DrainExit
<1>28. CASE LeverageHeld
  BY <1>7, <1>11, <1>16, <1>28 DEF LeverageHeld
<1>29. CASE LeverageRefused \/ VoidPosition
  BY <1>7, <1>9, <1>16, <1>29 DEF LeverageRefused, VoidPosition
<1>30. CASE PostOk \/ PostUnanswered
  BY <1>12, <1>15, <1>16, <1>30 DEF PostOk, PostUnanswered
<1>31. CASE PostRejected
  BY <1>7, <1>12, <1>15, <1>16, <1>31 DEF PostRejected
<1>32. CASE LookupDone \/ LookupOpen \/ LookupEmpty
  BY <1>10, <1>32 DEF LookupDone, LookupOpen, LookupEmpty
<1>33. CASE LookupAgain
  BY <1>14, <1>33 DEF LookupAgain
<1>34. CASE SettleEntry \/ SettleExit
  BY <1>7, <1>8, <1>16, <1>34 DEF SettleEntry, SettleExit
<1>35. CASE SettleStranded
  BY <1>12, <1>35 DEF SettleStranded
<1>36. CASE SettlePending
  <2>1. CASE FinishStrand
    BY <1>12, <2>1
  <2>2. CASE ~FinishStrand
    <3>1. /\ ctl.rows # {}
          /\ ctl' = [ctl EXCEPT !.at = "confirm", !.row = Min(ctl.rows), !.rows = @ \ {Min(@)}, !.verdict = "none"]
      BY <1>36, <2>2 DEF SettlePending
    <3>2. Min(ctl.rows) \in ctl.rows /\ ctl.rows \in SUBSET Rows
      BY <1>1, <1>3, <3>1, MinIsLeast
    <3>3. Min(ctl.rows) \in 0..n
      BY <1>1, <3>2
    <3>4. QED
      BY <1>4, <3>1, <3>3 DEF CtlType, Points
  <2>3. QED
    BY <2>1, <2>2
<1>37. CASE SettleRecovered
  BY <1>7, <1>16, <1>37 DEF SettleRecovered
<1>38. CASE SweepRest
  BY <1>7, <1>11, <1>16, <1>38 DEF SweepRest
<1>39. CASE CloseStranded
  <2>1. CASE UnsettledExits # {} /\ ctl' = [ctl EXCEPT !.at = "confirm", !.why = "pending", !.row = Min(UnsettledExits),
                                                       !.rows = UnsettledExits \ {Min(UnsettledExits)}]
    <3>0. UnsettledExits \in SUBSET Unsettled /\ Unsettled \in SUBSET Rows
      BY DEF UnsettledExits, Unsettled
    <3>1. UnsettledExits \in SUBSET (1..n) /\ UnsettledExits \in SUBSET Nat
      <4>1. Rows \in SUBSET Nat /\ Rows \in SUBSET (1..n)
        BY <1>1, <1>2
      <4>2. QED
        BY <3>0, <4>1
    <3>2. Min(UnsettledExits) \in 0..n
      BY <2>1, <3>1, MinIsLeast
    <3>3. QED
      BY <1>4, <2>1, <3>1, <3>2 DEF CtlType, Points, Reasons
  <2>2. CASE FinishStrand
    BY <1>12, <2>2
  <2>3. CASE \E c, s, q : Send(c, s, "exit", q, "stranded")
    BY <1>11, <1>16, <2>3
  <2>4. QED
    BY <1>39, <2>1, <2>2, <2>3 DEF CloseStranded
<1>40. CASE SweepUnconfirmed
  <2>1. mem.unconfirmed \in 0..n
    BY <1>2 DEF TypeOK
  <2>2. QED
    <3>1. "confirm" \in Points /\ "unconfirmed" \in Reasons
      BY DEF Points, Reasons
    <3>2. \/ Finish
          \/ ctl' = [ctl EXCEPT !.at = "confirm", !.why = "unconfirmed", !.row = mem.unconfirmed]
      BY <1>40 DEF SweepUnconfirmed
    <3>3. CASE ctl' = [ctl EXCEPT !.at = "confirm", !.why = "unconfirmed", !.row = mem.unconfirmed]
      BY <1>4, <2>1, <3>1, <3>3 DEF CtlType
    <3>4. QED
      BY <1>8, <3>2, <3>3
<1>41. CASE Crash
  BY <1>5, <1>41 DEF Crash
<1>42. QED
  BY <1>17, <1>18, <1>19, <1>20, <1>21, <1>22, <1>23, <1>24, <1>25, <1>26, <1>27, <1>28, <1>29, <1>30, <1>31, <1>32, <1>33,
     <1>34, <1>35, <1>36, <1>37, <1>38, <1>39, <1>40, <1>41 DEF Next, Step, n, m

\* Every step keeps the types.
LEMMA NextTypes ==
  ASSUME IInv, Next
  PROVE  TypeOK'
<1>1. TypeOK /\ Records /\ OncePerCommand /\ Control
  BY DEF IInv
<1>2. /\ ledger' \in Seq(Row) /\ exch' \in Seq(ExchOrder) /\ Len(exch') = Len(ledger') /\ Rows' = 1..Len(ledger')
  BY <1>1, StepKinds, OrdersTyped
<1>3. cmds' \in Seq(CommandType) /\ DOMAIN cmds' = 1..Len(cmds')
  BY <1>1, NextCmds
<1>4. book' \in BookType /\ mem' \in MemType(Len(ledger')) /\ ctl' \in CtlType(Len(ledger'), Len(cmds'))
  BY <1>1, NextBook, NextMem, NextCtl
<1>5. tasks' \in Seq(Tasks) /\ faults' \in 0..MaxFaults /\ shorts' \in 0..MaxShort /\ crashes' \in 0..MaxCrashes
  BY <1>1, NextTasks, NextBudget
<1>6. QED
  BY <1>2, <1>3, <1>4, <1>5 DEF TypeOK, CommandType, BookType, MemType, CtlType, ExchOrder

----------------------------------------------------------------------------
(* The rest of the invariant.                                               *)

\* Every step keeps each row in agreement with its order at the exchange.
LEMMA NextRecords ==
  ASSUME IInv, Next
  PROVE  Records'
<1>1. TypeOK /\ Records /\ Control
  BY DEF IInv
<1>2. \A r \in Rows' : /\ RowOK(ledger'[r], exch'[r])
                       /\ ledger'[r].purpose = "entry" => ledger'[r].cmd = 1 /\ ledger'[r].size <= Qty
  BY <1>1, StepKinds, NextRows, Zenon
<1>3. \A c \in DOMAIN cmds' : cmds'[c].kind = "entry" => c = 1
  BY <1>1, NextCmds
<1>4. book'.status = "none" => cmds' = <<>>
  BY <1>1, NextBook DEF Records
<1>5. QED
  BY <1>2, <1>3, <1>4 DEF Records

PlacesOf(c) ==
  /\ c.at \in {"leverage", "record", "void"} => c.todo # {}
  /\ c.at \in {"post", "confirm", "settle"} => c.row # 0 /\ (c.why \in {"enter", "exit"} => c.todo # {})
  /\ c.nested => /\ c.todo # {}
                 /\ c.at \in {"recover", "snapshot"} \/ (c.at \in {"confirm", "settle"} /\ c.why = "recover")

\* Every step keeps the task's command and row in hand where they are needed.
LEMMA NextPlaces ==
  ASSUME TypeOK, Places, Records, Next
  PROVE  Places'
<1>1. /\ PlacesOf(ctl) /\ Len(ledger) \in Nat /\ Rows \in SUBSET (Nat \ {0})
      /\ ctl \in [task : Tasks, at : Points, why : Reasons, row : 0..Len(ledger),
                  verdict : {"none", "filled", "unfilled", "unknown"}, nested : BOOLEAN,
                  todo : SUBSET DOMAIN cmds, rows : SUBSET Rows]
  <2>1. PlacesOf(ctl)
    BY DEF Places, PlacesOf
  <2>2. ledger \in Seq(Row) /\ Rows = 1..Len(ledger)
    BY TypeFacts
  <2>3. Len(ledger) \in Nat /\ Rows \in SUBSET (Nat \ {0})
    BY <2>2
  <2>4. ctl \in [task : Tasks, at : Points, why : Reasons, row : 0..Len(ledger),
                  verdict : {"none", "filled", "unfilled", "unknown"}, nested : BOOLEAN,
                  todo : SUBSET DOMAIN cmds, rows : SUBSET Rows]
    BY DEF TypeOK
  <2>5. QED
    BY <2>1, <2>3, <2>4
<1> SUFFICES PlacesOf(ctl')
  BY DEF Places, PlacesOf
<1>2. ASSUME ctl' = ctl PROVE PlacesOf(ctl')
  BY <1>1, <1>2
<1>3. ASSUME NEW p \in {"rest", "strand", "unconfirmed"}, Goto(p), ~ctl.nested PROVE PlacesOf(ctl')
  BY <1>1, <1>3 DEF Goto, PlacesOf
<1>4. ASSUME NEW p \in {"record", "leverage"}, Goto(p), ~ctl.nested, ctl.todo # {} PROVE PlacesOf(ctl')
  BY <1>1, <1>4 DEF Goto, PlacesOf
<1>5. ASSUME NEW p \in {"recover", "snapshot"}, Goto(p) PROVE PlacesOf(ctl')
  BY <1>1, <1>5 DEF Goto, PlacesOf
<1>6. ASSUME Finish PROVE PlacesOf(ctl')
  BY <1>6 DEF Finish, NoCtl, PlacesOf
<1>7. ASSUME FinishStrand, ~ctl.nested PROVE PlacesOf(ctl')
  BY <1>3, <1>6, <1>7 DEF FinishStrand
<1>8. ASSUME NextCommand \/ (StopDrain /\ ctl.at = "drain"), ~ctl.nested PROVE PlacesOf(ctl')
  BY <1>1, <1>8 DEF NextCommand, StopDrain, PlacesOf
<1>9. ASSUME NEW v, Verdict(v), ctl.at = "confirm" PROVE PlacesOf(ctl')
  BY <1>1, <1>9 DEF Verdict, PlacesOf
<1>10. ASSUME NEW c, NEW s, NEW p, NEW q, NEW w, Send(c, s, p, q, w), ~ctl.nested, w \in {"enter", "exit"} => ctl.todo # {}
       PROVE  PlacesOf(ctl')
  BY <1>1, <1>10 DEF Send, PlacesOf
<1>11. CASE PaperEntry \/ (\E q \in 1..Qty : PaperExit(q)) \/ SweepTick \/ Exchange
  BY <1>2, <1>11 DEF PaperEntry, PaperExit, SweepTick, Exchange, Accept, Drop, Fill, EndShort
<1>12. CASE TakeTask
  <2>1. ctl.at = "idle"
    BY <1>12 DEF TakeTask
  <2>2. \/ \E t, R : ctl' = [ctl EXCEPT !.task = t, !.at = "recover", !.nested = FALSE, !.why = "none", !.row = 0, !.rows = R]
        \/ \E t, T : ctl' = [ctl EXCEPT !.task = t, !.at = "drain", !.nested = FALSE, !.todo = T]
        \/ \E t : ctl' = [ctl EXCEPT !.task = t, !.at = "strand"]
        \/ ctl' = ctl
    BY <1>12 DEF TakeTask, StartRecover, StartDrain
  <2>3. QED
    BY <1>1, <2>1, <2>2 DEF PlacesOf
<1>13. CASE RecoverRow
  <2>1. ctl.rows # {} /\ ctl.at = "recover"
    BY <1>13 DEF RecoverRow
  <2>2. Min(ctl.rows) \in ctl.rows
    BY <1>1, <2>1, MinIsLeast
  <2>3. Min(ctl.rows) # 0
    BY <1>1, <2>2
  <2>4. /\ ctl'.why = "recover" /\ ctl'.row = Min(ctl.rows) /\ ctl'.at \in {"confirm", "settle"}
        /\ ctl'.nested = ctl.nested /\ ctl'.todo = ctl.todo
    BY <1>1, <1>13 DEF RecoverRow
  <2>5. QED
    BY <1>1, <2>1, <2>3, <2>4 DEF PlacesOf
<1>14. CASE RecoverExposure \/ SettleRecovered
  BY <1>5, <1>14 DEF RecoverExposure, SettleRecovered
<1>15. CASE SnapshotAnswered \/ SnapshotFails
  BY <1>1, <1>15 DEF SnapshotAnswered, SnapshotFails, AfterRecover, PlacesOf
<1>16. CASE DrainEnds
  <2>1. ~ctl.nested
    BY <1>1, <1>16 DEF DrainEnds, PlacesOf
  <2>2. QED
    BY <1>3, <1>6, <1>16, <2>1 DEF DrainEnds
<1>17. CASE DrainKnown
  BY <1>1, <1>17 DEF DrainKnown, Draining, StartRecover, PlacesOf
<1>18. CASE DrainStale \/ DrainWaits \/ DrainExpired \/ DrainEntry \/ DrainExit
  <2>1. ctl.at = "drain" /\ ctl.todo # {} /\ ~ctl.nested
    BY <1>1, <1>18 DEF DrainStale, DrainWaits, DrainExpired, DrainEntry, DrainExit, Draining, PlacesOf
  <2>2. CASE DrainStale \/ DrainWaits
    BY <1>8, <2>1, <2>2 DEF DrainStale, DrainWaits
  <2>3. CASE DrainExpired
    BY <1>1, <2>1, <2>3 DEF DrainExpired, PlacesOf
  <2>4. CASE DrainEntry
    BY <1>4, <2>1, <2>4 DEF DrainEntry
  <2>5. CASE DrainExit
    BY <1>8, <1>10, <2>1, <2>5 DEF DrainExit
  <2>6. QED
    BY <1>18, <2>2, <2>3, <2>4, <2>5
<1>19. CASE LeverageHeld \/ LeverageRefused \/ VoidPosition \/ RecordCommand
  <2>1. ctl.at \in {"leverage", "void", "record"} /\ ctl.todo # {} /\ ~ctl.nested
    BY <1>1, <1>19 DEF LeverageHeld, LeverageRefused, VoidPosition, RecordCommand, PlacesOf
  <2>2. CASE LeverageHeld
    BY <1>4, <1>10, <2>1, <2>2 DEF LeverageHeld
  <2>3. CASE LeverageRefused
    BY <1>4, <2>1, <2>3 DEF LeverageRefused
  <2>4. CASE VoidPosition
    BY <1>4, <1>8, <2>1, <2>4 DEF VoidPosition
  <2>5. CASE RecordCommand
    BY <1>8, <2>1, <2>5 DEF RecordCommand
  <2>6. QED
    BY <1>19, <2>2, <2>3, <2>4, <2>5
<1>20. CASE PostOk \/ PostRejected \/ PostUnanswered
  <2>1. ctl.at = "post" /\ ~ctl.nested /\ ctl.row # 0 /\ (ctl.why \in {"enter", "exit"} => ctl.todo # {})
    BY <1>1, <1>20 DEF PostOk, PostRejected, PostUnanswered, PlacesOf
  <2>2. ASSUME ctl' = [ctl EXCEPT !.at = "confirm"] PROVE PlacesOf(ctl')
    BY <1>1, <2>1, <2>2 DEF PlacesOf
  <2>3. ASSUME ctl' = [ctl EXCEPT !.at = "void"], ctl.why = "enter" PROVE PlacesOf(ctl')
    BY <1>1, <2>1, <2>3 DEF PlacesOf
  <2>4. CASE PostOk \/ PostUnanswered
    BY <1>7, <2>1, <2>2, <2>4 DEF PostOk, PostUnanswered
  <2>5. CASE PostRejected
    BY <1>3, <1>4, <1>7, <2>1, <2>3, <2>5 DEF PostRejected
  <2>6. QED
    BY <1>20, <2>4, <2>5
<1>21. CASE LookupDone \/ LookupOpen \/ LookupAgain \/ LookupEmpty
  BY <1>2, <1>9, <1>21 DEF LookupDone, LookupOpen, LookupAgain, LookupEmpty, Found
<1>22. CASE SettleEntry \/ SettleExit \/ SettleStranded \/ SettlePending
  <2>1. /\ ctl.at = "settle" /\ ~ctl.nested /\ ctl.why \in {"enter", "unconfirmed", "exit", "rest", "stranded", "pending"}
        /\ ctl.why \in {"enter", "exit"} => ctl.todo # {}
    BY <1>1, <1>22 DEF SettleEntry, SettleExit, SettleStranded, SettlePending, PlacesOf
  <2>2. CASE SettleEntry
    BY <1>4, <1>6, <2>1, <2>2 DEF SettleEntry
  <2>3. CASE SettleExit
    BY <1>3, <1>4, <2>1, <2>3 DEF SettleExit
  <2>4. CASE SettleStranded
    BY <1>7, <2>1, <2>4 DEF SettleStranded
  <2>5. CASE SettlePending
    <3>1. CASE FinishStrand
      BY <1>7, <2>1, <3>1
    <3>2. CASE ~FinishStrand
      <4>1. /\ ctl.rows # {} /\ ctl.why = "pending"
            /\ ctl' = [ctl EXCEPT !.at = "confirm", !.row = Min(ctl.rows), !.rows = @ \ {Min(@)}, !.verdict = "none"]
        BY <2>5, <3>2 DEF SettlePending
      <4>2. Min(ctl.rows) \in ctl.rows
        BY <1>1, <4>1, MinIsLeast
      <4>3. Min(ctl.rows) # 0
        BY <1>1, <4>2
      <4>4. QED
        BY <1>1, <2>1, <4>1, <4>3 DEF PlacesOf
    <3>3. QED
      BY <3>1, <3>2
  <2>6. QED
    BY <1>22, <2>2, <2>3, <2>4, <2>5
<1>23. CASE SweepRest \/ CloseStranded \/ SweepUnconfirmed
  <2>1. ctl.at \in {"rest", "strand", "unconfirmed"} /\ ~ctl.nested
    BY <1>1, <1>23 DEF SweepRest, CloseStranded, SweepUnconfirmed, PlacesOf
  <2>2. CASE SweepRest
    BY <1>3, <1>10, <2>1, <2>2 DEF SweepRest
  <2>3. CASE CloseStranded
    <3>1. CASE FinishStrand
      BY <1>7, <2>1, <3>1
    <3>2. CASE UnsettledExits # {} /\ ctl' = [ctl EXCEPT !.at = "confirm", !.why = "pending", !.row = Min(UnsettledExits),
                                                         !.rows = UnsettledExits \ {Min(UnsettledExits)}]
      <4>1. UnsettledExits \in SUBSET Rows
        BY DEF UnsettledExits, Unsettled
      <4>2. Min(UnsettledExits) \in UnsettledExits
        BY <1>1, <3>2, <4>1, MinIsLeast
      <4>3. Min(UnsettledExits) # 0
        BY <1>1, <4>1, <4>2
      <4>4. QED
        BY <1>1, <2>1, <3>2, <4>3 DEF PlacesOf
    <3>3. CASE \E c, s, q : Send(c, s, "exit", q, "stranded")
      BY <1>10, <2>1, <3>3
    <3>4. QED
      BY <2>3, <3>1, <3>2, <3>3 DEF CloseStranded
  <2>4. CASE SweepUnconfirmed
    BY <1>1, <1>6, <2>1, <2>4 DEF SweepUnconfirmed, PlacesOf
  <2>5. QED
    BY <1>23, <2>2, <2>3, <2>4
<1>24. CASE Crash
  BY <1>24 DEF Crash, NoCtl, PlacesOf
<1>25. QED
  BY <1>11, <1>12, <1>13, <1>14, <1>15, <1>16, <1>17, <1>18, <1>19, <1>20, <1>21, <1>22, <1>23, <1>24 DEF Next, Step

\* Every step keeps the row in hand of the kind that is asked for.
LEMMA NextInHand ==
  ASSUME TypeOK, Records, Control, Next
  PROVE  InHand'
<1> DEFINE InTheMiddle == ctl.at \in {"post", "confirm", "settle"}
           AsksEntry(c) == c.at \in {"post", "confirm", "settle"} /\ c.why \in {"enter", "unconfirmed"}
           SaysUnfilled(c) == c.at = "settle" /\ c.verdict = "unfilled"
           Row1 == AsksEntry(ctl') => ledger'[ctl'.row].purpose = "entry"
           Row2 == SaysUnfilled(ctl') => ledger'[ctl'.row].state \in {"cancelled", "rejected"}
           Memo == mem'.unconfirmed # 0 => ledger'[mem'.unconfirmed].purpose = "entry"
<1>1. /\ ledger \in Seq(Row) /\ Rows = 1..Len(ledger)
      /\ \A r \in Rows : r \in Rows' /\ ledger'[r].purpose = ledger[r].purpose
  <2>1. OrderStep
    BY StepKinds
  <2>2. QED
    BY <2>1, OrdersTyped, TypeFacts DEF SameOrder
<1>2. /\ InTheMiddle => ctl.row \in Rows
      /\ AsksEntry(ctl) => ledger[ctl.row].purpose = "entry"
      /\ SaysUnfilled(ctl) => ledger[ctl.row].state \in {"cancelled", "rejected"}
      /\ mem.unconfirmed # 0 => mem.unconfirmed \in Rows /\ ledger[mem.unconfirmed].purpose = "entry"
  BY <1>1, RowInHand DEF TypeOK, Control, InHand
<1>3. /\ ctl \in [task : Tasks, at : Points, why : Reasons, row : 0..Len(ledger),
                  verdict : {"none", "filled", "unfilled", "unknown"}, nested : BOOLEAN,
                  todo : SUBSET DOMAIN cmds, rows : SUBSET Rows]
      /\ mem \in [exposure : 0..Qty, unconfirmed : 0..Len(ledger), stranded : BOOLEAN,
                  deferred : BOOLEAN, listening : BOOLEAN, products : BOOLEAN, unheard : BOOLEAN]
  BY DEF TypeOK
<1> SUFFICES Row1 /\ Row2 /\ Memo
  BY DEF InHand
<1>4. ASSUME InTheMiddle, ctl'.row = ctl.row, ctl'.why = ctl.why PROVE Row1
  BY <1>1, <1>2, <1>4
<1>5. ASSUME mem'.unconfirmed \in {0, mem.unconfirmed} PROVE Memo
  BY <1>1, <1>2, <1>5
<1>6. ASSUME ctl' = ctl, ledger' = ledger PROVE Row1 /\ Row2
  BY <1>2, <1>6
<1>7. ASSUME ctl'.at \notin {"post", "confirm", "settle"} PROVE Row1 /\ Row2
  BY <1>7
<1>8. ASSUME ctl'.why \notin {"enter", "unconfirmed"}, ~SaysUnfilled(ctl') PROVE Row1 /\ Row2
  BY <1>8
<1>9. ASSUME NEW p \in Points \ {"post", "confirm", "settle"}, Goto(p) PROVE Row1 /\ Row2
  BY <1>3, <1>7, <1>9 DEF Goto
<1>10. ASSUME Finish PROVE Row1 /\ Row2
  BY <1>7, <1>10 DEF Finish, NoCtl
<1>11. ASSUME FinishStrand PROVE Row1 /\ Row2
  BY <1>9, <1>10, <1>11 DEF FinishStrand, Points
<1>12. ASSUME NextCommand \/ (StopDrain /\ ctl.at = "drain") PROVE Row1 /\ Row2
  BY <1>3, <1>7, <1>12 DEF NextCommand, StopDrain
<1>13. ASSUME NEW c, NEW s, NEW p, NEW q, NEW w, Send(c, s, p, q, w),
             w # "unconfirmed", w = "enter" => p = "entry"
       PROVE  Row1 /\ Row2
  <2>1. /\ ctl'.at = "post" /\ ctl'.why = w /\ ctl'.row = Len(ledger) + 1
        /\ ledger' = Append(ledger, [cmd |-> c, src |-> s, purpose |-> p, size |-> q,
                                     state |-> "intent", known |-> FALSE, filled |-> 0])
    BY <1>3, <1>13 DEF Send
  <2>2. ledger'[Len(ledger) + 1].purpose = p
    BY <1>1, <2>1
  <2>3. CASE w = "enter"
    BY <1>13, <2>1, <2>2, <2>3
  <2>4. CASE w # "enter"
    BY <1>13, <2>1, <2>4
  <2>5. QED
    BY <2>3, <2>4
<1>14. CASE PaperEntry \/ (\E q \in 1..Qty : PaperExit(q)) \/ SweepTick \/ Exchange
  <2>1. mem'.unconfirmed = mem.unconfirmed /\ ctl' = ctl /\ ledger' = ledger
    BY <1>3, <1>14 DEF PaperEntry, PaperExit, SweepTick, Exchange, Accept, Drop, Fill, EndShort, durable
  <2>2. QED
    BY <1>5, <1>6, <2>1
<1>15. CASE Crash
  BY <1>5, <1>7, <1>15 DEF Crash, NoMem, NoCtl
<1>16. CASE TakeTask
  <2>1. ctl.at = "idle" /\ ledger' = ledger
    BY <1>16 DEF TakeTask, durable
  <2>2. ctl'.at \in {"idle", "recover", "drain", "strand"} /\ mem'.unconfirmed \in {0, mem.unconfirmed}
    BY <1>3, <1>16, <2>1 DEF TakeTask, StartRecover, StartDrain
  <2>3. QED
    BY <1>5, <1>7, <2>2
<1>17. CASE RecoverRow
  <2>1. ctl.rows # {} /\ ledger' = ledger /\ mem' = mem
    BY <1>17 DEF RecoverRow, durable
  <2> DEFINE r == Min(ctl.rows)
  <2>2. r \in Rows /\ ledger[r] \in Row
    <3>1. ctl.rows \in SUBSET Rows /\ Rows \in SUBSET Nat
      BY <1>1, <1>3
    <3>2. r \in ctl.rows
      BY <2>1, <3>1, MinIsLeast
    <3>3. QED
      BY <3>1, <3>2, TypeFacts
  <2>3. /\ ctl'.row = r /\ ctl'.why = "recover"
        /\ SaysUnfilled(ctl') => r \notin Unsettled /\ ledger[r].state # "filled"
    BY <1>3, <1>17 DEF RecoverRow
  <2>4. r \notin Unsettled /\ ledger[r].state # "filled" => ledger[r].state \in {"cancelled", "rejected"}
    BY <2>2 DEF Unsettled, OpenStates, Row, LedgerStates
  <2> HIDE DEF r
  <2>5. QED
    BY <1>5, <2>1, <2>3, <2>4
<1>18. CASE RecoverExposure
  BY <1>3, <1>5, <1>9, <1>18 DEF RecoverExposure, Points
<1>19. CASE SnapshotAnswered \/ SnapshotFails
  <2>1. ctl'.at \in {"record", "drain"}
    BY <1>3, <1>19 DEF SnapshotAnswered, SnapshotFails, AfterRecover
  <2>2. mem'.unconfirmed = mem.unconfirmed
    BY <1>3, <1>19 DEF SnapshotAnswered, SnapshotFails
  <2>3. QED
    BY <1>5, <1>7, <2>1, <2>2
<1>20. CASE DrainEnds
  <2>1. Row1 /\ Row2
    BY <1>9, <1>10, <1>20 DEF DrainEnds, Points
  <2>2. mem'.unconfirmed = mem.unconfirmed
    BY <1>3, <1>20 DEF DrainEnds
  <2>3. QED
    BY <1>5, <2>1, <2>2
<1>21. CASE DrainKnown
  BY <1>3, <1>5, <1>7, <1>21 DEF DrainKnown, StartRecover
<1>22. CASE DrainStale \/ DrainWaits \/ RecordCommand
  BY <1>5, <1>12, <1>22 DEF DrainStale, DrainWaits, RecordCommand, Draining
<1>23. CASE DrainExpired
  BY <1>3, <1>5, <1>7, <1>23 DEF DrainExpired
<1>24. CASE DrainEntry
  BY <1>5, <1>9, <1>24 DEF DrainEntry, Points
<1>25. CASE DrainExit
  BY <1>5, <1>12, <1>13, <1>25 DEF DrainExit, Draining
<1>26. CASE LeverageHeld
  BY <1>5, <1>9, <1>13, <1>26 DEF LeverageHeld, Points
<1>27. CASE LeverageRefused \/ VoidPosition
  BY <1>5, <1>9, <1>12, <1>27 DEF LeverageRefused, VoidPosition, Points
<1>28. CASE PostOk \/ PostRejected \/ PostUnanswered
  <2>1. InTheMiddle /\ mem' = mem
    BY <1>28 DEF PostOk, PostRejected, PostUnanswered
  <2>2. ASSUME ctl' = [ctl EXCEPT !.at = "confirm"] PROVE Row1 /\ Row2
    BY <1>3, <1>4, <2>1, <2>2
  <2>3. ASSUME ctl' = [ctl EXCEPT !.at = "void"] PROVE Row1 /\ Row2
    BY <1>3, <1>7, <2>3
  <2>4. Row1 /\ Row2
    BY <1>9, <1>11, <1>28, <2>2, <2>3 DEF PostOk, PostRejected, PostUnanswered, Points
  <2>5. QED
    BY <1>5, <2>1, <2>4
<1>29. CASE LookupDone
  <2>1. ctl.at = "confirm" /\ InTheMiddle
    BY <1>29 DEF LookupDone, Found
  <2>2. ctl'.row = ctl.row /\ ctl'.why = ctl.why /\ mem'.unconfirmed = mem.unconfirmed
    BY <1>3, <1>29 DEF LookupDone, Verdict, Observe
  <2>3. SaysUnfilled(ctl') => ledger' = [ledger EXCEPT ![ctl.row].state = "cancelled", ![ctl.row].known = TRUE,
                                                       ![ctl.row].filled = Order.filled]
    BY <1>3, <1>29 DEF LookupDone, Verdict, Observe
  <2>4. SaysUnfilled(ctl') => ledger'[ctl.row].state = "cancelled"
    BY <1>1, <1>2, <2>1, <2>3, TypeFacts DEF Row
  <2>5. Row1
    BY <1>4, <2>1, <2>2
  <2>6. Memo
    BY <1>5, <2>2
  <2>7. QED
    BY <2>2, <2>4, <2>5, <2>6
<1>30. CASE LookupOpen \/ LookupEmpty
  <2>1. ctl.at = "confirm" /\ InTheMiddle
    BY <1>30 DEF LookupOpen, LookupEmpty, Found
  <2>2. ctl'.row = ctl.row /\ ctl'.why = ctl.why /\ ctl'.verdict = "unknown" /\ mem'.unconfirmed = mem.unconfirmed
    BY <1>3, <1>30 DEF LookupOpen, LookupEmpty, Verdict, Observe
  <2>3. QED
    BY <1>4, <1>5, <2>1, <2>2
<1>31. CASE LookupAgain
  <2>1. ctl.at = "confirm" /\ InTheMiddle
    BY <1>31 DEF LookupAgain, Found
  <2>2. ctl' = ctl /\ mem'.unconfirmed = mem.unconfirmed
    BY <1>3, <1>31 DEF LookupAgain, Observe
  <2>3. QED
    BY <1>4, <1>5, <2>1, <2>2
<1>32. CASE SettleEntry
  <2>1. InTheMiddle /\ AsksEntry(ctl)
    BY <1>32 DEF SettleEntry
  <2>2. mem'.unconfirmed \in {0, ctl.row} /\ ledger' = ledger
    BY <1>3, <1>32 DEF SettleEntry
  <2>3. Row1 /\ Row2
    BY <1>9, <1>10, <1>32 DEF SettleEntry, Points
  <2>4. QED
    BY <1>2, <2>1, <2>2, <2>3
<1>33. CASE SettleExit
  BY <1>5, <1>9, <1>33 DEF SettleExit, Points
<1>34. CASE SettleStranded
  BY <1>3, <1>5, <1>11, <1>34 DEF SettleStranded
<1>35. CASE SettlePending
  <2>1. CASE FinishStrand
    BY <1>5, <1>11, <1>35, <2>1 DEF SettlePending
  <2>2. CASE ~FinishStrand
    <3>1. /\ ctl.why = "pending" /\ mem' = mem
          /\ ctl' = [ctl EXCEPT !.at = "confirm", !.row = Min(ctl.rows), !.rows = @ \ {Min(@)}, !.verdict = "none"]
      BY <1>35, <2>2 DEF SettlePending
    <3>2. QED
      BY <1>3, <1>5, <1>8, <3>1
  <2>3. QED
    BY <2>1, <2>2
<1>36. CASE SettleRecovered
  <2>1. InTheMiddle /\ ledger' = ledger
    BY <1>36 DEF SettleRecovered
  <2>2. mem'.unconfirmed \in {0, mem.unconfirmed} \/ (mem'.unconfirmed = ctl.row /\ ledger[ctl.row].purpose = "entry")
    BY <1>3, <1>36 DEF SettleRecovered
  <2>3. Row1 /\ Row2
    BY <1>9, <1>36 DEF SettleRecovered, Points
  <2>4. QED
    BY <1>2, <1>5, <2>1, <2>2, <2>3
<1>37. CASE SweepRest
  BY <1>5, <1>9, <1>13, <1>37 DEF SweepRest, Points
<1>38. CASE CloseStranded
  <2>1. mem'.unconfirmed = mem.unconfirmed
    BY <1>3, <1>38 DEF CloseStranded
  <2>2. CASE FinishStrand
    BY <1>5, <1>11, <2>1, <2>2
  <2>3. CASE \E c, s, q : Send(c, s, "exit", q, "stranded")
    BY <1>5, <1>13, <2>1, <2>3
  <2>4. CASE ctl' = [ctl EXCEPT !.at = "confirm", !.why = "pending", !.row = Min(UnsettledExits),
                                !.rows = UnsettledExits \ {Min(UnsettledExits)}]
    BY <1>3, <1>5, <1>8, <2>1, <2>4
  <2>5. QED
    BY <1>38, <2>2, <2>3, <2>4 DEF CloseStranded
<1>39. CASE SweepUnconfirmed
  <2>1. mem' = mem /\ ledger' = ledger
    BY <1>39 DEF SweepUnconfirmed, durable
  <2>2. CASE mem.unconfirmed = 0
    BY <1>5, <1>10, <1>39, <2>1, <2>2 DEF SweepUnconfirmed
  <2>3. CASE mem.unconfirmed # 0
    BY <1>2, <1>3, <1>39, <2>1, <2>3 DEF SweepUnconfirmed
  <2>4. QED
    BY <2>2, <2>3
<1>40. QED
  BY <1>14, <1>15, <1>16, <1>17, <1>18, <1>19, <1>20, <1>21, <1>22, <1>23, <1>24, <1>25, <1>26, <1>27, <1>28, <1>29, <1>30,
     <1>31, <1>32, <1>33, <1>34, <1>35, <1>36, <1>37, <1>38, <1>39 DEF Next, Step

\* A position whose entry is not filled and cannot be keeps being one, unless an entry is sent.
LEMMA NeverHadKept ==
  ASSUME TypeOK, OrderStep, NeverHad, book.status # "open" \/ Len(ledger') = Len(ledger)
  PROVE  NeverHad'
<1>0. /\ ledger \in Seq(Row) /\ exch \in Seq(ExchOrder) /\ Len(exch) = Len(ledger)
      /\ Rows = 1..Len(ledger) /\ Rows' = 1..Len(ledger')
  BY TypeFacts, OrdersTyped
<1>1. CASE OrdersKept
  BY <1>1, <1>0 DEF OrdersKept, NeverHad
<1>2. ASSUME NEW r \in Rows, NEW x \in ExchOrder, OrderMoves(r, x) PROVE NeverHad'
  <2>1. ledger' = ledger /\ exch' = [exch EXCEPT ![r] = x] /\ exch[r].st \in {"wire", "open"}
    BY <1>2 DEF OrderMoves
  <2>2. ledger[r].purpose # "entry"
    BY <2>1 DEF NeverHad
  <2>3. \A i \in Rows : i # r => exch'[i] = exch[i]
    BY <1>0, <2>1
  <2>4. QED
    BY <1>0, <2>1, <2>2, <2>3 DEF NeverHad
<1>3. ASSUME NEW r \in Rows, NEW l \in Row, OrderMarked(r, l) \/ OrderRead(r, l) PROVE NeverHad'
  <2>1. exch' = exch /\ ledger' = [ledger EXCEPT ![r] = l] /\ l.purpose = ledger[r].purpose
    BY <1>3 DEF OrderMarked, OrderRead, SameOrder
  <2>2. Rows' = Rows /\ \A i \in Rows : ledger'[i].purpose = ledger[i].purpose
    BY <1>0, <2>1
  <2>3. QED
    BY <2>1, <2>2 DEF NeverHad
<1>4. ASSUME NEW l \in Row, OrderSent(l) PROVE NeverHad'
  <2> DEFINE N == Len(ledger) + 1
             x == [st |-> "wire", filled |-> 0]
  <2>1. x \in ExchOrder
    BY DEF ExchOrder
  <2>2. /\ Rows' = 1..N /\ ledger'[N] = l /\ Len(ledger') # Len(ledger)
        /\ \A i \in Rows : ledger'[i] = ledger[i] /\ exch'[i] = exch[i]
    BY <1>0, <1>4, <2>1 DEF OrderSent
  <2>3. l.purpose # "entry"
    BY <1>4, <2>2 DEF OrderSent
  <2>4. \A i \in Rows' : i \in Rows \/ i = N
    BY <1>0, <2>2
  <2> HIDE DEF N, x
  <2>5. QED
    BY <2>2, <2>3, <2>4 DEF NeverHad
<1>5. QED
  BY <1>1, <1>2, <1>3, <1>4 DEF OrderStep

\* The entry was not sent yet, or what was sent is over and unfilled.
LEMMA NotSentNeverHad ==
  ASSUME TypeOK, Records, ctl.todo # {}, cmds[Cmd].kind = "entry", RowsOf(Cmd) = {}
  PROVE  NeverHad
<1>1. Cmd = 1
  BY CommandInHand DEF Records
<1>2. QED
  BY <1>1 DEF Records, RowsOf, NeverHad

\* When the one entry order ended unfilled, nothing was ever had.
LEMMA UnfilledNeverHad ==
  ASSUME TypeOK, Records, OncePerCommand, NEW r \in Rows, ledger[r].purpose = "entry",
         exch[r].filled = 0, exch[r].st \notin {"wire", "open"}
  PROVE  NeverHad
<1>1. \A s \in Rows : ledger[s].purpose = "entry" => s = r
  BY DEF Records, OncePerCommand
<1>2. QED
  BY <1>1 DEF NeverHad

\* A position is voided only when its entry can never be filled, and stays so.
LEMMA NextVoided ==
  ASSUME TypeOK, Records, OncePerCommand, Control, Next
  PROVE  Voided'
<1> DEFINE First == ctl'.at = "leverage" => cmds'[Min(ctl'.todo)].kind = "entry"
                                            /\ \A r \in Rows' : ledger'[r].cmd # Min(ctl'.todo)
           Gone == ctl'.at = "void" \/ book'.status = "void" => NeverHad'
<1> SUFFICES First /\ Gone
  BY Zenon DEF Voided, Cmd, RowsOf
<1>1. /\ Places /\ InHand /\ Voided /\ OrderStep
      /\ \A c \in DOMAIN cmds : cmds'[c].kind = cmds[c].kind
  BY StepKinds, NextCmds DEF Control
<1>2. /\ ctl \in [task : Tasks, at : Points, why : Reasons, row : 0..Len(ledger),
                  verdict : {"none", "filled", "unfilled", "unknown"}, nested : BOOLEAN,
                  todo : SUBSET DOMAIN cmds, rows : SUBSET Rows]
      /\ book \in BookType
  BY DEF TypeOK, BookType
<1>3. ASSUME ctl'.at # "leverage" PROVE First
  BY <1>3
<1>4. ASSUME ctl'.at # "void", book'.status = "void" => book.status = "void" PROVE Gone
  BY <1>1, <1>4, NeverHadKept DEF Voided
<1>5. ASSUME NeverHad, Len(ledger') = Len(ledger) PROVE Gone
  BY <1>1, <1>5, NeverHadKept
<1>6. ASSUME ctl' = ctl, ledger' = ledger, book'.status = "void" => book.status = "void" PROVE First /\ Gone
  <2>1. First
    <3>1. CASE ctl.at = "leverage"
      <4>1. ctl.todo # {} /\ cmds[Cmd].kind = "entry" /\ RowsOf(Cmd) = {}
        BY <1>1, <3>1 DEF Places, Voided
      <4>2. Cmd \in DOMAIN cmds
        BY <4>1, CommandInHand
      <4>3. cmds'[Cmd].kind = "entry" /\ Cmd = Min(ctl'.todo)
        BY <1>1, <1>6, <4>1, <4>2 DEF Cmd
      <4>4. \A r \in Rows' : ledger'[r].cmd # Cmd
        BY <1>6, <4>1 DEF RowsOf
      <4>5. QED
        BY <4>3, <4>4
    <3>2. CASE ctl.at # "leverage"
      BY <1>3, <1>6, <3>2
    <3>3. QED
      BY <3>1, <3>2
  <2>2. Gone
    <3>1. CASE ctl.at = "void" \/ book.status = "void"
      <4>1. NeverHad /\ Len(ledger') = Len(ledger)
        BY <1>1, <1>6, <3>1 DEF Voided
      <4>2. QED
        BY <1>5, <4>1
    <3>2. CASE ~(ctl.at = "void" \/ book.status = "void")
      BY <1>6, <3>2
    <3>3. QED
      BY <3>1, <3>2
  <2>3. QED
    BY <2>1, <2>2
<1>7. ASSUME ctl'.at \notin {"leverage", "void"}, book'.status = "void" => book.status = "void" PROVE First /\ Gone
  BY <1>3, <1>4, <1>7
<1>8. ASSUME NEW p \in Points \ {"leverage", "void"}, Goto(p) PROVE ctl'.at \notin {"leverage", "void"}
  BY <1>2, <1>8 DEF Goto
<1>9. ASSUME Finish PROVE ctl'.at \notin {"leverage", "void"}
  BY <1>9 DEF Finish, NoCtl
<1>10. ASSUME FinishStrand PROVE ctl'.at \notin {"leverage", "void"}
  BY <1>8, <1>9, <1>10 DEF FinishStrand, Points
<1>11. ASSUME NextCommand \/ (StopDrain /\ ctl.at = "drain") PROVE ctl'.at \notin {"leverage", "void"}
  BY <1>2, <1>11 DEF NextCommand, StopDrain
<1>12. ASSUME NEW c, NEW s, NEW p, NEW q, NEW w, Send(c, s, p, q, w) PROVE ctl'.at \notin {"leverage", "void"}
  BY <1>2, <1>12 DEF Send
<1>13. ASSUME NEW n, Adopt(n) PROVE book'.status = "void" => book.status = "void"
  BY <1>2, <1>13 DEF Adopt, BookType
<1>14. CASE PaperEntry \/ SweepTick \/ Exchange
  BY <1>6, <1>14 DEF PaperEntry, SweepTick, Exchange, Accept, Drop, Fill, EndShort, durable
<1>15. ASSUME NEW q \in 1..Qty, PaperExit(q) PROVE First /\ Gone
  <2>1. book'.status \in {"open", "closed"} /\ ctl' = ctl /\ ledger' = ledger
    BY <1>2, <1>15 DEF PaperExit, BookType
  <2>2. QED
    BY <1>6, <2>1
<1>16. CASE Crash
  BY <1>7, <1>16 DEF Crash, NoCtl, durable
<1>17. CASE TakeTask
  <2>1. ctl.at = "idle" /\ book' = book
    BY <1>17 DEF TakeTask, durable
  <2>2. ctl'.at \in {"idle", "recover", "drain", "strand"}
    BY <1>2, <1>17, <2>1 DEF TakeTask, StartRecover, StartDrain
  <2>3. QED
    BY <1>7, <2>1, <2>2
<1>18. CASE RecoverRow
  BY <1>2, <1>7, <1>18 DEF RecoverRow, durable
<1>19. CASE RecoverExposure \/ SettleExit
  BY <1>7, <1>8, <1>19 DEF RecoverExposure, SettleExit, durable, Points
<1>20. CASE SnapshotAnswered \/ SnapshotFails
  BY <1>2, <1>7, <1>20 DEF SnapshotAnswered, SnapshotFails, AfterRecover, durable
<1>21. CASE DrainEnds
  BY <1>7, <1>8, <1>9, <1>21 DEF DrainEnds, durable, Points
<1>22. CASE DrainKnown
  BY <1>2, <1>7, <1>22 DEF DrainKnown, StartRecover, durable
<1>23. CASE DrainStale \/ DrainWaits \/ RecordCommand
  BY <1>7, <1>11, <1>23 DEF DrainStale, DrainWaits, RecordCommand, Draining
<1>24. CASE DrainExpired
  <2>1. NeverHad
    BY <1>24, NotSentNeverHad DEF DrainExpired, Draining
  <2>2. Len(ledger') = Len(ledger) /\ ctl'.at = "void"
    BY <1>2, <1>24 DEF DrainExpired
  <2>3. QED
    BY <1>3, <1>5, <2>1, <2>2
<1>25. CASE DrainEntry
  <2>1. /\ ctl.todo # {} /\ cmds[Cmd].kind = "entry" /\ RowsOf(Cmd) = {} /\ ledger' = ledger /\ book' = book
        /\ ctl'.todo = ctl.todo /\ ctl'.at = "leverage"
    BY <1>2, <1>25 DEF DrainEntry, Draining, Goto
  <2>2. Cmd \in DOMAIN cmds
    BY <2>1, CommandInHand
  <2>3. cmds'[Cmd].kind = "entry" /\ Cmd = Min(ctl'.todo)
    BY <1>1, <2>1, <2>2 DEF Cmd
  <2>4. \A r \in Rows' : ledger'[r].cmd # Cmd
    BY <2>1 DEF RowsOf
  <2>5. First
    BY <2>3, <2>4
  <2>6. Gone
    BY <1>4, <2>1
  <2>7. QED
    BY <2>5, <2>6
<1>26. CASE DrainExit
  BY <1>7, <1>11, <1>12, <1>26 DEF DrainExit
<1>27. CASE LeverageHeld
  BY <1>7, <1>8, <1>12, <1>27 DEF LeverageHeld, Points
<1>28. CASE LeverageRefused
  <2>1. ctl.at = "leverage" /\ ledger' = ledger
    BY <1>28 DEF LeverageRefused
  <2>2. ctl.todo # {} /\ cmds[Cmd].kind = "entry" /\ RowsOf(Cmd) = {}
    BY <1>1, <2>1 DEF Places, Voided
  <2>3. NeverHad
    BY <2>2, NotSentNeverHad
  <2>4. First
    BY <1>3, <1>8, <1>28 DEF LeverageRefused, Points
  <2>5. QED
    BY <1>5, <2>1, <2>3, <2>4
<1>29. CASE VoidPosition
  <2>1. ctl.at = "void" /\ ledger' = ledger
    BY <1>29 DEF VoidPosition
  <2>2. First
    BY <1>3, <1>8, <1>11, <1>29 DEF VoidPosition, Points
  <2>3. QED
    BY <1>1, <1>5, <2>1, <2>2 DEF Voided
<1>30. CASE PostOk \/ PostUnanswered
  <2>1. ctl.at = "post" /\ book' = book
    BY <1>30 DEF PostOk, PostUnanswered
  <2>2. ctl'.at \notin {"leverage", "void"}
    BY <1>2, <1>10, <1>30 DEF PostOk, PostUnanswered
  <2>3. QED
    BY <1>7, <2>1, <2>2
<1>31. CASE PostRejected
  <2>1. ctl.at = "post" /\ book' = book /\ exch[ctl.row].st = "refused" /\ ledger' = [ledger EXCEPT ![ctl.row].state = "rejected"]
    BY <1>31 DEF PostRejected, SetRow, Order
  <2>2. CASE ctl.why = "enter"
    <3>1. ctl'.at = "void"
      BY <1>2, <1>31, <2>2 DEF PostRejected
    <3>2. ctl.row \in Rows /\ RowOK(ledger[ctl.row], exch[ctl.row]) /\ ledger[ctl.row].purpose = "entry"
      BY <1>1, <2>1, <2>2, RowInHand DEF InHand
    <3>3. NeverHad
      BY <2>1, <3>2, UnfilledNeverHad DEF RowOK
    <3>4. Len(ledger') = Len(ledger)
      BY <2>1, TypeFacts
    <3>5. QED
      BY <1>3, <1>5, <3>1, <3>3, <3>4
  <2>3. CASE ctl.why # "enter"
    <3>1. ctl'.at \notin {"leverage", "void"}
      BY <1>8, <1>10, <1>31, <2>3 DEF PostRejected, Points
    <3>2. QED
      BY <1>7, <2>1, <3>1
  <2>4. QED
    BY <2>2, <2>3
<1>32. CASE LookupDone \/ LookupOpen \/ LookupEmpty
  BY <1>2, <1>7, <1>32 DEF LookupDone, LookupOpen, LookupEmpty, Verdict
<1>33. CASE LookupAgain
  BY <1>7, <1>33 DEF LookupAgain, Found
<1>34. CASE SettleEntry
  <2>1. ctl.at = "settle" /\ ctl.why \in {"enter", "unconfirmed"} /\ ledger' = ledger
    BY <1>34 DEF SettleEntry
  <2>2. ctl'.at \notin {"leverage", "void"}
    BY <1>8, <1>9, <1>34 DEF SettleEntry, Points
  <2>3. CASE ctl.verdict = "unfilled"
    <3>1. /\ ctl.row \in Rows /\ RowOK(ledger[ctl.row], exch[ctl.row]) /\ ledger[ctl.row].purpose = "entry"
          /\ ledger[ctl.row].state \in {"cancelled", "rejected"}
      BY <1>1, <2>1, <2>3, RowInHand DEF InHand
    <3>2. NeverHad
      BY <3>1, UnfilledNeverHad DEF RowOK
    <3>3. QED
      BY <1>3, <1>5, <2>1, <2>2, <3>2
  <2>4. CASE ctl.verdict # "unfilled"
    <3>1. book'.status = "void" => book.status = "void"
      BY <1>13, <1>34, <2>4 DEF SettleEntry
    <3>2. QED
      BY <1>7, <2>2, <3>1
  <2>5. QED
    BY <2>3, <2>4
<1>35. CASE SettleStranded
  BY <1>7, <1>10, <1>35 DEF SettleStranded, durable
<1>36. CASE SettlePending
  <2>1. book' = book
    BY <1>36 DEF SettlePending
  <2>2. CASE FinishStrand
    BY <1>7, <1>10, <2>1, <2>2
  <2>3. CASE ~FinishStrand
    <3>1. ctl' = [ctl EXCEPT !.at = "confirm", !.row = Min(ctl.rows), !.rows = @ \ {Min(@)}, !.verdict = "none"]
      BY <1>36, <2>3 DEF SettlePending
    <3>2. ctl'.at = "confirm"
      BY <1>2, <3>1
    <3>3. QED
      BY <1>7, <2>1, <3>2
  <2>4. QED
    BY <2>2, <2>3
<1>37. CASE SettleRecovered
  <2>1. ctl.at = "settle" /\ ledger' = ledger
    BY <1>37 DEF SettleRecovered
  <2>2. ctl'.at \notin {"leverage", "void"}
    BY <1>8, <1>37 DEF SettleRecovered, Points
  <2>3. CASE ledger[ctl.row].purpose = "entry" /\ ctl.verdict = "unfilled"
    <3>1. /\ ctl.row \in Rows /\ RowOK(ledger[ctl.row], exch[ctl.row])
          /\ ledger[ctl.row].state \in {"cancelled", "rejected"}
      BY <1>1, <2>1, <2>3, RowInHand DEF InHand
    <3>2. NeverHad
      BY <2>3, <3>1, UnfilledNeverHad DEF RowOK
    <3>3. QED
      BY <1>3, <1>5, <2>1, <2>2, <3>2
  <2>4. CASE ~(ledger[ctl.row].purpose = "entry" /\ ctl.verdict = "unfilled")
    <3>1. book'.status = "void" => book.status = "void"
      BY <1>13, <1>37, <2>4 DEF SettleRecovered
    <3>2. QED
      BY <1>7, <2>2, <3>1
  <2>5. QED
    BY <2>3, <2>4
<1>38. CASE SweepRest
  BY <1>7, <1>8, <1>12, <1>38 DEF SweepRest, Points
<1>39. CASE CloseStranded
  <2>1. book' = book
    BY <1>39 DEF CloseStranded
  <2>2. CASE FinishStrand
    BY <1>7, <1>10, <2>1, <2>2
  <2>3. CASE \E c, s, q : Send(c, s, "exit", q, "stranded")
    BY <1>7, <1>12, <2>1, <2>3
  <2>4. CASE ctl' = [ctl EXCEPT !.at = "confirm", !.why = "pending", !.row = Min(UnsettledExits),
                                !.rows = UnsettledExits \ {Min(UnsettledExits)}]
    BY <1>2, <1>7, <2>1, <2>4
  <2>5. QED
    BY <1>39, <2>2, <2>3, <2>4 DEF CloseStranded
<1>40. CASE SweepUnconfirmed
  BY <1>2, <1>7, <1>9, <1>40 DEF SweepUnconfirmed, durable
<1>41. QED
  BY <1>14, <1>15, <1>16, <1>17, <1>18, <1>19, <1>20, <1>21, <1>22, <1>23, <1>24, <1>25, <1>26, <1>27, <1>28, <1>29, <1>30,
     <1>31, <1>32, <1>33, <1>34, <1>35, <1>36, <1>37, <1>38, <1>39, <1>40 DEF Next, Step

----------------------------------------------------------------------------
(* The theorems.                                                            *)

\* The invariant holds at the start ...
LEMMA InitInvariant == Init => IInv
<1> SUFFICES ASSUME Init PROVE IInv
  OBVIOUS
<1>1. /\ book = [status |-> "none", qty |-> 0, open |-> 0] /\ cmds = <<>> /\ ledger = <<>> /\ exch = <<>>
      /\ mem = NoMem /\ tasks = <<"start">> /\ ctl = NoCtl /\ faults = 0 /\ shorts = 0 /\ crashes = 0
  BY DEF Init
<1>2. Qty \in Nat /\ MaxFaults \in Nat /\ MaxShort \in Nat /\ MaxCrashes \in Nat
  BY ExecutorAssumption DEF ExecutorAssumption
<1>3. TypeOK
  <2>1. <<"start">> \in Seq(Tasks) /\ ledger \in Seq(Row) /\ Len(ledger) = 0 /\ Len(exch) = 0
    BY <1>1 DEF Tasks
  <2>2. mem \in [exposure : 0..Qty, unconfirmed : 0..Len(ledger), stranded : BOOLEAN,
                 deferred : BOOLEAN, listening : BOOLEAN, products : BOOLEAN, unheard : BOOLEAN]
    BY <1>1, <1>2, <2>1 DEF NoMem
  <2>3. ctl \in [task : Tasks, at : Points, why : Reasons, row : 0..Len(ledger),
                 verdict : {"none", "filled", "unfilled", "unknown"}, nested : BOOLEAN,
                 todo : SUBSET DOMAIN cmds, rows : SUBSET DOMAIN ledger]
    BY <1>1, <2>1 DEF NoCtl, Tasks, Points, Reasons
  <2>4. QED
    BY <1>1, <1>2, <2>1, <2>2, <2>3 DEF TypeOK
<1>4. Rows = {} /\ DOMAIN cmds = {}
  BY <1>1
<1>5. Records /\ OncePerCommand /\ Control
  BY <1>1, <1>4 DEF Records, OncePerCommand, Control, Places, InHand, Voided, NoCtl, NoMem
<1>6. Counted
  <2> DEFINE NX == NetTerms(ledger, exch)
             LT == LiveTerms(ledger, exch, "exit")
  <2>1. NX \in Seq(Int) /\ LT \in Seq(Int) /\ Len(NX) = 0 /\ Len(LT) = 0
    BY <1>1, <1>3, TypeFacts, TermFacts
  <2>2. Held = Total(NX) /\ LiveOf("exit") = Total(LT)
    BY SumsAre
  <2> HIDE DEF NX, LT
  <2>0. (\A r \in 1..Len(NX) : NX[r] >= 0) /\ (\A r \in 1..Len(LT) : LT[r] <= 0)
    BY <2>1
  <2>3. Held >= 0
    BY <2>0, <2>1, <2>2, TotalNotNegative
  <2>4. LiveOf("exit") <= 0
    BY <2>0, <2>1, <2>2, TotalNotPositive
  <2>5. mem.exposure = 0
    BY <1>1 DEF NoMem
  <2>6. Held \in Int /\ LiveOf("exit") \in Int
    BY <1>3, SumsInt
  <2>7. QED
    BY <2>3, <2>4, <2>5, <2>6 DEF Counted
<1>7. QED
  BY <1>3, <1>5, <1>6 DEF IInv

\* ... every step keeps it ...
LEMMA StepInvariant == IInv /\ [Next]_vars => IInv'
<1> SUFFICES ASSUME IInv, [Next]_vars PROVE IInv'
  OBVIOUS
<1>1. CASE Next
  <2>1. TypeOK /\ Records /\ OncePerCommand /\ Control /\ Counted
    BY DEF IInv
  <2>2. OrderStep
    BY <1>1, <2>1, StepKinds
  <2>3. TypeOK' /\ Records'
    BY <1>1, NextTypes, NextRecords
  <2>4. OncePerCommand' /\ Counted'
    BY <1>1, <2>1, <2>2, NextOnce, NextCounted
  <2>5. Control'
    BY <1>1, <2>1, NextPlaces, NextInHand, NextVoided DEF Control
  <2>6. QED
    BY <2>3, <2>4, <2>5 DEF IInv
<1>2. CASE UNCHANGED vars
  <2>1. /\ book' = book /\ cmds' = cmds /\ ledger' = ledger /\ exch' = exch /\ mem' = mem /\ tasks' = tasks
        /\ ctl' = ctl /\ faults' = faults /\ shorts' = shorts /\ crashes' = crashes
    BY <1>2 DEF vars, durable, budget
  <2>2. TypeOK' /\ Records' /\ OncePerCommand'
    BY <2>1 DEF IInv, TypeOK, Records, OncePerCommand
  <2>3. Control'
    BY <2>1 DEF IInv, Control, Places, InHand, Voided, Cmd, RowsOf, NeverHad
  <2>4. Held' = Held /\ LiveOf("exit")' = LiveOf("exit")
    BY <2>1, SumsAre
  <2>5. Counted'
    BY <2>1, <2>4 DEF IInv, Counted
  <2>6. QED
    BY <2>2, <2>3, <2>5 DEF IInv
<1>3. QED
  BY <1>1, <1>2

\* ... so it always holds.
LEMMA Invariant == Spec => []IInv
<1>1. QED
  BY InitInvariant, StepInvariant, PTL DEF Spec

\* Every table, the memory, the queue and the running task keep their types: no row id, command id or
\* exposure outside its range is ever used (all of testnet.ts, outbox.ts, ledger.ts).
THEOREM TypeInvariant == Spec => []TypeOK
<1>1. IInv => TypeOK
  BY DEF IInv
<1>2. QED
  BY Invariant, <1>1, PTL

\* Whatever is lost, repeated or cut off by a SIGKILL, drainOutbox() and recover() never give two ledger
\* rows, hence two POSTs, the client id of one command.
THEOREM OncePerCommandHolds == Spec => []OncePerCommand
<1>1. IInv => OncePerCommand
  BY DEF IInv
<1>2. QED
  BY Invariant, <1>1, PTL

\* However market exits, remainders of sweep() and stranded closes follow each other, the exits the
\* exchange may still fill never exceed the contracts it holds.
THEOREM NeverOverclosedHolds == Spec => []NeverOverclosed
<1>1. IInv => NeverOverclosed
  BY DEF IInv, Counted, NeverOverclosed
<1>2. QED
  BY Invariant, <1>1, PTL

\* When no entry was or can be filled, nothing is held and none is on its way.
LEMMA NeverHadNothing ==
  ASSUME TypeOK, Records, Counted, NeverHad
  PROVE  Held = 0 /\ LiveOf("entry") = 0
<1>1. ledger \in Seq(Row) /\ exch \in Seq(ExchOrder) /\ Len(exch) = Len(ledger) /\ Rows = 1..Len(ledger)
  BY TypeFacts
<1> DEFINE LT == LiveTerms(ledger, exch, "entry")
           NX == NetTerms(ledger, exch)
<1>2. LT \in Seq(Int) /\ NX \in Seq(Int) /\ Len(LT) = Len(ledger) /\ Len(NX) = Len(ledger)
  BY <1>1, TermFacts
<1>3. LiveOf("entry") = Total(LT) /\ Held = Total(NX)
  BY SumsAre DEF LiveOf, Live, LiveTerms, LiveTerm
<1>4. ASSUME NEW r \in 1..Len(ledger) PROVE LT[r] = 0 /\ NX[r] <= 0
  <2>1. /\ NX[r] = IF ledger[r].purpose = "entry" THEN exch[r].filled ELSE -exch[r].filled
        /\ LT[r] = IF ledger[r].purpose = "entry" THEN LiveTerm(ledger[r], exch[r]) ELSE 0
    BY <1>1 DEF NetTerms, LiveTerms
  <2>2. exch[r] \in ExchOrder /\ (ledger[r].purpose = "entry" => exch[r].filled = 0 /\ exch[r].st \notin {"wire", "open"})
    BY <1>1, TypeFacts DEF NeverHad
  <2> HIDE DEF LT, NX
  <2>3. CASE ledger[r].purpose = "entry"
    BY <2>1, <2>2, <2>3 DEF LiveTerm
  <2>4. CASE ledger[r].purpose # "entry"
    BY <2>1, <2>2, <2>4 DEF ExchOrder
  <2>5. QED
    BY <2>3, <2>4
<1> HIDE DEF LT, NX
<1>5. Total(LT) <= 0 /\ Total(LT) >= 0 /\ Total(LT) \in Int /\ Total(NX) <= 0 /\ Total(NX) \in Int
  <2>1. \A r \in 1..Len(LT) : LT[r] <= 0 /\ LT[r] >= 0
    BY <1>2, <1>4
  <2>2. \A r \in 1..Len(NX) : NX[r] <= 0
    BY <1>2, <1>4
  <2>3. QED
    BY <1>2, <2>1, <2>2, TotalNotPositive, TotalNotNegative, TotalInt
<1>6. Held >= 0
  BY DEF Counted
<1>7. QED
  BY <1>3, <1>5, <1>6

\* confirm() and recover() never record more than was filled nor call final what is not, and
\* voidPosition() only removes a position the exchange does not hold and never will.
THEOREM LedgerTruthfulHolds == Spec => []LedgerTruthful
<1>1. ASSUME IInv PROVE LedgerTruthful
  <2>1. TypeOK /\ Records /\ Counted /\ Voided
    BY <1>1 DEF IInv, Control
  <2>2. ASSUME NEW r \in Rows
        PROVE  /\ ledger[r].filled <= exch[r].filled
               /\ ledger[r].state \in {"filled", "cancelled", "rejected"} =>
                     Live(r) = 0 /\ ledger[r].filled = exch[r].filled
    <3>1. RowOK(ledger[r], exch[r]) /\ ledger[r] \in Row /\ exch[r] \in ExchOrder
      BY <2>1, TypeFacts DEF Records
    <3>2. QED
      BY <3>1 DEF RowOK, Live, Row, ExchOrder
  <2>3. book.status = "void" => Held = 0 /\ LiveOf("entry") = 0
    BY <2>1, NeverHadNothing DEF Voided
  <2>4. QED
    BY <2>2, <2>3 DEF LedgerTruthful
<1>2. QED
  BY Invariant, <1>1, PTL

\* enter() sends its order only while the paper position is open, also when the position closed during
\* the leverage call.
THEOREM EntryOnlyWhileOpenHolds == Spec => EntryOnlyWhileOpen
<1> DEFINE A == Len(ledger') > Len(ledger) /\ ledger'[Len(ledger')].purpose = "entry" => book.status = "open"
<1>1. ASSUME IInv, Next PROVE A
  <2>1. TypeOK /\ OrderStep /\ ledger \in Seq(Row)
    BY <1>1, StepKinds, TypeFacts DEF IInv
  <2>2. CASE OrdersKept \/ (\E r \in Rows, x \in ExchOrder : OrderMoves(r, x))
    BY <2>1, <2>2 DEF OrdersKept, OrderMoves
  <2>3. CASE \E r \in Rows, l \in Row : OrderMarked(r, l) \/ OrderRead(r, l)
    BY <2>1, <2>3 DEF OrderMarked, OrderRead
  <2>4. ASSUME NEW l \in Row, OrderSent(l) PROVE A
    <3>1. ledger' = Append(ledger, l) /\ (l.purpose = "entry" => book.status = "open")
      BY <2>4 DEF OrderSent
    <3>2. ledger'[Len(ledger')] = l
      BY <2>1, <3>1
    <3>3. QED
      BY <3>1, <3>2
  <2>5. QED
    BY <2>1, <2>2, <2>3, <2>4 DEF OrderStep
<1>2. ASSUME UNCHANGED vars PROVE A
  <2>1. Len(ledger') = Len(ledger)
    BY <1>2 DEF vars, durable
  <2>2. ledger' = ledger
    BY <1>2 DEF vars, durable
  <2>3. ~(Len(ledger) > Len(ledger))
    OBVIOUS
  <2>4. QED
    BY <2>2, <2>3
<1>3. QED
  BY Invariant, <1>1, <1>2, PTL DEF Spec, EntryOnlyWhileOpen

----------------------------------------------------------------------------
(* Nothing is forgotten, as long as the book does not move while start()    *)
(* recovers.  The invariant gets what the program relies on between tasks.  *)

Middle == {"post", "confirm", "settle"}
Has(s, t) == \E i \in 1..Len(s) : s[i] = t

\* What an order is looked up for; start() never gets to what only a sweep does.
PathOf(c) ==
  /\ c.at \in Middle => c.why \in {"enter", "exit", "rest", "stranded", "pending", "unconfirmed", "recover"}
  /\ c.at = "post" => c.why \in {"enter", "exit", "rest", "stranded"}
  /\ c.task = "start" /\ c.at # "idle" =>
       /\ c.at \notin {"rest", "strand", "unconfirmed"}
       /\ c.at \in Middle => c.why \in {"enter", "exit", "recover"}
  /\ c.nested => c.at \in {"recover", "snapshot"} \/ c.why = "recover"

\* start() runs first and alone.
Queue ==
  /\ ~mem.listening => IF ctl.at = "idle" THEN tasks = <<"start">> ELSE tasks = <<>> /\ ctl.task = "start"
  /\ mem.listening => ~Has(tasks, "start") /\ (ctl.at # "idle" => ctl.task # "start")

\* Once it is rebuilt the exposure map is the ledger's.
Rebuilding ==
  /\ ~mem.listening /\ ~ctl.nested
  /\ ctl.at = "idle" \/ (ctl.at \in {"recover", "confirm", "settle"} /\ ctl.why \in {"none", "recover"})
Built == Rebuilding \/ mem.exposure = Exposure(ledger)

\* Every step keeps the task on the path of its kind.
LEMMA NextPath ==
  ASSUME TypeOK, Places, PathOf(ctl), Next
  PROVE  PathOf(ctl')
<1>1. /\ ctl \in [task : Tasks, at : Points, why : Reasons, row : 0..Len(ledger),
                  verdict : {"none", "filled", "unfilled", "unknown"}, nested : BOOLEAN,
                  todo : SUBSET DOMAIN cmds, rows : SUBSET Rows]
      /\ ctl.nested => ctl.at \in {"recover", "snapshot"} \/ (ctl.at \in {"confirm", "settle"} /\ ctl.why = "recover")
  BY DEF TypeOK, Places
<1>2. ASSUME ctl' = ctl PROVE PathOf(ctl')
  BY <1>2
<1>3. ASSUME NEW p \in {"record", "leverage"}, Goto(p), ~ctl.nested PROVE PathOf(ctl')
  BY <1>1, <1>3 DEF Goto, PathOf, Middle
<1>4. ASSUME NEW p \in {"recover", "snapshot"}, Goto(p) PROVE PathOf(ctl')
  BY <1>1, <1>4 DEF Goto, PathOf, Middle
<1>5. ASSUME NEW p \in {"rest", "strand", "unconfirmed"}, Goto(p), ~ctl.nested, ctl.task # "start" PROVE PathOf(ctl')
  BY <1>1, <1>5 DEF Goto, PathOf, Middle
<1>6. ASSUME Finish PROVE PathOf(ctl')
  BY <1>6 DEF Finish, NoCtl, PathOf, Middle
<1>7. ASSUME FinishStrand, ~ctl.nested PROVE PathOf(ctl')
  BY <1>5, <1>6, <1>7 DEF FinishStrand
<1>8. ASSUME NextCommand \/ (StopDrain /\ ctl.at = "drain"), ~ctl.nested PROVE PathOf(ctl')
  BY <1>1, <1>8 DEF NextCommand, StopDrain, PathOf, Middle
<1>9. ASSUME NEW v, Verdict(v), ctl.at = "confirm" PROVE PathOf(ctl')
  BY <1>1, <1>9 DEF Verdict, PathOf, Middle
<1>10. ASSUME NEW c, NEW s, NEW p, NEW q, NEW w \in {"enter", "exit", "rest", "stranded"}, Send(c, s, p, q, w), ~ctl.nested,
              ctl.task = "start" => w \in {"enter", "exit"}
       PROVE  PathOf(ctl')
  BY <1>1, <1>10 DEF Send, PathOf, Middle
<1>11. CASE PaperEntry \/ (\E q \in 1..Qty : PaperExit(q)) \/ SweepTick \/ Exchange
  BY <1>2, <1>11 DEF PaperEntry, PaperExit, SweepTick, Exchange, Accept, Drop, Fill, EndShort
<1>12. CASE TakeTask
  <2>1. ctl.at = "idle" /\ ~ctl.nested
    BY <1>1, <1>12 DEF TakeTask
  <2>2. \/ \E t, R : ctl' = [ctl EXCEPT !.task = t, !.at = "recover", !.nested = FALSE, !.why = "none", !.row = 0, !.rows = R]
        \/ \E t, T : ctl' = [ctl EXCEPT !.task = t, !.at = "drain", !.nested = FALSE, !.todo = T]
        \/ ctl' = [ctl EXCEPT !.task = "closed", !.at = "strand"]
        \/ ctl' = ctl
    BY <1>12 DEF TakeTask, StartRecover, StartDrain
  <2>3. QED
    BY <1>1, <2>1, <2>2 DEF PathOf, Middle
<1>13. CASE RecoverRow
  <2>1. ctl.at = "recover"
    BY <1>13 DEF RecoverRow
  <2>2. /\ ctl'.why = "recover" /\ ctl'.at \in {"confirm", "settle"} /\ ctl'.nested = ctl.nested /\ ctl'.task = ctl.task
    BY <1>1, <1>13 DEF RecoverRow
  <2>3. QED
    BY <1>1, <2>1, <2>2 DEF PathOf, Middle
<1>14. CASE RecoverExposure \/ SettleRecovered
  BY <1>4, <1>14 DEF RecoverExposure, SettleRecovered
<1>15. CASE SnapshotAnswered \/ SnapshotFails
  BY <1>1, <1>15 DEF SnapshotAnswered, SnapshotFails, AfterRecover, PathOf, Middle
<1>16. CASE DrainEnds
  <2>1. ~ctl.nested
    BY <1>1, <1>16 DEF DrainEnds
  <2>2. QED
    BY <1>5, <1>6, <1>16, <2>1 DEF DrainEnds
<1>17. CASE DrainKnown
  BY <1>1, <1>17 DEF DrainKnown, Draining, StartRecover, PathOf, Middle
<1>18. CASE DrainStale \/ DrainWaits \/ DrainExpired \/ DrainEntry \/ DrainExit
  <2>1. ctl.at = "drain" /\ ~ctl.nested
    BY <1>1, <1>18 DEF DrainStale, DrainWaits, DrainExpired, DrainEntry, DrainExit, Draining
  <2>2. CASE DrainStale \/ DrainWaits
    BY <1>8, <2>1, <2>2 DEF DrainStale, DrainWaits
  <2>3. CASE DrainExpired
    BY <1>1, <2>1, <2>3 DEF DrainExpired, PathOf, Middle
  <2>4. CASE DrainEntry
    BY <1>3, <2>1, <2>4 DEF DrainEntry
  <2>5. CASE DrainExit
    BY <1>8, <1>10, <2>1, <2>5 DEF DrainExit
  <2>6. QED
    BY <1>18, <2>2, <2>3, <2>4, <2>5
<1>19. CASE LeverageHeld \/ LeverageRefused \/ VoidPosition \/ RecordCommand
  <2>1. ctl.at \in {"leverage", "void", "record"} /\ ~ctl.nested
    BY <1>1, <1>19 DEF LeverageHeld, LeverageRefused, VoidPosition, RecordCommand
  <2>2. CASE LeverageHeld
    BY <1>3, <1>10, <2>1, <2>2 DEF LeverageHeld
  <2>3. CASE LeverageRefused
    BY <1>3, <2>1, <2>3 DEF LeverageRefused
  <2>4. CASE VoidPosition
    BY <1>3, <1>8, <2>1, <2>4 DEF VoidPosition
  <2>5. CASE RecordCommand
    BY <1>8, <2>1, <2>5 DEF RecordCommand
  <2>6. QED
    BY <1>19, <2>2, <2>3, <2>4, <2>5
<1>20. CASE PostOk \/ PostRejected \/ PostUnanswered
  <2>1. ctl.at = "post" /\ ~ctl.nested /\ ctl.why \in {"enter", "exit", "rest", "stranded"}
    BY <1>1, <1>20 DEF PostOk, PostRejected, PostUnanswered, PathOf
  <2>2. ctl.task = "start" => ctl.why \in {"enter", "exit"}
    BY <2>1 DEF PathOf, Middle
  <2>3. ASSUME ctl' = [ctl EXCEPT !.at = "confirm"] \/ ctl' = [ctl EXCEPT !.at = "void"] PROVE PathOf(ctl')
    BY <1>1, <2>1, <2>2, <2>3 DEF PathOf, Middle
  <2>4. CASE PostOk \/ PostUnanswered
    BY <1>7, <2>1, <2>3, <2>4 DEF PostOk, PostUnanswered
  <2>5. CASE PostRejected
    BY <1>3, <1>5, <1>7, <2>1, <2>2, <2>3, <2>5 DEF PostRejected
  <2>6. QED
    BY <1>20, <2>4, <2>5
<1>21. CASE LookupDone \/ LookupOpen \/ LookupAgain \/ LookupEmpty
  BY <1>2, <1>9, <1>21 DEF LookupDone, LookupOpen, LookupAgain, LookupEmpty, Found
<1>22. CASE SettleEntry \/ SettleExit \/ SettleStranded \/ SettlePending
  <2>1. /\ ctl.at = "settle" /\ ~ctl.nested /\ ctl.why \in {"enter", "unconfirmed", "exit", "rest", "stranded", "pending"}
        /\ ctl.task = "start" => ctl.why \in {"enter", "exit"}
    BY <1>1, <1>22 DEF SettleEntry, SettleExit, SettleStranded, SettlePending, PathOf, Middle
  <2>2. CASE SettleEntry
    BY <1>3, <1>6, <2>1, <2>2 DEF SettleEntry
  <2>3. CASE SettleExit
    BY <1>3, <1>5, <2>1, <2>3 DEF SettleExit
  <2>4. CASE SettleStranded
    BY <1>7, <2>1, <2>4 DEF SettleStranded
  <2>5. CASE SettlePending
    <3>1. CASE FinishStrand
      BY <1>7, <2>1, <3>1
    <3>2. CASE ~FinishStrand
      <4>1. /\ ctl.why = "pending"
            /\ ctl' = [ctl EXCEPT !.at = "confirm", !.row = Min(ctl.rows), !.rows = @ \ {Min(@)}, !.verdict = "none"]
        BY <2>5, <3>2 DEF SettlePending
      <4>2. QED
        BY <1>1, <2>1, <4>1 DEF PathOf, Middle
    <3>3. QED
      BY <3>1, <3>2
  <2>6. QED
    BY <1>22, <2>2, <2>3, <2>4, <2>5
<1>23. CASE SweepRest \/ CloseStranded \/ SweepUnconfirmed
  <2>1. ctl.at \in {"rest", "strand", "unconfirmed"} /\ ~ctl.nested /\ ctl.task # "start"
    BY <1>1, <1>23 DEF SweepRest, CloseStranded, SweepUnconfirmed, PathOf
  <2>2. CASE SweepRest
    BY <1>5, <1>10, <2>1, <2>2 DEF SweepRest
  <2>3. CASE CloseStranded
    <3>1. CASE FinishStrand
      BY <1>7, <2>1, <3>1
    <3>2. CASE ctl' = [ctl EXCEPT !.at = "confirm", !.why = "pending", !.row = Min(UnsettledExits),
                                  !.rows = UnsettledExits \ {Min(UnsettledExits)}]
      BY <1>1, <2>1, <3>2 DEF PathOf, Middle
    <3>3. CASE \E c, s, q : Send(c, s, "exit", q, "stranded")
      BY <1>10, <2>1, <3>3
    <3>4. QED
      BY <2>3, <3>1, <3>2, <3>3 DEF CloseStranded
  <2>4. CASE SweepUnconfirmed
    BY <1>1, <1>6, <2>1, <2>4 DEF SweepUnconfirmed, PathOf, Middle
  <2>5. QED
    BY <1>23, <2>2, <2>3, <2>4
<1>24. CASE Crash
  BY <1>24 DEF Crash, NoCtl, PathOf, Middle
<1>25. QED
  BY <1>11, <1>12, <1>13, <1>14, <1>15, <1>16, <1>17, <1>18, <1>19, <1>20, <1>21, <1>22, <1>23, <1>24 DEF Next, Step

\* The queue after an emit, a sweep tick and a task taken.
LEMMA QueueFacts ==
  ASSUME NEW s \in Seq(Tasks), NEW e \in Seq(Tasks), NEW t
  PROVE  /\ Has(s \o e, t) <=> Has(s, t) \/ Has(e, t)
         /\ s # <<>> => (Has(s, t) <=> Head(s) = t \/ Has(Tail(s), t))
<1>1. Has(s \o e, t) <=> Has(s, t) \/ Has(e, t)
  <2>1. /\ Len(s \o e) = Len(s) + Len(e) /\ Len(s) \in Nat /\ Len(e) \in Nat
        /\ \A i \in 1..Len(s) + Len(e) : (s \o e)[i] = IF i <= Len(s) THEN s[i] ELSE e[i - Len(s)]
    OBVIOUS
  <2>2. ASSUME Has(s \o e, t) PROVE Has(s, t) \/ Has(e, t)
    <3>1. PICK i \in 1..Len(s) + Len(e) : (s \o e)[i] = t
      BY <2>1, <2>2 DEF Has
    <3>2. CASE i <= Len(s)
      <4>1. i \in 1..Len(s) /\ s[i] = t
        BY <2>1, <3>1, <3>2
      <4>2. QED
        BY <4>1 DEF Has
    <3>3. CASE ~(i <= Len(s))
      <4>1. i - Len(s) \in 1..Len(e) /\ e[i - Len(s)] = t
        BY <2>1, <3>1, <3>3
      <4>2. QED
        BY <4>1 DEF Has
    <3>4. QED
      BY <3>2, <3>3
  <2>3. ASSUME NEW i \in 1..Len(s), s[i] = t PROVE Has(s \o e, t)
    <3>1. i \in 1..Len(s) + Len(e) /\ (s \o e)[i] = t
      BY <2>1, <2>3
    <3>2. QED
      BY <2>1, <3>1 DEF Has
  <2>4. ASSUME NEW i \in 1..Len(e), e[i] = t PROVE Has(s \o e, t)
    <3>1. Len(s) + i \in 1..Len(s) + Len(e) /\ ~(Len(s) + i <= Len(s)) /\ Len(s) + i - Len(s) = i
      BY <2>1
    <3>2. (s \o e)[Len(s) + i] = t
      BY <2>1, <2>4, <3>1
    <3>3. QED
      BY <2>1, <3>1, <3>2 DEF Has
  <2>5. QED
    BY <2>2, <2>3, <2>4 DEF Has
<1>2. ASSUME s # <<>> PROVE Has(s, t) <=> Head(s) = t \/ Has(Tail(s), t)
  <2>1. /\ Len(s) \in Nat \ {0} /\ Head(s) = s[1] /\ Len(Tail(s)) = Len(s) - 1
        /\ \A i \in 1..Len(s) - 1 : Tail(s)[i] = s[i + 1]
    BY <1>2
  <2>2. ASSUME NEW i \in 1..Len(s), s[i] = t PROVE Head(s) = t \/ Has(Tail(s), t)
    <3>1. CASE i = 1
      BY <2>1, <2>2, <3>1
    <3>2. CASE i # 1
      <4>1. i - 1 \in 1..Len(s) - 1 /\ (i - 1) + 1 = i
        BY <2>1, <3>2
      <4>2. Tail(s)[i - 1] = t
        BY <2>1, <2>2, <4>1
      <4>3. QED
        BY <2>1, <4>1, <4>2 DEF Has
    <3>3. QED
      BY <3>1, <3>2
  <2>3. ASSUME Head(s) = t PROVE Has(s, t)
    <3>1. 1 \in 1..Len(s)
      BY <2>1
    <3>2. QED
      BY <2>1, <2>3, <3>1 DEF Has
  <2>4. ASSUME NEW i \in 1..Len(s) - 1, Tail(s)[i] = t PROVE Has(s, t)
    <3>1. i + 1 \in 1..Len(s) /\ s[i + 1] = t
      BY <2>1, <2>4
    <3>2. QED
      BY <3>1 DEF Has
  <2>5. QED
    BY <2>1, <2>2, <2>3, <2>4 DEF Has
<1>3. QED
  BY <1>1, <1>2

\* Before the listeners are installed only start() is queued.
LEMMA QueueWords ==
  /\ <<"start">> \in Seq(Tasks) /\ <<"drain">> \in Seq(Tasks) /\ <<"voided">> \in Seq(Tasks)
  /\ <<"drain", "closed">> \in Seq(Tasks) /\ <<"sweep">> \in Seq(Tasks) /\ <<>> \in Seq(Tasks)
  /\ ~Has(<<"drain">>, "start") /\ ~Has(<<"voided">>, "start") /\ ~Has(<<"sweep">>, "start")
  /\ ~Has(<<"drain", "closed">>, "start") /\ Has(<<"drain", "closed">>, "closed") /\ ~Has(<<>>, "start")
  /\ ~Has(<<"start">>, "closed") /\ ~Has(<<>>, "closed")
<1>1. /\ <<"start">> \in Seq(Tasks) /\ <<"drain">> \in Seq(Tasks) /\ <<"voided">> \in Seq(Tasks)
      /\ <<"drain", "closed">> \in Seq(Tasks) /\ <<"sweep">> \in Seq(Tasks) /\ <<>> \in Seq(Tasks)
  BY DEF Tasks
<1>2. ASSUME NEW a, NEW t, Has(<<a>>, t) PROVE a = t
  BY <1>2 DEF Has
<1>3. ASSUME NEW t, Has(<<>>, t) PROVE FALSE
  BY <1>3 DEF Has
<1>4. ASSUME Has(<<"drain", "closed">>, "start") PROVE FALSE
  BY <1>4 DEF Has
<1>5. Has(<<"drain", "closed">>, "closed")
  <2>1. 2 \in 1..Len(<<"drain", "closed">>) /\ <<"drain", "closed">>[2] = "closed"
    OBVIOUS
  <2>2. QED
    BY <2>1 DEF Has
<1>6. "drain" # "start" /\ "voided" # "start" /\ "sweep" # "start" /\ "start" # "closed"
  OBVIOUS
<1>7. QED
  BY <1>1, <1>2, <1>3, <1>4, <1>5, <1>6

\* Every step keeps start() first and alone.
LEMMA NextQueue ==
  ASSUME TypeOK, Places, PathOf(ctl), Queue, Next
  PROVE  Queue'
<1>1. /\ ctl \in [task : Tasks, at : Points, why : Reasons, row : 0..Len(ledger),
                  verdict : {"none", "filled", "unfilled", "unknown"}, nested : BOOLEAN,
                  todo : SUBSET DOMAIN cmds, rows : SUBSET Rows]
      /\ mem \in [exposure : 0..Qty, unconfirmed : 0..Len(ledger), stranded : BOOLEAN,
                  deferred : BOOLEAN, listening : BOOLEAN, products : BOOLEAN, unheard : BOOLEAN]
      /\ tasks \in Seq(Tasks)
  BY DEF TypeOK
<1> DEFINE Same == mem'.listening = mem.listening /\ tasks' = tasks
           Runs == ctl.at # "idle" /\ (ctl'.at = "idle" => ctl.task # "start") /\ (ctl'.at # "idle" => ctl'.task = ctl.task)
\* a step of the task that runs
<1>2. ASSUME mem'.listening = mem.listening, tasks' = tasks, Runs PROVE Queue'
  BY <1>2 DEF Queue
\* an event is queued
<1>3. ASSUME NEW e \in Seq(Tasks), ~Has(e, "start"), mem.listening, tasks' = tasks \o e, mem'.listening = mem.listening,
             Runs \/ (ctl'.at = ctl.at /\ ctl'.task = ctl.task)
      PROVE  Queue'
  <2>1. ~Has(tasks', "start")
    BY <1>1, <1>3, QueueFacts DEF Queue
  <2>2. QED
    BY <1>3, <2>1 DEF Queue
<1>4. ASSUME NEW e \in Seq(Tasks), ~Has(e, "start"), Emit(e), mem' = mem, Runs PROVE Queue'
  BY <1>2, <1>3, <1>4 DEF Emit
<1>5. ASSUME Void, mem' = mem, Runs PROVE Queue'
  BY <1>2, <1>4, <1>5, QueueWords DEF Void
<1>6. ASSUME NEW p \in Points \ {"idle"}, Goto(p), ctl.at # "idle" PROVE Runs
  BY <1>1, <1>6 DEF Goto
<1>7. ASSUME Finish, ctl.at # "idle", ctl.task # "start" PROVE Runs
  BY <1>7 DEF Finish, NoCtl
<1>8. ASSUME FinishStrand, ctl.at # "idle", ctl.task # "start" PROVE Runs
  BY <1>6, <1>7, <1>8 DEF FinishStrand, Points
<1>9. ASSUME NextCommand \/ (StopDrain /\ ctl.at = "drain"), ctl.at # "idle" PROVE Runs
  BY <1>1, <1>9 DEF NextCommand, StopDrain
<1>10. ASSUME NEW c, NEW s, NEW p, NEW q, NEW w, Send(c, s, p, q, w), ctl.at # "idle" PROVE Runs
  BY <1>1, <1>10 DEF Send
<1>11. CASE PaperEntry
  <2>1. mem' = mem /\ ctl' = ctl /\ tasks' = (IF mem.listening THEN tasks \o <<"drain">> ELSE tasks)
    BY <1>11 DEF PaperEntry, PaperMoves, Emit
  <2>2. CASE mem.listening
    BY <1>3, <2>1, <2>2, QueueWords
  <2>3. QED
    BY <2>1, <2>2 DEF Queue
<1>12. ASSUME NEW q \in 1..Qty, PaperExit(q) PROVE Queue'
  <2>1. /\ mem'.listening = mem.listening /\ ctl' = ctl
        /\ IF mem.listening THEN tasks' = tasks \o <<"drain">> \/ tasks' = tasks \o <<"drain", "closed">>
                            ELSE tasks' = tasks
    BY <1>1, <1>12 DEF PaperExit, PaperMoves, Emit
  <2>2. CASE mem.listening
    BY <1>3, <2>1, <2>2, QueueWords
  <2>3. QED
    BY <2>1, <2>2 DEF Queue
<1>13. CASE SweepTick
  <2>1. mem.listening /\ mem' = mem /\ ctl' = ctl /\ tasks' = Append(tasks, "sweep")
    BY <1>13 DEF SweepTick
  <2>2. tasks' = tasks \o <<"sweep">>
    BY <1>1, <2>1, AppendIsConcat, QueueWords DEF Tasks
  <2>3. QED
    BY <1>3, <2>1, <2>2, QueueWords
<1>14. CASE Exchange
  <2>1. ctl' = ctl /\ mem' = mem /\ tasks' = tasks
    BY <1>14 DEF Exchange, Accept, Drop, Fill, EndShort
  <2>2. QED
    BY <2>1 DEF Queue
<1>15. CASE Crash
  BY <1>15 DEF Crash, NoMem, NoCtl, Queue
<1>16. CASE TakeTask
  <2> DEFINE t == Head(tasks)
  <2>1. ctl.at = "idle" /\ tasks # <<>> /\ tasks' = Tail(tasks) /\ mem'.listening = mem.listening
    BY <1>1, <1>16 DEF TakeTask, StartRecover, StartDrain
  <2>2. ctl'.task = t \/ ctl' = ctl
    BY <1>1, <1>16 DEF TakeTask, StartRecover, StartDrain
  <2>3. CASE mem.listening
    <3>1. ~Has(tasks, "start")
      BY <2>3 DEF Queue
    <3>2. t # "start" /\ ~Has(tasks', "start")
      BY <1>1, <2>1, <3>1, QueueFacts, QueueWords
    <3>3. QED
      BY <2>1, <2>2, <2>3, <3>2 DEF Queue
  <2>4. CASE ~mem.listening
    <3>1. tasks = <<"start">>
      BY <2>1, <2>4 DEF Queue
    <3>2. t = "start" /\ tasks' = <<>>
      BY <2>1, <3>1
    <3>3. \E k : StartRecover(FALSE, "start", k)
      BY <1>16, <3>2 DEF TakeTask
    <3>4. ctl'.at = "recover" /\ ctl'.task = "start"
      BY <1>1, <3>3 DEF StartRecover
    <3>5. QED
      BY <2>1, <2>4, <3>2, <3>4 DEF Queue
  <2>5. QED
    BY <2>3, <2>4
<1>17. CASE RecoverRow \/ RecoverExposure \/ SnapshotAnswered \/ SnapshotFails \/ DrainKnown
  <2>1. mem'.listening = mem.listening /\ tasks' = tasks
    BY <1>1, <1>17 DEF RecoverRow, RecoverExposure, SnapshotAnswered, SnapshotFails, DrainKnown, StartRecover
  <2>2. Runs
    BY <1>1, <1>6, <1>17 DEF RecoverRow, RecoverExposure, SnapshotAnswered, SnapshotFails, DrainKnown, Draining,
       StartRecover, AfterRecover, Points
  <2>3. QED
    BY <1>2, <2>1, <2>2
<1>18. CASE DrainEnds
  <2>1. CASE ctl.task = "start"
    <3>1. mem'.listening /\ tasks' = <<"drain">> /\ ctl'.at = "idle"
      BY <1>1, <1>18, <2>1 DEF DrainEnds, Finish, NoCtl
    <3>2. QED
      BY <3>1, QueueWords DEF Queue
  <2>2. CASE ctl.task # "start"
    <3>1. Runs /\ mem' = mem /\ tasks' = tasks
      BY <1>6, <1>7, <1>18, <2>2 DEF DrainEnds, Points
    <3>2. QED
      BY <1>2, <3>1
  <2>3. QED
    BY <2>1, <2>2
<1>19. CASE DrainStale \/ DrainWaits \/ DrainExpired \/ DrainEntry \/ DrainExit \/ RecordCommand \/ LeverageHeld
  <2>1. mem' = mem /\ tasks' = tasks
    BY <1>19 DEF DrainStale, DrainWaits, DrainExpired, DrainEntry, DrainExit, RecordCommand, LeverageHeld
  <2>2. Runs
    BY <1>1, <1>6, <1>9, <1>10, <1>19 DEF DrainStale, DrainWaits, DrainExpired, DrainEntry, DrainExit, RecordCommand,
       LeverageHeld, Draining, Points
  <2>3. QED
    BY <1>2, <2>1, <2>2
<1>20. CASE LeverageRefused \/ VoidPosition
  <2>1. Void /\ mem' = mem /\ Runs
    BY <1>6, <1>9, <1>20 DEF LeverageRefused, VoidPosition, Points
  <2>2. QED
    BY <1>5, <2>1
<1>21. CASE PostOk \/ PostRejected \/ PostUnanswered
  <2>1. mem' = mem /\ tasks' = tasks /\ ctl.at = "post"
    BY <1>21 DEF PostOk, PostRejected, PostUnanswered
  <2>2. ctl.task = "start" => ctl.why \in {"enter", "exit"}
    BY <2>1 DEF PathOf, Middle
  <2>3. ASSUME ctl' = [ctl EXCEPT !.at = "confirm"] \/ ctl' = [ctl EXCEPT !.at = "void"] PROVE Runs
    BY <1>1, <2>1, <2>3
  <2>4. Runs
    BY <1>6, <1>8, <1>21, <2>1, <2>2, <2>3 DEF PostOk, PostRejected, PostUnanswered, Points
  <2>5. QED
    BY <1>2, <2>1, <2>4
<1>22. CASE LookupDone \/ LookupOpen \/ LookupAgain \/ LookupEmpty
  <2>1. mem'.listening = mem.listening /\ tasks' = tasks /\ ctl.at = "confirm"
    BY <1>1, <1>22 DEF LookupDone, LookupOpen, LookupAgain, LookupEmpty, Found, Observe
  <2>2. Runs
    BY <1>1, <1>22, <2>1 DEF LookupDone, LookupOpen, LookupAgain, LookupEmpty, Verdict
  <2>3. QED
    BY <1>2, <2>1, <2>2
<1>23. CASE SettleEntry \/ SettleRecovered
  <2>1. /\ ctl.at = "settle" /\ mem'.listening = mem.listening
        /\ (tasks' = tasks) \/ Void
    BY <1>1, <1>23 DEF SettleEntry, SettleRecovered
  <2>2. ctl.task = "start" => ctl.why \in {"enter", "exit", "recover"}
    BY <2>1 DEF PathOf, Middle
  <2>3. Runs
    BY <1>6, <1>7, <1>23, <2>1, <2>2 DEF SettleEntry, SettleRecovered, Points
  <2>4. CASE tasks' = tasks
    BY <1>2, <2>1, <2>3, <2>4
  <2>5. CASE Void /\ tasks' # tasks
    <3>1. mem.listening /\ tasks' = tasks \o <<"voided">>
      BY <2>5 DEF Void, Emit
    <3>2. ~Has(tasks', "start")
      BY <1>1, <3>1, QueueFacts, QueueWords DEF Queue
    <3>3. QED
      BY <2>1, <2>3, <3>1, <3>2 DEF Queue
  <2>6. QED
    BY <2>1, <2>4, <2>5
<1>24. CASE SettleExit
  BY <1>2, <1>6, <1>24 DEF SettleExit, Points
<1>25. CASE SettleStranded \/ SettlePending
  <2>1. ctl.at = "settle" /\ ctl.why \in {"stranded", "pending"} /\ mem'.listening = mem.listening /\ tasks' = tasks
    BY <1>1, <1>25 DEF SettleStranded, SettlePending
  <2>2. ctl.task # "start"
    BY <2>1 DEF PathOf, Middle
  <2>3. CASE FinishStrand
    BY <1>2, <1>8, <2>1, <2>2, <2>3
  <2>4. CASE ~FinishStrand
    <3>1. ctl' = [ctl EXCEPT !.at = "confirm", !.row = Min(ctl.rows), !.rows = @ \ {Min(@)}, !.verdict = "none"]
      BY <1>25, <2>4 DEF SettleStranded, SettlePending
    <3>2. QED
      BY <1>1, <1>2, <2>1, <3>1
  <2>5. QED
    BY <2>3, <2>4
<1>26. CASE SweepRest
  <2>1. Runs /\ mem' = mem /\ tasks' = tasks
    BY <1>6, <1>10, <1>26 DEF SweepRest, Points
  <2>2. QED
    BY <1>2, <2>1
<1>27. CASE CloseStranded
  <2>1. ctl.at = "strand" /\ mem'.listening = mem.listening /\ tasks' = tasks
    BY <1>1, <1>27 DEF CloseStranded
  <2>2. ctl.task # "start"
    BY <2>1 DEF PathOf
  <2>3. CASE FinishStrand
    BY <1>2, <1>8, <2>1, <2>2, <2>3
  <2>4. CASE ctl' = [ctl EXCEPT !.at = "confirm", !.why = "pending", !.row = Min(UnsettledExits),
                                !.rows = UnsettledExits \ {Min(UnsettledExits)}]
    BY <1>1, <1>2, <2>1, <2>4
  <2>5. CASE \E c, s, q : Send(c, s, "exit", q, "stranded")
    BY <1>2, <1>10, <2>1, <2>5
  <2>6. QED
    BY <1>27, <2>3, <2>4, <2>5 DEF CloseStranded
<1>28. CASE SweepUnconfirmed
  <2>1. ctl.at = "unconfirmed" /\ mem' = mem /\ tasks' = tasks
    BY <1>28 DEF SweepUnconfirmed
  <2>2. ctl.task # "start"
    BY <2>1 DEF PathOf
  <2>3. Runs
    BY <1>1, <1>7, <1>28, <2>1, <2>2 DEF SweepUnconfirmed
  <2>4. QED
    BY <1>2, <2>1, <2>3
<1>29. QED
  BY <1>11, <1>12, <1>13, <1>14, <1>15, <1>16, <1>17, <1>18, <1>19, <1>20, <1>21, <1>22, <1>23, <1>24, <1>25, <1>26, <1>27,
     <1>28 DEF Next, Step

\* Once rebuilt, the exposure map follows the ledger at every step.
LEMMA NextBuilt ==
  ASSUME TypeOK, Records, Control, PathOf(ctl), Queue, Built, Next
  PROVE  Built'
<1>1. /\ ctl \in [task : Tasks, at : Points, why : Reasons, row : 0..Len(ledger),
                  verdict : {"none", "filled", "unfilled", "unknown"}, nested : BOOLEAN,
                  todo : SUBSET DOMAIN cmds, rows : SUBSET Rows]
      /\ mem \in [exposure : 0..Qty, unconfirmed : 0..Len(ledger), stranded : BOOLEAN,
                  deferred : BOOLEAN, listening : BOOLEAN, products : BOOLEAN, unheard : BOOLEAN]
      /\ Places
  BY DEF TypeOK, Control
<1>2. Exposure(ledger') = Exposure(ledger) \/ mem'.exposure = Exposure(ledger')
  BY StepKinds, LedgerExposure
<1>3. mem'.exposure \in {0, mem.exposure, Exposure(ledger')}
  BY ExposureStep
<1>4. CASE Crash
  BY <1>4 DEF Crash, NoMem, NoCtl, Built, Rebuilding
<1>5. CASE RecoverExposure
  BY <1>1, <1>5 DEF RecoverExposure, durable, Built
<1>6. CASE ~Crash /\ ~RecoverExposure
  <2>1. mem'.exposure = mem.exposure \/ mem'.exposure = Exposure(ledger')
    <3>1. CASE PaperEntry \/ (\E q \in 1..Qty : PaperExit(q)) \/ SweepTick \/ Exchange
      BY <1>1, <3>1 DEF PaperEntry, PaperExit, SweepTick, Exchange, Accept, Drop, Fill, EndShort
    <3>2. CASE TakeTask \/ DrainKnown \/ DrainEnds
      BY <1>1, <3>2 DEF TakeTask, DrainKnown, DrainEnds, StartRecover, StartDrain
    <3>3. CASE RecoverRow \/ SnapshotAnswered \/ SnapshotFails \/ DrainStale \/ DrainExpired \/ DrainWaits \/ DrainEntry
                \/ DrainExit
      BY <1>1, <3>3 DEF RecoverRow, SnapshotAnswered, SnapshotFails, DrainStale, DrainExpired, DrainWaits, DrainEntry, DrainExit
    <3>4. CASE LeverageHeld \/ LeverageRefused \/ VoidPosition \/ RecordCommand \/ PostOk \/ PostRejected \/ PostUnanswered
      BY <3>4 DEF LeverageHeld, LeverageRefused, VoidPosition, RecordCommand, PostOk, PostRejected, PostUnanswered
    <3>5. CASE LookupDone \/ LookupOpen \/ LookupAgain \/ LookupEmpty
      BY <1>1, <3>5 DEF LookupDone, LookupOpen, LookupAgain, LookupEmpty, Observe
    <3>6. CASE SettleEntry \/ SettleExit \/ SettleStranded \/ SettlePending \/ SettleRecovered
      BY <1>1, <3>6 DEF SettleEntry, SettleExit, SettleStranded, SettlePending, SettleRecovered
    <3>7. CASE SweepRest \/ CloseStranded \/ SweepUnconfirmed
      BY <1>1, <3>7 DEF SweepRest, CloseStranded, SweepUnconfirmed
    <3>8. QED
      BY <1>6, <3>1, <3>2, <3>3, <3>4, <3>5, <3>6, <3>7 DEF Next, Step
  <2>2. CASE ~Rebuilding
    <3>1. mem.exposure = Exposure(ledger)
      BY <2>2 DEF Built
    <3>2. mem'.exposure = Exposure(ledger')
      BY <1>2, <2>1, <3>1
    <3>3. QED
      BY <3>2 DEF Built
  <2>3. CASE Rebuilding
    <3>1. /\ ~mem.listening /\ ~ctl.nested /\ (ctl.at = "idle" => tasks = <<"start">>)
          /\ ctl.at = "idle" \/ (ctl.at \in {"recover", "confirm", "settle"} /\ ctl.why \in {"none", "recover"})
      BY <2>3 DEF Rebuilding, Queue
    <3>2. ctl.at \in {"confirm", "settle"} => ctl.why = "recover"
      BY <3>1 DEF PathOf, Middle
    <3>3. CASE PaperEntry \/ (\E q \in 1..Qty : PaperExit(q)) \/ SweepTick \/ Exchange
      <4>1. ctl' = ctl /\ mem'.listening = mem.listening
        BY <1>1, <3>3 DEF PaperEntry, PaperExit, SweepTick, Exchange, Accept, Drop, Fill, EndShort
      <4>2. QED
        BY <2>3, <4>1 DEF Rebuilding, Built
    <3>4. CASE TakeTask
      <4>1. ctl.at = "idle" /\ Head(tasks) = "start"
        BY <3>1, <3>4 DEF TakeTask
      <4>2. \E k : StartRecover(FALSE, "start", k)
        BY <3>4, <4>1 DEF TakeTask
      <4>3. ctl'.at = "recover" /\ ctl'.why = "none" /\ ~ctl'.nested /\ mem'.listening = mem.listening
        BY <1>1, <4>2 DEF StartRecover
      <4>4. QED
        BY <3>1, <4>3 DEF Rebuilding, Built
    <3>5. CASE RecoverRow
      <4>1. ctl'.at \in {"confirm", "settle"} /\ ctl'.why = "recover" /\ ctl'.nested = ctl.nested /\ mem' = mem
        BY <1>1, <3>5 DEF RecoverRow
      <4>2. QED
        BY <3>1, <4>1 DEF Rebuilding, Built
    <3>6. CASE LookupDone \/ LookupOpen \/ LookupAgain \/ LookupEmpty
      <4>1. /\ ctl'.at \in {"confirm", "settle"} /\ ctl'.why = ctl.why /\ ctl'.nested = ctl.nested
            /\ mem'.listening = mem.listening /\ ctl.at = "confirm"
        BY <1>1, <3>6 DEF LookupDone, LookupOpen, LookupAgain, LookupEmpty, Verdict, Observe, Found
      <4>2. QED
        BY <3>1, <4>1 DEF Rebuilding, Built
    <3>7. CASE SettleRecovered
      <4>1. ctl'.at = "recover" /\ ctl'.why = "none" /\ ctl'.nested = ctl.nested /\ mem'.listening = mem.listening
        BY <1>1, <3>7 DEF SettleRecovered, Goto
      <4>2. QED
        BY <3>1, <4>1 DEF Rebuilding, Built
    <3>8. CASE SettleEntry \/ SettleExit \/ SettleStranded \/ SettlePending
      BY <3>2, <3>8 DEF SettleEntry, SettleExit, SettleStranded, SettlePending
    <3>9. CASE SnapshotAnswered \/ SnapshotFails \/ DrainEnds \/ DrainKnown \/ DrainStale \/ DrainExpired \/ DrainWaits
                \/ DrainEntry \/ DrainExit \/ LeverageHeld \/ LeverageRefused \/ VoidPosition \/ RecordCommand
      BY <3>1, <3>9 DEF SnapshotAnswered, SnapshotFails, DrainEnds, DrainKnown, DrainStale, DrainExpired, DrainWaits,
         DrainEntry, DrainExit, LeverageHeld, LeverageRefused, VoidPosition, RecordCommand, Draining
    <3>10. CASE PostOk \/ PostRejected \/ PostUnanswered \/ SweepRest \/ CloseStranded \/ SweepUnconfirmed
      BY <3>1, <3>10 DEF PostOk, PostRejected, PostUnanswered, SweepRest, CloseStranded, SweepUnconfirmed
    <3>11. QED
      BY <1>6, <3>3, <3>4, <3>5, <3>6, <3>7, <3>8, <3>9, <3>10 DEF Next, Step
  <2>4. QED
    BY <2>2, <2>3
<1>7. QED
  BY <1>4, <1>5, <1>6

\* The row in hand: exits are looked up as exits, an entry only while it is unsettled.
HandOf(c, m, l) ==
  /\ c.at \in Middle /\ c.why \in {"exit", "rest", "stranded", "pending"} => l[c.row].purpose = "exit"
  /\ c.at \in Middle /\ c.why = "pending" => \A r \in c.rows : l[r].purpose = "exit"
  /\ c.at \in {"post", "confirm"} \/ (c.at = "settle" /\ c.verdict = "unknown") =>
       (l[c.row].purpose = "entry" => l[c.row].state \in OpenStates)
  /\ m # 0 => \/ l[m].state \in OpenStates
              \/ c.at = "settle" /\ c.row = m /\ c.why \in {"enter", "unconfirmed", "recover"}
  /\ c.at = "post" /\ c.why = "enter" => m = 0
Hand == HandOf(ctl, mem.unconfirmed, ledger)

\* Every step keeps the verdict in hand true of its row.
LEMMA NextHand ==
  ASSUME TypeOK, Records, Control, PathOf(ctl), Hand, Next
  PROVE  Hand'
<1> DEFINE m == mem.unconfirmed
           Kept == m # 0 => ledger'[m].state \in OpenStates
           Out == ctl'.at \notin Middle
<1>1. /\ ctl \in [task : Tasks, at : Points, why : Reasons, row : 0..Len(ledger),
                  verdict : {"none", "filled", "unfilled", "unknown"}, nested : BOOLEAN,
                  todo : SUBSET DOMAIN cmds, rows : SUBSET Rows]
      /\ mem \in [exposure : 0..Qty, unconfirmed : 0..Len(ledger), stranded : BOOLEAN,
                  deferred : BOOLEAN, listening : BOOLEAN, products : BOOLEAN, unheard : BOOLEAN]
      /\ HandOf(ctl, m, ledger) /\ Places /\ InHand /\ Voided
      /\ ledger \in Seq(Row) /\ Rows = 1..Len(ledger) /\ Rows \in SUBSET Nat
      /\ \A r \in Rows : ledger[r] \in Row
  BY TypeFacts DEF TypeOK, Hand, Control
<1>2. /\ ctl.at \in Middle => ctl.row \in Rows
      /\ m # 0 => m \in Rows /\ ledger[m].purpose = "entry"
  BY <1>1, RowInHand DEF Middle, InHand
<1> SUFFICES HandOf(ctl', mem'.unconfirmed, ledger')
  BY DEF Hand
<1> HIDE DEF m
<1>3. ASSUME ctl' = ctl, mem'.unconfirmed = m, ledger' = ledger PROVE HandOf(ctl', mem'.unconfirmed, ledger')
  BY <1>1, <1>3
<1>4. ASSUME Out, mem'.unconfirmed = 0 \/ (mem'.unconfirmed = m /\ Kept) PROVE HandOf(ctl', mem'.unconfirmed, ledger')
  BY <1>4 DEF HandOf, Middle
<1>5. ASSUME ledger' = ledger, ctl.at # "settle" \/ ctl.why \notin {"enter", "unconfirmed", "recover"} \/ ctl.row # m PROVE Kept
  BY <1>1, <1>5 DEF HandOf
<1>6. ASSUME ledger' = ledger, ctl.at # "settle", Out, mem'.unconfirmed = m PROVE HandOf(ctl', mem'.unconfirmed, ledger')
  BY <1>4, <1>5, <1>6
<1>7. ASSUME NEW p \in Points \ Middle, Goto(p) PROVE Out
  BY <1>1, <1>7 DEF Goto
<1>8. ASSUME Finish PROVE Out
  BY <1>8 DEF Finish, NoCtl, Middle
<1>9. ASSUME FinishStrand PROVE Out
  BY <1>7, <1>8, <1>9 DEF FinishStrand, Points, Middle
<1>10. ASSUME NextCommand \/ (StopDrain /\ ctl.at = "drain") PROVE Out
  BY <1>1, <1>10 DEF NextCommand, StopDrain, Middle
<1>11. {"record", "leverage", "recover", "snapshot", "rest", "strand", "unconfirmed"} \in SUBSET (Points \ Middle)
  BY DEF Points, Middle
\* an order is sent
<1>12. ASSUME NEW c, NEW s, NEW p, NEW q, NEW w, Send(c, s, p, q, w), mem'.unconfirmed = m, ctl.at \notin Middle,
              (w = "enter" /\ p = "entry" /\ m = 0) \/ (w \in {"exit", "rest", "stranded"} /\ p = "exit")
       PROVE  HandOf(ctl', mem'.unconfirmed, ledger')
  <2> DEFINE N == Len(ledger) + 1
             l == [cmd |-> c, src |-> s, purpose |-> p, size |-> q, state |-> "intent", known |-> FALSE, filled |-> 0]
  <2>1. /\ ctl'.at = "post" /\ ctl'.why = w /\ ctl'.row = N
        /\ ledger' = Append(ledger, l)
    BY <1>1, <1>12 DEF Send
  <2>2. ledger'[N] = l /\ \A r \in Rows : ledger'[r] = ledger[r]
    BY <1>1, <2>1
  <2>3. l.purpose = p /\ l.state \in OpenStates
    BY DEF OpenStates
  <2>4. m # 0 => ledger'[m].state \in OpenStates
    BY <1>1, <1>2, <1>12, <2>2 DEF HandOf, Middle
  <2> HIDE DEF N, l
  <2>5. QED
    BY <1>12, <2>1, <2>2, <2>3, <2>4 DEF HandOf, Middle
\* the row in hand gets another state
<1>13. ASSUME NEW l \in Row, ctl.at \in Middle, ledger' = [ledger EXCEPT ![ctl.row] = l], l.purpose = ledger[ctl.row].purpose
       PROVE  /\ ledger'[ctl.row] = l
              /\ \A r \in Rows : ledger'[r].purpose = ledger[r].purpose /\ (r # ctl.row => ledger'[r] = ledger[r])
  BY <1>1, <1>2, <1>13
<1>14. CASE PaperEntry \/ (\E q \in 1..Qty : PaperExit(q)) \/ SweepTick \/ Exchange
  BY <1>1, <1>3, <1>14 DEF PaperEntry, PaperExit, SweepTick, Exchange, Accept, Drop, Fill, EndShort, durable, m
<1>15. CASE Crash
  BY <1>4, <1>15 DEF Crash, NoMem, NoCtl, Middle
<1>16. CASE TakeTask
  <2>1. ctl.at = "idle" /\ ledger' = ledger
    BY <1>16 DEF TakeTask, durable
  <2>2. ctl'.at \in {"idle", "recover", "drain", "strand"} /\ mem'.unconfirmed \in {0, m}
    BY <1>1, <1>16, <2>1 DEF TakeTask, StartRecover, StartDrain, m
  <2>3. QED
    BY <1>4, <1>5, <2>1, <2>2 DEF Middle
<1>17. CASE RecoverRow
  <2>1. ctl.rows # {} /\ ctl.at = "recover" /\ ledger' = ledger /\ mem' = mem
    BY <1>17 DEF RecoverRow, durable
  <2> DEFINE r == Min(ctl.rows)
  <2>2. /\ ctl'.row = r /\ ctl'.why = "recover" /\ ctl'.verdict # "unknown"
        /\ ctl'.at = IF r \in Unsettled THEN "confirm" ELSE "settle"
    BY <1>1, <1>17 DEF RecoverRow
  <2>3. r \in Unsettled => ledger[r].state \in OpenStates
    BY DEF Unsettled
  <2>4. m # 0 => ledger[m].state \in OpenStates
    BY <1>1, <2>1 DEF HandOf
  <2> HIDE DEF r
  <2>5. QED
    BY <2>1, <2>2, <2>3, <2>4 DEF HandOf, Middle, m
<1>18. CASE RecoverExposure
  <2>1. ctl.at = "recover" /\ Out /\ ledger' = ledger /\ mem'.unconfirmed = m
    BY <1>1, <1>7, <1>11, <1>18 DEF RecoverExposure, durable, m
  <2>2. QED
    BY <1>6, <2>1
<1>19. CASE SnapshotAnswered \/ SnapshotFails
  <2>1. ctl.at = "snapshot" /\ Out /\ ledger' = ledger /\ mem'.unconfirmed = m
    BY <1>1, <1>19 DEF SnapshotAnswered, SnapshotFails, AfterRecover, Middle, durable, m
  <2>2. QED
    BY <1>6, <2>1
<1>20. CASE DrainEnds \/ DrainKnown \/ DrainStale \/ DrainExpired \/ DrainWaits \/ DrainEntry
  <2>1. ctl.at = "drain" /\ ledger' = ledger /\ mem'.unconfirmed = m
    BY <1>1, <1>20 DEF DrainEnds, DrainKnown, DrainStale, DrainExpired, DrainWaits, DrainEntry, Draining, StartRecover, durable, m
  <2>2. CASE DrainEnds \/ DrainStale \/ DrainWaits \/ DrainEntry
    BY <1>6, <1>7, <1>8, <1>10, <1>11, <2>1, <2>2 DEF DrainEnds, DrainStale, DrainWaits, DrainEntry
  <2>3. CASE DrainKnown \/ DrainExpired
    BY <1>1, <1>6, <2>1, <2>3 DEF DrainKnown, DrainExpired, StartRecover, Middle
  <2>4. QED
    BY <1>20, <2>2, <2>3
<1>21. CASE DrainExit
  <2>1. ctl.at = "drain" /\ mem'.unconfirmed = m /\ ctl.at \notin Middle
    BY <1>21 DEF DrainExit, Draining, Middle, m
  <2>2. QED
    BY <1>6, <1>10, <1>12, <1>21, <2>1 DEF DrainExit
<1>22. CASE LeverageHeld
  <2>1. ctl.at = "leverage" /\ mem'.unconfirmed = m /\ ctl.at \notin Middle
    BY <1>22 DEF LeverageHeld, Middle, m
  <2>2. m = 0
    <3>1. ctl.todo # {} /\ cmds[Cmd].kind = "entry" /\ RowsOf(Cmd) = {}
      BY <1>1, <2>1 DEF Places, Voided
    <3>2. Cmd = 1
      BY <3>1, CommandInHand DEF Records
    <3>3. \A r \in Rows : ledger[r].purpose # "entry"
      BY <3>1, <3>2 DEF Records, RowsOf
    <3>4. QED
      BY <1>2, <3>3
  <2>3. QED
    BY <1>6, <1>7, <1>11, <1>12, <1>22, <2>1, <2>2 DEF LeverageHeld
<1>23. CASE LeverageRefused \/ VoidPosition \/ RecordCommand
  <2>1. ctl.at \in {"leverage", "void", "record"} /\ ledger' = ledger /\ mem'.unconfirmed = m
    BY <1>23 DEF LeverageRefused, VoidPosition, RecordCommand, m
  <2>2. QED
    BY <1>6, <1>7, <1>10, <1>11, <1>23, <2>1 DEF LeverageRefused, VoidPosition, RecordCommand
<1>24. CASE PostOk \/ PostUnanswered
  <2>1. ctl.at = "post" /\ ctl.at \in Middle /\ mem'.unconfirmed = m
    BY <1>24 DEF PostOk, PostUnanswered, Middle, m
  <2>2. PICK k \in Row : ledger' = [ledger EXCEPT ![ctl.row] = k] /\ k.purpose = ledger[ctl.row].purpose /\ k.state \in OpenStates
    <3>1. ledger[ctl.row] \in Row
      BY <1>1, <1>2, <2>1
    <3>2. CASE PostOk
      <4>1. ledger' = [ledger EXCEPT ![ctl.row] = [ledger[ctl.row] EXCEPT !.state = "submitted", !.known = TRUE]]
        BY <1>1, <1>2, <2>1, <3>2 DEF PostOk
      <4>2. [ledger[ctl.row] EXCEPT !.state = "submitted", !.known = TRUE] \in Row
        BY <3>1 DEF Row, LedgerStates
      <4>3. QED
        BY <3>1, <4>1, <4>2 DEF Row, OpenStates
    <3>3. CASE PostUnanswered
      <4>1. ledger' = [ledger EXCEPT ![ctl.row] = [ledger[ctl.row] EXCEPT !.state = "unknown"]]
        BY <1>1, <1>2, <2>1, <3>3 DEF PostUnanswered, SetRow
      <4>2. [ledger[ctl.row] EXCEPT !.state = "unknown"] \in Row
        BY <3>1 DEF Row, LedgerStates
      <4>3. QED
        BY <3>1, <4>1, <4>2 DEF Row, OpenStates
    <3>4. QED
      BY <1>24, <3>2, <3>3
  <2>3. /\ ledger'[ctl.row] = k
        /\ \A r \in Rows : ledger'[r].purpose = ledger[r].purpose /\ (r # ctl.row => ledger'[r] = ledger[r])
    BY <1>13, <2>1, <2>2
  <2>4. Kept
    BY <1>1, <1>2, <2>1, <2>2, <2>3 DEF HandOf
  <2>5. CASE FinishStrand
    BY <1>4, <1>9, <2>1, <2>4, <2>5
  <2>6. CASE ctl' = [ctl EXCEPT !.at = "confirm"]
    BY <1>1, <1>2, <2>1, <2>2, <2>3, <2>4, <2>6 DEF HandOf, Middle
  <2>7. QED
    BY <1>24, <2>5, <2>6 DEF PostOk, PostUnanswered
<1>25. CASE PostRejected
  <2>1. ctl.at = "post" /\ ctl.at \in Middle /\ mem'.unconfirmed = m /\ ledger' = [ledger EXCEPT ![ctl.row].state = "rejected"]
    BY <1>25 DEF PostRejected, SetRow, Middle, m
  <2>2. ctl.why # "enter" => ledger[ctl.row].purpose = "exit"
    BY <1>1, <2>1 DEF HandOf, PathOf, Middle
  <2>3. m # 0 => ctl.row # m
    BY <1>1, <1>2, <2>1, <2>2 DEF HandOf
  <2>4. Kept
    BY <1>1, <1>2, <2>1, <2>3 DEF HandOf
  <2>5. Out
    BY <1>1, <1>7, <1>9, <1>11, <1>25 DEF PostRejected, Middle
  <2>6. QED
    BY <1>4, <2>1, <2>4, <2>5
<1>26. CASE LookupDone \/ LookupOpen \/ LookupAgain \/ LookupEmpty
  <2>1. ctl.at = "confirm" /\ ctl.at \in Middle /\ mem'.unconfirmed = m /\ ledger[ctl.row] \in Row
    BY <1>1, <1>2, <1>26 DEF LookupDone, LookupOpen, LookupAgain, LookupEmpty, Found, Observe, Middle, m
  <2> DEFINE o == ledger[ctl.row]
  <2>2. \E k \in Row : /\ ledger' = [ledger EXCEPT ![ctl.row] = k] /\ k.purpose = o.purpose
                       /\ \/ ctl' = ctl /\ k.state \in OpenStates \cup {o.state}
                          \/ ctl' = [ctl EXCEPT !.at = "settle", !.verdict = "unknown"] /\ k.state \in OpenStates
                          \/ \E v \in {"filled", "unfilled"} : ctl' = [ctl EXCEPT !.at = "settle", !.verdict = v]
    <3>1. exch[ctl.row] \in ExchOrder
      BY <2>1, RowInHand
    <3>2. ASSUME NEW s \in LedgerStates, Observe(s)
          PROVE  \E k \in Row : ledger' = [ledger EXCEPT ![ctl.row] = k] /\ k.purpose = o.purpose /\ k.state = s
      <4>1. ledger' = [ledger EXCEPT ![ctl.row] = [o EXCEPT !.state = s, !.known = TRUE, !.filled = exch[ctl.row].filled]]
        BY <1>1, <1>2, <2>1, <3>2 DEF Observe, Order
      <4>2. [o EXCEPT !.state = s, !.known = TRUE, !.filled = exch[ctl.row].filled] \in Row
        BY <2>1, <3>1 DEF Row, ExchOrder
      <4>3. QED
        BY <2>1, <4>1, <4>2 DEF Row
    <3>3. CASE LookupDone
      BY <3>2, <3>3 DEF LookupDone, Verdict, LedgerStates
    <3>4. CASE LookupOpen
      BY <3>2, <3>4 DEF LookupOpen, Verdict, LedgerStates, OpenStates
    <3>5. CASE LookupAgain
      <4>1. o.state \in LedgerStates /\ "submitted" \in LedgerStates \cap OpenStates
        BY <2>1 DEF Row, LedgerStates, OpenStates
      <4>2. QED
        BY <3>2, <3>5, <4>1 DEF LookupAgain
    <3>6. CASE LookupEmpty
      <4>1. ledger' = [ledger EXCEPT ![ctl.row] = [o EXCEPT !.state = "unknown"]]
        BY <1>1, <1>2, <2>1, <3>6 DEF LookupEmpty, SetRow
      <4>2. [o EXCEPT !.state = "unknown"] \in Row /\ [o EXCEPT !.state = "unknown"].state = "unknown"
            /\ [o EXCEPT !.state = "unknown"].purpose = o.purpose
        BY <2>1 DEF Row, LedgerStates
      <4>3. ctl' = [ctl EXCEPT !.at = "settle", !.verdict = "unknown"]
        BY <3>6 DEF LookupEmpty, Verdict
      <4>4. QED
        BY <4>1, <4>2, <4>3 DEF OpenStates
    <3>7. QED
      BY <1>26, <3>3, <3>4, <3>5, <3>6
  <2>3. PICK k \in Row : /\ ledger' = [ledger EXCEPT ![ctl.row] = k] /\ k.purpose = o.purpose
                         /\ \/ ctl' = ctl /\ k.state \in OpenStates \cup {o.state}
                            \/ ctl' = [ctl EXCEPT !.at = "settle", !.verdict = "unknown"] /\ k.state \in OpenStates
                            \/ \E v \in {"filled", "unfilled"} : ctl' = [ctl EXCEPT !.at = "settle", !.verdict = v]
    BY <2>2
  <2>4. /\ ledger'[ctl.row] = k
        /\ \A r \in Rows : ledger'[r].purpose = ledger[r].purpose /\ (r # ctl.row => ledger'[r] = ledger[r])
    BY <1>13, <2>1, <2>3
  <2>5. o.purpose = "entry" => ctl.why \in {"enter", "unconfirmed", "recover"} /\ o.state \in OpenStates
    BY <1>1, <2>1 DEF HandOf, PathOf, Middle
  <2>6. m # 0 /\ m # ctl.row => ledger'[m].state \in OpenStates
    BY <1>1, <1>2, <2>1, <2>4 DEF HandOf
  <2>7. m # 0 /\ m = ctl.row => o.purpose = "entry"
    BY <1>2
  <2>8. CASE ctl' = ctl /\ k.state \in OpenStates \cup {o.state}
    BY <1>1, <1>2, <2>1, <2>3, <2>4, <2>5, <2>6, <2>7, <2>8 DEF HandOf, Middle
  <2>9. CASE ctl' = [ctl EXCEPT !.at = "settle", !.verdict = "unknown"] /\ k.state \in OpenStates
    BY <1>1, <1>2, <2>1, <2>3, <2>4, <2>5, <2>6, <2>7, <2>9 DEF HandOf, Middle
  <2>10. ASSUME NEW v \in {"filled", "unfilled"}, ctl' = [ctl EXCEPT !.at = "settle", !.verdict = v]
         PROVE  HandOf(ctl', mem'.unconfirmed, ledger')
    BY <1>1, <1>2, <2>1, <2>3, <2>4, <2>5, <2>6, <2>7, <2>10 DEF HandOf, Middle
  <2>11. QED
    BY <2>3, <2>8, <2>9, <2>10
<1>27. CASE SettleEntry
  <2>1. ctl.at = "settle" /\ ctl.why \in {"enter", "unconfirmed"} /\ ledger' = ledger /\ ledger[ctl.row].purpose = "entry"
    BY <1>1, <1>27 DEF SettleEntry, InHand
  <2>2. mem'.unconfirmed = IF ctl.verdict = "unknown" THEN ctl.row ELSE 0
    BY <1>1, <1>27 DEF SettleEntry
  <2>3. Out
    BY <1>7, <1>8, <1>11, <1>27 DEF SettleEntry
  <2>4. ctl.verdict = "unknown" => ledger'[ctl.row].state \in OpenStates
    BY <1>1, <2>1 DEF HandOf
  <2>5. QED
    BY <2>2, <2>3, <2>4 DEF HandOf, Middle
<1>28. CASE SettleExit \/ SettleStranded
  <2>1. ctl.at = "settle" /\ ctl.why \in {"exit", "rest", "stranded"} /\ ledger' = ledger /\ mem'.unconfirmed = m
    BY <1>1, <1>28 DEF SettleExit, SettleStranded, durable, m
  <2>2. Out
    BY <1>7, <1>9, <1>11, <1>28 DEF SettleExit, SettleStranded
  <2>3. QED
    BY <1>4, <1>5, <2>1, <2>2
<1>29. CASE SettlePending
  <2>1. ctl.at = "settle" /\ ctl.why = "pending" /\ ctl.at \in Middle /\ mem'.unconfirmed = m /\ ledger[ctl.row].purpose = "exit"
    BY <1>1, <1>29 DEF SettlePending, HandOf, Middle, m
  <2>2. CASE ctl.verdict = "unknown"
    <3>1. FinishStrand /\ ledger' = [ledger EXCEPT ![ctl.row].state = "unknown"]
      BY <1>29, <2>2 DEF SettlePending, SetRow
    <3>2. Kept
      BY <1>1, <1>2, <2>1, <3>1 DEF HandOf
    <3>3. QED
      BY <1>4, <1>9, <2>1, <3>1, <3>2
  <2>3. CASE ctl.verdict # "unknown"
    <3>1. ledger' = ledger
      BY <1>29, <2>3 DEF SettlePending
    <3>2. Kept
      BY <1>5, <2>1, <3>1
    <3>3. CASE FinishStrand
      BY <1>4, <1>9, <2>1, <3>2, <3>3
    <3>4. CASE ~FinishStrand
      <4>1. /\ ctl.rows # {}
            /\ ctl' = [ctl EXCEPT !.at = "confirm", !.row = Min(ctl.rows), !.rows = @ \ {Min(@)}, !.verdict = "none"]
        BY <1>29, <2>3, <3>4 DEF SettlePending
      <4>2. Min(ctl.rows) \in ctl.rows
        BY <1>1, <4>1, MinIsLeast
      <4>3. \A r \in ctl.rows : ledger[r].purpose = "exit"
        BY <1>1, <2>1 DEF HandOf
      <4>4. QED
        BY <1>1, <2>1, <3>1, <3>2, <4>1, <4>2, <4>3 DEF HandOf, Middle
    <3>5. QED
      BY <3>3, <3>4
  <2>4. QED
    BY <2>2, <2>3
<1>30. CASE SettleRecovered
  <2>1. ctl.at = "settle" /\ ctl.why = "recover" /\ ledger' = ledger /\ Out
    BY <1>7, <1>11, <1>30 DEF SettleRecovered
  <2>2. CASE ledger[ctl.row].purpose = "entry"
    <3>1. mem'.unconfirmed = IF ctl.verdict = "unknown" /\ book.status = "open" THEN ctl.row ELSE 0
      BY <1>1, <1>30, <2>2 DEF SettleRecovered
    <3>2. ctl.verdict = "unknown" => ledger[ctl.row].state \in OpenStates
      BY <1>1, <2>1, <2>2 DEF HandOf
    <3>3. QED
      BY <2>1, <3>1, <3>2 DEF HandOf, Middle
  <2>3. CASE ledger[ctl.row].purpose # "entry"
    <3>1. mem'.unconfirmed = m
      BY <1>30, <2>3 DEF SettleRecovered, m
    <3>2. m # 0 => ctl.row # m
      BY <1>2, <2>3
    <3>3. Kept
      BY <1>5, <2>1, <3>2
    <3>4. QED
      BY <1>4, <2>1, <3>1, <3>3
  <2>4. QED
    BY <2>2, <2>3
<1>31. CASE SweepRest
  <2>1. ctl.at = "rest" /\ mem'.unconfirmed = m /\ ctl.at \notin Middle
    BY <1>31 DEF SweepRest, Middle, m
  <2>2. QED
    BY <1>6, <1>7, <1>11, <1>12, <1>31, <2>1 DEF SweepRest
<1>32. CASE CloseStranded
  <2>1. ctl.at = "strand" /\ mem'.unconfirmed = m /\ ctl.at \notin Middle
    BY <1>1, <1>32 DEF CloseStranded, Middle, m
  <2>2. CASE FinishStrand /\ ledger' = ledger
    BY <1>6, <1>9, <2>1, <2>2
  <2>3. CASE /\ UnsettledExits # {} /\ ledger' = ledger
             /\ ctl' = [ctl EXCEPT !.at = "confirm", !.why = "pending", !.row = Min(UnsettledExits),
                                   !.rows = UnsettledExits \ {Min(UnsettledExits)}]
    <3>1. UnsettledExits \in SUBSET Rows /\ \A r \in UnsettledExits : ledger[r].purpose = "exit"
      BY DEF UnsettledExits, Unsettled
    <3>2. Min(UnsettledExits) \in UnsettledExits
      BY <1>1, <2>3, <3>1, MinIsLeast
    <3>3. Kept
      BY <1>5, <2>1, <2>3
    <3>4. QED
      BY <1>1, <2>1, <2>3, <3>1, <3>2, <3>3 DEF HandOf, Middle
  <2>4. CASE \E c, s, q : Send(c, s, "exit", q, "stranded")
    BY <1>12, <2>1, <2>4
  <2>5. QED
    BY <1>32, <2>2, <2>3, <2>4 DEF CloseStranded
<1>33. CASE SweepUnconfirmed
  <2>1. ctl.at = "unconfirmed" /\ mem'.unconfirmed = m /\ ledger' = ledger
    BY <1>33 DEF SweepUnconfirmed, durable, m
  <2>2. CASE Finish
    BY <1>6, <1>8, <2>1, <2>2
  <2>3. CASE m # 0 /\ ctl' = [ctl EXCEPT !.at = "confirm", !.why = "unconfirmed", !.row = mem.unconfirmed]
    BY <1>1, <2>1, <2>3 DEF HandOf, Middle, m
  <2>4. QED
    BY <1>33, <2>2, <2>3 DEF SweepUnconfirmed, m
<1>34. QED
  BY <1>14, <1>15, <1>16, <1>17, <1>18, <1>19, <1>20, <1>21, <1>22, <1>23, <1>24, <1>25, <1>26, <1>27, <1>28, <1>29, <1>30,
     <1>31, <1>32, <1>33 DEF Next, Step

\* The orders of the ledger are those of commands of the outbox.
Ids == \A r \in Rows : ledger[r].cmd \in {0} \cup DOMAIN cmds

\* A row's command is one of the outbox, or none.
LEMMA NextIds ==
  ASSUME TypeOK, Records, Control, Ids, Next
  PROVE  Ids'
<1>1. /\ OrderStep /\ Rows = 1..Len(ledger) /\ Rows' = 1..Len(ledger') /\ Len(ledger) \in Nat
      /\ DOMAIN cmds \in SUBSET DOMAIN cmds'
      /\ \A r \in Rows : ledger'[r].cmd = ledger[r].cmd
  <2>1. OrderStep
    BY StepKinds, Zenon
  <2>2. DOMAIN cmds = 1..Len(cmds) /\ DOMAIN cmds' = 1..Len(cmds') /\ Len(cmds') \in {Len(cmds), Len(cmds) + 1}
    BY NextCmds
  <2>3. Len(cmds) \in Nat
    <3>1. cmds \in Seq([kind : {"entry", "exit"}, qty : 1..Qty, state : CommandStates])
      BY TypeFacts, Zenon
    <3>2. QED
      BY <3>1
  <2>4. ASSUME NEW c \in DOMAIN cmds PROVE c \in DOMAIN cmds'
    <3>1. c \in 1..Len(cmds) /\ (Len(cmds') = Len(cmds) \/ Len(cmds') = Len(cmds) + 1)
      BY <2>2, <2>4
    <3>2. c \in 1..Len(cmds')
      BY <2>3, <3>1
    <3>3. QED
      <4>1. c \in DOMAIN cmds' <=> c \in 1..Len(cmds')
        BY <2>2
      <4>2. QED
        BY <3>2, <4>1
  <2>5. Rows = 1..Len(ledger) /\ Rows' = 1..Len(ledger') /\ Len(ledger) \in Nat
    <3>1. ledger \in Seq(Row) /\ Rows = 1..Len(ledger) /\ Rows' = 1..Len(ledger')
      BY <2>1, OrdersTyped, TypeFacts, Zenon
    <3>2. Len(ledger) \in Nat
      BY <3>1
    <3>3. QED
      BY <3>1, <3>2
  <2>6. \A r \in Rows : ledger'[r].cmd = ledger[r].cmd
    BY <2>1, <2>5, OrdersTyped DEF SameOrder
  <2>7. QED
    BY <2>1, <2>4, <2>5, <2>6
<1>2. CASE Len(ledger') = Len(ledger)
  BY <1>1, <1>2 DEF Ids
<1>3. CASE Len(ledger') # Len(ledger)
  <2>1. PICK l \in Row : OrderSent(l)
    BY <1>1, <1>3, OneIsSent
  <2>2. ledger' = Append(ledger, l) /\ (l.cmd # 0 => l.cmd \in DOMAIN cmds)
    BY <2>1 DEF OrderSent
  <2>3. ledger'[Len(ledger')] = l /\ Len(ledger') = Len(ledger) + 1
    BY <2>2, TypeFacts
  <2>4. \A r \in Rows' : r \in Rows \/ r = Len(ledger')
    BY <1>1, <2>3
  <2>5. QED
    BY <1>1, <2>2, <2>3, <2>4, Zenon DEF Ids
<1>4. QED
  BY <1>2, <1>3

\* What the command in hand is, or that its order is in the ledger.
SentBy(l, c) == \E r \in DOMAIN l : l[r].cmd = c
OwnOf(c, k, l) ==
  /\ c.at \in Middle /\ c.why = "exit" => SentBy(l, Min(c.todo))
  /\ c.at \in Middle /\ c.why = "enter" => k[Min(c.todo)].kind = "entry"
  /\ c.nested => SentBy(l, Min(c.todo))
  /\ c.at = "void" => k[Min(c.todo)].kind = "entry"
  /\ c.at = "record" => k[Min(c.todo)].kind = "entry" \/ SentBy(l, Min(c.todo))
Own == OwnOf(ctl, cmds, ledger)

\* Every step keeps the command in hand the one its row was sent for.
LEMMA NextOwn ==
  ASSUME TypeOK, Records, Control, PathOf(ctl), Own, Next
  PROVE  Own'
<1> DEFINE Sent == SentBy(ledger, Cmd)
           Entry == cmds[Cmd].kind = "entry"
           Good == OwnOf(ctl', cmds', ledger')
<1>1. /\ ctl \in [task : Tasks, at : Points, why : Reasons, row : 0..Len(ledger),
                  verdict : {"none", "filled", "unfilled", "unknown"}, nested : BOOLEAN,
                  todo : SUBSET DOMAIN cmds, rows : SUBSET Rows]
      /\ Places /\ Voided
      /\ ctl.at \in Middle /\ ctl.why = "exit" => Sent
      /\ ctl.at \in Middle /\ ctl.why = "enter" => Entry
      /\ ctl.nested => Sent
      /\ ctl.at \in {"void", "leverage"} => Entry
      /\ ctl.at = "record" => Entry \/ Sent
  BY DEF TypeOK, Control, Own, OwnOf, Cmd, Voided
<1>2. /\ ctl.todo # {} => (Entry <=> cmds'[Cmd].kind = "entry")
      /\ Sent => SentBy(ledger', Cmd)
  <2>1. ctl.todo # {} => Cmd \in DOMAIN cmds
    BY CommandInHand
  <2>2. OrderStep
    BY StepKinds
  <2>3. /\ \A r \in 1..Len(ledger) : ledger'[r].cmd = ledger[r].cmd
        /\ Rows = 1..Len(ledger) /\ Rows' = 1..Len(ledger')
        /\ Len(ledger) \in Nat /\ Len(ledger') \in {Len(ledger), Len(ledger) + 1}
    <3>1. ledger \in Seq(Row) /\ Rows = 1..Len(ledger) /\ Rows' = 1..Len(ledger')
      BY <2>2, OrdersTyped, TypeFacts, Zenon
    <3>2. /\ \A r \in Rows : SameOrder(ledger'[r], ledger[r])
          /\ Len(ledger') \in {Len(ledger), Len(ledger) + 1}
      BY <2>2, <3>1, OrdersTyped, Zenon
    <3>3. Len(ledger) \in Nat
      BY <3>1
    <3>4. QED
      BY <3>1, <3>2, <3>3, Zenon DEF SameOrder
  <2>4. ASSUME ctl.todo # {} PROVE Entry <=> cmds'[Cmd].kind = "entry"
    BY <2>1, <2>4, NextCmds
  <2>5. ASSUME Sent PROVE SentBy(ledger', Cmd)
    <3>1. PICK r \in Rows : ledger[r].cmd = Cmd
      BY <2>5 DEF SentBy
    <3>2. r \in 1..Len(ledger) /\ r \in 1..Len(ledger')
      <4>1. r \in 1..Len(ledger) /\ (Len(ledger') = Len(ledger) \/ Len(ledger') = Len(ledger) + 1)
        BY <2>3, <3>1
      <4>2. Len(ledger) \in Nat
        BY <2>3
      <4>3. QED
        BY <4>1, <4>2
    <3>4. r \in Rows' /\ ledger'[r].cmd = Cmd
      BY <2>3, <3>1, <3>2
    <3>5. QED
      BY <3>4 DEF SentBy
  <2>6. QED
    BY <2>4, <2>5
<1> SUFFICES Good
  BY DEF Own
\* the same command stays in hand
<1>3. ASSUME ctl'.todo = ctl.todo, ctl.todo # {} \/ ctl'.at \notin {"record", "void"},
             ctl.todo # {} \/ ~ctl'.nested,
             ctl'.at \in Middle /\ ctl'.why \in {"enter", "exit"} => ctl.todo # {},
             (ctl'.at \in Middle /\ ctl'.why = "exit") \/ ctl'.nested => SentBy(ledger', Cmd),
             (ctl'.at \in Middle /\ ctl'.why = "enter") \/ ctl'.at = "void" => Entry,
             ctl'.at = "record" => Entry \/ SentBy(ledger', Cmd)
      PROVE  Good
  <2>1. Min(ctl'.todo) = Cmd
    BY <1>3 DEF Cmd
  <2>2. QED
    BY <1>2, <1>3, <2>1 DEF OwnOf
<1>4. ASSUME ctl'.at \notin Middle \cup {"void", "record"}, ~ctl'.nested PROVE Good
  BY <1>4 DEF OwnOf
<1>5. ASSUME ctl'.at \in Middle, ctl'.why \notin {"enter", "exit"}, ~ctl'.nested PROVE Good
  BY <1>5 DEF OwnOf, Middle
<1>6. ASSUME ctl' = ctl PROVE Good
  BY <1>1, <1>2, <1>3, <1>6 DEF Places, Middle
<1>7. ASSUME NEW p \in Points \ (Middle \cup {"void", "record"}), Goto(p), ~ctl.nested PROVE Good
  BY <1>1, <1>4, <1>7 DEF Goto
<1>8. ASSUME Goto("record"), Entry \/ Sent, ctl.todo # {}, ~ctl.nested PROVE Good
  <2>1. ctl'.todo = ctl.todo /\ ctl'.at = "record" /\ ~ctl'.nested
    BY <1>1, <1>8 DEF Goto
  <2>2. QED
    BY <1>2, <1>3, <1>8, <2>1 DEF Middle
<1>9. ASSUME Finish PROVE Good
  BY <1>4, <1>9 DEF Finish, NoCtl, Middle
<1>10. {"leverage", "recover", "snapshot", "rest", "strand", "unconfirmed"} \in SUBSET (Points \ (Middle \cup {"void", "record"}))
  BY DEF Points, Middle
<1>11. ASSUME FinishStrand, ~ctl.nested PROVE Good
  BY <1>7, <1>9, <1>10, <1>11 DEF FinishStrand
<1>12. ASSUME NextCommand \/ (StopDrain /\ ctl.at = "drain"), ~ctl.nested PROVE Good
  BY <1>1, <1>4, <1>12 DEF NextCommand, StopDrain, Middle
<1>13. ASSUME NEW c, NEW s, NEW p, NEW q, NEW w, Send(c, s, p, q, w), ~ctl.nested,
              \/ w = "enter" /\ Entry /\ ctl.todo # {}
              \/ w = "exit" /\ c = Cmd /\ ctl.todo # {}
              \/ w \in {"rest", "stranded"}
       PROVE  Good
  <2>1. ctl'.at = "post" /\ ctl'.why = w /\ ctl'.todo = ctl.todo /\ ~ctl'.nested
    BY <1>1, <1>13 DEF Send
  <2>2. w = "exit" => SentBy(ledger', Cmd)
    <3> DEFINE l == [cmd |-> c, src |-> s, purpose |-> p, size |-> q, state |-> "intent", known |-> FALSE, filled |-> 0]
    <3>1. ledger' = Append(ledger, l) /\ ledger \in Seq(Row) /\ l.cmd = c
      BY <1>13, TypeFacts DEF Send
    <3> HIDE DEF l
    <3>2. Len(ledger) + 1 \in DOMAIN ledger' /\ ledger'[Len(ledger) + 1] = l
      BY <3>1
    <3>3. QED
      BY <1>13, <3>1, <3>2 DEF SentBy
  <2>3. QED
    BY <1>3, <1>5, <1>13, <2>1, <2>2 DEF Middle
<1>14. CASE PaperEntry \/ (\E q \in 1..Qty : PaperExit(q)) \/ SweepTick \/ Exchange
  BY <1>6, <1>14 DEF PaperEntry, PaperExit, SweepTick, Exchange, Accept, Drop, Fill, EndShort
<1>15. CASE Crash
  BY <1>4, <1>15 DEF Crash, NoCtl, Middle
<1>16. CASE TakeTask
  <2>1. ctl.at = "idle" /\ ~ctl.nested
    BY <1>1, <1>16 DEF TakeTask, Places
  <2>2. \/ \E t, R : ctl' = [ctl EXCEPT !.task = t, !.at = "recover", !.nested = FALSE, !.why = "none", !.row = 0, !.rows = R]
        \/ \E t, T : ctl' = [ctl EXCEPT !.task = t, !.at = "drain", !.nested = FALSE, !.todo = T]
        \/ ctl' = [ctl EXCEPT !.task = "closed", !.at = "strand"]
        \/ ctl' = ctl
    BY <1>16 DEF TakeTask, StartRecover, StartDrain
  <2>3. ctl'.at \notin Middle \cup {"void", "record"} /\ ~ctl'.nested
    BY <1>1, <2>1, <2>2 DEF Middle
  <2>4. QED
    BY <1>4, <2>3
<1>17. CASE RecoverRow
  <2>1. ctl.at = "recover" /\ ctl'.at \in {"confirm", "settle"} /\ ctl'.why = "recover" /\ ctl'.nested = ctl.nested
        /\ ctl'.todo = ctl.todo
    BY <1>1, <1>17 DEF RecoverRow
  <2>2. QED
    BY <1>1, <1>2, <1>3, <2>1 DEF Places
<1>18. CASE RecoverExposure \/ SettleRecovered
  <2>1. ctl'.at \in {"snapshot", "recover"} /\ ctl'.nested = ctl.nested /\ ctl'.todo = ctl.todo
    BY <1>1, <1>18 DEF RecoverExposure, SettleRecovered, Goto
  <2>2. QED
    BY <1>1, <1>2, <1>3, <2>1 DEF Places, Middle
<1>19. CASE SnapshotAnswered \/ SnapshotFails
  <2>1. CASE ctl.nested
    <3>1. ctl'.at = "record" /\ ~ctl'.nested /\ ctl'.todo = ctl.todo /\ ctl.todo # {}
      BY <1>1, <1>19, <2>1 DEF SnapshotAnswered, SnapshotFails, AfterRecover, Places
    <3>2. QED
      BY <1>1, <1>2, <1>3, <2>1, <3>1 DEF Middle
  <2>2. CASE ~ctl.nested
    BY <1>1, <1>4, <1>19, <2>2 DEF SnapshotAnswered, SnapshotFails, AfterRecover, Middle
  <2>3. QED
    BY <2>1, <2>2
<1>20. CASE DrainEnds
  <2>1. ~ctl.nested
    BY <1>1, <1>20 DEF DrainEnds, Places
  <2>2. QED
    BY <1>7, <1>9, <1>10, <1>20, <2>1 DEF DrainEnds
<1>21. CASE DrainKnown
  <2>1. ctl'.at = "recover" /\ ctl'.nested /\ ctl'.todo = ctl.todo /\ ctl.todo # {} /\ RowsOf(Cmd) # {}
    BY <1>1, <1>21 DEF DrainKnown, Draining, StartRecover
  <2>2. Sent
    BY <2>1 DEF RowsOf, SentBy
  <2>3. QED
    BY <1>2, <1>3, <2>1, <2>2 DEF Middle
<1>22. CASE DrainStale \/ DrainWaits \/ DrainExpired \/ DrainEntry \/ DrainExit
  <2>1. ctl.at = "drain" /\ ~ctl.nested /\ ctl.todo # {}
    BY <1>1, <1>22 DEF DrainStale, DrainWaits, DrainExpired, DrainEntry, DrainExit, Draining, Places
  <2>2. CASE DrainStale \/ DrainWaits
    BY <1>12, <2>1, <2>2 DEF DrainStale, DrainWaits
  <2>3. CASE DrainExpired
    <3>1. ctl'.at = "void" /\ ~ctl'.nested /\ ctl'.todo = ctl.todo /\ Entry
      BY <1>1, <2>1, <2>3 DEF DrainExpired
    <3>2. QED
      BY <1>3, <2>1, <3>1 DEF Middle
  <2>4. CASE DrainEntry
    BY <1>7, <1>10, <2>1, <2>4 DEF DrainEntry
  <2>5. CASE DrainExit
    BY <1>12, <1>13, <2>1, <2>5 DEF DrainExit
  <2>6. QED
    BY <1>22, <2>2, <2>3, <2>4, <2>5
<1>23. CASE LeverageHeld \/ LeverageRefused \/ VoidPosition \/ RecordCommand
  <2>1. ctl.at \in {"leverage", "void", "record"} /\ ~ctl.nested /\ ctl.todo # {}
    BY <1>1, <1>23 DEF LeverageHeld, LeverageRefused, VoidPosition, RecordCommand, Places
  <2>2. CASE LeverageHeld
    BY <1>1, <1>8, <1>13, <2>1, <2>2 DEF LeverageHeld
  <2>3. CASE LeverageRefused
    BY <1>1, <1>8, <2>1, <2>3 DEF LeverageRefused
  <2>4. CASE VoidPosition
    BY <1>1, <1>8, <1>12, <2>1, <2>4 DEF VoidPosition
  <2>5. CASE RecordCommand
    BY <1>12, <2>1, <2>5 DEF RecordCommand
  <2>6. QED
    BY <1>23, <2>2, <2>3, <2>4, <2>5
<1>24. CASE PostOk \/ PostRejected \/ PostUnanswered
  <2>1. /\ ctl.at = "post" /\ ctl.at \in Middle /\ ~ctl.nested
        /\ ctl.why \in {"enter", "exit"} => ctl.todo # {}
    BY <1>1, <1>24 DEF PostOk, PostRejected, PostUnanswered, Middle, Places
  <2>2. ASSUME NEW p \in {"confirm", "void"}, ctl' = [ctl EXCEPT !.at = p], p = "void" => ctl.why = "enter" PROVE Good
    <3>1. ctl'.at = p /\ ctl'.todo = ctl.todo /\ ctl'.why = ctl.why /\ ~ctl'.nested
      BY <1>1, <2>1, <2>2
    <3>2. QED
      BY <1>1, <1>2, <1>3, <2>1, <2>2, <3>1 DEF Middle
  <2>3. CASE PostOk \/ PostUnanswered
    BY <1>11, <2>1, <2>2, <2>3 DEF PostOk, PostUnanswered
  <2>4. CASE PostRejected
    <3>1. CASE ctl.why = "enter"
      BY <2>2, <2>4, <3>1 DEF PostRejected
    <3>2. CASE ctl.why = "exit"
      BY <1>1, <1>8, <2>1, <2>4, <3>2 DEF PostRejected
    <3>3. CASE ctl.why \notin {"enter", "exit"}
      BY <1>7, <1>10, <1>11, <2>1, <2>4, <3>3 DEF PostRejected
    <3>4. QED
      BY <3>1, <3>2, <3>3
  <2>5. QED
    BY <1>24, <2>3, <2>4
<1>25. CASE LookupDone \/ LookupOpen \/ LookupAgain \/ LookupEmpty
  <2>1. /\ ctl.at = "confirm" /\ ctl.at \in Middle /\ ctl'.at \in Middle /\ ctl'.at \notin {"void", "record"}
        /\ ctl'.why = ctl.why /\ ctl'.todo = ctl.todo /\ ctl'.nested = ctl.nested
    BY <1>1, <1>25 DEF LookupDone, LookupOpen, LookupAgain, LookupEmpty, Found, Verdict, Middle
  <2>2. QED
    BY <1>1, <1>2, <1>3, <2>1 DEF Places
<1>26. CASE SettleEntry \/ SettleExit \/ SettleStranded \/ SettlePending
  <2>1. /\ ctl.at = "settle" /\ ctl.at \in Middle /\ ~ctl.nested
        /\ ctl.why \in {"enter", "exit"} => ctl.todo # {}
    BY <1>1, <1>26 DEF SettleEntry, SettleExit, SettleStranded, SettlePending, Middle, Places
  <2>2. CASE SettleEntry
    BY <1>1, <1>8, <1>9, <2>1, <2>2 DEF SettleEntry
  <2>3. CASE SettleExit
    BY <1>1, <1>7, <1>8, <1>10, <2>1, <2>3 DEF SettleExit
  <2>4. CASE SettleStranded
    BY <1>11, <2>1, <2>4 DEF SettleStranded
  <2>5. CASE SettlePending
    <3>1. CASE FinishStrand
      BY <1>11, <2>1, <3>1
    <3>2. CASE ~FinishStrand
      <4>1. /\ ctl.why = "pending"
            /\ ctl' = [ctl EXCEPT !.at = "confirm", !.row = Min(ctl.rows), !.rows = @ \ {Min(@)}, !.verdict = "none"]
        BY <2>5, <3>2 DEF SettlePending
      <4>2. QED
        BY <1>1, <1>5, <2>1, <4>1 DEF Middle
    <3>3. QED
      BY <3>1, <3>2
  <2>6. QED
    BY <1>26, <2>2, <2>3, <2>4, <2>5
<1>27. CASE SweepRest \/ CloseStranded \/ SweepUnconfirmed
  <2>1. ctl.at \in {"rest", "strand", "unconfirmed"} /\ ~ctl.nested
    BY <1>1, <1>27 DEF SweepRest, CloseStranded, SweepUnconfirmed, Places
  <2>2. CASE SweepRest
    BY <1>7, <1>10, <1>13, <2>1, <2>2 DEF SweepRest
  <2>3. CASE CloseStranded
    <3>1. CASE FinishStrand
      BY <1>11, <2>1, <3>1
    <3>2. CASE ctl' = [ctl EXCEPT !.at = "confirm", !.why = "pending", !.row = Min(UnsettledExits),
                                  !.rows = UnsettledExits \ {Min(UnsettledExits)}]
      BY <1>1, <1>5, <2>1, <3>2 DEF Middle
    <3>3. CASE \E c, s, q : Send(c, s, "exit", q, "stranded")
      BY <1>13, <2>1, <3>3
    <3>4. QED
      BY <2>3, <3>1, <3>2, <3>3 DEF CloseStranded
  <2>4. CASE SweepUnconfirmed
    BY <1>1, <1>5, <1>9, <2>1, <2>4 DEF SweepUnconfirmed, Middle
  <2>5. QED
    BY <1>27, <2>2, <2>3, <2>4
<1>28. QED
  BY <1>14, <1>15, <1>16, <1>17, <1>18, <1>19, <1>20, <1>21, <1>22, <1>23, <1>24, <1>25, <1>26, <1>27 DEF Next, Step

\* A position that is closed stays closed and gets no more commands; it is closed by its last exit.
LEMMA ClosedBook ==
  ASSUME TypeOK, Next
  PROVE  /\ book.status = "closed" => book' = book /\ Len(cmds') = Len(cmds)
         /\ book'.status = "closed" /\ book.status # "closed" => \E q \in 1..Qty : PaperExit(q)
<1> DEFINE Same == Len(cmds') = Len(cmds)
           Good == /\ book.status = "closed" => book' = book /\ Same
                   /\ book'.status = "closed" /\ book.status # "closed" => \E q \in 1..Qty : PaperExit(q)
<1>1. book \in BookType /\ cmds \in Seq(CommandType)
  BY DEF TypeOK, BookType, CommandType
<1>2. ASSUME Void \/ book' = book \/ (\E n : Adopt(n)), Same PROVE Good
  <2>1. (book.status = "closed" => book' = book) /\ (book'.status = "closed" => book.status = "closed")
    <3>1. CASE Void \/ book' = book
      BY <1>1, <3>1 DEF Void, BookType
    <3>2. CASE \E n : Adopt(n)
      BY <1>1, <3>2 DEF Adopt, BookType
    <3>3. QED
      BY <1>2, <3>1, <3>2
  <2>2. QED
    BY <1>2, <2>1
<1>3. ASSUME NEW c, NEW s, SetCommand(c, s) PROVE Same
  BY <1>1, <1>3 DEF SetCommand
<1>4. CASE PaperEntry
  BY <1>1, <1>4 DEF PaperEntry, BookType
<1>5. CASE \E q \in 1..Qty : PaperExit(q)
  BY <1>5 DEF PaperExit
<1>6. CASE SweepTick \/ Exchange \/ Crash \/ TakeTask \/ RecoverRow \/ RecoverExposure \/ SnapshotAnswered \/ SnapshotFails
           \/ DrainEnds \/ DrainKnown
  BY <1>2, <1>6 DEF SweepTick, Exchange, Accept, Drop, Fill, EndShort, Crash, TakeTask, RecoverRow, RecoverExposure,
     SnapshotAnswered, SnapshotFails, DrainEnds, DrainKnown, durable
<1>7. CASE DrainStale \/ DrainExpired \/ DrainWaits \/ DrainEntry \/ DrainExit \/ RecordCommand
  BY <1>2, <1>3, <1>7 DEF DrainStale, DrainExpired, DrainWaits, DrainEntry, DrainExit, RecordCommand
<1>8. CASE LeverageHeld \/ LeverageRefused \/ VoidPosition \/ PostOk \/ PostRejected \/ PostUnanswered
           \/ LookupDone \/ LookupOpen \/ LookupAgain \/ LookupEmpty
  BY <1>2, <1>8 DEF LeverageHeld, LeverageRefused, VoidPosition, PostOk, PostRejected, PostUnanswered,
     LookupDone, LookupOpen, LookupAgain, LookupEmpty
<1>9. CASE SettleEntry \/ SettleRecovered
  BY <1>2, <1>9 DEF SettleEntry, SettleRecovered
<1>10. CASE SettleExit \/ SettleStranded \/ SettlePending \/ SweepRest \/ CloseStranded \/ SweepUnconfirmed
  BY <1>2, <1>10 DEF SettleExit, SettleStranded, SettlePending, SweepRest, CloseStranded, SweepUnconfirmed, durable
<1>11. QED
  BY <1>4, <1>5, <1>6, <1>7, <1>8, <1>9, <1>10 DEF Next, Step

\* An exit that was not sent waits while an order of its closed position is unresolved.
LEMMA ExitWaits ==
  ASSUME TypeOK, Records, Control, Own, Next, book.status = "closed", Unsettled # {},
         NEW c \in Pending, cmds[c].kind = "exit", RowsOf(c) = {}
  PROVE  cmds'[c].state \in {"pending", "dispatching"}
<1> DEFINE Good == cmds'[c].state \in {"pending", "dispatching"}
<1>1. cmds \in Seq(CommandType) /\ c \in DOMAIN cmds /\ cmds[c].state \in {"pending", "dispatching"}
  BY DEF TypeOK, CommandType, Pending
<1>2. ASSUME cmds' = cmds PROVE Good
  BY <1>1, <1>2
<1>3. ASSUME NEW d, NEW s, SetCommand(d, s), d # c \/ s = "pending" PROVE Good
  BY <1>1, <1>3 DEF SetCommand
<1>4. CASE PaperEntry \/ (\E q \in 1..Qty : PaperExit(q))
  BY <1>4 DEF PaperEntry, PaperExit
<1>5. CASE SweepTick \/ Exchange \/ Crash \/ TakeTask \/ RecoverRow \/ RecoverExposure \/ SnapshotAnswered \/ SnapshotFails
           \/ DrainEnds \/ DrainKnown
  BY <1>2, <1>5 DEF SweepTick, Exchange, Accept, Drop, Fill, EndShort, Crash, TakeTask, RecoverRow, RecoverExposure,
     SnapshotAnswered, SnapshotFails, DrainEnds, DrainKnown, durable
<1>6. CASE DrainStale
  <2>1. cmds[Cmd].kind = "entry" /\ SetCommand(Cmd, "cancelled")
    BY <1>6 DEF DrainStale
  <2>2. Cmd # c
    BY <2>1
  <2>3. QED
    BY <1>3, <2>1, <2>2
<1>7. CASE DrainWaits
  BY <1>3, <1>7 DEF DrainWaits
<1>8. CASE DrainExpired \/ DrainEntry \/ DrainExit
  BY <1>8 DEF DrainExpired, DrainEntry, DrainExit
<1>9. CASE RecordCommand
  <2>1. ctl.at = "record"
    BY <1>9 DEF RecordCommand
  <2>2. cmds[Cmd].kind = "entry" \/ SentBy(ledger, Cmd)
    BY <2>1 DEF Own, OwnOf, Cmd
  <2>3. Cmd # c
    BY <2>2 DEF SentBy, RowsOf
  <2>4. QED
    BY <1>3, <1>9, <2>3 DEF RecordCommand
<1>10. CASE LeverageHeld \/ LeverageRefused \/ VoidPosition \/ PostOk \/ PostRejected \/ PostUnanswered
           \/ LookupDone \/ LookupOpen \/ LookupAgain \/ LookupEmpty
  BY <1>2, <1>10 DEF LeverageHeld, LeverageRefused, VoidPosition, PostOk, PostRejected, PostUnanswered,
     LookupDone, LookupOpen, LookupAgain, LookupEmpty
<1>11. CASE SettleEntry \/ SettleRecovered
  BY <1>2, <1>11 DEF SettleEntry, SettleRecovered
<1>12. CASE SettleExit \/ SettleStranded \/ SettlePending \/ SweepRest \/ CloseStranded \/ SweepUnconfirmed
  BY <1>2, <1>12 DEF SettleExit, SettleStranded, SettlePending, SweepRest, CloseStranded, SweepUnconfirmed, durable
<1>13. QED
  BY <1>4, <1>5, <1>6, <1>7, <1>8, <1>9, <1>10, <1>11, <1>12 DEF Next, Step

\* While the entry of a closed position is unresolved the exit that closed it was not sent.
UnsettledEntry(l) == \E r \in DOMAIN l : l[r].purpose = "entry" /\ l[r].state \in OpenStates
ClosingExit(k, l) ==
  /\ k # <<>> /\ k[Len(k)].kind = "exit" /\ k[Len(k)].state \in {"pending", "dispatching"}
  /\ ~SentBy(l, Len(k))
Closing == book.status = "closed" /\ UnsettledEntry(ledger) => ClosingExit(cmds, ledger)

\* An entry that is settled stays so once the position is closed.
LEMMA EntriesSettle ==
  ASSUME TypeOK, Records, Control, PathOf(ctl), Hand, OrderStep, book.status = "closed", UnsettledEntry(ledger')
  PROVE  UnsettledEntry(ledger)
<1>1. /\ ledger \in Seq(Row) /\ Rows = 1..Len(ledger) /\ Rows' = 1..Len(ledger')
  BY TypeFacts, OrdersTyped
<1>2. PICK r \in Rows' : ledger'[r].purpose = "entry" /\ ledger'[r].state \in OpenStates
  BY DEF UnsettledEntry
<1>3. ASSUME r \in Rows, ledger'[r] = ledger[r] PROVE UnsettledEntry(ledger)
  BY <1>2, <1>3 DEF UnsettledEntry
<1>4. CASE OrdersKept \/ (\E i \in Rows, x \in ExchOrder : OrderMoves(i, x))
  BY <1>2, <1>3, <1>4 DEF OrdersKept, OrderMoves
<1>5. ASSUME NEW i \in Rows, NEW l \in Row, OrderMarked(i, l) \/ OrderRead(i, l) PROVE UnsettledEntry(ledger)
  <2>1. ledger' = [ledger EXCEPT ![i] = l] /\ l.purpose = ledger[i].purpose /\ AtRow(i)
    BY <1>5 DEF OrderMarked, OrderRead, SameOrder
  <2>2. r \in Rows /\ (r # i => ledger'[r] = ledger[r]) /\ (r = i => ledger'[r] = l)
    BY <1>1, <1>2, <2>1
  <2>3. CASE r = i
    <3>1. ledger[i].purpose = "entry"
      BY <1>2, <2>1, <2>2, <2>3
    <3>2. ctl.row = i /\ ctl.at \in {"post", "confirm"}
      BY <2>1, <3>1 DEF AtRow, Hand, HandOf, Middle
    <3>3. ledger[i].state \in OpenStates
      BY <3>1, <3>2 DEF Hand, HandOf
    <3>4. QED
      BY <3>1, <3>3 DEF UnsettledEntry
  <2>4. QED
    BY <1>3, <2>2, <2>3
<1>6. ASSUME NEW l \in Row, OrderSent(l) PROVE UnsettledEntry(ledger)
  <2>1. ledger' = Append(ledger, l) /\ l.purpose # "entry"
    BY <1>6 DEF OrderSent
  <2>2. ledger'[Len(ledger) + 1] = l /\ Len(ledger') = Len(ledger) + 1 /\ \A i \in Rows : ledger'[i] = ledger[i]
    BY <1>1, <2>1
  <2>3. r \in Rows \/ r = Len(ledger) + 1
    BY <1>1, <1>2, <2>2
  <2>4. QED
    BY <1>2, <1>3, <2>1, <2>2, <2>3
<1>7. QED
  BY <1>4, <1>5, <1>6 DEF OrderStep

\* The exit that closed the position stays pending while the fate of its entry is open.
LEMMA NextClosing ==
  ASSUME TypeOK, Records, Control, PathOf(ctl), Hand, Own, Ids, Closing, Next
  PROVE  Closing'
<1> SUFFICES ASSUME book'.status = "closed", UnsettledEntry(ledger') PROVE ClosingExit(cmds', ledger')
  BY DEF Closing
<1>1. /\ OrderStep /\ ledger \in Seq(Row) /\ Rows = 1..Len(ledger) /\ Rows' = 1..Len(ledger')
      /\ cmds \in Seq(CommandType) /\ DOMAIN cmds = 1..Len(cmds)
  <2>1. OrderStep
    BY StepKinds, Zenon
  <2>2. ledger \in Seq(Row) /\ Rows = 1..Len(ledger) /\ Rows' = 1..Len(ledger') /\ cmds \in Seq(CommandType)
    BY <2>1, OrdersTyped, TypeFacts, Zenon DEF CommandType
  <2>3. DOMAIN cmds = 1..Len(cmds)
    BY <2>2
  <2>4. QED
    BY <2>1, <2>2, <2>3
<1>2. CASE book.status # "closed"
  <2>1. PICK q \in 1..Qty : PaperExit(q)
    BY <1>2, ClosedBook
  <2> DEFINE N == Len(cmds) + 1
             k == Command("exit", q)
  <2>2. ledger' = ledger /\ cmds' = Append(cmds, k)
    BY <2>1 DEF PaperExit
  <2>3. k \in CommandType /\ k.kind = "exit" /\ k.state = "pending"
    BY DEF Command, CommandType, CommandStates
  <2> HIDE DEF k
  <2>4. Len(cmds') = N /\ cmds' # <<>> /\ cmds'[N] = k
    BY <1>1, <2>2, <2>3
  <2>5. N \notin {0} \cup DOMAIN cmds
    BY <1>1
  <2>6. ~SentBy(ledger', N)
    BY <2>2, <2>5 DEF Ids, SentBy
  <2>7. QED
    BY <2>3, <2>4, <2>6 DEF ClosingExit
<1>3. CASE book.status = "closed"
  <2> DEFINE N == Len(cmds)
  <2>1. Len(cmds') = N /\ UnsettledEntry(ledger)
    BY <1>1, <1>3, ClosedBook, EntriesSettle
  <2>2. cmds # <<>> /\ cmds[N].kind = "exit" /\ cmds[N].state \in {"pending", "dispatching"} /\ ~SentBy(ledger, N)
    BY <1>3, <2>1 DEF Closing, ClosingExit
  <2>3. N \in Pending /\ RowsOf(N) = {} /\ Unsettled # {} /\ N \in DOMAIN cmds /\ N # 0
    <3>1. N \in DOMAIN cmds /\ N # 0
      BY <1>1, <2>2
    <3>2. Unsettled # {}
      BY <2>1, Zenon DEF Unsettled, UnsettledEntry
    <3>3. RowsOf(N) = {}
      BY <2>2, Zenon DEF RowsOf, SentBy
    <3>4. N \in Pending
      BY <2>2, <3>1, Zenon DEF Pending
    <3>5. QED
      BY <3>1, <3>2, <3>3, <3>4
  <2>4. cmds'[N].kind = "exit"
    BY <2>2, <2>3, NextCmds
  <2>5. cmds'[N].state \in {"pending", "dispatching"}
    BY <1>3, <2>2, <2>3, ExitWaits
  <2>6. cmds' # <<>>
    BY <2>1, <2>3
  <2>7. ~SentBy(ledger', N)
    <3>1. CASE Len(ledger') = Len(ledger)
      <4>1. \A r \in Rows : ledger'[r].cmd = ledger[r].cmd
        BY <1>1, OrdersTyped DEF SameOrder
      <4>2. QED
        BY <1>1, <2>2, <3>1, <4>1, Zenon DEF SentBy
    <3>2. CASE Len(ledger') # Len(ledger)
      <4>1. PICK l \in Row : OrderSent(l)
        BY <1>1, <3>2, OneIsSent
      <4>2. ledger' = Append(ledger, l) /\ l.cmd = 0
        BY <1>3, <2>3, <4>1 DEF OrderSent, Row
      <4>3. /\ ledger'[Len(ledger) + 1] = l /\ Len(ledger') = Len(ledger) + 1 /\ \A r \in Rows : ledger'[r] = ledger[r]
        BY <1>1, <4>2
      <4>4. \A r \in Rows' : r \in Rows \/ r = Len(ledger) + 1
        BY <1>1, <4>3
      <4>5. QED
        BY <2>2, <2>3, <4>2, <4>3, <4>4, Zenon DEF SentBy
    <3>3. QED
      BY <3>1, <3>2
  <2>8. QED
    BY <2>1, <2>4, <2>5, <2>6, <2>7 DEF ClosingExit
<1>4. QED
  BY <1>2, <1>3

\* An answer about an exit never raises what the ledger says is held.
LEMMA ExitRead ==
  ASSUME TypeOK, Records, OrderStep, \A r \in Rows : AtRow(r) => ledger[r].purpose = "exit"
  PROVE  Exposure(ledger') <= Exposure(ledger)
<1>1. /\ ledger \in Seq(Row) /\ exch \in Seq(ExchOrder) /\ Len(exch) = Len(ledger) /\ Rows = 1..Len(ledger)
      /\ ledger' \in Seq(Row) /\ exch' \in Seq(ExchOrder) /\ Len(exch') = Len(ledger')
      /\ Exposure(ledger) \in Nat
  BY TypeFacts, OrdersTyped, SumsInt
<1>2. CASE Exposure(ledger') = Exposure(ledger)
  BY <1>1, <1>2
<1>3. ASSUME NEW r \in Rows, NEW l \in Row, OrderRead(r, l) PROVE Exposure(ledger') <= Exposure(ledger)
  <2> DEFINE f == NetTerms(ledger', ledger')
             g == NetTerms(ledger, ledger)
  <2>1. /\ ledger' = [ledger EXCEPT ![r] = l] /\ l.purpose = "exit" /\ ledger[r].purpose = "exit"
        /\ l.filled = exch[r].filled /\ ledger[r].filled <= exch[r].filled
    BY <1>3 DEF OrderRead, SameOrder, Records, RowOK
  <2>2. /\ ledger[r].filled \in Nat /\ l.filled \in Nat /\ Len(ledger') = Len(ledger)
        /\ \A i \in Rows : ledger'[i] = IF i = r THEN l ELSE ledger[i]
    <3>1. ledger[r] \in Row /\ r \in 1..Len(ledger)
      BY <1>1, TypeFacts
    <3>2. ledger[r].filled \in Nat /\ l.filled \in Nat
      BY <3>1 DEF Row
    <3>3. Len(ledger') = Len(ledger) /\ \A i \in 1..Len(ledger) : ledger'[i] = IF i = r THEN l ELSE ledger[i]
      BY <1>1, <2>1, <3>1
    <3>4. QED
      BY <1>1, <3>2, <3>3
  <2>3. f \in Seq(Int) /\ g \in Seq(Int) /\ Len(f) = Len(ledger) /\ Len(g) = Len(ledger)
    BY <1>1, <2>2, TermFacts
  <2>4. ASSUME NEW i \in 1..Len(ledger) PROVE f[i] <= g[i]
    <3>1. /\ f[i] = IF ledger'[i].purpose = "entry" THEN ledger'[i].filled ELSE -ledger'[i].filled
          /\ g[i] = IF ledger[i].purpose = "entry" THEN ledger[i].filled ELSE -ledger[i].filled
      BY <1>1, <2>2 DEF NetTerms
    <3>2. g[i] \in Int
      BY <2>3, ElementOfSeq
    <3> HIDE DEF f, g
    <3>3. CASE i = r
      BY <1>1, <2>1, <2>2, <3>1, <3>3
    <3>4. CASE i # r
      BY <1>1, <2>2, <3>1, <3>2, <3>4
    <3>5. QED
      BY <3>3, <3>4
  <2> HIDE DEF f, g
  <2>5. Total(f) <= Total(g) /\ Total(f) \in Int /\ Total(g) \in Int
    BY <2>3, <2>4, TotalMonotone, TotalInt
  <2>6. Net(ledger', ledger') = Total(f) /\ Net(ledger, ledger) = Total(g)
    BY SumsAre DEF f, g
  <2>7. QED
    BY <2>5, <2>6 DEF Exposure, NotBelowZero
<1>4. QED
  BY <1>2, <1>3, LedgerExposure

\* A closed position with contracts on record is on its way to be looked at, unless this process
\* has no product catalogue or nobody listened when the position closed.
Told(s) == Has(s, "closed")
Recovering(c) == c.at \in {"recover", "snapshot"} \/ (c.at \in {"confirm", "settle"} /\ c.why = "recover")
AboutEntry(m, c) == m.unconfirmed # 0 \/ (c.at \in Middle /\ c.why \in {"enter", "unconfirmed"})
NotedOf(m, s, c) ==
  \/ m.unheard
  \/ /\ m.exposure > 0 => m.stranded \/ m.deferred \/ Told(s) \/ Recovering(c) \/ ~m.products
     /\ AboutEntry(m, c) => Told(s)
Noted == book.status = "closed" => NotedOf(mem, tasks, ctl)

\* That nobody heard of the close is forgotten with the process, or by recover().
LEMMA UnheardStays ==
  ASSUME TypeOK, book.status = "closed", Next
  PROVE  Crash \/ SnapshotAnswered \/ mem'.unheard = mem.unheard
<1>0. mem \in [exposure : 0..Qty, unconfirmed : 0..Len(ledger), stranded : BOOLEAN,
               deferred : BOOLEAN, listening : BOOLEAN, products : BOOLEAN, unheard : BOOLEAN]
  BY DEF TypeOK
<1>1. CASE PaperEntry \/ (\E q \in 1..Qty : PaperExit(q)) \/ SweepTick \/ Exchange
  BY <1>0, <1>1 DEF PaperEntry, PaperExit, SweepTick, Exchange, Accept, Drop, Fill, EndShort
<1>2. CASE TakeTask \/ DrainKnown
  BY <1>0, <1>2 DEF TakeTask, DrainKnown, StartRecover, StartDrain
<1>3. CASE RecoverRow \/ RecoverExposure \/ SnapshotFails
  BY <1>0, <1>3 DEF RecoverRow, RecoverExposure, SnapshotFails
<1>4. CASE DrainEnds \/ DrainStale \/ DrainExpired \/ DrainWaits \/ DrainEntry \/ DrainExit
  BY <1>0, <1>4 DEF DrainEnds, DrainStale, DrainExpired, DrainWaits, DrainEntry, DrainExit
<1>5. CASE LeverageHeld \/ LeverageRefused \/ VoidPosition \/ RecordCommand \/ PostOk \/ PostRejected \/ PostUnanswered
  BY <1>0, <1>5 DEF LeverageHeld, LeverageRefused, VoidPosition, RecordCommand, PostOk, PostRejected, PostUnanswered
<1>6. CASE LookupDone \/ LookupOpen \/ LookupAgain \/ LookupEmpty
  BY <1>0, <1>6 DEF LookupDone, LookupOpen, LookupAgain, LookupEmpty, Observe
<1>7. CASE SettleEntry \/ SettleExit \/ SettleStranded \/ SettlePending \/ SettleRecovered
  BY <1>0, <1>7 DEF SettleEntry, SettleExit, SettleStranded, SettlePending, SettleRecovered
<1>8. CASE SweepRest \/ CloseStranded \/ SweepUnconfirmed
  BY <1>0, <1>8 DEF SweepRest, CloseStranded, SweepUnconfirmed
<1>9. QED
  BY <1>1, <1>2, <1>3, <1>4, <1>5, <1>6, <1>7, <1>8 DEF Next, Step

\* A closed position with exposure is stranded, deferred, pending or about to be told.
LEMMA NextNoted ==
  ASSUME TypeOK, Records, Control, PathOf(ctl), Queue, Built, Hand, Noted, Next
  PROVE  Noted'
<1> DEFINE Good == NotedOf(mem', tasks', ctl')
<1> SUFFICES ASSUME book'.status = "closed" PROVE Good
  BY DEF Noted
<1>1. /\ ctl \in [task : Tasks, at : Points, why : Reasons, row : 0..Len(ledger),
                  verdict : {"none", "filled", "unfilled", "unknown"}, nested : BOOLEAN,
                  todo : SUBSET DOMAIN cmds, rows : SUBSET Rows]
      /\ mem \in [exposure : 0..Qty, unconfirmed : 0..Len(ledger), stranded : BOOLEAN,
                  deferred : BOOLEAN, listening : BOOLEAN, products : BOOLEAN, unheard : BOOLEAN]
      /\ tasks \in Seq(Tasks)
  BY DEF TypeOK
\* the position has just been told of
<1>2. ASSUME Told(tasks') PROVE Good
  BY <1>2 DEF NotedOf
<1>3. CASE book.status # "closed"
  <2>1. PICK q \in 1..Qty : PaperExit(q)
    BY <1>3, ClosedBook
  <2>2. q < book.open => book'.status = book.status
    BY <2>1 DEF PaperExit, TypeOK
  <2>3. CASE ~mem.listening
    <3>1. mem' = [mem EXCEPT !.unheard = ~mem.listening]
      BY <1>3, <2>1, <2>2 DEF PaperExit
    <3>2. mem'.unheard
      BY <1>1, <2>3, <3>1
    <3>3. QED
      BY <3>2 DEF NotedOf
  <2>4. CASE mem.listening
    <3>1. tasks' = tasks \o <<"drain", "closed">>
      BY <1>3, <2>1, <2>2, <2>4 DEF PaperExit, Emit
    <3>2. Told(tasks')
      BY <1>1, <3>1, QueueFacts, QueueWords DEF Told
    <3>3. QED
      BY <1>2, <3>2
  <2>5. QED
    BY <2>3, <2>4
<1>4. CASE book.status = "closed" /\ ~mem.unheard
  <2>1. NotedOf(mem, tasks, ctl) /\ ~mem.unheard /\ book' = book
    BY <1>4, ClosedBook DEF Noted
  <2>2. ASSUME mem' = mem, tasks' = tasks, ~Recovering(ctl) \/ Recovering(ctl'), AboutEntry(mem, ctl') => AboutEntry(mem, ctl)
        PROVE  Good
    BY <2>1, <2>2 DEF NotedOf
  <2>3. ASSUME NEW p \in {"leverage", "record", "rest", "strand", "unconfirmed"}, Goto(p)
        PROVE  ctl'.at \notin Middle
    BY <1>1, <2>3 DEF Goto, Middle
  <2>4. ASSUME Finish PROVE ctl'.at \notin Middle
    BY <2>4 DEF Finish, NoCtl, Middle
  <2>5. ASSUME FinishStrand PROVE ctl'.at \notin Middle
    BY <2>3, <2>4, <2>5 DEF FinishStrand
  <2>6. ASSUME NextCommand \/ (StopDrain /\ ctl.at = "drain") PROVE ctl'.at \notin Middle
    BY <1>1, <2>6 DEF NextCommand, StopDrain, Middle
  <2>7. ASSUME mem' = mem, tasks' = tasks, ~Recovering(ctl), ctl'.at \notin Middle PROVE Good
    BY <2>2, <2>7 DEF AboutEntry
  <2>8. ASSUME mem' = mem, tasks' = tasks, ~Recovering(ctl), ctl'.why \notin {"enter", "unconfirmed"} PROVE Good
    BY <2>2, <2>8 DEF AboutEntry
  <2>9. Void => tasks' = tasks
    BY <1>4 DEF Void
  <2>10. ASSUME NEW c, NEW s, NEW p, NEW q, NEW w, Send(c, s, p, q, w) PROVE ctl'.why = w
    BY <1>1, <2>10 DEF Send
  <2>11. CASE PaperEntry \/ (\E q \in 1..Qty : PaperExit(q))
    BY <1>4, <2>11 DEF PaperEntry, PaperExit
  <2>12. CASE Exchange
    BY <2>2, <2>12 DEF Exchange, Accept, Drop, Fill, EndShort
  <2>13. CASE SweepTick
    <3>1. tasks' = tasks \o <<"sweep">> /\ mem' = mem /\ ctl' = ctl
      BY <1>1, <2>13, AppendIsConcat, QueueWords DEF SweepTick, Tasks
    <3>2. Told(tasks) => Told(tasks')
      BY <1>1, <3>1, QueueFacts, QueueWords DEF Told
    <3>3. QED
      BY <2>1, <3>1, <3>2 DEF NotedOf
  <2>14. CASE Crash
    BY <2>14 DEF Crash, NoMem, NoCtl, NotedOf, AboutEntry, Middle
  <2>15. CASE TakeTask
    <3>1. ctl.at = "idle" /\ tasks # <<>> /\ tasks' = Tail(tasks) /\ ~Recovering(ctl)
      BY <2>15 DEF TakeTask, Recovering
    <3> DEFINE t == Head(tasks)
    <3>2. CASE t = "closed"
      <4>1. CASE mem.exposure > 0 /\ mem.products
        <5>1. mem' = [mem EXCEPT !.unconfirmed = 0, !.stranded = TRUE] /\ ctl' = [ctl EXCEPT !.task = t, !.at = "strand"]
          BY <2>15, <3>2, <4>1 DEF TakeTask
        <5>2. QED
          BY <1>1, <5>1 DEF NotedOf, AboutEntry, Middle
      <4>2. CASE ~(mem.exposure > 0 /\ mem.products)
        <5>1. mem' = [mem EXCEPT !.unconfirmed = 0] /\ ctl' = ctl
          BY <2>15, <3>2, <4>2 DEF TakeTask
        <5>2. QED
          BY <1>1, <3>1, <4>2, <5>1 DEF NotedOf, AboutEntry, Middle
      <4>3. QED
        BY <4>1, <4>2
    <3>3. CASE t # "closed"
      <4>1. Told(tasks) => Told(tasks')
        BY <1>1, <3>1, <3>3, QueueFacts DEF Told
      <4>2. CASE \E k : StartRecover(FALSE, t, k)
        <5>1. mem'.exposure = mem.exposure /\ mem'.unconfirmed = mem.unconfirmed /\ ctl'.at = "recover"
          BY <1>1, <4>2 DEF StartRecover
        <5>2. QED
          BY <2>1, <4>1, <5>1 DEF NotedOf, AboutEntry, Recovering, Middle
      <4>3. CASE StartDrain(t, mem.products)
        <5>1. /\ ctl'.at = "drain" /\ mem'.exposure = mem.exposure /\ mem'.unconfirmed = mem.unconfirmed
              /\ mem'.stranded = mem.stranded /\ mem'.deferred = mem.deferred /\ mem'.products = mem.products
          BY <1>1, <4>3 DEF StartDrain
        <5>2. QED
          BY <2>1, <3>1, <4>1, <5>1 DEF NotedOf, AboutEntry, Middle
      <4>4. CASE mem' = [mem EXCEPT !.unconfirmed = 0] /\ ctl' = ctl
        <5>1. /\ mem'.unconfirmed = 0 /\ mem'.exposure = mem.exposure /\ mem'.stranded = mem.stranded
              /\ mem'.deferred = mem.deferred /\ mem'.products = mem.products
          BY <1>1, <4>4
        <5>2. QED
          BY <2>1, <3>1, <4>1, <4>4, <5>1 DEF NotedOf, AboutEntry, Middle
      <4>5. QED
        BY <2>15, <3>3, <4>2, <4>3, <4>4 DEF TakeTask, SweepLoads, SweepRecovers
    <3>4. QED
      BY <3>2, <3>3
  <2>16. CASE RecoverRow
    <3>1. /\ ctl.at = "recover" /\ mem' = mem /\ tasks' = tasks
          /\ ctl'.at \in {"confirm", "settle"} /\ ctl'.why = "recover"
      BY <1>1, <2>16 DEF RecoverRow
    <3>2. QED
      BY <2>2, <3>1 DEF Recovering, AboutEntry
  <2>17. CASE RecoverExposure
    <3>1. /\ ctl'.at = "snapshot" /\ mem'.unconfirmed = mem.unconfirmed /\ tasks' = tasks
      BY <1>1, <2>17 DEF RecoverExposure, Goto
    <3>2. QED
      BY <2>1, <3>1 DEF NotedOf, Recovering, AboutEntry, Middle
  <2>18. CASE SnapshotAnswered \/ SnapshotFails
    <3>1. ctl'.at \in {"record", "drain"} /\ tasks' = tasks /\ mem'.exposure = mem.exposure /\ mem'.unconfirmed = mem.unconfirmed
      BY <1>1, <2>18 DEF SnapshotAnswered, SnapshotFails, AfterRecover
    <3>2. mem.exposure > 0 => mem'.stranded \/ mem'.deferred \/ ~mem'.products
      BY <1>1, <1>4, <2>18 DEF SnapshotAnswered, SnapshotFails
    <3>3. QED
      BY <2>1, <3>1, <3>2 DEF NotedOf, AboutEntry, Middle
  <2>19. CASE DrainEnds
    <3>1. ctl.at = "drain" /\ ctl'.at \notin Middle /\ ~Recovering(ctl)
      BY <2>3, <2>4, <2>19 DEF DrainEnds, Recovering
    <3>2. CASE ctl.task = "start"
      <4>1. ~mem.listening
        BY <3>1, <3>2 DEF Queue
      <4>2. tasks = <<>>
        BY <3>1, <4>1 DEF Queue
      <4>3. ~Told(tasks)
        BY <4>2, QueueWords DEF Told
      <4>4. /\ mem'.exposure = mem.exposure /\ mem'.unconfirmed = mem.unconfirmed
            /\ mem'.stranded = mem.stranded /\ mem'.deferred = mem.deferred /\ mem'.products = mem.products
        BY <1>1, <2>19, <3>2 DEF DrainEnds
      <4>5. QED
        BY <2>1, <3>1, <4>3, <4>4 DEF NotedOf, AboutEntry
    <3>3. CASE ctl.task # "start"
      BY <2>7, <2>19, <3>1, <3>3 DEF DrainEnds
    <3>4. QED
      BY <3>2, <3>3
  <2>20. CASE DrainKnown
    <3>1. mem'.exposure = mem.exposure /\ mem'.unconfirmed = mem.unconfirmed /\ ctl'.at = "recover" /\ tasks' = tasks
      BY <1>1, <2>20 DEF DrainKnown, StartRecover
    <3>2. QED
      BY <2>1, <3>1 DEF NotedOf, AboutEntry, Recovering, Middle
  <2>21. CASE DrainStale \/ DrainWaits \/ DrainExpired \/ DrainEntry \/ DrainExit
    <3>1. /\ ctl.at = "drain" /\ mem' = mem /\ tasks' = tasks /\ ~Recovering(ctl)
      BY <2>21 DEF DrainStale, DrainWaits, DrainExpired, DrainEntry, DrainExit, Draining, Recovering
    <3>2. CASE DrainStale \/ DrainWaits
      BY <2>6, <2>7, <3>1, <3>2 DEF DrainStale, DrainWaits
    <3>3. CASE DrainExpired \/ DrainEntry
      BY <1>4, <3>3 DEF DrainExpired, DrainEntry
    <3>4. CASE DrainExit
      BY <2>6, <2>7, <2>8, <2>10, <3>1, <3>4 DEF DrainExit
    <3>5. QED
      BY <2>21, <3>2, <3>3, <3>4
  <2>22. CASE LeverageHeld \/ LeverageRefused \/ VoidPosition \/ RecordCommand
    <3>1. /\ ctl.at \in {"leverage", "void", "record"} /\ mem' = mem /\ tasks' = tasks /\ ~Recovering(ctl)
      BY <2>9, <2>22 DEF LeverageHeld, LeverageRefused, VoidPosition, RecordCommand, Recovering
    <3>2. ctl'.at \notin Middle
      BY <1>4, <2>3, <2>6, <2>22 DEF LeverageHeld, LeverageRefused, VoidPosition, RecordCommand
    <3>3. QED
      BY <2>7, <3>1, <3>2
  <2>23. CASE PostOk \/ PostRejected \/ PostUnanswered
    <3>1. ctl.at = "post" /\ mem' = mem /\ tasks' = tasks /\ ~Recovering(ctl) /\ ctl.at \in Middle
      BY <2>23 DEF PostOk, PostRejected, PostUnanswered, Recovering, Middle
    <3>2. ctl'.at \notin Middle \/ ctl'.why = ctl.why
      BY <1>1, <2>3, <2>5, <2>23 DEF PostOk, PostRejected, PostUnanswered
    <3>3. QED
      BY <2>2, <3>1, <3>2 DEF AboutEntry
  <2>24. CASE LookupDone \/ LookupOpen \/ LookupAgain \/ LookupEmpty
    <3>1. /\ ctl.at = "confirm" /\ ctl.at \in Middle /\ tasks' = tasks
          /\ mem'.unconfirmed = mem.unconfirmed /\ mem'.stranded = mem.stranded /\ mem'.deferred = mem.deferred
          /\ mem'.products = mem.products
          /\ ctl'.at \in {"confirm", "settle"} /\ ctl'.why = ctl.why
      BY <1>1, <2>24 DEF LookupDone, LookupOpen, LookupAgain, LookupEmpty, Found, Observe, Verdict, Middle
    <3>2. AboutEntry(mem', ctl') => AboutEntry(mem, ctl)
      BY <3>1 DEF AboutEntry
    <3>3. CASE ctl.why = "recover"
      BY <2>1, <3>1, <3>2, <3>3 DEF NotedOf, Recovering
    <3>4. CASE ctl.why \in {"enter", "unconfirmed"}
      <4>1. Told(tasks)
        BY <2>1, <3>1, <3>4 DEF NotedOf, AboutEntry
      <4>2. QED
        BY <1>2, <3>1, <4>1
    <3>5. CASE ctl.why \in {"exit", "rest", "stranded", "pending"}
      <4>1. ledger[ctl.row].purpose = "exit"
        BY <3>1, <3>5 DEF Hand, HandOf
      <4>2. Exposure(ledger') <= Exposure(ledger) /\ OrderStep
        BY <4>1, StepKinds, ExitRead DEF AtRow
      <4>3. mem.exposure = Exposure(ledger)
        BY <3>1, <3>5 DEF Built, Rebuilding
      <4>4. mem'.exposure = mem.exposure \/ mem'.exposure = Exposure(ledger')
        BY <1>1, <2>24 DEF LookupDone, LookupOpen, LookupAgain, LookupEmpty, Observe
      <4>5. Exposure(ledger) \in Nat /\ Exposure(ledger') \in Int
        <5>1. ledger' \in Seq(Row)
          BY <4>2, OrdersTyped
        <5>2. Net(ledger', ledger') \in Int
          BY <4>2, <5>1, OrdersTyped, TermFacts, TotalInt, SumsAre
        <5>3. QED
          BY <5>2, SumsInt DEF Exposure, NotBelowZero
      <4>6. mem'.exposure > 0 => mem.exposure > 0
        BY <4>2, <4>3, <4>4, <4>5
      <4>7. QED
        BY <2>1, <3>1, <3>2, <3>5, <4>6 DEF NotedOf, Recovering
    <3>6. QED
      BY <3>1, <3>3, <3>4, <3>5 DEF PathOf
  <2>25. CASE SettleEntry
    <3>1. ctl.at = "settle" /\ ctl.why \in {"enter", "unconfirmed"} /\ tasks' = tasks
      BY <2>9, <2>25 DEF SettleEntry
    <3>2. Told(tasks)
      BY <2>1, <3>1 DEF NotedOf, AboutEntry, Middle
    <3>3. QED
      BY <1>2, <3>1, <3>2
  <2>26. CASE SettleExit
    <3>1. ~Recovering(ctl) /\ ctl'.at \notin Middle /\ mem' = mem /\ tasks' = tasks
      BY <2>3, <2>26 DEF SettleExit, Recovering
    <3>2. QED
      BY <2>7, <3>1
  <2>27. CASE SettleStranded
    <3>1. ~Recovering(ctl) /\ ctl'.at \notin Middle /\ tasks' = tasks
      BY <2>5, <2>27 DEF SettleStranded, Recovering
    <3>2. /\ mem'.exposure = mem.exposure /\ mem'.unconfirmed = mem.unconfirmed
          /\ mem.exposure > 0 => mem'.stranded
      <4> DEFINE v == ~(ctl.verdict = "filled" /\ mem.exposure = 0)
      <4>1. mem' = [mem EXCEPT !.stranded = v]
        BY <2>27 DEF SettleStranded
      <4>2. mem.exposure > 0 => v
        BY <1>1
      <4> HIDE DEF v
      <4>3. QED
        BY <1>1, <4>1, <4>2
    <3>3. QED
      BY <2>1, <3>1, <3>2 DEF NotedOf, AboutEntry
  <2>28. CASE SettlePending
    <3>1. ~Recovering(ctl) /\ ctl.why = "pending" /\ mem' = mem /\ tasks' = tasks
      BY <2>28 DEF SettlePending, Recovering
    <3>2. CASE FinishStrand
      BY <2>5, <2>7, <3>1, <3>2
    <3>3. CASE ~FinishStrand
      <4>1. ctl' = [ctl EXCEPT !.at = "confirm", !.row = Min(ctl.rows), !.rows = @ \ {Min(@)}, !.verdict = "none"]
        BY <2>28, <3>3 DEF SettlePending
      <4>2. ctl'.why = "pending"
        BY <1>1, <3>1, <4>1
      <4>3. QED
        BY <2>8, <3>1, <4>2
    <3>4. QED
      BY <3>2, <3>3
  <2>29. CASE SettleRecovered
    <3>1. ctl'.at = "recover" /\ tasks' = tasks
      BY <1>1, <2>9, <2>29 DEF SettleRecovered, Goto
    <3>2. mem'.exposure = mem.exposure /\ mem'.unconfirmed \in {0, mem.unconfirmed}
      BY <1>1, <1>4, <2>29 DEF SettleRecovered
    <3>3. QED
      BY <2>1, <3>1, <3>2 DEF NotedOf, AboutEntry, Recovering, Middle
  <2>30. CASE SweepRest
    <3>1. ~Recovering(ctl) /\ ctl'.at \notin Middle /\ mem' = mem /\ tasks' = tasks
      BY <1>4, <2>3, <2>30 DEF SweepRest, Recovering
    <3>2. QED
      BY <2>7, <3>1
  <2>31. CASE CloseStranded
    <3>1. ~Recovering(ctl) /\ ctl.at = "strand" /\ tasks' = tasks
      BY <2>31 DEF CloseStranded, Recovering
    <3>2. CASE mem' = mem
      <4>1. CASE FinishStrand
        BY <2>5, <2>7, <3>1, <3>2, <4>1
      <4>2. CASE ctl' = [ctl EXCEPT !.at = "confirm", !.why = "pending", !.row = Min(UnsettledExits),
                                    !.rows = UnsettledExits \ {Min(UnsettledExits)}]
        BY <1>1, <2>8, <3>1, <3>2, <4>2
      <4>3. CASE \E c, s, q : Send(c, s, "exit", q, "stranded")
        BY <2>8, <2>10, <3>1, <3>2, <4>3
      <4>4. QED
        BY <2>31, <4>1, <4>2, <4>3 DEF CloseStranded
    <3>3. CASE mem' # mem
      <4>1. mem.exposure = 0 /\ mem' = [mem EXCEPT !.stranded = FALSE] /\ FinishStrand
        BY <2>31, <3>3 DEF CloseStranded
      <4>2. mem'.exposure = 0 /\ mem'.unconfirmed = mem.unconfirmed /\ ctl'.at \notin Middle
        BY <1>1, <2>5, <4>1
      <4>3. QED
        BY <2>1, <3>1, <4>2 DEF NotedOf, AboutEntry
    <3>4. QED
      BY <3>2, <3>3
  <2>32. CASE SweepUnconfirmed
    <3>1. ~Recovering(ctl) /\ mem' = mem /\ tasks' = tasks
      BY <2>32 DEF SweepUnconfirmed, Recovering
    <3>2. CASE Finish
      BY <2>4, <2>7, <3>1, <3>2
    <3>3. CASE mem.unconfirmed # 0
      BY <2>2, <3>1, <3>3 DEF AboutEntry
    <3>4. QED
      BY <2>32, <3>2, <3>3 DEF SweepUnconfirmed
  <2>33. QED
    BY <2>11, <2>12, <2>13, <2>14, <2>15, <2>16, <2>17, <2>18, <2>19, <2>20, <2>21, <2>22, <2>23, <2>24, <2>25, <2>26,
       <2>27, <2>28, <2>29, <2>30, <2>31, <2>32 DEF Next, Step
\* nobody heard of it: the next recover() that knows the fate of its entry looks at it
<1>5. CASE book.status = "closed" /\ mem.unheard
  <2>1. Crash \/ SnapshotAnswered \/ mem'.unheard = mem.unheard
    BY <1>5, UnheardStays
  <2>2. CASE Crash
    BY <2>2 DEF Crash, NoMem, NoCtl, NotedOf, AboutEntry, Middle
  <2>3. CASE SnapshotAnswered
    <3>1. /\ ctl'.at \in {"record", "drain"} /\ mem'.exposure = mem.exposure /\ mem'.unconfirmed = mem.unconfirmed
          /\ mem'.unheard \/ mem.unconfirmed = 0
      BY <1>1, <1>5, <2>3 DEF SnapshotAnswered, AfterRecover
    <3>2. mem.exposure > 0 => mem'.stranded \/ ~mem'.products
      BY <1>1, <1>5, <2>3 DEF SnapshotAnswered
    <3>3. QED
      BY <3>1, <3>2 DEF NotedOf, AboutEntry, Middle
  <2>4. CASE mem'.unheard = mem.unheard
    BY <1>5, <2>4 DEF NotedOf
  <2>5. QED
    BY <2>1, <2>2, <2>3, <2>4
<1>6. QED
  BY <1>3, <1>4, <1>5

Remembered == PathOf(ctl) /\ Queue /\ Built /\ Hand /\ Ids /\ Own /\ Closing /\ Noted

\* All of it holds at the start ...
LEMMA InitRemembered == Init => Remembered
<1> SUFFICES ASSUME Init PROVE Remembered
  OBVIOUS
<1>1. /\ book.status = "none" /\ ledger = <<>> /\ mem = NoMem /\ tasks = <<"start">> /\ ctl = NoCtl
  BY DEF Init
<1>2. ctl.at = "idle" /\ ~ctl.nested /\ ~mem.listening /\ mem.unconfirmed = 0 /\ Rows = {}
  BY <1>1 DEF NoCtl, NoMem
<1>3. PathOf(ctl) /\ Queue /\ Built
  BY <1>1, <1>2 DEF PathOf, Queue, Built, Rebuilding, Middle
<1>4. Hand /\ Own
  BY <1>2 DEF Hand, HandOf, Own, OwnOf, Middle
<1>5. Ids /\ Closing /\ Noted
  BY <1>1, <1>2 DEF Ids, Closing, Noted
<1>6. QED
  BY <1>3, <1>4, <1>5 DEF Remembered

\* ... and every step keeps it.
LEMMA StepRemembered ==
  ASSUME IInv, Remembered, [Next]_vars
  PROVE  Remembered'
<1>1. CASE Next
  <2>1. /\ TypeOK /\ Records /\ Control /\ Places
        /\ PathOf(ctl) /\ Queue /\ Built /\ Hand /\ Ids /\ Own /\ Closing /\ Noted
    BY DEF IInv, Remembered, Control
  <2>2. PathOf(ctl') /\ Queue' /\ Built' /\ Hand'
    BY <1>1, <2>1, NextPath, NextQueue, NextBuilt, NextHand
  <2>3. Ids' /\ Own'
    BY <1>1, <2>1, NextIds, NextOwn
  <2>4. Closing' /\ Noted'
    BY <1>1, <2>1, NextClosing, NextNoted
  <2>5. QED
    BY <2>2, <2>3, <2>4 DEF Remembered
<1>2. CASE UNCHANGED vars
  <2>1. /\ book' = book /\ cmds' = cmds /\ ledger' = ledger /\ exch' = exch /\ mem' = mem /\ tasks' = tasks
        /\ ctl' = ctl
    BY <1>2 DEF vars, durable
  <2>2. PathOf(ctl') /\ Queue' /\ Built' /\ Hand'
    BY <2>1 DEF Remembered, Queue, Built, Rebuilding, Hand
  <2>3. Ids' /\ Own' /\ Closing' /\ Noted'
    BY <2>1 DEF Remembered, Ids, Own, Closing, Noted
  <2>4. QED
    BY <2>2, <2>3 DEF Remembered
<1>3. QED
  BY <1>1, <1>2

\* When no order is unsettled the ledger counts what the exchange holds.
LEMMA AllSettled ==
  ASSUME TypeOK, Records, Unsettled = {}
  PROVE  Net(ledger, ledger) = Held
<1>1. ASSUME NEW r \in Rows PROVE ledger[r].filled = exch[r].filled
  <2>1. ledger[r] \in Row /\ exch[r] \in ExchOrder /\ RowOK(ledger[r], exch[r])
    BY TypeFacts DEF Records
  <2>2. ledger[r].state \in {"filled", "cancelled", "rejected"}
    BY <2>1 DEF Unsettled, OpenStates, Row, LedgerStates
  <2>3. QED
    BY <2>1, <2>2 DEF RowOK, Row, ExchOrder
<1>2. NetTerms(ledger, ledger) = NetTerms(ledger, exch)
  BY <1>1 DEF NetTerms
<1>3. QED
  BY <1>2, SumsAre

\* Between tasks it leaves nothing forgotten.
LEMMA RememberedIsEnough ==
  ASSUME IInv, Remembered
  PROVE  NothingForgotten
<1> SUFFICES ASSUME Quiet, book.status = "closed", Held > 0,
                    ~mem.stranded, ~SweepRecovers, ~Overlooks
             PROVE  FALSE
  BY DEF NothingForgotten
<1>1. TypeOK /\ Records /\ Built /\ Closing /\ Noted
  BY DEF IInv, Remembered
<1>2. ~mem.deferred /\ Pending = {} /\ ~(\E r \in Unsettled : ledger[r].purpose = "exit")
  BY DEF SweepRecovers
<1>3. ctl.at = "idle" /\ tasks = <<>> /\ mem.listening
  BY DEF Quiet
<1>4. ~UnsettledEntry(ledger)
  <2>1. SUFFICES ASSUME UnsettledEntry(ledger) PROVE FALSE
    OBVIOUS
  <2>2. cmds # <<>> /\ cmds[Len(cmds)].state \in {"pending", "dispatching"}
    BY <1>1, <2>1 DEF Closing, ClosingExit
  <2>3. Len(cmds) \in DOMAIN cmds
    BY <1>1, <2>2, TypeFacts
  <2>4. QED
    BY <1>2, <2>2, <2>3 DEF Pending
<1>5. Unsettled = {}
  <2>1. ASSUME NEW r \in Unsettled PROVE FALSE
    <3>1. r \in Rows /\ ledger[r].state \in OpenStates /\ ledger[r].purpose \in {"entry", "exit"}
      BY <1>1, <2>1, TypeFacts DEF Unsettled, Row
    <3>2. QED
      BY <1>2, <1>4, <2>1, <3>1 DEF UnsettledEntry
  <2>2. QED
    BY <2>1
<1>6. Net(ledger, ledger) = Held /\ Held \in Int
  BY <1>1, <1>5, AllSettled, SumsInt
<1>7. mem.exposure = Exposure(ledger)
  BY <1>1, <1>3 DEF Built, Rebuilding
<1>8. mem.exposure > 0
  BY <1>6, <1>7 DEF Exposure, NotBelowZero
<1>9. mem.exposure > 0 => Told(tasks) \/ Recovering(ctl)
  <2>1. mem.products /\ ~mem.unheard
    BY <1>3 DEF Overlooks
  <2>2. QED
    BY <1>1, <1>2, <2>1 DEF Noted, NotedOf
<1>10. QED
  BY <1>3, <1>8, <1>9, QueueWords DEF Told, Recovering

\* Contracts of a closed position that the exchange still holds are on record between any two tasks, so
\* the next sweep() looks at them, whenever the book moves; the two exceptions are those of Overlooks: a
\* process without a product catalogue, and a position that closed before anybody listened.
THEOREM NothingForgottenHolds == Spec => []NothingForgotten
<1>1. Init => IInv /\ Remembered
  BY InitInvariant, InitRemembered
<1>2. IInv /\ Remembered /\ [Next]_vars => IInv' /\ Remembered'
  BY StepInvariant, StepRemembered
<1>3. IInv /\ Remembered => NothingForgotten
  BY RememberedIsEnough
<1>4. QED
  BY <1>1, <1>2, <1>3, PTL DEF Spec
=============================================================================
