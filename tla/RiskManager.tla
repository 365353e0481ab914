------------------------------ MODULE RiskManager ------------------------------
(***************************************************************************)
(* The portfolio risk layer (risk/manager.ts): the loss window with its     *)
(* kill switch, the manual halt, loss streaks and cooldowns per scanner,    *)
(* receipts that make each closed trade count once, and the gate every      *)
(* entry passes when it is placed and again when it fills. The weekly       *)
(* window is a second copy of the daily one and is left out, as are the     *)
(* caps per market (there is one), regime, burst and re-entry rules, whose  *)
(* verdict is part of the environment's.                                    *)
(***************************************************************************)
EXTENDS PaperBook

CONSTANTS
  MaxTotal, PerScanner,   \* maxPositionsTotal, perScannerMaxPositions
  LossLimit,              \* the loss that trips the daily kill switch
  DayTicks,               \* length of a day
  CooldownAfter, CooldownTicks,
  CloseAllOnKill

ASSUME RiskAssumption ==
  /\ {MaxTotal, PerScanner, LossLimit, DayTicks, CooldownAfter, CooldownTicks} \subseteq Nat
  /\ 0 \notin {LossLimit, DayTicks, CooldownAfter}
  /\ CloseAllOnKill \in BOOLEAN

Day(t) == t \div DayTicks

\* `seen` is paperResetAt. `base` is no field of the code: the receipts of
\* before this state, which it has forgotten.
FreshState(b, t) ==
  [day |-> Day(t), start |-> Equity(b), tripped |-> FALSE, halt |-> FALSE,
   streak |-> [s \in Scanners |-> 0], until |-> [s \in Scanners |-> 0],
   seen |-> b.resets, base |-> b.rec]

Save(b) == [b EXCEPT !.saved = b.risk]

\* tick(): a reset of the account, the new day, the kill switch
Tick(b, t) ==
  IF b.risk.seen # b.resets
  THEN Save([b EXCEPT !.risk = FreshState(b, t)])
  ELSE LET eq == Equity(b)
           rolled == IF Day(t) = b.risk.day THEN b
                     ELSE [b EXCEPT !.risk.day = Day(t), !.risk.start = eq,
                                    !.risk.tripped = FALSE]
           trips == ~rolled.risk.tripped /\ eq - rolled.risk.start <= -LossLimit
           killed == [rolled EXCEPT !.risk.tripped = TRUE]
       IN IF ~trips THEN Save(rolled)
          ELSE Save(IF CloseAllOnKill THEN CloseEverything(killed, t, TRUE) ELSE killed)

\* Mutant: one loss more than CooldownAfter is needed.
MutStreakLate(b, i, t) ==
  IF i \in b.rec \/ b.bad THEN b
  ELSE LET s == ScannerOf[b.rows[i].cell]
           n == IF b.rows[i].pnl < 0 THEN b.risk.streak[s] + 1 ELSE 0
           counted == [b EXCEPT !.rec = @ \cup {i}, !.risk.streak[s] = n,
                         !.risk.until[s] = IF n > CooldownAfter THEN b.rows[i].end + CooldownTicks ELSE @]
       IN Tick(Save(counted), t)

\* onTradeClosed(): the receipt first, so that event and recovery count once
OnTradeClosed(b, i, t) ==
  IF i \in b.rec \/ b.bad THEN b
  ELSE LET s == ScannerOf[b.rows[i].cell]
           row == b.rows[i]
           n == IF row.pnl < 0 THEN b.risk.streak[s] + 1 ELSE 0
           counted == [b EXCEPT !.rec = @ \cup {i}, !.risk.streak[s] = n,
                         !.risk.until[s] = IF n >= CooldownAfter THEN row.end + CooldownTicks
                                           ELSE @]
       IN Tick(Save(counted), t)

\* recoverClosedTrades(): closed rows without a receipt, oldest first
Uncounted(b) == IdsOf(b, "closed") \ b.rec
Oldest(b, S) == InOrder(S, [i \in S |-> b.rows[i].end])
Recover(b, t) ==
  LET missed == Oldest(b, Uncounted(b))
      counted[n \in 0..Len(missed)] ==
        IF n = 0 THEN b ELSE OnTradeClosed(counted[n - 1], missed[n], t)
  IN counted[Len(missed)]

\* Mutant: the limits are those of the last tick.
MutGateNoTick(b, t) == Recover(b, t)

\* gate(): what is recovered and tripped here commits with the decision
Gate(b, t) == LET r == Recover(b, t) IN IF r.bad THEN r ELSE Tick(r, t)

\* its verdict on the state it leaves, for an entry that replaces `old`
GateRefuses(b, c, old, t) ==
  LET held == b.open \ {old}
      scanner == {i \in held \cup b.pend : ScannerOf[b.rows[i].cell] = ScannerOf[c]}
  IN \/ b.risk.halt
     \/ b.risk.tripped
     \/ Cardinality(held) + Cardinality(b.pend) >= MaxTotal
     \/ Cardinality(scanner) >= PerScanner
     \/ t < b.risk.until[ScannerOf[c]]

\* kill(), without its closeAll
Halt(b) == Save([b EXCEPT !.risk.halt = TRUE])

================================================================================
