----------------------------- MODULE ScannerConfig -----------------------------
(***************************************************************************)
(* What the configuration says of the scanners: which is on, and the pairs  *)
(* (cells of a market and a timeframe) it trades. Whoever changes it goes   *)
(* through setScanner of config.ts, which counts the cells it would run.    *)
(***************************************************************************)
EXTENDS Naturals, FiniteSets

CONSTANTS
  Scanners, Pairs,  \* a pair is one market and timeframe of one scanner
  ScannerOf,        \* its scanner
  MaxFleet          \* incubator.promote.maxFleet

ASSUME ScannerAssumption == ScannerOf \in [Pairs -> Scanners]
ASSUME FleetAssumption == MaxFleet \in Nat /\ IsFiniteSet(Pairs)

VARIABLE config  \* per scanner: switched on, and its pairs (the file, and the bot's copy of it)

PairsOf(s) == {p \in Pairs : ScannerOf[p] = s}
NoConfig == [s \in Scanners |-> [on |-> FALSE, pairs |-> {}]]

\* the cells that trade
Fleet(c) == {p \in Pairs : c[ScannerOf[p]].on /\ p \in c[ScannerOf[p]].pairs}

\* setScanner: no save may put more cells on the box than the cap
SetScanner(s, v) ==
  /\ Cardinality(Fleet([config EXCEPT ![s] = v])) <= MaxFleet
  /\ config' = [config EXCEPT ![s] = v]

\* removePair: the last pair only switches its scanner off
Without(v, p) ==
  IF v.pairs \ {p} = {} THEN [v EXCEPT !.on = FALSE] ELSE [v EXCEPT !.pairs = @ \ {p}]
================================================================================
