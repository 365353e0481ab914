------------------------------ MODULE Incubator ------------------------------
(***************************************************************************)
(* The incubator (incubator/cycle.ts, store.ts, rotation.ts; the hunt and   *)
(* the decisions of app.ts; cli/incubate.ts), on ScannerConfig. Two         *)
(* records say what trades: the configuration, which the scanner engine     *)
(* follows, and the stage of each pair's row. Two processes write rows: the *)
(* bot, and the nightly screen, which works from what it read earlier. A    *)
(* decision writes the configuration first and the row second.              *)
(*                                                                          *)
(* The gates' evidence, the weekly limit, the slots and the caps per market *)
(* and scanner are the environment's verdict. The bot does not yield inside *)
(* a handler, and rereads the rows as it writes them in syncLive, so that   *)
(* step is whole; a judgement is planned on rows read before the writes.    *)
(***************************************************************************)
EXTENDS ScannerConfig

CONSTANTS
  PromoteAuto,  \* incubator.promote.auto
  MaxTrouble    \* bound: kills of either process

ASSUME BoundAssumption == PromoteAuto \in BOOLEAN /\ MaxTrouble \in Nat

VARIABLES
  stage,   \* per pair: the stage of its row
  bot,     \* the handler the bot is in, the rows it has still to write, what it has to promote
  known,   \* the configuration the bot's promotions were handed
  night,   \* what the nightly screen does, and the rows it has still to write
  due,     \* lastRun is newer than huntSeenAt
  used     \* kills so far

vars == <<config, stage, bot, known, night, due, used>>

Stages == {"none", "candidate", "shadow", "proposed", "live", "demote_proposed", "retired"}
LiveStages == {"live", "demote_proposed"}

Plans == [Pairs -> Stages \cup {"keep"}]
Nothing == [p \in Pairs |-> "keep"]
Move(p, to) == [Nothing EXCEPT ![p] = to]

\* what a judgement may make of a row
Judged(s) ==
  CASE s = "candidate" -> {"shadow"}
    [] s = "shadow" -> {"proposed", "retired"}
    [] s = "proposed" -> {"shadow", "retired"}
    [] s = "live" -> {"demote_proposed"}
    [] s = "demote_proposed" -> {"live"}
    [] OTHER -> {}
Judgements == {f \in Plans : \A p \in Pairs : f[p] \in Judged(stage[p]) \cup {"keep"}}
Admissions == {f \in Judgements : \A p \in Pairs : f[p] = "keep" \/ stage[p] = "candidate"}

\* Mutant: a removed pair whose demotion was proposed is overlooked.
MutSynced(p) ==
  IF p \in Fleet(config) /\ stage[p] \notin LiveStages THEN "live"
  ELSE IF p \notin Fleet(config) /\ stage[p] = "live" THEN "retired" ELSE "keep"

\* syncLive on one row
Synced(p) ==
  IF p \in Fleet(config) /\ stage[p] \notin LiveStages THEN "live"
  ELSE IF p \notin Fleet(config) /\ stage[p] \in LiveStages THEN "retired" ELSE "keep"
SyncPlan == [p \in Pairs |-> Synced(p)]
SyncLive == [p \in Pairs |-> IF Synced(p) = "keep" THEN stage[p] ELSE Synced(p)]

Idle == [at |-> "idle", plan |-> Nothing, todo |-> {}]
Down == [Idle EXCEPT !.at = "down"]
Off == [at |-> "off", plan |-> Nothing]

Init ==
  /\ config = NoConfig /\ known = NoConfig
  /\ stage = [p \in Pairs |-> "none"]
  /\ bot = Idle /\ night = Off
  /\ due = FALSE /\ used = 0

-----------------------------------------------------------------------------
(* Decisions: the configuration first, the row in a transaction afterwards. *)

\* Mutant: the scanner is set to the promoted pair, not to its list with the pair.
MutApproveAlone(p, given) ==
  /\ stage[p] = "proposed"
  /\ Cardinality(Fleet(given)) < MaxFleet
  /\ SetScanner(ScannerOf[p], [on |-> TRUE, pairs |-> {p}])

\* approve of a proposal, on the configuration it was given
Approve(p, given) ==
  /\ stage[p] = "proposed"
  /\ Cardinality(Fleet(given)) < MaxFleet
  /\ SetScanner(ScannerOf[p], [on |-> TRUE, pairs |-> given[ScannerOf[p]].pairs \cup {p}])

Promote(p) ==
  /\ bot.at = "idle" /\ Approve(p, config)
  /\ bot' = [bot EXCEPT !.at = "deciding", !.plan = Move(p, "live")]
  /\ UNCHANGED <<stage, known, night, due, used>>

\* demote, and approve of a proposed demotion
Demote(p) ==
  /\ bot.at = "idle" /\ stage[p] \in LiveStages
  /\ SetScanner(ScannerOf[p], Without(config[ScannerOf[p]], p))
  /\ bot' = [bot EXCEPT !.at = "deciding", !.plan = Move(p, "shadow")]
  /\ UNCHANGED <<stage, known, night, due, used>>

Reject(p) ==
  /\ bot.at = "idle" /\ stage[p] \in {"proposed", "demote_proposed"}
  /\ stage' = [stage EXCEPT ![p] = IF @ = "proposed" THEN "retired" ELSE "live"]
  /\ UNCHANGED <<config, bot, known, night, due, used>>

\* the operator, or the auto-tune, sets a scanner
Configure(s) ==
  /\ bot.at = "idle"
  /\ \E on \in BOOLEAN, own \in SUBSET PairsOf(s) : SetScanner(s, [on |-> on, pairs |-> own])
  /\ UNCHANGED <<stage, bot, known, night, due, used>>

-----------------------------------------------------------------------------
(* The hunt, admissions and rotations of the bot.                           *)

\* incubatorEvaluate, by the timer when a nightly screen has ended or by hand
Hunt ==
  /\ bot.at = "idle"
  /\ due' = FALSE /\ stage' = SyncLive
  /\ bot' = [bot EXCEPT !.at = "hunting"]
  /\ UNCHANGED <<config, known, night, used>>

Judge ==
  /\ bot.at = "hunting"
  /\ \E f \in Judgements :
       bot' = [bot EXCEPT !.plan = f,
                 !.at = IF \E p \in Pairs : f[p] = "proposed" THEN "proposing" ELSE "judging"]
  /\ UNCHANGED <<config, stage, known, night, due, used>>

\* admitOnly
Admit ==
  /\ bot.at = "idle"
  /\ \E f \in Admissions \ {Nothing} : bot' = [bot EXCEPT !.plan = f, !.at = "judging"]
  /\ UNCHANGED <<config, stage, known, night, due, used>>

\* store.move, without a look at the stage the row has now
WriteRow(p) ==
  /\ bot.plan[p] # "keep"
  /\ stage' = [stage EXCEPT ![p] = bot.plan[p]]
  /\ bot' = [bot EXCEPT !.plan[p] = "keep"]
  /\ UNCHANGED <<config, known, night, due, used>>

\* autoPromote is handed the configuration the hunt began with
StartPromotions ==
  /\ bot.at = "proposing" /\ bot.plan = Nothing /\ PromoteAuto
  /\ bot' = [bot EXCEPT !.at = "promoting", !.todo = {p \in Pairs : stage[p] = "proposed"}]
  /\ known' = config
  /\ UNCHANGED <<config, stage, night, due, used>>

AutoPromote(p) ==
  /\ bot.at = "promoting" /\ bot.plan = Nothing /\ p \in bot.todo
  /\ \/ /\ Approve(p, known)
        /\ bot' = [bot EXCEPT !.todo = @ \ {p}, !.plan = Move(p, "live")]
     \/ bot' = [bot EXCEPT !.todo = @ \ {p}] /\ UNCHANGED config
  /\ UNCHANGED <<stage, known, night, due, used>>

Finish ==
  /\ bot.plan = Nothing /\ bot.todo = {}
  /\ bot.at \in {"deciding", "judging", "promoting"} \/ (bot.at = "proposing" /\ ~PromoteAuto)
  /\ bot' = Idle /\ known' = NoConfig
  /\ UNCHANGED <<config, stage, night, due, used>>

\* rotate looks again at both rows, in the transaction that moves them
Rotate(old, next) ==
  /\ bot.at = "idle" \/ (night.at = "judging" /\ night.plan = Nothing)
  /\ stage[old] = "shadow" /\ stage[next] = "candidate"
  /\ stage' = [stage EXCEPT ![old] = "candidate", ![next] = "shadow"]
  /\ UNCHANGED <<config, bot, known, night, due, used>>

-----------------------------------------------------------------------------
(* The nightly screen, in a process of its own.                             *)

\* the configuration is read once; the rows it calls for are written later.
\* The timer is daily, the hunt's ten minutes: a bot that is up has hunted the
\* last night before the next one, and is between two handlers.
NightStarts ==
  /\ night.at = "off"
  /\ bot.at = "down" \/ (bot.at = "idle" /\ ~due)
  /\ night' = [at |-> "screening", plan |-> SyncPlan]
  /\ UNCHANGED <<config, stage, bot, known, due, used>>

NightWrites(p) ==
  /\ night.plan[p] # "keep"
  /\ stage' = [stage EXCEPT ![p] = night.plan[p]]
  /\ night' = [night EXCEPT !.plan[p] = "keep"]
  /\ UNCHANGED <<config, bot, known, due, used>>

\* recordScreen of a screen that passed
Screen(p) ==
  /\ night.at = "screening" /\ night.plan = Nothing
  /\ stage[p] \in {"none", "retired"}
  /\ night' = [night EXCEPT !.plan = Move(p, "candidate")]
  /\ UNCHANGED <<config, stage, bot, known, due, used>>

NightJudges ==
  /\ night.at = "screening" /\ night.plan = Nothing
  /\ \E f \in Judgements : night' = [at |-> "judging", plan |-> f]
  /\ UNCHANGED <<config, stage, bot, known, due, used>>

NightEnds ==
  /\ night.at = "judging" /\ night.plan = Nothing
  /\ night' = Off /\ due' = TRUE
  /\ UNCHANGED <<config, stage, bot, known, used>>

-----------------------------------------------------------------------------
NightKilled ==
  /\ night.at # "off" /\ used < MaxTrouble
  /\ night' = Off /\ used' = used + 1
  /\ UNCHANGED <<config, stage, bot, known, due>>

Crash ==
  /\ bot.at # "down" /\ used < MaxTrouble
  /\ bot' = Down /\ known' = NoConfig /\ used' = used + 1
  /\ UNCHANGED <<config, stage, night, due>>

\* the live rows follow the file from the first second
Start ==
  /\ bot.at = "down"
  /\ stage' = SyncLive /\ bot' = Idle
  /\ UNCHANGED <<config, known, night, due, used>>

BotStep ==
  \/ Judge \/ StartPromotions \/ Finish
  \/ \E p \in Pairs : WriteRow(p) \/ AutoPromote(p)

Decision == \E p \in Pairs : Promote(p) \/ Demote(p) \/ Reject(p)

NightStep == NightEnds \/ \E p \in Pairs : NightWrites(p)

Next ==
  \/ BotStep \/ Decision \/ Hunt \/ Admit
  \/ \E s \in Scanners : Configure(s)
  \/ \E old, next \in Pairs : Rotate(old, next)
  \/ NightStarts \/ NightStep \/ NightJudges \/ NightKilled
  \/ \E p \in Pairs : Screen(p)
  \/ Crash \/ Start

Spec == Init /\ [][Next]_vars

\* Handlers end, the bot is restarted, and the timers of the hunt and of the
\* nightly come round; a night's screen stops at its time budget and judges.
FairSpec ==
  /\ Spec
  /\ WF_vars(BotStep) /\ WF_vars(Start) /\ SF_vars(Hunt /\ due)
  /\ SF_vars(NightStarts) /\ WF_vars(NightStep) /\ SF_vars(NightJudges)

-----------------------------------------------------------------------------
TypeOK ==
  /\ config \in [Scanners -> [on : BOOLEAN, pairs : SUBSET Pairs]]
  /\ known \in [Scanners -> [on : BOOLEAN, pairs : SUBSET Pairs]]
  /\ stage \in [Pairs -> Stages]
  /\ bot \in [at : {"down", "idle", "deciding", "hunting", "judging", "proposing", "promoting"},
              plan : Plans, todo : SUBSET Pairs]
  /\ night \in [at : {"off", "screening", "judging"}, plan : Plans]
  /\ due \in BOOLEAN /\ used \in 0..MaxTrouble

\* the rows name exactly what trades
Agree == {p \in Pairs : stage[p] \in LiveStages} = Fleet(config)

\* The row a decision is about to write tells what its first write made of the
\* pair, and while a hunt promotes, one pair after another on a configuration
\* that grows older, nothing that traded when it began has stopped trading: the
\* stale list costs no more than pairs of the same hunt (cycle.ts 504-518, 585).
DecisionStands ==
  /\ bot.at \in {"deciding", "promoting"} =>
       \A p \in Pairs : /\ bot.plan[p] = "live" => p \in Fleet(config)
                        /\ bot.plan[p] = "shadow" => p \notin Fleet(config)
  /\ bot.at = "promoting" => Fleet(known) \subseteq Fleet(config)

\* Once the configuration is left alone, the rows come to agree with it and stay
\* so, whatever was killed between its two writes and whatever rows the nightly
\* screen still writes from what it read before.
Heals == <>[][UNCHANGED config]_vars => <>[]Agree

\* A hunt's promotions add to the fleet: one of them takes no cell away
\* ("every pair the cohort gate proposes is promoted immediately").
PromotionsKept == [][bot.at = "promoting" => Fleet(config) \subseteq Fleet(config')]_vars
=============================================================================
