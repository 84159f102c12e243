------------------------------ MODULE RunState ------------------------------
(***************************************************************************)
(* The run state of the upstream targets (src/backend/runstate): ApplyReport*)
(* as the steps its transaction takes against PostgreSQL, run by several   *)
(* request handlers at once, and the operator's Reset.                     *)
(*                                                                         *)
(* A handler begins a transaction, claims the report_id by inserting into  *)
(* result_reports, chooses what the outcome does, executes the upsert on   *)
(* target_runtime (which takes the row lock until the transaction ends),   *)
(* commits, and answers.  It may be lost at any of these points: before    *)
(* the commit the database rolls back, after it only the answer is lost,   *)
(* and the data plane, which cannot tell the two apart, reports again.     *)
(***************************************************************************)
EXTENDS Integers, FiniteSets, Functions

CONSTANTS
  Models,            \* the model_id values
  Reports,           \* the report_id values
  Bodies,            \* what a report may carry: model, outcome, retry, tokens
  NoBody,            \* sent[r] = NoBody: the data plane has not used r yet
  NoReport,          \* report[c] = NoReport: handler c is idle
  Calls,             \* the request handlers that may run at the same time
  FailureThreshold,  \* Thresholds.FailureThreshold; <= 0 means never cool
  Cooldown,          \* Thresholds.CooldownDuration, negative values already 0
  MaxResetHorizon,   \* maxResetHorizon, the furthest retry_after believed
  MaxSkew,           \* how far a relay's clock is from the database's
  MaxClock,          \* bound on the clock
  MaxLosses          \* bound on the handlers lost in the middle of a call

VARIABLES
  clock,    \* PostgreSQL's clock; cooling_until is a value of it
  sent,     \* external: what the data plane reports under each report_id
  answers,  \* external: the answers that reached the data plane
  reports,  \* result_reports: the report_ids committed
  stored,   \* the targets that have a row in target_runtime
  rt,       \* target_runtime; the zero state where there is no row
  pc,       \* where each handler is
  report,   \* the report_id each handler works on
  began,    \* now() of its transaction: the time of its BEGIN
  path,     \* which upsert applyOutcome chose
  row,      \* the uncommitted row its upsert wrote
  losses    \* handlers lost so far

vars == <<clock, sent, answers, reports, stored, rt,
          pc, report, began, path, row, losses>>

dbVars   == <<reports, stored, rt>>
callVars == <<pc, report, began, path, row>>

(***************************************************************************)
(* Data.  A time is a natural number and Null (SQL NULL, and the zero      *)
(* time.Time of retry_after) is 0, which no clock ever shows.              *)
(***************************************************************************)
Null == 0

Neutral  == {"context_exceeded", "transport"}
Failures == {"abnormal", "retrying", "invalid_model"}
Outcomes == {"normal"} \cup Failures \cup Neutral

ASSUME BodiesAssumption ==
  /\ Bodies \subseteq [model : Models, outcome : Outcomes \cup {"unknown"},
                       retry : Nat, tokens : Nat]
  /\ NoBody \notin Bodies
  /\ NoReport \notin Reports

ASSUME NumbersAssumption ==
  /\ FailureThreshold \in Int
  /\ Cooldown \in Nat
  /\ MaxResetHorizon \in Nat
  /\ MaxSkew \in Nat
  /\ MaxClock \in Nat
  /\ MaxLosses \in Nat

State == [cooling : Nat, failures : Nat, requests : Nat, tokens : Nat]

ZeroState == [cooling |-> Null, failures |-> 0, requests |-> 0, tokens |-> 0]

Coalesce(t, default) == IF t = Null THEN default ELSE t
Greatest(t, u)       == IF t < u THEN u ELSE t

(* Mutant: no horizon, any moment in the future is believed.               *)
TrustworthyResetUnbounded(t, now) == t # Null /\ now < t

(* trustworthyReset: the relay judges retry_after by its own clock.        *)
TrustworthyReset(t, now) ==
  /\ t # Null
  /\ now < t
  /\ t <= now + MaxResetHorizon

(***************************************************************************)
(* What the three upserts leave in the row of target m, inserted or        *)
(* updated, for a report with body b in a transaction begun at now.        *)
(***************************************************************************)
(* Mutant: the usage is overwritten instead of added.                      *)
NormalUpsertOverwrites(m, b) ==
  [cooling  |-> Null, failures |-> 0,
   requests |-> rt[m].requests + 1, tokens |-> b.tokens]

NormalUpsert(m, b) ==
  [cooling  |-> Null, failures |-> 0,
   requests |-> rt[m].requests + 1, tokens |-> rt[m].tokens + b.tokens]

(* Mutant: the last retry_after wins, no GREATEST.                         *)
ExplicitUpsertOverwrites(m, b, now) ==
  [cooling  |-> b.retry, failures |-> rt[m].failures + 1,
   requests |-> rt[m].requests, tokens |-> rt[m].tokens]

ExplicitUpsert(m, b, now) ==
  [cooling  |-> IF m \in stored
                THEN Greatest(Coalesce(rt[m].cooling, now), b.retry)
                ELSE b.retry,
   failures |-> rt[m].failures + 1,
   requests |-> rt[m].requests, tokens |-> rt[m].tokens]

ReachesThreshold(n) == 0 < FailureThreshold /\ FailureThreshold <= n

HeuristicUpsert(m, now) ==
  [cooling  |-> IF ReachesThreshold(rt[m].failures + 1)
                THEN Greatest(Coalesce(rt[m].cooling, now), now + Cooldown)
                ELSE rt[m].cooling,
   failures |-> rt[m].failures + 1,
   requests |-> rt[m].requests, tokens |-> rt[m].tokens]

(* Mutants: a reset that takes one failure off, one that leaves the        *)
(* cooling.                                                                *)
ResetRowByOne(m) ==
  [cooling  |-> Null, failures |-> rt[m].failures - 1,
   requests |-> rt[m].requests, tokens |-> rt[m].tokens]

ResetRowKeepsCooling(m) ==
  [cooling  |-> rt[m].cooling, failures |-> 0,
   requests |-> rt[m].requests, tokens |-> rt[m].tokens]

ResetRow(m) ==
  [cooling  |-> Null, failures |-> 0,
   requests |-> rt[m].requests, tokens |-> rt[m].tokens]

(* Load: a cooling that has run out counts as none.                        *)
CoolingAt(m, now) == now < rt[m].cooling

-----------------------------------------------------------------------------
Init ==
  /\ clock = 1
  /\ sent = [r \in Reports |-> NoBody]
  /\ answers = [r \in Reports |-> {}]
  /\ reports = {}
  /\ stored = {}
  /\ rt = [m \in Models |-> ZeroState]
  /\ pc = [c \in Calls |-> "idle"]
  /\ report = [c \in Calls |-> NoReport]
  /\ began = [c \in Calls |-> Null]
  /\ path = [c \in Calls |-> "none"]
  /\ row = [c \in Calls |-> ZeroState]
  /\ losses = 0

(* The report handler c works on, and the target it is about.              *)
Body(c)   == sent[report[c]]
Target(c) == Body(c).model

(* c has inserted its report_id and has not committed: another INSERT of   *)
(* the same key waits for it.                                              *)
Claims(c) == pc[c] \in {"inserted", "routed", "executed"}

KeyFree(c) == \A d \in Calls : Claims(d) => report[d] # report[c]

(* c has upserted a row of target_runtime and holds its lock.              *)
HoldsRow(c) == pc[c] = "executed" /\ path[c] # "none"

(* Mutant: two transactions may update one row.                            *)
RowFreeAlways(m) == TRUE

RowFree(m) == \A d \in Calls : HoldsRow(d) => Target(d) # m

(* The call returns, or is lost: an open transaction is rolled back and    *)
(* its locks are released.                                                 *)
Return(c) ==
  /\ pc' = [pc EXCEPT ![c] = "idle"]
  /\ report' = [report EXCEPT ![c] = NoReport]
  /\ began' = [began EXCEPT ![c] = Null]
  /\ path' = [path EXCEPT ![c] = "none"]
  /\ row' = [row EXCEPT ![c] = ZeroState]

(***************************************************************************)
(* The data plane: it reports each call it made, and reports it again as   *)
(* long as it likes (a replay after a crash, a duplicated request).        *)
(***************************************************************************)
Send(r, b) ==
  /\ sent[r] = NoBody
  /\ sent' = [sent EXCEPT ![r] = b]
  /\ UNCHANGED <<clock, answers, dbVars, callVars, losses>>

Deliver(c, r) ==
  /\ pc[c] = "idle"
  /\ sent[r] # NoBody
  /\ pc' = [pc EXCEPT ![c] = "received"]
  /\ report' = [report EXCEPT ![c] = r]
  /\ UNCHANGED <<clock, sent, answers, dbVars, began, path, row, losses>>

(***************************************************************************)
(* ApplyReport.                                                            *)
(***************************************************************************)
Reject(c) ==
  /\ pc[c] = "received"
  /\ Body(c).outcome \notin Outcomes
  /\ answers' = [answers EXCEPT ![report[c]] = @ \cup {"invalid"}]
  /\ Return(c)
  /\ UNCHANGED <<clock, sent, dbVars, losses>>

Begin(c) ==
  /\ pc[c] = "received"
  /\ Body(c).outcome \in Outcomes
  /\ pc' = [pc EXCEPT ![c] = "begun"]
  /\ began' = [began EXCEPT ![c] = clock]
  /\ UNCHANGED <<clock, sent, answers, dbVars, report, path, row, losses>>

InsertReport(c) ==
  /\ pc[c] = "begun"
  /\ KeyFree(c)
  /\ report[c] \notin reports
  /\ pc' = [pc EXCEPT ![c] = "inserted"]
  /\ UNCHANGED <<clock, sent, answers, dbVars, report, began, path, row, losses>>

(* Mutant: a duplicate ends the call without an answer.                    *)
SkipDuplicateSilently(c) ==
  /\ pc[c] = "begun"
  /\ KeyFree(c)
  /\ report[c] \in reports
  /\ Return(c)
  /\ UNCHANGED <<clock, sent, answers, dbVars, losses>>

(* ON CONFLICT DO NOTHING inserted no row: commit the empty transaction.   *)
SkipDuplicate(c) ==
  /\ pc[c] = "begun"
  /\ KeyFree(c)
  /\ report[c] \in reports
  /\ pc' = [pc EXCEPT ![c] = "duplicate"]
  /\ UNCHANGED <<clock, sent, answers, dbVars, report, began, path, row, losses>>

(* applyOutcome's switch.  A neutral outcome touches no row at all; a      *)
(* failure reads the relay's clock, now, to judge retry_after.             *)
PathOf(b, now) ==
  CASE b.outcome \in Neutral             -> "none"
    [] b.outcome = "normal"              -> "normal"
    [] b.outcome \in Failures
         /\ TrustworthyReset(b.retry, now)  -> "explicit"
    [] OTHER                             -> "heuristic"

Route(c) ==
  /\ pc[c] = "inserted"
  /\ \E now \in (clock - MaxSkew) .. (clock + MaxSkew) :
       path' = [path EXCEPT ![c] = PathOf(Body(c), now)]
  /\ pc' = [pc EXCEPT ![c] = "routed"]
  /\ UNCHANGED <<clock, sent, answers, dbVars, report, began, row, losses>>

(* The upsert waits for the row lock, then works on the row as committed.  *)
Upserted(c) ==
  CASE path[c] = "none"      -> row[c]
    [] path[c] = "normal"    -> NormalUpsert(Target(c), Body(c))
    [] path[c] = "explicit"  -> ExplicitUpsert(Target(c), Body(c), began[c])
    [] path[c] = "heuristic" -> HeuristicUpsert(Target(c), began[c])

Execute(c) ==
  /\ pc[c] = "routed"
  /\ path[c] = "none" \/ RowFree(Target(c))
  /\ row' = [row EXCEPT ![c] = Upserted(c)]
  /\ pc' = [pc EXCEPT ![c] = "executed"]
  /\ UNCHANGED <<clock, sent, answers, dbVars, report, began, path, losses>>

(* Mutant: the transaction is left to its deferred rollback.               *)
CommitForgotten(c) ==
  /\ pc[c] = "executed"
  /\ pc' = [pc EXCEPT ![c] = "committed"]
  /\ UNCHANGED <<clock, sent, answers, dbVars, report, began, path, row, losses>>

Commit(c) ==
  /\ pc[c] = "executed"
  /\ reports' = reports \cup {report[c]}
  /\ IF path[c] = "none"
     THEN UNCHANGED <<stored, rt>>
     ELSE /\ stored' = stored \cup {Target(c)}
          /\ rt' = [rt EXCEPT ![Target(c)] = row[c]]
  /\ pc' = [pc EXCEPT ![c] = "committed"]
  /\ UNCHANGED <<clock, sent, answers, report, began, path, row, losses>>

Answer(c) ==
  /\ pc[c] \in {"committed", "duplicate"}
  /\ answers' = [answers EXCEPT ![report[c]] =
                   @ \cup {IF pc[c] = "committed" THEN "applied" ELSE "duplicate"}]
  /\ Return(c)
  /\ UNCHANGED <<clock, sent, dbVars, losses>>

(* The call dies: the process, the connection or its context is gone.  An  *)
(* open transaction rolls back; no answer is given.                        *)
Lose(c) ==
  /\ pc[c] # "idle"
  /\ losses < MaxLosses
  /\ losses' = losses + 1
  /\ Return(c)
  /\ UNCHANGED <<clock, sent, answers, dbVars>>

(***************************************************************************)
(* The operator's Reset: one UPDATE, which waits for the row lock.  With   *)
(* no row it answers NotFound and changes nothing.                         *)
(***************************************************************************)
Reset(m) ==
  /\ m \in stored
  /\ RowFree(m)
  /\ rt' = [rt EXCEPT ![m] = ResetRow(m)]
  /\ UNCHANGED <<clock, sent, answers, reports, stored, callVars, losses>>

Tick ==
  /\ clock < MaxClock
  /\ clock' = clock + 1
  /\ UNCHANGED <<sent, answers, dbVars, callVars, losses>>

-----------------------------------------------------------------------------
Handle(c) ==
  \/ Reject(c) \/ Begin(c) \/ InsertReport(c) \/ SkipDuplicate(c)
  \/ Route(c) \/ Execute(c) \/ Commit(c) \/ Answer(c)

Next ==
  \/ \E r \in Reports, b \in Bodies : Send(r, b)
  \/ \E c \in Calls, r \in Reports : Deliver(c, r)
  \/ \E c \in Calls : Handle(c) \/ Lose(c)
  \/ \E m \in Models : Reset(m)
  \/ Tick

Spec == Init /\ [][Next]_vars

(***************************************************************************)
(* Fairness: a handler that can go on goes on; PostgreSQL queues the       *)
(* waiters of a key and of a row first come, first served, so one that     *)
(* waits gets its turn however often others come back for the same key or  *)
(* row (SF); and the data plane reports again until it is answered.        *)
(***************************************************************************)
Fairness ==
  /\ \A c \in Calls :
       /\ WF_vars(Handle(c))
       /\ SF_vars(InsertReport(c) \/ SkipDuplicate(c))
       /\ SF_vars(Execute(c))
  /\ \A r \in Reports :
       SF_vars(answers[r] = {} /\ \E c \in Calls : Deliver(c, r))

FairSpec == Spec /\ Fairness

-----------------------------------------------------------------------------
(***************************************************************************)
(* Properties.                                                             *)
(***************************************************************************)

Steps == {"idle", "received", "begun", "inserted", "routed", "executed",
          "committed", "duplicate"}

(* Every variable has the type its column or field gives it.               *)
TypeOK ==
  /\ clock \in Nat /\ clock > Null
  /\ sent \in [Reports -> Bodies \cup {NoBody}]
  /\ answers \in [Reports -> SUBSET {"applied", "duplicate", "invalid"}]
  /\ reports \subseteq Reports
  /\ stored \subseteq Models
  /\ rt \in [Models -> State]
  /\ pc \in [Calls -> Steps]
  /\ report \in [Calls -> Reports \cup {NoReport}]
  /\ began \in [Calls -> Nat]
  /\ path \in [Calls -> {"none", "normal", "explicit", "heuristic"}]
  /\ row \in [Calls -> State]
  /\ losses \in Nat
  /\ \A c \in Calls : pc[c] # "idle" => report[c] \in Reports /\ Body(c) \in Bodies

(***************************************************************************)
(* What keeps concurrent transactions apart, and with TypeOK the inductive *)
(* invariant the proofs rest on.                                           *)
(***************************************************************************)

(* A report_id is claimed by one open transaction, and not yet on record.  *)
KeysExclusive ==
  \A c \in Calls : Claims(c) =>
    /\ report[c] \notin reports
    /\ \A d \in Calls : Claims(d) /\ d # c => report[d] # report[c]

(* A row is written by one open transaction, from the row as committed.    *)
RowsExclusive ==
  \A c \in Calls : HoldsRow(c) =>
    /\ row[c] = Upserted(c)
    /\ \A d \in Calls : HoldsRow(d) /\ d # c => Target(d) # Target(c)

InTransaction(c) == pc[c] = "begun" \/ Claims(c)

Routed(c) == pc[c] \in {"routed", "executed"}

(* A transaction works on a valid report, from a time that has passed, and *)
(* by a path that fits the outcome.                                        *)
TransactionsFit ==
  \A c \in Calls :
    /\ InTransaction(c) => /\ Body(c).outcome \in Outcomes
                           /\ Null < began[c] /\ began[c] <= clock
    /\ Routed(c) =>
         /\ (path[c] = "none") <=> (Body(c).outcome \in Neutral)
         /\ (path[c] = "normal") <=> (Body(c).outcome = "normal")
         /\ path[c] = "explicit" =>
              /\ Body(c).retry # Null
              /\ Body(c).retry <= clock + MaxSkew + MaxResetHorizon

(* What is on record was sent, and what a handler is about to answer is on *)
(* record.                                                                 *)
OnRecord ==
  /\ \A r \in reports : sent[r] \in Bodies
  /\ \A c \in Calls : pc[c] \in {"committed", "duplicate"} => report[c] \in reports

(* A target without a row is in the zero state.                            *)
Unstored == \A m \in Models : m \notin stored => rt[m] = ZeroState

(* The handlers' transactions are isolated.                                *)
Isolation ==
  /\ KeysExclusive
  /\ RowsExclusive
  /\ TransactionsFit
  /\ OnRecord
  /\ Unstored

Successes(m) == {r \in reports : sent[r].model = m /\ sent[r].outcome = "normal"}

(* The request count of a target is exactly the number of successful       *)
(* reports recorded for it in result_reports: none is counted twice        *)
(* whatever is duplicated, replayed or run concurrently, and none is lost  *)
(* to another handler's update, a rollback or an operator's reset          *)
(* (ApplyReport, Reset).  The documentation counts failures too: see       *)
(* ReportsAddUsage.                                                        *)
RequestsExact == \A m \in Models : rt[m].requests = Cardinality(Successes(m))

(* The tokens of a target are the sum of what its successful reports said, *)
(* under the same conditions (applyOutcome's upserts).                     *)
TokensExact ==
  \A m \in Models :
    rt[m].tokens = SumFunction([r \in Successes(m) |-> sent[r].tokens])

(* What README.md:71 and docs/api.md:299-302, :322 and :837 say of usage:  *)
(* a valid report accumulates it, a failure too (all outcomes but the      *)
(* neutral ones), in request_count as in the tokens.  So a report with     *)
(* tokens that is recorded raises at the least one of the two; the upserts *)
(* of a failure raise neither.                                             *)
ReportsAddUsage ==
  [][\A r \in reports' \ reports :
       sent[r].outcome \notin Neutral /\ sent[r].tokens > 0 =>
         LET m == sent[r].model
         IN  rt'[m].requests > rt[m].requests \/ rt'[m].tokens > rt[m].tokens]_vars

(* A target cools only for a reason, and does cool when there is one: an   *)
(* end of cooling stands in the row only together with a failure counted   *)
(* since the last success or reset, enough of them or one reported with    *)
(* the moment to retry at, and a row that has reached the threshold always *)
(* has one (applyExplicitReset, applyHeuristicCooldown, Reset).            *)
CoolingJustified ==
  \A m \in Models :
    /\ rt[m].cooling # Null =>
         /\ rt[m].failures > 0
         /\ \/ ReachesThreshold(rt[m].failures)
            \/ \E r \in reports : /\ sent[r].model = m
                                 /\ sent[r].outcome \in Failures
                                 /\ sent[r].retry # Null
    /\ ReachesThreshold(rt[m].failures) => rt[m].cooling # Null

(* No report, however wrong its retry_after and however slow the call that *)
(* carries it, locks a target out for longer than the horizon (give or     *)
(* take the clocks' skew) or the configured cooldown (trustworthyReset).   *)
MaxLead == Greatest(MaxResetHorizon + MaxSkew, Cooldown)

CoolingBounded == \A m \in Models : rt[m].cooling <= clock + MaxLead

(* The data plane is told a report was applied, or had been, only when it  *)
(* is on record: it may forget it after either answer (the order of commit *)
(* and answer in ApplyReport).                                             *)
AnswersTrue ==
  \A r \in Reports : answers[r] \cap {"applied", "duplicate"} # {} => r \in reports

(* Overlapping failures never shorten a cooling, in whatever order they    *)
(* began, executed and committed: its end moves back only in a step that   *)
(* also clears the failure count, a success or a reset (GREATEST).         *)
CoolingForward ==
  [][\A m \in Models : \/ rt'[m].cooling >= rt[m].cooling
                      \/ rt'[m].failures = 0]_vars

(* With atomic transactions in its place, this is the whole of the run     *)
(* state: every commit is one Apply of a report not applied before, every  *)
(* other step of a handler changes nothing the callers see.                *)
Ledger == INSTANCE TargetLedger WITH applied <- reports

Implements == Ledger!Spec

(* Every report the data plane makes is eventually answered, though calls  *)
(* are lost and handlers wait for each other's keys and rows.              *)
EventuallyAnswered ==
  \A r \in Reports : sent[r] # NoBody ~> answers[r] # {}
=============================================================================
