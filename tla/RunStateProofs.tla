--------------------------- MODULE RunStateProofs ---------------------------
(***************************************************************************)
(* Proofs about RunState, for any targets, reports, handlers, thresholds   *)
(* and clocks.                                                             *)
(***************************************************************************)
EXTENDS RunState, FiniteSetTheorems, WellFoundedInduction, TLAPS

-----------------------------------------------------------------------------
(* The upserts keep a row within its type.                                 *)
LEMMA UpsertType ==
  ASSUME TypeOK, NEW m \in Models, NEW b \in Bodies, NEW now \in Nat
  PROVE  /\ NormalUpsert(m, b) \in State
         /\ ExplicitUpsert(m, b, now) \in State
         /\ HeuristicUpsert(m, now) \in State
<1>1. rt[m] \in State /\ b.retry \in Nat /\ b.tokens \in Nat
  BY BodiesAssumption DEF TypeOK
<1>0. /\ rt[m].cooling \in Nat /\ rt[m].failures \in Nat
      /\ rt[m].requests \in Nat /\ rt[m].tokens \in Nat
  BY <1>1 DEF State
<1>2. \A t, u \in Nat : Greatest(t, u) \in Nat /\ Coalesce(t, u) \in Nat
  BY DEF Greatest, Coalesce
<1>3. now + Cooldown \in Nat
  BY NumbersAssumption
<1>4. NormalUpsert(m, b) \in State
  BY <1>1 DEF NormalUpsert, State, Null
<1>5. ExplicitUpsert(m, b, now) \in State
  <2>1. ExplicitUpsert(m, b, now).cooling \in Nat
    BY <1>0, <1>1, <1>2 DEF ExplicitUpsert
  <2>. QED
    BY <1>0, <2>1 DEF ExplicitUpsert, State
<1>6. HeuristicUpsert(m, now) \in State
  <2>1. HeuristicUpsert(m, now).cooling \in Nat
    BY <1>0, <1>2, <1>3 DEF HeuristicUpsert
  <2>. QED
    BY <1>0, <2>1 DEF HeuristicUpsert, State
<1>. QED
  BY <1>4, <1>5, <1>6

(* Nothing stored and nobody at work: the types hold at the start.         *)
LEMMA InitType == Init => TypeOK
BY DEF Init, TypeOK, State, ZeroState, Null, Steps

(* Each upsert leaves a well-typed row.                                    *)
LEMMA UpsertedType ==
  ASSUME TypeOK, NEW c \in Calls, pc[c] # "idle"
  PROVE  Upserted(c) \in State
<1>1. Body(c) \in Bodies /\ Target(c) \in Models
  BY BodiesAssumption DEF TypeOK, Body, Target
<1>2. row[c] \in State /\ began[c] \in Nat
  BY DEF TypeOK
<1>3. path[c] \in {"none", "normal", "explicit", "heuristic"}
  BY DEF TypeOK
<1>. QED
  BY <1>1, <1>2, <1>3, UpsertType DEF Upserted

(* Every step keeps the types.                                             *)
LEMMA NextType == TypeOK /\ [Next]_vars => TypeOK'
<1>. SUFFICES ASSUME TypeOK, [Next]_vars PROVE TypeOK'
  OBVIOUS
<1>. USE DEF TypeOK, dbVars, callVars, Steps, Body
<1>1. ASSUME NEW r \in Reports, NEW b \in Bodies, Send(r, b) PROVE TypeOK'
  BY <1>1 DEF Send
<1>2. ASSUME NEW c \in Calls, NEW r \in Reports, Deliver(c, r) PROVE TypeOK'
  BY <1>2 DEF Deliver
<1>3. ASSUME NEW c \in Calls, Reject(c) PROVE TypeOK'
  BY <1>3 DEF Reject, Return, State, ZeroState, Null
<1>4. ASSUME NEW c \in Calls, Begin(c) PROVE TypeOK'
  BY <1>4 DEF Begin
<1>5. ASSUME NEW c \in Calls, InsertReport(c) PROVE TypeOK'
  BY <1>5 DEF InsertReport
<1>6. ASSUME NEW c \in Calls, SkipDuplicate(c) PROVE TypeOK'
  BY <1>6 DEF SkipDuplicate
<1>7. ASSUME NEW c \in Calls, Route(c) PROVE TypeOK'
  <2>1. \A b, now : PathOf(b, now) \in {"none", "normal", "explicit", "heuristic"}
    BY DEF PathOf
  <2>. QED
    BY <1>7, <2>1 DEF Route
<1>8. ASSUME NEW c \in Calls, Execute(c) PROVE TypeOK'
  <2>1. Upserted(c) \in State
    BY <1>8, UpsertedType DEF Execute
  <2>. QED
    BY <1>8, <2>1 DEF Execute
<1>9. ASSUME NEW c \in Calls, Commit(c) PROVE TypeOK'
  <2>1. Target(c) \in Models
    BY <1>9, BodiesAssumption DEF Commit, Target
  <2>. QED
    BY <1>9, <2>1 DEF Commit
<1>10. ASSUME NEW c \in Calls, Answer(c) PROVE TypeOK'
  BY <1>10 DEF Answer, Return, State, ZeroState, Null
<1>11. ASSUME NEW c \in Calls, Lose(c) PROVE TypeOK'
  BY <1>11 DEF Lose, Return, State, ZeroState, Null
<1>12. ASSUME NEW m \in Models, Reset(m) PROVE TypeOK'
  <2>1. ResetRow(m) \in State
    BY <1>12 DEF ResetRow, Reset, State, Null
  <2>. QED
    BY <1>12, <2>1 DEF Reset
<1>13. CASE Tick
  BY <1>13 DEF Tick, Null
<1>14. CASE UNCHANGED vars
  BY <1>14 DEF vars
<1>. QED
  BY <1>1, <1>2, <1>3, <1>4, <1>5, <1>6, <1>7, <1>8, <1>9, <1>10, <1>11, <1>12,
     <1>13, <1>14 DEF Next, Handle

(* Every variable keeps the type of its column or field.                   *)
THEOREM TypeCorrect == Spec => []TypeOK
<1>1. Init => TypeOK
  BY InitType
<1>2. TypeOK /\ [Next]_vars => TypeOK'
  BY NextType
<1>. QED
  BY <1>1, <1>2, PTL DEF Spec
-----------------------------------------------------------------------------
IInv == TypeOK /\ Isolation

(* With no transaction open, all are isolated.                             *)
LEMMA InitIsolation == Init => Isolation
BY DEF Init, Isolation, KeysExclusive, RowsExclusive, TransactionsFit, OnRecord,
       Unstored, Claims, HoldsRow, InTransaction, Routed

(* The path the switch takes fits the outcome it is taken for.             *)
LEMMA PathFits ==
  ASSUME TypeOK, NEW b \in Bodies, b.outcome \in Outcomes,
         NEW now \in (clock - MaxSkew) .. (clock + MaxSkew)
  PROVE  /\ (PathOf(b, now) = "none") <=> (b.outcome \in Neutral)
         /\ (PathOf(b, now) = "normal") <=> (b.outcome = "normal")
         /\ PathOf(b, now) = "explicit" =>
              /\ b.retry # Null
              /\ b.retry <= clock + MaxSkew + MaxResetHorizon
<1>1. b.retry \in Nat /\ clock \in Nat /\ now \in Int /\ now <= clock + MaxSkew
  BY BodiesAssumption, NumbersAssumption DEF TypeOK
<1>2. TrustworthyReset(b.retry, now) =>
        b.retry # Null /\ b.retry <= clock + MaxSkew + MaxResetHorizon
  BY <1>1, NumbersAssumption DEF TrustworthyReset
<1>. QED
  BY <1>2 DEF PathOf, Neutral, Failures, Outcomes

(* Every step keeps the transactions isolated.  A step of one handler      *)
(* leaves the others' transactions as they are, so each part need be shown *)
(* of that handler's own transaction only.                                 *)
Same(d) ==
  /\ pc'[d] = pc[d] /\ report'[d] = report[d] /\ Body(d)' = Body(d)
  /\ began'[d] = began[d] /\ path'[d] = path[d] /\ row'[d] = row[d]

StepOf(c) == Handle(c) \/ Lose(c) \/ \E r \in Reports : Deliver(c, r)

(* The steps that belong to no handler.                                    *)
Outside ==
  \/ \E r \in Reports, b \in Bodies : Send(r, b)
  \/ \E m \in Models : Reset(m)
  \/ Tick
  \/ UNCHANGED vars

(* The next-state relation, by who takes the step.                         *)
LEMMA NextByActor ==
  ASSUME [Next]_vars
  PROVE  Outside \/ \E c \in Calls : StepOf(c)
BY DEF Next, Outside, StepOf

(* A handler's step leaves the other handlers, and what was sent, as they  *)
(* are.                                                                    *)
LEMMA OthersSame ==
  ASSUME TypeOK, NEW c \in Calls, StepOf(c)
  PROVE  UNCHANGED <<sent, clock>> /\ \A d \in Calls \ {c} : Same(d)
<1>. USE DEF TypeOK, Same, Body, Return
<1>1. CASE Reject(c) \/ Begin(c) \/ InsertReport(c) \/ SkipDuplicate(c)
  BY <1>1 DEF Reject, Begin, InsertReport, SkipDuplicate
<1>2. CASE Route(c) \/ Execute(c)
  BY <1>2 DEF Route, Execute
<1>3. CASE Commit(c) \/ Answer(c) \/ Lose(c)
  BY <1>3 DEF Commit, Answer, Lose
<1>4. CASE \E r \in Reports : Deliver(c, r)
  BY <1>4 DEF Deliver
<1>. QED
  BY <1>1, <1>2, <1>3, <1>4 DEF StepOf, Handle

(* A step that belongs to no handler leaves every call under way as it is. *)
LEMMA OutsideSame ==
  ASSUME TypeOK, Outside
  PROVE  /\ UNCHANGED <<pc, reports, stored>>
         /\ \A d \in Calls : pc[d] # "idle" => Same(d)
         /\ clock' \in Nat /\ clock <= clock'
<1>. USE DEF TypeOK, Same, Body
<1>1. ASSUME NEW r \in Reports, NEW b \in Bodies, Send(r, b)
      PROVE  /\ UNCHANGED <<clock, dbVars, callVars>>
             /\ \A d \in Calls : pc[d] # "idle" => sent'[report[d]] = sent[report[d]]
  <2>1. \A d \in Calls : pc[d] # "idle" => report[d] \in Reports /\ report[d] # r
    BY <1>1, BodiesAssumption DEF Send
  <2>2. \A q \in Reports : q # r => sent'[q] = sent[q]
    BY <1>1 DEF Send
  <2>. QED
    BY <1>1, <2>1, <2>2 DEF Send
<1>2. CASE \E r \in Reports, b \in Bodies : Send(r, b)
  <2>1. /\ UNCHANGED <<clock, dbVars, callVars>>
        /\ \A d \in Calls : pc[d] # "idle" => sent'[report[d]] = sent[report[d]]
    BY <1>1, <1>2
  <2>. QED
    BY <2>1 DEF dbVars, callVars
<1>3. CASE \E m \in Models : Reset(m)
  BY <1>3 DEF Reset, callVars
<1>4. CASE Tick
  BY <1>4 DEF Tick, dbVars, callVars
<1>5. CASE UNCHANGED vars
  BY <1>5 DEF vars
<1>. QED
  BY <1>2, <1>3, <1>4, <1>5 DEF Outside

(* The wait for a key keeps the claims apart.                              *)
LEMMA NextKeys ==
  ASSUME IInv, [Next]_vars
  PROVE  KeysExclusive'
<1>. USE DEF IInv, Isolation, KeysExclusive, Claims
<1>1. CASE Outside
  BY <1>1, OutsideSame DEF Same
<1>2. ASSUME NEW c \in Calls, StepOf(c) PROVE KeysExclusive'
  <2>0. /\ \A d \in Calls \ {c} : pc'[d] = pc[d] /\ report'[d] = report[d]
        /\ c \in DOMAIN pc /\ c \in DOMAIN report
    BY <1>2, OthersSame DEF Same, TypeOK
  <2>1. CASE InsertReport(c)
    <3>1. UNCHANGED <<report, reports>> /\ pc'[c] = "inserted" /\ pc[c] = "begun"
      BY <2>0, <2>1 DEF InsertReport, dbVars
    <3>2. \A d \in Calls : Claims(d) => report[d] # report[c]
      BY <2>1 DEF InsertReport, KeyFree
    <3>3. report[c] \notin reports
      BY <2>1 DEF InsertReport
    <3>. QED
      BY <2>0, <3>1, <3>2, <3>3
  <2>2. CASE Commit(c)
    BY <2>0, <2>2 DEF Commit
  <2>3. CASE Route(c) \/ Execute(c)
    BY <2>0, <2>3 DEF Route, Execute, dbVars
  <2>4. CASE Begin(c) \/ SkipDuplicate(c) \/ \E r \in Reports : Deliver(c, r)
    BY <2>0, <2>4 DEF Begin, SkipDuplicate, Deliver, dbVars
  <2>5. CASE Reject(c) \/ Answer(c) \/ Lose(c)
    BY <2>0, <2>5 DEF Reject, Answer, Lose, Return, dbVars
  <2>. QED
    BY <1>2, <2>1, <2>2, <2>3, <2>4, <2>5 DEF StepOf, Handle
<1>. QED
  BY <1>1, <1>2, NextByActor

(* A handler that holds a row has the report of a target it can have.      *)
LEMMA HolderTyped ==
  ASSUME TypeOK, NEW d \in Calls, HoldsRow(d)
  PROVE  pc[d] # "idle" /\ Target(d) \in Models
BY BodiesAssumption DEF TypeOK, HoldsRow, Target

(* An upsert depends on the handler, its report and the row it is of, and  *)
(* on nothing else.                                                        *)
LEMMA SameUpsert ==
  ASSUME NEW d \in Calls, Same(d),
         rt'[Target(d)] = rt[Target(d)],
         (Target(d) \in stored') <=> (Target(d) \in stored)
  PROVE  /\ Target(d)' = Target(d)
         /\ HoldsRow(d)' <=> HoldsRow(d)
         /\ row'[d] = row[d]
         /\ Upserted(d)' = Upserted(d)
<1>1. Target(d)' = Target(d)
  BY DEF Same, Target
<1>2. /\ NormalUpsert(Target(d), Body(d))' = NormalUpsert(Target(d), Body(d))
      /\ ExplicitUpsert(Target(d), Body(d), began[d])'
           = ExplicitUpsert(Target(d), Body(d), began[d])
      /\ HeuristicUpsert(Target(d), began[d])' = HeuristicUpsert(Target(d), began[d])
  BY <1>1 DEF Same, NormalUpsert, ExplicitUpsert, HeuristicUpsert
<1>. QED
  BY <1>1, <1>2 DEF Same, HoldsRow, Upserted

(* Rows stay apart in a step that gives none to a handler and changes none *)
(* that is held.                                                           *)
LEMMA RowsKept ==
  ASSUME RowsExclusive,
         \A d \in Calls : HoldsRow(d)' =>
           /\ HoldsRow(d) /\ Same(d)
           /\ rt'[Target(d)] = rt[Target(d)]
           /\ (Target(d) \in stored') <=> (Target(d) \in stored)
  PROVE  RowsExclusive'
<1>1. \A d \in Calls : HoldsRow(d)' =>
        /\ HoldsRow(d)
        /\ Target(d)' = Target(d)
        /\ row'[d] = row[d]
        /\ Upserted(d)' = Upserted(d)
  BY SameUpsert
<1>. QED
  BY <1>1 DEF RowsExclusive

(* The wait for a row keeps the rows apart.                                *)
LEMMA NextRows ==
  ASSUME IInv, [Next]_vars
  PROVE  RowsExclusive'
<1>. USE DEF IInv, Isolation
<1>1. CASE Outside
  <2>1. ASSUME NEW d \in Calls, HoldsRow(d)'
        PROVE  HoldsRow(d) /\ Same(d) /\ Target(d) \in Models
    BY <1>1, <2>1, OutsideSame, HolderTyped DEF HoldsRow, Same
  <2>2. ASSUME NEW d \in Calls, HoldsRow(d)'
        PROVE  rt'[Target(d)] = rt[Target(d)]
    <3>1. CASE \E m \in Models : Reset(m)
      BY <2>1, <2>2, <3>1 DEF Reset, RowFree, TypeOK
    <3>2. CASE ~ \E m \in Models : Reset(m)
      BY <1>1, <3>2 DEF Outside, Send, Tick, vars, dbVars
    <3>. QED
      BY <3>1, <3>2
  <2>. QED
    BY <1>1, <2>1, <2>2, OutsideSame, RowsKept
<1>2. ASSUME NEW c \in Calls, StepOf(c) PROVE RowsExclusive'
  <2>0. /\ \A d \in Calls \ {c} : Same(d)
        /\ c \in DOMAIN pc /\ c \in DOMAIN path /\ c \in DOMAIN row
    BY <1>2, OthersSame DEF TypeOK
  <2>1. CASE Execute(c)
    <3>1. UNCHANGED <<rt, stored, report, path, sent, began>> /\ pc[c] = "routed"
      BY <2>1 DEF Execute, dbVars
    <3>2. ASSUME NEW d \in Calls, d # c, HoldsRow(d)'
          PROVE  /\ HoldsRow(d)
                 /\ Target(d)' = Target(d)
                 /\ row'[d] = row[d]
                 /\ Upserted(d)' = Upserted(d)
      BY <2>0, <3>1, <3>2, SameUpsert
    <3>3. Upserted(c)' = Upserted(c) \/ path[c] = "none"
      <4>1. Target(c)' = Target(c) /\ Body(c)' = Body(c) /\ path'[c] = path[c]
        BY <3>1 DEF Target, Body
      <4>2. /\ NormalUpsert(Target(c), Body(c))' = NormalUpsert(Target(c), Body(c))
            /\ ExplicitUpsert(Target(c), Body(c), began[c])'
                 = ExplicitUpsert(Target(c), Body(c), began[c])
            /\ HeuristicUpsert(Target(c), began[c])' = HeuristicUpsert(Target(c), began[c])
        BY <3>1, <4>1 DEF NormalUpsert, ExplicitUpsert, HeuristicUpsert
      <4>3. path[c] \in {"none", "normal", "explicit", "heuristic"}
        BY DEF TypeOK
      <4>. QED
        BY <4>1, <4>2, <4>3 DEF Upserted
    <3>4. row'[c] = Upserted(c) /\ Target(c)' = Target(c)
      BY <2>0, <2>1, <3>1 DEF Execute, Target, Body
    <3>5. HoldsRow(c)' => path[c] # "none" /\ RowFree(Target(c))
      BY <2>1, <3>1 DEF Execute, HoldsRow
    <3>6. ASSUME NEW d \in Calls, HoldsRow(d)'
          PROVE  row'[d] = Upserted(d)'
      <4>1. CASE d = c
        BY <3>3, <3>4, <3>5, <3>6, <4>1
      <4>2. CASE d # c
        <5>1. /\ HoldsRow(d)
              /\ row'[d] = row[d]
              /\ Upserted(d)' = Upserted(d)
          BY <3>2, <3>6, <4>2
        <5>2. row[d] = Upserted(d)
          BY <5>1 DEF RowsExclusive
        <5>. QED
          BY <5>1, <5>2
      <4>. QED
        BY <4>1, <4>2
    <3>7. ASSUME NEW d \in Calls, HoldsRow(d)', d # c
          PROVE  HoldsRow(c)' => Target(d)' # Target(c)'
      <4>1. HoldsRow(d) /\ Target(d)' = Target(d)
        BY <3>2, <3>7
      <4>. QED
        BY <3>4, <3>5, <4>1 DEF RowFree
    <3>8. ASSUME NEW d \in Calls, HoldsRow(d)', NEW e \in Calls, HoldsRow(e)', e # d
          PROVE  Target(e)' # Target(d)'
      <4>1. CASE d # c /\ e # c
        <5>1. /\ HoldsRow(d) /\ Target(d)' = Target(d)
              /\ HoldsRow(e) /\ Target(e)' = Target(e)
          BY <3>2, <3>8, <4>1
        <5>. QED
          BY <3>8, <5>1 DEF RowsExclusive
      <4>2. CASE d = c \/ e = c
        BY <3>7, <3>8, <4>2
      <4>. QED
        BY <4>1, <4>2
    <3>. QED
      BY <3>6, <3>8 DEF RowsExclusive
  <2>2. CASE Commit(c)
    <3>1. ASSUME NEW d \in Calls, HoldsRow(d)'
          PROVE  d # c /\ HoldsRow(d) /\ Same(d) /\ Target(d) \in Models
      BY <2>0, <2>2, <3>1, HolderTyped DEF Commit, HoldsRow, Same
    <3>2. ASSUME NEW d \in Calls, HoldsRow(d)'
          PROVE  /\ rt'[Target(d)] = rt[Target(d)]
                 /\ (Target(d) \in stored') <=> (Target(d) \in stored)
      <4>1. CASE path[c] = "none"
        BY <2>2, <4>1 DEF Commit
      <4>2. CASE path[c] # "none"
        BY <2>2, <3>1, <3>2, <4>2 DEF Commit, HoldsRow, RowsExclusive, TypeOK
      <4>. QED
        BY <4>1, <4>2
    <3>. QED
      BY <3>1, <3>2, RowsKept
  <2>3. CASE ~Execute(c) /\ ~Commit(c)
    <3>1. UNCHANGED <<rt, stored>>
      BY <1>2, <2>3 DEF StepOf, Handle, Deliver, Reject, Begin, InsertReport,
                        SkipDuplicate, Route, Answer, Lose, dbVars
    <3>2. ~HoldsRow(c)'
      BY <1>2, <2>0, <2>3 DEF StepOf, Handle, Deliver, Reject, Begin, InsertReport,
                        SkipDuplicate, Route, Answer, Lose, Return, HoldsRow
    <3>. QED
      BY <2>0, <3>1, <3>2, RowsKept DEF Same, HoldsRow
  <2>. QED
    BY <2>1, <2>2, <2>3
<1>. QED
  BY <1>1, <1>2, NextByActor

Fits(d) ==
  /\ InTransaction(d) => /\ Body(d).outcome \in Outcomes
                         /\ Null < began[d] /\ began[d] <= clock
  /\ Routed(d) => /\ (path[d] = "none") <=> (Body(d).outcome \in Neutral)
                  /\ (path[d] = "normal") <=> (Body(d).outcome = "normal")
                  /\ path[d] = "explicit" =>
                       /\ Body(d).retry # Null
                       /\ Body(d).retry <= clock + MaxSkew + MaxResetHorizon

(* A transaction that does not move still fits when time has passed.       *)
LEMMA FitsStill ==
  ASSUME TypeOK, NEW d \in Calls, Fits(d),
         pc[d] # "idle" => Same(d), pc'[d] = pc[d],
         clock' \in Nat, clock <= clock'
  PROVE  Fits(d)'
<1>1. CASE pc[d] = "idle"
  BY <1>1 DEF Fits, InTransaction, Claims, Routed
<1>2. CASE pc[d] # "idle"
  <2>1. /\ Body(d)' = Body(d) /\ began'[d] = began[d] /\ path'[d] = path[d]
        /\ began[d] \in Nat /\ clock \in Nat /\ Body(d).retry \in Nat
    BY <1>2, BodiesAssumption DEF Same, TypeOK
  <2>2. InTransaction(d)' <=> InTransaction(d)
    BY DEF InTransaction, Claims
  <2>3. Routed(d)' <=> Routed(d)
    BY DEF Routed
  <2>. QED
    BY <2>1, <2>2, <2>3, NumbersAssumption DEF Fits
<1>. QED
  BY <1>1, <1>2

(* Every step keeps the transactions' paths and times fit for their        *)
(* reports.                                                                *)
LEMMA NextFit ==
  ASSUME IInv, [Next]_vars
  PROVE  TransactionsFit'
<1>. USE DEF IInv, Isolation
<1>0. \A d \in Calls : Fits(d)
  BY DEF TransactionsFit, Fits
<1>1. CASE Outside
  <2>1. \A d \in Calls : Fits(d)'
    BY <1>0, <1>1, OutsideSame, FitsStill
  <2>. QED
    BY <2>1 DEF TransactionsFit, Fits
<1>2. ASSUME NEW c \in Calls, StepOf(c) PROVE TransactionsFit'
  <2>0. UNCHANGED <<sent, clock>> /\ clock \in Nat
    BY <1>2, OthersSame DEF TypeOK
  <2>1. \A d \in Calls \ {c} : Fits(d)'
    BY <1>0, <1>2, <2>0, OthersSame, FitsStill DEF Same
  <2>2. Fits(c)'
    <3>0. /\ c \in DOMAIN pc /\ c \in DOMAIN report /\ c \in DOMAIN began
          /\ c \in DOMAIN path
      BY DEF TypeOK
    <3>1. CASE Begin(c)
      BY <2>0, <3>0, <3>1 DEF Begin, Fits, InTransaction, Claims, Routed, Body, TypeOK, Null
    <3>2. CASE Route(c)
      <4>1. PICK now \in (clock - MaxSkew) .. (clock + MaxSkew) :
              path' = [path EXCEPT ![c] = PathOf(Body(c), now)]
        BY <3>2 DEF Route
      <4>2. /\ Body(c) \in Bodies /\ Body(c)' = Body(c)
            /\ Body(c).outcome \in Outcomes /\ Null < began[c] /\ began[c] <= clock
            /\ UNCHANGED <<began, clock>>
        BY <1>0, <2>0, <3>2 DEF Route, Fits, InTransaction, Claims, Body, TypeOK
      <4>3. path'[c] = PathOf(Body(c), now)
        BY <3>0, <4>1
      <4>. QED
        BY <4>2, <4>3, PathFits DEF Fits
    <3>3. CASE InsertReport(c) \/ Execute(c)
      <4>1. /\ Body(c)' = Body(c) /\ UNCHANGED <<began, path, clock>>
            /\ InTransaction(c) /\ (Routed(c)' => Routed(c))
        BY <2>0, <3>0, <3>3 DEF InsertReport, Execute, Body, InTransaction, Claims, Routed
      <4>. QED
        BY <1>0, <4>1 DEF Fits
    <3>4. CASE ~Begin(c) /\ ~Route(c) /\ ~InsertReport(c) /\ ~Execute(c)
      <4>1. pc'[c] \in {"received", "duplicate", "committed", "idle"}
        BY <1>2, <3>0, <3>4 DEF StepOf, Handle, Deliver, Reject, SkipDuplicate,
                                Commit, Answer, Lose, Return
      <4>. QED
        BY <4>1 DEF Fits, InTransaction, Claims, Routed
    <3>. QED
      BY <3>1, <3>2, <3>3, <3>4
  <2>. QED
    BY <2>1, <2>2 DEF TransactionsFit, Fits
<1>. QED
  BY <1>1, <1>2, NextByActor

(* What is on record was sent, and is never taken off it.                  *)
LEMMA NextOnRecord ==
  ASSUME IInv, [Next]_vars
  PROVE  OnRecord'
<1>. USE DEF IInv, Isolation, OnRecord
<1>1. CASE Outside
  <2>1. \A r \in reports : sent'[r] = sent[r]
    BY <1>1, BodiesAssumption DEF Outside, Send, Reset, Tick, vars, TypeOK
  <2>. QED
    BY <1>1, <2>1, OutsideSame DEF Same
<1>2. ASSUME NEW c \in Calls, StepOf(c) PROVE OnRecord'
  <2>0. /\ UNCHANGED sent
        /\ \A d \in Calls \ {c} : pc'[d] = pc[d] /\ report'[d] = report[d]
        /\ c \in DOMAIN pc /\ c \in DOMAIN report
    BY <1>2, OthersSame DEF Same, TypeOK
  <2>1. CASE Commit(c)
    BY <2>0, <2>1 DEF Commit, TypeOK, Body
  <2>2. CASE SkipDuplicate(c)
    BY <2>0, <2>2 DEF SkipDuplicate, dbVars
  <2>3. CASE ~Commit(c) /\ ~SkipDuplicate(c)
    <3>1. pc'[c] \notin {"committed", "duplicate"} /\ UNCHANGED reports
      BY <1>2, <2>0, <2>3 DEF StepOf, Handle, Deliver, Reject, Begin, InsertReport,
                              Route, Execute, Answer, Lose, Return, dbVars
    <3>. QED
      BY <2>0, <3>1
  <2>. QED
    BY <2>1, <2>2, <2>3
<1>. QED
  BY <1>1, <1>2, NextByActor

(* A target that has no row is never given a state.                        *)
LEMMA NextUnstored ==
  ASSUME IInv, [Next]_vars
  PROVE  Unstored'
<1>. USE DEF IInv, Isolation, Unstored
<1>1. CASE Outside
  BY <1>1 DEF Outside, Send, Reset, Tick, vars, dbVars, TypeOK
<1>2. ASSUME NEW c \in Calls, StepOf(c) PROVE Unstored'
  <2>1. CASE Commit(c)
    BY <2>1 DEF Commit, TypeOK
  <2>2. CASE ~Commit(c)
    BY <1>2, <2>2 DEF StepOf, Handle, Deliver, Reject, Begin, InsertReport,
                      SkipDuplicate, Route, Execute, Answer, Lose, dbVars
  <2>. QED
    BY <2>1, <2>2
<1>. QED
  BY <1>1, <1>2, NextByActor

(* Every step keeps the transactions isolated: the waits for a key and for *)
(* a row are enough.                                                       *)
LEMMA NextIsolation == IInv /\ [Next]_vars => Isolation'
BY NextKeys, NextRows, NextFit, NextOnRecord, NextUnstored DEF Isolation

(* The invariant holds throughout.                                         *)
LEMMA Invariant == Spec => []IInv
<1>1. Init => IInv
  BY InitType, InitIsolation DEF IInv
<1>2. IInv /\ [Next]_vars => IInv'
  BY NextType, NextIsolation DEF IInv
<1>. QED
  BY <1>1, <1>2, PTL DEF Spec

-----------------------------------------------------------------------------
(***************************************************************************)
(* What a step does to the run state, seen from outside the transactions:  *)
(* it records one report and applies it, resets a target, or leaves        *)
(* reports and targets alone.                                              *)
(***************************************************************************)
FailedRow(m, until) ==
  [cooling  |-> until, failures |-> rt[m].failures + 1,
   requests |-> rt[m].requests, tokens |-> rt[m].tokens]

Cooled(m, b, until) ==
  /\ until \in Nat
  /\ rt[m].cooling <= until
  /\ until # rt[m].cooling =>
       /\ until <= clock + MaxLead
       /\ b.retry # Null \/ ReachesThreshold(rt[m].failures + 1)
  /\ ReachesThreshold(rt[m].failures + 1) => until # Null

Applies(b) ==
  \/ b.outcome \in Neutral /\ rt' = rt
  \/ b.outcome = "normal" /\ rt' = [rt EXCEPT ![b.model] = NormalUpsert(b.model, b)]
  \/ /\ b.outcome \in Failures
     /\ \E until : /\ Cooled(b.model, b, until)
                   /\ rt' = [rt EXCEPT ![b.model] = FailedRow(b.model, until)]

Records(r) ==
  /\ r \notin reports
  /\ sent[r] \in Bodies
  /\ reports' = reports \cup {r}
  /\ UNCHANGED <<clock, sent>>
  /\ Applies(sent[r])

Resets(m) ==
  /\ rt' = [rt EXCEPT ![m] = ResetRow(m)]
  /\ UNCHANGED <<clock, sent, reports>>

Keeps ==
  /\ UNCHANGED <<reports, rt>>
  /\ \/ \E r \in Reports, b \in Bodies : /\ sent[r] = NoBody
                                         /\ sent' = [sent EXCEPT ![r] = b]
                                         /\ clock' = clock
     \/ clock < MaxClock /\ clock' = clock + 1 /\ sent' = sent
     \/ UNCHANGED <<clock, sent>>

(* The upsert of a believed retry_after counts the failure and may push    *)
(* the end of the cooling forward, within the bound.                       *)
LEMMA ExplicitCools ==
  ASSUME IInv, NEW m \in Models, NEW b \in Bodies, NEW now \in Nat,
         Null < now, now <= clock, b.retry # Null,
         b.retry <= clock + MaxSkew + MaxResetHorizon
  PROVE  \E until : /\ Cooled(m, b, until)
                    /\ ExplicitUpsert(m, b, now) = FailedRow(m, until)
<1>. DEFINE until == IF m \in stored
                     THEN Greatest(Coalesce(rt[m].cooling, now), b.retry)
                     ELSE b.retry
<1>1. /\ clock \in Nat /\ rt[m].cooling \in Nat /\ b.retry \in Nat
      /\ m \notin stored => rt[m].cooling = 0
  BY BodiesAssumption DEF IInv, TypeOK, State, Isolation, Unstored, ZeroState, Null
<1>2. MaxLead \in Nat /\ MaxResetHorizon + MaxSkew <= MaxLead
  BY NumbersAssumption DEF MaxLead, Greatest
<1>3. b.retry <= clock + MaxLead /\ now <= clock + MaxLead
  BY <1>1, <1>2, NumbersAssumption
<1>4. Cooled(m, b, until)
  BY <1>1, <1>2, <1>3, NumbersAssumption DEF Cooled, Greatest, Coalesce, Null
<1>5. ExplicitUpsert(m, b, now) = FailedRow(m, until)
  BY DEF ExplicitUpsert, FailedRow
<1>. QED
  BY <1>4, <1>5

(* The upsert of any other failure counts it and starts a cooling at the   *)
(* threshold, within the bound.                                            *)
LEMMA HeuristicCools ==
  ASSUME IInv, NEW m \in Models, NEW b \in Bodies, NEW now \in Nat,
         Null < now, now <= clock
  PROVE  \E until : /\ Cooled(m, b, until)
                    /\ HeuristicUpsert(m, now) = FailedRow(m, until)
<1>. DEFINE until == IF ReachesThreshold(rt[m].failures + 1)
                     THEN Greatest(Coalesce(rt[m].cooling, now), now + Cooldown)
                     ELSE rt[m].cooling
<1>1. clock \in Nat /\ rt[m].cooling \in Nat
  BY DEF IInv, TypeOK, State
<1>2. MaxLead \in Nat /\ Cooldown \in Nat /\ Cooldown <= MaxLead
  BY NumbersAssumption DEF MaxLead, Greatest
<1>3. Cooled(m, b, until)
  BY <1>1, <1>2 DEF Cooled, Greatest, Coalesce, Null
<1>4. HeuristicUpsert(m, now) = FailedRow(m, until)
  BY DEF HeuristicUpsert, FailedRow
<1>. QED
  BY <1>3, <1>4

(* A commit records one report that was not on record and applies it to    *)
(* the row as it stands.                                                   *)
LEMMA CommitRecords ==
  ASSUME IInv, NEW c \in Calls, Commit(c)
  PROVE  Records(report[c])
<1>. DEFINE b == Body(c)
            m == Target(c)
<1>1. /\ report[c] \in Reports \ reports /\ b \in Bodies /\ m \in Models
      /\ b.outcome \in Outcomes /\ Null < began[c] /\ began[c] <= clock
      /\ began[c] \in Nat
      /\ m = b.model /\ b = sent[report[c]]
  BY BodiesAssumption
     DEF IInv, TypeOK, Isolation, KeysExclusive, TransactionsFit, Commit, Claims,
         InTransaction, Body, Target
<1>2. /\ (path[c] = "none") <=> (b.outcome \in Neutral)
      /\ (path[c] = "normal") <=> (b.outcome = "normal")
      /\ path[c] = "explicit" => /\ b.retry # Null
                                 /\ b.retry <= clock + MaxSkew + MaxResetHorizon
  BY DEF IInv, Isolation, TransactionsFit, Routed, Commit
<1>3. path[c] \in {"none", "normal", "explicit", "heuristic"}
  BY DEF IInv, TypeOK
<1>4. path[c] # "none" => row[c] = Upserted(c)
  BY DEF IInv, Isolation, RowsExclusive, HoldsRow, Commit
<1>5. /\ reports' = reports \cup {report[c]} /\ UNCHANGED <<clock, sent>>
      /\ path[c] = "none" => rt' = rt
      /\ path[c] # "none" => rt' = [rt EXCEPT ![m] = Upserted(c)]
  BY <1>4 DEF Commit
<1>6. Applies(b)
  <2>1. CASE path[c] = "none"
    BY <1>2, <1>5, <2>1 DEF Applies
  <2>2. CASE path[c] = "normal"
    BY <1>1, <1>2, <1>5, <2>2 DEF Applies, Upserted
  <2>3. CASE path[c] = "explicit"
    <3>1. b.outcome \in Failures
      BY <1>1, <1>2, <2>3 DEF Outcomes
    <3>2. rt' = [rt EXCEPT ![m] = ExplicitUpsert(m, b, began[c])]
      BY <1>5, <2>3 DEF Upserted
    <3>3. PICK until : /\ Cooled(m, b, until)
                       /\ ExplicitUpsert(m, b, began[c]) = FailedRow(m, until)
      BY <1>1, <1>2, <2>3, ExplicitCools
    <3>4. rt' = [rt EXCEPT ![m] = FailedRow(m, until)]
      BY <3>2, <3>3
    <3>. QED
      BY <1>1, <3>1, <3>3, <3>4 DEF Applies
  <2>4. CASE path[c] = "heuristic"
    <3>1. b.outcome \in Failures
      BY <1>1, <1>2, <2>4 DEF Outcomes
    <3>2. rt' = [rt EXCEPT ![m] = HeuristicUpsert(m, began[c])]
      BY <1>5, <2>4 DEF Upserted
    <3>3. PICK until : /\ Cooled(m, b, until)
                       /\ HeuristicUpsert(m, began[c]) = FailedRow(m, until)
      BY <1>1, HeuristicCools
    <3>4. rt' = [rt EXCEPT ![m] = FailedRow(m, until)]
      BY <3>2, <3>3
    <3>. QED
      BY <1>1, <3>1, <3>3, <3>4 DEF Applies
  <2>. QED
    BY <1>3, <2>1, <2>2, <2>3, <2>4
<1>. QED
  BY <1>1, <1>5, <1>6 DEF Records

(* What a step may do to the tables: record one report, reset one target,  *)
(* or nothing.                                                             *)
LEMMA StepShape ==
  ASSUME IInv, [Next]_vars
  PROVE  \/ \E r \in Reports : Records(r)
         \/ \E m \in Models : Resets(m)
         \/ Keeps
<1>1. ASSUME NEW c \in Calls, Commit(c) PROVE \E r \in Reports : Records(r)
  <2>1. report[c] \in Reports
    BY <1>1 DEF IInv, TypeOK, Commit
  <2>. QED
    BY <1>1, <2>1, CommitRecords
<1>2. ASSUME NEW m \in Models, Reset(m) PROVE Resets(m)
  BY <1>2 DEF Reset, Resets
<1>3. ASSUME NEW r \in Reports, NEW b \in Bodies, Send(r, b) PROVE Keeps
  BY <1>3 DEF Send, Keeps, dbVars
<1>4. ASSUME Tick PROVE Keeps
  BY <1>4 DEF Tick, Keeps, dbVars
<1>5. ASSUME NEW c \in Calls,
             \/ \E r \in Reports : Deliver(c, r)
             \/ Reject(c) \/ Begin(c) \/ InsertReport(c) \/ SkipDuplicate(c)
             \/ Route(c) \/ Execute(c) \/ Answer(c) \/ Lose(c)
      PROVE  Keeps
  BY <1>5 DEF Deliver, Reject, Begin, InsertReport, SkipDuplicate, Route, Execute,
              Answer, Lose, Keeps, dbVars
<1>6. ASSUME UNCHANGED vars PROVE Keeps
  BY <1>6 DEF vars, Keeps
<1>. QED
  BY <1>1, <1>2, <1>3, <1>4, <1>5, <1>6 DEF Next, Handle

-----------------------------------------------------------------------------
(***************************************************************************)
(* The request count.                                                      *)
(***************************************************************************)
Counted == IsFiniteSet(reports) /\ RequestsExact

(* Every step keeps the request counts exact.                              *)
LEMMA CountedNext == IInv /\ Counted /\ [Next]_vars => Counted'
<1>. SUFFICES ASSUME IInv, Counted, [Next]_vars PROVE Counted'
  OBVIOUS
<1>0. rt \in [Models -> State] /\ sent \in [Reports -> Bodies \cup {NoBody}]
      /\ reports \subseteq Reports
  BY DEF IInv, TypeOK
<1>1. ASSUME NEW r \in Reports, Records(r) PROVE Counted'
  <2>. DEFINE b == sent[r]
  <2>1. /\ r \notin reports /\ b \in Bodies /\ sent' = sent
        /\ reports' = reports \cup {r}
    BY <1>1 DEF Records
  <2>2. IsFiniteSet(reports')
    BY <2>1, FS_AddElement DEF Counted
  <2>3. ASSUME NEW m \in Models
        PROVE  rt'[m].requests = Cardinality(Successes(m)')
    <3>1. /\ IsFiniteSet(Successes(m)) /\ Cardinality(Successes(m)) \in Nat
          /\ rt[m].requests = Cardinality(Successes(m))
      <4>1. Successes(m) \subseteq reports
        BY DEF Successes
      <4>. QED
        BY <4>1, FS_Subset, FS_CardinalityType DEF Counted, RequestsExact
    <3>2. CASE b.model = m /\ b.outcome = "normal"
      <4>1. Successes(m)' = Successes(m) \cup {r} /\ r \notin Successes(m)
        BY <2>1, <3>2 DEF Successes
      <4>2. Cardinality(Successes(m)') = Cardinality(Successes(m)) + 1
        BY <3>1, <4>1, FS_AddElement
      <4>3. rt'[m].requests = rt[m].requests + 1
        BY <1>0, <1>1, <3>2 DEF Records, Applies, NormalUpsert, Neutral, Failures
      <4>. QED
        BY <3>1, <4>2, <4>3
    <3>3. CASE ~(b.model = m /\ b.outcome = "normal")
      <4>1. Successes(m)' = Successes(m)
        BY <2>1, <3>3 DEF Successes
      <4>2. rt'[m].requests = rt[m].requests
        <5>1. b.model \in Models
          BY <2>1, BodiesAssumption
        <5>2. CASE b.outcome \in Neutral
          BY <1>1, <5>2 DEF Records, Applies, Neutral, Failures
        <5>3. CASE b.outcome = "normal"
          BY <1>0, <1>1, <3>3, <5>1, <5>3 DEF Records, Applies, Neutral, Failures
        <5>4. ASSUME NEW until, rt' = [rt EXCEPT ![b.model] = FailedRow(b.model, until)]
              PROVE  rt'[m].requests = rt[m].requests
          BY <1>0, <5>1, <5>4 DEF FailedRow
        <5>. QED
          BY <1>1, <5>2, <5>3, <5>4 DEF Records, Applies
      <4>. QED
        BY <3>1, <4>1, <4>2
    <3>. QED
      BY <3>2, <3>3
  <2>. QED
    BY <2>2, <2>3 DEF Counted, RequestsExact
<1>2. ASSUME NEW m \in Models, Resets(m) PROVE Counted'
  <2>1. \A n \in Models : rt'[n].requests = rt[n].requests
    BY <1>0, <1>2 DEF Resets, ResetRow
  <2>2. reports' = reports /\ \A n \in Models : Successes(n)' = Successes(n)
    BY <1>2 DEF Resets, Successes
  <2>. QED
    BY <2>1, <2>2 DEF Counted, RequestsExact
<1>3. ASSUME Keeps PROVE Counted'
  <2>1. \A r \in reports : sent'[r] = sent[r]
    BY <1>0, <1>3, BodiesAssumption DEF Keeps, IInv, Isolation, OnRecord
  <2>2. reports' = reports /\ \A n \in Models : Successes(n)' = Successes(n)
    BY <1>3, <2>1 DEF Keeps, Successes
  <2>3. rt' = rt
    BY <1>3 DEF Keeps
  <2>. QED
    BY <2>2, <2>3 DEF Counted, RequestsExact
<1>. QED
  BY <1>1, <1>2, <1>3, StepShape

(* A target's request count is the number of its successful reports on     *)
(* record, whatever is lost, replayed, duplicated or run at the same time  *)
(* (ApplyReport's transaction, Reset).                                     *)
THEOREM RequestsAreExact == Spec => []RequestsExact
<1>1. Init => Counted
  BY FS_EmptySet DEF Init, Counted, RequestsExact, Successes, ZeroState
<1>2. IInv /\ Counted /\ [Next]_vars => Counted'
  BY CountedNext
<1>3. Counted => RequestsExact
  BY DEF Counted
<1>. QED
  BY <1>1, <1>2, <1>3, Invariant, PTL DEF Spec

-----------------------------------------------------------------------------
(***************************************************************************)
(* The tokens: sums over finite sets, and the sum a target's row keeps.    *)
(***************************************************************************)
(* Of the subsets of a finite set, a collection has one that contains no   *)
(* other: inclusion is well-founded on them.                               *)
LEMMA SmallestSubset ==
  ASSUME NEW S, IsFiniteSet(S), NEW X \in SUBSET (SUBSET S), X # {}
  PROVE  \E T \in X : \A U \in X : U \subseteq T => U = T
<1> DEFINE R == StrictSubsetOrdering(S)
           P == SUBSET S
<1>1. IsWellFoundedOn(R, P)
  <2>1. FiniteSubsetsOf(S) = P
    BY FS_FiniteSubsetsOfFinite
  <2>2. IsWellFoundedOn(StrictSubsetOrdering(S), FiniteSubsetsOf(S))
    BY FS_StrictSubsetOrderingWellFounded
  <2>. QED
    BY <2>1, <2>2
<1>2. PICK T \in X : \A U \in X : ~ (<<U, T>> \in R)
  <2> HIDE DEF R
  <2>. QED
    BY <1>1, WFMin
<1>3. ASSUME NEW U \in X, U \subseteq T, U # T PROVE FALSE
  <2> DEFINE p == <<U, T>>
  <2>1. p \in (SUBSET S) \X (SUBSET S) /\ p[1] \subseteq p[2] /\ p[1] # p[2]
    BY <1>3
  <2>2. p \in StrictSubsetOrdering(S)
    <3> HIDE DEF p
    <3>. QED
      BY <2>1 DEF StrictSubsetOrdering
  <2>. QED
    BY <1>2, <2>2
<1>. QED
  BY <1>3

(* g gives each subset of S the sum of f over it.                          *)
SumNext(g, f, T) ==
  IF T = {} THEN 0
  ELSE LET x == CHOOSE x \in T : TRUE IN f[x] + g[T \ {x}]

IsSum(g, f, S) ==
  /\ g \in [SUBSET S -> Int]
  /\ \A T \in SUBSET S : g[T] = SumNext(g, f, T)

(* What a sum is over a set that is not empty, any element taken out.      *)
LEMMA SumWithout ==
  ASSUME NEW S, IsFiniteSet(S), NEW f, \A x \in S : f[x] \in Int,
         NEW g, IsSum(g, f, S)
  PROVE  \A T \in SUBSET S : \A y \in T : g[T] = f[y] + g[T \ {y}]
<1> DEFINE Bad == {T \in SUBSET S : \E y \in T : g[T] # f[y] + g[T \ {y}]}
<1>. SUFFICES ASSUME Bad # {} PROVE FALSE
  OBVIOUS
<1>1. PICK T \in Bad : \A U \in Bad : U \subseteq T => U = T
  <2>1. Bad \in SUBSET (SUBSET S)
    OBVIOUS
  <2> HIDE DEF Bad
  <2>. QED
    BY <2>1, SmallestSubset
<1>2. PICK y \in T : g[T] # f[y] + g[T \ {y}]
  OBVIOUS
<1> DEFINE x == CHOOSE x \in T : TRUE
<1>3. x \in T /\ x \in S /\ y \in S
  OBVIOUS
<1>4. g[T] = f[x] + g[T \ {x}]
  BY DEF IsSum, SumNext
<1>5. x # y
  BY <1>2, <1>4
<1>6. /\ T \ {x} \in SUBSET S /\ T \ {y} \in SUBSET S
      /\ T \ {x} # T /\ T \ {y} # T /\ y \in T \ {x} /\ x \in T \ {y}
  BY <1>3, <1>5
<1> HIDE DEF x
<1>7. g[T \ {x}] = f[y] + g[(T \ {x}) \ {y}] /\ g[T \ {y}] = f[x] + g[(T \ {y}) \ {x}]
  BY <1>1, <1>6
<1>8. (T \ {x}) \ {y} = (T \ {y}) \ {x}
  OBVIOUS
<1>9. (T \ {x}) \ {y} \in SUBSET S
  OBVIOUS
<1> DEFINE rest == g[(T \ {x}) \ {y}]
<1>10. rest \in Int /\ f[x] \in Int /\ f[y] \in Int
  BY <1>3, <1>9 DEF IsSum
<1>11. g[T] = f[x] + (f[y] + rest) /\ g[T \ {y}] = f[x] + rest
  BY <1>4, <1>7, <1>8
<1> HIDE DEF rest
<1>12. g[T] = f[y] + g[T \ {y}]
  BY <1>10, <1>11
<1>. QED
  BY <1>2, <1>12

(* The sum over a set depends on the values on that set alone.             *)
LEMMA SumSame ==
  ASSUME NEW S, IsFiniteSet(S), NEW f, NEW g, IsSum(g, f, S),
         NEW U, NEW e, NEW h, IsSum(h, e, U), S \subseteq U,
         \A x \in S : f[x] = e[x]
  PROVE  g[S] = h[S]
<1> DEFINE Bad == {T \in SUBSET S : g[T] # h[T]}
<1>1. ASSUME Bad # {} PROVE FALSE
  <2>1. PICK T \in Bad : \A V \in Bad : V \subseteq T => V = T
    <3>1. Bad \in SUBSET (SUBSET S)
      OBVIOUS
    <3> HIDE DEF Bad
    <3>. QED
      BY <1>1, <3>1, SmallestSubset
  <2>2. g[T] = SumNext(g, f, T) /\ h[T] = SumNext(h, e, T)
    BY DEF IsSum
  <2>3. T # {}
    BY <2>2 DEF SumNext
  <2> DEFINE x == CHOOSE x \in T : TRUE
  <2>4. x \in T
    BY <2>3
  <2>5. T \ {x} \notin Bad
    BY <2>1, <2>4
  <2>6. g[T \ {x}] = h[T \ {x}]
    BY <2>5
  <2>. QED
    BY <2>2, <2>3, <2>4, <2>6 DEF SumNext
<1>. QED
  BY <1>1

(* Every finite set has its sums, those of its subsets included: a         *)
(* smallest set without them has subsets that do have them.                *)
LEMMA SumExists ==
  ASSUME NEW S, IsFiniteSet(S), NEW f, \A x \in S : f[x] \in Int
  PROVE  \E g : IsSum(g, f, S)
<1> DEFINE Bad == {T \in SUBSET S : ~ \E g : IsSum(g, f, T)}
<1>. SUFFICES ASSUME Bad # {} PROVE FALSE
  OBVIOUS
<1>1. PICK T \in Bad : \A U \in Bad : U \subseteq T => U = T
  <2>1. Bad \in SUBSET (SUBSET S)
    OBVIOUS
  <2> HIDE DEF Bad
  <2>. QED
    BY <2>1, SmallestSubset
<1> DEFINE Sum(V) == CHOOSE h : IsSum(h, f, V)
           g == [U \in SUBSET T |->
                   IF U = {} THEN 0
                   ELSE LET x == CHOOSE x \in U : TRUE
                        IN  f[x] + Sum(U \ {x})[U \ {x}]]
<1>2. ASSUME NEW V \in SUBSET T, V # T PROVE IsSum(Sum(V), f, V)
  <2>1. V \notin Bad /\ V \in SUBSET S
    BY <1>1, <1>2
  <2>. QED
    BY <2>1
<1>3. ASSUME NEW U \in SUBSET T, U # {}
      PROVE  LET x == CHOOSE x \in U : TRUE
             IN  /\ x \in U /\ f[x] \in Int
                 /\ U \ {x} \in SUBSET T /\ U \ {x} # T
  BY <1>3
<1> HIDE DEF Sum
<1>4. g \in [SUBSET T -> Int]
  <2>1. ASSUME NEW U \in SUBSET T, U # {}
        PROVE  LET x == CHOOSE x \in U : TRUE
               IN  f[x] + Sum(U \ {x})[U \ {x}] \in Int
    <3> DEFINE x == CHOOSE x \in U : TRUE
    <3>1. f[x] \in Int /\ IsSum(Sum(U \ {x}), f, U \ {x})
      BY <1>2, <1>3, <2>1
    <3>2. Sum(U \ {x})[U \ {x}] \in Int
      BY <3>1 DEF IsSum
    <3>. QED
      BY <3>1, <3>2
  <2>. QED
    BY <2>1
<1>5. ASSUME NEW V \in SUBSET T, V # T PROVE g[V] = Sum(V)[V]
  <2>0. IsSum(Sum(V), f, V)
    BY <1>2, <1>5
  <2>1. CASE V = {}
    BY <2>0, <2>1 DEF IsSum, SumNext
  <2>2. CASE V # {}
    <3> DEFINE x == CHOOSE x \in V : TRUE
               W == V \ {x}
    <3>1. W \in SUBSET T /\ W # T /\ W \subseteq V /\ W \in SUBSET S
      BY <1>3, <2>2
    <3>2. IsSum(Sum(W), f, W)
      BY <1>2, <3>1
    <3>3. Sum(W)[W] = Sum(V)[W]
      <4>1. IsFiniteSet(W) /\ \A y \in W : f[y] = f[y]
        BY <3>1, FS_Subset
      <4> HIDE DEF W
      <4>. QED
        BY <2>0, <3>1, <3>2, <4>1, SumSame
    <3>4. Sum(V)[V] = f[x] + Sum(V)[W]
      BY <2>0, <2>2 DEF IsSum, SumNext
    <3>5. g[V] = f[x] + Sum(W)[W]
      BY <2>2
    <3>. QED
      BY <3>3, <3>4, <3>5
  <2>. QED
    BY <2>1, <2>2
<1>6. ASSUME NEW U \in SUBSET T PROVE g[U] = SumNext(g, f, U)
  <2>1. CASE U = {}
    BY <2>1 DEF SumNext
  <2>2. CASE U # {}
    <3> DEFINE x == CHOOSE x \in U : TRUE
    <3>1. g[U \ {x}] = Sum(U \ {x})[U \ {x}]
      <4>1. U \ {x} \in SUBSET T /\ U \ {x} # T
        BY <1>3, <2>2
      <4> HIDE DEF g
      <4>. QED
        BY <1>5, <4>1
    <3>2. g[U] = f[x] + Sum(U \ {x})[U \ {x}]
      BY <2>2
    <3> HIDE DEF g
    <3>. QED
      BY <2>2, <3>1, <3>2 DEF SumNext
  <2>. QED
    BY <2>1, <2>2
<1>7. IsSum(g, f, T)
  <2> HIDE DEF g
  <2>. QED
    BY <1>4, <1>6 DEF IsSum
<1>. QED
  BY <1>1, <1>7

(* The function that Functions!SumFunctionOnSet chooses is such a sum.     *)
LEMMA SumDefined ==
  ASSUME NEW S, IsFiniteSet(S), NEW f, \A x \in S : f[x] \in Int
  PROVE  \E g : IsSum(g, f, S) /\ SumFunctionOnSet(f, S) = g[S]
<1>1. PICK g : IsSum(g, f, S)
  BY SumExists
<1> DEFINE d == CHOOSE d : d = [T \in SUBSET S |-> SumNext(d, f, T)]
<1>2. g = [T \in SUBSET S |-> SumNext(g, f, T)]
  <2>1. g = [T \in SUBSET S |-> g[T]] /\ \A T \in SUBSET S : g[T] = SumNext(g, f, T)
    BY <1>1 DEF IsSum
  <2>. QED
    BY <2>1
<1>3. d = [T \in SUBSET S |-> SumNext(d, f, T)]
  BY <1>2
<1>4. IsSum(d, f, S)
  <2>1. \A T \in SUBSET S : d[T] = SumNext(d, f, T)
    <3> HIDE DEF d
    <3>. QED
      BY <1>3
  <2>2. ASSUME NEW T \in SUBSET S, g[T] # d[T] PROVE FALSE
    <3> DEFINE Bad == {V \in SUBSET S : g[V] # d[V]}
    <3>1. Bad \in SUBSET (SUBSET S) /\ Bad # {}
      BY <2>2
    <3>2. PICK W \in Bad : \A V \in Bad : V \subseteq W => V = W
      <4> HIDE DEF Bad
      <4>. QED
        BY <3>1, SmallestSubset
    <3>3. g[W] = SumNext(g, f, W) /\ d[W] = SumNext(d, f, W)
      BY <1>1, <2>1 DEF IsSum
    <3> HIDE DEF d
    <3>4. W # {}
      BY <3>3 DEF SumNext
    <3> DEFINE x == CHOOSE x \in W : TRUE
    <3>5. x \in W
      BY <3>4
    <3>6. g[W \ {x}] = d[W \ {x}]
      BY <3>2, <3>5
    <3>. QED
      BY <3>3, <3>4, <3>6 DEF SumNext
  <2>3. d \in [SUBSET S -> Int]
    <3>1. d = [T \in SUBSET S |-> d[T]]
      BY <1>3
    <3>2. \A T \in SUBSET S : d[T] \in Int
      BY <1>1, <2>2 DEF IsSum
    <3> HIDE DEF d
    <3>. QED
      BY <3>1, <3>2
  <2>. QED
    BY <2>1, <2>3 DEF IsSum
<1>5. SumFunctionOnSet(f, S) = d[S]
  BY DEF SumFunctionOnSet, FoldFunctionOnSet, MapThenFoldSet, SumNext
<1>. QED
  BY <1>4, <1>5

(* The sum over no element is nothing.                                     *)
LEMMA SumEmpty == ASSUME NEW f PROVE SumFunctionOnSet(f, {}) = 0
<1>1. PICK g : IsSum(g, f, {}) /\ SumFunctionOnSet(f, {}) = g[{}]
  BY FS_EmptySet, SumDefined
<1>. QED
  BY <1>1 DEF IsSum, SumNext

(* The sum is a number, and grows by what one more element is worth.       *)
LEMMA SumAdd ==
  ASSUME NEW S, IsFiniteSet(S), NEW y, y \notin S,
         NEW f, \A x \in S : f[x] \in Int,
         NEW e, \A x \in S \cup {y} : e[x] \in Int, \A x \in S : e[x] = f[x]
  PROVE  /\ SumFunctionOnSet(f, S) \in Int
         /\ SumFunctionOnSet(e, S \cup {y}) = SumFunctionOnSet(f, S) + e[y]
<1> DEFINE U == S \cup {y}
<1>1. IsFiniteSet(U) /\ \A x \in U : e[x] \in Int
  BY FS_AddElement
<1>2. PICK g : IsSum(g, f, S) /\ SumFunctionOnSet(f, S) = g[S]
  BY SumDefined
<1>3. PICK h : IsSum(h, e, U) /\ SumFunctionOnSet(e, U) = h[U]
  <2> HIDE DEF U
  <2>. QED
    BY <1>1, SumDefined
<1>4. h[U] = e[y] + h[U \ {y}]
  <2>1. U \in SUBSET U /\ y \in U
    OBVIOUS
  <2> HIDE DEF U
  <2>. QED
    BY <1>1, <1>3, <2>1, SumWithout
<1>5. U \ {y} = S
  OBVIOUS
<1>6. g[S] = h[S]
  <2>1. S \subseteq U
    OBVIOUS
  <2> HIDE DEF U
  <2>. QED
    BY <1>2, <1>3, <2>1, SumSame
<1>7. g[S] \in Int /\ e[y] \in Int
  BY <1>2 DEF IsSum
<1>8. h[U] = g[S] + e[y]
  <2>1. h[U] = e[y] + g[S]
    BY <1>4, <1>5, <1>6
  <2> HIDE DEF U
  <2>. QED
    BY <1>7, <2>1
<1>. QED
  BY <1>2, <1>3, <1>7, <1>8


(* The tokens a target's successful reports said it used.                  *)
Usage(m) == [r \in Successes(m) |-> sent[r].tokens]

(* One success more adds its tokens to its target, and to no other.        *)
LEMMA TokensNext == IInv /\ Counted /\ TokensExact /\ [Next]_vars => TokensExact'
<1>. SUFFICES ASSUME IInv, Counted, TokensExact, [Next]_vars PROVE TokensExact'
  OBVIOUS
<1>0. /\ rt \in [Models -> State] /\ sent \in [Reports -> Bodies \cup {NoBody}]
      /\ reports \subseteq Reports
      /\ \A r \in reports : sent[r] \in Bodies /\ sent[r].tokens \in Nat
      /\ \A m \in Models : rt[m].tokens = SumFunctionOnSet(Usage(m), Successes(m))
  BY BodiesAssumption
     DEF IInv, TypeOK, Isolation, OnRecord, TokensExact, SumFunction, Usage
<1>1. ASSUME NEW r \in Reports, Records(r),
             NEW m \in Models
      PROVE  rt'[m].tokens = SumFunctionOnSet(Usage(m)', Successes(m)')
  <2>. DEFINE b == sent[r]
  <2>1. /\ r \notin reports /\ b \in Bodies /\ sent' = sent
        /\ reports' = reports \cup {r}
    BY <1>1 DEF Records
  <2>2. CASE b.model = m /\ b.outcome = "normal"
    <3>1. Successes(m)' = Successes(m) \cup {r} /\ r \notin Successes(m)
      BY <2>1, <2>2 DEF Successes
    <3>2. IsFiniteSet(Successes(m))
      <4>1. Successes(m) \subseteq reports
        BY DEF Successes
      <4>. QED
        BY <4>1, FS_Subset DEF Counted
    <3>3. b.tokens \in Nat
      BY <2>1, BodiesAssumption
    <3>4. /\ \A x \in Successes(m) : Usage(m)[x] \in Int /\ Usage(m)'[x] = Usage(m)[x]
          /\ \A x \in Successes(m) \cup {r} : Usage(m)'[x] \in Int
          /\ Usage(m)'[r] = b.tokens
      BY <1>0, <2>1, <3>1, <3>3 DEF Usage, Successes
    <3>5. /\ SumFunctionOnSet(Usage(m), Successes(m)) \in Int
          /\ SumFunctionOnSet(Usage(m)', Successes(m) \cup {r})
               = SumFunctionOnSet(Usage(m), Successes(m)) + Usage(m)'[r]
      BY <3>1, <3>2, <3>4, SumAdd
    <3>6. rt'[m].tokens = rt[m].tokens + b.tokens
      BY <1>0, <1>1, <2>2 DEF Records, Applies, NormalUpsert, Neutral, Failures
    <3>. QED
      BY <1>0, <3>1, <3>4, <3>5, <3>6
  <2>3. CASE ~(b.model = m /\ b.outcome = "normal")
    <3>1. Successes(m)' = Successes(m) /\ Usage(m)' = Usage(m)
      BY <2>1, <2>3 DEF Successes, Usage
    <3>2. rt'[m].tokens = rt[m].tokens
      <4>1. b.model \in Models
        BY <2>1, BodiesAssumption
      <4>2. CASE b.outcome \in Neutral
        BY <1>1, <4>2 DEF Records, Applies, Neutral, Failures
      <4>3. CASE b.outcome = "normal"
        BY <1>0, <1>1, <2>3, <4>1, <4>3 DEF Records, Applies, Neutral, Failures
      <4>4. ASSUME NEW until, rt' = [rt EXCEPT ![b.model] = FailedRow(b.model, until)]
            PROVE  rt'[m].tokens = rt[m].tokens
        BY <1>0, <4>1, <4>4 DEF FailedRow
      <4>. QED
        BY <1>1, <4>2, <4>3, <4>4 DEF Records, Applies
    <3>. QED
      BY <1>0, <3>1, <3>2
  <2>. QED
    BY <2>2, <2>3
<1>2. ASSUME (\E n \in Models : Resets(n)) \/ Keeps,
             NEW m \in Models
      PROVE  rt'[m].tokens = SumFunctionOnSet(Usage(m)', Successes(m)')
  <2>1. rt'[m].tokens = rt[m].tokens
    BY <1>0, <1>2 DEF Resets, ResetRow, Keeps
  <2>2. /\ reports' = reports
        /\ \A r \in reports : sent'[r] = sent[r]
    BY <1>0, <1>2, BodiesAssumption DEF Resets, Keeps
  <2>3. Successes(m)' = Successes(m) /\ Usage(m)' = Usage(m)
    BY <2>2 DEF Successes, Usage
  <2>. QED
    BY <1>0, <2>1, <2>3
<1>3. \A m \in Models : rt'[m].tokens = SumFunctionOnSet(Usage(m)', Successes(m)')
  BY <1>1, <1>2, StepShape
<1>. QED
  BY <1>3 DEF TokensExact, SumFunction, Usage

(* A target's token count is the sum of the tokens its successful reports  *)
(* said: none is lost to another handler's upsert, to a rollback or to a   *)
(* reset, and none is added twice (applyNormal's upsert, Reset).           *)
THEOREM TokensAreExact == Spec => []TokensExact
<1>1. Init => Counted /\ TokensExact
  <2>. SUFFICES ASSUME Init PROVE Counted /\ TokensExact
    OBVIOUS
  <2>1. Counted
    BY FS_EmptySet DEF Init, Counted, RequestsExact, Successes, ZeroState
  <2>2. ASSUME NEW m \in Models PROVE SumFunction(Usage(m)) = 0
    <3>1. DOMAIN Usage(m) = {}
      BY DEF Init, Usage, Successes
    <3>. QED
      BY <3>1, SumEmpty DEF SumFunction
  <2>. QED
    BY <2>1, <2>2 DEF Init, TokensExact, Usage, ZeroState
<1>2. IInv /\ Counted /\ TokensExact /\ [Next]_vars => Counted' /\ TokensExact'
  BY CountedNext, TokensNext
<1>. QED
  BY <1>1, <1>2, Invariant, PTL DEF Spec

-----------------------------------------------------------------------------
(***************************************************************************)
(* Cooling.                                                                *)
(***************************************************************************)
(* What a step does to one target.                                         *)
LEMMA TargetStep ==
  ASSUME IInv, [Next]_vars, NEW m \in Models
  PROVE  \/ rt'[m] = rt[m]
         \/ rt'[m].cooling = Null /\ rt'[m].failures = 0
         \/ \E r \in Reports : \E until :
              /\ Records(r) /\ sent[r].model = m /\ sent[r].outcome \in Failures
              /\ Cooled(m, sent[r], until) /\ rt'[m] = FailedRow(m, until)
<1>0. rt \in [Models -> State]
  BY DEF IInv, TypeOK
<1>1. ASSUME NEW r \in Reports, Records(r)
      PROVE  \/ rt'[m] = rt[m]
             \/ rt'[m].cooling = Null /\ rt'[m].failures = 0
             \/ \E until :
                  /\ sent[r].model = m /\ sent[r].outcome \in Failures
                  /\ Cooled(m, sent[r], until) /\ rt'[m] = FailedRow(m, until)
  BY <1>0, <1>1 DEF Records, Applies, NormalUpsert
<1>2. ASSUME NEW n \in Models, Resets(n)
      PROVE  \/ rt'[m] = rt[m]
             \/ rt'[m].cooling = Null /\ rt'[m].failures = 0
  BY <1>0, <1>2 DEF Resets, ResetRow
<1>3. Keeps => rt'[m] = rt[m]
  BY DEF Keeps
<1>. QED
  BY <1>1, <1>2, <1>3, StepShape

(* Every step keeps the coolings justified.                                *)
LEMMA JustifiedNext == IInv /\ CoolingJustified /\ [Next]_vars => CoolingJustified'
<1>. SUFFICES ASSUME IInv, CoolingJustified, [Next]_vars, NEW m \in Models
              PROVE  (/\ rt[m].cooling # Null =>
                           /\ rt[m].failures > 0
                           /\ \/ ReachesThreshold(rt[m].failures)
                              \/ \E r \in reports :
                                    /\ sent[r].model = m
                                    /\ sent[r].outcome \in Failures
                                    /\ sent[r].retry # Null
                      /\ ReachesThreshold(rt[m].failures) => rt[m].cooling # Null)'
  BY DEF CoolingJustified
<1>0. /\ rt \in [Models -> State] /\ sent \in [Reports -> Bodies \cup {NoBody}]
      /\ reports \subseteq Reports
      /\ rt[m].failures \in Nat /\ rt[m].cooling \in Nat
  BY DEF IInv, TypeOK, State
<1>1. \A n \in Nat : ReachesThreshold(n) => ReachesThreshold(n + 1)
  BY NumbersAssumption DEF ReachesThreshold
<1>2. ~ReachesThreshold(0)
  BY NumbersAssumption DEF ReachesThreshold
<1>3. \A r \in reports : sent'[r] = sent[r] /\ r \in reports'
  BY <1>0, StepShape, BodiesAssumption
     DEF Records, Resets, Keeps, IInv, Isolation, OnRecord
<1>4. CASE rt'[m] = rt[m]
  BY <1>3, <1>4 DEF CoolingJustified
<1>5. CASE rt'[m].cooling = Null /\ rt'[m].failures = 0
  BY <1>2, <1>5
<1>6. ASSUME NEW r \in Reports, Records(r), sent[r].model = m,
             sent[r].outcome \in Failures,
             NEW until, Cooled(m, sent[r], until), rt'[m] = FailedRow(m, until)
      PROVE  (/\ rt[m].cooling # Null =>
                   /\ rt[m].failures > 0
                   /\ \/ ReachesThreshold(rt[m].failures)
                      \/ \E q \in reports : /\ sent[q].model = m
                                           /\ sent[q].outcome \in Failures
                                           /\ sent[q].retry # Null
              /\ ReachesThreshold(rt[m].failures) => rt[m].cooling # Null)'
  <2>1. rt'[m].failures = rt[m].failures + 1 /\ rt'[m].cooling = until
    BY <1>6 DEF FailedRow
  <2>2. r \in reports' /\ sent'[r] = sent[r]
    BY <1>6 DEF Records
  <2>3. CASE until = rt[m].cooling
    BY <1>0, <1>1, <1>3, <1>6, <2>1, <2>3 DEF CoolingJustified, Cooled
  <2>4. CASE until # rt[m].cooling
    BY <1>0, <1>6, <2>1, <2>2, <2>4 DEF Cooled
  <2>. QED
    BY <2>3, <2>4
<1>. QED
  BY <1>4, <1>5, <1>6, TargetStep

(* A target cools exactly when failures on record justify it               *)
(* (applyExplicitReset, applyHeuristicCooldown, Reset).                    *)
THEOREM CoolingIsJustified == Spec => []CoolingJustified
<1>1. Init => CoolingJustified
  BY NumbersAssumption DEF Init, CoolingJustified, ZeroState, ReachesThreshold
<1>. QED
  BY <1>1, JustifiedNext, Invariant, PTL DEF Spec

(* Every step keeps the ends of coolings within the bound.                 *)
LEMMA BoundedNext == IInv /\ CoolingBounded /\ [Next]_vars => CoolingBounded'
<1>. SUFFICES ASSUME IInv, CoolingBounded, [Next]_vars, NEW m \in Models
              PROVE  rt'[m].cooling <= clock' + MaxLead
  BY DEF CoolingBounded
<1>1. /\ clock \in Nat /\ clock' \in Nat /\ clock <= clock'
      /\ rt[m].cooling \in Nat /\ MaxLead \in Nat
  <2>1. MaxLead \in Nat
    BY NumbersAssumption DEF MaxLead, Greatest
  <2>2. clock \in Nat /\ rt[m].cooling \in Nat
    BY DEF IInv, TypeOK, State
  <2>3. clock' = clock \/ clock' = clock + 1
    BY StepShape DEF Records, Resets, Keeps
  <2>. QED
    BY <2>1, <2>2, <2>3
<1>2. rt[m].cooling <= clock + MaxLead
  BY DEF CoolingBounded
<1>3. ASSUME NEW r \in Reports, NEW until,
             Cooled(m, sent[r], until), rt'[m] = FailedRow(m, until)
      PROVE  rt'[m].cooling <= clock' + MaxLead
  BY <1>1, <1>2, <1>3 DEF Cooled, FailedRow
<1>. QED
  BY <1>1, <1>2, <1>3, TargetStep DEF Null

(* No target is locked out for longer than the horizon and the clocks'     *)
(* skew, or the cooldown, allow (trustworthyReset).                        *)
THEOREM CoolingIsBounded == Spec => []CoolingBounded
<1>1. Init => CoolingBounded
  <2>1. MaxLead \in Nat
    BY NumbersAssumption DEF MaxLead, Greatest
  <2>. QED
    BY <2>1 DEF Init, CoolingBounded, ZeroState, Null
<1>. QED
  BY <1>1, BoundedNext, Invariant, PTL DEF Spec

(* A cooling's end moves back only in a step that clears the failures      *)
(* (the GREATEST of both failure upserts).                                 *)
THEOREM CoolingMovesForward == Spec => CoolingForward
<1>1. IInv /\ [Next]_vars
        => [\A m \in Models : \/ rt'[m].cooling >= rt[m].cooling
                             \/ rt'[m].failures = 0]_vars
  <2>. SUFFICES ASSUME IInv, [Next]_vars, NEW m \in Models
                PROVE  rt'[m].cooling >= rt[m].cooling \/ rt'[m].failures = 0
    OBVIOUS
  <2>1. rt[m].cooling \in Nat
    BY DEF IInv, TypeOK, State
  <2>2. CASE rt'[m] = rt[m]
    BY <2>1, <2>2
  <2>3. ASSUME NEW r \in Reports, NEW until,
               Cooled(m, sent[r], until), rt'[m] = FailedRow(m, until)
        PROVE  rt'[m].cooling >= rt[m].cooling
    BY <2>1, <2>3 DEF Cooled, FailedRow
  <2>. QED
    BY <2>2, <2>3, TargetStep
<1>. QED
  BY <1>1, Invariant, PTL DEF Spec, CoolingForward

-----------------------------------------------------------------------------
(* Every step keeps the answers true.                                      *)
LEMMA AnswersNext == IInv /\ AnswersTrue /\ [Next]_vars => AnswersTrue'
<1>. SUFFICES ASSUME IInv, AnswersTrue, [Next]_vars PROVE AnswersTrue'
  OBVIOUS
<1>0. answers \in [Reports -> SUBSET {"applied", "duplicate", "invalid"}]
  BY DEF IInv, TypeOK
<1>1. reports \subseteq reports'
  BY StepShape DEF Records, Resets, Keeps
<1>2. ASSUME NEW c \in Calls, Answer(c) PROVE AnswersTrue'
  <2>1. report[c] \in Reports /\ report[c] \in reports
    BY <1>2 DEF IInv, TypeOK, Isolation, OnRecord, Answer
  <2>. QED
    BY <1>0, <1>1, <1>2, <2>1 DEF Answer, AnswersTrue
<1>3. ASSUME NEW c \in Calls, Reject(c) PROVE AnswersTrue'
  <2>1. report[c] \in Reports
    BY <1>3 DEF IInv, TypeOK, Reject
  <2>2. \A r \in Reports : answers'[r] \cap {"applied", "duplicate"}
                          = answers[r] \cap {"applied", "duplicate"}
    BY <1>0, <1>3, <2>1 DEF Reject
  <2>. QED
    BY <1>1, <2>2 DEF AnswersTrue
<1>4. CASE answers' = answers
  BY <1>1, <1>4 DEF AnswersTrue
<1>. QED
  BY <1>2, <1>3, <1>4
     DEF Next, Handle, Send, Deliver, Begin, InsertReport, SkipDuplicate, Route,
         Execute, Commit, Lose, Reset, Tick, vars

(* What the data plane is told was applied, or had been, is on record: it  *)
(* may forget the report (ApplyReport commits before it returns).          *)
THEOREM AnswersAreTrue == Spec => []AnswersTrue
<1>1. Init => AnswersTrue
  BY DEF Init, AnswersTrue
<1>. QED
  BY <1>1, AnswersNext, Invariant, PTL DEF Spec

-----------------------------------------------------------------------------
(***************************************************************************)
(* Refinement.                                                             *)
(***************************************************************************)
LEMMA RecordsIsApply ==
  ASSUME IInv, NEW r \in Reports, Records(r)
  PROVE  Ledger!Apply(r)
<1>. DEFINE b == sent[r]
<1>1. /\ b \in Bodies /\ b # NoBody /\ r \notin reports
      /\ reports' = reports \cup {r} /\ UNCHANGED <<clock, sent>>
      /\ b.model \in Models
  BY BodiesAssumption DEF Records
<1>2. clock \in Nat /\ MaxLead \in Nat /\ rt[b.model].cooling \in Nat
      /\ rt[b.model].failures \in Nat
  BY <1>1, NumbersAssumption DEF IInv, TypeOK, State, MaxLead, Greatest
<1>3. Ledger!ApplyNeutral(r) \/ Ledger!ApplyNormal(r) \/ Ledger!ApplyFailure(r)
  <2>1. CASE b.outcome \in Neutral /\ rt' = rt
    BY <2>1 DEF Ledger!ApplyNeutral, Ledger!Neutral, Neutral
  <2>2. CASE b.outcome = "normal" /\ rt' = [rt EXCEPT ![b.model] = NormalUpsert(b.model, b)]
    BY <2>2 DEF Ledger!ApplyNormal, Ledger!Null, Null, NormalUpsert
  <2>3. ASSUME b.outcome \in Failures, NEW until, Cooled(b.model, b, until),
               rt' = [rt EXCEPT ![b.model] = FailedRow(b.model, until)]
        PROVE  Ledger!ApplyFailure(r)
    <3>1. until \in (0 .. clock + MaxLead) \cup {rt[b.model].cooling}
      BY <1>2, <2>3 DEF Cooled
    <3>2. Ledger!MayCool(rt[b.model].cooling, until, b, rt[b.model].failures + 1)
      BY <1>2, <2>3
         DEF Cooled, Ledger!MayCool, Ledger!Reached, ReachesThreshold, Ledger!Null, Null
    <3>. QED
      BY <2>3, <3>1, <3>2 DEF Ledger!ApplyFailure, Ledger!Failures, Failures, FailedRow
  <2>. QED
    BY <2>1, <2>2, <2>3 DEF Records, Applies
<1>. QED
  BY <1>1, <1>3 DEF Ledger!Apply

(* Run by any number of handlers, with any calls lost, the transactions    *)
(* implement the ledger in which every report is applied in one step and   *)
(* at most once.                                                           *)
THEOREM RunStateImplementsLedger == Spec => Implements
<1>1. Init => Ledger!Init
  BY DEF Init, Ledger!Init, Ledger!Fresh, ZeroState, Ledger!Null, Null
<1>2. IInv /\ [Next]_vars => [Ledger!Next]_(Ledger!vars)
  <2>. SUFFICES ASSUME IInv, [Next]_vars PROVE [Ledger!Next]_(Ledger!vars)
    OBVIOUS
  <2>1. ASSUME NEW r \in Reports, Records(r) PROVE Ledger!Next
    BY <2>1, RecordsIsApply DEF Ledger!Next
  <2>2. ASSUME NEW m \in Models, Resets(m) PROVE Ledger!Next
    BY <2>2 DEF Resets, ResetRow, Ledger!Next, Ledger!Reset, Ledger!Null, Null
  <2>3. ASSUME Keeps PROVE [Ledger!Next]_(Ledger!vars)
    BY <2>3 DEF Keeps, Ledger!Next, Ledger!Send, Ledger!Tick, Ledger!vars
  <2>. QED
    BY <2>1, <2>2, <2>3, StepShape
<1>. QED
  BY <1>1, <1>2, Invariant, PTL DEF Spec, Implements, Ledger!Spec

=============================================================================
