--------------------------- MODULE UserModelsProofs ---------------------------
(***************************************************************************)
(* Proofs about UserModels, for any number of operators, calls, rows,      *)
(* writes and faults.                                                      *)
(***************************************************************************)
EXTENDS UserModels, TLAPS

(* The steps that commit a write of the row, to v.                         *)
RowStep(v) ==
  \/ v \in Rows /\ Create(v)
  \/ v \in Rows /\ \E a \in Admins : Update(a, v)
  \/ v = Absent /\ \E a \in Admins : Delete(a)

(* The steps of collections, and of invalidations.                         *)
CollectionStep == \E k \in Collections : CreateCollection(k) \/ DeleteCollection(k)

SettleStep == \E a \in Admins : Invalidate(a) \/ LoseInvalidation(a)

CallStep(c) == Call(c) \/ Advance(c)

(* Every step is of one of these kinds.                                    *)
LEMMA StepKinds ==
  ASSUME Next
  PROVE  \/ \E v \in Rows \cup {Absent} : RowStep(v)
         \/ CollectionStep \/ SettleStep \/ Expire
         \/ \E c \in Callers : CallStep(c)
BY DEF Next, Operate, RowStep, CollectionStep, SettleStep, CallStep

(* Every step that writes the row does what Write does, and only an        *)
(* operator that was idle is left to invalidate.                           *)
LEMMA RowSteps ==
  ASSUME TypeOK, NEW v \in Rows \cup {Absent}, RowStep(v)
  PROVE  /\ Write(v)
         /\ UNCHANGED collections
         /\ v # Absent => v.collection \in collections
         /\ \/ row = Absent /\ UNCHANGED ops
            \/ \E a \in Admins : admin[a] = "idle" /\ Owe(a)
BY ConstantsAssumption DEF RowStep, Create, Update, Delete, RowType

(* The rows, the copy, the operators and the calls start well typed.       *)
LEMMA InitType == Init => TypeOK
<1>. SUFFICES ASSUME Init PROVE TypeOK
  OBVIOUS
<1>1. row # Absent => row.collection \in collections
  BY ConstantsAssumption DEF Init, RowType
<1>2. /\ collections \subseteq Collections
      /\ row \in Rows \cup {Absent}
      /\ entry \in Rows \cup {NoEntry}
      /\ writes \in Nat /\ faults \in Nat /\ tainted \in BOOLEAN
  BY DEF Init
<1>3. /\ admin \in [Admins -> {"idle", "written"}]
      /\ replaced \in [Admins -> Rows \cup {Absent}]
  BY DEF Init
<1>4. /\ caller \in [Callers -> {"idle", "called", "missed", "loaded", "read", "answered"}]
      /\ got \in [Callers -> Rows \cup {Absent}]
      /\ \A c \in Callers : caller[c] = "loaded" => got[c] # Absent
  BY DEF Init
<1>5. /\ overlapped \in [Callers -> BOOLEAN]
      /\ doubtful \in [Callers -> BOOLEAN]
      /\ seen \in [Callers -> SUBSET (Rows \cup {Absent})]
      /\ verdict \in [Callers -> VerdictType \cup {NoVerdict}]
  BY DEF Init
<1>. QED
  BY <1>1, <1>2, <1>3, <1>4, <1>5 DEF TypeOK

(* Every step keeps the types, and every row bound to a collection that    *)
(* exists.                                                                 *)
LEMMA StepType == TypeOK /\ [Next]_vars => TypeOK'
<1>. SUFFICES ASSUME TypeOK, [Next]_vars PROVE TypeOK'
  OBVIOUS
<1>1. CASE UNCHANGED vars
  BY <1>1 DEF TypeOK, vars
<1>2. ASSUME NEW v \in Rows \cup {Absent}, RowStep(v) PROVE TypeOK'
  <2>1. /\ Write(v) /\ UNCHANGED collections
        /\ v # Absent => v.collection \in collections
        /\ \/ UNCHANGED ops
           \/ \E a \in Admins : Owe(a)
    BY <1>2, RowSteps
  <2>2. /\ admin' \in [Admins -> {"idle", "written"}]
        /\ replaced' \in [Admins -> Rows \cup {Absent}]
    BY <2>1 DEF TypeOK, Owe, ops
  <2>. QED
    BY <2>1, <2>2 DEF TypeOK, Write, redis
<1>3. CASE CollectionStep
  BY <1>3, ConstantsAssumption DEF CollectionStep, CreateCollection, DeleteCollection,
     TypeOK, redis, ops, call
<1>4. CASE SettleStep
  <2>1. /\ UNCHANGED <<db, caller, call>>
        /\ admin' \in [Admins -> {"idle", "written"}]
        /\ replaced' \in [Admins -> Rows \cup {Absent}]
    BY <1>4 DEF SettleStep, Invalidate, LoseInvalidation, Settle, TypeOK
  <2>2. entry' \in Rows \cup {NoEntry} /\ faults' \in Nat
    BY <1>4 DEF SettleStep, Invalidate, LoseInvalidation, Drop, Fault, TypeOK
  <2>3. tainted' \in BOOLEAN
    BY <1>4 DEF SettleStep, Invalidate, LoseInvalidation, Drop
  <2>. QED
    BY <2>1, <2>2, <2>3 DEF TypeOK, db, call
<1>5. CASE Expire
  BY <1>5 DEF Expire, Drop, TypeOK, db, ops, call
<1>6. ASSUME NEW c \in Callers, CallStep(c) PROVE TypeOK'
  <2>1. CASE Call(c)
    BY <2>1 DEF Call, Goto, TypeOK, db, redis, ops
  <2>2. CASE Hit(c)
    BY <2>2 DEF Hit, Goto, TypeOK, db, redis, ops
  <2>3. CASE Miss(c) \/ Discard(c)
    <3>1. /\ UNCHANGED <<db, ops, call>> /\ Goto(c, "missed")
          /\ UNCHANGED redis \/ Drop
      BY <2>3 DEF Miss, Discard
    <3>2. faults' \in Nat
      BY <2>3 DEF Miss, Discard, Fault, TypeOK
    <3>. QED
      BY <3>1, <3>2 DEF Drop, Goto, TypeOK, db, redis, ops, call
  <2>4. CASE Load(c)
    BY <2>4 DEF Load, Goto, TypeOK, db, redis, ops
  <2>5. CASE Fill(c) \/ FillFails(c)
    <3>1. /\ UNCHANGED <<db, ops, call>> /\ Goto(c, "read") /\ caller[c] = "loaded"
          /\ Store(c) \/ Drop \/ UNCHANGED redis
      BY <2>5 DEF Fill, FillFails
    <3>2. faults' \in Nat
      BY <2>5 DEF Fill, FillFails, Fault, TypeOK
    <3>3. got[c] \in Rows /\ overlapped[c] \in BOOLEAN
      BY <3>1 DEF TypeOK
    <3>4. entry' \in Rows \cup {NoEntry} /\ tainted' \in BOOLEAN
      BY <3>1, <3>3 DEF Store, Drop, redis, TypeOK
    <3>. QED
      BY <3>1, <3>2, <3>4 DEF Goto, TypeOK, db, ops, call
  <2>6. ASSUME NEW k \in Asks, Answer(c, k) PROVE TypeOK'
    <3>1. [ask |-> k, says |-> Verdict(got[c], k)] \in VerdictType
      BY DEF Verdict, VerdictType
    <3>. QED
      BY <2>6, <3>1 DEF Answer, Goto, TypeOK, db, redis, ops
  <2>7. CASE Return(c)
    BY <2>7 DEF Return, Goto, TypeOK, db, redis, ops
  <2>. QED
    BY <1>6, <2>1, <2>2, <2>3, <2>4, <2>5, <2>6, <2>7 DEF CallStep, Advance
<1>. QED
  BY <1>1, <1>2, <1>3, <1>4, <1>5, <1>6, StepKinds

(* A copy in no doubt stays accounted for: the write that makes it old     *)
(* owes an invalidation that drops it or leaves it in doubt, and only a    *)
(* load that no write overlapped stores one.                               *)
LEMMA StepCopy ==
  TypeOK /\ CopyAccounted /\ ReadsAccounted /\ [Next]_vars => CopyAccounted'
<1>. SUFFICES ASSUME TypeOK, CopyAccounted, ReadsAccounted, [Next]_vars,
                     entry' # NoEntry, ~tainted'
              PROVE  \/ entry' = row'
                     \/ \E a \in Admins : admin'[a] = "written" /\ replaced'[a] = entry'
  BY DEF CopyAccounted
<1>1. CASE UNCHANGED vars
  BY <1>1 DEF CopyAccounted, vars
<1>2. ASSUME NEW v \in Rows \cup {Absent}, RowStep(v)
      PROVE  \E a \in Admins : admin'[a] = "written" /\ replaced'[a] = entry'
  <2>1. /\ Write(v)
        /\ \/ row = Absent /\ UNCHANGED ops
           \/ \E a \in Admins : admin[a] = "idle" /\ Owe(a)
    BY <1>2, RowSteps
  <2>2. UNCHANGED redis
    BY <2>1 DEF Write
  <2>3. entry \in Rows /\ entry # Absent
    BY <2>2, ConstantsAssumption DEF redis, TypeOK
  <2>4. entry = row \/ \E a \in Admins : admin[a] = "written" /\ replaced[a] = entry
    BY <2>2 DEF redis, CopyAccounted
  <2>5. CASE row = Absent /\ UNCHANGED ops
    BY <2>2, <2>3, <2>4, <2>5 DEF redis, ops
  <2>6. ASSUME NEW a \in Admins, admin[a] = "idle", Owe(a)
        PROVE  \E b \in Admins : admin'[b] = "written" /\ replaced'[b] = entry'
    <3>1. CASE entry = row
      BY <2>2, <2>6, <3>1 DEF redis, Owe, TypeOK
    <3>2. ASSUME NEW b \in Admins, admin[b] = "written", replaced[b] = entry
          PROVE  admin'[b] = "written" /\ replaced'[b] = entry'
      BY <2>2, <2>6, <3>2 DEF redis, Owe, TypeOK
    <3>. QED
      BY <2>4, <3>1, <3>2
  <2>. QED
    BY <2>1, <2>5, <2>6
<1>3. CASE CollectionStep
  BY <1>3 DEF CollectionStep, CreateCollection, DeleteCollection, CopyAccounted, redis, ops
<1>4. CASE SettleStep
  BY <1>4 DEF SettleStep, Invalidate, LoseInvalidation, Drop
<1>5. CASE Expire
  BY <1>5 DEF Expire, Drop
<1>6. ASSUME NEW c \in Callers, CallStep(c)
      PROVE  \/ entry' = row'
             \/ \E a \in Admins : admin'[a] = "written" /\ replaced'[a] = entry'
  <2>1. UNCHANGED <<row, ops>>
    BY <1>6 DEF CallStep, Call, Advance, Hit, Miss, Discard, Load, Fill, FillFails, Answer,
       Return, db
  <2>2. CASE UNCHANGED redis
    BY <2>1, <2>2 DEF CopyAccounted, redis, ops
  <2>3. CASE caller[c] = "loaded" /\ Store(c)
    BY <2>1, <2>3 DEF Store, ReadsAccounted
  <2>4. UNCHANGED redis \/ Drop \/ (caller[c] = "loaded" /\ Store(c))
    BY <1>6 DEF CallStep, Call, Advance, Hit, Miss, Discard, Load, Fill, FillFails, Answer,
       Return
  <2>. QED
    BY <2>2, <2>3, <2>4 DEF Drop
<1>. QED
  BY <1>1, <1>2, <1>3, <1>4, <1>5, <1>6, StepKinds

(* What ReadsAccounted says of one call.                                   *)
Accounted(c) ==
  /\ Calling(c) => row \in seen[c]
  /\ caller[c] = "called" =>
       \A a \in Admins : admin[a] = "written" => replaced[a] \in seen[c]
  /\ caller[c] \in {"loaded", "read", "answered"} /\ ~doubtful[c] => got[c] \in seen[c]
  /\ caller[c] = "loaded" /\ ~overlapped[c] => got[c] = row
  /\ verdict[c] # NoVerdict =>
       caller[c] = "answered" /\ verdict[c].says = Verdict(got[c], verdict[c].ask)

(* What a call has, it has seen, whatever is written meanwhile.            *)
LEMMA StepReads ==
  TypeOK /\ CopyAccounted /\ ReadsAccounted /\ [Next]_vars => ReadsAccounted'
<1>. SUFFICES ASSUME TypeOK, CopyAccounted, ReadsAccounted, [Next]_vars,
                     NEW c \in Callers
              PROVE  Accounted(c)'
  BY DEF ReadsAccounted, Accounted
<1>0. Accounted(c)
  BY DEF ReadsAccounted, Accounted
<1>1. CASE UNCHANGED vars
  BY <1>0, <1>1 DEF Accounted, Calling, vars
<1>2. ASSUME NEW v \in Rows \cup {Absent}, RowStep(v) PROVE Accounted(c)'
  <2>1. /\ Write(v)
        /\ \/ UNCHANGED ops
           \/ \E a \in Admins : Owe(a)
    BY <1>2, RowSteps
  <2>2. seen'[c] = IF Calling(c) THEN seen[c] \cup {v} ELSE seen[c]
    BY <2>1 DEF Write, TypeOK
  <2>3. /\ overlapped'[c] = (overlapped[c] \/ caller[c] = "loaded")
        /\ UNCHANGED <<caller, got, doubtful, verdict>> /\ row' = v
    BY <2>1 DEF Write, TypeOK
  <2>4. ASSUME caller[c] = "called", NEW a \in Admins, admin'[a] = "written"
        PROVE  replaced'[a] \in seen'[c]
    <3>1. row \in seen[c] /\ (admin[a] = "written" => replaced[a] \in seen[c])
      BY <1>0, <2>4 DEF Accounted, Calling
    <3>2. seen[c] \subseteq seen'[c]
      BY <2>2
    <3>3. CASE UNCHANGED ops
      BY <2>4, <3>1, <3>2, <3>3 DEF ops
    <3>4. ASSUME NEW b \in Admins, Owe(b) PROVE replaced'[a] \in seen'[c]
      BY <2>4, <3>1, <3>2, <3>4 DEF Owe, TypeOK
    <3>. QED
      BY <2>1, <3>3, <3>4
  <2>. QED
    BY <1>0, <2>2, <2>3, <2>4 DEF Accounted, Calling
<1>3. CASE CollectionStep
  BY <1>0, <1>3 DEF CollectionStep, CreateCollection, DeleteCollection, Accounted, Calling,
     ops, call
<1>4. CASE SettleStep
  <2>1. /\ UNCHANGED <<row, caller, call>>
        /\ \A a \in Admins : admin'[a] = "written" =>
             admin[a] = "written" /\ replaced'[a] = replaced[a]
    BY <1>4 DEF SettleStep, Invalidate, LoseInvalidation, Settle, TypeOK, db
  <2>. QED
    BY <1>0, <2>1 DEF Accounted, Calling, call
<1>5. CASE Expire
  BY <1>0, <1>5 DEF Expire, Accounted, Calling, db, ops, call
<1>6. ASSUME NEW d \in Callers, CallStep(d) PROVE Accounted(c)'
  <2>1. UNCHANGED <<row, ops>>
    BY <1>6 DEF CallStep, Call, Advance, Hit, Miss, Discard, Load, Fill, FillFails, Answer,
       Return, db
  <2>2. CASE d # c
    <3>1. /\ caller'[c] = caller[c] /\ got'[c] = got[c] /\ overlapped'[c] = overlapped[c]
          /\ doubtful'[c] = doubtful[c] /\ seen'[c] = seen[c] /\ verdict'[c] = verdict[c]
      BY <1>6, <2>2 DEF CallStep, Call, Advance, Hit, Miss, Discard, Load, Fill, FillFails,
         Answer, Return, Goto, call, TypeOK
    <3>. QED
      BY <1>0, <2>1, <3>1 DEF Accounted, Calling, ops
  <2>3. CASE d = c
    <3>1. CASE Call(c)
      BY <1>0, <2>1, <3>1 DEF Call, Goto, Accounted, Calling, ops, TypeOK
    <3>2. CASE Hit(c)
      <4>1. ~tainted => entry \in seen[c]
        BY <1>0, <3>2 DEF Hit, CopyAccounted, Accounted, Calling
      <4>. QED
        BY <1>0, <2>1, <3>2, <4>1 DEF Hit, Goto, Accounted, Calling, ops, TypeOK
    <3>3. CASE Miss(c) \/ Discard(c)
      BY <1>0, <2>1, <3>3 DEF Miss, Discard, Goto, Accounted, Calling, ops, call, TypeOK
    <3>4. CASE Load(c)
      BY <1>0, <2>1, <3>4 DEF Load, Goto, Accounted, Calling, ops, TypeOK
    <3>5. CASE Fill(c) \/ FillFails(c)
      BY <1>0, <2>1, <3>5 DEF Fill, FillFails, Goto, Accounted, Calling, ops, call, TypeOK
    <3>6. ASSUME NEW k \in Asks, Answer(c, k) PROVE Accounted(c)'
      BY <1>0, <2>1, <3>6 DEF Answer, Goto, Accounted, Calling, ops, TypeOK
    <3>7. CASE Return(c)
      BY <1>0, <2>1, <3>7 DEF Return, Goto, Accounted, Calling, ops, TypeOK
    <3>. QED
      BY <1>6, <2>3, <3>1, <3>2, <3>3, <3>4, <3>5, <3>6, <3>7 DEF CallStep, Advance
  <2>. QED
    BY <2>2, <2>3
<1>. QED
  BY <1>1, <1>2, <1>3, <1>4, <1>5, <1>6, StepKinds

(* Type correctness, with the foreign key: the row never names a           *)
(* collection that does not exist (Create, Update, collection.Delete).     *)
THEOREM TypeCorrect == Spec => []TypeOK
<1>. QED
  BY InitType, StepType, PTL DEF Spec

(* Verdicts are of the time: however calls, loads and changes overlap, a   *)
(* client whose copy is in no doubt is judged by a row of its call.        *)
THEOREM ClientsAreJudgedByTheRow == Spec => []VerdictsOfTheTime
<1>1. Init => CopyAccounted /\ ReadsAccounted
  BY DEF Init, CopyAccounted, ReadsAccounted, Calling
<1>2. TypeOK /\ CopyAccounted /\ ReadsAccounted => VerdictsOfTheTime
  <2>. SUFFICES ASSUME ReadsAccounted, NEW c \in Callers, verdict[c] # NoVerdict, ~doubtful[c]
                PROVE  \E r \in seen[c] : verdict[c].says = Verdict(r, verdict[c].ask)
    BY DEF VerdictsOfTheTime
  <2>1. caller[c] = "answered" /\ verdict[c].says = Verdict(got[c], verdict[c].ask)
    BY DEF ReadsAccounted
  <2>2. got[c] \in seen[c]
    BY <2>1 DEF ReadsAccounted
  <2>. QED
    BY <2>1, <2>2
<1>. QED
  BY <1>1, <1>2, InitType, StepType, StepCopy, StepReads, PTL DEF Spec
=============================================================================
