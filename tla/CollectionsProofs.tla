-------------------------- MODULE CollectionsProofs --------------------------
(***************************************************************************)
(* Proofs about Collections, for any number of operators, loads, groups,   *)
(* writes and faults.                                                      *)
(***************************************************************************)
EXTENDS Collections, TLAPS

AdminType == {Idle, Written} \cup Checked

MembersOps == [step : {"members"}, group : Groups, list : MemberLists,
               seen : SUBSET Models]

StrategyOps == [step : {"strategy"}, names : SUBSET Groups, overtaken : BOOLEAN]

DeleteOps == [step : {"deleteGroup"}, group : Groups, overtaken : BOOLEAN]

CreateOps == [step : {"createGroup"}, group : Groups]

(* What an operator can be doing, by kind.                                 *)
LEMMA AdminKinds ==
  AdminType = {Idle, Written} \cup StrategyOps \cup DeleteOps \cup CreateOps \cup MembersOps
BY DEF AdminType, Checked, StrategyOps, DeleteOps, CreateOps, MembersOps

(* The things an operator can be doing are told apart by "step".           *)
LEMMA AdminSteps ==
  /\ Idle \in AdminType /\ Written \in AdminType /\ Idle # Written
  /\ \A op \in AdminType :
       /\ op.step = "strategy" => op.names \subseteq Groups
       /\ op.step \in {"deleteGroup", "createGroup", "members"} => op.group \in Groups
       /\ op.step \in {"strategy", "deleteGroup", "createGroup", "members"} =>
            op \notin {Idle, Written}
  /\ \A names \in SUBSET Groups :
       [step |-> "strategy", names |-> names, overtaken |-> FALSE] \in AdminType
  /\ \A g \in Groups :
       /\ [step |-> "createGroup", group |-> g] \in AdminType
       /\ [step |-> "deleteGroup", group |-> g, overtaken |-> FALSE] \in AdminType
<1>1. Idle # Written
  BY DEF Idle, Written
<1>2. ASSUME NEW op \in AdminType
      PROVE  /\ op.step = "strategy" => op.names \subseteq Groups
             /\ op.step \in {"deleteGroup", "createGroup", "members"} =>
                  op.group \in Groups
             /\ op.step \in {"strategy", "deleteGroup", "createGroup", "members"} =>
                  op \notin {Idle, Written}
  <2>1. CASE op \in {Idle, Written}
    BY <2>1 DEF Idle, Written
  <2>2. CASE op \in StrategyOps
    BY <2>2 DEF StrategyOps, Idle, Written
  <2>3. CASE op \in DeleteOps
    BY <2>3 DEF DeleteOps, Idle, Written
  <2>5. CASE op \in CreateOps
    BY <2>5 DEF CreateOps, Idle, Written
  <2>4. CASE op \in MembersOps
    BY <2>4 DEF Idle, Written, MembersOps
  <2>. QED
    BY <1>2, <2>1, <2>2, <2>3, <2>4, <2>5, AdminKinds
<1>. QED
  BY <1>1, <1>2 DEF AdminType, Checked

(* The ReplaceMembers under way are those whose step is "members".         *)
LEMMA MembersSteps ==
  /\ \A op \in AdminType : op.step = "members" <=> op \in MembersOps
  /\ \A g \in Groups, list \in MemberLists, seen \in SUBSET Models :
       [step |-> "members", group |-> g, list |-> list, seen |-> seen] \in AdminType
<1>1. ASSUME NEW op \in AdminType
      PROVE  op.step = "members" <=> op \in MembersOps
  <2>1. CASE op \in {Idle, Written}
    BY <2>1 DEF Idle, Written, MembersOps
  <2>2. CASE op \in StrategyOps
    BY <2>2 DEF StrategyOps, MembersOps
  <2>3. CASE op \in DeleteOps
    BY <2>3 DEF DeleteOps, MembersOps
  <2>5. CASE op \in CreateOps
    BY <2>5 DEF CreateOps, MembersOps
  <2>4. CASE op \in MembersOps
    BY <2>4 DEF MembersOps
  <2>. QED
    BY <1>1, <2>1, <2>2, <2>3, <2>4, <2>5, AdminKinds
<1>. QED
  BY <1>1 DEF AdminType, Checked

(* What another has inserted anew, an operator's DELETE has not found.     *)
LEMMA LoseSightType ==
  ASSUME NEW op \in AdminType, NEW g, NEW list
  PROVE  /\ LoseSight(op, g, list) \in AdminType
         /\ LoseSight(op, g, list).step = op.step
         /\ op.step # "members" => LoseSight(op, g, list) = op
<1>1. CASE op.step = "members" /\ op.group = g
  <2>1. op \in MembersOps
    BY <1>1, MembersSteps
  <2>2. LoseSight(op, g, list) = [op EXCEPT !.seen = @ \ list]
    BY <1>1 DEF LoseSight
  <2>3. [op EXCEPT !.seen = @ \ list] \in MembersOps
    BY <2>1 DEF MembersOps
  <2>. QED
    BY <1>1, <2>2, <2>3, <2>1 DEF AdminType, Checked, MembersOps
<1>2. CASE ~(op.step = "members" /\ op.group = g)
  BY <1>2 DEF LoseSight
<1>. QED
  BY <1>1, <1>2

(* A write overtakes what an operator has checked, and nothing else.       *)
LEMMA OvertakeType ==
  ASSUME admin \in [Admins -> AdminType], NEW steps \in SUBSET {"strategy", "deleteGroup"}
  PROVE  /\ Overtake(steps) \in [Admins -> AdminType]
         /\ \A b \in Admins :
              /\ admin[b].step \notin steps => Overtake(steps)[b] = admin[b]
              /\ admin[b].step \in steps =>
                   /\ Overtake(steps)[b].step = admin[b].step
                   /\ Overtake(steps)[b].overtaken = TRUE
<1>1. ASSUME NEW b \in Admins, admin[b].step \in steps
      PROVE  /\ [admin[b] EXCEPT !.overtaken = TRUE] \in AdminType
             /\ [admin[b] EXCEPT !.overtaken = TRUE].step = admin[b].step
             /\ [admin[b] EXCEPT !.overtaken = TRUE].overtaken = TRUE
  <2>1. CASE admin[b] \in StrategyOps
    BY <2>1, AdminKinds DEF StrategyOps
  <2>2. CASE admin[b] \in DeleteOps
    BY <2>2, AdminKinds DEF DeleteOps
  <2>3. CASE admin[b] \in {Idle, Written}
    BY <1>1, <2>3 DEF Idle, Written
  <2>4. CASE admin[b] \in CreateOps \cup MembersOps
    BY <1>1, <2>4 DEF CreateOps, MembersOps
  <2>. QED
    BY <2>1, <2>2, <2>3, <2>4, AdminKinds
<1>. QED
  BY <1>1 DEF Overtake

(* The parts of TypeOK, apart, for the steps that touch only one.          *)
DbType ==
  /\ exists \in BOOLEAN
  /\ strategy \subseteq Groups
  /\ stamp \in Nat
  /\ rows \in [Groups -> Rows \cup {Absent}]
  /\ members \in [Groups -> SUBSET Models]
  /\ writes \in Nat
  /\ \A g \in Groups : rows[g] = Absent => members[g] = {}
  /\ ~exists => Present = {}

RedisType ==
  /\ entry \in SnapshotType \cup {NoEntry}
  /\ tainted \in BOOLEAN

Readings == {"idle", "missed", "collection", "groups", "members", "loaded"}

LoadsType ==
  /\ reader \in [Readers -> Readings]
  /\ snap \in [Readers -> SnapshotType]
  /\ overlapped \in [Readers -> BOOLEAN]

Parts == /\ DbType /\ RedisType /\ LoadsType /\ catalog \in Catalogs
         /\ admin \in [Admins -> AdminType] /\ faults \in Nat

(* The type invariant as one conjunct for each part of the system.         *)
LEMMA TypeParts == (TypeOK <=> Parts) /\ (TypeOK' <=> Parts')
BY DEF Parts, TypeOK, DbType, RedisType, LoadsType, AdminType, Readings

(* A load that has read nothing is a snapshot.                             *)
LEMMA BlankType == Blank \in SnapshotType
BY ConstantsAssumption DEF Blank, SnapshotType

(* The rows, key, operators and loads start well typed.                    *)
LEMMA InitType == Init => TypeOK
<1>. SUFFICES ASSUME Init PROVE TypeOK
  OBVIOUS
<1>1. DbType
  BY ConstantsAssumption DEF Init, DbType, Present
<1>2. RedisType /\ LoadsType
  BY BlankType DEF Init, RedisType, LoadsType, Readings
<1>3. admin \in [Admins -> AdminType]
  BY AdminSteps DEF Init
<1>. QED
  BY <1>1, <1>2, <1>3, TypeParts, ConstantsAssumption DEF Init, Parts

(* The steps that commit a write.                                          *)
DbStep(a) ==
  \/ WriteStrategy(a) \/ UpdateNote(a) \/ DeleteCollection(a)
  \/ \E v \in Rows : WriteCreateGroup(a, v)
  \/ \E g \in Groups, v \in Rows : UpdateGroup(a, g, v)
  \/ WriteDeleteGroup(a)
  \/ CommitMembers(a)

(* Every operation that changes rows does what a write does: it is         *)
(* counted, overlaps the loads under way and is to be invalidated.         *)
LEMMA WritesShape ==
  ASSUME admin \in [Admins -> AdminType], NEW a \in Admins, DbStep(a)
  PROVE  /\ \E ops \in [Admins -> AdminType] : Commit(a, ops)
         /\ admin' \in [Admins -> AdminType] /\ admin'[a] = Written
<1>1. \E ops \in [Admins -> AdminType] : Commit(a, ops)
  <2>1. CASE CommitMembers(a)
    <3>. DEFINE ops == [b \in Admins |->
                          LoseSight(admin[b], admin[a].group, admin[a].list)]
    <3>1. ops \in [Admins -> AdminType]
      BY LoseSightType
    <3>2. Commit(a, ops)
      BY <2>1 DEF CommitMembers
    <3>. QED
      BY <3>1, <3>2
  <2>2. CASE Write(a)
    BY <2>2 DEF Write
  <2>3. CASE \E steps \in SUBSET {"strategy", "deleteGroup"} : Commit(a, Overtake(steps))
    BY <2>3, OvertakeType
  <2>. QED
    BY <2>1, <2>2, <2>3 DEF DbStep, WriteStrategy, UpdateNote, DeleteCollection,
                            WriteCreateGroup, UpdateGroup, WriteDeleteGroup
<1>. QED
  BY <1>1, AdminSteps DEF Commit

(* Marking the loads that a write overlaps keeps their types.              *)
LEMMA OverlapType ==
  ASSUME LoadsType, Overlap, UNCHANGED <<reader, snap>>
  PROVE  LoadsType'
BY DEF LoadsType, Overlap, Loading

(* What the writes leave is well typed: in particular members go with      *)
(* their group, and groups with their collection.                          *)
LEMMA WritesType ==
  ASSUME TypeOK, NEW a \in Admins, DbStep(a)
  PROVE  TypeOK'
<1>. USE TypeParts DEF Parts
<1>1. PICK ops \in [Admins -> AdminType] : Commit(a, ops)
  BY WritesShape
<1>2. /\ RedisType' /\ catalog' \in Catalogs /\ faults' \in Nat
      /\ writes' \in Nat /\ writes \in Nat
  BY <1>1 DEF Commit, redis, RedisType, DbType
<1>3. LoadsType'
  BY <1>1, OverlapType DEF Commit
<1>4. admin' \in [Admins -> AdminType]
  BY WritesShape
<1>5. DbType'
  <2>1. CASE WriteStrategy(a)
    <3>1. admin[a] \in AdminType /\ admin[a].names \subseteq Groups
      BY <2>1, AdminSteps DEF WriteStrategy
    <3>. QED
      BY <2>1, <3>1, <1>2 DEF WriteStrategy, DbType, Present
  <2>2. CASE UpdateNote(a)
    BY <2>2, <1>2 DEF UpdateNote, DbType, Present
  <2>3. CASE DeleteCollection(a)
    BY <2>3, <1>2, ConstantsAssumption DEF DeleteCollection, DbType, Present
  <2>4. CASE \E v \in Rows : WriteCreateGroup(a, v)
    <3>1. admin[a].group \in Groups
      BY <2>4, AdminSteps DEF WriteCreateGroup
    <3>. QED
      BY <2>4, <3>1, <1>2, ConstantsAssumption DEF WriteCreateGroup, DbType, Present
  <2>5. CASE \E g \in Groups, v \in Rows : UpdateGroup(a, g, v)
    BY <2>5, <1>2, ConstantsAssumption DEF UpdateGroup, DbType, Present
  <2>6. CASE WriteDeleteGroup(a)
    <3>1. admin[a].group \in Groups
      BY <2>6, AdminSteps DEF WriteDeleteGroup
    <3>. QED
      BY <2>6, <3>1, <1>2, ConstantsAssumption DEF WriteDeleteGroup, DbType, Present
  <2>7. CASE CommitMembers(a)
    <3>. DEFINE op == admin[a]
    <3>1. op \in MembersOps
      BY <2>7, MembersSteps DEF CommitMembers
    <3>2. op.group \in Groups /\ op.list \subseteq Models
      BY <3>1, ConstantsAssumption DEF MembersOps
    <3>3. Kept(op) \cup op.list \subseteq Models
      BY <3>2 DEF Kept, DbType
    <3>4. /\ members' = [members EXCEPT ![op.group] = Kept(op) \cup op.list]
          /\ UNCHANGED <<exists, strategy, stamp, rows>>
          /\ op.list # {} => op.group \in Present
      BY <2>7 DEF CommitMembers
    <3>5. rows[op.group] = Absent => Kept(op) \cup op.list = {}
      BY <3>2, <3>4 DEF Kept, DbType, Present
    <3>. HIDE DEF op
    <3>. QED
      BY <1>2, <3>2, <3>3, <3>4, <3>5 DEF DbType, Present
  <2>. QED
    BY <2>1, <2>2, <2>3, <2>4, <2>5, <2>6, <2>7 DEF DbStep
<1>. QED
  BY <1>2, <1>3, <1>4, <1>5

(* Creating the collection keeps the types.                                *)
LEMMA CreateType ==
  ASSUME TypeOK, CreateCollection
  PROVE  TypeOK'
<1>. USE TypeParts DEF Parts
<1>1. DbType'
  BY DEF CreateCollection, DbType, Present
<1>2. LoadsType'
  BY OverlapType DEF CreateCollection
<1>. QED
  BY <1>1, <1>2 DEF CreateCollection, redis, RedisType

(* The other steps of an operator.                                         *)
AdminStep(a) ==
  \/ \E names \in SUBSET Groups : CheckStrategy(a, names)
  \/ \E g \in Groups : CheckCreateGroup(a, g) \/ CheckDeleteGroup(a, g)
  \/ \E g \in Groups, list \in MemberLists : ScanMembers(a, g, list)
  \/ Invalidate(a) \/ LoseInvalidation(a) \/ GiveUp(a)

(* They leave the rows, the catalog and the loads alone.                   *)
LEMMA AdminStepShape ==
  ASSUME TypeOK, NEW a \in Admins, AdminStep(a)
  PROVE  /\ UNCHANGED <<db, catalog, loads>>
         /\ \E op \in AdminType : admin' = [admin EXCEPT ![a] = op]
         /\ RedisType' /\ faults' \in Nat
         /\ \/ UNCHANGED redis /\ admin[a] # Written
            \/ entry' = NoEntry
            \/ tainted'
            \/ entry = NoEntry /\ entry' = NoEntry
<1>. USE TypeParts, AdminSteps DEF Parts, Check, RedisType, redis
<1>1. CASE \E names \in SUBSET Groups : CheckStrategy(a, names)
  BY <1>1 DEF CheckStrategy
<1>2. CASE \E g \in Groups : CheckCreateGroup(a, g)
  BY <1>2 DEF CheckCreateGroup
<1>3. CASE \E g \in Groups : CheckDeleteGroup(a, g)
  BY <1>3 DEF CheckDeleteGroup
<1>4. CASE Invalidate(a)
  BY <1>4 DEF Invalidate, Drop
<1>5. CASE LoseInvalidation(a)
  <2>1. admin' = [admin EXCEPT ![a] = Idle] /\ faults' \in Nat
    BY <1>5 DEF LoseInvalidation
  <2>2. UNCHANGED <<db, catalog, loads>> /\ entry' = entry
    BY <1>5 DEF LoseInvalidation
  <2>3. tainted' \in BOOLEAN /\ (tainted' \/ entry = NoEntry)
    BY ONLY <1>5, Zenon DEF LoseInvalidation
  <2>. QED
    BY <2>1, <2>2, <2>3
<1>6. CASE GiveUp(a)
  BY <1>6 DEF GiveUp
<1>7. CASE \E g \in Groups, list \in MemberLists : ScanMembers(a, g, list)
  <2>1. PICK g \in Groups, list \in MemberLists : ScanMembers(a, g, list)
    BY <1>7
  <2>2. members[g] \in SUBSET Models
    BY DEF DbType
  <2>. QED
    BY <2>1, <2>2, MembersSteps DEF ScanMembers
<1>. QED
  BY <1>1, <1>2, <1>3, <1>4, <1>5, <1>6, <1>7 DEF AdminStep

(* The steps of an operator that change no rows keep the types.            *)
LEMMA AdminStepType ==
  ASSUME TypeOK, NEW a \in Admins, AdminStep(a)
  PROVE  TypeOK'
<1>. USE TypeParts DEF Parts
<1>1. DbType' /\ LoadsType' /\ catalog' \in Catalogs
  BY AdminStepShape DEF db, loads, DbType, LoadsType, Present
<1>2. admin' \in [Admins -> AdminType]
  BY AdminStepShape
<1>. QED
  BY <1>1, <1>2, AdminStepShape

(* An operator's step changes rows or does not.                            *)
LEMMA OperateSteps ==
  ASSUME NEW a \in Admins
  PROVE  Operate(a) <=> DbStep(a) \/ AdminStep(a)
BY DEF Operate, DbStep, AdminStep

(* What a load has read is of the right type at every stage.               *)
LEMMA ReaderType ==
  ASSUME TypeOK, NEW r \in Readers, Miss(r) \/ Discard(r) \/ Advance(r)
  PROVE  LoadsType' /\ RedisType' /\ faults' \in Nat /\ UNCHANGED <<db, catalog, admin>>
<1>. USE TypeParts DEF Parts
<1>0. /\ LoadsType /\ RedisType /\ DbType /\ snap[r] \in SnapshotType
      /\ faults \in Nat /\ catalog \in Catalogs
  BY DEF LoadsType
<1>1. CASE Miss(r)
  BY <1>0, <1>1 DEF Miss, redis, LoadsType, RedisType, Readings
<1>2. CASE LoadCollection(r)
  <2>1. [Blank EXCEPT !.strategy = strategy, !.stamp = stamp] \in SnapshotType
    BY <1>0, BlankType DEF DbType, SnapshotType
  <2>. QED
    BY <1>0, <1>2, <2>1 DEF LoadCollection, redis, LoadsType, RedisType, Readings
<1>3. CASE LoadGroups(r)
  <2>1. [snap[r] EXCEPT !.rows = rows] \in SnapshotType
    BY <1>0 DEF DbType, SnapshotType
  <2>. QED
    BY <1>0, <1>3, <2>1 DEF LoadGroups, redis, LoadsType, RedisType, Readings
<1>4. CASE LoadMembers(r)
  <2>. DEFINE read == [g \in Groups |-> IF snap[r].rows[g] = Absent
                                        THEN {} ELSE members[g]]
  <2>1. read \in [Groups -> SUBSET Models]
    BY <1>0 DEF DbType
  <2>2. [snap[r] EXCEPT !.members = read] \in SnapshotType
    BY <1>0, <2>1 DEF SnapshotType
  <2>. QED
    BY <1>0, <1>4, <2>2 DEF LoadMembers, redis, LoadsType, RedisType, Readings
<1>5. CASE LoadCatalog(r)
  <2>1. [snap[r] EXCEPT !.catalog = catalog] \in SnapshotType
    BY <1>0 DEF SnapshotType
  <2>. QED
    BY <1>0, <1>5, <2>1 DEF LoadCatalog, redis, LoadsType, RedisType, Readings
<1>6. CASE LoadFails(r)
  BY <1>0, <1>6, BlankType DEF LoadFails, Return, redis, LoadsType, RedisType, Readings
<1>7. CASE Fill(r)
  BY <1>0, <1>7, BlankType
     DEF Fill, Return, Store, LoadsType, RedisType, Readings
<1>8. CASE FillFails(r)
  <2>1. LoadsType' /\ faults' \in Nat /\ UNCHANGED <<db, catalog, admin>>
    BY <1>0, <1>8, BlankType DEF FillFails, Return, LoadsType, Readings
  <2>2. overlapped[r] \in BOOLEAN
    BY <1>0 DEF LoadsType
  <2>3. Store(r) \/ Drop \/ UNCHANGED redis
    BY <1>8 DEF FillFails
  <2>4. RedisType'
    BY <1>0, <2>2, <2>3 DEF Store, Drop, redis, RedisType
  <2>. QED
    BY <2>1, <2>4
<1>9. CASE Discard(r)
  <2>1. RedisType'
    BY <1>9 DEF Discard, Drop, RedisType
  <2>2. LoadsType' /\ faults' \in Nat /\ UNCHANGED <<db, catalog, admin>>
    BY <1>0, <1>9 DEF Discard, LoadsType, Readings
  <2>. QED
    BY <2>1, <2>2
<1>. QED
  BY <1>1, <1>2, <1>3, <1>4, <1>5, <1>6, <1>7, <1>8, <1>9 DEF Advance

(* Every step keeps the types.                                             *)
LEMMA NextType == TypeOK /\ [Next]_vars => TypeOK'
<1>. SUFFICES ASSUME TypeOK, [Next]_vars PROVE TypeOK'
  OBVIOUS
<1>1. CASE \E a \in Admins : Operate(a)
  BY <1>1, OperateSteps, WritesType, AdminStepType
<1>2. CASE CreateCollection
  BY <1>2, CreateType
<1>3. CASE \E r \in Readers : Miss(r) \/ Discard(r) \/ Advance(r)
  BY <1>3, ReaderType, TypeParts DEF Parts, db, DbType, Present
<1>4. CASE Expire
  BY <1>4, TypeParts
     DEF Parts, Expire, Drop, db, loads, DbType, RedisType, LoadsType, Present
<1>5. CASE \E c \in Catalogs : ChangeCatalog(c)
  BY <1>5, TypeParts
     DEF Parts, ChangeCatalog, redis, loads, DbType, RedisType, LoadsType, Present
<1>6. CASE UNCHANGED vars
  BY <1>6 DEF vars, TypeOK, Present
<1>. QED
  BY <1>1, <1>2, <1>3, <1>4, <1>5, <1>6 DEF Next

(* Every variable of the collection keeps its type.                        *)
THEOREM TypeCorrect == Spec => []TypeOK
BY InitType, NextType, PTL DEF Spec

-----------------------------------------------------------------------------
(* Loads.  A committed write marks every load under way; one that is not   *)
(* marked has read what is still there.                                    *)

(* A write leaves no load unmarked that could disagree.                    *)
LEMMA WriteMarks ==
  ASSUME TypeOK, Overlap, UNCHANGED <<reader, snap>>
  PROVE  LoadsAgree'
BY TypeParts DEF Parts, LoadsType, Overlap, Loading, LoadsAgree

(* What a load has read agrees with the rows while neither changes.        *)
LEMMA SameLoads ==
  ASSUME LoadsAgree, UNCHANGED <<db, loads>>
  PROVE  LoadsAgree'
BY DEF LoadsAgree, Loading, db, loads

(* A load that goes on keeps what it read and adds the rows as they are.   *)
LEMMA AdvanceAgrees ==
  ASSUME TypeOK, LoadsAgree, NEW r \in Readers, Miss(r) \/ Discard(r) \/ Advance(r)
  PROVE  LoadsAgree'
<1>0. /\ LoadsType /\ DbType /\ snap[r] \in SnapshotType
      /\ UNCHANGED db
  BY TypeParts, ReaderType DEF Parts, LoadsType
<1>1. CASE Miss(r)
  BY <1>0, <1>1 DEF Miss, db, LoadsType, LoadsAgree, Loading
<1>2. CASE LoadCollection(r)
  <2>1. \A q \in Readers : q # r => UNCHANGED <<reader[q], snap[q]>>
    BY <1>0, <1>2 DEF LoadCollection, LoadsType
  <2>2. /\ reader'[r] = "collection" /\ exists
        /\ snap'[r].strategy = strategy /\ snap'[r].stamp = stamp
    BY <1>0, <1>2, BlankType DEF LoadCollection, LoadsType, SnapshotType
  <2>. QED
    BY <1>0, <1>2, <2>1, <2>2 DEF LoadCollection, db, LoadsAgree, Loading
<1>3. CASE LoadGroups(r)
  <2>1. \A q \in Readers : q # r => UNCHANGED <<reader[q], snap[q]>>
    BY <1>0, <1>3 DEF LoadGroups, LoadsType
  <2>2. /\ reader[r] = "collection" /\ reader'[r] = "groups"
        /\ UNCHANGED <<snap[r].strategy, snap[r].stamp>> /\ snap'[r].rows = rows
    BY <1>0, <1>3 DEF LoadGroups, LoadsType, SnapshotType
  <2>. QED
    BY <1>0, <1>3, <2>1, <2>2 DEF LoadGroups, db, LoadsAgree, Loading
<1>4. CASE LoadMembers(r)
  <2>. DEFINE read == [g \in Groups |-> IF snap[r].rows[g] = Absent
                                        THEN {} ELSE members[g]]
  <2>1. \A q \in Readers : q # r => UNCHANGED <<reader[q], snap[q]>>
    BY <1>0, <1>4 DEF LoadMembers, LoadsType
  <2>2. /\ reader[r] = "groups" /\ reader'[r] = "members"
        /\ UNCHANGED <<snap[r].strategy, snap[r].stamp, snap[r].rows>>
        /\ snap'[r].members = read
    BY <1>0, <1>4 DEF LoadMembers, LoadsType, SnapshotType
  <2>3. snap[r].rows = rows => read = members
    BY <1>0 DEF DbType
  <2>4. overlapped' = overlapped
    BY <1>4 DEF LoadMembers
  <2>. HIDE DEF read
  <2>. QED
    BY <1>0, <2>1, <2>2, <2>3, <2>4 DEF db, LoadsAgree, Loading
<1>5. CASE LoadCatalog(r)
  <2>1. \A q \in Readers : q # r => UNCHANGED <<reader[q], snap[q]>>
    BY <1>0, <1>5 DEF LoadCatalog, LoadsType
  <2>2. /\ reader[r] = "members" /\ reader'[r] = "loaded"
        /\ UNCHANGED <<snap[r].strategy, snap[r].stamp, snap[r].rows, snap[r].members>>
    BY <1>0, <1>5 DEF LoadCatalog, LoadsType, SnapshotType
  <2>. QED
    BY <1>0, <1>5, <2>1, <2>2 DEF LoadCatalog, db, LoadsAgree, Loading
<1>6. CASE LoadFails(r) \/ Fill(r) \/ FillFails(r)
  <2>1. Return(r)
    BY <1>6 DEF LoadFails, Fill, FillFails
  <2>2. \A q \in Readers : q # r => UNCHANGED <<reader[q], snap[q], overlapped[q]>>
    BY <1>0, <2>1 DEF Return, LoadsType
  <2>3. reader'[r] = "idle"
    BY <1>0, <2>1 DEF Return, LoadsType
  <2>. QED
    BY <1>0, <2>2, <2>3 DEF db, LoadsAgree, Loading
<1>7. CASE Discard(r)
  BY <1>0, <1>7 DEF Discard, db, LoadsType, LoadsAgree, Loading
<1>. QED
  BY <1>1, <1>2, <1>3, <1>4, <1>5, <1>6, <1>7 DEF Advance

(* The copy in Redis.                                                      *)
LEMMA FreshNext ==
  ASSUME TypeOK, LoadsAgree, FreshUnlessOverlapped, [Next]_vars
  PROVE  FreshUnlessOverlapped'
<1>0. admin \in [Admins -> AdminType]
  BY TypeParts DEF Parts
<1>1. ASSUME NEW a \in Admins, DbStep(a) PROVE FreshUnlessOverlapped'
  <2>1. admin'[a] = Written
    BY <1>0, <1>1, WritesShape
  <2>. QED
    BY <2>1 DEF FreshUnlessOverlapped
<1>2. ASSUME NEW a \in Admins, AdminStep(a) PROVE FreshUnlessOverlapped'
  <2>1. UNCHANGED db
    BY <1>2, AdminStepShape
  <2>2. CASE UNCHANGED redis /\ admin[a] # Written
    <3>1. \A b \in Admins : admin[b] = Written => admin'[b] = Written
      BY <1>0, <1>2, <2>2, AdminStepShape
    <3>. QED
      BY <2>1, <2>2, <3>1 DEF FreshUnlessOverlapped, UpToDate, db, redis
  <2>3. CASE entry' = NoEntry \/ tainted'
    BY <2>3 DEF FreshUnlessOverlapped
  <2>. QED
    BY <1>2, <2>2, <2>3, AdminStepShape
<1>3. CASE CreateCollection
  BY <1>3 DEF CreateCollection, redis, FreshUnlessOverlapped, UpToDate
<1>4. ASSUME NEW r \in Readers, Miss(r) \/ Discard(r) \/ Advance(r) PROVE FreshUnlessOverlapped'
  <2>1. UNCHANGED <<db, admin>>
    BY <1>4, ReaderType
  <2>2. CASE Store(r) /\ reader[r] = "loaded"
    <3>1. tainted' <=> overlapped[r]
      BY <2>2 DEF Store
    <3>2. ~overlapped[r] => UpToDate(snap[r])
      BY <2>2 DEF LoadsAgree, Loading, UpToDate
    <3>3. UpToDate(snap[r]) => UpToDate(entry)'
      BY <2>1, <2>2 DEF Store, UpToDate, db
    <3>. QED
      BY <3>1, <3>2, <3>3 DEF FreshUnlessOverlapped
  <2>3. CASE Drop
    BY <2>3 DEF Drop, FreshUnlessOverlapped
  <2>4. CASE UNCHANGED redis
    BY <2>1, <2>4 DEF FreshUnlessOverlapped, UpToDate, db, redis
  <2>5. (Store(r) /\ reader[r] = "loaded") \/ Drop \/ UNCHANGED redis
    BY <1>4 DEF Miss, Discard, Advance, LoadCollection, LoadGroups, LoadMembers,
                LoadCatalog, LoadFails, Fill, FillFails
  <2>. QED
    BY <2>2, <2>3, <2>4, <2>5
<1>5. CASE Expire
  BY <1>5 DEF Expire, Drop, FreshUnlessOverlapped
<1>6. CASE \E c \in Catalogs : ChangeCatalog(c)
  BY <1>6 DEF ChangeCatalog, redis, FreshUnlessOverlapped, UpToDate
<1>7. CASE UNCHANGED vars
  BY <1>7 DEF vars, FreshUnlessOverlapped, UpToDate
<1>. QED
  BY <1>1, <1>2, <1>3, <1>4, <1>5, <1>6, <1>7, OperateSteps DEF Next

(* Every step leaves the loads that no write overlapped in agreement with  *)
(* the rows.                                                               *)
LEMMA AgreeNext ==
  ASSUME TypeOK, LoadsAgree, [Next]_vars
  PROVE  LoadsAgree'
<1>1. ASSUME NEW a \in Admins, Operate(a) PROVE LoadsAgree'
  <2>1. CASE DbStep(a)
    BY <2>1, WritesShape, WriteMarks, TypeParts DEF Parts, Commit
  <2>2. CASE AdminStep(a)
    BY <2>2, AdminStepShape, SameLoads
  <2>. QED
    BY <1>1, <2>1, <2>2, OperateSteps
<1>2. CASE CreateCollection
  BY <1>2, WriteMarks DEF CreateCollection
<1>3. CASE \E r \in Readers : Miss(r) \/ Discard(r) \/ Advance(r)
  BY <1>3, AdvanceAgrees
<1>4. CASE Expire
  BY <1>4, SameLoads DEF Expire
<1>5. CASE \E c \in Catalogs : ChangeCatalog(c)
  <2>1. UNCHANGED <<exists, strategy, stamp, rows, members, loads>>
    BY <1>5 DEF ChangeCatalog
  <2>. QED
    BY <2>1 DEF LoadsAgree, Loading, loads
<1>6. CASE UNCHANGED vars
  BY <1>6, SameLoads DEF vars, db, loads
<1>. QED
  BY <1>1, <1>2, <1>3, <1>4, <1>5, <1>6 DEF Next

(* The only ways to an out-of-date copy are a load that a write overlapped *)
(* and an invalidation that failed, however many operators and dispatches  *)
(* are at work (ReadThrough, invalidate).                                  *)
THEOREM CopiesAreFresh == Spec => []FreshUnlessOverlapped
<1>. DEFINE IInv == TypeOK /\ LoadsAgree /\ FreshUnlessOverlapped
<1>1. Init => IInv
  <2>1. Init => LoadsAgree /\ FreshUnlessOverlapped
    BY DEF Init, LoadsAgree, Loading, FreshUnlessOverlapped
  <2>. QED
    BY <2>1, InitType
<1>2. IInv /\ [Next]_vars => IInv'
  BY NextType, AgreeNext, FreshNext
<1>. QED
  BY <1>1, <1>2, PTL DEF Spec

-----------------------------------------------------------------------------
(* References.  What an operator has checked still holds when it writes,   *)
(* unless it has been overtaken.  CheckHolds: of a collection that is      *)
(* there or not, with the groups present and those referred to.            *)
CheckHolds(op, there, present, named) ==
  /\ op.step = "strategy" /\ ~op.overtaken => there /\ op.names \subseteq present
  /\ op.step = "deleteGroup" /\ ~op.overtaken => (there => op.group \notin named)

ChecksHold == \A a \in Admins : CheckHolds(admin[a], exists, Present, strategy)

(* It holds of what is not a check, and wherever groups stay and no more   *)
(* of them are referred to.                                                *)
LEMMA CheckStays ==
  ASSUME NEW op, CheckHolds(op, exists, Present, strategy),
         op.step = "strategy" /\ exists => exists' /\ Present \subseteq Present',
         op.step = "deleteGroup" /\ exists' => exists /\ strategy' = strategy
  PROVE  CheckHolds(op, exists', Present', strategy')
BY DEF CheckHolds

(* Every write leaves the checks of the others true, or overtakes them.    *)
LEMMA WritesCheck ==
  ASSUME TypeOK, ChecksHold, NEW a \in Admins, DbStep(a)
  PROVE  ChecksHold'
<1>0. DbType /\ admin \in [Admins -> AdminType]
  BY TypeParts DEF Parts
<1>1. SUFFICES ASSUME NEW b \in Admins PROVE CheckHolds(admin'[b], exists', Present', strategy')
  BY DEF ChecksHold
<1>2. CASE b = a
  BY <1>0, <1>2, WritesShape DEF CheckHolds, Written
<1>3. ASSUME b # a, exists' = exists, strategy' = strategy, Present \subseteq Present',
             Write(a)
      PROVE  CheckHolds(admin'[b], exists', Present', strategy')
  <2>1. admin'[b] = admin[b]
    BY <1>0, <1>3 DEF Write, Commit
  <2>. QED
    BY <1>3, <2>1, CheckStays DEF ChecksHold
<1>4. ASSUME b # a, NEW steps \in SUBSET {"strategy", "deleteGroup"},
             Commit(a, Overtake(steps))
      PROVE  /\ admin[b].step \notin steps => admin'[b] = admin[b]
             /\ admin[b].step \in steps => CheckHolds(admin'[b], exists', Present', strategy')
  <2>1. admin'[b] = Overtake(steps)[b]
    BY <1>0, <1>4, OvertakeType DEF Commit
  <2>. QED
    BY <1>0, <2>1, OvertakeType DEF CheckHolds
<1>5. CASE b # a /\ WriteStrategy(a)
  <2>1. Commit(a, Overtake({"deleteGroup"})) /\ exists' = exists /\ Present' = Present
    BY <1>5 DEF WriteStrategy, Present
  <2>. QED
    BY <1>4, <1>5, <2>1, CheckStays DEF ChecksHold
<1>6. CASE b # a /\ DeleteCollection(a)
  <2>1. Commit(a, Overtake({"strategy"})) /\ exists' = FALSE
    BY <1>6 DEF DeleteCollection
  <2>. QED
    BY <1>4, <1>6, <2>1, CheckStays DEF ChecksHold
<1>7. CASE b # a /\ WriteDeleteGroup(a)
  <2>1. Commit(a, Overtake({"strategy"})) /\ exists' = exists /\ strategy' = strategy
    BY <1>7 DEF WriteDeleteGroup
  <2>. QED
    BY <1>4, <1>7, <2>1, CheckStays DEF ChecksHold
<1>8. CASE b # a /\ UpdateNote(a)
  BY <1>3, <1>8 DEF UpdateNote, Present
<1>9. CASE b # a /\ \E v \in Rows : WriteCreateGroup(a, v)
  <2>1. Present \subseteq Present'
    BY <1>0, <1>9, ConstantsAssumption DEF WriteCreateGroup, DbType, Present
  <2>. QED
    BY <1>3, <1>9, <2>1 DEF WriteCreateGroup
<1>10. CASE b # a /\ \E g \in Groups, v \in Rows : UpdateGroup(a, g, v)
  <2>1. Present \subseteq Present'
    BY <1>0, <1>10, ConstantsAssumption DEF UpdateGroup, DbType, Present
  <2>. QED
    BY <1>3, <1>10, <2>1 DEF UpdateGroup
<1>11. CASE b # a /\ CommitMembers(a)
  <2>1. /\ exists' = exists /\ strategy' = strategy /\ Present' = Present
        /\ admin'[b] = LoseSight(admin[b], admin[a].group, admin[a].list)
    BY <1>0, <1>11 DEF CommitMembers, Commit, Present
  <2>2. CASE admin[b].step = "members"
    BY <1>0, <2>1, <2>2, LoseSightType DEF CheckHolds
  <2>3. CASE admin[b].step # "members"
    BY <1>0, <2>1, <2>3, LoseSightType, CheckStays DEF ChecksHold
  <2>. QED
    BY <2>2, <2>3
<1>. QED
  BY <1>2, <1>5, <1>6, <1>7, <1>8, <1>9, <1>10, <1>11 DEF DbStep

(* What an operator checks holds when it has been checked.                 *)
LEMMA AdminStepCheck ==
  ASSUME TypeOK, ChecksHold, NEW a \in Admins, AdminStep(a)
  PROVE  ChecksHold'
<1>0. DbType /\ admin \in [Admins -> AdminType]
  BY TypeParts DEF Parts
<1>1. UNCHANGED <<exists, strategy, rows>>
  BY AdminStepShape DEF db
<1>2. ASSUME NEW op, admin' = [admin EXCEPT ![a] = op], CheckHolds(op, exists, Present, strategy)
      PROVE  ChecksHold'
  BY <1>0, <1>1, <1>2 DEF ChecksHold, Present
<1>3. CASE \E names \in SUBSET Groups : CheckStrategy(a, names)
  <2>1. PICK names \in SUBSET Groups : CheckStrategy(a, names)
    BY <1>3
  <2>. DEFINE op == [step |-> "strategy", names |-> names, overtaken |-> FALSE]
  <2>2. admin' = [admin EXCEPT ![a] = op] /\ exists /\ names \subseteq Present
    BY <2>1 DEF CheckStrategy, Check, Validated
  <2>3. CheckHolds(op, exists, Present, strategy)
    BY <2>2 DEF CheckHolds
  <2>. QED
    BY <1>2, <2>2, <2>3
<1>4. CASE \E g \in Groups : CheckDeleteGroup(a, g)
  <2>1. PICK g \in Groups : CheckDeleteGroup(a, g)
    BY <1>4
  <2>. DEFINE op == [step |-> "deleteGroup", group |-> g, overtaken |-> FALSE]
  <2>2. admin' = [admin EXCEPT ![a] = op] /\ g \notin strategy
    BY <2>1 DEF CheckDeleteGroup, Check, Referenced
  <2>3. CheckHolds(op, exists, Present, strategy)
    BY <2>2 DEF CheckHolds
  <2>. QED
    BY <1>2, <2>2, <2>3
<1>5. ASSUME NEW op, admin' = [admin EXCEPT ![a] = op],
             op.step \in {"idle", "createGroup", "members"}
      PROVE  ChecksHold'
  BY <1>2, <1>5 DEF CheckHolds
<1>6. CASE \E g \in Groups : CheckCreateGroup(a, g)
  BY <1>5, <1>6 DEF CheckCreateGroup, Check
<1>7. CASE Invalidate(a) \/ LoseInvalidation(a) \/ GiveUp(a)
  BY <1>5, <1>7 DEF Invalidate, LoseInvalidation, GiveUp, Idle
<1>8. CASE \E g \in Groups, list \in MemberLists : ScanMembers(a, g, list)
  BY <1>5, <1>8 DEF ScanMembers, Check
<1>. QED
  BY <1>3, <1>4, <1>6, <1>7, <1>8 DEF AdminStep

(* Who can change the references, and what is checked of them.             *)
LEMMA OtherSteps ==
  ASSUME TypeOK, [Next]_vars
  PROVE  \/ \E a \in Admins : DbStep(a) \/ AdminStep(a)
         \/ CreateCollection
         \/ UNCHANGED <<exists, strategy, rows, admin>>
<1>1. CASE \E r \in Readers : Miss(r) \/ Discard(r) \/ Advance(r)
  BY <1>1, ReaderType DEF db
<1>2. CASE Expire \/ \E c \in Catalogs : ChangeCatalog(c)
  BY <1>2 DEF Expire, ChangeCatalog, db
<1>. QED
  BY <1>1, <1>2, OperateSteps DEF Next, vars

(* What has been checked and not overtaken holds after every step.         *)
LEMMA CheckNext == TypeOK /\ ChecksHold /\ [Next]_vars => ChecksHold'
<1>. SUFFICES ASSUME TypeOK, ChecksHold, [Next]_vars PROVE ChecksHold'
  OBVIOUS
<1>1. CASE CreateCollection
  BY <1>1 DEF CreateCollection, ChecksHold, CheckHolds, Present
<1>2. CASE UNCHANGED <<exists, strategy, rows, admin>>
  BY <1>2 DEF ChecksHold, CheckHolds, Present
<1>. QED
  BY <1>1, <1>2, OtherSteps, WritesCheck, AdminStepCheck

(* A step that breaks the references is a write whose check is out of      *)
(* date.                                                                   *)
LEMMA BreaksReferences ==
  ASSUME TypeOK, ChecksHold, [Next]_vars, ReferencesHold, ~ReferencesHold'
  PROVE  \E a \in Admins : /\ admin[a].step \in {"strategy", "deleteGroup"}
                           /\ admin[a].overtaken
                           /\ admin'[a] # admin[a]
<1>0. DbType /\ admin \in [Admins -> AdminType]
  BY TypeParts DEF Parts
<1>1. CASE CreateCollection \/ UNCHANGED <<exists, strategy, rows, admin>>
  BY <1>1 DEF CreateCollection, ReferencesHold, Present
<1>2. ASSUME NEW a \in Admins, AdminStep(a) PROVE FALSE
  BY <1>2, AdminStepShape DEF db, ReferencesHold, Present
<1>3. ASSUME NEW a \in Admins, DbStep(a)
      PROVE  /\ admin[a].step \in {"strategy", "deleteGroup"}
             /\ admin[a].overtaken
             /\ admin'[a] # admin[a]
  <2>1. admin'[a] = Written
    BY <1>0, <1>3, WritesShape
  <2>2. CASE WriteStrategy(a)
    BY <2>1, <2>2
       DEF WriteStrategy, ReferencesHold, ChecksHold, CheckHolds, Present, Written
  <2>3. CASE WriteDeleteGroup(a)
    <3>1. Present \ {admin[a].group} \subseteq Present' /\ exists' = exists
      BY <1>0, <2>3 DEF WriteDeleteGroup, DbType, Present
    <3>. QED
      BY <2>1, <2>3, <3>1
         DEF WriteDeleteGroup, ReferencesHold, ChecksHold, CheckHolds, Written
  <2>4. CASE UpdateNote(a) \/ DeleteCollection(a) \/ CommitMembers(a)
    BY <2>4 DEF UpdateNote, DeleteCollection, CommitMembers, ReferencesHold, Present
  <2>5. CASE \E v \in Rows : WriteCreateGroup(a, v)
    <3>1. Present \subseteq Present'
      BY <1>0, <2>5, ConstantsAssumption DEF WriteCreateGroup, DbType, Present
    <3>. QED
      BY <2>5, <3>1 DEF WriteCreateGroup, ReferencesHold
  <2>6. CASE \E g \in Groups, v \in Rows : UpdateGroup(a, g, v)
    <3>1. Present \subseteq Present'
      BY <1>0, <2>6, ConstantsAssumption DEF UpdateGroup, DbType, Present
    <3>. QED
      BY <2>6, <3>1 DEF UpdateGroup, ReferencesHold
  <2>. QED
    BY <1>3, <2>2, <2>3, <2>4, <2>5, <2>6 DEF DbStep
<1>. QED
  BY <1>1, <1>2, <1>3, OtherSteps

(* For any number of operators, the strategy comes to name a missing group *)
(* only by a SetStrategy or DeleteGroup whose check is out of date: all    *)
(* that the checks lack is that nobody writes between check and write.     *)
THEOREM ReferencesAreKept == Spec => ReferencesHoldUnlessOvertaken
<1>1. Init => TypeOK /\ ChecksHold
  BY InitType DEF Init, ChecksHold, CheckHolds, Idle
<1>2. TypeOK /\ ChecksHold /\ [Next]_vars => (TypeOK /\ ChecksHold)'
  BY NextType, CheckNext
<1>3. TypeOK /\ ChecksHold /\ [Next]_vars =>
        [ReferencesHold /\ ~ReferencesHold' =>
           \E a \in Admins : /\ admin[a].step \in {"strategy", "deleteGroup"}
                             /\ admin[a].overtaken
                             /\ admin'[a] # admin[a]]_vars
  BY BreaksReferences
<1>. QED
  BY <1>1, <1>2, <1>3, PTL DEF Spec, ReferencesHoldUnlessOvertaken

-----------------------------------------------------------------------------
(* Members.  A group is made of whole lists, and the DELETE of an operator *)
(* under way has found all of each or nothing: that is what the invariant  *)
(* needs of the transactions to be inductive.                              *)
Sees(op, g, lists) ==
  op.step = "members" /\ op.group = g =>
    \A list \in lists : list \subseteq op.seen \/ list \cap op.seen = {}

MadeOf(g, lists) ==
  /\ members[g] = UNION lists
  /\ \A a \in Admins : Sees(admin[a], g, lists)

WholeLists == \A g \in Groups : \E lists \in SUBSET MemberLists : MadeOf(g, lists)

(* A group made of whole lists is the union of the lists it contains.      *)
LEMMA WholeAreUnions == WholeLists => UnionsOfLists
<1>. SUFFICES ASSUME WholeLists, NEW g \in Groups
              PROVE  members[g] = UNION {list \in MemberLists : list \subseteq members[g]}
  BY DEF UnionsOfLists
<1>1. PICK lists \in SUBSET MemberLists : members[g] = UNION lists
  BY DEF WholeLists, MadeOf
<1>2. \A list \in lists : list \in MemberLists /\ list \subseteq members[g]
  BY <1>1
<1>. QED
  BY <1>1, <1>2

(* Nothing is under way at the start, and a group has one list or none.    *)
LEMMA WholeInit == Init => WholeLists
<1>. SUFFICES ASSUME Init, NEW g \in Groups
              PROVE  \E lists \in SUBSET MemberLists : MadeOf(g, lists)
  BY DEF WholeLists
<1>1. \A a \in Admins : \A lists : Sees(admin[a], g, lists)
  BY DEF Init, Idle, Sees
<1>2. CASE members[g] = {}
  BY <1>1, <1>2 DEF MadeOf
<1>3. CASE members[g] \in MemberLists
  <2>1. members[g] = UNION {members[g]} /\ {members[g]} \in SUBSET MemberLists
    BY <1>3
  <2>. QED
    BY <1>1, <2>1 DEF MadeOf
<1>. QED
  BY <1>2, <1>3 DEF Init

(* Another operator's step that touches neither the group nor what is seen *)
(* of it leaves the group as it is.                                        *)
LEMMA WholeStays ==
  ASSUME TypeOK, WholeLists, members' = members, NEW a \in Admins,
         NEW op \in AdminType, admin' = [admin EXCEPT ![a] = op], op.step # "members"
  PROVE  WholeLists'
<1>. SUFFICES ASSUME NEW g \in Groups
              PROVE  \E lists \in SUBSET MemberLists : MadeOf(g, lists)'
  BY DEF WholeLists
<1>1. PICK lists \in SUBSET MemberLists : MadeOf(g, lists)
  BY DEF WholeLists
<1>2. \A b \in Admins : admin'[b] = admin[b] \/ admin'[b].step # "members"
  BY TypeParts DEF Parts
<1>3. \A b \in Admins : Sees(admin'[b], g, lists)
  BY <1>1, <1>2 DEF MadeOf, Sees
<1>. QED
  BY <1>1, <1>3 DEF MadeOf

(* The other writes leave every ReplaceMembers under way as it is.         *)
LEMMA OtherWrites ==
  ASSUME admin \in [Admins -> AdminType], NEW a \in Admins, DbStep(a), ~CommitMembers(a)
  PROVE  \A b \in Admins : admin'[b] = admin[b] \/ admin'[b].step # "members"
<1>1. CASE Write(a)
  BY <1>1 DEF Write, Commit, Written
<1>2. ASSUME NEW steps \in SUBSET {"strategy", "deleteGroup"}, Commit(a, Overtake(steps))
      PROVE  \A b \in Admins : admin'[b] = admin[b] \/ admin'[b].step # "members"
  <2>1. admin' = [Overtake(steps) EXCEPT ![a] = Written] /\ Written.step = "written"
    BY <1>2 DEF Commit, Written
  <2>. QED
    BY <2>1, OvertakeType
<1>3. Write(a) \/ \E steps \in SUBSET {"strategy", "deleteGroup"} : Commit(a, Overtake(steps))
  BY DEF DbStep, WriteStrategy, UpdateNote, DeleteCollection, WriteCreateGroup,
         UpdateGroup, WriteDeleteGroup
<1>. QED
  BY <1>1, <1>2, <1>3

(* A group emptied is made of no list.                                     *)
LEMMA WholeEmptied ==
  ASSUME WholeLists,
         \A b \in Admins : admin'[b] = admin[b] \/ admin'[b].step # "members",
         \A g \in Groups : members'[g] = members[g] \/ members'[g] = {}
  PROVE  WholeLists'
<1>. SUFFICES ASSUME NEW g \in Groups
              PROVE  \E lists \in SUBSET MemberLists : MadeOf(g, lists)'
  BY DEF WholeLists
<1>2. CASE members'[g] = {}
  <2>1. \A b \in Admins : Sees(admin'[b], g, {})
    BY DEF Sees
  <2>. QED
    BY <1>2, <2>1 DEF MadeOf
<1>3. CASE members'[g] = members[g]
  <2>1. PICK lists \in SUBSET MemberLists : MadeOf(g, lists)
    BY DEF WholeLists
  <2>2. \A b \in Admins : Sees(admin'[b], g, lists)
    BY <2>1 DEF MadeOf, Sees
  <2>. QED
    BY <1>3, <2>1, <2>2 DEF MadeOf
<1>. QED
  BY <1>2, <1>3

(* A DELETE that starts finds all that is there.                           *)
LEMMA WholeScanned ==
  ASSUME TypeOK, WholeLists, NEW a \in Admins, NEW h \in Groups,
         NEW list \in MemberLists, ScanMembers(a, h, list)
  PROVE  WholeLists'
<1>. SUFFICES ASSUME NEW g \in Groups
              PROVE  \E lists \in SUBSET MemberLists : MadeOf(g, lists)'
  BY DEF WholeLists
<1>. DEFINE op == [step |-> "members", group |-> h, list |-> list, seen |-> members[h]]
<1>1. PICK lists \in SUBSET MemberLists : MadeOf(g, lists)
  BY DEF WholeLists
<1>2. admin' = [admin EXCEPT ![a] = op] /\ members' = members
  BY DEF ScanMembers, Check, db
<1>3. Sees(op, g, lists)
  BY <1>1 DEF Sees, MadeOf
<1>4. \A b \in Admins : admin'[b] = admin[b] \/ admin'[b] = op
  BY <1>2, TypeParts DEF Parts
<1>. HIDE DEF op
<1>5. \A b \in Admins : Sees(admin'[b], g, lists)
  BY <1>1, <1>3, <1>4 DEF MadeOf
<1>. QED
  BY <1>1, <1>2, <1>5 DEF MadeOf

(* A list committed is there whole, beside the lists its DELETE had not    *)
(* found; and no DELETE under way has found anything of it.                *)
LEMMA WholeCommitted ==
  ASSUME TypeOK, WholeLists, NEW a \in Admins, CommitMembers(a)
  PROVE  WholeLists'
<1>. DEFINE op == admin[a]
            h == op.group
<1>0. /\ members \in [Groups -> SUBSET Models] /\ admin \in [Admins -> AdminType]
      /\ op \in MembersOps
  BY TypeParts, MembersSteps DEF Parts, DbType, CommitMembers
<1>1. h \in Groups /\ op.list \in MemberLists
  BY <1>0 DEF MembersOps
<1>2. /\ Kept(op) \cap op.list = {}
      /\ members' = [members EXCEPT ![h] = Kept(op) \cup op.list]
      /\ admin' = [[b \in Admins |-> LoseSight(admin[b], h, op.list)]
                    EXCEPT ![a] = Written]
  BY DEF CommitMembers, Commit
<1>3. \A b \in Admins : admin'[b] \in {Written, LoseSight(admin[b], h, op.list)}
  BY <1>2
<1>. SUFFICES ASSUME NEW g \in Groups
              PROVE  \E lists \in SUBSET MemberLists : MadeOf(g, lists)'
  BY DEF WholeLists
<1>4. PICK lists \in SUBSET MemberLists : MadeOf(g, lists)
  BY DEF WholeLists
<1>5. CASE g # h
  <2>1. members'[g] = members[g]
    BY <1>0, <1>2, <1>5
  <2>2. ASSUME NEW b \in Admins PROVE Sees(admin'[b], g, lists)
    <3>1. CASE admin'[b] = Written
      BY <3>1 DEF Sees, Written
    <3>2. CASE admin'[b] = LoseSight(admin[b], h, op.list)
      <4>1. admin[b] \in AdminType /\ Sees(admin[b], g, lists)
        BY <1>0, <1>4 DEF MadeOf
      <4>2. CASE admin[b].step = "members" /\ admin[b].group = h
        <5>1. admin[b] \in MembersOps
          BY <4>1, <4>2, MembersSteps
        <5>2. admin'[b].group = h
          BY <3>2, <4>2, <5>1 DEF LoseSight, MembersOps
        <5>. QED
          BY <1>5, <5>2 DEF Sees
      <4>3. CASE ~(admin[b].step = "members" /\ admin[b].group = h)
        BY <3>2, <4>1, <4>3 DEF LoseSight
      <4>. QED
        BY <4>2, <4>3
    <3>. QED
      BY <1>3, <3>1, <3>2
  <2>. QED
    BY <1>4, <2>1, <2>2 DEF MadeOf
<1>6. CASE g = h
  <2>. DEFINE kept == {list \in lists : list \cap op.seen = {}}
              now == kept \cup {op.list}
  <2>1. Sees(op, g, lists) /\ op.step = "members" /\ members[g] = UNION lists
    BY <1>4 DEF MadeOf, CommitMembers
  <2>2. Kept(op) = UNION kept
    BY <1>6, <2>1 DEF Sees, Kept
  <2>3. members'[g] = UNION now
    BY <1>0, <1>2, <1>6, <2>2
  <2>4. now \in SUBSET MemberLists
    BY <1>1
  <2>5. ASSUME NEW b \in Admins PROVE Sees(admin'[b], g, now)
    <3>1. CASE admin'[b] = Written
      BY <3>1 DEF Sees, Written
    <3>2. CASE admin'[b] = LoseSight(admin[b], h, op.list)
      <4>1. admin[b] \in AdminType /\ Sees(admin[b], g, lists)
        BY <1>0, <1>4 DEF MadeOf
      <4>2. CASE admin[b].step = "members" /\ admin[b].group = h
        <5>1. admin[b] \in MembersOps
          BY <4>1, <4>2, MembersSteps
        <5>2. admin'[b].seen = admin[b].seen \ op.list
          BY <3>2, <4>2, <5>1 DEF LoseSight, MembersOps
        <5>3. \A list \in lists : list \subseteq admin[b].seen \/ list \cap admin[b].seen = {}
          BY <1>6, <4>1, <4>2 DEF Sees
        <5>4. \A list \in kept : list \cap op.list = {}
          BY <1>2, <2>2
        <5>5. \A list \in now : \/ list \subseteq admin'[b].seen
                                \/ list \cap admin'[b].seen = {}
          BY <5>2, <5>3, <5>4
        <5>. QED
          BY <5>5 DEF Sees
      <4>3. CASE ~(admin[b].step = "members" /\ admin[b].group = h)
        BY <1>6, <3>2, <4>3 DEF LoseSight, Sees
      <4>. QED
        BY <4>2, <4>3
    <3>. QED
      BY <1>3, <3>1, <3>2
  <2>. QED
    BY <2>3, <2>4, <2>5 DEF MadeOf
<1>. QED
  BY <1>5, <1>6

(* Every step leaves every group made of whole lists.                      *)
LEMMA WholeNext ==
  ASSUME TypeOK, WholeLists, [Next]_vars
  PROVE  WholeLists'
<1>0. DbType /\ admin \in [Admins -> AdminType]
  BY TypeParts DEF Parts
<1>1. ASSUME NEW a \in Admins, DbStep(a) PROVE WholeLists'
  <2>1. CASE CommitMembers(a)
    BY <2>1, WholeCommitted
  <2>2. CASE ~CommitMembers(a)
    <3>1. \A b \in Admins : admin'[b] = admin[b] \/ admin'[b].step # "members"
      BY <1>0, <1>1, <2>2, OtherWrites
    <3>2. \A g \in Groups : members'[g] = members[g] \/ members'[g] = {}
      BY <1>0, <1>1, <2>2
         DEF DbStep, WriteStrategy, UpdateNote, DeleteCollection, WriteCreateGroup,
             UpdateGroup, WriteDeleteGroup, DbType
    <3>. QED
      BY <3>1, <3>2, WholeEmptied
  <2>. QED
    BY <2>1, <2>2
<1>2. ASSUME NEW a \in Admins, AdminStep(a) PROVE WholeLists'
  <2>1. members' = members
    BY <1>2, AdminStepShape DEF db
  <2>2. CASE \E g \in Groups, list \in MemberLists : ScanMembers(a, g, list)
    BY <2>2, WholeScanned
  <2>3. CASE \E names \in SUBSET Groups : CheckStrategy(a, names)
    BY <2>1, <2>3, WholeStays, AdminSteps DEF CheckStrategy, Check
  <2>4. CASE \E g \in Groups : CheckCreateGroup(a, g) \/ CheckDeleteGroup(a, g)
    BY <2>1, <2>4, WholeStays, AdminSteps DEF CheckCreateGroup, CheckDeleteGroup, Check
  <2>5. CASE Invalidate(a) \/ LoseInvalidation(a) \/ GiveUp(a)
    <3>1. admin' = [admin EXCEPT ![a] = Idle] /\ Idle \in AdminType /\ Idle.step # "members"
      BY <2>5, AdminSteps DEF Invalidate, LoseInvalidation, GiveUp, Idle
    <3>. QED
      BY <2>1, <3>1, WholeStays
  <2>. QED
    BY <1>2, <2>2, <2>3, <2>4, <2>5 DEF AdminStep
<1>3. CASE UNCHANGED <<members, admin>>
  BY <1>3 DEF WholeLists, MadeOf
<1>4. CASE CreateCollection
  BY <1>3, <1>4 DEF CreateCollection
<1>5. CASE \E r \in Readers : Miss(r) \/ Discard(r) \/ Advance(r)
  BY <1>3, <1>5, ReaderType DEF db
<1>6. CASE Expire \/ \E c \in Catalogs : ChangeCatalog(c)
  BY <1>3, <1>6 DEF Expire, ChangeCatalog, db
<1>7. CASE UNCHANGED vars
  BY <1>3, <1>7 DEF vars
<1>. QED
  BY <1>1, <1>2, <1>4, <1>5, <1>6, <1>7, OperateSteps DEF Next

(* However many ReplaceMembers overlap, a group never holds a part of a    *)
(* list.                                                                   *)
THEOREM GroupsHoldWholeLists == Spec => []UnionsOfLists
<1>1. Init => TypeOK /\ WholeLists
  BY InitType, WholeInit
<1>2. TypeOK /\ WholeLists /\ [Next]_vars => (TypeOK /\ WholeLists)'
  BY NextType, WholeNext
<1>. QED
  BY <1>1, <1>2, WholeAreUnions, PTL DEF Spec
=============================================================================
