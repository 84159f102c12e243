----------------------------- MODULE Collections -----------------------------
(***************************************************************************)
(* The configuration of one collection (src/backend/collection) and its    *)
(* cached snapshot (src/backend/cache): operators change rows of           *)
(* PostgreSQL and then delete the cached copy; dispatches and dry runs     *)
(* read the copy, or load the rows one query after the other and store it. *)
(* No lock and no transaction spans the queries of a load, the check and   *)
(* the write of an operator, or a write and its invalidation.              *)
(*                                                                         *)
(* Collections do not share rows or cache keys, so one stands for all.  A  *)
(* strategy is the set of groups it names; a group's type, position and    *)
(* config are one value; its members are a set, their order is left out.   *)
(***************************************************************************)
EXTENDS Integers, FiniteSets

CONSTANTS
  Groups,       \* the names a group may have
  Rows,         \* what a row of groups may hold besides its name
  Models,       \* what a member may be
  MemberLists,  \* the lists of members an operator may send
  Absent,       \* rows[g] = Absent: there is no group g
  Catalogs,     \* external: what upstream may say of the members' models
  Catalog0,     \* what it says at the start
  NoEntry,      \* entry = NoEntry: the collection's key is not in Redis
  Admins,       \* operators at work at the same time
  Readers,      \* dispatches and dry runs at work at the same time
  TTL,          \* the life of a cached copy; 0: it never expires
  MaxWrites,    \* bound on the committed writes
  MaxFaults     \* bound on the calls of Redis that fail

ASSUME ConstantsAssumption ==
  /\ MemberLists \subseteq SUBSET Models
  /\ Absent \notin Rows
  /\ Catalog0 \in Catalogs
  /\ TTL \in Nat
  /\ MaxWrites \in Nat
  /\ MaxFaults \in Nat

VARIABLES
  exists,      \* the collection has a row in collections
  strategy,    \* its strategy column
  stamp,       \* its updated_at column, as a number of writes
  rows,        \* its groups
  members,     \* the members of each group
  catalog,     \* external: the upstream catalog
  writes,      \* the writes committed so far
  entry,       \* the value of the collection's key in Redis
  tainted,     \* history: stored by a load that a write overlapped, or kept
               \* by an invalidation that failed
  admin,       \* what each operator is doing
  reader,      \* how far each load has come
  snap,        \* what it has read
  overlapped,  \* history: a write has been committed since it began to read
  faults       \* calls of Redis failed so far

vars == <<exists, strategy, stamp, rows, members, catalog, writes, entry,
          tainted, admin, reader, snap, overlapped, faults>>

db    == <<exists, strategy, stamp, rows, members, writes>>
redis == <<entry, tainted>>
loads == <<reader, snap, overlapped>>

Present == {g \in Groups : rows[g] # Absent}

SnapshotType ==
  [strategy : SUBSET Groups, stamp : Nat, rows : [Groups -> Rows \cup {Absent}],
   members : [Groups -> SUBSET Models], catalog : Catalogs]

(* A load that has read nothing yet.                                       *)
Blank == [strategy |-> {}, stamp |-> 0, rows |-> [g \in Groups |-> Absent],
          members |-> [g \in Groups |-> {}], catalog |-> Catalog0]

ASSUME EntryAssumption == NoEntry \notin SnapshotType

(* What an operator is doing: an operation checked and not yet written, or *)
(* one written and not yet invalidated.  "seen": the models whose rows the *)
(* DELETE of ReplaceMembers has found.  "overtaken": history; what the     *)
(* operation has checked has been written since.                           *)
Idle    == [step |-> "idle"]
Written == [step |-> "written"]
Checked == [step : {"strategy"}, names : SUBSET Groups, overtaken : BOOLEAN]
             \cup [step : {"deleteGroup"}, group : Groups, overtaken : BOOLEAN]
             \cup [step : {"createGroup"}, group : Groups]
             \cup [step : {"members"}, group : Groups, list : MemberLists,
                   seen : SUBSET Models]

Init ==
  /\ exists = TRUE
  /\ strategy = {}
  /\ stamp = 0
  /\ rows \in [Groups -> Rows \cup {Absent}]
  /\ members \in [Groups -> MemberLists \cup {{}}]
  /\ \A g \in Groups : rows[g] = Absent => members[g] = {}
  /\ catalog = Catalog0
  /\ writes = 0
  /\ entry = NoEntry
  /\ tainted = FALSE
  /\ admin = [a \in Admins |-> Idle]
  /\ reader = [r \in Readers |-> "idle"]
  /\ snap = [r \in Readers |-> Blank]
  /\ overlapped = [r \in Readers |-> FALSE]
  /\ faults = 0

-----------------------------------------------------------------------------
(* Operators.  A check reads rows and the write comes later, on whatever   *)
(* the rows are by then.                                                   *)

Check(a, op) ==
  /\ admin[a] = Idle
  /\ exists
  /\ admin' = [admin EXCEPT ![a] = op]
  /\ UNCHANGED <<db, catalog, redis, loads, faults>>

(* A statement that changes rows is committed, in the middle of the loads  *)
(* under way.                                                              *)
Loading(r) == reader[r] \in {"collection", "groups", "members", "loaded"}

Overlap == overlapped' = [r \in Readers |-> overlapped[r] \/ Loading(r)]

(* Mutant: the operator returns without invalidating.                      *)
CommitOnly(a, ops) ==
  /\ writes < MaxWrites
  /\ writes' = writes + 1
  /\ admin' = [ops EXCEPT ![a] = Idle]
  /\ Overlap
  /\ UNCHANGED <<catalog, redis, reader, snap, faults>>

(* "ops": what every operator is doing, the one who writes aside.          *)
Commit(a, ops) ==
  /\ writes < MaxWrites
  /\ writes' = writes + 1
  /\ admin' = [ops EXCEPT ![a] = Written]
  /\ Overlap
  /\ UNCHANGED <<catalog, redis, reader, snap, faults>>

Write(a) == Commit(a, admin)

(* It writes what the operations in "steps" have checked.                  *)
Overtake(steps) ==
  [b \in Admins |->
     IF admin[b].step \in steps THEN [admin[b] EXCEPT !.overtaken = TRUE] ELSE admin[b]]

(* The call fails before it has written: an error, or no row is left to    *)
(* write to (404).                                                         *)
GiveUp(a) ==
  /\ admin[a] \notin {Idle, Written}
  /\ admin' = [admin EXCEPT ![a] = Idle]
  /\ UNCHANGED <<db, catalog, redis, loads, faults>>

(* SetStrategy: validateStrategy wants every group named to exist.         *)
Validated(names) == names \subseteq Present

CheckStrategy(a, names) ==
  /\ Validated(names)
  /\ Check(a, [step |-> "strategy", names |-> names, overtaken |-> FALSE])

WriteStrategy(a) ==
  /\ admin[a].step = "strategy"
  /\ exists
  /\ strategy' = admin[a].names
  /\ stamp' = writes + 1
  /\ Commit(a, Overtake({"deleteGroup"}))
  /\ UNCHANGED <<exists, rows, members>>

(* UpdateNote: a snapshot holds no note, but the stamp.                    *)
UpdateNote(a) ==
  /\ admin[a] = Idle
  /\ exists
  /\ stamp' = writes + 1
  /\ Write(a)
  /\ UNCHANGED <<exists, strategy, rows, members>>

CreateCollection ==
  /\ ~exists
  /\ writes < MaxWrites
  /\ exists' = TRUE
  /\ strategy' = {}
  /\ stamp' = writes + 1
  /\ writes' = writes + 1
  /\ Overlap
  /\ UNCHANGED <<rows, members, catalog, redis, admin, reader, snap, faults>>

(* The groups and the members go with it (ON DELETE CASCADE).              *)
DeleteCollection(a) ==
  /\ admin[a] = Idle
  /\ exists
  /\ exists' = FALSE
  /\ rows' = [g \in Groups |-> Absent]
  /\ members' = [g \in Groups |-> {}]
  /\ Commit(a, Overtake({"strategy"}))
  /\ UNCHANGED <<strategy, stamp>>

CheckCreateGroup(a, g) == Check(a, [step |-> "createGroup", group |-> g])

(* The primary key refuses a second group of the name, the foreign key a   *)
(* group of no collection.                                                 *)
WriteCreateGroup(a, v) ==
  /\ admin[a].step = "createGroup"
  /\ exists
  /\ admin[a].group \notin Present
  /\ rows' = [rows EXCEPT ![admin[a].group] = v]
  /\ Write(a)
  /\ UNCHANGED <<exists, strategy, stamp, members>>

UpdateGroup(a, g, v) ==
  /\ admin[a] = Idle
  /\ g \in Present
  /\ rows' = [rows EXCEPT ![g] = v]
  /\ Write(a)
  /\ UNCHANGED <<exists, strategy, stamp, members>>

(* Mutant: nothing is refused.                                             *)
ReferencedNever(g) == FALSE

(* DeleteGroup: refused while the strategy names the group.                *)
Referenced(g) == g \in strategy

CheckDeleteGroup(a, g) ==
  /\ ~Referenced(g)
  /\ Check(a, [step |-> "deleteGroup", group |-> g, overtaken |-> FALSE])

(* Mutant: the members of the group stay.                                  *)
WriteDeleteGroupOnly(a) ==
  /\ admin[a].step = "deleteGroup"
  /\ admin[a].group \in Present
  /\ rows' = [rows EXCEPT ![admin[a].group] = Absent]
  /\ Commit(a, Overtake({"strategy"}))
  /\ UNCHANGED <<exists, strategy, stamp, members>>

WriteDeleteGroup(a) ==
  /\ admin[a].step = "deleteGroup"
  /\ admin[a].group \in Present
  /\ rows' = [rows EXCEPT ![admin[a].group] = Absent]
  /\ members' = [members EXCEPT ![admin[a].group] = {}]
  /\ Commit(a, Overtake({"strategy"}))
  /\ UNCHANGED <<exists, strategy, stamp>>

(* ReplaceMembers, one transaction: its DELETE finds the rows committed    *)
(* when it starts, and waits for the others that are deleting them.        *)
ScanMembers(a, g, list) ==
  /\ g \in Present
  /\ Check(a, [step |-> "members", group |-> g, list |-> list, seen |-> members[g]])

(* What the DELETE has found of a model is gone once another has inserted  *)
(* it again.                                                               *)
LoseSight(op, g, list) ==
  IF op.step = "members" /\ op.group = g THEN [op EXCEPT !.seen = @ \ list] ELSE op

(* What is left in the group when the transaction inserts its list.        *)
Kept(op) == members[op.group] \ op.seen

(* Mutant: without a transaction a failing insert leaves those before it.  *)
CommitMembersPiecewise(a) ==
  LET op == admin[a] IN
  /\ op.step = "members"
  /\ op.list # {} => op.group \in Present
  /\ \E part \in SUBSET (op.list \ Kept(op)) :
       members' = [members EXCEPT ![op.group] = Kept(op) \cup part]
  /\ Commit(a, [b \in Admins |-> LoseSight(admin[b], op.group, op.list)])
  /\ UNCHANGED <<exists, strategy, stamp, rows>>

(* The foreign key refuses a group that has gone, the primary key a member *)
(* that another list has brought meanwhile ("duplicate member"): GiveUp.   *)
CommitMembers(a) ==
  LET op == admin[a] IN
  /\ op.step = "members"
  /\ op.list # {} => op.group \in Present
  /\ Kept(op) \cap op.list = {}
  /\ members' = [members EXCEPT ![op.group] = Kept(op) \cup op.list]
  /\ Commit(a, [b \in Admins |-> LoseSight(admin[b], op.group, op.list)])
  /\ UNCHANGED <<exists, strategy, stamp, rows>>

Drop == entry' = NoEntry /\ tainted' = FALSE

(* The last step of every operator: delete the key, and return whether     *)
(* that worked or not.                                                     *)
Invalidate(a) ==
  /\ admin[a] = Written
  /\ admin' = [admin EXCEPT ![a] = Idle]
  /\ Drop
  /\ UNCHANGED <<db, catalog, loads, faults>>

LoseInvalidation(a) ==
  /\ admin[a] = Written
  /\ faults < MaxFaults
  /\ faults' = faults + 1
  /\ admin' = [admin EXCEPT ![a] = Idle]
  /\ tainted' = (entry # NoEntry)
  /\ UNCHANGED <<db, catalog, entry, loads>>

-----------------------------------------------------------------------------
(* Loads (ReadThrough, buildSnapshot).  A hit changes nothing.  A Redis    *)
(* that does not answer is a miss.                                         *)

Miss(r) ==
  /\ reader[r] = "idle"
  /\ reader' = [reader EXCEPT ![r] = "missed"]
  /\ IF entry # NoEntry
     THEN faults < MaxFaults /\ faults' = faults + 1
     ELSE UNCHANGED faults
  /\ UNCHANGED <<db, catalog, redis, admin, snap, overlapped>>

(* A copy that cannot be decoded is deleted, or is left where Redis fails  *)
(* once more, which is a Miss.                                             *)
Discard(r) ==
  /\ reader[r] = "idle"
  /\ entry # NoEntry
  /\ faults < MaxFaults
  /\ faults' = faults + 1
  /\ Drop
  /\ reader' = [reader EXCEPT ![r] = "missed"]
  /\ UNCHANGED <<db, catalog, admin, snap, overlapped>>

LoadCollection(r) ==
  /\ reader[r] = "missed"
  /\ exists
  /\ snap' = [snap EXCEPT ![r] = [Blank EXCEPT !.strategy = strategy, !.stamp = stamp]]
  /\ reader' = [reader EXCEPT ![r] = "collection"]
  /\ UNCHANGED <<db, catalog, redis, admin, overlapped, faults>>

LoadGroups(r) ==
  /\ reader[r] = "collection"
  /\ snap' = [snap EXCEPT ![r].rows = rows]
  /\ reader' = [reader EXCEPT ![r] = "groups"]
  /\ UNCHANGED <<db, catalog, redis, admin, overlapped, faults>>

(* Members of a group that was not read are left out.                      *)
LoadMembers(r) ==
  /\ reader[r] = "groups"
  /\ snap' = [snap EXCEPT ![r].members =
                [g \in Groups |-> IF snap[r].rows[g] = Absent
                                  THEN {} ELSE members[g]]]
  /\ reader' = [reader EXCEPT ![r] = "members"]
  /\ UNCHANGED <<db, catalog, redis, admin, overlapped, faults>>

LoadCatalog(r) ==
  /\ reader[r] = "members"
  /\ snap' = [snap EXCEPT ![r].catalog = catalog]
  /\ reader' = [reader EXCEPT ![r] = "loaded"]
  /\ UNCHANGED <<db, catalog, redis, admin, overlapped, faults>>

Return(r) ==
  /\ reader' = [reader EXCEPT ![r] = "idle"]
  /\ snap' = [snap EXCEPT ![r] = Blank]
  /\ overlapped' = [overlapped EXCEPT ![r] = FALSE]

(* Any of the queries may fail, and then nothing is stored.                *)
LoadFails(r) ==
  /\ reader[r] \notin {"idle", "loaded"}
  /\ Return(r)
  /\ UNCHANGED <<db, catalog, redis, admin, faults>>

Store(r) == entry' = snap[r] /\ tainted' = overlapped[r]

Fill(r) ==
  /\ reader[r] = "loaded"
  /\ Store(r)
  /\ Return(r)
  /\ UNCHANGED <<db, catalog, admin, faults>>

(* Set returns an error: it may have stored the value or not, and the Del  *)
(* that follows may work or fail too.                                      *)
FillFails(r) ==
  /\ reader[r] = "loaded"
  /\ faults < MaxFaults
  /\ faults' = faults + 1
  /\ Store(r) \/ Drop \/ UNCHANGED redis
  /\ Return(r)
  /\ UNCHANGED <<db, catalog, admin>>

(* Mutant: keys are stored without a TTL.                                  *)
ExpireNever ==
  /\ entry # NoEntry
  /\ TTL < 0
  /\ Drop
  /\ UNCHANGED <<db, catalog, admin, loads, faults>>

(* Redis drops the key: its time has passed.                               *)
Expire ==
  /\ entry # NoEntry
  /\ TTL > 0
  /\ Drop
  /\ UNCHANGED <<db, catalog, admin, loads, faults>>

(* Upstream changes its catalog and tells nobody.                          *)
ChangeCatalog(c) ==
  /\ c # catalog
  /\ writes < MaxWrites
  /\ writes' = writes + 1
  /\ catalog' = c
  /\ UNCHANGED <<exists, strategy, stamp, rows, members, redis, admin, loads,
                 faults>>

-----------------------------------------------------------------------------
Operate(a) ==
  \/ \E names \in SUBSET Groups : CheckStrategy(a, names)
  \/ WriteStrategy(a) \/ UpdateNote(a) \/ DeleteCollection(a)
  \/ \E g \in Groups : CheckCreateGroup(a, g) \/ CheckDeleteGroup(a, g)
  \/ \E v \in Rows : WriteCreateGroup(a, v)
  \/ \E g \in Groups, v \in Rows : UpdateGroup(a, g, v)
  \/ WriteDeleteGroup(a)
  \/ \E g \in Groups, list \in MemberLists : ScanMembers(a, g, list)
  \/ CommitMembers(a)
  \/ Invalidate(a) \/ LoseInvalidation(a) \/ GiveUp(a)

Advance(r) ==
  \/ LoadCollection(r) \/ LoadGroups(r) \/ LoadMembers(r) \/ LoadCatalog(r)
  \/ LoadFails(r) \/ Fill(r) \/ FillFails(r)

Next ==
  \/ \E a \in Admins : Operate(a)
  \/ CreateCollection
  \/ \E r \in Readers : Miss(r) \/ Discard(r) \/ Advance(r)
  \/ Expire
  \/ \E c \in Catalogs : ChangeCatalog(c)

Spec == Init /\ [][Next]_vars

(* An operator that has written goes on to invalidate, a load goes on, and *)
(* Redis drops keys whose time has passed.  Nobody has to call.            *)
Fairness ==
  /\ \A a \in Admins : WF_vars(Invalidate(a) \/ LoseInvalidation(a))
  /\ \A r \in Readers : WF_vars(Advance(r))
  /\ WF_vars(Expire)

FairSpec == Spec /\ Fairness

-----------------------------------------------------------------------------
(* Rows, key, operators and loads have their types.                        *)
TypeOK ==
  /\ exists \in BOOLEAN
  /\ strategy \subseteq Groups
  /\ stamp \in Nat
  /\ rows \in [Groups -> Rows \cup {Absent}]
  /\ members \in [Groups -> SUBSET Models]
  /\ catalog \in Catalogs
  /\ writes \in Nat
  /\ entry \in SnapshotType \cup {NoEntry}
  /\ tainted \in BOOLEAN
  /\ admin \in [Admins -> {Idle, Written} \cup Checked]
  /\ reader \in [Readers -> {"idle", "missed", "collection", "groups",
                             "members", "loaded"}]
  /\ snap \in [Readers -> SnapshotType]
  /\ overlapped \in [Readers -> BOOLEAN]
  /\ faults \in Nat
  /\ \A g \in Groups : rows[g] = Absent => members[g] = {}
  /\ ~exists => Present = {}

(* The rows a snapshot holds are those of the database now.                *)
UpToDate(s) ==
  /\ exists
  /\ s.strategy = strategy /\ s.stamp = stamp
  /\ s.rows = rows /\ s.members = members

(* A load no write has overlapped has read the rows as they are.           *)
LoadsAgree ==
  \A r \in Readers : ~overlapped[r] =>
    /\ Loading(r) => exists /\ snap[r].strategy = strategy /\ snap[r].stamp = stamp
    /\ reader[r] \in {"groups", "members", "loaded"} => snap[r].rows = rows
    /\ reader[r] \in {"members", "loaded"} => snap[r].members = members

(* The cached copy is the configuration as it is, or an operator's write   *)
(* is about to be invalidated: the only ways to a stale copy are a load    *)
(* that a write overlapped and an invalidation that failed (ReadThrough,   *)
(* invalidate).                                                            *)
FreshUnlessOverlapped ==
  entry # NoEntry /\ ~tainted =>
    UpToDate(entry) \/ \E a \in Admins : admin[a] = Written

(* However ReplaceMembers overlap, a group holds whole lists and never a   *)
(* part of one (the transaction of ReplaceMembers).  Two that overlap may  *)
(* leave both lists: the last one does not replace the other.              *)
UnionsOfLists ==
  \A g \in Groups :
    members[g] = UNION {list \in MemberLists : list \subseteq members[g]}

ReferencesHold == exists => strategy \subseteq Present

(* No step makes the strategy name a group that does not exist but the     *)
(* write of an operator whose check is out of date: a SetStrategy, between *)
(* whose check and UPDATE a group or the collection was deleted, or a      *)
(* DeleteGroup, between whose check and DELETE a strategy was set.  The    *)
(* checks are enough but for that, and no other write breaks it, a         *)
(* collection deleted and created anew included (validateStrategy,         *)
(* SetStrategy, DeleteGroup).                                              *)
ReferencesHoldUnlessOvertaken ==
  [][ReferencesHold /\ ~ReferencesHold' =>
       \E a \in Admins : /\ admin[a].step \in {"strategy", "deleteGroup"}
                         /\ admin[a].overtaken
                         /\ admin'[a] # admin[a]]_vars

(* What README.md:90 says of DeleteGroup: a group that the strategy names  *)
(* is not deleted, but with the whole collection.  The check and the       *)
(* DELETE are two statements, with nothing between them that keeps another *)
(* operator out.                                                           *)
ReferencedGroupsStay ==
  [][\A g \in Present : exists' /\ rows'[g] = Absent => g \notin strategy]_vars

(* Whatever fails or overlaps, once the changes stop the copies that are   *)
(* out of date go away, and none comes back (the TTL, the "last resort" of *)
(* cache.go), and every copy then is of the catalog too.                   *)
EventuallyFresh == <>[](entry # NoEntry => UpToDate(entry) /\ entry.catalog = catalog)
=============================================================================
