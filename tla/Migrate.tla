-------------------------------- MODULE Migrate --------------------------------
(***************************************************************************)
(* The migration of script policies (src/backend/migrate): for every       *)
(* collection that user models still refer to with a policy, it maps the   *)
(* policy's name to a strategy and writes that with SetStrategy, one       *)
(* collection after the other, until one fails.  Each query is a step:     *)
(* operators, and other runs, change what a run has read.                  *)
(***************************************************************************)
EXTENDS Integers, FiniteSets, Sequences, SequencesExt

CONSTANTS
  Collections,  \* the names a collection may have, in order
  Policies,     \* the names of policies, in order
  Users,        \* the user models with a policy
  PolicyOf,     \* the policy of each: nothing writes it any more
  Groups,       \* the groups operators make
  Worlds,       \* the groups and bindings there may be at first
  Strategies,   \* the strategies operators set
  Gone,         \* groups[c] = Gone: there is no such collection
  Nowhere,      \* bound[u] = Nowhere: there is no such user model
  Windows,      \* windows of members
  Runs,         \* requests to migrate under way at the same time
  MaxEvents     \* bound on the operators' writes, the queries that fail and
                \* the copies that are old, together

Names == {g.name : g \in Groups}

GroupType == [name : Names, compact : BOOLEAN, config : Nat, window : Windows]

(* What a table of groups returns, ordered: no name twice.                 *)
Layouts ==
  {l \in Seq(GroupType) : \A i, j \in DOMAIN l : l[i].name = l[j].name => i = j}

StrategyType ==
  [chain : Seq(Names), enabled : BOOLEAN, threshold : Nat, compacts : Seq(Names)]

Plain(chain) == [chain |-> chain, enabled |-> FALSE, threshold |-> 0, compacts |-> <<>>]

ASSUME ConstantsAssumption ==
  /\ IsFiniteSet(Users)
  /\ PolicyOf \in [Users -> ToSet(Policies)]
  /\ Collections \in Seq(ToSet(Collections)) /\ IsInjective(Collections)
  /\ Policies \in Seq(ToSet(Policies)) /\ IsInjective(Policies)
  /\ Gone \notin Layouts /\ Nowhere \notin ToSet(Collections)
  /\ Windows \subseteq Nat /\ 0 \in Windows
  /\ Groups \subseteq GroupType
  /\ Worlds \subseteq [groups : [ToSet(Collections) -> {Gone} \cup Layouts],
                       bound  : [Users -> ToSet(Collections)]]
  /\ \A w \in Worlds : \A u \in Users : w.groups[w.bound[u]] # Gone
  /\ Strategies \subseteq StrategyType
  /\ MaxEvents \in Nat

VARIABLES
  groups,    \* the groups of each collection, by position and name
  strategy,  \* the strategy of each collection
  bound,     \* the collection of each user model
  events,    \* operators' writes, failed queries and old copies so far
  run        \* each request to migrate

vars == <<groups, strategy, bound, events, run>>

db == <<groups, strategy, bound>>

Idle ==
  [pc       |-> "idle",
   rows     |-> [u \in Users |-> Nowhere],  \* what policyRefs read
   todo     |-> <<>>,                       \* the collections still to do
   listed   |-> <<>>,                       \* the groups it read of the first
   plan     |-> Plain(<<>>),                \* what it is to write
   known    |-> TRUE,                       \* mapped, and not the fallback
   mapped   |-> {}, unmapped |-> {}, conflicts |-> {},  \* the report
   blind    |-> FALSE,   \* history: the groups of one could not be read
   stirred  |-> FALSE,   \* history: one of those groups has been deleted
   quiet    |-> TRUE,    \* history: no operator has written since it began,
                         \* and it has read everything as it is
   overwritten |-> {}]   \* history: the collections that a run which is not
                         \* quiet has written to since this one did

Init ==
  /\ strategy = [c \in ToSet(Collections) |-> Plain(<<>>)]
  /\ \E w \in Worlds : groups = w.groups /\ bound = w.bound
  /\ events = 0
  /\ run = [r \in Runs |-> Idle]

-----------------------------------------------------------------------------
(* The mapping, by name.                                                   *)

(* The loops that append the elements of a list that are in S.             *)
SelectedTo(l, S) ==
  LET kept[k \in 0 .. Len(l)] ==
        IF k = 0 THEN <<>>
        ELSE IF l[k] \in S THEN Append(kept[k - 1], l[k])
        ELSE kept[k - 1]
  IN  kept

Selected(l, S) == SelectedTo(l, S)[Len(l)]

NamesOf(l) == [i \in 1 .. Len(l) |-> l[i].name]

Compacts(l)  == Selected(l, {g \in ToSet(l) : g.compact})
Primaries(l) == Selected(l, {g \in ToSet(l) : ~g.compact})

(* The first primary group that declares one.                              *)
ConfigThreshold(l) ==
  LET declared == Selected(l, {g \in ToSet(l) : ~g.compact /\ g.config > 0})
  IN IF declared = <<>> THEN 0 ELSE Head(declared).config

MaxPrimaryWindow(l) == Max({0} \cup {g.window : g \in ToSet(Primaries(l))})

(* Mutant: compact groups are used from the first token on.                *)
CompactOverflowAlways(l, window) ==
  [chain     |-> NamesOf(Primaries(l)),
   enabled   |-> TRUE,
   threshold |-> IF ConfigThreshold(l) > 0 THEN ConfigThreshold(l) ELSE window,
   compacts  |-> NamesOf(Compacts(l))]

CompactOverflow(l, window) ==
  LET threshold == IF ConfigThreshold(l) > 0 THEN ConfigThreshold(l) ELSE window
  IN IF Compacts(l) = <<>> THEN Plain(NamesOf(Primaries(l)))
     ELSE [chain     |-> NamesOf(Primaries(l)),
           enabled   |-> threshold > 0,
           threshold |-> threshold,
           compacts  |-> NamesOf(Compacts(l))]

Scripts == {"preset", "sticky", "failover", "round_robin", "least_used",
            "compact_overflow"}

MapPolicy(p, l, window) ==
  IF p = "compact_overflow" THEN CompactOverflow(l, window) ELSE Plain(NamesOf(l))

(* The window is asked for only where no group declares a threshold.       *)
AsksWindow(p, l) ==
  p = "compact_overflow" /\ Compacts(l) # <<>> /\ ConfigThreshold(l) = 0

Count(rows, c, p) == Cardinality({u \in Users : rows[u] = c /\ PolicyOf[u] = p})

Competing(rows, c) ==
  Selected(Policies, {p \in ToSet(Policies) : Count(rows, c, p) > 0})

(* The loop over the names that compete: a later one takes the lead only   *)
(* with more user models.                                                  *)
BestTo(names, count) ==
  LET best[k \in 0 .. Len(names) - 1] ==
        IF k = 0 THEN names[1]
        ELSE IF count[names[k + 1]] > count[best[k - 1]] THEN names[k + 1]
        ELSE best[k - 1]
  IN  best

Counts(rows, c) == [p \in ToSet(Policies) |-> Count(rows, c, p)]

(* Mutant: of policies with equal counts the last one is taken.            *)
MajorityLast(rows, c) ==
  LET names == Reverse(Competing(rows, c))
  IN  BestTo(names, Counts(rows, c))[Len(names) - 1]

(* The policy most user models name; of several the first by name.         *)
Majority(rows, c) ==
  LET names == Competing(rows, c)
  IN  BestTo(names, Counts(rows, c))[Len(names) - 1]

-----------------------------------------------------------------------------
(* A change by an operator is in the middle of every run under way;        *)
(* deleted: the collections of which it deletes groups.                    *)
Operator(deleted) ==
  /\ events' = events + 1
  /\ run' = [r \in Runs |->
       IF run[r].pc = "idle" THEN run[r]
       ELSE [run[r] EXCEPT
               !.quiet = FALSE,
               !.stirred = @ \/ (run[r].todo # <<>> /\ Head(run[r].todo) \in deleted)]]

Exists(c) == groups[c] # Gone

CreateCollection(c) ==
  /\ ~Exists(c)
  /\ Operator({})
  /\ groups' = [groups EXCEPT ![c] = <<>>]
  /\ strategy' = [strategy EXCEPT ![c] = Plain(<<>>)]
  /\ UNCHANGED bound

(* Mutant: a collection is deleted with user models bound to it.           *)
DeleteCollectionAnyway(c) ==
  /\ Exists(c)
  /\ Operator({c})
  /\ groups' = [groups EXCEPT ![c] = Gone]
  /\ UNCHANGED <<strategy, bound>>

(* The foreign key refuses it while a user model is bound to it.           *)
DeleteCollection(c) ==
  /\ Exists(c)
  /\ \A u \in Users : bound[u] # c
  /\ Operator({c})
  /\ groups' = [groups EXCEPT ![c] = Gone]
  /\ UNCHANGED <<strategy, bound>>

CreateGroup(c, g, i) ==
  /\ Exists(c)
  /\ i \in 1..Len(groups[c]) + 1
  /\ \A j \in DOMAIN groups[c] : groups[c][j].name # g.name
  /\ Operator({})
  /\ groups' = [groups EXCEPT ![c] = InsertAt(@, i, g)]
  /\ UNCHANGED <<strategy, bound>>

(* Its type, its config, and, by ReplaceMembers, its members' windows; its *)
(* position too.                                                           *)
UpdateGroup(c, g, i, j) ==
  /\ Exists(c)
  /\ i \in DOMAIN groups[c] /\ j \in DOMAIN groups[c]
  /\ groups[c][i].name = g.name
  /\ i # j \/ g # groups[c][i]
  /\ Operator({})
  /\ groups' = [groups EXCEPT ![c] = InsertAt(RemoveAt(@, i), j, g)]
  /\ UNCHANGED <<strategy, bound>>

Referenced(s) == ToSet(s.chain) \cup ToSet(s.compacts)

DeleteGroup(c, i) ==
  /\ Exists(c)
  /\ i \in DOMAIN groups[c]
  /\ groups[c][i].name \notin Referenced(strategy[c])
  /\ Operator({c})
  /\ groups' = [groups EXCEPT ![c] = RemoveAt(@, i)]
  /\ UNCHANGED <<strategy, bound>>

(* validateStrategy, given the groups of the collection.                   *)
Valid(s, l) ==
  /\ Referenced(s) \subseteq ToSet(NamesOf(l))
  /\ IsInjective(s.chain)
  /\ s.enabled => s.threshold > 0 /\ s.compacts # <<>>

SetStrategy(c, s) ==
  /\ Exists(c)
  /\ Valid(s, groups[c])
  /\ Operator({})
  /\ strategy' = [strategy EXCEPT ![c] = s]
  /\ UNCHANGED <<groups, bound>>

(* A user model is bound elsewhere, and keeps its policy.                  *)
MoveUser(u, c) ==
  /\ bound[u] # Nowhere /\ bound[u] # c
  /\ Exists(c)
  /\ Operator({})
  /\ bound' = [bound EXCEPT ![u] = c]
  /\ UNCHANGED <<groups, strategy>>

DeleteUser(u) ==
  /\ bound[u] # Nowhere
  /\ Operator({})
  /\ bound' = [bound EXCEPT ![u] = Nowhere]
  /\ UNCHANGED <<groups, strategy>>

-----------------------------------------------------------------------------
(* A run.                                                                  *)

Step(r, change) == run' = [run EXCEPT ![r] = change]

(* A query fails, or a copy is old.                                        *)
Fault(r, change) ==
  /\ events < MaxEvents
  /\ events' = events + 1
  /\ Step(r, change)

(* The handler answers with the error, and the report so far is dropped.   *)
Failure(at, step) ==
  [at EXCEPT !.pc = step, !.mapped = {}, !.unmapped = {}, !.conflicts = {}]

(* policyRefs: the bindings of all user models.                            *)
Start(r) ==
  /\ run[r].pc = "idle"
  /\ Step(r, [Idle EXCEPT
       !.pc = "next",
       !.rows = bound,
       !.todo = Selected(Collections, {c \in ToSet(Collections) : Competing(bound, c) # <<>>})])
  /\ UNCHANGED <<db, events>>

(* Its query fails, and the run with it.                                   *)
MissBindings(r) ==
  /\ run[r].pc = "idle"
  /\ Fault(r, [Idle EXCEPT !.pc = "failed", !.quiet = FALSE])
  /\ UNCHANGED db

Current(r) == Head(run[r].todo)

Chosen(r) == Majority(run[r].rows, Current(r))

Conflict(r) ==
  LET names == Competing(run[r].rows, Current(r))
  IN IF Len(names) > 1
     THEN {[collection |-> Current(r), policies |-> names, chosen |-> Chosen(r)]}
     ELSE {}

(* The groups read, or none because the collection is deleted between the  *)
(* query that finds it and the query of its groups.                        *)
ReadGroups(r) ==
  LET l == IF Exists(Current(r)) THEN groups[Current(r)] ELSE <<>> IN
  /\ run[r].pc = "next" /\ run[r].todo # <<>>
  /\ Step(r, [run[r] EXCEPT
       !.pc = IF AsksWindow(Chosen(r), l) THEN "window" ELSE "check",
       !.listed = l,
       !.plan = MapPolicy(Chosen(r), l, 0),
       !.known = Chosen(r) \in Scripts,
       !.conflicts = @ \cup Conflict(r),
       !.stirred = FALSE])
  /\ UNCHANGED <<db, events>>

(* Not found, or a query fails: the empty strategy, as of an unknown name. *)
MissGroups(r) ==
  LET next == [run[r] EXCEPT
        !.pc = "check", !.listed = <<>>, !.plan = Plain(<<>>), !.known = FALSE,
        !.conflicts = @ \cup Conflict(r), !.blind = TRUE, !.stirred = FALSE] IN
  /\ run[r].pc = "next" /\ run[r].todo # <<>>
  /\ IF Exists(Current(r))
     THEN Fault(r, [next EXCEPT !.quiet = FALSE])
     ELSE Step(r, next) /\ UNCHANGED events
  /\ UNCHANGED db

Planned(r, window) ==
  [run[r] EXCEPT !.pc = "check", !.plan = MapPolicy(Chosen(r), run[r].listed, window)]

(* The snapshot of the collection as it is: with no collection, no window. *)
ReadWindow(r) ==
  LET l == IF Exists(Current(r)) THEN groups[Current(r)] ELSE <<>> IN
  /\ run[r].pc = "window"
  /\ Step(r, Planned(r, MaxPrimaryWindow(l)))
  /\ UNCHANGED <<db, events>>

(* No snapshot, or an old copy of it.                                      *)
MisreadWindow(r, window) ==
  /\ run[r].pc = "window"
  /\ Fault(r, [Planned(r, window) EXCEPT !.quiet = FALSE])
  /\ UNCHANGED db

(* SetStrategy, as far as its checks.                                      *)
Check(r) ==
  /\ run[r].pc = "check"
  /\ Exists(Current(r))
  /\ IF Valid(run[r].plan, groups[Current(r)])
     THEN Step(r, [run[r] EXCEPT !.pc = "write"])
     ELSE Step(r, Failure(run[r], "refused"))
  /\ UNCHANGED <<db, events>>

(* It writes what it has planned, over what the others have written.       *)
Update(r) ==
  /\ strategy' = [strategy EXCEPT ![Current(r)] = run[r].plan]
  /\ UNCHANGED <<groups, bound>>

(* The runs while r writes, r itself aside.                                *)
Overwriting(r) ==
  [q \in Runs |->
     IF run[r].quiet \/ run[q].pc = "idle" THEN run[q]
     ELSE [run[q] EXCEPT !.overwritten = @ \cup {Current(r)}]]

(* SetStrategy's UPDATE, and what the loop does after it.                  *)
Entry(r) == [collection |-> Current(r), policy |-> Chosen(r)]

Write(r) ==
  /\ run[r].pc = "write"
  /\ Exists(Current(r))
  /\ Update(r)
  /\ run' = [Overwriting(r) EXCEPT ![r] = [run[r] EXCEPT
       !.pc = "next",
       !.todo = Tail(@),
       !.mapped = IF run[r].known THEN @ \cup {Entry(r)} ELSE @,
       !.unmapped = IF run[r].known THEN @ ELSE @ \cup {Entry(r)},
       !.overwritten = @ \ {Current(r)}]]
  /\ UNCHANGED events

(* Its collection is not there, or a query of SetStrategy fails.           *)
Fail(r) ==
  /\ run[r].pc \in {"check", "write"}
  /\ IF Exists(Current(r))
     THEN Fault(r, Failure(run[r], "failed"))
     ELSE Step(r, Failure(run[r], "failed")) /\ UNCHANGED events
  /\ UNCHANGED db

(* Its UPDATE fails, and has been executed even so.                        *)
FailLate(r) ==
  /\ run[r].pc = "write"
  /\ Exists(Current(r))
  /\ events < MaxEvents
  /\ events' = events + 1
  /\ Update(r)
  /\ run' = [Overwriting(r) EXCEPT ![r] = Failure(run[r], "failed")]

Finish(r) ==
  /\ run[r].pc = "next" /\ run[r].todo = <<>>
  /\ Step(r, [run[r] EXCEPT !.pc = "done"])
  /\ UNCHANGED <<db, events>>

Answer(r) ==
  /\ run[r].pc \in {"done", "refused", "failed"}
  /\ Step(r, Idle)
  /\ UNCHANGED <<db, events>>

-----------------------------------------------------------------------------
Operate ==
  /\ events < MaxEvents
  /\ \/ \E c \in ToSet(Collections) :
          \/ CreateCollection(c) \/ DeleteCollection(c)
          \/ \E g \in Groups, i \in 1..Cardinality(Names) :
               \/ CreateGroup(c, g, i)
               \/ \E j \in 1..Cardinality(Names) : UpdateGroup(c, g, i, j)
          \/ \E i \in 1..Cardinality(Names) : DeleteGroup(c, i)
          \/ \E s \in Strategies : SetStrategy(c, s)
          \/ \E u \in Users : MoveUser(u, c)
     \/ \E u \in Users : DeleteUser(u)

Advance(r) ==
  \/ ReadGroups(r) \/ MissGroups(r)
  \/ ReadWindow(r) \/ \E w \in Windows : MisreadWindow(r, w)
  \/ Check(r) \/ Write(r) \/ Fail(r) \/ FailLate(r) \/ Finish(r) \/ Answer(r)

Next == Operate \/ \E r \in Runs : Start(r) \/ MissBindings(r) \/ Advance(r)

Spec == Init /\ [][Next]_vars

-----------------------------------------------------------------------------
EntryType == [collection : ToSet(Collections), policy : ToSet(Policies)]

ConflictType ==
  [collection : ToSet(Collections), policies : Seq(ToSet(Policies)), chosen : ToSet(Policies)]

RunType ==
  [pc : {"idle", "next", "window", "check", "write", "done", "refused", "failed"},
   rows : [Users -> {Nowhere} \cup ToSet(Collections)],
   todo : Seq(ToSet(Collections)), listed : Layouts, plan : StrategyType, known : BOOLEAN,
   mapped : SUBSET EntryType, unmapped : SUBSET EntryType, conflicts : SUBSET ConflictType,
   blind : BOOLEAN, stirred : BOOLEAN, quiet : BOOLEAN,
   overwritten : SUBSET ToSet(Collections)]

(* Tables and runs have their types, every user model is bound to a        *)
(* collection that exists, and what a run has to do are collections it has *)
(* read of, the one it is at among them.                                   *)
TypeOK ==
  /\ groups \in [ToSet(Collections) -> {Gone} \cup Layouts]
  /\ strategy \in [ToSet(Collections) -> StrategyType]
  /\ bound \in [Users -> {Nowhere} \cup ToSet(Collections)]
  /\ \A u \in Users : bound[u] # Nowhere => Exists(bound[u])
  /\ events \in 0..MaxEvents
  /\ run \in [Runs -> RunType]
  /\ \A r \in Runs :
       /\ run[r].pc \in {"window", "check", "write"} => run[r].todo # <<>>
       /\ \A c \in ToSet(run[r].todo) : \E u \in Users : run[r].rows[u] = c

(* What a policy is mapped to is never refused, whatever groups there are  *)
(* and whatever the windows say: SetStrategy refuses it only where one of  *)
(* the groups it was made for has been deleted since (mapPolicy,           *)
(* mapCompactOverflow, validateStrategy).                                  *)
RefusedOnlyIfStirred == \A r \in Runs : run[r].pc = "refused" => run[r].stirred

(* The policy of a collection, as declared: no other is named by more user *)
(* models, nor by as many if its name comes first.                         *)
IsFavourite(p, rows, c) ==
  \E i \in DOMAIN Policies :
    /\ Policies[i] = p
    /\ Count(rows, c, p) > 0
    /\ \A j \in DOMAIN Policies :
         /\ Count(rows, c, Policies[j]) <= Count(rows, c, p)
         /\ j < i => Count(rows, c, Policies[j]) < Count(rows, c, p)

(* The strategy of a policy, as declared, over the groups l.               *)
InOrder(chain, l, included) ==
  \E place \in [DOMAIN chain -> DOMAIN l] :
    /\ {place[a] : a \in DOMAIN chain} = included
    /\ \A a, b \in DOMAIN chain : a < b => place[a] < place[b]
    /\ \A a \in DOMAIN chain : chain[a] = l[place[a]].name

Intended(p, l, s) ==
  LET compacts  == {i \in DOMAIN l : l[i].compact}
      primaries == DOMAIN l \ compacts
      declaring == {i \in primaries : l[i].config > 0}
  IN IF p # "compact_overflow" \/ compacts = {}
     THEN InOrder(s.chain, l, DOMAIN l) /\ ~s.enabled /\ s.compacts = <<>>
     ELSE /\ InOrder(s.chain, l, primaries)
          /\ InOrder(s.compacts, l, compacts)
          /\ s.enabled <=> \E i \in primaries : l[i].config > 0 \/ l[i].window > 0
          /\ s.enabled =>
               IF declaring # {}
               THEN \E i \in declaring : (\A j \in declaring : i <= j) /\ s.threshold = l[i].config
               ELSE /\ \E i \in primaries : l[i].window = s.threshold
                    /\ \A i \in primaries : l[i].window <= s.threshold

(* A run beside which no operator writes, and which reads everything as it *)
(* is, is not refused, and every collection it has come past, when it is   *)
(* done or when it has failed on the way, has the strategy of its policy,  *)
(* whatever other runs do at the same time: none but a run that has been   *)
(* disturbed itself replaces it.  When it is done it has come past every   *)
(* collection that is referred to, and all are in its report as they       *)
(* should be.  So a migration "can be run again", is "idempotent" and      *)
(* "converges" (Migrate, majority, mapPolicy).                             *)
UndisturbedRunsMigrateAll ==
  \A r \in Runs : run[r].quiet /\ run[r].pc # "idle" =>
    LET referred == {c \in ToSet(Collections) : \E u \in Users : bound[u] = c} IN
    /\ run[r].pc # "refused"
    /\ \A c \in referred \ (ToSet(run[r].todo) \cup run[r].overwritten) :
         \E p \in ToSet(Policies) :
           IsFavourite(p, bound, c) /\ Intended(p, groups[c], strategy[c])
    /\ run[r].pc = "done" =>
         /\ run[r].todo = <<>>
         /\ {e.collection : e \in run[r].mapped \cup run[r].unmapped} = referred
         /\ \A e \in run[r].mapped \cup run[r].unmapped :
              /\ IsFavourite(e.policy, bound, e.collection)
              /\ e \in run[r].mapped <=> e.policy \in Scripts
         /\ {e.collection : e \in run[r].conflicts} =
              {c \in referred : \E u, v \in Users :
                 bound[u] = c /\ bound[v] = c /\ PolicyOf[u] # PolicyOf[v]}

(* The code's comment: where the groups of a collection could not be read, *)
(* SetStrategy's checks bring the error to light.                          *)
ErrorsExposed == \A r \in Runs : run[r].pc = "done" => ~run[r].blind
=============================================================================
