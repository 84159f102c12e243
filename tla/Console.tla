------------------------------- MODULE Console -------------------------------
(***************************************************************************)
(* The console's collections page (src/frontend/lib/pages): the list of    *)
(* collections, the groups of the one selected, and the editor of the      *)
(* members of one group.  Every call of the server is an await: the        *)
(* operator goes on working while it is under way, calls are served and    *)
(* answered in any order, and what follows an await finds the page as the  *)
(* others have left it.                                                    *)
(*                                                                         *)
(* The server is external and this page its only user (Collections has     *)
(* what several may do, and what a snapshot may be); it answers as its     *)
(* rows are, refuses, is not reached, or answers what nobody waits for.  A *)
(* dialog opens and closes in one step.  Names of groups are numbers, in   *)
(* alphabetical order; of a group there are the position and the members,  *)
(* of a note nothing.                                                      *)
(***************************************************************************)
EXTENDS Integers, SequencesExt

CONSTANTS
  Collections,  \* the names of collections
  Groups,       \* the names of groups
  Lists,        \* the lists of members a group may have
  NoMembers,    \* the empty list, of a group just created
  Server0,      \* what the server holds when the page is opened
  Tasks,        \* asynchronous functions that may be under way at once
  Null,         \* null; also a row that is not there
  MaxActs,      \* bound on what the operator does
  MaxFaults     \* bound on the calls that fail

Entry == [name : Groups, position : Nat]

GroupRow == [position : Nat, members : Lists]

Rows == [Groups -> GroupRow \cup {Null}]

Snapshots == [Groups -> Lists \cup {Null}]

EditorType ==
  [key : Collections \X Groups, members : Lists, dirty : BOOLEAN,
   busy : Tasks \cup {Null}]

(* Null is none of the values it stands for the absence of.                *)
ASSUME ConsoleAssumption ==
  /\ Groups \subseteq Nat /\ IsFiniteSet(Groups)
  /\ NoMembers \in Lists
  /\ Server0 \in [Collections -> Rows \cup {Null}]
  /\ Null \notin Collections \cup Groups \cup Lists \cup GroupRow \cup Tasks
  /\ Null \notin Rows /\ \A s \in SUBSET Collections : s # Null
  /\ Null \notin Seq(Entry) /\ Null \notin Snapshots /\ Null \notin EditorType
  /\ MaxActs \in Nat /\ MaxFaults \in Nat

VARIABLES
  server,         \* external: the rows of groups and group_members
  collections,    \* _collections; null while it is loaded
  error,          \* _error
  selected,       \* _selected
  selectedGroup,  \* _selectedGroup
  groups,         \* _groups; null while they are loaded
  snapshot,       \* _snapshot: the members of each group
  detailError,    \* _detailError
  reordering,     \* _reordering
  editor,         \* the state of the MembersEditor; null while there is none
  task,           \* the asynchronous functions, each waiting for a call
  late,           \* external: the calls given up that are still on their way
  shownOf,        \* history: the collection whose groups are shown
  crossed,        \* history: since a reload began alone, two functions were
                  \* under way at once, a change failed or was given up, or
                  \* the editor was left while its save was under way
  acts,           \* what the operator has done so far
  faults          \* calls failed so far

vars == <<server, collections, error, selected, selectedGroup, groups, snapshot,
          detailError, reordering, editor, task, late, shownOf, crossed, acts, faults>>

list    == <<collections, error>>
choice  == <<selected, selectedGroup>>
detail  == <<groups, snapshot, detailError, shownOf>>
history == <<late, crossed, acts, faults>>

-----------------------------------------------------------------------------
(* Asynchronous functions.  A task is at one await: the call it has made   *)
(* and the answer, once there is one.                                      *)

Free == [op |-> "free"]

InFlight(i) == task[i].op # "free"

Waiting == [kind |-> "waiting"]
Failed  == [kind |-> "failed"]
Ok(x)   == [kind |-> "ok", value |-> x]

Call(op, of, arg, reorder) ==
  [op |-> op, of |-> of, arg |-> arg, reorder |-> reorder, answer |-> Waiting]

Reads   == {"list", "groups", "snapshot"}
OfCollections == {"createCollection", "updateNote", "deleteCollection"}
OfGroups      == {"createGroup", "updateGroup", "deleteGroup"}
Changes       == OfCollections \cup OfGroups \cup {"save"}

Answered(i) == InFlight(i) /\ task[i].answer.kind = "ok"
Erred(i)    == InFlight(i) /\ task[i].answer.kind = "failed"

Continue(i, call) == task' = [task EXCEPT ![i] = call]

Finish(i) == Continue(i, Free)

(* The operator starts a function in a free task.                          *)
Act == acts < MaxActs /\ acts' = acts + 1 /\ UNCHANGED <<late, faults>>

Alone(i) == \A j \in Tasks \ {i} : ~InFlight(j)

Start(i, reload) ==
  /\ ~InFlight(i)
  /\ Act
  /\ crossed' = IF Alone(i) /\ late = {} THEN crossed /\ ~reload ELSE TRUE

-----------------------------------------------------------------------------
(* The server.                                                             *)

Existing == {c \in Collections : server[c] # Null}

Has(c, g) == c \in Existing /\ server[c][g] # Null

(* The groups of a collection, in the order of a listing.                  *)
Entries(c) == {[name |-> g, position |-> server[c][g].position] :
                 g \in {h \in Groups : Has(c, h)}}

Precedes(x, y) == \/ x.position < y.position
                  \/ x.position = y.position /\ x.name < y.name

Listing(c) ==
  CHOOSE s \in [1 .. Cardinality(Entries(c)) -> Entries(c)] :
    \A k, l \in DOMAIN s : k < l => Precedes(s[k], s[l])

MembersOf(c) ==
  [g \in Groups |-> IF Has(c, g) THEN server[c][g].members ELSE Null]

Accepts(t) ==
  CASE t.op = "list"             -> TRUE
    [] t.op = "createCollection" -> t.of \notin Existing
    [] t.op = "createGroup"      -> t.of \in Existing /\ ~Has(t.of, t.arg.name)
    [] t.op \in {"groups", "snapshot", "updateNote", "deleteCollection"} ->
         t.of \in Existing
    [] t.op = "reorder"          -> Has(t.of, t.arg.order[t.arg.at].name)
    [] OTHER                     -> Has(t.of, t.arg.name)

Value(t) ==
  CASE t.op = "list"     -> Existing
    [] t.op = "groups"   -> Listing(t.of)
    [] t.op = "snapshot" -> MembersOf(t.of)
    [] OTHER             -> Null

Moved(c, g, n) == [server EXCEPT ![c][g].position = n]

After(t) ==
  CASE t.op \in Reads \cup {"updateNote"} -> server
    [] t.op = "createCollection" -> [server EXCEPT ![t.of] = [g \in Groups |-> Null]]
    [] t.op = "deleteCollection" -> [server EXCEPT ![t.of] = Null]
    [] t.op = "createGroup"    ->
         [server EXCEPT ![t.of][t.arg.name] =
            [position |-> t.arg.position, members |-> NoMembers]]
    [] t.op = "updateGroup"    -> Moved(t.of, t.arg.name, t.arg.position)
    [] t.op = "deleteGroup"    -> [server EXCEPT ![t.of][t.arg.name] = Null]
    [] t.op = "reorder"        -> Moved(t.of, t.arg.order[t.arg.at].name, t.arg.at - 1)
    [] t.op = "save"           -> [server EXCEPT ![t.of][t.arg.name].members = t.arg.members]

Reply(i, answer) == task' = [task EXCEPT ![i].answer = answer]

(* The call is handled, now and not when it was made.                      *)
Handle(i) ==
  /\ InFlight(i)
  /\ task[i].answer = Waiting
  /\ IF Accepts(task[i])
     THEN server' = After(task[i]) /\ Reply(i, Ok(Value(task[i])))
     ELSE server' = server /\ Reply(i, Failed)
  /\ UNCHANGED <<list, choice, detail, reordering, editor, history>>

(* The call does not reach the server, or its answer does not come back.   *)
Fault(i) ==
  /\ InFlight(i)
  /\ ~Erred(i)
  /\ faults < MaxFaults
  /\ faults' = faults + 1
  /\ Reply(i, Failed)
  /\ crossed' = (crossed \/ task[i].op \in Changes)
  /\ UNCHANGED <<server, list, choice, detail, reordering, editor, late, acts>>

(* The page waits for its time-out and no longer; the call goes on.        *)
TimeOut(i) ==
  /\ InFlight(i)
  /\ task[i].answer = Waiting
  /\ task[i].op \notin Reads
  /\ faults < MaxFaults
  /\ faults' = faults + 1
  /\ Reply(i, Failed)
  /\ late' = late \cup {task[i]}
  /\ crossed' = TRUE
  /\ UNCHANGED <<server, list, choice, detail, reordering, editor, acts>>

HandleLate(t) ==
  /\ server' = IF Accepts(t) THEN After(t) ELSE server
  /\ late' = late \ {t}
  /\ UNCHANGED <<list, choice, detail, reordering, editor, task, crossed, acts, faults>>

-----------------------------------------------------------------------------
(* The page is built again.  The editor lives as long as its group is      *)
(* shown under its key; a new snapshot replaces its members unless they    *)
(* were edited.                                                            *)

Mounts ==
  /\ collections # Null /\ ~error
  /\ selected # Null /\ selectedGroup # Null
  /\ snapshot # Null /\ snapshot[selectedGroup] # Null

Key == <<selected, selectedGroup>>

(* Mutant: an editor stays when its group is no longer shown.              *)
RebuildKeeps(e) ==
  editor' = IF ~Mounts' THEN e
            ELSE IF e = Null \/ e.key # Key'
            THEN [key |-> Key', members |-> snapshot'[selectedGroup'],
                  dirty |-> FALSE, busy |-> Null]
            ELSE IF e.dirty \/ snapshot' = snapshot THEN e
            ELSE [e EXCEPT !.members = snapshot'[selectedGroup']]

Rebuild(e) ==
  editor' = IF ~Mounts' THEN Null
            ELSE IF e = Null \/ e.key # Key'
            THEN [key |-> Key', members |-> snapshot'[selectedGroup'],
                  dirty |-> FALSE, busy |-> Null]
            ELSE IF e.dirty \/ snapshot' = snapshot THEN e
            ELSE [e EXCEPT !.members = snapshot'[selectedGroup']]

Init ==
  \E i \in Tasks :
    /\ server = Server0
    /\ collections = Null /\ error = FALSE
    /\ selected = Null /\ selectedGroup = Null
    /\ groups = Null /\ snapshot = Null /\ detailError = FALSE /\ shownOf = Null
    /\ reordering = FALSE
    /\ editor = Null
    /\ task = [j \in Tasks |-> IF j = i THEN Call("list", Null, Null, FALSE) ELSE Free]
    /\ late = {} /\ crossed = FALSE /\ acts = 0 /\ faults = 0

(* The list: _load, which goes on to the detail of what is selected.       *)
BeginList(i) ==
  /\ collections' = Null /\ error' = FALSE
  /\ Continue(i, Call("list", Null, Null, FALSE))

(* _loadDetail, from its first line to its first await.                    *)
BeginDetail(i, c, reorder) ==
  /\ groups' = Null /\ snapshot' = Null /\ detailError' = FALSE /\ shownOf' = Null
  /\ Continue(i, Call("groups", c, Null, reorder))

Refresh(i) ==
  /\ collections # Null \/ error
  /\ Start(i, TRUE)
  /\ BeginList(i)
  /\ UNCHANGED <<server, choice, detail, reordering>>
  /\ Rebuild(editor)

(* The list has come: a collection selected and no longer in it is no      *)
(* longer selected, any other is loaded.                                   *)
ReturnList(i) ==
  /\ task[i].op = "list" /\ Answered(i)
  /\ collections' = task[i].answer.value
  /\ IF selected = Null THEN Finish(i) /\ UNCHANGED <<selected, detail>>
     ELSE IF selected \in collections'
     THEN BeginDetail(i, selected, FALSE) /\ UNCHANGED selected
     ELSE /\ selected' = Null /\ groups' = Null /\ snapshot' = Null /\ shownOf' = Null
          /\ Finish(i)
          /\ UNCHANGED detailError
  /\ UNCHANGED <<server, error, selectedGroup, reordering, history>>
  /\ Rebuild(editor)

ReturnListFailed(i) ==
  /\ task[i].op = "list" /\ Erred(i)
  /\ error' = TRUE
  /\ Finish(i)
  /\ UNCHANGED <<server, collections, choice, detail, reordering, history>>
  /\ Rebuild(editor)

-----------------------------------------------------------------------------
(* The detail: _loadDetail.  It never asks whether the collection it was   *)
(* called for is still the one selected.                                   *)

PageReady   == collections # Null /\ ~error
DetailReady == PageReady /\ selected # Null /\ groups # Null /\ ~detailError

(* Mutant: what is shown of the old selection stays until the answer.      *)
SelectKeepsDetail(i, c) ==
  /\ PageReady /\ c \in collections
  /\ Start(i, TRUE)
  /\ selected' = c
  /\ Continue(i, Call("groups", c, Null, FALSE))
  /\ UNCHANGED <<server, list, selectedGroup, detail, reordering>>
  /\ Rebuild(editor)

Select(i, c) ==
  /\ PageReady /\ c \in collections
  /\ Start(i, TRUE)
  /\ selected' = c
  /\ BeginDetail(i, c, FALSE)
  /\ UNCHANGED <<server, list, selectedGroup, reordering>>
  /\ Rebuild(editor)

(* The refresh of the groups, and the retry after an error.                *)
RefreshDetail(i) ==
  /\ DetailReady \/ (PageReady /\ selected # Null /\ detailError)
  /\ Start(i, TRUE)
  /\ BeginDetail(i, selected, FALSE)
  /\ UNCHANGED <<server, list, choice, reordering>>
  /\ Rebuild(editor)

(* Another group takes the editor away, and with it the reload that would  *)
(* follow a save still under way.                                          *)
SelectGroup(g) ==
  /\ DetailReady
  /\ \E k \in DOMAIN groups : groups[k].name = g
  /\ Act
  /\ selectedGroup' = g
  /\ crossed' = (crossed \/ (g # selectedGroup /\ \E i \in Tasks : task[i].op = "save"))
  /\ UNCHANGED <<server, list, selected, detail, reordering, task>>
  /\ Rebuild(editor)

ReturnGroups(i) ==
  /\ task[i].op = "groups" /\ Answered(i)
  /\ Continue(i, Call("snapshot", task[i].of, task[i].answer.value, task[i].reorder))
  /\ UNCHANGED <<server, list, choice, detail, reordering, editor, history>>

(* The reorder that waited for the load is over with it.                   *)
EndReorder(i) == reordering' = (reordering /\ ~task[i].reorder)

ReturnSnapshot(i) ==
  /\ task[i].op = "snapshot" /\ Answered(i)
  /\ groups' = task[i].arg
  /\ snapshot' = task[i].answer.value
  /\ shownOf' = task[i].of
  /\ EndReorder(i)
  /\ Finish(i)
  /\ UNCHANGED <<server, list, choice, detailError, history>>
  /\ Rebuild(editor)

(* Mutant: the error is only shown in passing.                             *)
ReturnDetailFailedUnseen(i) ==
  /\ task[i].op \in {"groups", "snapshot"} /\ Erred(i)
  /\ EndReorder(i)
  /\ Finish(i)
  /\ UNCHANGED <<server, list, choice, detail, history>>
  /\ Rebuild(editor)

ReturnDetailFailed(i) ==
  /\ task[i].op \in {"groups", "snapshot"} /\ Erred(i)
  /\ detailError' = TRUE
  /\ EndReorder(i)
  /\ Finish(i)
  /\ UNCHANGED <<server, list, choice, groups, snapshot, shownOf, history>>
  /\ Rebuild(editor)

-----------------------------------------------------------------------------
(* Changes.  Each is one call, followed by a reload if it is answered and  *)
(* by a message if it fails.                                               *)

Submit(i, op, c, arg) ==
  /\ Start(i, FALSE)
  /\ Continue(i, Call(op, c, arg, FALSE))
  /\ UNCHANGED <<server, list, choice, detail, reordering, editor>>

CreateCollection(i, c) == PageReady /\ Submit(i, "createCollection", c, Null)

EditNote(i, c) == PageReady /\ c \in collections /\ Submit(i, "updateNote", c, Null)

DeleteCollection(i, c) ==
  PageReady /\ c \in collections /\ Submit(i, "deleteCollection", c, Null)

CreateGroup(i, g) ==
  /\ DetailReady
  /\ Submit(i, "createGroup", selected, [name |-> g, position |-> Len(groups)])

(* What is sent is the row as shown, with the position it had when it was  *)
(* loaded; what the form changes of it is not modelled.                    *)
EditGroup(i, k) ==
  /\ DetailReady /\ k \in DOMAIN groups
  /\ Submit(i, "updateGroup", selected, groups[k])

DeleteGroup(i, k) ==
  /\ DetailReady /\ k \in DOMAIN groups
  /\ Submit(i, "deleteGroup", selected, groups[k])

ReturnCollectionChange(i) ==
  /\ task[i].op \in OfCollections /\ Answered(i)
  /\ BeginList(i)
  /\ UNCHANGED <<server, choice, detail, reordering, history>>
  /\ Rebuild(editor)

(* Mutant: the groups are not loaded again.                                *)
ReturnGroupChangeOnly(i) ==
  /\ task[i].op \in OfGroups /\ Answered(i)
  /\ Finish(i)
  /\ UNCHANGED <<server, list, choice, detail, reordering, editor, history>>

(* The detail loaded is of the collection the change was made in, even if  *)
(* another has been selected since.                                        *)
ReturnGroupChange(i) ==
  /\ task[i].op \in OfGroups /\ Answered(i)
  /\ BeginDetail(i, task[i].of, FALSE)
  /\ UNCHANGED <<server, list, choice, reordering, history>>
  /\ Rebuild(editor)

ReturnChangeFailed(i) ==
  /\ task[i].op \in Changes \ {"save"} /\ Erred(i)
  /\ Finish(i)
  /\ UNCHANGED <<server, list, choice, detail, reordering, editor, history>>

(* _reorderGroups: one call for each group whose position is not its       *)
(* place, in order, then the detail, also after a call that failed.        *)
Misplaced(order, from) ==
  {k \in from .. Len(order) : order[k].position # k - 1}

SendReorder(i, c, order, from, shown) ==
  IF Misplaced(order, from) = {}
  THEN BeginDetail(i, c, TRUE)
  ELSE LET at == CHOOSE k \in Misplaced(order, from) :
                   \A l \in Misplaced(order, from) : k <= l
       IN  /\ Continue(i, Call("reorder", c, [order |-> order, at |-> at], TRUE))
           /\ groups' = shown
           /\ UNCHANGED <<snapshot, detailError, shownOf>>

Dragged(from, to) == InsertAt(RemoveAt(groups, from), to, groups[from])

Drag(i, from, to) ==
  /\ DetailReady /\ ~reordering /\ from # to
  /\ {from, to} \subseteq DOMAIN groups
  /\ Start(i, FALSE)
  /\ reordering' = TRUE
  /\ SendReorder(i, selected, Dragged(from, to), 1, Dragged(from, to))
  /\ UNCHANGED <<server, list, choice>>
  /\ Rebuild(editor)

ReturnReorder(i) ==
  /\ task[i].op = "reorder" /\ Answered(i)
  /\ SendReorder(i, task[i].of, task[i].arg.order, task[i].arg.at + 1, groups)
  /\ UNCHANGED <<server, list, choice, reordering, history>>
  /\ Rebuild(editor)

ReturnReorderFailed(i) ==
  /\ task[i].op = "reorder" /\ Erred(i)
  /\ BeginDetail(i, task[i].of, TRUE)
  /\ UNCHANGED <<server, list, choice, reordering, history>>
  /\ Rebuild(editor)

-----------------------------------------------------------------------------
(* The editor of members.                                                  *)

(* Drag, remove and add: the list, and nothing but the list, is changed.   *)
(* The page lets a member be dragged while a save is under way.            *)
EditMembers(l) ==
  /\ editor # Null
  /\ l # editor.members
  /\ Act
  /\ editor' = [editor EXCEPT !.members = l, !.dirty = TRUE]
  /\ UNCHANGED <<server, list, choice, detail, reordering, task, crossed>>

Revert ==
  /\ editor # Null /\ editor.dirty /\ editor.busy = Null
  /\ Act
  /\ editor' = [editor EXCEPT !.members = snapshot[selectedGroup], !.dirty = FALSE]
  /\ UNCHANGED <<server, list, choice, detail, reordering, task, crossed>>

Save(i) ==
  /\ editor # Null /\ editor.dirty /\ editor.busy = Null
  /\ Start(i, FALSE)
  /\ Continue(i, Call("save", editor.key[1],
                      [name |-> editor.key[2], members |-> editor.members], FALSE))
  /\ editor' = [editor EXCEPT !.busy = i]
  /\ UNCHANGED <<server, list, choice, detail, reordering>>

(* The editor that made the call is still there.                           *)
Mounted(i) == editor # Null /\ editor.busy = i

(* Mutant: onSaved is not called.                                          *)
ReturnSaveOnly(i) ==
  /\ task[i].op = "save" /\ Answered(i)
  /\ Finish(i)
  /\ editor' = IF Mounted(i) THEN [editor EXCEPT !.dirty = FALSE, !.busy = Null]
               ELSE editor
  /\ UNCHANGED <<server, list, choice, detail, reordering, history>>

(* onSaved loads the detail, which takes the editor away with whatever was *)
(* edited during the save; without the editor nothing is loaded.           *)
ReturnSave(i) ==
  /\ task[i].op = "save" /\ Answered(i)
  /\ IF Mounted(i)
     THEN BeginDetail(i, editor.key[1], FALSE)
     ELSE Finish(i) /\ UNCHANGED detail
  /\ UNCHANGED <<server, list, choice, reordering, history>>
  /\ Rebuild(IF Mounted(i) THEN [editor EXCEPT !.dirty = FALSE, !.busy = Null]
             ELSE editor)

ReturnSaveFailed(i) ==
  /\ task[i].op = "save" /\ Erred(i)
  /\ Finish(i)
  /\ editor' = IF Mounted(i) THEN [editor EXCEPT !.busy = Null] ELSE editor
  /\ UNCHANGED <<server, list, choice, detail, reordering, history>>

-----------------------------------------------------------------------------
Operator(i) ==
  \/ Refresh(i) \/ RefreshDetail(i) \/ Save(i)
  \/ \E c \in Collections :
       \/ Select(i, c)
       \/ CreateCollection(i, c) \/ EditNote(i, c) \/ DeleteCollection(i, c)
  \/ \E g \in Groups : CreateGroup(i, g)
  \/ \E k \in 1 .. Cardinality(Groups) :
       \/ EditGroup(i, k) \/ DeleteGroup(i, k)
       \/ \E l \in 1 .. Cardinality(Groups) : Drag(i, k, l)

Return(i) ==
  \/ ReturnList(i) \/ ReturnListFailed(i)
  \/ ReturnGroups(i) \/ ReturnSnapshot(i) \/ ReturnDetailFailed(i)
  \/ ReturnCollectionChange(i) \/ ReturnGroupChange(i) \/ ReturnChangeFailed(i)
  \/ ReturnReorder(i) \/ ReturnReorderFailed(i)
  \/ ReturnSave(i) \/ ReturnSaveFailed(i)

Next ==
  \/ \E i \in Tasks : Operator(i) \/ Handle(i) \/ Fault(i) \/ TimeOut(i) \/ Return(i)
  \/ \E t \in late : HandleLate(t)
  \/ \E g \in Groups : SelectGroup(g)
  \/ \E l \in Lists : EditMembers(l)
  \/ Revert

Spec == Init /\ [][Next]_vars

-----------------------------------------------------------------------------
(* The fields of the page and of its editor have their types, and the      *)
(* editor is there exactly when the page shows its group.                  *)
TypeOK ==
  /\ server \in [Collections -> Rows \cup {Null}]
  /\ collections = Null \/ collections \subseteq Collections
  /\ error \in BOOLEAN /\ detailError \in BOOLEAN /\ reordering \in BOOLEAN
  /\ selected \in Collections \cup {Null} /\ shownOf \in Collections \cup {Null}
  /\ selectedGroup \in Groups \cup {Null}
  /\ groups = Null \/ groups \in Seq(Entry)
  /\ snapshot = Null \/ snapshot \in Snapshots
  /\ editor = Null \/ editor \in EditorType
  /\ (editor # Null) <=> Mounts
  /\ editor # Null => editor.key = Key
  /\ \A i \in Tasks : task[i].op \in {"free", "reorder"} \cup Reads \cup Changes

(* No spinner turns for ever: while the page or its groups are shown as    *)
(* being loaded, a load is under way whose end shows them or an error,     *)
(* whichever loads have been overtaken or have failed meanwhile (_load,    *)
(* _loadDetail).                                                           *)
SpinnersEnd ==
  /\ collections = Null /\ ~error => \E i \in Tasks : task[i].op = "list"
  /\ PageReady /\ selected # Null /\ groups = Null /\ ~detailError =>
       \E i \in Tasks : task[i].op \in {"groups", "snapshot"}

(* Members that differ from those last loaded are marked as unsaved.       *)
UnsavedMarked ==
  editor # Null /\ ~editor.dirty => editor.members = snapshot[selectedGroup]

Shown == DetailReady /\ snapshot # Null

(* The groups shown are those of the collection selected.                  *)
DetailOfSelected == Shown => shownOf = selected

(* They are others' only after two functions were under way at once.       *)
DetailOfSelectedUnlessCrossed == ~crossed => DetailOfSelected

(* Whatever the operator did, one thing after the other, when the page is  *)
(* at rest it shows what the server holds, after a change and after a      *)
(* reorder that failed half-way, and the list can be dragged again.        *)
AtRestShowsServer ==
  /\ Shown /\ ~crossed
  /\ \A i \in Tasks : ~InFlight(i)
  => /\ selected \in Existing
     /\ groups = Listing(selected)
     /\ snapshot = MembersOf(selected)
     /\ ~reordering
=============================================================================
