---------------------------- MODULE ConsoleProofs ----------------------------
(***************************************************************************)
(* Proofs about Console, for any collections, groups, members and tasks,   *)
(* and however much the operator does and however often calls fail.        *)
(***************************************************************************)
EXTENDS Console, ComposeProofs

(* Of some entries, one comes before all others.                           *)
LEMMA FirstEntry ==
  ASSUME NEW S \in SUBSET Entry, S # {}
  PROVE  \E x \in S : \A y \in S \ {x} : Precedes(x, y)
<1>0. /\ \A y \in Entry : y.position \in Nat /\ y.name \in Nat
      /\ \A y, z \in Entry : y.name = z.name /\ y.position = z.position => y = z
  <2>1. Groups \subseteq Nat
    BY ConsoleAssumption
  <2>2. ASSUME NEW y \in Entry PROVE y.position \in Nat /\ y.name \in Nat
    BY <2>1 DEF Entry
  <2>3. ASSUME NEW y \in Entry, NEW z \in Entry,
               y.name = z.name, y.position = z.position
        PROVE  y = z
    BY <2>3 DEF Entry
  <2>. QED
    BY <2>2, <2>3
<1>1. PICK x0 \in S : TRUE
  OBVIOUS
<1> DEFINE P == {p \in 0 .. x0.position : \E y \in S : y.position = p}
<1>2. PICK p \in P : \A q \in P : p <= q
  <2>1. x0.position \in Nat /\ x0.position \in P
    BY <1>0, <1>1
  <2>2. P \in SUBSET (0 .. x0.position) /\ P # {}
    BY <2>1
  <2> HIDE DEF P
  <2>. QED
    BY <2>1, <2>2, LeastUpTo
<1>3. \A y \in S : p <= y.position
  BY <1>0, <1>2
<1>4. PICK x1 \in S : x1.position = p
  BY <1>2
<1> DEFINE N == {n \in 0 .. x1.name : \E y \in S : y.position = p /\ y.name = n}
<1>5. PICK n \in N : \A m \in N : n <= m
  <2>1. x1.name \in Nat /\ x1.name \in N
    BY <1>0, <1>4
  <2>2. N \in SUBSET (0 .. x1.name) /\ N # {}
    BY <2>1
  <2> HIDE DEF N
  <2>. QED
    BY <2>1, <2>2, LeastUpTo
<1>6. \A y \in S : y.position = p => n <= y.name
  BY <1>0, <1>4, <1>5
<1>7. PICK x \in S : x.position = p /\ x.name = n
  BY <1>5
<1>8. ASSUME NEW y \in S \ {x} PROVE Precedes(x, y)
  <2>1. y.position # p \/ y.name # n
    BY <1>0, <1>7, <1>8
  <2>. QED
    BY <1>0, <1>3, <1>6, <1>7, <2>1 DEF Precedes
<1>. QED
  BY <1>8

IsListing(s, S) ==
  /\ s \in [1 .. Cardinality(S) -> S]
  /\ \A k, l \in DOMAIN s : k < l => Precedes(s[k], s[l])

(* The entry that comes first, in front of a listing of the others.        *)
LEMMA ListingGrows ==
  ASSUME NEW S \in SUBSET Entry, IsFiniteSet(S), NEW x \in S,
         \A y \in S \ {x} : Precedes(x, y),
         NEW t, IsListing(t, S \ {x})
  PROVE  \E s : IsListing(s, S)
<1> DEFINE n == Cardinality(S)
           T == S \ {x}
           s == [k \in 1 .. n |-> IF k = 1 THEN x ELSE t[k - 1]]
<1>1. n \in Nat \ {0} /\ Cardinality(T) = n - 1
  BY FS_CardinalityType, FS_RemoveElement, FS_EmptySet
<1>2. t \in [1 .. n - 1 -> T] /\ \A k, l \in 1 .. n - 1 : k < l => Precedes(t[k], t[l])
  BY <1>1 DEF IsListing
<1> HIDE DEF n
<1>3. s \in [1 .. n -> S]
  <2>. SUFFICES ASSUME NEW k \in 1 .. n PROVE s[k] \in S
    OBVIOUS
  <2>. QED
    BY <1>1, <1>2
<1>4. ASSUME NEW k \in 1 .. n, NEW l \in 1 .. n, k < l PROVE Precedes(s[k], s[l])
  <2>1. l - 1 \in 1 .. n - 1 /\ s[l] = t[l - 1]
    BY <1>1, <1>4
  <2>2. CASE k = 1
    BY <1>2, <2>1, <2>2
  <2>3. CASE k # 1
    <3>1. k - 1 \in 1 .. n - 1 /\ s[k] = t[k - 1] /\ k - 1 < l - 1
      BY <1>1, <1>4, <2>3
    <3>. QED
      BY <1>2, <2>1, <3>1
  <2>. QED
    BY <2>2, <2>3
<1>. QED
  BY <1>3, <1>4 DEF IsListing, n

(* Entries can be listed in order.                                         *)
LEMMA ListingExists ==
  ASSUME NEW S \in SUBSET Entry, IsFiniteSet(S)
  PROVE  \E s : IsListing(s, S)
<1> DEFINE Bad == {T \in SUBSET S : ~ \E s : IsListing(s, T)}
           n == Cardinality(S)
           N == {k \in 0 .. n : \E T \in Bad : Cardinality(T) = k}
<1>. SUFFICES ASSUME S \in Bad PROVE FALSE
  OBVIOUS
<1>0. n \in Nat /\ \A T \in SUBSET S : IsFiniteSet(T) /\ Cardinality(T) \in 0 .. n
  BY FS_CardinalityType, FS_Subset
<1>1. PICK k \in N : \A l \in N : k <= l
  <2>1. N \in SUBSET (0 .. n) /\ n \in N
    BY <1>0
  <2> HIDE DEF N, n
  <2>. QED
    BY <1>0, <2>1, LeastUpTo
<1>2. PICK T \in Bad : Cardinality(T) = k
  BY <1>1
<1>3. CASE T = {}
  <2> DEFINE e == [i \in 1 .. 0 |-> i]
  <2>1. IsListing(e, T)
    BY <1>3, FS_EmptySet DEF IsListing
  <2>. QED
    BY <1>2, <2>1
<1>4. CASE T # {}
  <2>1. PICK x \in T : \A y \in T \ {x} : Precedes(x, y)
    BY <1>4, FirstEntry
  <2>2. IsFiniteSet(T) /\ Cardinality(T \ {x}) = k - 1 /\ T \ {x} \in SUBSET S
    BY <1>0, <1>2, FS_RemoveElement
  <2>3. T \ {x} \notin Bad
    <3>. SUFFICES ASSUME T \ {x} \in Bad PROVE FALSE
      OBVIOUS
    <3>1. k - 1 \in N
      BY <1>0, <2>2
    <3>. QED
      BY <1>1, <3>1
  <2>4. PICK t : IsListing(t, T \ {x})
    BY <2>2, <2>3
  <2>5. \E s : IsListing(s, T)
    BY <2>1, <2>2, <2>4, ListingGrows
  <2>. QED
    BY <1>2, <2>5
<1>. QED
  BY <1>3, <1>4

-----------------------------------------------------------------------------
(***************************************************************************)
(* Types: the rows, the calls and their answers, the page and its editor.  *)
(***************************************************************************)
ServerType == [Collections -> Rows \cup {Null}]

Ops == {"reorder"} \cup Reads \cup Changes

(* A call has the arguments its function takes, and only a reorder and the *)
(* load it ends with hold back the next reorder.                           *)
CallOK(t) ==
  /\ t = [op |-> t.op, of |-> t.of, arg |-> t.arg, reorder |-> t.reorder,
          answer |-> t.answer]
  /\ t.op \in Ops
  /\ t.op # "list" => t.of \in Collections
  /\ t.op = "snapshot" => t.arg \in Seq(Entry)
  /\ t.op \in OfGroups => t.arg \in Entry
  /\ t.op = "save" => t.arg \in [name : Groups, members : Lists]
  /\ t.op = "reorder" => /\ t.arg.order \in Seq(Entry)
                         /\ t.arg.at \in 1 .. Len(t.arg.order)
  /\ t.reorder \in BOOLEAN
  /\ t.reorder => t.op \in {"reorder", "groups", "snapshot"}

(* An answer has what the call asked for.                                  *)
AnswerOK(t) ==
  \/ t.answer = Waiting
  \/ t.answer = Failed
  \/ /\ t.answer = Ok(t.answer.value)
     /\ t.op = "list" => t.answer.value \subseteq Collections
     /\ t.op = "groups" => t.answer.value \in Seq(Entry)
     /\ t.op = "snapshot" => t.answer.value \in Snapshots

TaskOK(t) == t = Free \/ (CallOK(t) /\ AnswerOK(t))

TasksOK ==
  /\ task = [i \in Tasks |-> task[i]]
  /\ \A i \in Tasks : TaskOK(task[i])
  /\ \A t \in late : CallOK(t)

(* What the rows of a collection are.                                      *)
LEMMA RowTypes ==
  ASSUME server \in ServerType
  PROVE  /\ \A c \in Existing : c \in Collections /\ server[c] \in Rows
         /\ \A c, g : Has(c, g) /\ g \in Groups =>
              /\ server[c][g] \in GroupRow
              /\ server[c][g].position \in Nat /\ server[c][g].members \in Lists
<1>1. \A c \in Existing : c \in Collections /\ server[c] \in Rows
  BY DEF Existing, ServerType
<1>2. \A c, g : Has(c, g) /\ g \in Groups => server[c][g] \in GroupRow
  BY <1>1 DEF Has, Rows
<1>. QED
  BY <1>1, <1>2 DEF GroupRow

(* A listing is a sequence of entries, each group of the collection one.   *)
LEMMA ListingType ==
  ASSUME server \in ServerType, NEW c
  PROVE  Listing(c) \in Seq(Entry)
<1> DEFINE S == Entries(c)
           H == {h \in Groups : Has(c, h)}
<1>1. S \in SUBSET Entry
  BY RowTypes DEF Entries, Entry
<1>2. IsFiniteSet(S)
  <2>1. IsFiniteSet(H)
    <3>1. IsFiniteSet(Groups)
      BY ConsoleAssumption
    <3>. QED
      BY <3>1, FS_Subset
  <2> DEFINE f == [g \in H |-> [name |-> g, position |-> server[c][g].position]]
  <2>2. f \in Surjection(H, S)
    BY DEF Surjection, Entries
  <2>. QED
    BY <2>1, <2>2, FS_Surjection
<1>3. PICK s : IsListing(s, S)
  BY <1>1, <1>2, ListingExists
<1>4. IsListing(Listing(c), S)
  <2>1. Listing(c) = CHOOSE t \in [1 .. Cardinality(S) -> S] :
                       \A k, l \in DOMAIN t : k < l => Precedes(t[k], t[l])
    BY DEF Listing
  <2>2. s \in [1 .. Cardinality(S) -> S]
        /\ \A k, l \in DOMAIN s : k < l => Precedes(s[k], s[l])
    BY <1>3 DEF IsListing
  <2> HIDE DEF S
  <2>. QED
    BY <2>1, <2>2 DEF IsListing
<1>5. Cardinality(S) \in Nat
  BY <1>2, FS_CardinalityType
<1> HIDE DEF S
<1>6. Listing(c) \in [1 .. Cardinality(S) -> Entry]
  BY <1>1, <1>4 DEF IsListing
<1>. QED
  BY <1>5, <1>6

(* The members the server has for each group.                              *)
LEMMA MembersType ==
  ASSUME server \in ServerType, NEW c
  PROVE  MembersOf(c) \in Snapshots
BY RowTypes DEF MembersOf, Snapshots

(* What a call is answered, if it is accepted.                             *)
LEMMA ValueType ==
  ASSUME server \in ServerType, NEW t, CallOK(t)
  PROVE  /\ t.op = "list" => Value(t) = Existing /\ Value(t) \subseteq Collections
         /\ t.op = "groups" => Value(t) = Listing(t.of) /\ Value(t) \in Seq(Entry)
         /\ t.op = "snapshot" => Value(t) = MembersOf(t.of) /\ Value(t) \in Snapshots
<1>1. t.op = "list" => Value(t) = Existing
  BY DEF Value
<1>2. t.op = "groups" => Value(t) = Listing(t.of)
  BY DEF Value
<1>3. t.op = "snapshot" => Value(t) = MembersOf(t.of)
  BY DEF Value
<1>. QED
  BY <1>1, <1>2, <1>3, ListingType, MembersType DEF Existing

(* One row of a collection replaced.                                       *)
Put(c, g, row) == [server EXCEPT ![c][g] = row]

(* The rows keep their type.                                               *)
LEMMA PutType ==
  ASSUME server \in ServerType, NEW c \in Existing, NEW g \in Groups,
         NEW row \in GroupRow \cup {Null}
  PROVE  Put(c, g, row) \in ServerType
<1>1. c \in Collections /\ server[c] \in Rows
  BY RowTypes
<1>2. [server[c] EXCEPT ![g] = row] \in Rows
  BY <1>1 DEF Rows
<1>3. [server EXCEPT ![c] = [server[c] EXCEPT ![g] = row]] \in ServerType
  BY <1>1, <1>2 DEF ServerType
<1>. QED
  BY <1>3 DEF Put

(* A call that is accepted leaves the rows well typed.                     *)
LEMMA AfterType ==
  ASSUME server \in ServerType, NEW t, CallOK(t), Accepts(t)
  PROVE  After(t) \in ServerType
<1> DEFINE c == t.of
           g == t.arg.name
           h == t.arg.order[t.arg.at].name
           n == t.arg.at - 1
<1>1. CASE t.op \in Reads \cup {"updateNote"}
  BY <1>1 DEF After, Reads
<1>2. CASE t.op \in {"createCollection", "deleteCollection"}
  <2>1. t.of \in Collections /\ [x \in Groups |-> Null] \in Rows
    BY <1>2 DEF CallOK, Rows
  <2>. QED
    BY <1>2, <2>1 DEF After, Reads, ServerType
<1>3. CASE t.op = "createGroup"
  <2>1. c \in Existing /\ t.arg \in Entry
    BY <1>3 DEF CallOK, Accepts, OfGroups
  <2> DEFINE row == [position |-> t.arg.position, members |-> NoMembers]
  <2>2. g \in Groups /\ row \in GroupRow
    <3>1. NoMembers \in Lists
      BY ConsoleAssumption
    <3>. QED
      BY <2>1, <3>1 DEF Entry, GroupRow
  <2>3. After(t) = Put(c, g, row)
    BY <1>3 DEF After, Reads, Put
  <2> HIDE DEF c, g, row
  <2>. QED
    BY <2>1, <2>2, <2>3, PutType
<1>4. CASE t.op = "updateGroup"
  <2>1. Has(c, g) /\ t.arg \in Entry
    BY <1>4 DEF CallOK, Accepts, OfGroups
  <2> DEFINE row == [server[c][g] EXCEPT !.position = t.arg.position]
  <2>2. c \in Existing /\ g \in Groups /\ row \in GroupRow
    BY <2>1, RowTypes DEF Has, Entry, GroupRow
  <2>3. After(t) = Put(c, g, row)
    BY <1>4 DEF After, Reads, Put, Moved
  <2> HIDE DEF c, g, row
  <2>. QED
    BY <2>2, <2>3, PutType
<1>5. CASE t.op = "deleteGroup"
  <2>1. Has(c, g) /\ t.arg \in Entry
    BY <1>5 DEF CallOK, Accepts, OfGroups
  <2>2. c \in Existing /\ g \in Groups
    BY <2>1 DEF Has, Entry
  <2>3. After(t) = Put(c, g, Null)
    BY <1>5 DEF After, Reads, Put
  <2> HIDE DEF c, g
  <2>. QED
    BY <2>2, <2>3, PutType
<1>6. CASE t.op = "reorder"
  <2>1. /\ Has(c, h) /\ t.arg.order \in Seq(Entry) /\ t.arg.at \in 1 .. Len(t.arg.order)
    BY <1>6 DEF CallOK, Accepts
  <2> DEFINE row == [server[c][h] EXCEPT !.position = n]
  <2>2. c \in Existing /\ h \in Groups /\ n \in Nat
    <3>1. t.arg.order[t.arg.at] \in Entry
      BY <2>1
    <3>. QED
      BY <2>1, <3>1 DEF Has, Entry
  <2>3. row \in GroupRow
    BY <2>1, <2>2, RowTypes DEF GroupRow
  <2>4. After(t) = Put(c, h, row)
    BY <1>6 DEF After, Reads, Put, Moved
  <2> HIDE DEF c, h, n, row
  <2>. QED
    BY <2>2, <2>3, <2>4, PutType
<1>7. CASE t.op = "save"
  <2>1. Has(c, g) /\ t.arg \in [name : Groups, members : Lists]
    BY <1>7 DEF CallOK, Accepts
  <2> DEFINE row == [server[c][g] EXCEPT !.members = t.arg.members]
  <2>2. c \in Existing /\ g \in Groups /\ row \in GroupRow
    BY <2>1, RowTypes DEF Has, GroupRow
  <2>3. After(t) = Put(c, g, row)
    BY <1>7 DEF After, Reads, Put
  <2> HIDE DEF c, g, row
  <2>. QED
    BY <2>2, <2>3, PutType
<1>. QED
  BY <1>1, <1>2, <1>3, <1>4, <1>5, <1>6, <1>7
     DEF CallOK, Ops, Changes, OfCollections, OfGroups

(* A task that begins, goes on or ends with a well-formed call keeps the   *)
(* tasks well formed.                                                      *)
LEMMA Continued ==
  ASSUME TasksOK, NEW i \in Tasks, NEW x, TaskOK(x), Continue(i, x), late' = late
  PROVE  /\ TasksOK'
         /\ task'[i] = x
         /\ \A j \in Tasks \ {i} : task'[j] = task[j]
<1>1. /\ task'[i] = x /\ \A j \in Tasks \ {i} : task'[j] = task[j]
      /\ task' = [j \in Tasks |-> task'[j]]
  BY DEF TasksOK, Continue
<1>2. \A j \in Tasks : TaskOK(task'[j])
  BY <1>1 DEF TasksOK
<1>. QED
  BY <1>1, <1>2 DEF TasksOK

(* The calls the page makes are well formed.                               *)
LEMMA CallsOK ==
  /\ TaskOK(Free)
  /\ TaskOK(Call("list", Null, Null, FALSE))
  /\ \A c \in Collections, r \in BOOLEAN : TaskOK(Call("groups", c, Null, r))
  /\ \A c \in Collections, r \in BOOLEAN, l \in Seq(Entry) :
       TaskOK(Call("snapshot", c, l, r))
  /\ \A c \in Collections, op \in OfCollections : TaskOK(Call(op, c, Null, FALSE))
  /\ \A c \in Collections, op \in OfGroups, e \in Entry : TaskOK(Call(op, c, e, FALSE))
  /\ \A c \in Collections, m \in [name : Groups, members : Lists] :
       TaskOK(Call("save", c, m, FALSE))
  /\ \A c \in Collections, order \in Seq(Entry) : \A at \in 1 .. Len(order) :
       TaskOK(Call("reorder", c, [order |-> order, at |-> at], TRUE))
BY DEF TaskOK, CallOK, AnswerOK, Call, Ops, Reads, Changes, OfCollections, OfGroups

(* An answer leaves the rest of the call as it is.                         *)
LEMMA Replied ==
  ASSUME TasksOK, NEW i \in Tasks, InFlight(i), NEW a, Reply(i, a)
  PROVE  /\ task' = [j \in Tasks |-> task'[j]]
         /\ \A j \in Tasks \ {i} : task'[j] = task[j]
         /\ CallOK(task'[i]) /\ task'[i].answer = a /\ task'[i].op = task[i].op
         /\ task'[i].of = task[i].of /\ task'[i].arg = task[i].arg
         /\ task'[i].reorder = task[i].reorder
<1> DEFINE t == task[i]
<1>1. CallOK(t)
  BY DEF TasksOK, TaskOK, InFlight, Free
<1>2. /\ task' = [j \in Tasks |-> task'[j]]
      /\ \A j \in Tasks \ {i} : task'[j] = task[j]
      /\ task'[i] = [t EXCEPT !.answer = a]
  BY DEF TasksOK, Reply
<1> HIDE DEF t
<1>3. [t EXCEPT !.answer = a] = [op |-> t.op, of |-> t.of, arg |-> t.arg,
                                 reorder |-> t.reorder, answer |-> a]
  BY <1>1 DEF CallOK
<1> DEFINE u == task'[i]
<1>4. /\ u = [op |-> t.op, of |-> t.of, arg |-> t.arg, reorder |-> t.reorder, answer |-> a]
  BY <1>2, <1>3
<1> HIDE DEF u
<1>5. CallOK(u) /\ u.answer = a /\ u.op = t.op /\ u.of = t.of /\ u.arg = t.arg
      /\ u.reorder = t.reorder
  BY <1>1, <1>4 DEF CallOK
<1>. QED
  BY <1>2, <1>5 DEF t, u

(* What a task that is not free is.                                        *)
LEMMA TaskTypes ==
  ASSUME TasksOK, NEW i \in Tasks
  PROVE  /\ Free.op = "free" /\ (InFlight(i) => CallOK(task[i]) /\ AnswerOK(task[i]))
         /\ Answered(i) => /\ InFlight(i) /\ task[i].answer = Ok(task[i].answer.value)
                           /\ task[i].op = "list" => task[i].answer.value \subseteq Collections
                           /\ task[i].op = "groups" => task[i].answer.value \in Seq(Entry)
                           /\ task[i].op = "snapshot" => task[i].answer.value \in Snapshots
<1>1. Free.op = "free" /\ (InFlight(i) => CallOK(task[i]) /\ AnswerOK(task[i]))
  BY DEF TasksOK, TaskOK, InFlight, Free
<1>2. Waiting.kind # "ok" /\ Failed.kind # "ok"
  BY DEF Waiting, Failed
<1>3. Answered(i) => /\ InFlight(i) /\ task[i].answer = Ok(task[i].answer.value)
                     /\ task[i].op = "list" => task[i].answer.value \subseteq Collections
                     /\ task[i].op = "groups" => task[i].answer.value \in Seq(Entry)
                     /\ task[i].op = "snapshot" => task[i].answer.value \in Snapshots
  BY <1>1, <1>2 DEF Answered, AnswerOK
<1>. QED
  BY <1>1, <1>3

(* What is not null on the page.                                           *)
LEMMA PageTypes ==
  ASSUME TypeOK
  PROVE  /\ collections # Null => collections \subseteq Collections
         /\ selected # Null => selected \in Collections
         /\ selectedGroup # Null => selectedGroup \in Groups
         /\ groups # Null => groups \in Seq(Entry)
         /\ snapshot # Null => snapshot \in Snapshots
         /\ editor # Null => /\ editor \in EditorType
                             /\ editor.key[1] = selected /\ editor.key[2] = selectedGroup
                             /\ selected \in Collections /\ selectedGroup \in Groups
                             /\ editor.members \in Lists
<1>1. editor # Null => /\ editor \in EditorType /\ editor.key = <<selected, selectedGroup>>
                       /\ selected # Null /\ selectedGroup # Null
  BY DEF TypeOK, Key, Mounts
<1>2. editor # Null => editor.members \in Lists
  BY <1>1 DEF EditorType
<1>. QED
  BY <1>1, <1>2 DEF TypeOK

(* A reorder goes on with the call for the next group misplaced, or with   *)
(* the load of the detail.                                                 *)
ReorderGoesOn(i, c, shown) ==
  \E x : /\ Continue(i, x) /\ TaskOK(x)
         /\ x.of = c /\ x.reorder /\ x.answer = Waiting
         /\ \/ /\ x.op = "groups"
               /\ groups' = Null /\ snapshot' = Null
               /\ detailError' = FALSE /\ shownOf' = Null
            \/ /\ x.op = "reorder"
               /\ groups' = shown
               /\ UNCHANGED <<snapshot, detailError, shownOf>>

(* The loop of a reorder stops at a call, or ends with the load.           *)
LEMMA ReorderSent ==
  ASSUME NEW i \in Tasks, NEW c \in Collections, NEW order \in Seq(Entry),
         NEW from \in Nat \ {0}, NEW shown, SendReorder(i, c, order, from, shown)
  PROVE  ReorderGoesOn(i, c, shown)
<1>1. CASE Misplaced(order, from) = {}
  <2>1. BeginDetail(i, c, TRUE)
    BY <1>1 DEF SendReorder
  <2> DEFINE x == Call("groups", c, Null, TRUE)
  <2>2. TaskOK(x)
    BY CallsOK
  <2>3. x.op = "groups" /\ x.of = c /\ x.reorder /\ x.answer = Waiting
    BY DEF Call
  <2>. QED
    BY <2>1, <2>2, <2>3 DEF BeginDetail, ReorderGoesOn
<1>2. CASE Misplaced(order, from) # {}
  <2> DEFINE M == Misplaced(order, from)
  <2>1. M \in SUBSET (0 .. Len(order)) /\ M \in SUBSET (1 .. Len(order)) /\ Len(order) \in Nat
    BY DEF Misplaced
  <2>2. \E k \in M : \A l \in M : k <= l
    <3> HIDE DEF M
    <3>1. M # {}
      BY <1>2 DEF M
    <3>. QED
      BY <2>1, <3>1, LeastUpTo
  <2>3. PICK at \in M : /\ Continue(i, Call("reorder", c, [order |-> order, at |-> at], TRUE))
                        /\ groups' = shown
                        /\ UNCHANGED <<snapshot, detailError, shownOf>>
    BY <1>2, <2>2 DEF SendReorder
  <2> DEFINE x == Call("reorder", c, [order |-> order, at |-> at], TRUE)
  <2>4. TaskOK(x)
    BY <2>1, CallsOK
  <2>5. x.op = "reorder" /\ x.of = c /\ x.reorder /\ x.answer = Waiting
    BY DEF Call
  <2>. QED
    BY <2>3, <2>4, <2>5 DEF ReorderGoesOn
<1>. QED
  BY <1>1, <1>2

(* A list with one of its entries moved is a list of entries.              *)
LEMMA DraggedType ==
  ASSUME groups \in Seq(Entry), NEW from \in DOMAIN groups, NEW to \in DOMAIN groups
  PROVE  Dragged(from, to) \in Seq(Entry)
<1> DEFINE r == RemoveAt(groups, from)
<1>1. r \in Seq(Entry)
  BY DEF RemoveAt
<1>2. to \in Nat \ {0} /\ to - 1 <= Len(r)
  <2>1. Len(r) = Len(groups) - 1
    BY DEF RemoveAt
  <2>. QED
    BY <2>1
<1>3. groups[from] \in Entry
  OBVIOUS
<1> HIDE DEF r
<1>4. SubSeq(r, 1, to - 1) \in Seq(Entry)
  BY <1>1, <1>2
<1>5. SubSeq(r, to, Len(r)) \in Seq(Entry)
  BY <1>1, <1>2
<1>. QED
  BY <1>3, <1>4, <1>5 DEF Dragged, InsertAt, r

(* A drag begins a reorder.                                                *)
LEMMA Drags ==
  ASSUME TypeOK, NEW i \in Tasks, NEW k, NEW l, Drag(i, k, l)
  PROVE  /\ selected \in Collections /\ Dragged(k, l) \in Seq(Entry)
         /\ ReorderGoesOn(i, selected, Dragged(k, l))
<1> DEFINE order == Dragged(k, l)
           from == 1
<1>1. selected \in Collections /\ order \in Seq(Entry) /\ from \in Nat \ {0}
  BY PageTypes, DraggedType DEF Drag, DetailReady
<1>2. SendReorder(i, selected, order, from, order)
  BY DEF Drag
<1> HIDE DEF order, from
<1>3. ReorderGoesOn(i, selected, order)
  BY <1>1, <1>2, ReorderSent
<1>. QED
  BY <1>1, <1>3 DEF order

(* A reorder answered goes on where it was, with the groups as shown.      *)
LEMMA ReorderReturns ==
  ASSUME TasksOK, NEW i \in Tasks, ReturnReorder(i)
  PROVE  ReorderGoesOn(i, task[i].of, groups)
<1> DEFINE t == task[i]
           from == t.arg.at + 1
<1>1. CallOK(t) /\ t.op = "reorder"
  BY TaskTypes DEF ReturnReorder, Answered
<1>2. t.of \in Collections /\ t.arg.order \in Seq(Entry) /\ from \in Nat \ {0}
  <2> HIDE DEF t
  <2>. QED
    BY <1>1 DEF CallOK
<1>3. SendReorder(i, t.of, t.arg.order, from, groups)
  BY DEF ReturnReorder
<1> HIDE DEF from
<1>. QED
  BY <1>2, <1>3, ReorderSent

(* Every step keeps the tasks well formed.                                 *)
LEMMA NextTasks == TypeOK /\ TasksOK /\ [Next]_vars => TasksOK'
<1>. SUFFICES ASSUME TypeOK, TasksOK, [Next]_vars PROVE TasksOK'
  OBVIOUS
<1>0. ASSUME UNCHANGED <<task, late>> PROVE TasksOK'
  BY <1>0 DEF TasksOK
<1>1. ASSUME NEW i \in Tasks, Operator(i) PROVE TasksOK'
  <2>0. late' = late
    BY <1>1 DEF Operator, Refresh, RefreshDetail, Save, Select, CreateCollection,
                EditNote, DeleteCollection, CreateGroup, EditGroup, DeleteGroup,
                Submit, Drag, Start, Act
  <2>1. CASE Refresh(i)
    BY <2>0, <2>1, Continued, CallsOK DEF Refresh, BeginList
  <2>2. CASE RefreshDetail(i)
    <3>1. selected \in Collections
      BY <2>2, PageTypes DEF RefreshDetail, DetailReady
    <3>. QED
      BY <2>0, <2>2, <3>1, Continued, CallsOK DEF RefreshDetail, BeginDetail
  <2>3. CASE Save(i)
    <3> DEFINE m == [name |-> editor.key[2], members |-> editor.members]
    <3>1. m \in [name : Groups, members : Lists] /\ editor.key[1] \in Collections
      BY <2>3, PageTypes DEF Save
    <3>. QED
      BY <2>0, <2>3, <3>1, Continued, CallsOK DEF Save
  <2>4. ASSUME NEW c \in Collections,
               \/ Select(i, c)
               \/ CreateCollection(i, c) \/ EditNote(i, c) \/ DeleteCollection(i, c)
        PROVE  TasksOK'
    BY <2>0, <2>4, Continued, CallsOK
       DEF Select, BeginDetail, CreateCollection, EditNote, DeleteCollection,
           Submit, OfCollections
  <2>5. ASSUME NEW g \in Groups, CreateGroup(i, g) PROVE TasksOK'
    <3> DEFINE e == [name |-> g, position |-> Len(groups)]
    <3>1. selected \in Collections /\ groups \in Seq(Entry)
      BY <2>5, PageTypes DEF CreateGroup, DetailReady
    <3>2. e \in Entry
      BY <3>1 DEF Entry
    <3>. QED
      BY <2>0, <2>5, <3>1, <3>2, Continued, CallsOK DEF CreateGroup, Submit, OfGroups
  <2>6. ASSUME NEW k, EditGroup(i, k) \/ DeleteGroup(i, k) PROVE TasksOK'
    <3>1. selected \in Collections /\ groups[k] \in Entry
      BY <2>6, PageTypes DEF EditGroup, DeleteGroup, DetailReady
    <3>. QED
      BY <2>0, <2>6, <3>1, Continued, CallsOK DEF EditGroup, DeleteGroup, Submit, OfGroups
  <2>7. ASSUME NEW k, NEW l, Drag(i, k, l) PROVE TasksOK'
    BY <2>0, <2>7, Drags, Continued DEF ReorderGoesOn
  <2>. QED
    BY <1>1, <2>1, <2>2, <2>3, <2>4, <2>5, <2>6, <2>7 DEF Operator
<1>2. ASSUME NEW i \in Tasks, Handle(i) PROVE TasksOK'
  <2>1. late' = late /\ InFlight(i)
    BY <1>2 DEF Handle, history
  <2>2. CASE Accepts(task[i])
    <3> DEFINE a == Ok(Value(task[i]))
    <3>1. Reply(i, a) /\ a = Ok(a.value) /\ a.value = Value(task[i])
      BY <1>2, <2>2 DEF Handle, Ok
    <3>2. CallOK(task[i])
      BY <2>1, TaskTypes
    <3>3. AnswerOK(task'[i]) /\ CallOK(task'[i])
      <4>1. /\ CallOK(task'[i]) /\ task'[i].answer = a /\ task'[i].op = task[i].op
        BY <2>1, <3>1, Replied
      <4>2. /\ task[i].op = "list" => Value(task[i]) \subseteq Collections
            /\ task[i].op = "groups" => Value(task[i]) \in Seq(Entry)
            /\ task[i].op = "snapshot" => Value(task[i]) \in Snapshots
        BY <3>2, ValueType DEF TypeOK, ServerType
      <4>. QED
        BY <3>1, <4>1, <4>2 DEF AnswerOK
    <3>. QED
      BY <2>1, <3>1, <3>3, Replied DEF TasksOK, TaskOK
  <2>3. CASE ~Accepts(task[i])
    <3>1. Reply(i, Failed)
      BY <1>2, <2>3 DEF Handle
    <3>. QED
      BY <2>1, <3>1, Replied DEF TasksOK, TaskOK, AnswerOK
  <2>. QED
    BY <2>2, <2>3
<1>3. ASSUME NEW i \in Tasks, Fault(i) \/ TimeOut(i) PROVE TasksOK'
  <2>1. InFlight(i) /\ Reply(i, Failed) /\ late' \in {late, late \cup {task[i]}}
    BY <1>3 DEF Fault, TimeOut
  <2>2. \A t \in late' : CallOK(t)
    BY <2>1, TaskTypes DEF TasksOK
  <2>3. /\ task' = [j \in Tasks |-> task'[j]]
        /\ \A j \in Tasks : TaskOK(task'[j])
    BY <2>1, Replied DEF TasksOK, TaskOK, AnswerOK
  <2>. QED
    BY <2>2, <2>3 DEF TasksOK
<1>4. ASSUME NEW i \in Tasks, Return(i) PROVE TasksOK'
  <2>0. late' = late
    BY <1>4 DEF Return, ReturnList, ReturnListFailed, ReturnGroups, ReturnSnapshot,
                ReturnDetailFailed, ReturnCollectionChange, ReturnGroupChange,
                ReturnChangeFailed, ReturnReorder, ReturnReorderFailed, ReturnSave,
                ReturnSaveFailed, history
  <2>1. CASE ReturnList(i)
    <3>1. collections' \subseteq Collections
      BY <2>1, TaskTypes DEF ReturnList
    <3>2. CASE BeginDetail(i, selected, FALSE) /\ selected \in collections'
      BY <2>0, <3>1, <3>2, Continued, CallsOK DEF BeginDetail
    <3>3. CASE Finish(i)
      BY <2>0, <3>3, Continued, CallsOK DEF Finish
    <3>. QED
      BY <2>1, <3>2, <3>3 DEF ReturnList
  <2>2. CASE \/ ReturnListFailed(i) \/ ReturnSnapshot(i) \/ ReturnDetailFailed(i)
             \/ ReturnChangeFailed(i) \/ ReturnSaveFailed(i)
    BY <2>0, <2>2, Continued, CallsOK
       DEF ReturnListFailed, ReturnSnapshot, ReturnDetailFailed, ReturnChangeFailed,
           ReturnSaveFailed, Finish
  <2>3. CASE ReturnGroups(i)
    <3> DEFINE x == Call("snapshot", task[i].of, task[i].answer.value, task[i].reorder)
    <3>1. /\ task[i].of \in Collections /\ task[i].reorder \in BOOLEAN
          /\ task[i].answer.value \in Seq(Entry)
      BY <2>3, TaskTypes DEF ReturnGroups, CallOK, Answered
    <3>. QED
      BY <2>0, <2>3, <3>1, Continued, CallsOK DEF ReturnGroups
  <2>4. CASE ReturnCollectionChange(i)
    BY <2>0, <2>4, Continued, CallsOK DEF ReturnCollectionChange, BeginList
  <2>5. CASE ReturnGroupChange(i) \/ ReturnReorderFailed(i)
    <3>1. task[i].of \in Collections
      BY <2>5, TaskTypes DEF ReturnGroupChange, ReturnReorderFailed, CallOK,
                             Answered, Erred, OfGroups
    <3>. QED
      BY <2>0, <2>5, <3>1, Continued, CallsOK
         DEF ReturnGroupChange, ReturnReorderFailed, BeginDetail
  <2>6. CASE ReturnReorder(i)
    BY <2>0, <2>6, ReorderReturns, Continued DEF ReorderGoesOn
  <2>7. CASE ReturnSave(i)
    <3>1. CASE Mounted(i)
      <4>1. editor.key[1] \in Collections
        BY <3>1, PageTypes DEF Mounted
      <4>. QED
        BY <2>0, <2>7, <3>1, <4>1, Continued, CallsOK DEF ReturnSave, BeginDetail
    <3>2. CASE ~Mounted(i)
      BY <2>0, <2>7, <3>2, Continued, CallsOK DEF ReturnSave, Finish
    <3>. QED
      BY <3>1, <3>2
  <2>. QED
    BY <1>4, <2>1, <2>2, <2>3, <2>4, <2>5, <2>6, <2>7 DEF Return
<1>5. ASSUME NEW t \in late, HandleLate(t) PROVE TasksOK'
  BY <1>5 DEF HandleLate, TasksOK
<1>6. ASSUME \/ \E g \in Groups : SelectGroup(g)
             \/ \E l \in Lists : EditMembers(l)
             \/ Revert
             \/ UNCHANGED vars
      PROVE  TasksOK'
  BY <1>0, <1>6 DEF SelectGroup, EditMembers, Revert, Act, vars
<1>. QED
  BY <1>1, <1>2, <1>3, <1>4, <1>5, <1>6 DEF Next

(* The fields of the page, the editor apart.                               *)
PageOK ==
  /\ server \in ServerType
  /\ collections = Null \/ collections \subseteq Collections
  /\ error \in BOOLEAN /\ detailError \in BOOLEAN /\ reordering \in BOOLEAN
  /\ selected \in Collections \cup {Null} /\ shownOf \in Collections \cup {Null}
  /\ selectedGroup \in Groups \cup {Null}
  /\ groups = Null \/ groups \in Seq(Entry)
  /\ snapshot = Null \/ snapshot \in Snapshots

(* Every step keeps the types of the page's fields.                        *)
LEMMA NextPage == TypeOK /\ TasksOK /\ [Next]_vars => PageOK'
<1>. SUFFICES ASSUME TypeOK, TasksOK, [Next]_vars PROVE PageOK'
  OBVIOUS
<1>0. PageOK
  BY DEF TypeOK, PageOK, ServerType
<1>1. ASSUME NEW i \in Tasks, Operator(i) PROVE PageOK'
  <2>1. CASE Refresh(i) \/ RefreshDetail(i) \/ Save(i)
    BY <1>0, <2>1 DEF Refresh, RefreshDetail, Save, BeginList, BeginDetail,
                      list, choice, detail, PageOK
  <2>2. ASSUME NEW c \in Collections,
               \/ Select(i, c)
               \/ CreateCollection(i, c) \/ EditNote(i, c) \/ DeleteCollection(i, c)
        PROVE  PageOK'
    BY <1>0, <2>2 DEF Select, CreateCollection, EditNote, DeleteCollection, Submit,
                      BeginDetail, list, choice, detail, PageOK
  <2>3. ASSUME NEW g, NEW k, CreateGroup(i, g) \/ EditGroup(i, k) \/ DeleteGroup(i, k)
        PROVE  PageOK'
    BY <1>0, <2>3 DEF CreateGroup, EditGroup, DeleteGroup, Submit,
                      list, choice, detail, PageOK
  <2>4. ASSUME NEW k, NEW l, Drag(i, k, l) PROVE PageOK'
    <3>1. Dragged(k, l) \in Seq(Entry) /\ ReorderGoesOn(i, selected, Dragged(k, l))
      BY <2>4, Drags
    <3>. QED
      BY <1>0, <2>4, <3>1 DEF ReorderGoesOn, Drag, list, choice, PageOK
  <2>. QED
    BY <1>1, <2>1, <2>2, <2>3, <2>4 DEF Operator
<1>2. ASSUME NEW i \in Tasks, Handle(i) PROVE PageOK'
  <2>1. server' \in ServerType
    BY <1>0, <1>2, TaskTypes, AfterType DEF Handle, PageOK
  <2>. QED
    BY <1>0, <1>2, <2>1 DEF Handle, list, choice, detail, PageOK
<1>3. ASSUME NEW i \in Tasks, Fault(i) \/ TimeOut(i) PROVE PageOK'
  BY <1>0, <1>3 DEF Fault, TimeOut, list, choice, detail, PageOK
<1>4. ASSUME NEW i \in Tasks, Return(i) PROVE PageOK'
  <2>1. CASE ReturnList(i)
    <3>1. collections' \subseteq Collections
      BY <2>1, TaskTypes DEF ReturnList
    <3>2. CASE BeginDetail(i, selected, FALSE) /\ UNCHANGED selected
      BY <1>0, <2>1, <3>1, <3>2 DEF ReturnList, BeginDetail, PageOK
    <3>3. CASE Finish(i) /\ UNCHANGED <<selected, detail>>
      BY <1>0, <2>1, <3>1, <3>3 DEF ReturnList, detail, PageOK
    <3>4. CASE /\ selected' = Null /\ groups' = Null /\ snapshot' = Null /\ shownOf' = Null
               /\ UNCHANGED detailError
      BY <1>0, <2>1, <3>1, <3>4 DEF ReturnList, PageOK
    <3>. QED
      BY <2>1, <3>2, <3>3, <3>4 DEF ReturnList
  <2>2. CASE \/ ReturnListFailed(i) \/ ReturnGroups(i) \/ ReturnChangeFailed(i)
             \/ ReturnSaveFailed(i) \/ ReturnCollectionChange(i)
    BY <1>0, <2>2 DEF ReturnListFailed, ReturnGroups, ReturnChangeFailed,
         ReturnSaveFailed, ReturnCollectionChange, BeginList, list, choice, detail, PageOK
  <2>3. CASE ReturnSnapshot(i)
    <3>1. /\ groups' \in Seq(Entry) /\ snapshot' \in Snapshots /\ shownOf' \in Collections
      BY <2>3, TaskTypes DEF ReturnSnapshot, CallOK
    <3>2. reordering' \in BOOLEAN
      BY <2>3 DEF ReturnSnapshot, EndReorder
    <3>. QED
      BY <1>0, <2>3, <3>1, <3>2 DEF ReturnSnapshot, list, choice, PageOK
  <2>4. CASE ReturnDetailFailed(i)
    BY <1>0, <2>4 DEF ReturnDetailFailed, EndReorder, list, choice, PageOK
  <2>5. CASE ReturnGroupChange(i) \/ ReturnReorderFailed(i)
    BY <1>0, <2>5 DEF ReturnGroupChange, ReturnReorderFailed, BeginDetail,
                      list, choice, PageOK
  <2>6. CASE ReturnReorder(i)
    <3>1. ReorderGoesOn(i, task[i].of, groups)
      BY <2>6, ReorderReturns
    <3>. QED
      BY <1>0, <2>6, <3>1 DEF ReorderGoesOn, ReturnReorder, list, choice, PageOK
  <2>7. CASE ReturnSave(i)
    BY <1>0, <2>7 DEF ReturnSave, BeginDetail, list, choice, detail, PageOK
  <2>. QED
    BY <1>4, <2>1, <2>2, <2>3, <2>4, <2>5, <2>6, <2>7 DEF Return
<1>5. ASSUME NEW t \in late, HandleLate(t) PROVE PageOK'
  <2>1. server' \in ServerType
    BY <1>0, <1>5, AfterType DEF HandleLate, PageOK, TasksOK
  <2>. QED
    BY <1>0, <1>5, <2>1 DEF HandleLate, list, choice, detail, PageOK
<1>6. ASSUME \/ \E g \in Groups : SelectGroup(g)
             \/ \E l \in Lists : EditMembers(l)
             \/ Revert
             \/ UNCHANGED vars
      PROVE  PageOK'
  BY <1>0, <1>6 DEF SelectGroup, EditMembers, Revert, vars, list, choice, detail, PageOK
<1>. QED
  BY <1>1, <1>2, <1>3, <1>4, <1>5, <1>6 DEF Next

(* The editor is there exactly when the page shows its group, under its    *)
(* key, and with the members last loaded unless they were edited.          *)
EditorOK ==
  /\ editor = Null \/ editor \in EditorType
  /\ (editor # Null) <=> Mounts
  /\ editor # Null => editor.key = Key
  /\ UnsavedMarked

(* Building the page again leaves the editor so.                           *)
LEMMA Rebuilt ==
  ASSUME PageOK', NEW e, e = Null \/ e \in EditorType,
         e # Null => /\ e.key = Key
                     /\ ~e.dirty => e.members = snapshot[selectedGroup],
         Rebuild(e)
  PROVE  EditorOK'
<1>1. CASE ~Mounts'
  BY <1>1 DEF Rebuild, EditorOK, UnsavedMarked
<1>2. CASE Mounts'
  <2> DEFINE m == snapshot'[selectedGroup']
             n == [key |-> Key', members |-> m, dirty |-> FALSE, busy |-> Null]
             o == [e EXCEPT !.members = m]
  <2>1. /\ selected' \in Collections /\ selectedGroup' \in Groups
        /\ m \in Lists /\ Key' = <<selected', selectedGroup'>>
    BY <1>2 DEF Mounts, PageOK, Snapshots, Key
  <2>2. n \in EditorType /\ n # Null
    <3>1. n \in EditorType
      BY <2>1 DEF EditorType
    <3>2. Null \notin EditorType
      BY ConsoleAssumption
    <3>. QED
      BY <3>1, <3>2
  <2>3. CASE e = Null \/ e.key # Key'
    <3>1. editor' = n
      BY <1>2, <2>3 DEF Rebuild
    <3>2. n.key = Key' /\ n.members = m /\ n.dirty = FALSE
      OBVIOUS
    <3> HIDE DEF n
    <3>. QED
      BY <1>2, <2>2, <3>1, <3>2 DEF EditorOK, UnsavedMarked
  <2>4. CASE ~(e = Null \/ e.key # Key') /\ (e.dirty \/ snapshot' = snapshot)
    <3>1. editor' = e /\ e.key = Key'
      BY <1>2, <2>4 DEF Rebuild
    <3>2. selectedGroup' = selectedGroup
      BY <2>4, <3>1 DEF Key
    <3>. QED
      BY <1>2, <2>4, <3>1, <3>2 DEF EditorOK, UnsavedMarked
  <2>5. CASE ~(e = Null \/ e.key # Key') /\ ~(e.dirty \/ snapshot' = snapshot)
    <3>1. editor' = o /\ e \in EditorType /\ e.key = Key'
      BY <1>2, <2>5 DEF Rebuild
    <3>2. o \in EditorType /\ o.key = e.key /\ o.members = m
      BY <2>1, <3>1 DEF EditorType
    <3>3. o # Null
      BY <3>2, ConsoleAssumption
    <3> HIDE DEF o
    <3>. QED
      BY <1>2, <3>1, <3>2, <3>3 DEF EditorOK, UnsavedMarked
  <2>. QED
    BY <2>3, <2>4, <2>5
<1>. QED
  BY <1>1, <1>2

(* Every step keeps the editor so.                                         *)
LEMMA NextEditor == TypeOK /\ TasksOK /\ EditorOK /\ [Next]_vars => EditorOK'
<1>. SUFFICES ASSUME TypeOK, TasksOK, EditorOK, [Next]_vars PROVE EditorOK'
  OBVIOUS
<1>0. PageOK'
  BY NextPage
<1>1. ASSUME Rebuild(editor) PROVE EditorOK'
  <2>1. editor # Null => /\ editor.key = Key
                         /\ ~editor.dirty => editor.members = snapshot[selectedGroup]
    BY DEF EditorOK, UnsavedMarked
  <2>. QED
    BY <1>0, <1>1, <2>1, Rebuilt DEF EditorOK
<1>2. ASSUME UNCHANGED <<list, choice, detail, editor>> PROVE EditorOK'
  BY <1>2 DEF list, choice, detail, EditorOK, UnsavedMarked, Mounts, Key
(* The editor's own changes leave its key alone.                           *)
<1>3. ASSUME UNCHANGED <<list, choice, detail>>, editor # Null,
             editor' \in EditorType, editor'.key = editor.key,
             ~editor'.dirty => editor'.members = snapshot[selectedGroup]
      PROVE  EditorOK'
  <2>1. editor' # Null
    BY <1>3, ConsoleAssumption
  <2>. QED
    BY <1>3, <2>1 DEF list, choice, detail, EditorOK, UnsavedMarked, Mounts, Key
<1>4. ASSUME NEW i \in Tasks, Operator(i) PROVE EditorOK'
  <2>1. CASE Refresh(i) \/ RefreshDetail(i)
    BY <1>1, <2>1 DEF Refresh, RefreshDetail
  <2>2. CASE Save(i)
    <3>1. editor \in EditorType /\ editor' = [editor EXCEPT !.busy = i] /\ editor.dirty
      BY <2>2, PageTypes DEF Save
    <3>2. editor' \in EditorType /\ editor'.key = editor.key /\ editor'.dirty = editor.dirty
      BY <3>1 DEF EditorType
    <3>. QED
      BY <1>3, <2>2, <3>1, <3>2 DEF Save, list, choice, detail
  <2>3. ASSUME NEW c, Select(i, c) PROVE EditorOK'
    BY <1>1, <2>3 DEF Select
  <2>4. ASSUME NEW c, CreateCollection(i, c) \/ EditNote(i, c) \/ DeleteCollection(i, c)
        PROVE  EditorOK'
    BY <1>2, <2>4 DEF CreateCollection, EditNote, DeleteCollection, Submit,
                      list, choice, detail
  <2>5. ASSUME NEW g, NEW k, CreateGroup(i, g) \/ EditGroup(i, k) \/ DeleteGroup(i, k)
        PROVE  EditorOK'
    BY <1>2, <2>5 DEF CreateGroup, EditGroup, DeleteGroup, Submit, list, choice, detail
  <2>6. ASSUME NEW k, NEW l, Drag(i, k, l) PROVE EditorOK'
    BY <1>1, <2>6 DEF Drag
  <2>. QED
    BY <1>4, <2>1, <2>2, <2>3, <2>4, <2>5, <2>6 DEF Operator
<1>5. ASSUME NEW i \in Tasks, Handle(i) \/ Fault(i) \/ TimeOut(i) PROVE EditorOK'
  BY <1>2, <1>5 DEF Handle, Fault, TimeOut, list, choice, detail
<1>6. ASSUME NEW i \in Tasks, Return(i) PROVE EditorOK'
  <2>1. CASE \/ ReturnList(i) \/ ReturnListFailed(i) \/ ReturnSnapshot(i)
             \/ ReturnDetailFailed(i) \/ ReturnCollectionChange(i)
             \/ ReturnGroupChange(i) \/ ReturnReorder(i) \/ ReturnReorderFailed(i)
    BY <1>1, <2>1 DEF ReturnList, ReturnListFailed, ReturnSnapshot, ReturnDetailFailed,
         ReturnCollectionChange, ReturnGroupChange, ReturnReorder, ReturnReorderFailed
  <2>2. CASE ReturnGroups(i) \/ ReturnChangeFailed(i)
    BY <1>2, <2>2 DEF ReturnGroups, ReturnChangeFailed, list, choice, detail
  <2>3. CASE ReturnSave(i)
    <3>1. CASE Mounted(i)
      <4>1. ~Mounts'
        BY <2>3, <3>1 DEF ReturnSave, BeginDetail, Mounts
      <4>2. editor' = Null
        BY <2>3, <4>1 DEF ReturnSave, Rebuild
      <4>. QED
        BY <4>1, <4>2 DEF EditorOK, UnsavedMarked
    <3>2. CASE ~Mounted(i)
      BY <1>1, <2>3, <3>2 DEF ReturnSave
    <3>. QED
      BY <3>1, <3>2
  <2>4. CASE ReturnSaveFailed(i)
    <3>1. CASE Mounted(i)
      <4>1. editor \in EditorType /\ editor' = [editor EXCEPT !.busy = Null] /\ editor # Null
        BY <2>4, <3>1, PageTypes DEF ReturnSaveFailed, Mounted
      <4>2. /\ editor' \in EditorType /\ editor'.key = editor.key
            /\ editor'.dirty = editor.dirty /\ editor'.members = editor.members
        BY <4>1 DEF EditorType
      <4>. QED
        BY <1>3, <2>4, <4>1, <4>2 DEF ReturnSaveFailed, list, choice, detail,
                                      EditorOK, UnsavedMarked
    <3>2. CASE ~Mounted(i)
      BY <1>2, <2>4, <3>2 DEF ReturnSaveFailed, list, choice, detail
    <3>. QED
      BY <3>1, <3>2
  <2>. QED
    BY <1>6, <2>1, <2>2, <2>3, <2>4 DEF Return
<1>7. ASSUME NEW t, HandleLate(t) PROVE EditorOK'
  BY <1>2, <1>7 DEF HandleLate, list, choice, detail
<1>8. ASSUME NEW g, SelectGroup(g) PROVE EditorOK'
  BY <1>1, <1>8 DEF SelectGroup
<1>9. ASSUME NEW l \in Lists, EditMembers(l) PROVE EditorOK'
  <2>1. /\ editor \in EditorType
        /\ editor' = [editor EXCEPT !.members = l, !.dirty = TRUE]
    BY <1>9, PageTypes DEF EditMembers
  <2>2. editor' \in EditorType /\ editor'.key = editor.key /\ editor'.dirty
    BY <2>1 DEF EditorType
  <2>. QED
    BY <1>3, <1>9, <2>2 DEF EditMembers, list, choice, detail
<1>10. CASE Revert
  <2> DEFINE m == snapshot[selectedGroup]
  <2>1. /\ editor \in EditorType /\ editor # Null
        /\ editor' = [editor EXCEPT !.members = m, !.dirty = FALSE]
    BY <1>10, PageTypes DEF Revert
  <2>2. m \in Lists
    BY <2>1, PageTypes DEF EditorOK, Mounts, Snapshots
  <2>3. editor' \in EditorType /\ editor'.key = editor.key /\ editor'.members = m
    BY <2>1, <2>2 DEF EditorType
  <2>. QED
    BY <1>3, <1>10, <2>1, <2>3 DEF Revert, list, choice, detail
<1>11. CASE UNCHANGED vars
  BY <1>2, <1>11 DEF vars, list, choice, detail
<1>. QED
  BY <1>4, <1>5, <1>6, <1>7, <1>8, <1>9, <1>10, <1>11 DEF Next

(* The page is opened with nothing loaded and the list being loaded.       *)
LEMMA InitTypes == Init => TypeOK /\ TasksOK /\ EditorOK
<1>. SUFFICES ASSUME NEW i \in Tasks,
                     task = [j \in Tasks |-> IF j = i THEN Call("list", Null, Null, FALSE)
                                             ELSE Free],
                     Init
              PROVE  TypeOK /\ TasksOK /\ EditorOK
  BY DEF Init
<1>1. TasksOK
  BY CallsOK DEF Init, TasksOK
<1>2. ~Mounts /\ editor = Null
  BY DEF Init, Mounts
<1>3. EditorOK
  BY <1>2 DEF EditorOK, UnsavedMarked
<1>4. \A j \in Tasks : task[j].op \in {"free", "reorder"} \cup Reads \cup Changes
  BY <1>1, TaskTypes DEF InFlight, CallOK, Ops
<1>5. server = Server0 /\ Server0 \in [Collections -> Rows \cup {Null}]
  BY ConsoleAssumption DEF Init
<1>6. TypeOK
  BY <1>2, <1>4, <1>5 DEF Init, TypeOK
<1>. QED
  BY <1>1, <1>3, <1>6

(* Every step keeps the types.                                             *)
LEMMA NextTypes ==
  TypeOK /\ TasksOK /\ EditorOK /\ [Next]_vars => (TypeOK /\ TasksOK /\ EditorOK)'
<1>. SUFFICES ASSUME TypeOK, TasksOK, EditorOK, [Next]_vars
              PROVE  (TypeOK /\ TasksOK /\ EditorOK)'
  OBVIOUS
<1>1. PageOK' /\ TasksOK' /\ EditorOK'
  BY NextPage, NextTasks, NextEditor
<1>2. (\A j \in Tasks : task[j].op \in {"free", "reorder"} \cup Reads \cup Changes)'
  BY <1>1 DEF TasksOK, TaskOK, CallOK, Ops, Free
<1>. QED
  BY <1>1, <1>2 DEF TypeOK, PageOK, EditorOK, ServerType

(* The page's fields have their types, and the editor is there exactly     *)
(* when the page shows its group (build, the key of MembersEditor).        *)
THEOREM TypeCorrect == Spec => []TypeOK
<1>. QED
  BY InitTypes, NextTypes, PTL DEF Spec

(* Members that differ from those last loaded are marked as unsaved, at    *)
(* every build of the editor, edit, save and reload (didUpdateWidget).     *)
THEOREM UnsavedAreMarked == Spec => []UnsavedMarked
<1>1. EditorOK => UnsavedMarked
  BY DEF EditorOK
<1>. QED
  BY <1>1, InitTypes, NextTypes, PTL DEF Spec
-----------------------------------------------------------------------------
(***************************************************************************)
(* What is being loaded: a load that is overtaken or fails still ends with *)
(* the groups or an error shown, and a reorder holds back the next one     *)
(* only while a call of it is under way.                                   *)
(***************************************************************************)

(* A task's step leaves the loads of the others under way.                 *)
LEMMA OtherLoads ==
  ASSUME TasksOK, NEW i \in Tasks, NEW x, TaskOK(x), Continue(i, x)
  PROVE  /\ \A j \in Tasks \ {i} : task'[j] = task[j]
         /\ task'[i] = x
BY DEF TasksOK, Continue

(* Every step keeps a load under way as long as the page shows a spinner.  *)
LEMMA NextSpinners == TypeOK /\ TasksOK /\ SpinnersEnd /\ [Next]_vars => SpinnersEnd'
<1>. SUFFICES ASSUME TypeOK, TasksOK, SpinnersEnd, [Next]_vars PROVE SpinnersEnd'
  OBVIOUS
<1>1. ASSUME UNCHANGED <<list, selected, groups, detailError>>,
             \A j \in Tasks : task[j].op \in Reads => task'[j].op = task[j].op
      PROVE  SpinnersEnd'
  BY <1>1 DEF list, SpinnersEnd, PageReady, Reads
(* A step of a task that loads nothing, and begins nothing.                *)
<1>2. ASSUME NEW i \in Tasks, NEW x, Continue(i, x), TaskOK(x), task[i].op \notin Reads,
             UNCHANGED <<list, selected, groups, detailError>>
      PROVE  SpinnersEnd'
  BY <1>1, <1>2, OtherLoads
(* The load of the list begins.                                            *)
<1>3. ASSUME NEW i \in Tasks, BeginList(i) PROVE SpinnersEnd'
  <2>1. collections' = Null /\ task'[i] = Call("list", Null, Null, FALSE)
    BY <1>3, OtherLoads, CallsOK DEF BeginList
  <2>. QED
    BY <2>1 DEF SpinnersEnd, PageReady, Call
(* The load of the detail begins, in a task that was not loading the list, *)
(* or was and has shown it.                                                *)
<1>4. ASSUME NEW i \in Tasks, NEW c \in Collections, NEW r \in BOOLEAN,
             BeginDetail(i, c, r), error' = error,
             \/ collections' # Null
             \/ collections' = collections /\ task[i].op # "list"
      PROVE  SpinnersEnd'
  <2>1. /\ \A j \in Tasks \ {i} : task'[j] = task[j]
        /\ task'[i] = Call("groups", c, Null, r)
    BY <1>4, OtherLoads, CallsOK DEF BeginDetail
  <2>2. task'[i].op = "groups"
    BY <2>1 DEF Call
  <2>. QED
    BY <1>4, <2>1, <2>2 DEF SpinnersEnd
<1>5. ASSUME NEW i \in Tasks, Operator(i) PROVE SpinnersEnd'
  <2>0. task[i].op \notin Reads
    BY <1>5 DEF Operator, Refresh, RefreshDetail, Save, Select, CreateCollection,
                EditNote, DeleteCollection, CreateGroup, EditGroup, DeleteGroup,
                Submit, Drag, Start, InFlight, Reads
  <2>1. CASE Refresh(i)
    BY <1>3, <2>1 DEF Refresh
  <2>2. CASE RefreshDetail(i)
    <3>1. selected \in Collections /\ error' = error /\ collections' = collections
      BY <2>2, PageTypes DEF RefreshDetail, DetailReady, list
    <3>. QED
      BY <1>4, <2>0, <2>2, <3>1 DEF RefreshDetail, Reads
  <2>3. CASE Save(i)
    <3>1. PICK x : Continue(i, x) /\ TaskOK(x)
      <4> DEFINE m == [name |-> editor.key[2], members |-> editor.members]
      <4>1. m \in [name : Groups, members : Lists] /\ editor.key[1] \in Collections
        BY <2>3, PageTypes DEF Save
      <4>. QED
        BY <2>3, <4>1, CallsOK DEF Save
    <3>. QED
      BY <1>2, <2>0, <2>3, <3>1 DEF Save, choice, detail
  <2>4. ASSUME NEW c \in Collections, Select(i, c) PROVE SpinnersEnd'
    BY <1>4, <2>0, <2>4 DEF Select, Reads, list
  <2>5. ASSUME NEW op \in OfCollections \cup OfGroups, NEW c, NEW arg, Submit(i, op, c, arg)
        PROVE  SpinnersEnd'
    <3>1. task'[i].op = op /\ \A j \in Tasks \ {i} : task'[j] = task[j]
      BY <2>5 DEF Submit, Continue, Call, TasksOK
    <3>. QED
      BY <1>1, <2>0, <2>5, <3>1 DEF Submit, choice, detail
  <2>6. ASSUME NEW k, NEW l, Drag(i, k, l) PROVE SpinnersEnd'
    <3>1. /\ Dragged(k, l) \in Seq(Entry) /\ Dragged(k, l) # Null
          /\ ReorderGoesOn(i, selected, Dragged(k, l))
      BY <2>6, Drags, ConsoleAssumption
    <3>2. PICK x : /\ Continue(i, x) /\ TaskOK(x)
                   /\ \/ x.op = "groups"
                      \/ groups' # Null
      BY <3>1 DEF ReorderGoesOn
    <3>3. task'[i] = x /\ \A j \in Tasks \ {i} : task'[j] = task[j]
      BY <3>2, OtherLoads
    <3>. QED
      BY <2>0, <2>6, <3>2, <3>3 DEF Drag, list, SpinnersEnd, Reads
  <2>. QED
    BY <1>5, <2>1, <2>2, <2>3, <2>4, <2>5, <2>6
       DEF Operator, CreateCollection, EditNote, DeleteCollection,
           CreateGroup, EditGroup, DeleteGroup, OfCollections, OfGroups
<1>6. ASSUME NEW i \in Tasks, Handle(i) \/ Fault(i) \/ TimeOut(i) PROVE SpinnersEnd'
  <2>1. InFlight(i) /\ \E a : Reply(i, a)
    BY <1>6 DEF Handle, Fault, TimeOut
  <2>2. \A j \in Tasks : task'[j].op = task[j].op
    BY <2>1, Replied
  <2>. QED
    BY <1>1, <1>6, <2>2 DEF Handle, Fault, TimeOut, choice, detail
<1>7. ASSUME NEW i \in Tasks, Return(i) PROVE SpinnersEnd'
  <2>1. CASE ReturnList(i)
    <3>1. collections' # Null
      BY <2>1, TaskTypes, ConsoleAssumption DEF ReturnList
    <3>2. CASE selected' = Null
      BY <3>1, <3>2 DEF SpinnersEnd
    <3>3. CASE selected \in collections' /\ BeginDetail(i, selected, FALSE)
      <4>1. selected \in Collections
        BY <2>1, <3>3, TaskTypes DEF ReturnList
      <4>. QED
        BY <1>4, <2>1, <3>1, <3>3, <4>1 DEF ReturnList
    <3>. QED
      BY <2>1, <3>2, <3>3 DEF ReturnList
  <2>2. CASE ReturnListFailed(i)
    BY <2>2 DEF ReturnListFailed, SpinnersEnd, PageReady
  <2>3. CASE ReturnGroups(i)
    <3>1. task'[i].op = "snapshot" /\ \A j \in Tasks \ {i} : task'[j] = task[j]
      BY <2>3 DEF ReturnGroups, Continue, Call, TasksOK
    <3>. QED
      BY <2>3, <3>1 DEF ReturnGroups, list, choice, detail, SpinnersEnd, PageReady
  <2>4. CASE ReturnSnapshot(i) \/ ReturnDetailFailed(i)
    <3>1. \A j \in Tasks \ {i} : task'[j] = task[j]
      BY <2>4, OtherLoads, CallsOK DEF ReturnSnapshot, ReturnDetailFailed, Finish
    <3>2. detailError' \/ groups' # Null
      BY <2>4, TaskTypes, ConsoleAssumption DEF ReturnSnapshot, ReturnDetailFailed,
                                               CallOK, Answered
    <3>. QED
      BY <2>4, <3>1, <3>2 DEF ReturnSnapshot, ReturnDetailFailed, list, SpinnersEnd
  <2>5. CASE ReturnCollectionChange(i)
    BY <1>3, <2>5 DEF ReturnCollectionChange
  <2>6. CASE ReturnGroupChange(i) \/ ReturnReorderFailed(i)
    <3>1. task[i].of \in Collections /\ task[i].op # "list"
      BY <2>6, TaskTypes DEF ReturnGroupChange, ReturnReorderFailed, CallOK,
                             Answered, Erred, OfGroups
    <3>. QED
      BY <1>4, <2>6, <3>1 DEF ReturnGroupChange, ReturnReorderFailed, list
  <2>7. CASE ReturnChangeFailed(i) \/ ReturnSaveFailed(i)
    <3>1. task[i].op \notin Reads /\ Continue(i, Free) /\ TaskOK(Free)
      BY <2>7, CallsOK DEF ReturnChangeFailed, ReturnSaveFailed, Finish, Reads,
                           Changes, OfCollections, OfGroups
    <3>. QED
      BY <1>2, <2>7, <3>1 DEF ReturnChangeFailed, ReturnSaveFailed, choice, detail
  <2>8. CASE ReturnReorder(i)
    <3>1. /\ ReorderGoesOn(i, task[i].of, groups) /\ task[i].op = "reorder"
      BY <2>8, ReorderReturns DEF ReturnReorder
    <3>2. PICK x : /\ Continue(i, x) /\ TaskOK(x)
                   /\ \/ x.op = "groups"
                      \/ groups' = groups /\ detailError' = detailError
      BY <3>1 DEF ReorderGoesOn
    <3>3. task'[i] = x /\ \A j \in Tasks \ {i} : task'[j] = task[j]
      BY <3>2, OtherLoads
    <3>. QED
      BY <2>8, <3>1, <3>2, <3>3 DEF ReturnReorder, list, choice, SpinnersEnd, PageReady
  <2>9. CASE ReturnSave(i)
    <3>0. task[i].op \notin Reads
      BY <2>9 DEF ReturnSave, Reads
    <3>1. CASE Mounted(i)
      <4>1. editor.key[1] \in Collections
        BY <3>1, PageTypes DEF Mounted
      <4>. QED
        BY <1>4, <2>9, <3>0, <3>1, <4>1 DEF ReturnSave, list, Reads
    <3>2. CASE ~Mounted(i)
      <4>1. Continue(i, Free) /\ TaskOK(Free)
        BY <2>9, <3>2, CallsOK DEF ReturnSave, Finish
      <4>. QED
        BY <1>2, <2>9, <3>0, <3>2, <4>1 DEF ReturnSave, choice, detail
    <3>. QED
      BY <3>1, <3>2
  <2>. QED
    BY <1>7, <2>1, <2>2, <2>3, <2>4, <2>5, <2>6, <2>7, <2>8, <2>9 DEF Return
<1>8. ASSUME \/ \E t \in late : HandleLate(t)
             \/ \E g \in Groups : SelectGroup(g)
             \/ \E l \in Lists : EditMembers(l)
             \/ Revert
             \/ UNCHANGED vars
      PROVE  SpinnersEnd'
  BY <1>1, <1>8 DEF HandleLate, SelectGroup, EditMembers, Revert, vars, choice, detail, list
<1>. QED
  BY <1>5, <1>6, <1>7, <1>8 DEF Next

(* No spinner turns for ever, whichever loads are overtaken or fail: one   *)
(* under way ends it (_load, _loadDetail).                                 *)
THEOREM SpinnersAreEnded == Spec => []SpinnersEnd
<1>1. Init => SpinnersEnd
  <2>. SUFFICES ASSUME NEW i \in Tasks,
                       task = [j \in Tasks |-> IF j = i THEN Call("list", Null, Null, FALSE)
                                               ELSE Free],
                       Init
                PROVE  SpinnersEnd
    BY DEF Init
  <2>1. task[i].op = "list"
    BY DEF Call
  <2>. QED
    BY <2>1 DEF Init, SpinnersEnd, PageReady
<1>. QED
  BY <1>1, InitTypes, NextTypes, NextSpinners, PTL DEF Spec
-----------------------------------------------------------------------------
(* The call of a reorder that is under way, or of the load it ends with.   *)
ReorderHeld == reordering => \E i \in Tasks : InFlight(i) /\ task[i].reorder

(* Every step keeps a call of a reorder under way while it holds back the  *)
(* next one.                                                               *)
LEMMA NextHeld == TypeOK /\ TasksOK /\ ReorderHeld /\ [Next]_vars => ReorderHeld'
<1>. SUFFICES ASSUME TypeOK, TasksOK, ReorderHeld, [Next]_vars PROVE ReorderHeld'
  OBVIOUS
(* A step of a task that holds nothing back.                               *)
<1>1. ASSUME NEW i \in Tasks, ~(InFlight(i) /\ task[i].reorder),
             \A j \in Tasks \ {i} : task'[j] = task[j],
             reordering' => reordering
      PROVE  ReorderHeld'
  BY <1>1 DEF ReorderHeld, InFlight
(* A step of a task that goes on holding it back.                          *)
<1>2. ASSUME NEW i \in Tasks, task'[i].op # "free", task'[i].reorder PROVE ReorderHeld'
  BY <1>2 DEF ReorderHeld, InFlight
<1>3. ASSUME UNCHANGED <<task, reordering>> PROVE ReorderHeld'
  BY <1>3 DEF ReorderHeld, InFlight
<1>4. ASSUME NEW i \in Tasks, NEW c, NEW shown, ReorderGoesOn(i, c, shown)
      PROVE  ReorderHeld'
  <2>1. PICK x : Continue(i, x) /\ TaskOK(x) /\ x.reorder /\ x.op # "free"
    BY <1>4 DEF ReorderGoesOn
  <2>2. task'[i] = x
    BY <2>1, OtherLoads
  <2>. QED
    BY <1>2, <2>1, <2>2
<1>5. ASSUME NEW i \in Tasks, NEW c, BeginDetail(i, c, TRUE) PROVE ReorderHeld'
  <2>1. task'[i].op # "free" /\ task'[i].reorder
    BY <1>5 DEF BeginDetail, Continue, Call, TasksOK
  <2>. QED
    BY <1>2, <2>1
<1>6. ASSUME NEW i \in Tasks, Operator(i) PROVE ReorderHeld'
  <2>1. ASSUME NEW k, NEW l, Drag(i, k, l) PROVE ReorderHeld'
    BY <1>4, <2>1, Drags
  <2>2. CASE ~ \E k \in 1 .. Cardinality(Groups) : \E l \in 1 .. Cardinality(Groups) :
               Drag(i, k, l)
    <3>1. ~InFlight(i) /\ reordering' = reordering /\ \E x : Continue(i, x)
      BY <1>6, <2>2 DEF Operator, Refresh, RefreshDetail, Save, Select, BeginList,
           BeginDetail, CreateCollection, EditNote, DeleteCollection, CreateGroup,
           EditGroup, DeleteGroup, Submit, Start
    <3>2. \A j \in Tasks \ {i} : task'[j] = task[j]
      BY <3>1 DEF Continue, TasksOK
    <3>. QED
      BY <1>1, <3>1, <3>2
  <2>. QED
    BY <2>1, <2>2
<1>7. ASSUME NEW i \in Tasks, Handle(i) \/ Fault(i) \/ TimeOut(i) PROVE ReorderHeld'
  <2>1. InFlight(i) /\ (\E a : Reply(i, a)) /\ reordering' = reordering
    BY <1>7 DEF Handle, Fault, TimeOut
  <2>2. \A j \in Tasks : task'[j].op = task[j].op /\ task'[j].reorder = task[j].reorder
    BY <2>1, Replied
  <2>. QED
    BY <2>1, <2>2 DEF ReorderHeld, InFlight
<1>8. ASSUME NEW i \in Tasks, Return(i) PROVE ReorderHeld'
  <2>0. InFlight(i) /\ (task[i].reorder => task[i].op \in {"reorder", "groups", "snapshot"})
    BY <1>8, TaskTypes DEF CallOK, Return, ReturnList, ReturnListFailed, ReturnGroups,
         ReturnSnapshot, ReturnDetailFailed, ReturnCollectionChange, ReturnGroupChange,
         ReturnChangeFailed, ReturnReorder, ReturnReorderFailed, ReturnSave,
         ReturnSaveFailed, Answered, Erred
  <2>1. CASE ReturnReorder(i)
    BY <1>4, <2>1, ReorderReturns
  <2>2. CASE ReturnReorderFailed(i)
    BY <1>5, <2>2 DEF ReturnReorderFailed
  <2>3. CASE ReturnGroups(i)
    <3>1. /\ task'[i].op # "free" /\ task'[i].reorder = task[i].reorder
          /\ \A j \in Tasks \ {i} : task'[j] = task[j] /\ reordering' = reordering
      BY <2>3 DEF ReturnGroups, Continue, Call, TasksOK
    <3>. QED
      BY <1>1, <1>2, <2>3, <3>1 DEF ReturnGroups
  <2>4. CASE ReturnSnapshot(i) \/ ReturnDetailFailed(i)
    <3>1. /\ \A j \in Tasks \ {i} : task'[j] = task[j]
          /\ reordering' = (reordering /\ ~task[i].reorder)
      BY <2>4 DEF ReturnSnapshot, ReturnDetailFailed, EndReorder, Finish, Continue, TasksOK
    <3>2. CASE task[i].reorder
      BY <3>1, <3>2 DEF ReorderHeld
    <3>3. CASE ~task[i].reorder
      BY <1>1, <3>1, <3>3
    <3>. QED
      BY <3>2, <3>3
  <2>5. CASE \/ ReturnList(i) \/ ReturnListFailed(i) \/ ReturnCollectionChange(i)
             \/ ReturnGroupChange(i) \/ ReturnChangeFailed(i)
             \/ ReturnSave(i) \/ ReturnSaveFailed(i)
    <3>1. /\ task[i].op \in {"list"} \cup Changes
          /\ reordering' = reordering /\ \E x : Continue(i, x)
      BY <2>5 DEF ReturnList, ReturnListFailed, ReturnCollectionChange, ReturnGroupChange,
           ReturnChangeFailed, ReturnSave, ReturnSaveFailed, BeginList, BeginDetail,
           Finish, Changes
    <3>2. ~task[i].reorder /\ \A j \in Tasks \ {i} : task'[j] = task[j]
      BY <2>0, <3>1 DEF Changes, OfCollections, OfGroups, Continue, TasksOK
    <3>. QED
      BY <1>1, <3>1, <3>2
  <2>. QED
    BY <1>8, <2>1, <2>2, <2>3, <2>4, <2>5 DEF Return
<1>9. ASSUME \/ \E t \in late : HandleLate(t)
             \/ \E g \in Groups : SelectGroup(g)
             \/ \E l \in Lists : EditMembers(l)
             \/ Revert
             \/ UNCHANGED vars
      PROVE  ReorderHeld'
  BY <1>3, <1>9 DEF HandleLate, SelectGroup, EditMembers, Revert, vars
<1>. QED
  BY <1>6, <1>7, <1>8, <1>9 DEF Next
-----------------------------------------------------------------------------
(***************************************************************************)
(* One thing after the other: as long as nothing crosses, one task at most *)
(* is under way and it is of what is selected; what is shown is fresh      *)
(* unless that task has changed the rows, and then it loads them again.    *)
(***************************************************************************)
Fresh == /\ selected \in Existing
         /\ groups = Listing(selected)
         /\ snapshot = MembersOf(selected)

(* What a task has been answered, and what the page shows meanwhile.       *)
Consistent(i) ==
  /\ task[i].op = "list" => collections = Null
  /\ task[i].op \in {"groups", "snapshot"} =>
       groups = Null /\ snapshot = Null /\ task[i].of = selected
  /\ task[i].op = "groups" /\ Answered(i) =>
       /\ task[i].of \in Existing
       /\ task[i].answer.value = Listing(task[i].of)
  /\ task[i].op = "snapshot" =>
       /\ task[i].of \in Existing
       /\ task[i].arg = Listing(task[i].of)
       /\ Answered(i) => task[i].answer.value = MembersOf(task[i].of)
  /\ task[i].op \in OfGroups \cup {"save", "reorder"} => task[i].of = selected
  /\ task[i].op = "save" => Mounted(i)

(* A task that has changed nothing.                                        *)
Unchanged(i) == InFlight(i) => task[i].op \in Changes /\ ~Answered(i)

Idle(i) == task[i].op = "free"

Uncrossed ==
  ~crossed =>
    /\ late = {}
    /\ \A i, j \in Tasks : InFlight(i) /\ InFlight(j) => i = j
    /\ \A i \in Tasks : InFlight(i) => Consistent(i)
    /\ Shown => shownOf = selected
    /\ Shown /\ (\A i \in Tasks : Unchanged(i)) => Fresh

(* What is to be shown of the one task that may be under way.              *)
LEMMA UncrossedBy ==
  ASSUME NEW i \in Tasks, late' = {}, \A j \in Tasks \ {i} : Idle(j)',
         InFlight(i)' => Consistent(i)',
         Shown' => shownOf' = selected',
         Shown' /\ Unchanged(i)' => Fresh'
  PROVE  Uncrossed'
<1>1. \A j \in Tasks : InFlight(j)' => j = i
  BY DEF InFlight, Idle
<1>. QED
  BY <1>1 DEF Uncrossed

(* A function begun where none was under way.                              *)
LEMMA Started ==
  ASSUME TasksOK, Uncrossed, NEW i \in Tasks, NEW x, TaskOK(x), Continue(i, x),
         NEW r \in BOOLEAN, Start(i, r), ~crossed'
  PROVE  /\ late' = {} /\ \A j \in Tasks \ {i} : Idle(j)'
         /\ task'[i] = x
         /\ ~r => /\ ~crossed
                  /\ Shown => shownOf = selected /\ Fresh
<1>1. /\ Alone(i) /\ late = {} /\ late' = late /\ ~InFlight(i)
      /\ ~r => ~crossed
  BY DEF Start, Act
<1>2. \A j \in Tasks : ~InFlight(j)
  BY <1>1 DEF Alone
<1>3. task'[i] = x /\ \A j \in Tasks \ {i} : Idle(j)'
  BY <1>2, OtherLoads DEF InFlight, Idle
<1>4. \A j \in Tasks : Unchanged(j)
  BY <1>2 DEF Unchanged
<1>. QED
  BY <1>1, <1>3, <1>4 DEF Uncrossed

(* A function that goes on, alone.                                         *)
LEMMA WentOn ==
  ASSUME TasksOK, Uncrossed, NEW i \in Tasks, NEW x, TaskOK(x), Continue(i, x),
         InFlight(i), UNCHANGED history, ~crossed'
  PROVE  /\ late' = {} /\ \A j \in Tasks \ {i} : Idle(j)'
         /\ task'[i] = x /\ Consistent(i)
         /\ ~crossed /\ (Shown => shownOf = selected)
         /\ Shown /\ Unchanged(i) => Fresh
<1>1. ~crossed /\ late' = late
  BY DEF history
<1>2. late = {} /\ \A j \in Tasks \ {i} : ~InFlight(j)
  BY <1>1 DEF Uncrossed
<1>3. task'[i] = x /\ \A j \in Tasks \ {i} : Idle(j)'
  BY <1>2, OtherLoads DEF InFlight, Idle
<1>4. \A j \in Tasks \ {i} : Unchanged(j)
  BY <1>2 DEF Unchanged
<1>. QED
  BY <1>1, <1>2, <1>3, <1>4 DEF Uncrossed

(* The load of the detail of what is selected, which hides the groups.     *)
LEMMA DetailBegins ==
  ASSUME NEW i \in Tasks, NEW c, NEW r, BeginDetail(i, c, r), c = selected',
         late' = {}, \A j \in Tasks \ {i} : Idle(j)', task'[i] = Call("groups", c, Null, r)
  PROVE  Uncrossed'
<1>1. ~Shown'
  BY DEF BeginDetail, Shown, DetailReady
<1>2. task'[i].op = "groups" /\ task'[i].of = c /\ task'[i].answer.kind # "ok"
  BY DEF Call, Waiting
<1>3. Consistent(i)'
  BY <1>2 DEF BeginDetail, Consistent, OfGroups, Answered
<1>. QED
  BY <1>1, <1>3, UncrossedBy

(* The load of the list, which hides the groups.                           *)
LEMMA ListBegins ==
  ASSUME NEW i \in Tasks, BeginList(i), late' = {}, \A j \in Tasks \ {i} : Idle(j)',
         task'[i] = Call("list", Null, Null, FALSE)
  PROVE  Uncrossed'
<1>1. ~Shown'
  BY DEF BeginList, Shown, DetailReady, PageReady
<1>2. task'[i].op = "list"
  BY DEF Call
<1>3. Consistent(i)'
  BY <1>2 DEF BeginList, Consistent, OfGroups
<1>. QED
  BY <1>1, <1>3, UncrossedBy

(* A function that ends: if the groups are shown, they are fresh.          *)
LEMMA Ends ==
  ASSUME NEW i \in Tasks, late' = {}, \A j \in Tasks : Idle(j)',
         Shown' => shownOf' = selected' /\ Fresh'
  PROVE  Uncrossed'
<1>1. ~InFlight(i)'
  BY DEF InFlight, Idle
<1>. QED
  BY <1>1, UncrossedBy

(* The steps that leave what is shown and the rows as they are.            *)
LEMMA ShownSame ==
  ASSUME UNCHANGED <<server, list, selected, detail>>
  PROVE  /\ Shown' = Shown /\ shownOf' = shownOf /\ selected' = selected
         /\ Fresh' = Fresh /\ collections' = collections
         /\ groups' = groups /\ snapshot' = snapshot
         /\ Existing' = Existing /\ \A c : Listing(c)' = Listing(c)
         /\ \A c : MembersOf(c)' = MembersOf(c)
BY DEF list, detail, Shown, DetailReady, PageReady, Fresh, Existing, Listing, Entries,
       MembersOf, Has

(* What the operator begins.                                               *)
LEMMA OperatorUncrossed ==
  ASSUME TypeOK, TasksOK, Uncrossed, NEW i \in Tasks, Operator(i), ~crossed'
  PROVE  Uncrossed'
<1>1. CASE Refresh(i)
  BY <1>1, Started, CallsOK, ListBegins DEF Refresh, BeginList
<1>2. CASE RefreshDetail(i)
  <2>1. selected \in Collections /\ selected' = selected
    BY <1>2, PageTypes DEF RefreshDetail, DetailReady, choice
  <2> DEFINE x == Call("groups", selected, Null, FALSE)
  <2>2. TaskOK(x) /\ Continue(i, x) /\ Start(i, TRUE) /\ BeginDetail(i, selected, FALSE)
    BY <1>2, <2>1, CallsOK DEF RefreshDetail, BeginDetail
  <2>3. late' = {} /\ (\A j \in Tasks \ {i} : Idle(j)') /\ task'[i] = x
    BY <2>2, Started
  <2>. QED
    BY <2>1, <2>2, <2>3, DetailBegins
<1>3. ASSUME NEW c \in Collections, Select(i, c) PROVE Uncrossed'
  <2> DEFINE x == Call("groups", c, Null, FALSE)
  <2>1. /\ TaskOK(x) /\ Continue(i, x) /\ Start(i, TRUE)
        /\ BeginDetail(i, c, FALSE) /\ c = selected'
    BY <1>3, CallsOK DEF Select, BeginDetail
  <2>2. late' = {} /\ (\A j \in Tasks \ {i} : Idle(j)') /\ task'[i] = x
    BY <2>1, Started
  <2>. QED
    BY <2>1, <2>2, DetailBegins
(* A change finds fresh what is shown, and is of what is selected.         *)
<1>4. ASSUME NEW x, TaskOK(x), Continue(i, x), Start(i, FALSE),
             UNCHANGED <<server, list, selected, detail>>,
             x.op \in Changes, x.op \in OfGroups \cup {"save"} => x.of = selected,
             x.op = "save" => Mounted(i)'
      PROVE  Uncrossed'
  <2>1. /\ late' = {} /\ \A j \in Tasks \ {i} : Idle(j)'
        /\ task'[i] = x
        /\ Shown => shownOf = selected /\ Fresh
    BY <1>4, Started
  <2>2. Shown' => shownOf' = selected' /\ Fresh'
    BY <1>4, <2>1, ShownSame
  <2>3. Consistent(i)'
    BY <1>4, <2>1, ShownSame DEF Consistent, Changes, OfCollections, OfGroups
  <2>. QED
    BY <2>1, <2>2, <2>3, UncrossedBy
<1>5. CASE Save(i)
  <2> DEFINE m == [name |-> editor.key[2], members |-> editor.members]
             x == Call("save", editor.key[1], m, FALSE)
  <2>1. m \in [name : Groups, members : Lists] /\ editor.key[1] \in Collections
        /\ editor.key[1] = selected /\ editor \in EditorType
    BY <1>5, PageTypes DEF Save
  <2>2. TaskOK(x) /\ Continue(i, x) /\ x.op = "save" /\ x.of = selected
    BY <1>5, <2>1, CallsOK DEF Save, Call
  <2>3. Mounted(i)'
    <3>1. editor' = [editor EXCEPT !.busy = i]
      BY <1>5 DEF Save
    <3>2. editor' \in EditorType /\ editor'.busy = i
      BY <2>1, <3>1 DEF EditorType
    <3>. QED
      BY <3>2, ConsoleAssumption DEF Mounted
  <2>. QED
    BY <1>4, <1>5, <2>2, <2>3 DEF Save, choice, Changes
<1>6. ASSUME NEW c \in Collections,
             CreateCollection(i, c) \/ EditNote(i, c) \/ DeleteCollection(i, c)
      PROVE  Uncrossed'
  <2>1. PICK op \in OfCollections : Submit(i, op, c, Null)
    BY <1>6 DEF CreateCollection, EditNote, DeleteCollection, OfCollections
  <2> DEFINE x == Call(op, c, Null, FALSE)
  <2>2. TaskOK(x) /\ x.op = op
    BY CallsOK DEF Call
  <2>. QED
    BY <1>4, <2>1, <2>2 DEF Submit, choice, Changes, OfCollections, OfGroups
<1>7. ASSUME NEW k,
             (k \in Groups /\ CreateGroup(i, k)) \/ EditGroup(i, k) \/ DeleteGroup(i, k)
      PROVE  Uncrossed'
  <2>1. selected \in Collections /\ groups \in Seq(Entry)
    BY <1>7, PageTypes DEF CreateGroup, EditGroup, DeleteGroup, DetailReady
  <2>2. k \in Groups => [name |-> k, position |-> Len(groups)] \in Entry
    BY <2>1 DEF Entry
  <2>3. PICK op \in OfGroups, e \in Entry : Submit(i, op, selected, e)
    BY <1>7, <2>1, <2>2 DEF CreateGroup, EditGroup, DeleteGroup, OfGroups
  <2> DEFINE x == Call(op, selected, e, FALSE)
  <2>4. TaskOK(x) /\ x.op = op /\ x.of = selected
    BY <2>1, CallsOK DEF Call
  <2>. QED
    BY <1>4, <2>3, <2>4 DEF Submit, choice, Changes, OfGroups
(* A drag shows what the calls are to bring about.                         *)
<1>8. ASSUME NEW k, NEW l, Drag(i, k, l) PROVE Uncrossed'
  <2>1. ReorderGoesOn(i, selected, Dragged(k, l)) /\ Start(i, FALSE)
    BY <1>8, Drags DEF Drag
  <2>2. PICK x : /\ Continue(i, x) /\ TaskOK(x)
                 /\ x.of = selected /\ x.answer = Waiting
                 /\ \/ x.op = "groups" /\ groups' = Null /\ snapshot' = Null
                    \/ x.op = "reorder" /\ UNCHANGED <<snapshot, shownOf>>
    BY <2>1 DEF ReorderGoesOn
  <2>3. /\ late' = {} /\ \A j \in Tasks \ {i} : Idle(j)'
        /\ task'[i] = x
        /\ Shown => shownOf = selected
    BY <2>1, <2>2, Started
  <2>4. Consistent(i)' /\ ~Unchanged(i)'
    BY <1>8, <2>2, <2>3 DEF Drag, choice, Consistent, Unchanged, Answered, InFlight,
         Changes, OfCollections, OfGroups, Waiting
  <2>5. Shown' => shownOf' = selected'
    BY <1>8, <2>2, <2>3 DEF Drag, choice, Shown, DetailReady
  <2>. QED
    BY <2>3, <2>4, <2>5, UncrossedBy
<1>. QED
  BY <1>1, <1>2, <1>3, <1>5, <1>6, <1>7, <1>8 DEF Operator

(* What becomes of a call.                                                 *)
LEMMA CallUncrossed ==
  ASSUME TypeOK, TasksOK, Uncrossed, NEW i \in Tasks, ~crossed',
         Handle(i) \/ Fault(i) \/ TimeOut(i)
  PROVE  Uncrossed'
<1>1. InFlight(i) /\ (Handle(i) \/ Fault(i))
  BY DEF Handle, Fault, TimeOut
<1>2. /\ ~crossed /\ late' = late
      /\ UNCHANGED <<list, selected, detail, editor>>
      /\ \E a : Reply(i, a)
  <2>1. CASE Handle(i)
    BY <2>1 DEF Handle, history, choice
  <2>2. CASE Fault(i)
    BY <2>2 DEF Fault, choice
  <2>3. ~TimeOut(i)
    BY DEF TimeOut
  <2>. QED
    BY <2>1, <2>2, <2>3
<1>3. late' = {} /\ \A j \in Tasks \ {i} : Idle(j)
  BY <1>1, <1>2 DEF Uncrossed, InFlight, Idle, Handle, Fault
<1>4. /\ \A j \in Tasks \ {i} : Idle(j)'
      /\ task'[i].op = task[i].op /\ task'[i].of = task[i].of
      /\ task'[i].arg = task[i].arg /\ CallOK(task[i])
  BY <1>1, <1>2, <1>3, Replied, TaskTypes DEF Idle, Fault
<1>5. InFlight(i) /\ Consistent(i)
      /\ (Shown => shownOf = selected)
      /\ (Shown /\ Unchanged(i) => Fresh)
  BY <1>1, <1>2, <1>3 DEF Uncrossed, Unchanged, InFlight, Idle, Fault
<1>6. Shown' = Shown /\ shownOf' = shownOf /\ selected' = selected
      /\ collections' = collections /\ groups' = groups /\ snapshot' = snapshot
  BY <1>2 DEF list, detail, Shown, DetailReady, PageReady
(* The rows stay as they are, and the answer is what they were.            *)
<1>7. ASSUME server' = server,
             Answered(i)' => /\ Accepts(task[i]) /\ task'[i].answer = Ok(Value(task[i])),
             Unchanged(i)' => Unchanged(i)
      PROVE  Uncrossed'
  <2>0. Fresh' = Fresh /\ Existing' = Existing /\ (\A c : Listing(c)' = Listing(c))
        /\ \A c : MembersOf(c)' = MembersOf(c)
    BY <1>2, <1>7, ShownSame
  <2>1. /\ task[i].op = "groups" /\ Answered(i)' =>
             /\ task[i].of \in Existing
             /\ task'[i].answer.value = Listing(task[i].of)
        /\ task[i].op = "snapshot" /\ Answered(i)' =>
             task'[i].answer.value = MembersOf(task[i].of)
    BY <1>4, <1>7, ValueType DEF Accepts, Ok, TypeOK, ServerType
  <2>2. Consistent(i)'
    BY <1>2, <1>4, <1>5, <1>6, <2>0, <2>1 DEF Consistent, Mounted
  <2>. QED
    BY <1>3, <1>4, <1>5, <1>6, <1>7, <2>0, <2>2, UncrossedBy
<1>8. CASE Handle(i) /\ ~Accepts(task[i])
  <2>1. server' = server /\ task'[i].answer = Failed /\ task[i].answer = Waiting
    BY <1>1, <1>8, Replied DEF Handle
  <2>. QED
    BY <1>4, <1>7, <2>1 DEF Answered, Failed, Waiting, Unchanged, InFlight
<1>9. CASE Handle(i) /\ Accepts(task[i])
  <2>1. /\ task'[i].answer = Ok(Value(task[i])) /\ server' = After(task[i])
    BY <1>1, <1>9, Replied DEF Handle
  <2>2. ~Unchanged(i)'
    BY <1>4, <1>5, <2>1 DEF Unchanged, Answered, InFlight, Ok
  <2>3. CASE task[i].op \in Reads
    <3>1. server' = server
      BY <2>1, <2>3 DEF After, Reads
    <3>. QED
      BY <1>7, <1>9, <2>1, <2>2, <3>1
  <2>4. CASE task[i].op \notin Reads
    <3>1. Consistent(i)'
      BY <1>2, <1>4, <1>5, <1>6, <2>4 DEF Consistent, Mounted, Reads
    <3>. QED
      BY <1>3, <1>4, <1>5, <1>6, <2>2, <3>1, UncrossedBy
  <2>. QED
    BY <2>3, <2>4
<1>10. CASE Fault(i)
  <2>1. /\ server' = server /\ task'[i].answer = Failed /\ task[i].op \notin Changes
    BY <1>10, Replied DEF Fault
  <2>. QED
    BY <1>4, <1>5, <1>7, <2>1 DEF Answered, Failed, Unchanged, InFlight
<1>. QED
  BY <1>1, <1>8, <1>9, <1>10

(* What follows an answer.                                                 *)
LEMMA ReturnUncrossed ==
  ASSUME TypeOK, TasksOK, Uncrossed, NEW i \in Tasks, Return(i), ~crossed'
  PROVE  Uncrossed'
<1>0. UNCHANGED history /\ InFlight(i) /\ selected' \in {selected, Null} /\ server' = server
  BY DEF Return, ReturnList, ReturnListFailed, ReturnGroups, ReturnSnapshot,
         ReturnDetailFailed, ReturnCollectionChange, ReturnGroupChange,
         ReturnChangeFailed, ReturnReorder, ReturnReorderFailed, ReturnSave,
         ReturnSaveFailed, Answered, Erred, choice
<1>1. CallOK(task[i]) /\ \A x : TaskOK(x) /\ Continue(i, x) =>
        /\ late' = {} /\ \A j \in Tasks \ {i} : Idle(j)'
        /\ task'[i] = x /\ Consistent(i)
        /\ Shown => shownOf = selected
        /\ Shown /\ Unchanged(i) => Fresh
  BY <1>0, WentOn, TaskTypes
<1>2. ASSUME Finish(i) PROVE /\ late' = {} /\ Consistent(i)
                             /\ \A j \in Tasks : Idle(j)'
                             /\ Shown => shownOf = selected
                             /\ Shown /\ Unchanged(i) => Fresh
  BY <1>1, <1>2, CallsOK DEF Finish, Free, Idle
(* The load of what is selected.                                           *)
<1>3. ASSUME NEW c \in Collections, NEW r \in BOOLEAN, BeginDetail(i, c, r), c = selected'
      PROVE  Uncrossed'
  <2> DEFINE x == Call("groups", c, Null, r)
  <2>1. TaskOK(x) /\ Continue(i, x)
    BY <1>3, CallsOK DEF BeginDetail
  <2>2. late' = {} /\ (\A j \in Tasks \ {i} : Idle(j)') /\ task'[i] = x
    BY <1>1, <2>1
  <2>. QED
    BY <1>3, <2>2, DetailBegins
<1>4. ASSUME Finish(i), ~Shown' PROVE Uncrossed'
  BY <1>2, <1>4, Ends
(* A change that fails leaves what is shown.                               *)
<1>5. ASSUME Finish(i), UNCHANGED <<server, list, selected, detail>>, Unchanged(i)
      PROVE  Uncrossed'
  BY <1>2, <1>5, ShownSame, Ends
<1>6. Erred(i) => ~Answered(i)
  BY DEF Erred, Answered
<1>7. CASE ReturnList(i)
  <2>1. CASE selected' = Null /\ Finish(i)
    BY <1>4, <2>1 DEF Shown, DetailReady
  <2>2. CASE selected \in collections' /\ BeginDetail(i, selected, FALSE) /\ selected' = selected
    <3>1. selected \in Collections
      BY <1>7, <2>2, TaskTypes DEF ReturnList
    <3>. QED
      BY <1>3, <2>2, <3>1
  <2>. QED
    BY <1>7, <2>1, <2>2 DEF ReturnList
<1>8. CASE ReturnListFailed(i)
  BY <1>4, <1>8 DEF ReturnListFailed, Shown, DetailReady, PageReady
<1>9. CASE ReturnGroups(i)
  <2> DEFINE x == Call("snapshot", task[i].of, task[i].answer.value, task[i].reorder)
  <2>1. TaskOK(x) /\ Continue(i, x)
    BY <1>1, <1>9, TaskTypes, CallsOK DEF ReturnGroups, CallOK, Answered
  <2>2. /\ late' = {} /\ \A j \in Tasks \ {i} : Idle(j)'
        /\ task'[i] = x /\ Consistent(i)
    BY <1>1, <2>1
  <2>3. /\ x.op = "snapshot" /\ x.of = task[i].of /\ x.arg = task[i].answer.value
        /\ x.answer.kind # "ok"
    BY DEF Call, Waiting
  <2> HIDE DEF x
  <2>4. UNCHANGED <<server, list, selected, detail>> /\ task[i].op = "groups" /\ Answered(i)
    BY <1>9 DEF ReturnGroups, choice
  <2>5. groups = Null /\ groups' = Null
    BY <2>2, <2>4 DEF Consistent, detail
  <2>6. Consistent(i)'
    BY <2>2, <2>3, <2>4, ShownSame DEF Consistent, Answered, OfGroups
  <2>7. ~Shown'
    BY <2>5 DEF Shown, DetailReady
  <2>. QED
    BY <2>2, <2>6, <2>7, UncrossedBy
(* What is shown is what the rows are.                                     *)
<1>10. CASE ReturnSnapshot(i)
  <2>1. Finish(i) /\ Consistent(i)
    BY <1>2, <1>10 DEF ReturnSnapshot
  <2>2. /\ task[i].of = selected /\ selected \in Existing
        /\ groups' = Listing(selected) /\ snapshot' = MembersOf(selected)
        /\ shownOf' = selected /\ selected' = selected
    BY <1>10, <2>1 DEF ReturnSnapshot, Consistent, choice
  <2>3. /\ Existing' = Existing /\ Listing(selected)' = Listing(selected)
        /\ MembersOf(selected)' = MembersOf(selected)
    BY <1>0, <2>2 DEF Existing, Listing, Entries, MembersOf, Has
  <2>4. Fresh'
    BY <2>2, <2>3 DEF Fresh
  <2>. QED
    BY <1>2, <2>1, <2>2, <2>4, Ends
<1>11. CASE ReturnDetailFailed(i)
  BY <1>4, <1>11 DEF ReturnDetailFailed, Shown, DetailReady
<1>12. CASE ReturnCollectionChange(i)
  <2>1. BeginList(i)
    BY <1>12 DEF ReturnCollectionChange
  <2> DEFINE x == Call("list", Null, Null, FALSE)
  <2>2. TaskOK(x) /\ Continue(i, x)
    BY <2>1, CallsOK DEF BeginList
  <2>3. late' = {} /\ (\A j \in Tasks \ {i} : Idle(j)') /\ task'[i] = x
    BY <1>1, <2>2
  <2>. QED
    BY <2>1, <2>3, ListBegins
<1>13. CASE ReturnGroupChange(i) \/ ReturnReorderFailed(i)
  <2>1. task[i].op \in OfGroups \cup {"reorder"} /\ selected' = selected
        /\ \E r \in BOOLEAN : BeginDetail(i, task[i].of, r)
    BY <1>13 DEF ReturnGroupChange, ReturnReorderFailed, choice
  <2>2. task[i].of \in Collections
    BY <1>1, <2>1 DEF CallOK, OfGroups
  <2>3. \E x : TaskOK(x) /\ Continue(i, x)
    BY <2>1, <2>2, CallsOK DEF BeginDetail
  <2>4. Consistent(i)
    BY <1>1, <2>3
  <2>5. task[i].of = selected
    BY <2>1, <2>4 DEF Consistent
  <2>. QED
    BY <1>3, <2>1, <2>2, <2>5
<1>14. CASE ReturnChangeFailed(i) \/ ReturnSaveFailed(i)
  <2>1. /\ task[i].op \in Changes /\ Erred(i) /\ Finish(i)
        /\ UNCHANGED <<server, list, selected, detail>>
    BY <1>14 DEF ReturnChangeFailed, ReturnSaveFailed, Changes, choice
  <2>2. Unchanged(i)
    BY <1>6, <2>1 DEF Unchanged
  <2>. QED
    BY <1>5, <2>1, <2>2
<1>15. CASE ReturnReorder(i)
  <2>1. ReorderGoesOn(i, task[i].of, groups) /\ task[i].op = "reorder"
    BY <1>15, ReorderReturns DEF ReturnReorder
  <2>2. PICK x : /\ Continue(i, x) /\ TaskOK(x)
                 /\ x.of = task[i].of /\ x.answer = Waiting
                 /\ \/ x.op = "groups" /\ groups' = Null /\ snapshot' = Null
                    \/ /\ x.op = "reorder" /\ groups' = groups
                       /\ UNCHANGED <<snapshot, detailError, shownOf>>
    BY <2>1 DEF ReorderGoesOn
  <2>3. /\ late' = {} /\ \A j \in Tasks \ {i} : Idle(j)'
        /\ task'[i] = x /\ Consistent(i)
        /\ Shown => shownOf = selected
    BY <1>1, <2>2
  <2>4. /\ x.of = selected /\ selected' = selected
        /\ collections' = collections /\ error' = error
    BY <1>15, <2>1, <2>2, <2>3 DEF Consistent, ReturnReorder, choice, list
  <2>5. Consistent(i)' /\ ~Unchanged(i)'
    BY <2>2, <2>3, <2>4 DEF Consistent, Unchanged, Answered, InFlight,
         Changes, OfCollections, OfGroups, Waiting
  <2>6. Shown' => shownOf' = selected'
    BY <2>2, <2>3, <2>4 DEF Shown, DetailReady, PageReady
  <2>. QED
    BY <2>3, <2>5, <2>6, UncrossedBy
(* The editor that saved is still there, and has the detail loaded.        *)
<1>16. CASE ReturnSave(i)
  <2>1. /\ task[i].op = "save" /\ selected' = selected
        /\ Mounted(i) => BeginDetail(i, editor.key[1], FALSE)
        /\ ~Mounted(i) => Finish(i)
    BY <1>16 DEF ReturnSave, choice
  <2>2. Mounted(i)
    <3>1. ASSUME ~Mounted(i) PROVE Consistent(i)
      BY <1>2, <2>1, <3>1
    <3>. QED
      BY <2>1, <3>1 DEF Consistent
  <2>3. editor.key[1] \in Collections /\ editor.key[1] = selected
    BY <2>2, PageTypes DEF Mounted
  <2>. QED
    BY <1>3, <2>1, <2>2, <2>3
<1>. QED
  BY <1>7, <1>8, <1>9, <1>10, <1>11, <1>12, <1>13, <1>14, <1>15, <1>16 DEF Return

(* Every step keeps to it.                                                 *)
LEMMA NextUncrossed == TypeOK /\ TasksOK /\ Uncrossed /\ [Next]_vars => Uncrossed'
<1>. SUFFICES ASSUME TypeOK, TasksOK, Uncrossed, [Next]_vars, ~crossed' PROVE Uncrossed'
  BY DEF Uncrossed
(* The steps of the editor, and of one that stays while a save of it is    *)
(* under way.                                                              *)
<1>1. ASSUME UNCHANGED <<server, list, selected, detail, task, late>>, ~crossed,
             \A i \in Tasks : task[i].op = "save" /\ Mounted(i) => Mounted(i)'
      PROVE  Uncrossed'
  <2>1. \A i \in Tasks : /\ InFlight(i)' = InFlight(i) /\ Answered(i)' = Answered(i)
                         /\ Unchanged(i)' = Unchanged(i)
    BY <1>1 DEF InFlight, Answered, Unchanged
  <2>2. \A i \in Tasks : Consistent(i) => Consistent(i)'
    BY <1>1, <2>1, ShownSame DEF Consistent
  <2>3. /\ late = {}
        /\ \A i, j \in Tasks : InFlight(i) /\ InFlight(j) => i = j
        /\ \A i \in Tasks : InFlight(i) => Consistent(i)
        /\ Shown => shownOf = selected
        /\ Shown /\ (\A i \in Tasks : Unchanged(i)) => Fresh
    BY <1>1 DEF Uncrossed
  <2>4. /\ late' = {}
        /\ \A i, j \in Tasks : InFlight(i)' /\ InFlight(j)' => i = j
        /\ \A i \in Tasks : InFlight(i)' => Consistent(i)'
    BY <1>1, <2>1, <2>2, <2>3
  <2>5. /\ Shown' => shownOf' = selected'
        /\ Shown' /\ (\A i \in Tasks : Unchanged(i)') => Fresh'
    BY <1>1, <2>1, <2>3, ShownSame
  <2>. QED
    BY <2>4, <2>5 DEF Uncrossed
<1>2. ASSUME NEW t \in late, HandleLate(t) PROVE Uncrossed'
  BY <1>2 DEF HandleLate, Uncrossed
<1>3. ASSUME NEW g \in Groups, SelectGroup(g) PROVE Uncrossed'
  <2>1. /\ ~crossed /\ UNCHANGED <<server, list, selected, detail, task, late>>
        /\ (\E i \in Tasks : task[i].op = "save") => g = selectedGroup
    BY <1>3 DEF SelectGroup, Act
  <2>2. ASSUME NEW i \in Tasks, task[i].op = "save", Mounted(i) PROVE Mounted(i)'
    <3>1. /\ editor # Null /\ editor.busy = i /\ editor \in EditorType
          /\ Mounts /\ editor.key = Key
      BY <2>2 DEF Mounted, TypeOK
    <3>2. Mounts' /\ Key' = Key /\ snapshot' = snapshot
      BY <1>3, <2>1, <2>2, <3>1 DEF SelectGroup, Mounts, Key, list, detail
    <3>3. editor' = editor
      BY <1>3, <3>1, <3>2 DEF SelectGroup, Rebuild
    <3>. QED
      BY <2>2, <3>3 DEF Mounted
  <2>. QED
    BY <1>1, <2>1, <2>2
<1>4. ASSUME NEW l \in Lists, EditMembers(l) PROVE Uncrossed'
  <2>1. /\ editor \in EditorType
        /\ editor' = [editor EXCEPT !.members = l, !.dirty = TRUE]
    BY <1>4, PageTypes DEF EditMembers
  <2>2. editor' \in EditorType /\ editor'.busy = editor.busy
    BY <2>1 DEF EditorType
  <2>3. editor' # Null
    BY <2>2, ConsoleAssumption
  <2>. QED
    BY <1>1, <1>4, <2>2, <2>3 DEF EditMembers, Act, choice, Mounted
<1>5. CASE Revert
  <2>1. \A i \in Tasks : ~Mounted(i)
    BY <1>5, ConsoleAssumption DEF Revert, Mounted
  <2>. QED
    BY <1>1, <1>5, <2>1 DEF Revert, Act, choice
<1>6. CASE UNCHANGED vars
  BY <1>1, <1>6 DEF vars, list, choice, detail, history, Mounted
<1>. QED
  BY <1>2, <1>3, <1>4, <1>5, <1>6, OperatorUncrossed, CallUncrossed, ReturnUncrossed DEF Next

(* The page is opened with one task, which loads the list.                 *)
LEMMA InitUncrossed == Init => Uncrossed /\ ReorderHeld
<1>. SUFFICES ASSUME NEW i \in Tasks,
                     task = [j \in Tasks |-> IF j = i THEN Call("list", Null, Null, FALSE)
                                             ELSE Free],
                     Init
              PROVE  Uncrossed /\ ReorderHeld
  BY DEF Init
<1>1. task[i].op = "list" /\ \A j \in Tasks \ {i} : ~InFlight(j)
  BY DEF Call, Free, InFlight
<1>2. Consistent(i) /\ ~Shown /\ late = {}
  BY <1>1 DEF Init, Consistent, OfGroups, Shown, DetailReady, PageReady
<1>3. ReorderHeld
  BY DEF Init, ReorderHeld
<1>. QED
  BY <1>1, <1>2, <1>3 DEF Uncrossed

(* The groups shown are those of the collection selected, unless two       *)
(* functions were under way at once since (_loadDetail never asks).        *)
THEOREM DetailIsOfSelected == Spec => []DetailOfSelectedUnlessCrossed
<1>1. Uncrossed => DetailOfSelectedUnlessCrossed
  BY DEF Uncrossed, DetailOfSelectedUnlessCrossed, DetailOfSelected
<1>. QED
  BY <1>1, InitTypes, InitUncrossed, NextTypes, NextUncrossed, PTL DEF Spec

(* At rest, the page shows what the server holds, whatever was done one    *)
(* thing after the other, and the groups can be dragged again (_load,      *)
(* _loadDetail, _reorderGroups).                                           *)
THEOREM AtRestServerIsShown == Spec => []AtRestShowsServer
<1>1. Uncrossed /\ ReorderHeld => AtRestShowsServer
  BY DEF Uncrossed, ReorderHeld, AtRestShowsServer, Fresh, Unchanged
<1>. QED
  BY <1>1, InitTypes, InitUncrossed, NextTypes, NextUncrossed, NextHeld, PTL DEF Spec
=============================================================================
