---------------------------- MODULE OperationProofs ----------------------------
(***************************************************************************)
(* Proofs about what an operator runs: the migration (Migrate), for any    *)
(* collections, policies, user models, groups and runs, and the process    *)
(* (Server), for any requests, keys and configurations.                    *)
(***************************************************************************)
EXTENDS Migrate, Server, ComposeProofs

(* SelectedTo does what its definition says.                               *)
SelectNext(s, l, B, k) == IF l[k] \in B THEN Append(s, l[k]) ELSE s

SelectFit(f, l, B) ==
  f = [k \in 0 .. Len(l) |-> IF k = 0 THEN <<>>
                             ELSE SelectNext(f[k - 1], l, B, k)]

(* If any function does it, SelectedTo does.                               *)
LEMMA SelectChosen ==
  ASSUME NEW l, NEW B, NEW f, SelectFit(f, l, B)
  PROVE  SelectFit(SelectedTo(l, B), l, B)
<1>1. SelectedTo(l, B) = CHOOSE g : SelectFit(g, l, B)
  BY DEF SelectedTo, SelectFit, SelectNext
<1>. QED
  BY <1>1

(* One more element of the list leaves a list of its elements.             *)
LEMMA SelectType ==
  ASSUME NEW T, NEW B, NEW l \in Seq(T), NEW k \in 1 .. Len(l),
         NEW s \in Seq(T)
  PROVE  SelectNext(s, l, B, k) \in Seq(T)
BY DEF SelectNext

(* There is a function that does what SelectedTo says, so SelectedTo,      *)
(* which chooses one, does.                                                *)
LEMMA SelectRecur ==
  ASSUME NEW T, NEW B, NEW l \in Seq(T)
  PROVE  SelectFit(SelectedTo(l, B), l, B)
<1> DEFINE n == Len(l)
           S == Seq(T)
           step == [x \in S \X (1 .. n) |-> SelectNext(x[1], l, B, x[2])]
           a == <<>>
<1>1. n \in Nat /\ a \in S
  OBVIOUS
<1>2. \A s \in S : \A k \in 1 .. n : SelectNext(s, l, B, k) \in S
  BY SelectType
<1>3. step \in [S \X (1 .. n) -> S]
  <2> HIDE DEF n, S, a
  <2>. QED
    BY <1>2
<1>4. PICK f : Follows(f, n, S, a, step)
  <2> HIDE DEF n, S, step, a
  <2>. QED
    BY <1>1, <1>3, Recursion
<1>5. ASSUME NEW k \in 1 .. n
      PROVE  step[<<f[k - 1], k>>] = SelectNext(f[k - 1], l, B, k)
  <2>1. f[k - 1] \in S
    <3> HIDE DEF n, S, step, a
    <3>. QED
      BY <1>1, <1>4 DEF Follows
  <2> HIDE DEF n, S, a
  <2>2. <<f[k - 1], k>> \in S \X (1 .. n)
    BY <2>1
  <2>. QED
    BY <2>2
<1>6. SelectFit(f, l, B)
  <2>1. f = [k \in 0 .. n |-> IF k = 0 THEN a ELSE step[<<f[k - 1], k>>]]
    <3> HIDE DEF n, S, step, a
    <3>. QED
      BY <1>1, <1>4, Follower
  <2>2. \A k \in 0 .. n : (IF k = 0 THEN a ELSE step[<<f[k - 1], k>>])
                         = (IF k = 0 THEN a ELSE SelectNext(f[k - 1], l, B, k))
    <3>. SUFFICES ASSUME NEW k \in 0 .. n, k # 0
                  PROVE  step[<<f[k - 1], k>>] = SelectNext(f[k - 1], l, B, k)
      OBVIOUS
    <3>1. k \in 1 .. n
      BY <1>1
    <3> HIDE DEF n, S, step, a
    <3>. QED
      BY <1>5, <3>1
  <2>3. [k \in 0 .. n |-> IF k = 0 THEN a ELSE step[<<f[k - 1], k>>]]
          = [k \in 0 .. n |-> IF k = 0 THEN a ELSE SelectNext(f[k - 1], l, B, k)]
    <3> HIDE DEF n, S, step, a
    <3>. QED
      BY <2>2
  <2>. QED
    BY <2>1, <2>3 DEF SelectFit
<1>. QED
  BY <1>6, SelectChosen

(* A selection begins with nothing, takes one element after the other, and *)
(* is a list of the same elements.                                         *)
LEMMA SelectUnrolled ==
  ASSUME NEW T, NEW B, NEW l \in Seq(T)
  PROVE  /\ SelectedTo(l, B)[0] = <<>>
         /\ \A k \in 1 .. Len(l) :
              SelectedTo(l, B)[k] = SelectNext(SelectedTo(l, B)[k - 1], l, B, k)
         /\ \A k \in 0 .. Len(l) :
              SelectedTo(l, B)[k] \in Seq(T)
<1> DEFINE f == SelectedTo(l, B)
           n == Len(l)
           a == <<>>
           b == [k \in 1 .. n |-> SelectNext(f[k - 1], l, B, k)]
           S == Seq(T)
<1>0. n \in Nat /\ a \in S
  OBVIOUS
<1>1. f = [k \in 0 .. n |-> IF k = 0 THEN a ELSE b[k]]
  <2>1. SelectFit(f, l, B)
    BY SelectRecur
  <2>2. \A k \in 0 .. n : (IF k = 0 THEN a ELSE SelectNext(f[k - 1], l, B, k))
                         = (IF k = 0 THEN a ELSE b[k])
    <3>. SUFFICES ASSUME NEW k \in 0 .. n, k # 0
                  PROVE  b[k] = SelectNext(f[k - 1], l, B, k)
      OBVIOUS
    <3>1. k \in 1 .. n
      BY <1>0
    <3> HIDE DEF n, f
    <3>. QED
      BY <3>1
  <2>3. [k \in 0 .. n |-> IF k = 0 THEN a ELSE SelectNext(f[k - 1], l, B, k)]
          = [k \in 0 .. n |-> IF k = 0 THEN a ELSE b[k]]
    <3> HIDE DEF n, f, a, b
    <3>. QED
      BY <2>2
  <2>. QED
    BY <2>1, <2>3 DEF SelectFit
<1>2. f[0] = a /\ \A k \in 1 .. n : f[k] = b[k]
  <2> HIDE DEF f, n, a, b
  <2>. QED
    BY <1>0, <1>1, Unrolled
<1>3. \A k \in 1 .. n : f[k] = SelectNext(f[k - 1], l, B, k)
  <2> HIDE DEF f, n
  <2>. QED
    BY <1>2
<1>4. \A k \in 0 .. n : f[k] \in S
  <2> DEFINE I == {k \in 0 .. n : f[k] \in S}
  <2>1. 0 \in I
    <3> HIDE DEF f, n, S, a
    <3>. QED
      BY <1>0, <1>2
  <2>2. ASSUME NEW k \in 1 .. n, k - 1 \in I PROVE k \in I
    <3>1. f[k] = SelectNext(f[k - 1], l, B, k) /\ f[k - 1] \in S
      BY <1>3, <2>2
    <3>2. f[k] \in S
      BY <3>1, SelectType
    <3> HIDE DEF f, n, S
    <3>. QED
      BY <1>0, <3>2
  <2>3. I = 0 .. n
    <3>1. I \in SUBSET (0 .. n)
      OBVIOUS
    <3> HIDE DEF I, n
    <3>. QED
      BY <1>0, <2>1, <2>2, <3>1, InductionUpTo
  <2> HIDE DEF S, n, f
  <2>. QED
    BY <2>3
<1>. QED
  BY <1>2, <1>3, <1>4
(* BestTo does what its definition says.                                   *)
BetterOf(s, names, count, k) ==
  IF count[names[k + 1]] > count[s] THEN names[k + 1] ELSE s

BestFit(f, names, count) ==
  f = [k \in 0 .. Len(names) - 1 |->
         IF k = 0 THEN names[1] ELSE BetterOf(f[k - 1], names, count, k)]

(* If any function does it, BestTo does.                                   *)
LEMMA BestChosen ==
  ASSUME NEW names, NEW count, NEW f, BestFit(f, names, count)
  PROVE  BestFit(BestTo(names, count), names, count)
<1>1. BestTo(names, count) = CHOOSE g : BestFit(g, names, count)
  BY DEF BestTo, BestFit, BetterOf
<1>. QED
  BY <1>1

(* One more name leaves a name.                                            *)
LEMMA BestType ==
  ASSUME NEW P, NEW count, NEW names \in Seq(P), NEW k \in 1 .. Len(names) - 1,
         NEW s \in P
  PROVE  BetterOf(s, names, count, k) \in P
BY DEF BetterOf

(* There is a function that does what BestTo says, so BestTo, which        *)
(* chooses one, does.                                                      *)
LEMMA BestRecur ==
  ASSUME NEW P, NEW count, NEW names \in Seq(P), names # <<>>
  PROVE  BestFit(BestTo(names, count), names, count)
<1> DEFINE n == Len(names) - 1
           S == P
           step == [x \in S \X (1 .. n) |-> BetterOf(x[1], names, count, x[2])]
           a == names[1]
<1>1. n \in Nat /\ a \in S
  OBVIOUS
<1>2. \A s \in S : \A k \in 1 .. n : BetterOf(s, names, count, k) \in S
  BY BestType
<1>3. step \in [S \X (1 .. n) -> S]
  <2> HIDE DEF n, S, a
  <2>. QED
    BY <1>2
<1>4. PICK f : Follows(f, n, S, a, step)
  <2> HIDE DEF n, S, step, a
  <2>. QED
    BY <1>1, <1>3, Recursion
<1>5. ASSUME NEW k \in 1 .. n
      PROVE  step[<<f[k - 1], k>>] = BetterOf(f[k - 1], names, count, k)
  <2>1. f[k - 1] \in S
    <3> HIDE DEF n, S, step, a
    <3>. QED
      BY <1>1, <1>4 DEF Follows
  <2> HIDE DEF n, S, a
  <2>2. <<f[k - 1], k>> \in S \X (1 .. n)
    BY <2>1
  <2>. QED
    BY <2>2
<1>6. BestFit(f, names, count)
  <2>1. f = [k \in 0 .. n |-> IF k = 0 THEN a ELSE step[<<f[k - 1], k>>]]
    <3> HIDE DEF n, S, step, a
    <3>. QED
      BY <1>1, <1>4, Follower
  <2>2. \A k \in 0 .. n : (IF k = 0 THEN a ELSE step[<<f[k - 1], k>>])
                         = (IF k = 0 THEN a ELSE BetterOf(f[k - 1], names, count, k))
    <3>. SUFFICES ASSUME NEW k \in 0 .. n, k # 0
                  PROVE  step[<<f[k - 1], k>>] = BetterOf(f[k - 1], names, count, k)
      OBVIOUS
    <3>1. k \in 1 .. n
      BY <1>1
    <3> HIDE DEF n, S, step, a
    <3>. QED
      BY <1>5, <3>1
  <2>3. [k \in 0 .. n |-> IF k = 0 THEN a ELSE step[<<f[k - 1], k>>]]
          = [k \in 0 .. n |-> IF k = 0 THEN a ELSE BetterOf(f[k - 1], names, count, k)]
    <3> HIDE DEF n, S, step, a
    <3>. QED
      BY <2>2
  <2>. QED
    BY <2>1, <2>3 DEF BestFit
<1>. QED
  BY <1>6, BestChosen

(* The best begins as the first name, meets one name after the other, and  *)
(* is one of them.                                                         *)
LEMMA BestUnrolled ==
  ASSUME NEW P, NEW count, NEW names \in Seq(P), names # <<>>
  PROVE  /\ BestTo(names, count)[0] = names[1]
         /\ \A k \in 1 .. Len(names) - 1 :
              BestTo(names, count)[k] = BetterOf(BestTo(names, count)[k - 1], names, count, k)
         /\ \A k \in 0 .. Len(names) - 1 :
              BestTo(names, count)[k] \in P
<1> DEFINE f == BestTo(names, count)
           n == Len(names) - 1
           a == names[1]
           b == [k \in 1 .. n |-> BetterOf(f[k - 1], names, count, k)]
           S == P
<1>0. n \in Nat /\ a \in S
  OBVIOUS
<1>1. f = [k \in 0 .. n |-> IF k = 0 THEN a ELSE b[k]]
  <2>1. BestFit(f, names, count)
    BY BestRecur
  <2>2. \A k \in 0 .. n : (IF k = 0 THEN a ELSE BetterOf(f[k - 1], names, count, k))
                         = (IF k = 0 THEN a ELSE b[k])
    <3>. SUFFICES ASSUME NEW k \in 0 .. n, k # 0
                  PROVE  b[k] = BetterOf(f[k - 1], names, count, k)
      OBVIOUS
    <3>1. k \in 1 .. n
      BY <1>0
    <3> HIDE DEF n, f
    <3>. QED
      BY <3>1
  <2>3. [k \in 0 .. n |-> IF k = 0 THEN a ELSE BetterOf(f[k - 1], names, count, k)]
          = [k \in 0 .. n |-> IF k = 0 THEN a ELSE b[k]]
    <3> HIDE DEF n, f, a, b
    <3>. QED
      BY <2>2
  <2>. QED
    BY <2>1, <2>3 DEF BestFit
<1>2. f[0] = a /\ \A k \in 1 .. n : f[k] = b[k]
  <2> HIDE DEF f, n, a, b
  <2>. QED
    BY <1>0, <1>1, Unrolled
<1>3. \A k \in 1 .. n : f[k] = BetterOf(f[k - 1], names, count, k)
  <2> HIDE DEF f, n
  <2>. QED
    BY <1>2
<1>4. \A k \in 0 .. n : f[k] \in S
  <2> DEFINE I == {k \in 0 .. n : f[k] \in S}
  <2>1. 0 \in I
    <3> HIDE DEF f, n, S, a
    <3>. QED
      BY <1>0, <1>2
  <2>2. ASSUME NEW k \in 1 .. n, k - 1 \in I PROVE k \in I
    <3>1. f[k] = BetterOf(f[k - 1], names, count, k) /\ f[k - 1] \in S
      BY <1>3, <2>2
    <3>2. f[k] \in S
      BY <3>1, BestType
    <3> HIDE DEF f, n, S
    <3>. QED
      BY <1>0, <3>2
  <2>3. I = 0 .. n
    <3>1. I \in SUBSET (0 .. n)
      OBVIOUS
    <3> HIDE DEF I, n
    <3>. QED
      BY <1>0, <2>1, <2>2, <3>1, InductionUpTo
  <2> HIDE DEF S, n, f
  <2>. QED
    BY <2>3
<1>. QED
  BY <1>2, <1>3, <1>4
-----------------------------------------------------------------------------
(* What is selected, and where: the places of the elements of s in l, in   *)
(* order, are those of the first k that are in B.                          *)
Picks(place, s, l, B, k) ==
  /\ \A i \in 1 .. k : l[i] \in B => \E a \in 1 .. Len(s) : place[a] = i
  /\ \A a \in 1 .. Len(s) : place[a] \in 1 .. k /\ l[place[a]] \in B
  /\ \A a, b \in 1 .. Len(s) : a < b => place[a] < place[b]
  /\ \A a \in 1 .. Len(s) : s[a] = l[place[a]]

(* An element of B adds itself and its place.                              *)
LEMMA PicksOneMore ==
  ASSUME NEW T, NEW B, NEW l \in Seq(T), NEW k \in 1 .. Len(l), NEW s \in Seq(T),
         NEW place \in [1 .. Len(s) -> 1 .. Len(l)], Picks(place, s, l, B, k - 1)
  PROVE  \E q \in [1 .. Len(SelectNext(s, l, B, k)) -> 1 .. Len(l)] :
           Picks(q, SelectNext(s, l, B, k), l, B, k)
<1>1. CASE l[k] \notin B
  <2>1. SelectNext(s, l, B, k) = s
    BY <1>1 DEF SelectNext
  <2>2. Picks(place, s, l, B, k)
    BY <1>1 DEF Picks
  <2>. QED
    BY <2>1, <2>2
<1>2. CASE l[k] \in B
  <2> DEFINE m == Len(s)
             t == Append(s, l[k])
             q == [a \in 1 .. m + 1 |-> IF a = m + 1 THEN k ELSE place[a]]
  <2>1. /\ SelectNext(s, l, B, k) = t
        /\ m \in Nat /\ Len(t) = m + 1
        /\ t[m + 1] = l[k] /\ \A a \in 1 .. m : t[a] = s[a]
    BY <1>2 DEF SelectNext
  <2>2. /\ \A a \in 1 .. m : place[a] \in 1 .. k - 1
        /\ k \in 1 .. Len(l) /\ k \in Nat /\ Len(l) \in Nat
    BY DEF Picks
  <2>3. /\ q[m + 1] = k
        /\ \A a \in 1 .. m : q[a] = place[a] /\ q[a] \in 1 .. k - 1
        /\ \A a \in 1 .. m + 1 : a \in 1 .. m \/ a = m + 1
    BY <2>1, <2>2
  <2>4. q \in [1 .. m + 1 -> 1 .. Len(l)]
    BY <2>1, <2>2
  <2> HIDE DEF q, t, m
  <2>5. Picks(q, t, l, B, k)
    <3>1. ASSUME NEW i \in 1 .. k, l[i] \in B PROVE \E a \in 1 .. m + 1 : q[a] = i
      <4>1. CASE i = k
        BY <2>1, <2>3, <4>1
      <4>2. CASE i \in 1 .. k - 1
        <5>1. PICK a \in 1 .. m : place[a] = i
          BY <3>1, <4>2 DEF Picks, m
        <5>2. q[a] = i /\ a \in 1 .. m + 1
          BY <2>1, <2>3, <5>1
        <5>. QED
          BY <5>2
      <4>. QED
        BY <2>2, <4>1, <4>2
    <3>2. ASSUME NEW a \in 1 .. m + 1 PROVE q[a] \in 1 .. k /\ l[q[a]] \in B
      <4>1. CASE a = m + 1
        BY <1>2, <2>2, <2>3, <4>1
      <4>2. CASE a \in 1 .. m
        <5>1. q[a] = place[a] /\ q[a] \in 1 .. k - 1 /\ l[place[a]] \in B
          BY <2>3, <4>2 DEF Picks, m
        <5>. QED
          BY <2>2, <5>1
      <4>. QED
        BY <2>3, <4>1, <4>2
    <3>3. ASSUME NEW a \in 1 .. m + 1, NEW b \in 1 .. m + 1, a < b PROVE q[a] < q[b]
      <4>1. a \in 1 .. m
        BY <2>1, <3>3
      <4>2. CASE b \in 1 .. m
        BY <2>3, <3>3, <4>1, <4>2 DEF Picks, m
      <4>3. CASE b = m + 1
        BY <2>2, <2>3, <4>1, <4>3
      <4>. QED
        BY <2>3, <4>2, <4>3
    <3>4. \A a \in 1 .. m + 1 : t[a] = l[q[a]]
      BY <2>1, <2>3 DEF Picks, m
    <3>. QED
      BY <2>1, <3>1, <3>2, <3>3, <3>4 DEF Picks
  <2>. QED
    BY <2>1, <2>4, <2>5
<1>. QED
  BY <1>1, <1>2

(* What is selected from a list, and where it stands in it.                *)
LEMMA SelectedPlaces ==
  ASSUME NEW T, NEW B, NEW l \in Seq(T)
  PROVE  /\ Selected(l, B) \in Seq(T)
         /\ \E place \in [1 .. Len(Selected(l, B)) -> 1 .. Len(l)] :
              Picks(place, Selected(l, B), l, B, Len(l))
<1> DEFINE f == SelectedTo(l, B)
           n == Len(l)
           I == {k \in 0 .. n : \E q \in [1 .. Len(f[k]) -> 1 .. Len(l)] :
                                  Picks(q, f[k], l, B, k)}
<1>0. n \in Nat
  OBVIOUS
<1>1. /\ f[0] = <<>>
      /\ \A k \in 1 .. n : f[k] = SelectNext(f[k - 1], l, B, k)
      /\ \A k \in 0 .. n : f[k] \in Seq(T)
  BY SelectUnrolled
<1>2. 0 \in I
  <2> DEFINE q == [a \in 1 .. 0 |-> a]
  <2>1. Len(f[0]) = 0 /\ q \in [1 .. 0 -> 1 .. Len(l)]
    BY <1>1
  <2> HIDE DEF q, f
  <2>2. Picks(q, f[0], l, B, 0)
    BY <2>1 DEF Picks
  <2>3. \E p \in [1 .. Len(f[0]) -> 1 .. Len(l)] : Picks(p, f[0], l, B, 0)
    BY <2>1, <2>2
  <2>. QED
    BY <1>0, <2>3
<1>3. ASSUME NEW k \in 1 .. n, k - 1 \in I PROVE k \in I
  <2>1. PICK q \in [1 .. Len(f[k - 1]) -> 1 .. Len(l)] : Picks(q, f[k - 1], l, B, k - 1)
    BY <1>3
  <2>2. f[k - 1] \in Seq(T) /\ f[k] = SelectNext(f[k - 1], l, B, k)
    BY <1>0, <1>1
  <2> HIDE DEF f
  <2>3. \E p \in [1 .. Len(f[k]) -> 1 .. Len(l)] : Picks(p, f[k], l, B, k)
    <3> DEFINE s == f[k - 1]
    <3> HIDE DEF s
    <3>1. /\ s \in Seq(T) /\ k \in 1 .. Len(l) /\ l \in Seq(T)
          /\ q \in [1 .. Len(s) -> 1 .. Len(l)] /\ Picks(q, s, l, B, k - 1)
      BY <2>1, <2>2 DEF s
    <3>2. \E p \in [1 .. Len(SelectNext(s, l, B, k)) -> 1 .. Len(l)] :
            Picks(p, SelectNext(s, l, B, k), l, B, k)
      BY <3>1, PicksOneMore
    <3>. QED
      BY <2>2, <3>2 DEF s
  <2>4. k \in 0 .. n
    BY <1>0
  <2> HIDE DEF n
  <2>. QED
    BY <2>3, <2>4
<1>4. I = 0 .. n
  <2>1. I \in SUBSET (0 .. n)
    OBVIOUS
  <2> HIDE DEF I, n
  <2>. QED
    BY <1>0, <1>2, <1>3, <2>1, InductionUpTo
<1>5. n \in I
  <2> HIDE DEF I, n
  <2>. QED
    BY <1>0, <1>4
<1>. QED
  BY <1>0, <1>1, <1>5 DEF Selected

(* The elements selected are those of the list that are in B; they are     *)
(* distinct if the list's are.                                             *)
LEMMA SelectedElements ==
  ASSUME NEW T, NEW B, NEW l \in Seq(T)
  PROVE  /\ Selected(l, B) \in Seq(T)
         /\ ToSet(Selected(l, B)) = {x \in ToSet(l) : x \in B}
         /\ IsInjective(l) => IsInjective(Selected(l, B))
<1> DEFINE s == Selected(l, B)
<1>1. s \in Seq(T)
  BY SelectedPlaces
<1>2. PICK place \in [1 .. Len(s) -> 1 .. Len(l)] : Picks(place, s, l, B, Len(l))
  BY SelectedPlaces
<1> HIDE DEF s
<1>3. DOMAIN s = 1 .. Len(s) /\ DOMAIN l = 1 .. Len(l) /\ Len(s) \in Nat /\ Len(l) \in Nat
  BY <1>1
<1>4. ToSet(s) = {x \in ToSet(l) : x \in B}
  <2>1. ASSUME NEW x \in ToSet(s) PROVE x \in ToSet(l) /\ x \in B
    <3>1. PICK a \in 1 .. Len(s) : x = s[a]
      BY <1>3 DEF ToSet
    <3>2. place[a] \in 1 .. Len(l) /\ l[place[a]] \in B /\ s[a] = l[place[a]]
      BY <1>2 DEF Picks
    <3>. QED
      BY <1>3, <3>1, <3>2 DEF ToSet
  <2>2. ASSUME NEW x \in ToSet(l), x \in B PROVE x \in ToSet(s)
    <3>1. PICK i \in 1 .. Len(l) : x = l[i]
      BY <1>3 DEF ToSet
    <3>2. PICK a \in 1 .. Len(s) : place[a] = i
      BY <1>2, <2>2, <3>1 DEF Picks
    <3>3. s[a] = x
      BY <1>2, <3>1, <3>2 DEF Picks
    <3>. QED
      BY <1>3, <3>3 DEF ToSet
  <2>. QED
    BY <2>1, <2>2
<1>5. ASSUME IsInjective(l), NEW a \in 1 .. Len(s), NEW b \in 1 .. Len(s), s[a] = s[b]
      PROVE  a = b
  <2>1. l[place[a]] = l[place[b]] /\ place[a] \in 1 .. Len(l) /\ place[b] \in 1 .. Len(l)
    BY <1>2, <1>5 DEF Picks
  <2>2. place[a] = place[b]
    BY <1>3, <1>5, <2>1 DEF IsInjective
  <2>3. ~(a < b) /\ ~(b < a)
    BY <1>2, <2>1, <2>2 DEF Picks
  <2>. QED
    BY <1>3, <2>3
<1>. QED
  BY <1>1, <1>3, <1>4, <1>5 DEF IsInjective, s

(* A layout is a list of groups.                                           *)
LEMMA LayoutFacts ==
  ASSUME NEW l \in Layouts
  PROVE  /\ l \in Seq(GroupType) /\ Len(l) \in Nat /\ DOMAIN l = 1 .. Len(l)
         /\ \A i \in 1 .. Len(l) : l[i] \in GroupType /\ l[i].name \in Names
         /\ \A i, j \in 1 .. Len(l) : l[i].name = l[j].name => i = j
<1>1. l \in Seq(GroupType) /\ Len(l) \in Nat /\ DOMAIN l = 1 .. Len(l)
  BY DEF Layouts
<1>2. \A i \in 1 .. Len(l) : l[i] \in GroupType
  BY <1>1
<1>. QED
  BY <1>1, <1>2 DEF Layouts, GroupType

(* The names of groups that stand in a layout, in its order: of the groups *)
(* at the places given, each once.                                         *)
LEMMA PlacedNames ==
  ASSUME NEW l \in Layouts, NEW s \in Seq(GroupType), NEW included,
         NEW place \in [1 .. Len(s) -> 1 .. Len(l)],
         {place[a] : a \in 1 .. Len(s)} = included,
         \A a, b \in 1 .. Len(s) : a < b => place[a] < place[b],
         \A a \in 1 .. Len(s) : s[a] = l[place[a]]
  PROVE  /\ NamesOf(s) \in Seq(Names)
         /\ InOrder(NamesOf(s), l, included)
         /\ IsInjective(NamesOf(s))
         /\ ToSet(NamesOf(s)) \subseteq ToSet(NamesOf(l))
<1> DEFINE c == NamesOf(s)
           m == Len(s)
<1>1. /\ m \in Nat /\ Len(l) \in Nat /\ DOMAIN l = 1 .. Len(l)
      /\ \A i \in 1 .. Len(l) : l[i] \in GroupType /\ l[i].name \in Names
      /\ \A i, j \in 1 .. Len(l) : l[i].name = l[j].name => i = j
  BY LayoutFacts
<1>2. /\ DOMAIN c = 1 .. m
      /\ \A a \in 1 .. m : c[a] = l[place[a]].name /\ place[a] \in 1 .. Len(l)
  BY DEF NamesOf
<1>3. c \in Seq(Names)
  <2>1. c \in [1 .. m -> Names]
    BY <1>1, <1>2 DEF NamesOf
  <2>. QED
    BY <1>1, <2>1
<1>4. InOrder(c, l, included)
  <2>1. {place[a] : a \in DOMAIN c} = included
    BY <1>2 DEF m
  <2>2. \A a, b \in DOMAIN c : a < b => place[a] < place[b]
    BY <1>2 DEF m
  <2>3. place \in [DOMAIN c -> DOMAIN l] /\ \A a \in DOMAIN c : c[a] = l[place[a]].name
    BY <1>1, <1>2 DEF m
  <2> HIDE DEF c, m
  <2>. QED
    BY <2>1, <2>2, <2>3 DEF InOrder
<1>5. ASSUME NEW a \in 1 .. m, NEW b \in 1 .. m, c[a] = c[b] PROVE a = b
  <2>1. place[a] = place[b] /\ place[a] \in Nat
    BY <1>1, <1>2, <1>5
  <2>2. ~(a < b) /\ ~(b < a)
    BY <2>1
  <2>. QED
    BY <1>1, <2>2
<1>6. ASSUME NEW x \in ToSet(c) PROVE x \in ToSet(NamesOf(l))
  <2>1. PICK a \in 1 .. m : x = c[a]
    BY <1>2 DEF ToSet
  <2>2. x = NamesOf(l)[place[a]] /\ place[a] \in DOMAIN NamesOf(l)
    BY <1>2, <2>1 DEF NamesOf
  <2>. QED
    BY <2>2 DEF ToSet
<1>. QED
  BY <1>2, <1>3, <1>4, <1>5, <1>6 DEF IsInjective

(* The groups of a layout that are in B keep their order.                  *)
LEMMA SelectedNames ==
  ASSUME NEW l \in Layouts, NEW B
  PROVE  /\ NamesOf(Selected(l, B)) \in Seq(Names)
         /\ InOrder(NamesOf(Selected(l, B)), l, {i \in DOMAIN l : l[i] \in B})
         /\ IsInjective(NamesOf(Selected(l, B)))
         /\ ToSet(NamesOf(Selected(l, B))) \subseteq ToSet(NamesOf(l))
<1> DEFINE s == Selected(l, B)
<1>1. l \in Seq(GroupType) /\ DOMAIN l = 1 .. Len(l) /\ Len(l) \in Nat
  BY LayoutFacts
<1>2. s \in Seq(GroupType)
  BY <1>1, SelectedPlaces
<1>3. PICK place \in [1 .. Len(s) -> 1 .. Len(l)] : Picks(place, s, l, B, Len(l))
  BY <1>1, SelectedPlaces
<1> HIDE DEF s
<1>4. {place[a] : a \in 1 .. Len(s)} = {i \in DOMAIN l : l[i] \in B}
  BY <1>1, <1>3 DEF Picks
<1>5. /\ \A a, b \in 1 .. Len(s) : a < b => place[a] < place[b]
      /\ \A a \in 1 .. Len(s) : s[a] = l[place[a]]
  BY <1>3 DEF Picks
<1>. QED
  BY <1>2, <1>4, <1>5, PlacedNames DEF s

(* So does the whole of it.                                                *)
LEMMA AllNames ==
  ASSUME NEW l \in Layouts
  PROVE  /\ NamesOf(l) \in Seq(Names)
         /\ InOrder(NamesOf(l), l, DOMAIN l)
         /\ IsInjective(NamesOf(l))
<1> DEFINE place == [a \in 1 .. Len(l) |-> a]
<1>1. l \in Seq(GroupType) /\ DOMAIN l = 1 .. Len(l) /\ Len(l) \in Nat
  BY LayoutFacts
<1>2. /\ place \in [1 .. Len(l) -> 1 .. Len(l)]
      /\ {place[a] : a \in 1 .. Len(l)} = DOMAIN l
      /\ \A a, b \in 1 .. Len(l) : a < b => place[a] < place[b]
      /\ \A a \in 1 .. Len(l) : l[a] = l[place[a]]
  BY <1>1
<1> HIDE DEF place
<1>. QED
  BY <1>1, <1>2, PlacedNames

-----------------------------------------------------------------------------
(* A primary group that declares a threshold.                              *)
Declares(g) == ~g.compact /\ g.config > 0

(* The threshold of a layout is that of its first primary group that       *)
(* declares one.                                                           *)
LEMMA ThresholdFacts ==
  ASSUME NEW l \in Layouts
  PROVE  /\ ConfigThreshold(l) \in Nat
         /\ \/ /\ ConfigThreshold(l) = 0
               /\ \A i \in 1 .. Len(l) : ~Declares(l[i])
            \/ \E i \in 1 .. Len(l) :
                 /\ Declares(l[i]) /\ ConfigThreshold(l) = l[i].config
                 /\ \A j \in 1 .. Len(l) : Declares(l[j]) => i <= j
<1> DEFINE B == {g \in ToSet(l) : ~g.compact /\ g.config > 0}
           s == Selected(l, B)
<1>1. /\ l \in Seq(GroupType) /\ DOMAIN l = 1 .. Len(l) /\ Len(l) \in Nat
      /\ \A i \in 1 .. Len(l) : l[i] \in GroupType
  BY LayoutFacts
<1>2. \A i \in 1 .. Len(l) : l[i] \in B <=> Declares(l[i])
  BY <1>1 DEF Declares, ToSet
<1>3. ConfigThreshold(l) = IF s = <<>> THEN 0 ELSE Head(s).config
  BY DEF ConfigThreshold
<1> HIDE DEF B
<1>4. s \in Seq(GroupType)
  BY <1>1, SelectedPlaces
<1>5. PICK place \in [1 .. Len(s) -> 1 .. Len(l)] : Picks(place, s, l, B, Len(l))
  BY <1>1, SelectedPlaces
<1> HIDE DEF s
<1>6. CASE s = <<>>
  <2>1. ASSUME NEW i \in 1 .. Len(l), l[i] \in B PROVE FALSE
    <3>1. PICK a \in 1 .. Len(s) : place[a] = i
      BY <1>5, <2>1 DEF Picks
    <3>2. Len(s) = 0
      BY <1>6
    <3>. QED
      BY <3>1, <3>2
  <2>. QED
    BY <1>2, <1>3, <1>6, <2>1
<1>7. CASE s # <<>>
  <2>1. 1 \in 1 .. Len(s) /\ Head(s) = s[1] /\ Len(s) \in Nat
    BY <1>4, <1>7
  <2>2. place[1] \in 1 .. Len(l) /\ l[place[1]] \in B /\ s[1] = l[place[1]]
    BY <1>5, <2>1 DEF Picks
  <2>3. ASSUME NEW j \in 1 .. Len(l), Declares(l[j]) PROVE place[1] <= j
    <3>1. PICK a \in 1 .. Len(s) : place[a] = j
      BY <1>2, <1>5, <2>3 DEF Picks
    <3>2. a = 1 \/ place[1] < place[a]
      BY <1>5, <2>1 DEF Picks
    <3>. QED
      BY <1>1, <2>2, <3>1, <3>2
  <2>4. ConfigThreshold(l) = l[place[1]].config /\ Declares(l[place[1]])
    BY <1>2, <1>3, <1>7, <2>1, <2>2
  <2>5. l[place[1]].config \in Nat
    BY <1>1, <2>2 DEF GroupType
  <2>. QED
    BY <2>2, <2>3, <2>4, <2>5
<1>. QED
  BY <1>6, <1>7

(* Finitely many windows, and 0, have a greatest one.                      *)
LEMMA GreatestWindow ==
  ASSUME NEW l \in Layouts
  PROVE  LET W == {0} \cup {g.window : g \in ToSet(Primaries(l))}
         IN  \E w \in W : \A v \in W : w >= v
<1> DEFINE s == Primaries(l)
           n == Len(s)
           W(k) == {0} \cup {s[i].window : i \in 1 .. k}
           I == {k \in 0 .. n : \E w \in W(k) : \A v \in W(k) : w >= v}
<1>1. s \in Seq(GroupType)
  BY LayoutFacts, SelectedPlaces DEF Primaries
<1>2. n \in Nat /\ DOMAIN s = 1 .. n
  BY <1>1
<1>3. \A i \in 1 .. n : s[i].window \in Nat
  <2>1. \A i \in 1 .. n : s[i] \in GroupType
    BY <1>1
  <2>. QED
    BY <2>1, ConstantsAssumption DEF GroupType
<1>4. {0} \cup {g.window : g \in ToSet(Primaries(l))} = W(n)
  BY <1>2 DEF ToSet
<1> HIDE DEF s, n
<1>5. 0 \in I
  BY <1>2
<1>6. ASSUME NEW k \in 1 .. n, k - 1 \in I PROVE k \in I
  <2>1. PICK w \in W(k - 1) : \A v \in W(k - 1) : w >= v
    BY <1>6
  <2>2. W(k) = W(k - 1) \cup {s[k].window}
    BY <1>2
  <2>3. W(k - 1) \subseteq Nat /\ s[k].window \in Nat
    BY <1>2, <1>3
  <2> HIDE DEF W
  <2>4. \E u \in W(k) : \A v \in W(k) : u >= v
    <3>1. CASE w >= s[k].window
      BY <2>1, <2>2, <2>3, <3>1
    <3>2. CASE s[k].window >= w
      BY <2>1, <2>2, <2>3, <3>2
    <3>. QED
      BY <2>1, <2>3, <3>1, <3>2
  <2>. QED
    BY <1>2, <2>4
<1>7. I = 0 .. n
  <2>1. I \in SUBSET (0 .. n)
    OBVIOUS
  <2> HIDE DEF I
  <2>. QED
    BY <1>2, <1>5, <1>6, <2>1, InductionUpTo
<1>8. n \in I
  <2> HIDE DEF I
  <2>. QED
    BY <1>2, <1>7
<1>. QED
  BY <1>4, <1>8

(* The window of a layout is the greatest of its primary groups', or 0.    *)
LEMMA WindowFacts ==
  ASSUME NEW l \in Layouts
  PROVE  /\ MaxPrimaryWindow(l) \in Nat
         /\ \A i \in 1 .. Len(l) : ~l[i].compact => l[i].window <= MaxPrimaryWindow(l)
         /\ \/ MaxPrimaryWindow(l) = 0
            \/ \E i \in 1 .. Len(l) : ~l[i].compact /\ l[i].window = MaxPrimaryWindow(l)
<1> DEFINE W == {0} \cup {g.window : g \in ToSet(Primaries(l))}
           w == MaxPrimaryWindow(l)
<1>1. /\ l \in Seq(GroupType) /\ DOMAIN l = 1 .. Len(l) /\ Len(l) \in Nat
      /\ \A i \in 1 .. Len(l) : l[i] \in GroupType
  BY LayoutFacts
<1>2. ToSet(Primaries(l)) = {g \in ToSet(l) : ~g.compact}
  <2>1. ToSet(Primaries(l)) = {g \in ToSet(l) : g \in {h \in ToSet(l) : ~h.compact}}
    BY <1>1, SelectedElements DEF Primaries
  <2>. QED
    BY <2>1
<1>3. w \in W /\ \A v \in W : w >= v
  <2>1. w = CHOOSE x \in W : \A y \in W : x >= y
    BY DEF MaxPrimaryWindow, Max
  <2>2. \E x \in W : \A y \in W : x >= y
    BY GreatestWindow
  <2> HIDE DEF W, w
  <2>. QED
    BY <2>1, <2>2
<1>4. W \subseteq Nat
  <2>1. \A g \in GroupType : g.window \in Nat
    BY ConstantsAssumption DEF GroupType
  <2>. QED
    BY <1>1, <1>2, <2>1 DEF ToSet
<1> HIDE DEF w
<1>5. \A i \in 1 .. Len(l) : ~l[i].compact => l[i].window \in W
  BY <1>1, <1>2 DEF ToSet
<1>6. \A v \in W : v = 0 \/ \E i \in 1 .. Len(l) : ~l[i].compact /\ l[i].window = v
  BY <1>1, <1>2 DEF ToSet
<1> HIDE DEF W
<1>. QED
  BY <1>3, <1>4, <1>5, <1>6 DEF w

-----------------------------------------------------------------------------
(* The names of the compact and of the primary groups of a layout.         *)
LEMMA PoolNames ==
  ASSUME NEW l \in Layouts
  PROVE  /\ NamesOf(Compacts(l)) \in Seq(Names) /\ NamesOf(Primaries(l)) \in Seq(Names)
         /\ InOrder(NamesOf(Compacts(l)), l, {i \in DOMAIN l : l[i].compact})
         /\ InOrder(NamesOf(Primaries(l)), l, {i \in DOMAIN l : ~l[i].compact})
         /\ IsInjective(NamesOf(Primaries(l)))
         /\ ToSet(NamesOf(Compacts(l))) \subseteq ToSet(NamesOf(l))
         /\ ToSet(NamesOf(Primaries(l))) \subseteq ToSet(NamesOf(l))
         /\ NamesOf(Compacts(l)) = <<>> <=> Compacts(l) = <<>>
         /\ Compacts(l) = <<>> <=> {i \in DOMAIN l : l[i].compact} = {}
<1> DEFINE C == {g \in ToSet(l) : g.compact}
           P == {g \in ToSet(l) : ~g.compact}
<1>1. l \in Seq(GroupType) /\ DOMAIN l = 1 .. Len(l)
  BY LayoutFacts
<1>2. /\ {i \in DOMAIN l : l[i] \in C} = {i \in DOMAIN l : l[i].compact}
      /\ {i \in DOMAIN l : l[i] \in P} = {i \in DOMAIN l : ~l[i].compact}
  BY <1>1 DEF ToSet
<1>3. Compacts(l) = Selected(l, C) /\ Primaries(l) = Selected(l, P)
  BY DEF Compacts, Primaries
<1> HIDE DEF C, P
<1>4. Compacts(l) \in Seq(GroupType) /\ ToSet(Compacts(l)) = {g \in ToSet(l) : g \in C}
  BY <1>1, <1>3, SelectedElements
<1>5. NamesOf(Compacts(l)) = <<>> <=> Compacts(l) = <<>>
  <2>1. Len(NamesOf(Compacts(l))) = Len(Compacts(l))
    BY <1>4 DEF NamesOf
  <2>2. NamesOf(Compacts(l)) \in Seq(Names)
    BY <1>3, SelectedNames
  <2>. QED
    BY <1>4, <2>1, <2>2
<1>6. Compacts(l) = <<>> <=> {i \in DOMAIN l : l[i] \in C} = {}
  <2>1. Compacts(l) = <<>> <=> ToSet(Compacts(l)) = {}
    <3>1. Compacts(l) # <<>> => Compacts(l)[1] \in ToSet(Compacts(l))
      BY <1>4 DEF ToSet
    <3>. QED
      BY <3>1 DEF ToSet
  <2>2. {g \in ToSet(l) : g \in C} = {} <=> {i \in DOMAIN l : l[i] \in C} = {}
    BY DEF ToSet
  <2>. QED
    BY <1>4, <2>1, <2>2
<1>. QED
  BY <1>2, <1>3, <1>5, <1>6, SelectedNames

(* Whatever is mapped over whatever groups, and whatever the window, the   *)
(* strategy is one that SetStrategy accepts for these groups.              *)
LEMMA PlanValid ==
  ASSUME NEW l \in Layouts, NEW w \in Nat, NEW p
  PROVE  MapPolicy(p, l, w) \in StrategyType /\ Valid(MapPolicy(p, l, w), l)
<1>1. ASSUME NEW chain \in Seq(Names), IsInjective(chain), ToSet(chain) \subseteq ToSet(NamesOf(l))
      PROVE  Plain(chain) \in StrategyType /\ Valid(Plain(chain), l)
  <2>1. ToSet(<<>>) = {}
    BY DEF ToSet
  <2>. QED
    BY <1>1, <2>1 DEF Plain, StrategyType, Valid, Referenced
<1>2. CASE p # "compact_overflow"
  BY <1>1, <1>2, AllNames DEF MapPolicy
<1>3. CASE p = "compact_overflow" /\ Compacts(l) = <<>>
  BY <1>1, <1>3, PoolNames DEF MapPolicy, CompactOverflow
<1>4. CASE p = "compact_overflow" /\ Compacts(l) # <<>>
  <2> DEFINE t == IF ConfigThreshold(l) > 0 THEN ConfigThreshold(l) ELSE w
             e == t > 0
             s == MapPolicy(p, l, w)
  <2>1. t \in Nat /\ e \in BOOLEAN /\ (e => t > 0)
    BY ThresholdFacts
  <2>2. s = [chain |-> NamesOf(Primaries(l)), enabled |-> e, threshold |-> t,
             compacts |-> NamesOf(Compacts(l))]
    BY <1>4 DEF MapPolicy, CompactOverflow
  <2> HIDE DEF t, e, s
  <2>3. s \in StrategyType
    BY <2>1, <2>2, PoolNames DEF StrategyType
  <2>4. Valid(s, l)
    BY <1>4, <2>1, <2>2, PoolNames DEF Valid, Referenced
  <2>. QED
    BY <2>3, <2>4 DEF s
<1>. QED
  BY <1>2, <1>3, <1>4

(* An empty strategy is valid for any groups.                              *)
LEMMA EmptyValid ==
  ASSUME NEW l
  PROVE  Plain(<<>>) \in StrategyType /\ Valid(Plain(<<>>), l)
BY DEF Plain, StrategyType, Valid, Referenced, ToSet, IsInjective

(* Where the window is not asked for it does not matter.                   *)
LEMMA WindowNotAsked ==
  ASSUME NEW l \in Layouts, NEW w, NEW p, ~AsksWindow(p, l)
  PROVE  MapPolicy(p, l, 0) = MapPolicy(p, l, w)
BY ThresholdFacts DEF AsksWindow, MapPolicy, CompactOverflow

(* With the window of the groups, the strategy is the one intended.        *)
LEMMA PlanIntended ==
  ASSUME NEW l \in Layouts, NEW p
  PROVE  Intended(p, l, MapPolicy(p, l, MaxPrimaryWindow(l)))
<1> DEFINE w         == MaxPrimaryWindow(l)
           s         == MapPolicy(p, l, w)
           compacts  == {i \in DOMAIN l : l[i].compact}
           primaries == DOMAIN l \ compacts
           declaring == {i \in primaries : l[i].config > 0}
           t         == IF ConfigThreshold(l) > 0 THEN ConfigThreshold(l) ELSE w
           e         == t > 0
<1>1. /\ DOMAIN l = 1 .. Len(l) /\ Len(l) \in Nat
      /\ \A i \in 1 .. Len(l) : l[i].config \in Nat /\ l[i].window \in Nat
  BY LayoutFacts, ConstantsAssumption DEF GroupType
<1>2. CASE p # "compact_overflow"
  BY <1>2, AllNames DEF MapPolicy, Plain, Intended
<1>3. CASE p = "compact_overflow" /\ compacts = {}
  <2>1. s = Plain(NamesOf(Primaries(l)))
    BY <1>3, PoolNames DEF MapPolicy, CompactOverflow
  <2>2. {i \in DOMAIN l : ~l[i].compact} = DOMAIN l
    BY <1>3
  <2>3. InOrder(NamesOf(Primaries(l)), l, DOMAIN l)
    BY <2>2, PoolNames
  <2>4. InOrder(s.chain, l, DOMAIN l) /\ ~s.enabled /\ s.compacts = <<>>
    BY <2>1, <2>3 DEF Plain
  <2> HIDE DEF s
  <2>. QED
    BY <1>3, <2>4 DEF Intended, s, w
<1>4. CASE p = "compact_overflow" /\ compacts # {}
  <2>1. s = [chain |-> NamesOf(Primaries(l)), enabled |-> e, threshold |-> t,
             compacts |-> NamesOf(Compacts(l))]
    BY <1>4, PoolNames DEF MapPolicy, CompactOverflow
  <2>2. InOrder(s.chain, l, primaries) /\ InOrder(s.compacts, l, compacts)
    <3>1. primaries = {i \in DOMAIN l : ~l[i].compact}
      OBVIOUS
    <3>2. /\ InOrder(NamesOf(Primaries(l)), l, primaries)
          /\ InOrder(NamesOf(Compacts(l)), l, compacts)
      BY <3>1, PoolNames
    <3> HIDE DEF s, t, e, primaries, compacts
    <3>3. s.chain = NamesOf(Primaries(l)) /\ s.compacts = NamesOf(Compacts(l))
      BY <2>1
    <3>. QED
      BY <3>2, <3>3
  <2>3. w \in Nat /\ t \in Nat
    BY ThresholdFacts, WindowFacts
  <2>5. e \in BOOLEAN /\ (e <=> t > 0)
    OBVIOUS
  <2>6. s.enabled = e /\ s.threshold = t
    BY <2>1
  <2> HIDE DEF w, s, e
  <2>4. /\ s.enabled <=> \E i \in primaries : l[i].config > 0 \/ l[i].window > 0
        /\ s.enabled =>
             IF declaring # {}
             THEN \E i \in declaring : (\A j \in declaring : i <= j) /\ s.threshold = l[i].config
             ELSE /\ \E i \in primaries : l[i].window = s.threshold
                  /\ \A i \in primaries : l[i].window <= s.threshold
    <3>1. CASE declaring # {}
      <4>1. PICK i \in 1 .. Len(l) :
              /\ Declares(l[i]) /\ ConfigThreshold(l) = l[i].config
              /\ \A j \in 1 .. Len(l) : Declares(l[j]) => i <= j
        BY <1>1, <3>1, ThresholdFacts DEF Declares
      <4>2. i \in declaring /\ t = l[i].config /\ t > 0
        BY <1>1, <4>1 DEF Declares
      <4>3. \A j \in declaring : i <= j
        BY <1>1, <4>1 DEF Declares
      <4> HIDE DEF t
      <4>4. s.enabled /\ s.threshold = l[i].config
        BY <2>5, <2>6, <4>2
      <4>. QED
        BY <3>1, <4>2, <4>3, <4>4
    <3>2. CASE declaring = {}
      <4>1. ConfigThreshold(l) = 0
        BY <1>1, <3>2, ThresholdFacts DEF Declares
      <4>2. /\ \A i \in primaries : l[i].window <= w
            /\ w = 0 \/ \E i \in primaries : l[i].window = w
        BY <1>1, WindowFacts DEF w
      <4>3. (s.enabled <=> w > 0) /\ s.threshold = w
        BY <2>5, <2>6, <4>1
      <4>4. w > 0 <=> \E i \in primaries : l[i].config > 0 \/ l[i].window > 0
        BY <1>1, <2>3, <3>2, <4>2
      <4>5. s.enabled <=> \E i \in primaries : l[i].config > 0 \/ l[i].window > 0
        BY <4>3, <4>4
      <4>6. s.enabled => \E i \in primaries : l[i].window = s.threshold
        BY <2>3, <4>2, <4>3
      <4>7. \A i \in primaries : l[i].window <= s.threshold
        BY <4>2, <4>3
      <4> HIDE DEF declaring, primaries
      <4>. QED
        BY <3>2, <4>5, <4>6, <4>7
    <3>. QED
      BY <3>1, <3>2
  <2>. QED
    BY <1>4, <2>2, <2>4 DEF Intended, s, w
<1>. QED
  BY <1>2, <1>3, <1>4

-----------------------------------------------------------------------------
(* How many user models name a policy.                                     *)
LEMMA CountFacts ==
  ASSUME NEW rows, NEW c, NEW p
  PROVE  /\ Count(rows, c, p) \in Nat
         /\ Count(rows, c, p) > 0 <=> \E u \in Users : rows[u] = c /\ PolicyOf[u] = p
<1> DEFINE U == {u \in Users : rows[u] = c /\ PolicyOf[u] = p}
<1>1. IsFiniteSet(U)
  BY ConstantsAssumption, FS_Subset
<1>2. Cardinality(U) \in Nat /\ (Cardinality(U) = 0 <=> U = {})
  <2> HIDE DEF U
  <2>. QED
    BY <1>1, FS_CardinalityType, FS_EmptySet
<1>3. Count(rows, c, p) = Cardinality(U)
  BY DEF Count
<1>4. U # {} <=> \E u \in Users : rows[u] = c /\ PolicyOf[u] = p
  OBVIOUS
<1> HIDE DEF U
<1>. QED
  BY <1>2, <1>3, <1>4

(* The policies that compete are those of the user models of a collection, *)
(* in order.                                                               *)
LEMMA CompetingFacts ==
  ASSUME NEW rows, NEW c
  PROVE  /\ Competing(rows, c) \in Seq(ToSet(Policies))
         /\ IsInjective(Competing(rows, c))
         /\ ToSet(Competing(rows, c)) = {p \in ToSet(Policies) : Count(rows, c, p) > 0}
         /\ Competing(rows, c) # <<>> <=> \E u \in Users : rows[u] = c
<1> DEFINE B == {p \in ToSet(Policies) : Count(rows, c, p) > 0}
           s == Competing(rows, c)
<1>1. Policies \in Seq(ToSet(Policies)) /\ IsInjective(Policies)
  BY ConstantsAssumption
<1>2. s = Selected(Policies, B)
  BY DEF Competing
<1> HIDE DEF B, s
<1>3. /\ s \in Seq(ToSet(Policies)) /\ IsInjective(s)
      /\ ToSet(s) = {p \in ToSet(Policies) : p \in B}
  BY <1>1, <1>2, SelectedElements
<1>4. ToSet(s) = {p \in ToSet(Policies) : Count(rows, c, p) > 0}
  BY <1>3 DEF B
<1>5. s # <<>> <=> ToSet(s) # {}
  <2>1. s # <<>> => s[1] \in ToSet(s)
    BY <1>3 DEF ToSet
  <2>. QED
    BY <2>1 DEF ToSet
<1>6. ToSet(s) # {} <=> \E u \in Users : rows[u] = c
  <2>1. \A u \in Users : PolicyOf[u] \in ToSet(Policies)
    BY ConstantsAssumption
  <2>. QED
    BY <1>4, <2>1, CountFacts
<1>. QED
  BY <1>3, <1>4, <1>5, <1>6 DEF s

(* There is more than one if two user models name different ones.          *)
LEMMA ConflictFacts ==
  ASSUME NEW rows, NEW c
  PROVE  Len(Competing(rows, c)) > 1
           <=> \E u, v \in Users : rows[u] = c /\ rows[v] = c /\ PolicyOf[u] # PolicyOf[v]
<1> DEFINE s == Competing(rows, c)
<1>1. /\ s \in Seq(ToSet(Policies)) /\ IsInjective(s)
      /\ ToSet(s) = {p \in ToSet(Policies) : Count(rows, c, p) > 0}
  BY CompetingFacts
<1>2. DOMAIN s = 1 .. Len(s) /\ Len(s) \in Nat
  BY <1>1
<1>3. ASSUME Len(s) > 1
      PROVE  \E u, v \in Users : rows[u] = c /\ rows[v] = c /\ PolicyOf[u] # PolicyOf[v]
  <2>1. 1 \in DOMAIN s /\ 2 \in DOMAIN s
    BY <1>2, <1>3
  <2>2. s[1] \in ToSet(s) /\ s[2] \in ToSet(s) /\ s[1] # s[2]
    BY <1>1, <2>1 DEF ToSet, IsInjective
  <2>3. PICK u \in Users : rows[u] = c /\ PolicyOf[u] = s[1]
    BY <1>1, <2>2, CountFacts
  <2>4. PICK v \in Users : rows[v] = c /\ PolicyOf[v] = s[2]
    BY <1>1, <2>2, CountFacts
  <2>. QED
    BY <2>2, <2>3, <2>4
<1>4. ASSUME NEW u \in Users, NEW v \in Users, rows[u] = c, rows[v] = c,
             PolicyOf[u] # PolicyOf[v]
      PROVE  Len(s) > 1
  <2>1. PolicyOf[u] \in ToSet(s) /\ PolicyOf[v] \in ToSet(s)
    <3>1. PolicyOf[u] \in ToSet(Policies) /\ PolicyOf[v] \in ToSet(Policies)
      BY ConstantsAssumption
    <3>2. Count(rows, c, PolicyOf[u]) > 0 /\ Count(rows, c, PolicyOf[v]) > 0
      BY <1>4, CountFacts
    <3>. QED
      BY <1>1, <3>1, <3>2
  <2>2. PICK i \in 1 .. Len(s) : PolicyOf[u] = s[i]
    BY <1>2, <2>1 DEF ToSet
  <2>3. PICK j \in 1 .. Len(s) : PolicyOf[v] = s[j]
    BY <1>2, <2>1 DEF ToSet
  <2>. QED
    BY <1>2, <1>4, <2>2, <2>3
<1>. QED
  BY <1>3, <1>4 DEF s

(* The best of the first k + 1 names.                                      *)
Leads(a, names, count, k) ==
  \A b \in 1 .. k + 1 :
    /\ count[names[b]] <= count[names[a]]
    /\ b < a => count[names[b]] < count[names[a]]

(* One more name takes the lead if it has more.                            *)
LEMMA BestOneMore ==
  ASSUME NEW P, NEW names \in Seq(P), NEW count \in [P -> Nat],
         NEW k \in 1 .. Len(names) - 1, NEW a \in 1 .. k, Leads(a, names, count, k - 1)
  PROVE  \E d \in 1 .. k + 1 :
           BetterOf(names[a], names, count, k) = names[d] /\ Leads(d, names, count, k)
<1>1. /\ Len(names) \in Nat /\ k \in Nat /\ k + 1 \in 1 .. Len(names)
      /\ \A b \in 1 .. Len(names) : names[b] \in P /\ count[names[b]] \in Nat
      /\ \A b \in 1 .. k : b \in 1 .. Len(names)
      /\ \A b \in 1 .. k + 1 : b \in 1 .. k \/ b = k + 1
      /\ k - 1 + 1 = k
  OBVIOUS
<1>2. \A b \in 1 .. k :
        /\ count[names[b]] <= count[names[a]]
        /\ b < a => count[names[b]] < count[names[a]]
  BY <1>1 DEF Leads
<1>3. CASE count[names[k + 1]] > count[names[a]]
  <2>1. BetterOf(names[a], names, count, k) = names[k + 1]
    BY <1>3 DEF BetterOf
  <2>2. \A b \in 1 .. k : count[names[b]] < count[names[k + 1]]
    BY <1>1, <1>2, <1>3
  <2>3. Leads(k + 1, names, count, k)
    BY <1>1, <2>2 DEF Leads
  <2>4. k + 1 \in 1 .. k + 1
    BY <1>1
  <2>. QED
    BY <2>1, <2>3, <2>4
<1>4. CASE ~(count[names[k + 1]] > count[names[a]])
  <2>1. BetterOf(names[a], names, count, k) = names[a]
    BY <1>4 DEF BetterOf
  <2>2. count[names[k + 1]] <= count[names[a]] /\ ~(k + 1 < a)
    BY <1>1, <1>4
  <2>3. Leads(a, names, count, k)
    BY <1>1, <1>2, <2>2 DEF Leads
  <2>4. a \in 1 .. k + 1
    BY <1>1
  <2>. QED
    BY <2>1, <2>3, <2>4
<1>. QED
  BY <1>3, <1>4

(* The loop over the names ends with one that none has more than and none  *)
(* before it as many as.                                                   *)
LEMMA BestLeads ==
  ASSUME NEW P, NEW names \in Seq(P), names # <<>>, NEW count \in [P -> Nat]
  PROVE  \E a \in 1 .. Len(names) :
           /\ BestTo(names, count)[Len(names) - 1] = names[a]
           /\ Leads(a, names, count, Len(names) - 1)
<1> DEFINE f == BestTo(names, count)
           n == Len(names) - 1
           I == {k \in 0 .. n : \E a \in 1 .. k + 1 :
                                  f[k] = names[a] /\ Leads(a, names, count, k)}
<1>0. n \in Nat /\ Len(names) = n + 1
  OBVIOUS
<1>1. /\ f[0] = names[1]
      /\ \A k \in 1 .. n : f[k] = BetterOf(f[k - 1], names, count, k)
  BY BestUnrolled
<1>2. 0 \in I
  <2>1. Leads(1, names, count, 0)
    <3>1. names[1] \in P /\ count[names[1]] \in Nat
      BY <1>0
    <3>2. \A b \in 1 .. 0 + 1 : b = 1
      OBVIOUS
    <3>. QED
      BY <3>1, <3>2 DEF Leads
  <2> HIDE DEF f
  <2>2. \E a \in 1 .. 0 + 1 : f[0] = names[a] /\ Leads(a, names, count, 0)
    BY <1>1, <2>1
  <2>. QED
    BY <1>0, <2>2
<1>3. ASSUME NEW k \in 1 .. n, k - 1 \in I PROVE k \in I
  <2>1. PICK a \in 1 .. k : f[k - 1] = names[a] /\ Leads(a, names, count, k - 1)
    <3>1. k - 1 + 1 = k
      BY <1>0
    <3>. QED
      BY <1>3, <3>1
  <2>2. f[k] = BetterOf(names[a], names, count, k)
    BY <1>1, <2>1
  <2> HIDE DEF f
  <2>3. \E d \in 1 .. k + 1 : f[k] = names[d] /\ Leads(d, names, count, k)
    BY <2>1, <2>2, BestOneMore
  <2>. QED
    BY <1>0, <2>3
<1>4. I = 0 .. n
  <2>1. I \in SUBSET (0 .. n)
    OBVIOUS
  <2> HIDE DEF I, n
  <2>. QED
    BY <1>0, <1>2, <1>3, <2>1, InductionUpTo
<1>5. n \in I
  <2> HIDE DEF I, n
  <2>. QED
    BY <1>0, <1>4
<1>. QED
  BY <1>0, <1>5

(* The majority of a collection that is referred to is the policy that is  *)
(* declared to be it.                                                      *)
LEMMA MajorityFacts ==
  ASSUME NEW rows, NEW c, \E u \in Users : rows[u] = c
  PROVE  /\ Majority(rows, c) \in ToSet(Policies)
         /\ IsFavourite(Majority(rows, c), rows, c)
<1> DEFINE P == ToSet(Policies)
           names == Competing(rows, c)
           count == Counts(rows, c)
           B == {p \in P : Count(rows, c, p) > 0}
           m == Majority(rows, c)
<1>1. /\ Policies \in Seq(P) /\ IsInjective(Policies)
      /\ Len(Policies) \in Nat /\ DOMAIN Policies = 1 .. Len(Policies)
      /\ \A i \in 1 .. Len(Policies) : Policies[i] \in P
  BY ConstantsAssumption
<1>2. /\ names \in Seq(P) /\ names # <<>> /\ ToSet(names) = B
      /\ names = Selected(Policies, B)
  BY CompetingFacts DEF Competing
<1>3. count \in [P -> Nat] /\ \A p \in P : count[p] = Count(rows, c, p)
  BY CountFacts DEF Counts
<1>4. m = BestTo(names, count)[Len(names) - 1]
  BY DEF Majority
<1> HIDE DEF names, count, m, P
<1>5. PICK a \in 1 .. Len(names) : m = names[a] /\ Leads(a, names, count, Len(names) - 1)
  BY <1>2, <1>3, <1>4, BestLeads
<1>6. Len(names) \in Nat /\ Len(names) - 1 + 1 = Len(names) /\ DOMAIN names = 1 .. Len(names)
  BY <1>2
<1>7. PICK place \in [1 .. Len(names) -> 1 .. Len(Policies)] :
        Picks(place, names, Policies, B, Len(Policies))
  BY <1>1, <1>2, SelectedPlaces
<1>8. m \in P /\ Count(rows, c, m) > 0
  <2>1. m \in ToSet(names)
    BY <1>5, <1>6 DEF ToSet
  <2>. QED
    BY <1>2, <2>1
<1>9. place[a] \in DOMAIN Policies /\ Policies[place[a]] = m
  BY <1>1, <1>5, <1>7 DEF Picks
<1>10. ASSUME NEW j \in DOMAIN Policies
       PROVE  /\ Count(rows, c, Policies[j]) <= Count(rows, c, m)
              /\ j < place[a] => Count(rows, c, Policies[j]) < Count(rows, c, m)
  <2>0. /\ Policies[j] \in P /\ Count(rows, c, Policies[j]) \in Nat
        /\ Count(rows, c, m) \in Nat
    BY <1>1, CountFacts
  <2>1. CASE Policies[j] \notin B
    BY <1>8, <2>0, <2>1
  <2>2. CASE Policies[j] \in B
    <3>1. PICK b \in 1 .. Len(names) : place[b] = j
      BY <1>1, <1>7, <2>2 DEF Picks
    <3>2. names[b] = Policies[j]
      BY <1>7, <3>1 DEF Picks
    <3>3. /\ count[names[b]] <= count[names[a]]
          /\ b < a => count[names[b]] < count[names[a]]
      BY <1>5, <1>6 DEF Leads
    <3>4. j < place[a] => b < a
      <4>1. a < b => place[a] < place[b]
        BY <1>7 DEF Picks
      <4>. QED
        BY <1>1, <1>6, <3>1, <4>1
    <3>. QED
      BY <1>3, <1>5, <1>8, <2>0, <3>2, <3>3, <3>4
  <2>. QED
    BY <2>1, <2>2
<1>. QED
  BY <1>8, <1>9, <1>10 DEF IsFavourite, P, m

-----------------------------------------------------------------------------
(* The names of a layout.                                                  *)
NamesIn(l) == {l[k].name : k \in 1 .. Len(l)}

(* They are those of NamesOf.                                              *)
LEMMA NamesInSame == \A l : ToSet(NamesOf(l)) = NamesIn(l)
BY DEF NamesOf, NamesIn, ToSet

(* The elements of two lists put together.                                 *)
LEMMA Concatenated ==
  ASSUME NEW T, NEW s \in Seq(T), NEW t \in Seq(T)
  PROVE  /\ s \o t \in Seq(T) /\ Len(s \o t) = Len(s) + Len(t)
         /\ Len(s) \in Nat /\ Len(t) \in Nat
         /\ \A k \in 1 .. Len(s) : (s \o t)[k] = s[k]
         /\ \A k \in 1 .. Len(t) : (s \o t)[Len(s) + k] = t[k]
OBVIOUS

(* A group deleted leaves a layout.                                        *)
LEMMA RemoveLayout ==
  ASSUME NEW l \in Layouts, NEW i \in DOMAIN l
  PROVE  /\ RemoveAt(l, i) \in Layouts
         /\ Len(RemoveAt(l, i)) = Len(l) - 1
         /\ \A k \in 1 .. Len(l) - 1 : RemoveAt(l, i)[k] = IF k < i THEN l[k] ELSE l[k + 1]
<1> DEFINE n == Len(l)
           t == RemoveAt(l, i)
<1>1. /\ l \in Seq(GroupType) /\ n \in Nat /\ DOMAIN l = 1 .. n
      /\ \A k \in 1 .. n : l[k] \in GroupType /\ l[k].name \in Names
      /\ \A j, k \in 1 .. n : l[j].name = l[k].name => j = k
  BY LayoutFacts
<1>2. i \in 1 .. n
  BY <1>1
<1>3. /\ t \in Seq(GroupType) /\ Len(t) = n - 1
      /\ \A k \in 1 .. n - 1 : t[k] = IF k < i THEN l[k] ELSE l[k + 1]
  <2> DEFINE a == SubSeq(l, 1, i - 1)
             b == SubSeq(l, i + 1, n)
  <2>1. /\ a \in Seq(GroupType) /\ Len(a) = i - 1
        /\ \A k \in 1 .. i - 1 : a[k] = l[k]
    BY <1>1, <1>2
  <2>2. /\ b \in Seq(GroupType) /\ Len(b) = n - i
        /\ \A k \in 1 .. n - i : b[k] = l[i + k]
    <3>1. b \in Seq(GroupType)
      BY <1>1, <1>2
    <3>2. Len(b) = n - i
      BY <1>1, <1>2
    <3>3. ASSUME NEW k \in 1 .. n - i PROVE b[k] = l[i + k]
      BY <1>1, <1>2
    <3>. QED
      BY <3>1, <3>2, <3>3
  <2>3. t = a \o b
    BY DEF RemoveAt
  <2> HIDE DEF a, b, t, n
  <2>4. /\ a \o b \in Seq(GroupType) /\ Len(a \o b) = n - 1
        /\ \A k \in 1 .. i - 1 : (a \o b)[k] = a[k]
        /\ \A k \in 1 .. n - i : (a \o b)[i - 1 + k] = b[k]
    <3>1. /\ a \o b \in Seq(GroupType) /\ Len(a \o b) = Len(a) + Len(b)
          /\ \A k \in 1 .. Len(a) : (a \o b)[k] = a[k]
          /\ \A k \in 1 .. Len(b) : (a \o b)[Len(a) + k] = b[k]
      <4>1. a \in Seq(GroupType) /\ b \in Seq(GroupType)
        BY <2>1, <2>2
      <4>. QED
        BY <4>1, Concatenated
    <3>2. Len(a) = i - 1 /\ Len(b) = n - i
      BY <2>1, <2>2
    <3>3. (i - 1) + (n - i) = n - 1
      BY <1>1, <1>2
    <3>. QED
      BY <3>1, <3>2, <3>3
  <2>5. ASSUME NEW k \in 1 .. n - 1
        PROVE  (a \o b)[k] = IF k < i THEN l[k] ELSE l[k + 1]
    <3>1. CASE k < i
      <4>1. k \in 1 .. i - 1
        BY <1>1, <1>2, <3>1
      <4>. QED
        BY <2>1, <2>4, <3>1, <4>1
    <3>2. CASE ~(k < i)
      <4>1. /\ k + 1 - i \in 1 .. n - i /\ i - 1 + (k + 1 - i) = k
            /\ i + (k + 1 - i) = k + 1
        BY <1>1, <1>2, <3>2
      <4>2. (a \o b)[i - 1 + (k + 1 - i)] = b[k + 1 - i] /\ b[k + 1 - i] = l[i + (k + 1 - i)]
        BY <2>2, <2>4, <4>1
      <4>. QED
        BY <3>2, <4>1, <4>2
    <3>. QED
      BY <3>1, <3>2
  <2>. QED
    BY <2>3, <2>4, <2>5
<1> HIDE DEF t, n
<1>4. ASSUME NEW j \in 1 .. n - 1, NEW k \in 1 .. n - 1, t[j].name = t[k].name
      PROVE  j = k
  <2>1. /\ (j < i /\ j \in 1 .. n /\ t[j] = l[j])
             \/ (j >= i /\ j + 1 \in 1 .. n /\ t[j] = l[j + 1])
        /\ (k < i /\ k \in 1 .. n /\ t[k] = l[k])
             \/ (k >= i /\ k + 1 \in 1 .. n /\ t[k] = l[k + 1])
    BY <1>1, <1>2, <1>3
  <2>. QED
    BY <1>1, <1>2, <1>4, <2>1
<1>5. DOMAIN t = 1 .. n - 1
  BY <1>3
<1>. QED
  BY <1>3, <1>4, <1>5 DEF Layouts, t, n

(* A group with a name of its own can be inserted anywhere.                *)
LEMMA InsertLayout ==
  ASSUME NEW l \in Layouts, NEW g \in GroupType, NEW i \in 1 .. Len(l) + 1,
         \A k \in 1 .. Len(l) : l[k].name # g.name
  PROVE  /\ InsertAt(l, i, g) \in Layouts
         /\ NamesIn(InsertAt(l, i, g)) = NamesIn(l) \cup {g.name}
<1> DEFINE n == Len(l)
           t == InsertAt(l, i, g)
<1>1. /\ l \in Seq(GroupType) /\ n \in Nat /\ DOMAIN l = 1 .. n
      /\ \A k \in 1 .. n : l[k] \in GroupType /\ l[k].name \in Names
      /\ \A j, k \in 1 .. n : l[j].name = l[k].name => j = k
  BY LayoutFacts
<1>2. /\ t \in Seq(GroupType) /\ Len(t) = n + 1 /\ i \in 1 .. n + 1
      /\ t[i] = g
      /\ \A k \in 1 .. n : k < i => t[k] = l[k]
      /\ \A k \in 1 .. n : k >= i => t[k + 1] = l[k]
  <2> DEFINE a == SubSeq(l, 1, i - 1)
             b == SubSeq(l, i, n)
             e == <<g>>
  <2>0. i \in 1 .. n + 1
    OBVIOUS
  <2>1. /\ a \in Seq(GroupType) /\ Len(a) = i - 1
        /\ \A k \in 1 .. i - 1 : a[k] = l[k]
    BY <1>1, <2>0
  <2>2. /\ b \in Seq(GroupType) /\ Len(b) = n + 1 - i
        /\ \A k \in 1 .. n + 1 - i : b[k] = l[(i - 1) + k]
    BY <1>1, <2>0
  <2>3. e \in Seq(GroupType) /\ Len(e) = 1 /\ e[1] = g
    OBVIOUS
  <2>4. t = (a \o e) \o b
    BY DEF InsertAt
  <2> HIDE DEF a, b, e, t, n
  <2>5. /\ a \o e \in Seq(GroupType) /\ Len(a \o e) = i
        /\ \A k \in 1 .. i - 1 : (a \o e)[k] = a[k]
        /\ (a \o e)[i] = g
    <3>1. /\ a \o e \in Seq(GroupType) /\ Len(a \o e) = Len(a) + Len(e)
          /\ \A k \in 1 .. Len(a) : (a \o e)[k] = a[k]
          /\ \A k \in 1 .. Len(e) : (a \o e)[Len(a) + k] = e[k]
      <4>1. a \in Seq(GroupType) /\ e \in Seq(GroupType)
        BY <2>1, <2>3
      <4>. QED
        BY <4>1, Concatenated
    <3>2. i - 1 + 1 = i /\ 1 \in 1 .. 1
      BY <1>1, <2>0
    <3>3. (a \o e)[i] = g
      BY <2>1, <2>3, <3>1, <3>2
    <3>. QED
      BY <2>1, <2>3, <3>1, <3>2, <3>3
  <2> DEFINE d == a \o e
  <2> HIDE DEF d
  <2>6. /\ d \o b \in Seq(GroupType) /\ Len(d \o b) = n + 1
        /\ \A k \in 1 .. i : (d \o b)[k] = d[k]
        /\ \A k \in 1 .. n + 1 - i : (d \o b)[i + k] = b[k]
    <3>1. d \in Seq(GroupType) /\ Len(d) = i
      BY <2>5 DEF d
    <3>2. /\ d \o b \in Seq(GroupType) /\ Len(d \o b) = Len(d) + Len(b)
          /\ \A k \in 1 .. Len(d) : (d \o b)[k] = d[k]
          /\ \A k \in 1 .. Len(b) : (d \o b)[Len(d) + k] = b[k]
      <4>1. d \in Seq(GroupType) /\ b \in Seq(GroupType)
        BY <2>2, <3>1
      <4>. QED
        BY <4>1, Concatenated
    <3>3. Len(b) = n + 1 - i /\ i + (n + 1 - i) = n + 1
      BY <1>1, <2>0, <2>2
    <3>. QED
      BY <3>1, <3>2, <3>3
  <2>7. ASSUME NEW k \in 1 .. n, k < i PROVE t[k] = l[k]
    <3>1. k \in 1 .. i - 1 /\ k \in 1 .. i
      BY <1>1, <2>0, <2>7
    <3>. QED
      BY <2>1, <2>4, <2>5, <2>6, <3>1 DEF d
  <2>8. ASSUME NEW k \in 1 .. n, k >= i PROVE t[k + 1] = l[k]
    <3>1. /\ k + 1 - i \in 1 .. n + 1 - i /\ i + (k + 1 - i) = k + 1
          /\ (i - 1) + (k + 1 - i) = k
      BY <1>1, <2>0, <2>8
    <3>2. (d \o b)[i + (k + 1 - i)] = b[k + 1 - i]
      BY <2>6, <3>1
    <3>3. b[k + 1 - i] = l[(i - 1) + (k + 1 - i)]
      BY <2>2, <3>1
    <3>. QED
      BY <2>4, <3>1, <3>2, <3>3 DEF d
  <2>9. t[i] = g
    <3>1. i \in 1 .. i
      BY <1>1, <2>0
    <3>. QED
      BY <2>4, <2>5, <2>6, <3>1 DEF d
  <2>. QED
    BY <2>0, <2>4, <2>6, <2>7, <2>8, <2>9 DEF d
<1>3. DOMAIN t = 1 .. n + 1
  BY <1>2
<1>4. \A k \in 1 .. n : l[k].name # g.name
  OBVIOUS
<1> HIDE DEF t, n
<1>5. ASSUME NEW k \in 1 .. n + 1
      PROVE  \/ k < i /\ k \in 1 .. n /\ t[k] = l[k]
             \/ k = i /\ t[k] = g
             \/ k > i /\ k - 1 \in 1 .. n /\ t[k] = l[k - 1]
  <2>1. CASE k < i
    BY <1>1, <1>2, <2>1
  <2>2. CASE k > i
    <3>1. k - 1 \in 1 .. n /\ k - 1 >= i /\ k = (k - 1) + 1
      BY <1>1, <1>2, <2>2
    <3>2. t[(k - 1) + 1] = l[k - 1]
      BY <1>2, <3>1
    <3>. QED
      BY <2>2, <3>1, <3>2
  <2>. QED
    BY <1>1, <1>2, <2>1, <2>2
<1>6. ASSUME NEW j \in 1 .. n + 1, NEW k \in 1 .. n + 1, t[j].name = t[k].name
      PROVE  j = k
  <2>1. \/ j < i /\ j \in 1 .. n /\ t[j] = l[j]
        \/ j = i /\ t[j] = g
        \/ j > i /\ j - 1 \in 1 .. n /\ t[j] = l[j - 1]
    BY <1>5
  <2>2. \/ k < i /\ k \in 1 .. n /\ t[k] = l[k]
        \/ k = i /\ t[k] = g
        \/ k > i /\ k - 1 \in 1 .. n /\ t[k] = l[k - 1]
    BY <1>5
  <2>3. j = i <=> k = i
    <3>1. ASSUME NEW m \in 1 .. n PROVE l[m].name # g.name
      BY <1>4
    <3>2. j = i => t[j] = g
      BY <2>1
    <3>3. j # i => \E m \in 1 .. n : t[j] = l[m]
      BY <2>1
    <3>4. k = i => t[k] = g
      BY <2>2
    <3>5. k # i => \E m \in 1 .. n : t[k] = l[m]
      BY <2>2
    <3>. QED
      BY <1>6, <3>1, <3>2, <3>3, <3>4, <3>5
  <2>4. CASE j # i /\ k # i
    <3> DEFINE p == IF j < i THEN j ELSE j - 1
               q == IF k < i THEN k ELSE k - 1
    <3>1. p \in 1 .. n /\ t[j] = l[p]
      BY <2>1, <2>4
    <3>2. q \in 1 .. n /\ t[k] = l[q]
      BY <2>2, <2>4
    <3>3. p = q
      <4> HIDE DEF p, q
      <4>. QED
        BY <1>1, <1>6, <3>1, <3>2
    <3>. QED
      BY <1>1, <1>2, <2>1, <2>2, <2>4, <3>3
  <2>. QED
    BY <2>3, <2>4
<1>7. {t[k].name : k \in 1 .. n + 1} = {l[k].name : k \in 1 .. n} \cup {g.name}
  <2>1. ASSUME NEW k \in 1 .. n
        PROVE  \E j \in 1 .. n + 1 : t[j].name = l[k].name
    <3>1. CASE k < i
      BY <1>1, <1>2, <3>1
    <3>2. CASE k >= i
      <4>1. k + 1 \in 1 .. n + 1 /\ t[k + 1] = l[k]
        BY <1>1, <1>2, <3>2
      <4>. QED
        BY <4>1
    <3>. QED
      BY <1>1, <1>2, <3>1, <3>2
  <2>2. \E j \in 1 .. n + 1 : t[j].name = g.name
    BY <1>2
  <2>3. \A k \in 1 .. n + 1 :
          t[k].name = g.name \/ \E j \in 1 .. n : t[k].name = l[j].name
    BY <1>5
  <2> DEFINE N == {t[k].name : k \in 1 .. n + 1}
             M == {l[k].name : k \in 1 .. n}
  <2>4. ASSUME NEW x \in M PROVE x \in N
    BY <2>1
  <2>5. ASSUME NEW x \in N PROVE x \in M \cup {g.name}
    BY <2>3
  <2>6. g.name \in N
    BY <2>2
  <2>. QED
    BY <2>4, <2>5, <2>6
<1>8. t \in Layouts
  BY <1>2, <1>3, <1>6 DEF Layouts
<1>. QED
  BY <1>2, <1>7, <1>8 DEF NamesIn, t, n

(* A group of a layout put in again as something else, or elsewhere, keeps *)
(* the names there are.                                                    *)
LEMMA UpdateLayout ==
  ASSUME NEW l \in Layouts, NEW g \in GroupType, NEW i \in DOMAIN l, NEW j \in DOMAIN l,
         l[i].name = g.name
  PROVE  /\ InsertAt(RemoveAt(l, i), j, g) \in Layouts
         /\ NamesIn(InsertAt(RemoveAt(l, i), j, g)) = NamesIn(l)
<1> DEFINE n == Len(l)
           t == RemoveAt(l, i)
<1>1. /\ n \in Nat /\ DOMAIN l = 1 .. n
      /\ \A j_1, k \in 1 .. n : l[j_1].name = l[k].name => j_1 = k
  BY LayoutFacts
<1>2. /\ t \in Layouts /\ Len(t) = n - 1
      /\ \A k \in 1 .. n - 1 : t[k] = IF k < i THEN l[k] ELSE l[k + 1]
  BY RemoveLayout
<1>3. i \in 1 .. n /\ j \in 1 .. Len(t) + 1
  BY <1>1, <1>2
<1> HIDE DEF t, n
<1>4. ASSUME NEW k \in 1 .. n - 1
      PROVE  \E m \in 1 .. n : m # i /\ t[k] = l[m]
  <2>1. CASE k < i
    BY <1>1, <1>2, <1>3, <2>1
  <2>2. CASE k >= i
    <3>1. k + 1 \in 1 .. n /\ k + 1 # i /\ t[k] = l[k + 1]
      BY <1>1, <1>2, <1>3, <2>2
    <3>. QED
      BY <3>1
  <2>. QED
    BY <1>1, <1>3, <2>1, <2>2
<1>5. ASSUME NEW m \in 1 .. n, m # i
      PROVE  \E k \in 1 .. n - 1 : t[k] = l[m]
  <2>1. CASE m < i
    BY <1>1, <1>2, <1>3, <2>1
  <2>2. CASE m > i
    <3>1. m - 1 \in 1 .. n - 1 /\ ~(m - 1 < i) /\ (m - 1) + 1 = m
      BY <1>1, <1>3, <2>2
    <3>2. t[m - 1] = l[m]
      BY <1>2, <3>1
    <3>. QED
      BY <3>1, <3>2
  <2>. QED
    BY <1>1, <1>3, <1>5, <2>1, <2>2
<1>6. \A k \in 1 .. Len(t) : t[k].name # g.name
  BY <1>1, <1>2, <1>3, <1>4
<1>7. /\ InsertAt(t, j, g) \in Layouts
      /\ NamesIn(InsertAt(t, j, g)) = NamesIn(t) \cup {g.name}
  BY <1>2, <1>3, <1>6, InsertLayout
<1>8. NamesIn(t) \cup {g.name} = NamesIn(l)
  <2>1. NamesIn(t) = {t[k].name : k \in 1 .. n - 1} /\ NamesIn(l) = {l[k].name : k \in 1 .. n}
    BY <1>2 DEF NamesIn, n
  <2>2. ASSUME NEW x \in NamesIn(t) PROVE x \in NamesIn(l)
    BY <1>4, <2>1
  <2>3. g.name \in NamesIn(l)
    BY <1>3, <2>1
  <2>4. ASSUME NEW x \in NamesIn(l), x # g.name PROVE x \in NamesIn(t)
    <3>1. PICK m \in 1 .. n : x = l[m].name
      BY <2>1
    <3>2. m # i
      BY <2>4, <3>1
    <3>3. PICK k \in 1 .. n - 1 : t[k] = l[m]
      BY <1>5, <3>2
    <3>. QED
      BY <2>1, <3>1, <3>3
  <2>. QED
    BY <2>2, <2>3, <2>4
<1>. QED
  BY <1>7, <1>8 DEF t

-----------------------------------------------------------------------------
(* The part of TypeOK about the tables, and that about one run.            *)
Tables ==
  /\ groups \in [ToSet(Collections) -> {Gone} \cup Layouts]
  /\ strategy \in [ToSet(Collections) -> StrategyType]
  /\ bound \in [Users -> {Nowhere} \cup ToSet(Collections)]
  /\ \A u \in Users : bound[u] # Nowhere => Exists(bound[u])
  /\ events \in 0..MaxEvents

Typed(q) ==
  /\ q \in RunType
  /\ q.pc \in {"window", "check", "write"} => q.todo # <<>>
  /\ \A c \in ToSet(q.todo) : \E u \in Users : q.rows[u] = c

(* TypeOK is these parts together.                                         *)
LEMMA TypeParts ==
  TypeOK <=> Tables /\ run \in [Runs -> RunType] /\ \A r \in Runs : Typed(run[r])
<1>1. TypeOK => Tables /\ run \in [Runs -> RunType] /\ \A r \in Runs : Typed(run[r])
  BY DEF TypeOK, Tables, Typed
<1>2. Tables /\ run \in [Runs -> RunType] /\ (\A r \in Runs : Typed(run[r])) => TypeOK
  BY DEF TypeOK, Tables, Typed
<1>. QED
  BY <1>1, <1>2

(* A run that has not begun has its type.                                  *)
LEMMA IdleTyped == Typed(Idle)
<1>1. <<>> \in Layouts
  BY DEF Layouts
<1>2. Plain(<<>>) \in StrategyType
  BY EmptyValid
<1>3. [u \in Users |-> Nowhere] \in [Users -> {Nowhere} \cup ToSet(Collections)]
  OBVIOUS
<1>4. <<>> \in Seq(ToSet(Collections)) /\ ToSet(<<>>) = {}
  BY DEF ToSet
<1>5. Idle \in RunType
  <2>1. {} \in SUBSET ToSet(Collections)
    OBVIOUS
  <2>. QED
    BY <1>1, <1>2, <1>3, <1>4, <2>1 DEF Idle, RunType
<1>6. Idle.todo = <<>> /\ Idle.pc = "idle"
  BY DEF Idle
<1>. QED
  BY <1>4, <1>5, <1>6 DEF Typed

(* The tables of the first state, and idle runs.                           *)
LEMMA InitType == Init => TypeOK
<1>. SUFFICES ASSUME Init PROVE TypeOK
  OBVIOUS
<1>1. PICK w \in Worlds : groups = w.groups /\ bound = w.bound
  BY DEF Init
<1>2. /\ groups \in [ToSet(Collections) -> {Gone} \cup Layouts]
      /\ bound \in [Users -> ToSet(Collections)]
      /\ \A u \in Users : groups[bound[u]] # Gone
  BY <1>1, ConstantsAssumption
<1>3. strategy \in [ToSet(Collections) -> StrategyType]
  BY EmptyValid DEF Init
<1>4. events \in 0..MaxEvents
  BY ConstantsAssumption DEF Init
<1>5. Tables
  BY <1>2, <1>3, <1>4 DEF Tables, Exists
<1>6. run \in [Runs -> RunType] /\ \A r \in Runs : Typed(run[r])
  <2>1. run = [r \in Runs |-> Idle]
    BY DEF Init
  <2>2. Idle \in RunType
    BY IdleTyped DEF Typed
  <2>. QED
    BY <2>1, <2>2, IdleTyped
<1>. QED
  BY <1>5, <1>6, TypeParts

(* What a run is at, and what it makes of it, have their types.            *)
LEMMA CurrentTyped ==
  ASSUME TypeOK, NEW r \in Runs, run[r].todo # <<>>
  PROVE  /\ run[r].todo \in Seq(ToSet(Collections))
         /\ Current(r) \in ToSet(Collections) /\ Current(r) \in ToSet(run[r].todo)
         /\ \E u \in Users : run[r].rows[u] = Current(r)
         /\ Chosen(r) \in ToSet(Policies)
         /\ Entry(r) \in EntryType
         /\ Conflict(r) \subseteq ConflictType
<1>1. run[r] \in RunType /\ run[r].todo \in Seq(ToSet(Collections))
  BY DEF TypeOK, RunType
<1>2. Current(r) = run[r].todo[1] /\ 1 \in DOMAIN run[r].todo
  BY <1>1 DEF Current
<1>3. Current(r) \in ToSet(Collections) /\ Current(r) \in ToSet(run[r].todo)
  BY <1>1, <1>2 DEF ToSet
<1>4. \E u \in Users : run[r].rows[u] = Current(r)
  BY <1>3 DEF TypeOK
<1>5. Chosen(r) \in ToSet(Policies)
  BY <1>4, MajorityFacts DEF Chosen
<1>6. Competing(run[r].rows, Current(r)) \in Seq(ToSet(Policies))
  BY CompetingFacts
<1>7. Entry(r) \in EntryType
  BY <1>3, <1>5 DEF Entry, EntryType
<1>8. Conflict(r) \subseteq ConflictType
  BY <1>3, <1>5, <1>6 DEF Conflict, ConflictType
<1>. QED
  BY <1>1, <1>3, <1>4, <1>5, <1>7, <1>8

(* The groups a run reads are a layout.                                    *)
LEMMA ReadTyped ==
  ASSUME TypeOK, NEW c \in ToSet(Collections)
  PROVE  /\ Exists(c) => groups[c] \in Layouts
         /\ (IF Exists(c) THEN groups[c] ELSE <<>>) \in Layouts
<1>1. groups[c] \in {Gone} \cup Layouts
  BY DEF TypeOK
<1>2. <<>> \in Layouts
  BY DEF Layouts
<1>. QED
  BY <1>1, <1>2 DEF Exists

(* A write of an operator leaves every run its type.                       *)
LEMMA OperatorTyped ==
  ASSUME TypeOK, events < MaxEvents, NEW deleted, Operator(deleted)
  PROVE  /\ events' \in 0..MaxEvents
         /\ run' \in [Runs -> RunType] /\ \A r \in Runs : Typed(run'[r])
<1>1. events' \in 0..MaxEvents
  <2>1. events' = events + 1
    BY DEF Operator
  <2>2. events \in 0..MaxEvents
    BY DEF TypeOK
  <2>3. MaxEvents \in Nat
    BY ConstantsAssumption
  <2>. QED
    BY <2>1, <2>2, <2>3
<1>2. ASSUME NEW r \in Runs PROVE Typed(run'[r])
  <2>1. Typed(run[r])
    BY TypeParts
  <2>2. CASE run[r].pc = "idle"
    BY <2>1, <2>2 DEF Operator
  <2>3. CASE run[r].pc # "idle"
    <3> DEFINE s == run[r].stirred \/ (run[r].todo # <<>> /\ Head(run[r].todo) \in deleted)
    <3>1. run'[r] = [run[r] EXCEPT !.quiet = FALSE, !.stirred = s]
      BY <2>3 DEF Operator
    <3>2. s \in BOOLEAN
      BY <2>1 DEF Typed, RunType
    <3> HIDE DEF s
    <3>3. run'[r] \in RunType
      BY <2>1, <3>1, <3>2 DEF Typed, RunType
    <3>4. run'[r].pc = run[r].pc /\ run'[r].todo = run[r].todo /\ run'[r].rows = run[r].rows
      BY <2>1, <3>1 DEF Typed, RunType
    <3>. QED
      BY <2>1, <3>3, <3>4 DEF Typed
  <2>. QED
    BY <2>2, <2>3
<1>3. run' \in [Runs -> RunType]
  <2>1. \E f : run' = [r \in Runs |-> f[r]]
    <3> DEFINE f == [r \in Runs |->
                       IF run[r].pc = "idle" THEN run[r]
                       ELSE [run[r] EXCEPT
                         !.quiet = FALSE,
                         !.stirred = @ \/ (run[r].todo # <<>> /\ Head(run[r].todo) \in deleted)]]
    <3>1. run' = f
      BY DEF Operator
    <3>2. f = [r \in Runs |-> f[r]]
      OBVIOUS
    <3>. QED
      BY <3>1, <3>2
  <2>. QED
    BY <1>2, <2>1 DEF Typed
<1>. QED
  BY <1>1, <1>2, <1>3

(* A step of a run makes of it what it says, and leaves the others as they *)
(* are, but that they may remember the collections S as overwritten.       *)
Moves(r, change, S) ==
  run' = [q \in Runs |->
            IF q = r THEN change
            ELSE IF run[q].pc = "idle" THEN run[q]
            ELSE [run[q] EXCEPT !.overwritten = @ \cup S]]

(* What the others remember of a write.                                    *)
Remembered(r) == IF run[r].quiet THEN {} ELSE {Current(r)}

(* The others are the same but for what they remember.                     *)
LEMMA OthersSame ==
  ASSUME NEW q \in RunType, NEW S
  PROVE  LET p == [q EXCEPT !.overwritten = @ \cup S] IN
         /\ p.pc = q.pc /\ p.rows = q.rows /\ p.todo = q.todo /\ p.listed = q.listed
         /\ p.plan = q.plan /\ p.known = q.known /\ p.stirred = q.stirred
         /\ p.mapped = q.mapped /\ p.unmapped = q.unmapped /\ p.conflicts = q.conflicts
         /\ p.quiet = q.quiet /\ p.overwritten = q.overwritten \cup S
         /\ S = {} => p = q
         /\ S \subseteq ToSet(Collections) => p \in RunType
<1> DEFINE o == q.overwritten \cup S
           p == [q EXCEPT !.overwritten = o]
<1>1. /\ p.pc = q.pc /\ p.rows = q.rows /\ p.todo = q.todo /\ p.listed = q.listed
      /\ p.plan = q.plan /\ p.known = q.known /\ p.stirred = q.stirred
      /\ p.mapped = q.mapped /\ p.unmapped = q.unmapped /\ p.conflicts = q.conflicts
      /\ p.quiet = q.quiet /\ p.overwritten = o
  <2> HIDE DEF o
  <2>. QED
    BY DEF RunType
<1>2. ASSUME S = {} PROVE p = q
  <2>1. o = q.overwritten
    BY <1>2
  <2> HIDE DEF o
  <2>. QED
    BY <2>1 DEF RunType
<1>3. ASSUME S \subseteq ToSet(Collections) PROVE p \in RunType
  <2>1. o \in SUBSET ToSet(Collections)
    BY <1>3 DEF RunType
  <2> HIDE DEF o
  <2>. QED
    BY <2>1 DEF RunType
<1>. QED
  BY <1>1, <1>2, <1>3

(* A step of a run leaves all their types if its own change has it.        *)
LEMMA RunsTyped ==
  ASSUME TypeOK, NEW r \in Runs, NEW change, Typed(change),
         NEW S \in SUBSET ToSet(Collections), Moves(r, change, S)
  PROVE  run' \in [Runs -> RunType] /\ \A q \in Runs : Typed(run'[q])
<1>1. run \in [Runs -> RunType] /\ \A q \in Runs : Typed(run[q])
  BY TypeParts
<1>2. ASSUME NEW q \in Runs PROVE Typed(run'[q])
  <2> DEFINE p == [run[q] EXCEPT !.overwritten = @ \cup S]
  <2>1. run'[q] = IF q = r THEN change ELSE IF run[q].pc = "idle" THEN run[q] ELSE p
    BY DEF Moves
  <2>2. p \in RunType /\ p.pc = run[q].pc /\ p.todo = run[q].todo /\ p.rows = run[q].rows
    BY <1>1, OthersSame
  <2> HIDE DEF p
  <2>3. Typed(run[q])
    BY <1>1
  <2>4. Typed(p)
    BY <2>2, <2>3 DEF Typed
  <2>. QED
    BY <2>1, <2>3, <2>4
<1>3. \E f : run' = [q \in Runs |-> f[q]]
  <2> DEFINE f == [q \in Runs |->
                     IF q = r THEN change
                     ELSE IF run[q].pc = "idle" THEN run[q]
                     ELSE [run[q] EXCEPT !.overwritten = @ \cup S]]
  <2>1. run' = f
    BY DEF Moves
  <2>2. f = [q \in Runs |-> f[q]]
    OBVIOUS
  <2>. QED
    BY <2>1, <2>2
<1>. QED
  BY <1>2, <1>3 DEF Typed

(* Operators leave the tables their types, and a user model its collection.*)
LEMMA OperateType == TypeOK /\ Operate => TypeOK'
<1>. SUFFICES ASSUME TypeOK, Operate PROVE TypeOK'
  OBVIOUS
<1>0. /\ groups \in [ToSet(Collections) -> {Gone} \cup Layouts]
      /\ strategy \in [ToSet(Collections) -> StrategyType]
      /\ bound \in [Users -> {Nowhere} \cup ToSet(Collections)]
      /\ \A u \in Users : bound[u] # Nowhere => groups[bound[u]] # Gone
      /\ events < MaxEvents
      /\ Gone \notin Layouts /\ Nowhere \notin ToSet(Collections)
  BY ConstantsAssumption DEF TypeOK, Operate, Exists
<1>1. ASSUME NEW deleted, Operator(deleted),
             groups' \in [ToSet(Collections) -> {Gone} \cup Layouts],
             strategy' \in [ToSet(Collections) -> StrategyType],
             bound' \in [Users -> {Nowhere} \cup ToSet(Collections)],
             \A u \in Users : bound'[u] # Nowhere => groups'[bound'[u]] # Gone
      PROVE  TypeOK'
  <2>1. /\ events' \in 0..MaxEvents
        /\ run' \in [Runs -> RunType] /\ \A r \in Runs : Typed(run'[r])
    BY <1>0, <1>1, OperatorTyped
  <2>. QED
    BY <1>1, <2>1 DEF TypeOK, Exists, Typed
<1>2. ASSUME NEW c \in ToSet(Collections), NEW l \in Layouts, NEW deleted, Operator(deleted),
             groups' = [groups EXCEPT ![c] = l], UNCHANGED <<strategy, bound>>
      PROVE  TypeOK'
  <2>1. groups' \in [ToSet(Collections) -> {Gone} \cup Layouts]
    BY <1>0, <1>2
  <2>2. \A u \in Users : bound'[u] # Nowhere => groups'[bound'[u]] # Gone
    BY <1>0, <1>2
  <2>. QED
    BY <1>0, <1>1, <1>2, <2>1, <2>2
<1>3. ASSUME NEW c \in ToSet(Collections), CreateCollection(c) PROVE TypeOK'
  <2>1. <<>> \in Layouts
    BY DEF Layouts
  <2>2. groups' = [groups EXCEPT ![c] = <<>>] /\ bound' = bound /\ Operator({})
    BY <1>3 DEF CreateCollection
  <2>3. strategy' \in [ToSet(Collections) -> StrategyType]
    BY <1>0, <1>3, EmptyValid DEF CreateCollection
  <2>4. groups' \in [ToSet(Collections) -> {Gone} \cup Layouts]
    BY <1>0, <2>1, <2>2
  <2>5. \A u \in Users : bound'[u] # Nowhere => groups'[bound'[u]] # Gone
    BY <1>0, <2>1, <2>2
  <2>. QED
    BY <1>0, <1>1, <2>2, <2>3, <2>4, <2>5
<1>4. ASSUME NEW c \in ToSet(Collections), DeleteCollection(c) PROVE TypeOK'
  <2>1. /\ groups' = [groups EXCEPT ![c] = Gone] /\ UNCHANGED <<strategy, bound>>
        /\ Operator({c}) /\ \A u \in Users : bound[u] # c
    BY <1>4 DEF DeleteCollection
  <2>2. groups' \in [ToSet(Collections) -> {Gone} \cup Layouts]
    BY <1>0, <2>1
  <2>3. \A u \in Users : bound'[u] # Nowhere => groups'[bound'[u]] # Gone
    BY <1>0, <2>1
  <2>. QED
    BY <1>0, <1>1, <2>1, <2>2, <2>3
<1>5. ASSUME NEW c \in ToSet(Collections), NEW g \in Groups, NEW i, CreateGroup(c, g, i)
      PROVE  TypeOK'
  <2>1. groups[c] \in Layouts /\ g \in GroupType
    BY <1>5, ReadTyped, ConstantsAssumption DEF CreateGroup
  <2>2. i \in 1..Len(groups[c]) + 1 /\ \A j \in 1..Len(groups[c]) : groups[c][j].name # g.name
    BY <1>5, <2>1, LayoutFacts DEF CreateGroup
  <2>3. InsertAt(groups[c], i, g) \in Layouts
    BY <2>1, <2>2, InsertLayout
  <2>4. /\ groups' = [groups EXCEPT ![c] = InsertAt(groups[c], i, g)]
        /\ UNCHANGED <<strategy, bound>> /\ Operator({})
    BY <1>5 DEF CreateGroup
  <2>. QED
    BY <1>2, <2>3, <2>4
<1>6. ASSUME NEW c \in ToSet(Collections), NEW g \in Groups, NEW i, NEW j, UpdateGroup(c, g, i, j)
      PROVE  TypeOK'
  <2>1. groups[c] \in Layouts /\ g \in GroupType
    BY <1>6, ReadTyped, ConstantsAssumption DEF UpdateGroup
  <2>2. i \in DOMAIN groups[c] /\ j \in DOMAIN groups[c] /\ groups[c][i].name = g.name
    BY <1>6 DEF UpdateGroup
  <2>3. InsertAt(RemoveAt(groups[c], i), j, g) \in Layouts
    BY <2>1, <2>2, UpdateLayout
  <2>4. /\ groups' = [groups EXCEPT ![c] = InsertAt(RemoveAt(groups[c], i), j, g)]
        /\ UNCHANGED <<strategy, bound>> /\ Operator({})
    BY <1>6 DEF UpdateGroup
  <2>. QED
    BY <1>2, <2>3, <2>4
<1>7. ASSUME NEW c \in ToSet(Collections), NEW i, DeleteGroup(c, i) PROVE TypeOK'
  <2>1. groups[c] \in Layouts /\ i \in DOMAIN groups[c]
    BY <1>7, ReadTyped DEF DeleteGroup
  <2>2. RemoveAt(groups[c], i) \in Layouts
    BY <2>1, RemoveLayout
  <2>3. /\ groups' = [groups EXCEPT ![c] = RemoveAt(groups[c], i)]
        /\ UNCHANGED <<strategy, bound>> /\ Operator({c})
    BY <1>7 DEF DeleteGroup
  <2>. QED
    BY <1>2, <2>2, <2>3
<1>8. ASSUME NEW c \in ToSet(Collections), NEW s \in Strategies, SetStrategy(c, s) PROVE TypeOK'
  <2>1. /\ strategy' = [strategy EXCEPT ![c] = s] /\ UNCHANGED <<groups, bound>>
        /\ Operator({}) /\ s \in StrategyType
    BY <1>8, ConstantsAssumption DEF SetStrategy
  <2>2. strategy' \in [ToSet(Collections) -> StrategyType]
    BY <1>0, <2>1
  <2>. QED
    BY <1>0, <1>1, <2>1, <2>2
<1>9. ASSUME NEW u \in Users, NEW c \in ToSet(Collections), MoveUser(u, c) PROVE TypeOK'
  <2>1. /\ bound' = [bound EXCEPT ![u] = c] /\ UNCHANGED <<groups, strategy>>
        /\ Operator({}) /\ groups[c] # Gone
    BY <1>9 DEF MoveUser, Exists
  <2>2. bound' \in [Users -> {Nowhere} \cup ToSet(Collections)]
    BY <1>0, <2>1
  <2>3. \A v \in Users : bound'[v] # Nowhere => groups'[bound'[v]] # Gone
    BY <1>0, <2>1
  <2>. QED
    BY <1>0, <1>1, <2>1, <2>2, <2>3
<1>10. ASSUME NEW u \in Users, DeleteUser(u) PROVE TypeOK'
  <2>1. /\ bound' = [bound EXCEPT ![u] = Nowhere] /\ UNCHANGED <<groups, strategy>>
        /\ Operator({})
    BY <1>10 DEF DeleteUser
  <2>2. bound' \in [Users -> {Nowhere} \cup ToSet(Collections)]
    BY <1>0, <2>1
  <2>3. \A v \in Users : bound'[v] # Nowhere => groups'[bound'[v]] # Gone
    BY <1>0, <2>1
  <2>. QED
    BY <1>0, <1>1, <2>1, <2>2, <2>3
<1>. QED
  BY <1>3, <1>4, <1>5, <1>6, <1>7, <1>8, <1>9, <1>10 DEF Operate

(* A step of a run writes strategies at most, those it planned, and        *)
(* changes itself: to what, it says.                                       *)
Changes(r, change) ==
  /\ UNCHANGED <<groups, bound>>
  /\ UNCHANGED events \/ (events < MaxEvents /\ events' = events + 1)
  /\ \/ UNCHANGED strategy /\ Moves(r, change, {})
     \/ /\ run[r].todo # <<>>
        /\ strategy' = [strategy EXCEPT ![Current(r)] = run[r].plan]
        /\ Moves(r, change, Remembered(r))

(* Most steps write nothing: the others remember nothing of them.          *)
LEMMA StepChanges ==
  ASSUME TypeOK, NEW r \in Runs, NEW change, UNCHANGED <<groups, strategy, bound>>,
         (Step(r, change) /\ UNCHANGED events) \/ Fault(r, change)
  PROVE  Changes(r, change)
<1>1. run' = [run EXCEPT ![r] = change]
  BY DEF Fault, Step
<1>2. run = [q \in Runs |-> run[q]] /\ \A q \in Runs : run[q] \in RunType
  BY DEF TypeOK
<1>3. ASSUME NEW q \in Runs PROVE [run[q] EXCEPT !.overwritten = @ \cup {}] = run[q]
  <2>1. run[q] \in RunType
    BY <1>2
  <2>. QED
    BY <2>1, OthersSame
<1>4. Moves(r, change, {})
  BY <1>1, <1>2, <1>3 DEF Moves
<1>. QED
  BY <1>4 DEF Changes, Fault

(* Of one that writes they may.                                            *)
LEMMA UpdateChanges ==
  ASSUME TypeOK, NEW r \in Runs, NEW change, run[r].todo # <<>>,
         strategy' = [strategy EXCEPT ![Current(r)] = run[r].plan],
         UNCHANGED <<groups, bound>>,
         UNCHANGED events \/ (events < MaxEvents /\ events' = events + 1),
         run' = [Overwriting(r) EXCEPT ![r] = change]
  PROVE  Changes(r, change)
<1>1. \A q \in Runs : run[q] \in RunType
  BY DEF TypeOK
<1>2. ASSUME NEW q \in Runs PROVE [run[q] EXCEPT !.overwritten = @ \cup {}] = run[q]
  <2>1. run[q] \in RunType
    BY <1>1
  <2>. QED
    BY <2>1, OthersSame
<1>3. CASE run[r].quiet
  <2>1. Overwriting(r) = [q \in Runs |-> run[q]] /\ Remembered(r) = {}
    BY <1>3 DEF Overwriting, Remembered
  <2>2. Moves(r, change, Remembered(r))
    BY <1>2, <2>1 DEF Moves
  <2>. QED
    BY <2>2 DEF Changes
<1>4. CASE ~run[r].quiet
  <2>1. /\ Overwriting(r) = [q \in Runs |->
               IF run[q].pc = "idle" THEN run[q]
               ELSE [run[q] EXCEPT !.overwritten = @ \cup {Current(r)}]]
        /\ Remembered(r) = {Current(r)}
    BY <1>4 DEF Overwriting, Remembered
  <2>2. Moves(r, change, Remembered(r))
    BY <2>1 DEF Moves
  <2>. QED
    BY <2>2 DEF Changes
<1>. QED
  BY <1>3, <1>4

(* What they remember are collections.                                     *)
LEMMA ChangesMove ==
  ASSUME TypeOK, NEW r \in Runs, NEW change, Changes(r, change)
  PROVE  \E S \in SUBSET ToSet(Collections) : Moves(r, change, S)
<1>1. CASE Moves(r, change, {})
  BY <1>1
<1>2. CASE run[r].todo # <<>> /\ Moves(r, change, Remembered(r))
  <2>1. Remembered(r) \in SUBSET ToSet(Collections)
    BY <1>2, CurrentTyped DEF Remembered
  <2>. QED
    BY <1>2, <2>1
<1>. QED
  BY <1>1, <1>2 DEF Changes

(* Such a step keeps the types if the change has its own.                  *)
LEMMA ChangesType ==
  ASSUME TypeOK, NEW r \in Runs, NEW change, Typed(change), Changes(r, change)
  PROVE  TypeOK'
<1>1. run' \in [Runs -> RunType] /\ \A q \in Runs : Typed(run'[q])
  BY ChangesMove, RunsTyped
<1>2. strategy' \in [ToSet(Collections) -> StrategyType]
  <2>1. CASE UNCHANGED strategy
    BY <2>1 DEF TypeOK
  <2>2. CASE run[r].todo # <<>> /\ strategy' = [strategy EXCEPT ![Current(r)] = run[r].plan]
    <3>1. run[r].plan \in StrategyType /\ strategy \in [ToSet(Collections) -> StrategyType]
      BY DEF TypeOK, RunType
    <3>. QED
      BY <2>2, <3>1
  <2>. QED
    BY <2>1, <2>2 DEF Changes
<1>3. /\ groups' \in [ToSet(Collections) -> {Gone} \cup Layouts]
      /\ bound' \in [Users -> {Nowhere} \cup ToSet(Collections)]
      /\ \A u \in Users : bound'[u] # Nowhere => groups'[bound'[u]] # Gone
  BY DEF Changes, TypeOK, Exists
<1>4. events' \in 0..MaxEvents
  BY ConstantsAssumption DEF Changes, TypeOK
<1>. QED
  BY <1>1, <1>2, <1>3, <1>4 DEF TypeOK, Exists, Typed

-----------------------------------------------------------------------------
(* What the steps of a run make of it.                                     *)

(* It begins with the collections that user models are bound to.           *)
LEMMA StartChanges ==
  ASSUME TypeOK, NEW r \in Runs, Start(r)
  PROVE  \E d : /\ Typed(d) /\ Step(r, d) /\ UNCHANGED <<groups, strategy, bound, events>>
                /\ run[r].pc = "idle" /\ d.pc = "next" /\ d.rows = bound
                /\ IsInjective(d.todo)
                /\ ToSet(d.todo) = {c \in ToSet(Collections) : \E u \in Users : bound[u] = c}
                /\ d.mapped = {} /\ d.unmapped = {} /\ d.conflicts = {}
                /\ d.overwritten = {}
<1> DEFINE B == {c \in ToSet(Collections) : Competing(bound, c) # <<>>}
           todo == Selected(Collections, B)
           d == [Idle EXCEPT !.pc = "next", !.rows = bound, !.todo = todo]
<1>1. Step(r, d) /\ UNCHANGED <<groups, strategy, bound, events>> /\ run[r].pc = "idle"
  BY DEF Start, db
<1>2. Collections \in Seq(ToSet(Collections)) /\ IsInjective(Collections)
  BY ConstantsAssumption
<1>3. /\ todo \in Seq(ToSet(Collections)) /\ IsInjective(todo)
      /\ ToSet(todo) = {c \in ToSet(Collections) : c \in B}
  <2> HIDE DEF B
  <2>. QED
    BY <1>2, SelectedElements
<1>4. ToSet(todo) = {c \in ToSet(Collections) : \E u \in Users : bound[u] = c}
  <2>1. \A c : Competing(bound, c) # <<>> <=> \E u \in Users : bound[u] = c
    BY CompetingFacts
  <2> HIDE DEF todo
  <2>. QED
    BY <1>3, <2>1
<1>5. /\ Idle \in RunType /\ Idle.overwritten = {}
      /\ Idle.mapped = {} /\ Idle.unmapped = {} /\ Idle.conflicts = {}
  BY IdleTyped DEF Typed, Idle
<1>6. bound \in [Users -> {Nowhere} \cup ToSet(Collections)]
  BY DEF TypeOK
<1> HIDE DEF todo
<1>7. /\ d \in RunType /\ d.pc = "next" /\ d.rows = bound /\ d.todo = todo
      /\ d.mapped = {} /\ d.unmapped = {} /\ d.conflicts = {} /\ d.overwritten = {}
  BY <1>3, <1>5, <1>6 DEF RunType
<1> HIDE DEF d
<1>8. Typed(d)
  BY <1>4, <1>7 DEF Typed
<1>. QED
  BY <1>1, <1>3, <1>4, <1>7, <1>8

(* Or fails at once.                                                       *)
LEMMA MissBindingsChanges ==
  ASSUME TypeOK, NEW r \in Runs, MissBindings(r)
  PROVE  \E d : /\ Typed(d) /\ Fault(r, d) /\ UNCHANGED <<groups, strategy, bound>>
                /\ d.pc = "failed" /\ ~d.quiet
<1> DEFINE d == [Idle EXCEPT !.pc = "failed", !.quiet = FALSE]
<1>1. Idle \in RunType /\ Idle.todo = <<>>
  BY IdleTyped DEF Typed, Idle
<1>2. d \in RunType /\ d.pc = "failed" /\ ~d.quiet /\ d.todo = <<>>
  BY <1>1 DEF RunType
<1>3. Fault(r, d) /\ UNCHANGED <<groups, strategy, bound>>
  BY DEF MissBindings, db
<1> HIDE DEF d
<1>4. Typed(d)
  BY <1>2 DEF Typed, ToSet
<1>. QED
  BY <1>2, <1>3, <1>4

(* It reads the groups there are, or none where there is no collection.    *)
LEMMA ReadGroupsChanges ==
  ASSUME TypeOK, NEW r \in Runs, ReadGroups(r)
  PROVE  \E d : /\ Typed(d) /\ Step(r, d) /\ UNCHANGED <<groups, strategy, bound, events>>
                /\ run[r].pc = "next" /\ run[r].todo # <<>>
                /\ d.rows = run[r].rows /\ d.todo = run[r].todo
                /\ d.mapped = run[r].mapped /\ d.unmapped = run[r].unmapped
                /\ d.conflicts = run[r].conflicts \cup Conflict(r)
                /\ d.quiet = run[r].quiet /\ d.overwritten = run[r].overwritten
                /\ d.known = (Chosen(r) \in Scripts)
                /\ d.listed = (IF Exists(Current(r)) THEN groups[Current(r)] ELSE <<>>)
                /\ d.listed \in Layouts
                /\ d.plan = MapPolicy(Chosen(r), d.listed, 0)
                /\ d.pc = IF AsksWindow(Chosen(r), d.listed) THEN "window" ELSE "check"
<1> DEFINE l == IF Exists(Current(r)) THEN groups[Current(r)] ELSE <<>>
           pc == IF AsksWindow(Chosen(r), l) THEN "window" ELSE "check"
           plan == MapPolicy(Chosen(r), l, 0)
           known == Chosen(r) \in Scripts
           conflicts == run[r].conflicts \cup Conflict(r)
           d == [run[r] EXCEPT !.pc = pc, !.listed = l, !.plan = plan, !.known = known,
                               !.conflicts = conflicts, !.stirred = FALSE]
<1>1. /\ Step(r, d) /\ UNCHANGED <<groups, strategy, bound, events>>
      /\ run[r].pc = "next" /\ run[r].todo # <<>>
  BY DEF ReadGroups, db
<1>2. /\ Current(r) \in ToSet(Collections) /\ Conflict(r) \subseteq ConflictType
  BY <1>1, CurrentTyped
<1>3. l \in Layouts
  BY <1>2, ReadTyped
<1>4. plan \in StrategyType
  <2> HIDE DEF l
  <2>. QED
    BY <1>3, PlanValid
<1>5. run[r] \in RunType /\ Typed(run[r])
  BY TypeParts DEF Typed
<1>6. conflicts \in SUBSET ConflictType /\ known \in BOOLEAN /\ pc \in {"window", "check"}
  BY <1>2, <1>5 DEF RunType
<1> HIDE DEF conflicts, known, pc, plan, l
<1>7. /\ d \in RunType /\ d.pc = pc /\ d.rows = run[r].rows /\ d.todo = run[r].todo
      /\ d.mapped = run[r].mapped /\ d.unmapped = run[r].unmapped
      /\ d.conflicts = conflicts /\ d.known = known
      /\ d.quiet = run[r].quiet /\ d.overwritten = run[r].overwritten
      /\ d.listed = l /\ d.plan = plan
  BY <1>3, <1>4, <1>5, <1>6 DEF RunType
<1> HIDE DEF d
<1>8. Typed(d)
  BY <1>1, <1>5, <1>7 DEF Typed
<1>. QED
  BY <1>1, <1>3, <1>7, <1>8 DEF conflicts, known, pc, plan, l

(* It plans the empty strategy where it could not read them.               *)
LEMMA MissGroupsChanges ==
  ASSUME TypeOK, NEW r \in Runs, MissGroups(r)
  PROVE  \E d : /\ Typed(d) /\ UNCHANGED <<groups, strategy, bound>>
                /\ (Step(r, d) /\ UNCHANGED events) \/ Fault(r, d)
                /\ run[r].pc = "next" /\ run[r].todo # <<>>
                /\ Exists(Current(r)) => ~d.quiet
                /\ d.quiet => run[r].quiet
                /\ d.pc = "check" /\ d.listed = <<>> /\ d.plan = Plain(<<>>)
<1> DEFINE conflicts == run[r].conflicts \cup Conflict(r)
           plan == Plain(<<>>)
           l == <<>>
           next == [run[r] EXCEPT !.pc = "check", !.listed = l, !.plan = plan, !.known = FALSE,
                      !.conflicts = conflicts, !.blind = TRUE, !.stirred = FALSE]
           unquiet == [next EXCEPT !.quiet = FALSE]
<1>1. /\ IF Exists(Current(r)) THEN Fault(r, unquiet) ELSE Step(r, next) /\ UNCHANGED events
      /\ UNCHANGED <<groups, strategy, bound>>
      /\ run[r].pc = "next" /\ run[r].todo # <<>>
  BY DEF MissGroups, db
<1>2. Conflict(r) \subseteq ConflictType
  BY <1>1, CurrentTyped
<1>3. l \in Layouts /\ plan \in StrategyType
  BY EmptyValid DEF Layouts
<1>4. run[r] \in RunType /\ Typed(run[r])
  BY TypeParts DEF Typed
<1>5. conflicts \in SUBSET ConflictType
  BY <1>2, <1>4 DEF RunType
<1> HIDE DEF conflicts, plan, l
<1>6. /\ next \in RunType /\ next.pc = "check" /\ next.quiet = run[r].quiet
      /\ next.rows = run[r].rows /\ next.todo = run[r].todo
      /\ next.listed = l /\ next.plan = plan
  BY <1>3, <1>4, <1>5 DEF RunType
<1> HIDE DEF next
<1>7. /\ unquiet \in RunType /\ unquiet.pc = "check" /\ ~unquiet.quiet
      /\ unquiet.rows = run[r].rows /\ unquiet.todo = run[r].todo
      /\ unquiet.listed = l /\ unquiet.plan = plan
  BY <1>6 DEF RunType
<1> HIDE DEF unquiet
<1>8. Typed(next) /\ Typed(unquiet)
  BY <1>1, <1>4, <1>6, <1>7 DEF Typed
<1>9. CASE Exists(Current(r))
  BY <1>1, <1>7, <1>8, <1>9 DEF plan, l
<1>10. CASE ~Exists(Current(r))
  BY <1>1, <1>6, <1>8, <1>10 DEF plan, l
<1>. QED
  BY <1>9, <1>10

(* It plans with the window that is read.                                  *)
LEMMA PlannedChanges ==
  ASSUME TypeOK, NEW r \in Runs, NEW w \in Nat, run[r].pc = "window"
  PROVE  LET d == Planned(r, w) IN
         /\ Typed(d) /\ run[r].todo # <<>> /\ run[r].listed \in Layouts
         /\ d.pc = "check" /\ d.plan = MapPolicy(Chosen(r), run[r].listed, w)
         /\ d.rows = run[r].rows /\ d.todo = run[r].todo /\ d.listed = run[r].listed
         /\ d.mapped = run[r].mapped /\ d.unmapped = run[r].unmapped
         /\ d.conflicts = run[r].conflicts /\ d.known = run[r].known
         /\ d.quiet = run[r].quiet /\ d.stirred = run[r].stirred
         /\ d.overwritten = run[r].overwritten
<1> DEFINE plan == MapPolicy(Chosen(r), run[r].listed, w)
           d == Planned(r, w)
<1>1. run[r] \in RunType /\ Typed(run[r]) /\ run[r].todo # <<>> /\ run[r].listed \in Layouts
  BY TypeParts DEF Typed, RunType
<1>2. plan \in StrategyType
  BY <1>1, PlanValid
<1>3. d = [run[r] EXCEPT !.pc = "check", !.plan = plan]
  BY DEF Planned
<1> HIDE DEF plan, d
<1>4. /\ d \in RunType /\ d.pc = "check" /\ d.plan = plan
      /\ d.rows = run[r].rows /\ d.todo = run[r].todo /\ d.listed = run[r].listed
      /\ d.mapped = run[r].mapped /\ d.unmapped = run[r].unmapped
      /\ d.conflicts = run[r].conflicts /\ d.known = run[r].known
      /\ d.quiet = run[r].quiet /\ d.stirred = run[r].stirred
      /\ d.overwritten = run[r].overwritten
  BY <1>1, <1>2, <1>3 DEF RunType
<1>5. Typed(d)
  BY <1>1, <1>4 DEF Typed
<1>. QED
  BY <1>1, <1>4, <1>5 DEF plan, d

(* It may plan with another window, and is not quiet then.                 *)
LEMMA MisreadWindowChanges ==
  ASSUME TypeOK, NEW r \in Runs, NEW w \in Windows, MisreadWindow(r, w)
  PROVE  \E d : /\ Typed(d) /\ Fault(r, d) /\ UNCHANGED <<groups, strategy, bound>>
                /\ run[r].pc = "window" /\ run[r].listed \in Layouts
                /\ d.pc = "check" /\ d.plan = MapPolicy(Chosen(r), run[r].listed, w)
                /\ d.todo = run[r].todo /\ d.listed = run[r].listed
                /\ d.stirred = run[r].stirred /\ ~d.quiet
<1> DEFINE p == Planned(r, w)
           d == [p EXCEPT !.quiet = FALSE]
<1>1. w \in Nat
  BY ConstantsAssumption
<1>2. run[r].pc = "window" /\ Fault(r, d) /\ UNCHANGED <<groups, strategy, bound>>
  BY DEF MisreadWindow, db
<1>3. /\ Typed(p) /\ run[r].listed \in Layouts
      /\ p.pc = "check" /\ p.plan = MapPolicy(Chosen(r), run[r].listed, w)
      /\ p.todo = run[r].todo /\ p.listed = run[r].listed /\ p.stirred = run[r].stirred
  BY <1>1, <1>2, PlannedChanges
<1> HIDE DEF p
<1>4. /\ d \in RunType /\ d.pc = p.pc /\ d.plan = p.plan /\ d.rows = p.rows
      /\ d.todo = p.todo /\ d.listed = p.listed /\ d.stirred = p.stirred /\ ~d.quiet
  BY <1>3 DEF RunType, Typed
<1> HIDE DEF d
<1>5. Typed(d)
  BY <1>3, <1>4 DEF Typed
<1>. QED
  BY <1>2, <1>3, <1>4, <1>5

(* Another state of a run does not change what it reports or is to do.     *)
Keeps(d, q) ==
  /\ d.rows = q.rows /\ d.todo = q.todo /\ d.listed = q.listed /\ d.plan = q.plan
  /\ d.known = q.known /\ d.stirred = q.stirred /\ d.quiet = q.quiet
  /\ d.overwritten = q.overwritten

(* SetStrategy checks the plan.                                            *)
LEMMA CheckChanges ==
  ASSUME TypeOK, NEW r \in Runs, Check(r)
  PROVE  \E d : /\ Typed(d) /\ Step(r, d) /\ UNCHANGED <<groups, strategy, bound, events>>
                /\ run[r].pc = "check" /\ run[r].todo # <<>> /\ Exists(Current(r))
                /\ Keeps(d, run[r])
                /\ \/ /\ Valid(run[r].plan, groups[Current(r)]) /\ d.pc = "write"
                      /\ d.mapped = run[r].mapped /\ d.unmapped = run[r].unmapped
                      /\ d.conflicts = run[r].conflicts
                   \/ ~Valid(run[r].plan, groups[Current(r)]) /\ d.pc = "refused"
<1>1. run[r] \in RunType /\ Typed(run[r])
  BY TypeParts DEF Typed
<1>2. /\ UNCHANGED <<groups, strategy, bound, events>>
      /\ run[r].pc = "check" /\ Exists(Current(r)) /\ run[r].todo # <<>>
  BY <1>1 DEF Check, db, Typed
<1>3. CASE Valid(run[r].plan, groups[Current(r)])
  <2> DEFINE d == [run[r] EXCEPT !.pc = "write"]
  <2>1. Step(r, d)
    BY <1>3 DEF Check
  <2>2. /\ d \in RunType /\ d.pc = "write" /\ Keeps(d, run[r])
        /\ d.mapped = run[r].mapped /\ d.unmapped = run[r].unmapped
        /\ d.conflicts = run[r].conflicts
    BY <1>1 DEF RunType, Keeps
  <2> HIDE DEF d
  <2>3. Typed(d)
    BY <1>1, <1>2, <2>2 DEF Typed, Keeps
  <2>. QED
    BY <1>2, <1>3, <2>1, <2>2, <2>3
<1>4. CASE ~Valid(run[r].plan, groups[Current(r)])
  <2> DEFINE d == Failure(run[r], "refused")
  <2>1. Step(r, d)
    BY <1>4 DEF Check
  <2>2. d \in RunType /\ d.pc = "refused" /\ Keeps(d, run[r])
    BY <1>1 DEF RunType, Keeps, Failure
  <2> HIDE DEF d
  <2>3. Typed(d)
    BY <1>1, <1>2, <2>2 DEF Typed, Keeps
  <2>. QED
    BY <1>2, <1>4, <2>1, <2>2, <2>3
<1>. QED
  BY <1>3, <1>4

(* It fails, whether its UPDATE has been executed or not.                  *)
LEMMA FailChanges ==
  ASSUME TypeOK, NEW r \in Runs, Fail(r) \/ FailLate(r)
  PROVE  \E d : /\ Typed(d) /\ Changes(r, d)
                /\ run[r].pc \in {"check", "write"} /\ run[r].todo # <<>>
                /\ d.pc = "failed" /\ Keeps(d, run[r])
                /\ UNCHANGED strategy \/ run[r].pc = "write"
<1> DEFINE d == Failure(run[r], "failed")
<1>1. run[r] \in RunType /\ Typed(run[r])
  BY TypeParts DEF Typed
<1>2. run[r].pc \in {"check", "write"} /\ run[r].todo # <<>>
  BY <1>1 DEF Fail, FailLate, Typed
<1>3. d \in RunType /\ d.pc = "failed" /\ Keeps(d, run[r])
  BY <1>1 DEF RunType, Keeps, Failure
<1> HIDE DEF d
<1>4. Typed(d)
  BY <1>1, <1>3 DEF Typed, Keeps
<1>5. CASE Fail(r)
  <2>1. UNCHANGED <<groups, strategy, bound>>
    BY <1>5 DEF Fail, db
  <2>2. (Step(r, d) /\ UNCHANGED events) \/ Fault(r, d)
    BY <1>5 DEF Fail, d
  <2>3. Changes(r, d)
    BY <2>1, <2>2, StepChanges
  <2>. QED
    BY <1>2, <1>3, <1>4, <2>1, <2>3
<1>6. CASE FailLate(r)
  <2>1. /\ events < MaxEvents /\ events' = events + 1
        /\ strategy' = [strategy EXCEPT ![Current(r)] = run[r].plan]
        /\ UNCHANGED <<groups, bound>>
        /\ run' = [Overwriting(r) EXCEPT ![r] = d]
        /\ run[r].pc = "write"
    BY <1>6 DEF FailLate, Update, d
  <2>2. Changes(r, d)
    BY <1>2, <2>1, UpdateChanges
  <2>. QED
    BY <1>2, <1>3, <1>4, <2>1, <2>2
<1>. QED
  BY <1>5, <1>6

(* The rest of what is to do.                                              *)
LEMMA TailFacts ==
  ASSUME NEW T, NEW s \in Seq(T), s # <<>>
  PROVE  /\ Tail(s) \in Seq(T) /\ ToSet(Tail(s)) \subseteq ToSet(s)
         /\ Head(s) \in ToSet(s)
         /\ IsInjective(s) => /\ IsInjective(Tail(s))
                              /\ ToSet(Tail(s)) = ToSet(s) \ {Head(s)}
<1> DEFINE t == Tail(s)
<1>1. /\ t \in Seq(T) /\ Len(s) \in Nat /\ Len(t) = Len(s) - 1
      /\ DOMAIN s = 1 .. Len(s) /\ DOMAIN t = 1 .. Len(s) - 1
      /\ \A k \in 1 .. Len(s) - 1 : t[k] = s[k + 1]
      /\ Head(s) = s[1] /\ 1 \in 1 .. Len(s)
  OBVIOUS
<1> HIDE DEF t
<1>2. ToSet(t) = {s[k] : k \in 2 .. Len(s)}
  <2>1. ASSUME NEW x \in ToSet(t) PROVE \E k \in 2 .. Len(s) : x = s[k]
    <3>1. PICK k \in 1 .. Len(s) - 1 : x = s[k + 1]
      BY <1>1, <2>1 DEF ToSet
    <3>2. k + 1 \in 2 .. Len(s)
      BY <1>1
    <3>. QED
      BY <3>1, <3>2
  <2>2. ASSUME NEW k \in 2 .. Len(s) PROVE s[k] \in ToSet(t)
    <3>1. k - 1 \in 1 .. Len(s) - 1 /\ k - 1 + 1 = k
      BY <1>1
    <3>2. t[k - 1] = s[k]
      BY <1>1, <3>1
    <3>. QED
      BY <1>1, <3>1, <3>2 DEF ToSet
  <2>. QED
    BY <2>1, <2>2
<1>3. \A k \in 1 .. Len(s) : k = 1 \/ k \in 2 .. Len(s)
  BY <1>1
<1>4. \A k \in 2 .. Len(s) : k \in 1 .. Len(s) /\ k # 1
  BY <1>1
<1>5. ToSet(s) = {s[k] : k \in 1 .. Len(s)} /\ Head(s) \in ToSet(s)
  BY <1>1 DEF ToSet
<1>6. ToSet(t) \subseteq ToSet(s)
  BY <1>2, <1>4, <1>5
<1>7. ASSUME IsInjective(s) PROVE IsInjective(t) /\ ToSet(t) = ToSet(s) \ {Head(s)}
  <2>1. \A j, k \in 1 .. Len(s) : s[j] = s[k] => j = k
    BY <1>1, <1>7 DEF IsInjective
  <2>2. IsInjective(t)
    <3>1. ASSUME NEW j \in 1 .. Len(s) - 1, NEW k \in 1 .. Len(s) - 1, t[j] = t[k] PROVE j = k
      <4>1. j + 1 \in 1 .. Len(s) /\ k + 1 \in 1 .. Len(s) /\ s[j + 1] = s[k + 1]
        BY <1>1, <3>1
      <4>2. j + 1 = k + 1
        BY <2>1, <4>1
      <4>. QED
        BY <1>1, <4>2
    <3>. QED
      BY <1>1, <3>1 DEF IsInjective
  <2>3. \A k \in 2 .. Len(s) : s[k] # Head(s)
    BY <1>1, <1>4, <2>1
  <2>. QED
    BY <1>1, <1>2, <1>3, <1>5, <1>6, <2>2, <2>3
<1>. QED
  BY <1>1, <1>5, <1>6, <1>7 DEF t

(* It writes the plan, and goes on to the next collection.                 *)
LEMMA WriteChanges ==
  ASSUME TypeOK, NEW r \in Runs, Write(r)
  PROVE  \E d : /\ Typed(d) /\ Changes(r, d) /\ UNCHANGED <<groups, bound>>
                /\ strategy' = [strategy EXCEPT ![Current(r)] = run[r].plan]
                /\ run[r].pc = "write" /\ run[r].todo # <<>> /\ Exists(Current(r))
                /\ d.pc = "next" /\ d.rows = run[r].rows /\ d.todo = Tail(run[r].todo)
                /\ d.mapped = run[r].mapped \cup (IF run[r].known THEN {Entry(r)} ELSE {})
                /\ d.unmapped = run[r].unmapped \cup (IF run[r].known THEN {} ELSE {Entry(r)})
                /\ d.conflicts = run[r].conflicts /\ d.quiet = run[r].quiet
                /\ d.overwritten = run[r].overwritten \ {Current(r)}
<1> DEFINE todo == Tail(run[r].todo)
           mapped == IF run[r].known THEN run[r].mapped \cup {Entry(r)} ELSE run[r].mapped
           unmapped == IF run[r].known THEN run[r].unmapped ELSE run[r].unmapped \cup {Entry(r)}
           kept == run[r].overwritten \ {Current(r)}
           d == [run[r] EXCEPT !.pc = "next", !.todo = todo, !.mapped = mapped,
                               !.unmapped = unmapped, !.overwritten = kept]
<1>1. run[r] \in RunType /\ Typed(run[r])
  BY TypeParts DEF Typed
<1>2. /\ UNCHANGED <<groups, bound, events>>
      /\ strategy' = [strategy EXCEPT ![Current(r)] = run[r].plan]
      /\ run[r].pc = "write" /\ Exists(Current(r)) /\ run[r].todo # <<>>
      /\ run' = [Overwriting(r) EXCEPT ![r] = d]
  BY <1>1 DEF Write, Update, Typed
<1>3. Entry(r) \in EntryType /\ run[r].todo \in Seq(ToSet(Collections))
  BY <1>2, CurrentTyped
<1>4. todo \in Seq(ToSet(Collections)) /\ ToSet(todo) \subseteq ToSet(run[r].todo)
  BY <1>2, <1>3, TailFacts
<1>5. /\ mapped \in SUBSET EntryType /\ unmapped \in SUBSET EntryType
      /\ kept \in SUBSET ToSet(Collections)
  BY <1>1, <1>3 DEF RunType
<1>6. /\ mapped = run[r].mapped \cup (IF run[r].known THEN {Entry(r)} ELSE {})
      /\ unmapped = run[r].unmapped \cup (IF run[r].known THEN {} ELSE {Entry(r)})
  OBVIOUS
<1> HIDE DEF todo, mapped, unmapped, kept
<1>7. /\ d \in RunType /\ d.pc = "next" /\ d.rows = run[r].rows /\ d.todo = todo
      /\ d.mapped = mapped /\ d.unmapped = unmapped /\ d.overwritten = kept
      /\ d.conflicts = run[r].conflicts /\ d.quiet = run[r].quiet
  BY <1>1, <1>4, <1>5 DEF RunType
<1> HIDE DEF d
<1>8. Typed(d)
  BY <1>1, <1>4, <1>7 DEF Typed
<1>9. Changes(r, d)
  BY <1>2, UpdateChanges
<1>. QED
  BY <1>2, <1>6, <1>7, <1>8, <1>9 DEF todo, kept

(* It is done with all of them.                                            *)
LEMMA FinishChanges ==
  ASSUME TypeOK, NEW r \in Runs, Finish(r)
  PROVE  \E d : /\ Typed(d) /\ Step(r, d) /\ UNCHANGED <<groups, strategy, bound, events>>
                /\ run[r].pc = "next" /\ run[r].todo = <<>> /\ d.pc = "done"
                /\ Keeps(d, run[r])
                /\ d.mapped = run[r].mapped /\ d.unmapped = run[r].unmapped
                /\ d.conflicts = run[r].conflicts
<1> DEFINE d == [run[r] EXCEPT !.pc = "done"]
<1>1. run[r] \in RunType /\ Typed(run[r])
  BY TypeParts DEF Typed
<1>2. /\ Step(r, d) /\ UNCHANGED <<groups, strategy, bound, events>>
      /\ run[r].pc = "next" /\ run[r].todo = <<>>
  BY DEF Finish, db
<1>3. /\ d \in RunType /\ d.pc = "done" /\ Keeps(d, run[r])
      /\ d.mapped = run[r].mapped /\ d.unmapped = run[r].unmapped
      /\ d.conflicts = run[r].conflicts
  BY <1>1 DEF RunType, Keeps
<1> HIDE DEF d
<1>4. Typed(d)
  BY <1>1, <1>3 DEF Typed, Keeps
<1>. QED
  BY <1>2, <1>3, <1>4

(* Reading the window is planning with the one of the groups there are.    *)
LEMMA ReadWindowChanges ==
  ASSUME TypeOK, NEW r \in Runs, ReadWindow(r)
  PROVE  LET l == IF Exists(Current(r)) THEN groups[Current(r)] ELSE <<>> IN
         \E w \in Nat : /\ w = MaxPrimaryWindow(l)
                        /\ run[r].pc = "window" /\ run[r].todo # <<>>
                        /\ Step(r, Planned(r, w))
                        /\ UNCHANGED <<groups, strategy, bound, events>>
<1> DEFINE l == IF Exists(Current(r)) THEN groups[Current(r)] ELSE <<>>
           w == MaxPrimaryWindow(l)
<1>1. /\ run[r].pc = "window" /\ Step(r, Planned(r, w))
      /\ UNCHANGED <<groups, strategy, bound, events>>
  BY DEF ReadWindow, db
<1>2. run[r].todo # <<>>
  BY <1>1 DEF TypeOK
<1>3. l \in Layouts
  BY <1>2, CurrentTyped, ReadTyped
<1>4. w \in Nat
  <2> HIDE DEF l
  <2>. QED
    BY <1>3, WindowFacts
<1> HIDE DEF w
<1>. QED
  BY <1>1, <1>2, <1>4 DEF w

(* Every step of a run changes its own part and at most a strategy.        *)
LEMMA AdvanceType ==
  ASSUME TypeOK, NEW r \in Runs, Start(r) \/ MissBindings(r) \/ Advance(r)
  PROVE  TypeOK'
<1>1. CASE Start(r)
  BY <1>1, StartChanges, StepChanges, ChangesType
<1>2. CASE MissBindings(r)
  BY <1>2, MissBindingsChanges, StepChanges, ChangesType
<1>3. CASE ReadGroups(r)
  BY <1>3, ReadGroupsChanges, StepChanges, ChangesType
<1>4. CASE MissGroups(r)
  BY <1>4, MissGroupsChanges, StepChanges, ChangesType
<1>5. CASE ReadWindow(r)
  BY <1>5, ReadWindowChanges, PlannedChanges, StepChanges, ChangesType
<1>6. ASSUME NEW w \in Windows, MisreadWindow(r, w) PROVE TypeOK'
  BY <1>6, MisreadWindowChanges, StepChanges, ChangesType
<1>7. CASE Check(r)
  BY <1>7, CheckChanges, StepChanges, ChangesType
<1>8. CASE Write(r)
  BY <1>8, WriteChanges, ChangesType
<1>9. CASE Fail(r) \/ FailLate(r)
  BY <1>9, FailChanges, ChangesType
<1>10. CASE Finish(r)
  BY <1>10, FinishChanges, StepChanges, ChangesType
<1>11. CASE Answer(r)
  BY <1>11, IdleTyped, StepChanges, ChangesType DEF Answer, db
<1>. QED
  BY <1>1, <1>2, <1>3, <1>4, <1>5, <1>6, <1>7, <1>8, <1>9, <1>10, <1>11 DEF Advance

(* Every step keeps the types.                                             *)
LEMMA StepType == TypeOK /\ [Next]_vars => TypeOK'
<1>. SUFFICES ASSUME TypeOK, [Next]_vars PROVE TypeOK'
  OBVIOUS
<1>1. CASE UNCHANGED vars
  BY <1>1 DEF TypeOK, Exists, vars
<1>2. CASE Operate
  BY <1>2, OperateType
<1>3. ASSUME NEW r \in Runs, Start(r) \/ MissBindings(r) \/ Advance(r) PROVE TypeOK'
  BY <1>3, AdvanceType
<1>. QED
  BY <1>1, <1>2, <1>3 DEF Next

-----------------------------------------------------------------------------
(* What keeps a run from being refused: unless a group has been deleted,   *)
(* the groups it has read are still there; and its plan is valid for them. *)
NamesThere(c) == IF Exists(c) THEN NamesIn(groups[c]) ELSE {}

Sound(q) ==
  /\ q.pc \in {"window", "check", "write"} /\ ~q.stirred =>
       NamesIn(q.listed) \subseteq NamesThere(Head(q.todo))
  /\ q.pc \in {"check", "write"} => Valid(q.plan, q.listed)
  /\ q.pc = "refused" => q.stirred

AllSound == \A r \in Runs : Sound(run[r])

(* Valid for some groups is valid for all that have their names.           *)
LEMMA ValidMore ==
  ASSUME NEW s, NEW l, NEW m, NamesIn(l) \subseteq NamesIn(m), Valid(s, l)
  PROVE  Valid(s, m)
BY NamesInSame DEF Valid

(* An operator deletes no group but those of the collections of which it   *)
(* says so.                                                                *)
LEMMA OperateNames ==
  ASSUME TypeOK, Operate
  PROVE  \E deleted :
           /\ Operator(deleted)
           /\ \A c \in ToSet(Collections) \ deleted : NamesThere(c) \subseteq NamesThere(c)'
<1>0. groups \in [ToSet(Collections) -> {Gone} \cup Layouts]
  BY DEF TypeOK
<1>1. ASSUME NEW deleted, Operator(deleted),
             \A c \in ToSet(Collections) \ deleted :
               \/ groups'[c] = groups[c]
               \/ groups[c] = Gone
               \/ groups'[c] # Gone /\ NamesIn(groups[c]) \subseteq NamesIn(groups'[c])
      PROVE  \A c \in ToSet(Collections) \ deleted : NamesThere(c) \subseteq NamesThere(c)'
  <2>1. \A l : NamesIn(l)' = NamesIn(l)
    BY DEF NamesIn
  <2>. QED
    BY <1>1, <2>1 DEF NamesThere, Exists, NamesIn
<1>2. ASSUME NEW c \in ToSet(Collections), CreateCollection(c)
      PROVE  /\ Operator({})
             /\ \A d \in ToSet(Collections) \ {} : groups'[d] = groups[d] \/ groups[d] = Gone
  BY <1>0, <1>2 DEF CreateCollection, Exists
<1>3. ASSUME NEW c \in ToSet(Collections), DeleteCollection(c)
      PROVE  Operator({c}) /\ \A d \in ToSet(Collections) \ {c} : groups'[d] = groups[d]
  BY <1>0, <1>3 DEF DeleteCollection
<1>4. ASSUME NEW c \in ToSet(Collections), NEW g \in Groups, NEW i, CreateGroup(c, g, i)
      PROVE  /\ Operator({})
             /\ \A d \in ToSet(Collections) \ {} :
                  \/ groups'[d] = groups[d]
                  \/ groups'[d] # Gone /\ NamesIn(groups[d]) \subseteq NamesIn(groups'[d])
  <2>1. groups[c] \in Layouts /\ g \in GroupType
    BY <1>4, ReadTyped, ConstantsAssumption DEF CreateGroup
  <2>2. i \in 1..Len(groups[c]) + 1 /\ \A j \in 1..Len(groups[c]) : groups[c][j].name # g.name
    BY <1>4, <2>1, LayoutFacts DEF CreateGroup
  <2>3. /\ InsertAt(groups[c], i, g) \in Layouts
        /\ NamesIn(groups[c]) \subseteq NamesIn(InsertAt(groups[c], i, g))
    BY <2>1, <2>2, InsertLayout
  <2>4. groups' = [groups EXCEPT ![c] = InsertAt(groups[c], i, g)] /\ Operator({})
    BY <1>4 DEF CreateGroup
  <2>. QED
    BY <1>0, <2>3, <2>4, ConstantsAssumption
<1>5. ASSUME NEW c \in ToSet(Collections), NEW g \in Groups, NEW i, NEW j, UpdateGroup(c, g, i, j)
      PROVE  /\ Operator({})
             /\ \A d \in ToSet(Collections) \ {} :
                  \/ groups'[d] = groups[d]
                  \/ groups'[d] # Gone /\ NamesIn(groups[d]) \subseteq NamesIn(groups'[d])
  <2>1. groups[c] \in Layouts /\ g \in GroupType
    BY <1>5, ReadTyped, ConstantsAssumption DEF UpdateGroup
  <2>2. i \in DOMAIN groups[c] /\ j \in DOMAIN groups[c] /\ groups[c][i].name = g.name
    BY <1>5 DEF UpdateGroup
  <2> DEFINE l == InsertAt(RemoveAt(groups[c], i), j, g)
  <2>3. l \in Layouts /\ NamesIn(l) = NamesIn(groups[c])
    BY <2>1, <2>2, UpdateLayout
  <2>4. groups' = [groups EXCEPT ![c] = l] /\ Operator({})
    BY <1>5 DEF UpdateGroup
  <2> HIDE DEF l
  <2>. QED
    BY <1>0, <2>3, <2>4, ConstantsAssumption
<1>6. ASSUME NEW c \in ToSet(Collections), NEW i, DeleteGroup(c, i)
      PROVE  Operator({c}) /\ \A d \in ToSet(Collections) \ {c} : groups'[d] = groups[d]
  BY <1>0, <1>6 DEF DeleteGroup
<1>7. ASSUME NEW c \in ToSet(Collections), NEW s \in Strategies, SetStrategy(c, s)
      PROVE  Operator({}) /\ groups' = groups
  BY <1>7 DEF SetStrategy
<1>8. ASSUME NEW u \in Users, NEW c \in ToSet(Collections), MoveUser(u, c)
      PROVE  Operator({}) /\ groups' = groups
  BY <1>8 DEF MoveUser
<1>9. ASSUME NEW u \in Users, DeleteUser(u) PROVE Operator({}) /\ groups' = groups
  BY <1>9 DEF DeleteUser
<1>10. \E deleted :
         /\ Operator(deleted)
         /\ \A c \in ToSet(Collections) \ deleted :
              \/ groups'[c] = groups[c]
              \/ groups[c] = Gone
              \/ groups'[c] # Gone /\ NamesIn(groups[c]) \subseteq NamesIn(groups'[c])
  <2>1. CASE \E c \in ToSet(Collections) : CreateCollection(c)
    BY <1>2, <2>1
  <2>2. CASE \E c \in ToSet(Collections) : DeleteCollection(c)
    BY <1>3, <2>2
  <2>3. CASE \E c \in ToSet(Collections), g \in Groups, i \in 1..Cardinality(Names) :
               CreateGroup(c, g, i)
    BY <1>4, <2>3
  <2>4. CASE \E c \in ToSet(Collections), g \in Groups, i, j \in 1..Cardinality(Names) :
               UpdateGroup(c, g, i, j)
    BY <1>5, <2>4
  <2>5. CASE \E c \in ToSet(Collections), i \in 1..Cardinality(Names) : DeleteGroup(c, i)
    BY <1>6, <2>5
  <2>6. CASE \E c \in ToSet(Collections), s \in Strategies : SetStrategy(c, s)
    BY <1>7, <2>6
  <2>7. CASE \E c \in ToSet(Collections), u \in Users : MoveUser(u, c)
    BY <1>8, <2>7
  <2>8. CASE \E u \in Users : DeleteUser(u)
    BY <1>9, <2>8
  <2>. QED
    BY <2>1, <2>2, <2>3, <2>4, <2>5, <2>6, <2>7, <2>8 DEF Operate
<1>. QED
  BY <1>1, <1>10

(* So operators leave every run sound.                                     *)
LEMMA OperateSound ==
  ASSUME TypeOK, AllSound, Operate
  PROVE  AllSound'
<1>1. PICK deleted :
        /\ Operator(deleted)
        /\ \A c \in ToSet(Collections) \ deleted : NamesThere(c) \subseteq NamesThere(c)'
  BY OperateNames
<1>2. ASSUME NEW r \in Runs PROVE Sound(run[r])'
  <2> DEFINE q == run[r]
             p == run'[r]
  <2>1. q \in RunType /\ Typed(q) /\ Sound(q)
    BY TypeParts DEF AllSound, Typed
  <2>2. /\ p.pc = q.pc /\ p.todo = q.todo /\ p.listed = q.listed /\ p.plan = q.plan
        /\ q.pc # "idle" =>
             p.stirred = (q.stirred \/ (q.todo # <<>> /\ Head(q.todo) \in deleted))
    <3>1. CASE q.pc = "idle"
      BY <1>1, <3>1 DEF Operator
    <3>2. CASE q.pc # "idle"
      <4> DEFINE s == q.stirred \/ (q.todo # <<>> /\ Head(q.todo) \in deleted)
      <4>1. p = [q EXCEPT !.quiet = FALSE, !.stirred = s]
        BY <1>1, <3>2 DEF Operator
      <4> HIDE DEF s, p, q
      <4>2. /\ p.pc = q.pc /\ p.todo = q.todo /\ p.listed = q.listed /\ p.plan = q.plan
            /\ p.stirred = s
        BY <2>1, <4>1 DEF RunType
      <4>. QED
        BY <4>2 DEF s
    <3>. QED
      BY <3>1, <3>2
  <2>3. ASSUME q.pc \in {"window", "check", "write"}, ~p.stirred
        PROVE  NamesIn(run[r].listed)' \subseteq NamesThere(Head(run[r].todo))'
    <3>1. q.todo # <<>> /\ ~q.stirred /\ Head(q.todo) \notin deleted
      BY <2>1, <2>2, <2>3 DEF Typed
    <3>2. PICK c \in ToSet(Collections) : c = Head(q.todo) /\ c = Head(p.todo)
      <4>1. Head(q.todo) \in ToSet(Collections)
        BY <3>1, CurrentTyped DEF Current
      <4>. QED
        BY <2>2, <4>1
    <3>3. NamesThere(c) \subseteq NamesThere(c)'
      BY <1>1, <3>1, <3>2
    <3>4. NamesIn(p.listed) \subseteq NamesThere(c)
      BY <2>1, <2>2, <2>3, <3>1, <3>2 DEF Sound
    <3>5. NamesIn(p.listed) \subseteq IF groups'[c] # Gone THEN NamesIn(groups'[c]) ELSE {}
      BY <3>3, <3>4 DEF NamesThere, Exists, NamesIn
    <3>6. NamesIn(p.listed) \subseteq
            IF groups'[Head(p.todo)] # Gone THEN NamesIn(groups'[Head(p.todo)]) ELSE {}
      BY <3>2, <3>5
    <3>. QED
      BY <3>6 DEF NamesThere, Exists, NamesIn
  <2>4. /\ q.pc \in {"check", "write"} => Valid(q.plan, q.listed)
        /\ q.pc = "refused" => q.stirred
    BY <2>1 DEF Sound
  <2>5. q.pc = "refused" => p.stirred
    BY <2>2, <2>4
  <2>. QED
    BY <2>2, <2>3, <2>4, <2>5 DEF Sound
<1>. QED
  BY <1>2 DEF AllSound

(* Two runs that are the same but for what they remember of others.        *)
Same(p, q) ==
  /\ p.pc = q.pc /\ p.rows = q.rows /\ p.todo = q.todo /\ p.listed = q.listed
  /\ p.plan = q.plan /\ p.known = q.known /\ p.stirred = q.stirred
  /\ p.mapped = q.mapped /\ p.unmapped = q.unmapped /\ p.conflicts = q.conflicts

(* A step of a run leaves the others as they are otherwise.                *)
LEMMA StepOthers ==
  ASSUME TypeOK, NEW r \in Runs, NEW d, NEW S, Moves(r, d, S), NEW q \in Runs
  PROVE  /\ Same(run'[q], IF q = r THEN d ELSE run[q])
         /\ q # r => run'[q].quiet = run[q].quiet
         /\ q # r /\ run[q].pc # "idle" => run'[q].overwritten = run[q].overwritten \cup S
<1>1. run[q] \in RunType
  BY DEF TypeOK
<1>2. run'[q] = IF q = r THEN d ELSE IF run[q].pc = "idle" THEN run[q]
                ELSE [run[q] EXCEPT !.overwritten = @ \cup S]
  BY DEF Moves
<1>. QED
  BY <1>1, <1>2, OthersSame DEF Same

(* A run that differs only so is as sound.                                 *)
LEMMA SameSound ==
  ASSUME NEW p, NEW q, Same(p, q), Sound(q)
  PROVE  Sound(p)
BY DEF Same, Sound

(* A step that makes a run something sound leaves all of them sound.       *)
LEMMA ChangesSound ==
  ASSUME TypeOK, AllSound, NEW r \in Runs, NEW d, Sound(d), Changes(r, d)
  PROVE  AllSound'
<1>1. groups' = groups
  BY DEF Changes
<1>2. ASSUME NEW q \in Runs PROVE Sound(run[q])'
  <2>1. Same(run'[q], IF q = r THEN d ELSE run[q])
    <3>1. \E S : Moves(r, d, S)
      BY DEF Changes
    <3>. QED
      BY <3>1, StepOthers
  <2>2. Sound(IF q = r THEN d ELSE run[q])
    BY DEF AllSound
  <2>3. Sound(run'[q])
    BY <2>1, <2>2, SameSound
  <2>. QED
    BY <1>1, <2>3 DEF Sound, NamesThere, Exists, NamesIn, Valid, Referenced, NamesOf
<1>. QED
  BY <1>2 DEF AllSound

(* So do the runs themselves.                                              *)
LEMMA AdvanceSound ==
  ASSUME TypeOK, AllSound, NEW r \in Runs, Start(r) \/ MissBindings(r) \/ Advance(r)
  PROVE  AllSound'
<1>0. Sound(run[r]) /\ Typed(run[r]) /\ NamesIn(<<>>) = {}
  BY TypeParts DEF AllSound, NamesIn
<1>1. ASSUME NEW d, d.pc \in {"idle", "next", "done", "failed"}, Changes(r, d)
      PROVE  AllSound'
  BY <1>1, ChangesSound DEF Sound
<1>2. CASE Start(r) \/ MissBindings(r)
  BY <1>1, <1>2, StartChanges, MissBindingsChanges, StepChanges
<1>3. CASE ReadGroups(r)
  <2>1. PICK d : /\ Typed(d) /\ Changes(r, d)
                 /\ d.todo = run[r].todo
                 /\ d.listed = (IF Exists(Current(r)) THEN groups[Current(r)] ELSE <<>>)
                 /\ d.listed \in Layouts
                 /\ d.plan = MapPolicy(Chosen(r), d.listed, 0)
                 /\ d.pc \in {"window", "check"}
    BY <1>3, ReadGroupsChanges, StepChanges
  <2>2. NamesIn(d.listed) \subseteq NamesThere(Head(d.todo))
    BY <1>0, <2>1 DEF NamesThere, Current
  <2>3. Valid(d.plan, d.listed)
    BY <2>1, PlanValid
  <2>4. Sound(d)
    BY <2>1, <2>2, <2>3 DEF Sound
  <2>. QED
    BY <2>1, <2>4, ChangesSound
<1>4. CASE MissGroups(r)
  <2>1. PICK d : /\ Typed(d) /\ Changes(r, d)
                 /\ d.pc = "check" /\ d.listed = <<>> /\ d.plan = Plain(<<>>)
    BY <1>4, MissGroupsChanges, StepChanges
  <2>2. Sound(d)
    BY <1>0, <2>1, EmptyValid DEF Sound
  <2>. QED
    BY <2>1, <2>2, ChangesSound
<1>5. ASSUME NEW w \in Nat, NEW d, Changes(r, d), run[r].pc = "window",
             run[r].listed \in Layouts, d.pc = "check",
             d.plan = MapPolicy(Chosen(r), run[r].listed, w), d.todo = run[r].todo,
             d.listed = run[r].listed, d.stirred = run[r].stirred
      PROVE  AllSound'
  <2>1. Valid(d.plan, d.listed)
    BY <1>5, PlanValid
  <2>2. Sound(d)
    BY <1>0, <1>5, <2>1 DEF Sound
  <2>. QED
    BY <1>5, <2>2, ChangesSound
<1>6. CASE ReadWindow(r)
  <2>1. PICK w \in Nat : /\ run[r].pc = "window" /\ Step(r, Planned(r, w))
                         /\ UNCHANGED <<groups, strategy, bound, events>>
    BY <1>6, ReadWindowChanges
  <2>2. Changes(r, Planned(r, w))
    BY <2>1, StepChanges
  <2>. QED
    BY <1>5, <2>1, <2>2, PlannedChanges
<1>7. ASSUME NEW w \in Windows, MisreadWindow(r, w) PROVE AllSound'
  <2>1. w \in Nat
    BY ConstantsAssumption
  <2>. QED
    BY <1>5, <1>7, <2>1, MisreadWindowChanges, StepChanges
<1>8. CASE Check(r)
  <2>1. PICK d : /\ Typed(d) /\ Changes(r, d)
                 /\ run[r].pc = "check" /\ Exists(Current(r)) /\ Keeps(d, run[r])
                 /\ \/ d.pc = "write"
                    \/ ~Valid(run[r].plan, groups[Current(r)]) /\ d.pc = "refused"
    BY <1>8, CheckChanges, StepChanges
  <2>2. /\ d.todo = run[r].todo /\ d.listed = run[r].listed /\ d.plan = run[r].plan
        /\ d.stirred = run[r].stirred
    BY <2>1 DEF Keeps
  <2>3. /\ ~run[r].stirred => NamesIn(run[r].listed) \subseteq NamesThere(Head(run[r].todo))
        /\ Valid(run[r].plan, run[r].listed)
    BY <1>0, <2>1 DEF Sound
  <2>4. CASE d.pc = "write"
    BY <2>1, <2>2, <2>3, <2>4, ChangesSound DEF Sound
  <2>5. CASE ~Valid(run[r].plan, groups[Current(r)]) /\ d.pc = "refused"
    <3>1. run[r].stirred
      <4>1. SUFFICES ASSUME ~run[r].stirred PROVE Valid(run[r].plan, groups[Current(r)])
        BY <2>5
      <4>2. NamesIn(run[r].listed) \subseteq NamesIn(groups[Current(r)])
        BY <2>1, <2>3, <4>1 DEF NamesThere, Current
      <4>. QED
        BY <2>3, <4>2, ValidMore
    <3>. QED
      BY <2>1, <2>2, <2>5, <3>1, ChangesSound DEF Sound
  <2>. QED
    BY <2>1, <2>4, <2>5
<1>9. CASE Write(r)
  BY <1>1, <1>9, WriteChanges
<1>10. CASE Fail(r) \/ FailLate(r)
  BY <1>1, <1>10, FailChanges
<1>11. CASE Finish(r)
  BY <1>1, <1>11, FinishChanges, StepChanges
<1>12. CASE Answer(r)
  <2>1. Idle.pc = "idle"
    BY DEF Idle
  <2>. QED
    BY <1>1, <1>12, <2>1, StepChanges DEF Answer, db
<1>. QED
  BY <1>2, <1>3, <1>4, <1>6, <1>7, <1>8, <1>9, <1>10, <1>11, <1>12 DEF Advance

(* Every step keeps the runs sound.                                        *)
LEMMA StepSound == TypeOK /\ AllSound /\ [Next]_vars => AllSound'
<1>. SUFFICES ASSUME TypeOK, AllSound, [Next]_vars PROVE AllSound'
  OBVIOUS
<1>1. CASE UNCHANGED vars
  <2>1. groups' = groups
    BY <1>1 DEF vars
  <2>2. ASSUME NEW r \in Runs PROVE Sound(run[r])'
    <3>1. Sound(run'[r])
      BY <1>1 DEF vars, AllSound
    <3>. QED
      BY <2>1, <3>1 DEF Sound, NamesThere, Exists, NamesIn, Valid, Referenced, NamesOf
  <2>. QED
    BY <2>2 DEF AllSound
<1>2. CASE Operate
  BY <1>2, OperateSound
<1>3. ASSUME NEW r \in Runs, Start(r) \/ MissBindings(r) \/ Advance(r)
      PROVE  AllSound'
  BY <1>3, AdvanceSound
<1>. QED
  BY <1>1, <1>2, <1>3 DEF Next

(* No run has begun at first.                                              *)
LEMMA InitSound == Init => AllSound
BY DEF Init, AllSound, Sound, Idle

-----------------------------------------------------------------------------
(* The course of a run that nothing disturbs, given the groups g, the      *)
(* strategies s and the bindings b: what is done, what is in the report,   *)
(* what it is about to write, and what it has written that no run which is *)
(* not quiet has replaced.  A failure drops the report, and nothing else.  *)
Referred(b) == {c \in ToSet(Collections) : \E u \in Users : b[u] = c}

PlanOf(g, b, c) == MapPolicy(Majority(b, c), g[c], MaxPrimaryWindow(g[c]))

EntryOf(b, c) == [collection |-> c, policy |-> Majority(b, c)]

ConflictOf(b, c) ==
  [collection |-> c, policies |-> Competing(b, c), chosen |-> Majority(b, c)]

Within(q) == q.pc \in {"window", "check", "write"}

Done(q, b) == Referred(b) \ ToSet(q.todo)

Seen(q, b) == Done(q, b) \cup (IF Within(q) THEN {Head(q.todo)} ELSE {})

Reported(q, b) ==
  /\ q.rows = b
  /\ IsInjective(q.todo) /\ ToSet(q.todo) \subseteq Referred(b)
  /\ q.pc # "failed" =>
       /\ q.mapped = {EntryOf(b, c) : c \in {d \in Done(q, b) : Majority(b, d) \in Scripts}}
       /\ q.unmapped =
            {EntryOf(b, c) : c \in {d \in Done(q, b) : Majority(b, d) \notin Scripts}}
       /\ q.conflicts =
            {ConflictOf(b, c) : c \in {d \in Seen(q, b) : Len(Competing(b, d)) > 1}}

Planning(q, g, b) ==
  /\ q.pc # "refused"
  /\ q.pc = "done" => q.todo = <<>>
  /\ Within(q) => /\ q.listed = g[Head(q.todo)]
                  /\ q.known = (Majority(b, Head(q.todo)) \in Scripts)
  /\ q.pc \in {"check", "write"} => q.plan = PlanOf(g, b, Head(q.todo))

Written(q, g, s, b) == \A c \in Done(q, b) \ q.overwritten : s[c] = PlanOf(g, b, c)

OnCourse(q, g, s, b) == Reported(q, b) /\ Planning(q, g, b) /\ Written(q, g, s, b)

(* The quiet runs are on course, whatever the others do.                   *)
Course ==
  \A r \in Runs :
    run[r].pc # "idle" /\ run[r].quiet => OnCourse(run[r], groups, strategy, bound)

(* No run is under way at first.                                           *)
LEMMA InitCourse == Init => Course
BY DEF Init, Course, Idle

(* A change by an operator disturbs every run under way.                   *)
LEMMA OperatorCourse ==
  ASSUME TypeOK, Course, NEW deleted, Operator(deleted)
  PROVE  Course'
<1>1. ASSUME NEW q \in Runs, run'[q].pc # "idle" PROVE run'[q].quiet = FALSE
  <2>1. run[q].pc # "idle"
    BY <1>1 DEF Operator
  <2> DEFINE s == run[q].stirred \/ (run[q].todo # <<>> /\ Head(run[q].todo) \in deleted)
  <2>2. run'[q] = [run[q] EXCEPT !.quiet = FALSE, !.stirred = s]
    BY <2>1 DEF Operator
  <2>3. run[q] \in RunType
    BY DEF TypeOK
  <2> HIDE DEF s
  <2>. QED
    BY <2>2, <2>3 DEF RunType
<1>. QED
  BY <1>1 DEF Course

(* What is the same is on course alike, but for what has been overwritten. *)
LEMMA SameCourse ==
  ASSUME NEW p, NEW q, NEW g, NEW b, Same(p, q), Reported(q, b), Planning(q, g, b)
  PROVE  Reported(p, b) /\ Planning(p, g, b) /\ Done(p, b) = Done(q, b)
<1>1. Done(p, b) = Done(q, b) /\ Seen(p, b) = Seen(q, b)
  BY DEF Same, Done, Seen, Within
<1>2. Reported(p, b)
  BY <1>1 DEF Same, Reported
<1>3. Planning(p, g, b)
  BY DEF Same, Planning, Within
<1>. QED
  BY <1>1, <1>2, <1>3

(* A step keeps the peers of a run on course, if what it writes is what    *)
(* they would or else is remembered, and the run itself if its change is.  *)
LEMMA StepCourse ==
  ASSUME TypeOK, Course, NEW r \in Runs, NEW d, Changes(r, d),
         d.pc # "idle" /\ d.quiet => OnCourse(d, groups, strategy', bound),
         UNCHANGED strategy \/ (run[r].quiet => run[r].plan = PlanOf(groups, bound, Current(r)))
  PROVE  Course'
<1>1. groups' = groups /\ bound' = bound /\ strategy \in [ToSet(Collections) -> StrategyType]
  BY DEF Changes, TypeOK
<1>2. PICK S : /\ Moves(r, d, S)
               /\ \A c \in ToSet(Collections) \ S :
                    strategy'[c] = strategy[c] \/ strategy'[c] = PlanOf(groups, bound, c)
  <2>1. CASE UNCHANGED strategy
    <3>1. \E S : Moves(r, d, S)
      BY DEF Changes
    <3>. QED
      BY <2>1, <3>1
  <2>2. CASE ~UNCHANGED strategy
    <3>1. /\ strategy' = [strategy EXCEPT ![Current(r)] = run[r].plan]
          /\ Moves(r, d, Remembered(r))
          /\ run[r].quiet => run[r].plan = PlanOf(groups, bound, Current(r))
      BY <2>2 DEF Changes
    <3>2. CASE run[r].quiet
      BY <1>1, <3>1, <3>2
    <3>3. CASE ~run[r].quiet
      BY <1>1, <3>1, <3>3 DEF Remembered
    <3>. QED
      BY <3>2, <3>3
  <2>. QED
    BY <2>1, <2>2
<1>3. ASSUME NEW q \in Runs, run'[q].pc # "idle", run'[q].quiet
      PROVE  OnCourse(run'[q], groups, strategy', bound)
  <2>1. CASE q = r
    <3>1. run'[q] = d
      BY <1>2, <2>1 DEF Moves
    <3>. QED
      BY <1>3, <3>1
  <2>2. CASE q # r
    <3>1. /\ Same(run'[q], run[q]) /\ run'[q].quiet = run[q].quiet
          /\ run[q].pc # "idle" => run'[q].overwritten = run[q].overwritten \cup S
      BY <1>2, <2>2, StepOthers
    <3>2. run[q].pc # "idle"
      BY <1>3, <3>1 DEF Same
    <3>3. OnCourse(run[q], groups, strategy, bound)
      BY <1>3, <3>1, <3>2 DEF Course
    <3>4. /\ Reported(run'[q], bound) /\ Planning(run'[q], groups, bound)
          /\ Done(run'[q], bound) = Done(run[q], bound)
      BY <3>1, <3>3, SameCourse DEF OnCourse
    <3>5. ASSUME NEW c \in Done(run[q], bound) \ run'[q].overwritten
          PROVE  strategy'[c] = PlanOf(groups, bound, c)
      <4>1. c \in ToSet(Collections) \ S /\ c \notin run[q].overwritten
        BY <3>1, <3>2, <3>5 DEF Done, Referred
      <4>2. strategy[c] = PlanOf(groups, bound, c)
        BY <3>3, <3>5, <4>1 DEF OnCourse, Written
      <4>. QED
        BY <1>2, <4>1, <4>2
    <3>. QED
      BY <3>4, <3>5 DEF OnCourse, Written
  <2>. QED
    BY <2>1, <2>2
<1>. QED
  BY <1>1, <1>3 DEF Course

-----------------------------------------------------------------------------
(* A run on course is at a collection that is referred to, so it is there, *)
(* and maps the policy that most of its user models have.                  *)
LEMMA CurrentOnCourse ==
  ASSUME TypeOK, NEW r \in Runs, run[r].todo # <<>>, Reported(run[r], bound)
  PROVE  /\ Current(r) = Head(run[r].todo) /\ Current(r) \in ToSet(run[r].todo)
         /\ Current(r) \in Referred(bound) /\ Current(r) \in ToSet(Collections)
         /\ Exists(Current(r)) /\ groups[Current(r)] \in Layouts
         /\ Chosen(r) = Majority(bound, Current(r))
         /\ Entry(r) = EntryOf(bound, Current(r))
         /\ Conflict(r) = {ConflictOf(bound, c) : c \in {d \in {Current(r)} :
                                                          Len(Competing(bound, d)) > 1}}
<1>1. Current(r) \in ToSet(Collections) /\ Current(r) \in ToSet(run[r].todo)
  BY CurrentTyped
<1>2. Current(r) \in Referred(bound) /\ run[r].rows = bound
  BY <1>1 DEF Reported
<1>3. PICK u \in Users : bound[u] = Current(r)
  BY <1>2 DEF Referred
<1>4. bound[u] # Nowhere
  BY <1>1, <1>3, ConstantsAssumption
<1>5. Exists(Current(r))
  BY <1>3, <1>4 DEF TypeOK
<1>6. groups[Current(r)] \in Layouts
  BY <1>1, <1>5, ReadTyped
<1>7. Chosen(r) = Majority(bound, Current(r))
  BY <1>2 DEF Chosen
<1>8. Entry(r) = EntryOf(bound, Current(r))
  BY <1>7 DEF Entry, EntryOf
<1>9. Conflict(r) = {ConflictOf(bound, c) : c \in {d \in {Current(r)} :
                                                     Len(Competing(bound, d)) > 1}}
  BY <1>2, <1>7 DEF Conflict, ConflictOf
<1>. QED
  BY <1>1, <1>2, <1>5, <1>6, <1>7, <1>8, <1>9 DEF Current

(* Nothing is done when a run begins.                                      *)
LEMMA StartOnCourse ==
  ASSUME TypeOK, Course, NEW r \in Runs, Start(r)
  PROVE  Course'
<1>1. PICK d : /\ Step(r, d) /\ UNCHANGED <<groups, strategy, bound, events>>
               /\ run[r].pc = "idle" /\ d.pc = "next" /\ d.rows = bound
               /\ IsInjective(d.todo) /\ ToSet(d.todo) = Referred(bound)
               /\ d.mapped = {} /\ d.unmapped = {} /\ d.conflicts = {}
  BY StartChanges DEF Referred
<1>2. Done(d, bound) = {} /\ Seen(d, bound) = {}
  BY <1>1 DEF Done, Seen, Within
<1>3. Reported(d, bound)
  BY <1>1, <1>2 DEF Reported
<1>4. Planning(d, groups, bound)
  BY <1>1 DEF Planning, Within
<1>5. Written(d, groups, strategy', bound)
  BY <1>2 DEF Written
<1>. QED
  BY <1>1, <1>3, <1>4, <1>5, StepChanges, StepCourse DEF OnCourse

(* A run that has begun stays on course, and keeps its peers on it, if     *)
(* where it was it stays, and writes nothing else but its plan.            *)
LEMMA AdvanceCourse ==
  ASSUME TypeOK, Course, NEW r \in Runs, NEW d, Changes(r, d),
         run[r].pc # "idle", d.quiet => run[r].quiet,
         OnCourse(run[r], groups, strategy, bound) /\ run[r].quiet =>
           /\ d.quiet => OnCourse(d, groups, strategy', bound)
           /\ UNCHANGED strategy \/ run[r].plan = PlanOf(groups, bound, Current(r))
  PROVE  Course'
<1>1. run[r].quiet => OnCourse(run[r], groups, strategy, bound)
  BY DEF Course
<1>. QED
  BY <1>1, StepCourse

(* It plans for the groups there are.                                      *)
LEMMA ReadGroupsOnCourse ==
  ASSUME TypeOK, Course, NEW r \in Runs, ReadGroups(r)
  PROVE  Course'
<1>1. PICK d : /\ Changes(r, d) /\ UNCHANGED strategy
               /\ run[r].pc = "next" /\ run[r].todo # <<>>
               /\ d.rows = run[r].rows /\ d.todo = run[r].todo
               /\ d.mapped = run[r].mapped /\ d.unmapped = run[r].unmapped
               /\ d.conflicts = run[r].conflicts \cup Conflict(r)
               /\ d.quiet = run[r].quiet /\ d.overwritten = run[r].overwritten
               /\ d.known = (Chosen(r) \in Scripts)
               /\ d.listed = (IF Exists(Current(r)) THEN groups[Current(r)] ELSE <<>>)
               /\ d.plan = MapPolicy(Chosen(r), d.listed, 0)
               /\ d.pc = IF AsksWindow(Chosen(r), d.listed) THEN "window" ELSE "check"
  BY ReadGroupsChanges, StepChanges
<1>2. d.pc \in {"window", "check"}
  BY <1>1
<1>3. ASSUME OnCourse(run[r], groups, strategy, bound)
      PROVE  OnCourse(d, groups, strategy, bound)
  <2> DEFINE c == Current(r)
  <2>1. Reported(run[r], bound) /\ Written(run[r], groups, strategy, bound)
    BY <1>3 DEF OnCourse
  <2>2. /\ c = Head(run[r].todo) /\ Exists(c) /\ groups[c] \in Layouts
        /\ Chosen(r) = Majority(bound, c)
        /\ Conflict(r) = {ConflictOf(bound, e) : e \in {f \in {c} : Len(Competing(bound, f)) > 1}}
    BY <1>1, <2>1, CurrentOnCourse
  <2> HIDE DEF c
  <2>3. /\ Done(d, bound) = Done(run[r], bound)
        /\ Seen(run[r], bound) = Done(run[r], bound)
        /\ Seen(d, bound) = Seen(run[r], bound) \cup {c}
    BY <1>1, <1>2, <2>2 DEF Done, Seen, Within
  <2>4. Reported(d, bound)
    BY <1>1, <2>1, <2>2, <2>3 DEF Reported
  <2>5. Planning(d, groups, bound)
    <3>1. d.listed = groups[c] /\ d.known = (Majority(bound, c) \in Scripts)
      BY <1>1, <2>2 DEF c
    <3>2. ASSUME d.pc = "check" PROVE d.plan = PlanOf(groups, bound, c)
      <4>1. ~AsksWindow(Chosen(r), groups[c])
        BY <1>1, <3>1, <3>2
      <4>. QED
        BY <1>1, <2>2, <3>1, <4>1, WindowNotAsked DEF PlanOf
    <3>. QED
      BY <1>1, <1>2, <2>2, <3>1, <3>2 DEF Planning, Within
  <2>6. Written(d, groups, strategy, bound)
    BY <1>1, <2>1, <2>3 DEF Written
  <2>. QED
    BY <2>4, <2>5, <2>6 DEF OnCourse
<1>. QED
  BY <1>1, <1>2, <1>3, AdvanceCourse

(* On course it finds the groups, so where it does not it is not quiet.    *)
LEMMA MissGroupsOnCourse ==
  ASSUME TypeOK, Course, NEW r \in Runs, MissGroups(r)
  PROVE  Course'
<1>1. PICK d : /\ Changes(r, d) /\ UNCHANGED strategy
               /\ run[r].pc = "next" /\ run[r].todo # <<>>
               /\ Exists(Current(r)) => ~d.quiet
               /\ d.quiet => run[r].quiet
  BY MissGroupsChanges, StepChanges
<1>2. OnCourse(run[r], groups, strategy, bound) => Exists(Current(r))
  BY <1>1, CurrentOnCourse DEF OnCourse
<1>. QED
  BY <1>1, <1>2, AdvanceCourse

(* It plans with the window of the groups there are.                       *)
LEMMA ReadWindowOnCourse ==
  ASSUME TypeOK, Course, NEW r \in Runs, ReadWindow(r)
  PROVE  Course'
<1> DEFINE l == IF Exists(Current(r)) THEN groups[Current(r)] ELSE <<>>
<1>1. PICK w \in Nat : /\ w = MaxPrimaryWindow(l)
                       /\ run[r].pc = "window" /\ run[r].todo # <<>>
                       /\ Step(r, Planned(r, w))
                       /\ UNCHANGED <<groups, strategy, bound, events>>
  BY ReadWindowChanges
<1> DEFINE d == Planned(r, w)
<1>2. run[r].todo # <<>> /\ run[r].pc # "idle"
  BY <1>1
<1>3. Changes(r, d)
  BY <1>1, StepChanges
<1>4. /\ d.pc = "check" /\ d.plan = MapPolicy(Chosen(r), run[r].listed, w)
      /\ d.rows = run[r].rows /\ d.todo = run[r].todo /\ d.listed = run[r].listed
      /\ d.mapped = run[r].mapped /\ d.unmapped = run[r].unmapped
      /\ d.conflicts = run[r].conflicts /\ d.known = run[r].known
      /\ d.quiet = run[r].quiet /\ d.overwritten = run[r].overwritten
  BY <1>1, PlannedChanges
<1> HIDE DEF d
<1>5. ASSUME OnCourse(run[r], groups, strategy, bound)
      PROVE  OnCourse(d, groups, strategy, bound)
  <2> DEFINE c == Current(r)
  <2>1. /\ Reported(run[r], bound) /\ Written(run[r], groups, strategy, bound)
        /\ run[r].listed = groups[Head(run[r].todo)]
        /\ run[r].known = (Majority(bound, Head(run[r].todo)) \in Scripts)
    BY <1>1, <1>5 DEF OnCourse, Planning, Within
  <2>2. c = Head(run[r].todo) /\ Exists(c) /\ Chosen(r) = Majority(bound, c)
    BY <1>2, <2>1, CurrentOnCourse
  <2>3. w = MaxPrimaryWindow(groups[c])
    BY <1>1, <2>2
  <2> HIDE DEF c
  <2>4. /\ Done(d, bound) = Done(run[r], bound)
        /\ Seen(d, bound) = Seen(run[r], bound)
    BY <1>1, <1>4 DEF Done, Seen, Within
  <2>5. Reported(d, bound)
    BY <1>1, <1>4, <2>1, <2>4 DEF Reported
  <2>6. Planning(d, groups, bound)
    BY <1>4, <2>1, <2>2, <2>3 DEF Planning, Within, PlanOf
  <2>7. Written(d, groups, strategy, bound)
    BY <1>4, <2>1, <2>4 DEF Written
  <2>. QED
    BY <2>5, <2>6, <2>7 DEF OnCourse
<1>. QED
  BY <1>1, <1>2, <1>3, <1>4, <1>5, AdvanceCourse

(* Its plan is not refused.                                                *)
LEMMA CheckOnCourse ==
  ASSUME TypeOK, Course, NEW r \in Runs, Check(r)
  PROVE  Course'
<1>1. PICK d : /\ Changes(r, d) /\ UNCHANGED strategy
               /\ run[r].pc = "check" /\ run[r].todo # <<>>
               /\ Keeps(d, run[r])
               /\ \/ /\ d.pc = "write"
                     /\ d.mapped = run[r].mapped /\ d.unmapped = run[r].unmapped
                     /\ d.conflicts = run[r].conflicts
                  \/ ~Valid(run[r].plan, groups[Current(r)]) /\ d.pc = "refused"
  BY CheckChanges, StepChanges
<1>2. /\ d.rows = run[r].rows /\ d.todo = run[r].todo /\ d.listed = run[r].listed
      /\ d.plan = run[r].plan /\ d.known = run[r].known /\ d.quiet = run[r].quiet
      /\ d.overwritten = run[r].overwritten
  BY <1>1 DEF Keeps
<1>3. ASSUME OnCourse(run[r], groups, strategy, bound)
      PROVE  OnCourse(d, groups, strategy, bound)
  <2> DEFINE c == Head(run[r].todo)
  <2>1. /\ Reported(run[r], bound) /\ Written(run[r], groups, strategy, bound)
        /\ run[r].listed = groups[c] /\ run[r].known = (Majority(bound, c) \in Scripts)
        /\ run[r].plan = PlanOf(groups, bound, c)
    BY <1>1, <1>3 DEF OnCourse, Planning, Within
  <2>2. c = Current(r) /\ groups[c] \in Layouts
    BY <1>1, <2>1, CurrentOnCourse
  <2>3. Valid(run[r].plan, groups[c])
    BY <2>1, <2>2, WindowFacts, PlanValid DEF PlanOf
  <2>4. /\ d.pc = "write" /\ d.mapped = run[r].mapped /\ d.unmapped = run[r].unmapped
        /\ d.conflicts = run[r].conflicts
    BY <1>1, <2>2, <2>3
  <2> HIDE DEF c
  <2>5. /\ Done(d, bound) = Done(run[r], bound)
        /\ Seen(d, bound) = Seen(run[r], bound)
    BY <1>1, <1>2, <2>4 DEF Done, Seen, Within
  <2>6. Reported(d, bound)
    BY <1>1, <1>2, <2>1, <2>4, <2>5 DEF Reported
  <2>7. Planning(d, groups, bound)
    BY <1>2, <2>1, <2>4 DEF Planning, Within, c
  <2>8. Written(d, groups, strategy, bound)
    BY <1>2, <2>1, <2>5 DEF Written
  <2>. QED
    BY <2>6, <2>7, <2>8 DEF OnCourse
<1>4. run[r].pc # "idle"
  BY <1>1
<1>. QED
  BY <1>1, <1>2, <1>3, <1>4, AdvanceCourse

(* What it writes is what it planned, and it reports it.                   *)
LEMMA WriteOnCourse ==
  ASSUME TypeOK, Course, NEW r \in Runs, Write(r)
  PROVE  Course'
<1>1. PICK d : /\ Changes(r, d)
               /\ strategy' = [strategy EXCEPT ![Current(r)] = run[r].plan]
               /\ run[r].pc = "write" /\ run[r].todo # <<>>
               /\ d.pc = "next" /\ d.rows = run[r].rows /\ d.todo = Tail(run[r].todo)
               /\ d.mapped = run[r].mapped \cup (IF run[r].known THEN {Entry(r)} ELSE {})
               /\ d.unmapped = run[r].unmapped \cup (IF run[r].known THEN {} ELSE {Entry(r)})
               /\ d.conflicts = run[r].conflicts /\ d.quiet = run[r].quiet
               /\ d.overwritten = run[r].overwritten \ {Current(r)}
  BY WriteChanges
<1>2. ASSUME OnCourse(run[r], groups, strategy, bound)
      PROVE  /\ OnCourse(d, groups, strategy', bound)
             /\ run[r].plan = PlanOf(groups, bound, Current(r))
  <2> DEFINE c == Current(r)
             D == Done(run[r], bound)
             t == Tail(run[r].todo)
  <2>1. /\ Reported(run[r], bound) /\ Written(run[r], groups, strategy, bound)
        /\ run[r].known = (Majority(bound, Head(run[r].todo)) \in Scripts)
        /\ run[r].plan = PlanOf(groups, bound, Head(run[r].todo))
    BY <1>1, <1>2 DEF OnCourse, Planning, Within
  <2>2. /\ c = Head(run[r].todo) /\ c \in ToSet(run[r].todo)
        /\ c \in Referred(bound) /\ c \in ToSet(Collections)
        /\ Entry(r) = EntryOf(bound, c)
    BY <1>1, <2>1, CurrentOnCourse
  <2>3. /\ IsInjective(t) /\ ToSet(t) = ToSet(run[r].todo) \ {c}
        /\ ToSet(run[r].todo) \subseteq Referred(bound)
    <3>1. run[r].todo \in Seq(ToSet(Collections)) /\ IsInjective(run[r].todo)
      BY <1>1, <2>1, CurrentTyped DEF Reported
    <3>. QED
      BY <1>1, <2>1, <2>2, <3>1, TailFacts DEF Reported
  <2> HIDE DEF c, t
  <2>4. /\ Done(d, bound) = D \cup {c} /\ c \notin D
        /\ Seen(d, bound) = D \cup {c} /\ Seen(run[r], bound) = D \cup {c}
    BY <1>1, <2>2, <2>3 DEF Done, Seen, Within, t
  <2> HIDE DEF D
  <2>5. Reported(d, bound)
    <3> DEFINE M(S) == {EntryOf(bound, e) : e \in {f \in S : Majority(bound, f) \in Scripts}}
               U(S) == {EntryOf(bound, e) : e \in {f \in S : Majority(bound, f) \notin Scripts}}
    <3>1. CASE Majority(bound, c) \in Scripts
      <4>1. M(D \cup {c}) = M(D) \cup {EntryOf(bound, c)} /\ U(D \cup {c}) = U(D)
        BY <3>1
      <4>2. d.mapped = run[r].mapped \cup {EntryOf(bound, c)} /\ d.unmapped = run[r].unmapped
        BY <1>1, <2>1, <2>2, <3>1
      <4>. QED
        BY <1>1, <2>1, <2>3, <2>4, <4>1, <4>2 DEF Reported, D, t
    <3>2. CASE Majority(bound, c) \notin Scripts
      <4>1. U(D \cup {c}) = U(D) \cup {EntryOf(bound, c)} /\ M(D \cup {c}) = M(D)
        BY <3>2
      <4>2. d.unmapped = run[r].unmapped \cup {EntryOf(bound, c)} /\ d.mapped = run[r].mapped
        BY <1>1, <2>1, <2>2, <3>2
      <4>. QED
        BY <1>1, <2>1, <2>3, <2>4, <4>1, <4>2 DEF Reported, D, t
    <3>. QED
      BY <3>1, <3>2
  <2>6. Planning(d, groups, bound)
    BY <1>1 DEF Planning, Within
  <2>7. strategy' = [strategy EXCEPT ![c] = PlanOf(groups, bound, c)]
    BY <1>1, <2>1, <2>2 DEF c
  <2>8. Written(d, groups, strategy', bound)
    <3>1. strategy \in [ToSet(Collections) -> StrategyType]
      BY DEF TypeOK
    <3>2. ASSUME NEW e \in (D \cup {c}) \ d.overwritten
          PROVE  strategy'[e] = PlanOf(groups, bound, e)
      <4>1. e # c => e \in D \ run[r].overwritten
        BY <1>1, <3>2 DEF c
      <4>2. e \in ToSet(Collections) /\ (e # c => strategy[e] = PlanOf(groups, bound, e))
        BY <2>1, <2>2, <3>2, <4>1 DEF Written, D, Done, Referred
      <4>. QED
        BY <2>7, <3>1, <4>2
    <3>. QED
      BY <2>4, <3>2 DEF Written
  <2>9. run[r].plan = PlanOf(groups, bound, Current(r))
    BY <2>1, <2>2 DEF c
  <2>. QED
    BY <2>5, <2>6, <2>8, <2>9 DEF OnCourse
<1>3. run[r].pc # "idle"
  BY <1>1
<1>. QED
  BY <1>1, <1>2, <1>3, AdvanceCourse

(* Where it fails, what it has done before stays done.                     *)
LEMMA FailOnCourse ==
  ASSUME TypeOK, Course, NEW r \in Runs, Fail(r) \/ FailLate(r)
  PROVE  Course'
<1>1. PICK d : /\ Changes(r, d)
               /\ run[r].pc \in {"check", "write"} /\ run[r].todo # <<>>
               /\ d.pc = "failed" /\ Keeps(d, run[r])
               /\ UNCHANGED strategy \/ run[r].pc = "write"
  BY FailChanges
<1>2. /\ d.rows = run[r].rows /\ d.todo = run[r].todo /\ d.quiet = run[r].quiet
      /\ d.overwritten = run[r].overwritten
  BY <1>1 DEF Keeps
<1>3. ASSUME OnCourse(run[r], groups, strategy, bound)
      PROVE  /\ OnCourse(d, groups, strategy', bound)
             /\ UNCHANGED strategy \/ run[r].plan = PlanOf(groups, bound, Current(r))
  <2>1. /\ Reported(run[r], bound) /\ Written(run[r], groups, strategy, bound)
        /\ run[r].plan = PlanOf(groups, bound, Head(run[r].todo))
    BY <1>1, <1>3 DEF OnCourse, Planning
  <2>2. Current(r) \in ToSet(run[r].todo) /\ Current(r) = Head(run[r].todo)
    BY <1>1, <2>1, CurrentOnCourse
  <2>3. Done(d, bound) = Done(run[r], bound) /\ Current(r) \notin Done(d, bound)
    BY <1>2, <2>2 DEF Done
  <2>4. Reported(d, bound)
    BY <1>1, <1>2, <2>1 DEF Reported
  <2>5. Planning(d, groups, bound)
    BY <1>1 DEF Planning, Within
  <2>6. Written(d, groups, strategy', bound)
    <3>1. ASSUME NEW c \in ToSet(Collections), c # Current(r) PROVE strategy'[c] = strategy[c]
      <4>1. \/ UNCHANGED strategy
            \/ strategy' = [strategy EXCEPT ![Current(r)] = run[r].plan]
        BY <1>1 DEF Changes
      <4>2. strategy \in [ToSet(Collections) -> StrategyType]
        BY DEF TypeOK
      <4>. QED
        BY <3>1, <4>1, <4>2
    <3>2. Done(d, bound) \subseteq ToSet(Collections)
      BY DEF Done, Referred
    <3>. QED
      BY <1>2, <2>1, <2>3, <3>1, <3>2 DEF Written
  <2>. QED
    BY <2>1, <2>2, <2>4, <2>5, <2>6 DEF OnCourse
<1>4. run[r].pc # "idle"
  BY <1>1
<1>. QED
  BY <1>1, <1>2, <1>3, <1>4, AdvanceCourse

(* It is done when nothing is left.                                        *)
LEMMA FinishOnCourse ==
  ASSUME TypeOK, Course, NEW r \in Runs, Finish(r)
  PROVE  Course'
<1>1. PICK d : /\ Changes(r, d) /\ UNCHANGED strategy
               /\ run[r].pc = "next" /\ run[r].todo = <<>> /\ d.pc = "done"
               /\ Keeps(d, run[r])
               /\ d.mapped = run[r].mapped /\ d.unmapped = run[r].unmapped
               /\ d.conflicts = run[r].conflicts
  BY FinishChanges, StepChanges
<1>2. /\ d.rows = run[r].rows /\ d.todo = run[r].todo /\ d.quiet = run[r].quiet
      /\ d.overwritten = run[r].overwritten
  BY <1>1 DEF Keeps
<1>3. Done(d, bound) = Done(run[r], bound) /\ Seen(d, bound) = Seen(run[r], bound)
  BY <1>1, <1>2 DEF Done, Seen, Within
<1>4. ASSUME OnCourse(run[r], groups, strategy, bound)
      PROVE  OnCourse(d, groups, strategy, bound)
  <2>1. Reported(d, bound)
    BY <1>1, <1>2, <1>3, <1>4 DEF OnCourse, Reported
  <2>2. Planning(d, groups, bound)
    BY <1>1, <1>2 DEF Planning, Within
  <2>3. Written(d, groups, strategy, bound)
    BY <1>2, <1>3, <1>4 DEF OnCourse, Written
  <2>. QED
    BY <2>1, <2>2, <2>3 DEF OnCourse
<1>5. run[r].pc # "idle"
  BY <1>1
<1>. QED
  BY <1>1, <1>2, <1>4, <1>5, AdvanceCourse

(* When it has answered it is idle again.                                  *)
LEMMA AnswerOnCourse ==
  ASSUME TypeOK, Course, NEW r \in Runs, Answer(r)
  PROVE  Course'
<1>1. /\ Step(r, Idle) /\ UNCHANGED <<groups, strategy, bound, events>>
      /\ Idle.pc = "idle"
  BY DEF Answer, db, Idle
<1>. QED
  BY <1>1, StepChanges, StepCourse

(* Every step keeps the quiet runs on course.                              *)
LEMMA CourseKept == TypeOK /\ Course /\ [Next]_vars => Course'
<1>. SUFFICES ASSUME TypeOK, Course, [Next]_vars PROVE Course'
  OBVIOUS
<1>1. CASE UNCHANGED vars
  BY <1>1 DEF Course, vars
<1>2. CASE Operate
  <2>1. \E deleted : Operator(deleted)
    BY <1>2, OperateNames
  <2>. QED
    BY <2>1, OperatorCourse
<1>3. ASSUME NEW r \in Runs, Start(r) PROVE Course'
  BY <1>3, StartOnCourse
<1>4. ASSUME NEW r \in Runs, MissBindings(r) PROVE Course'
  BY <1>4, MissBindingsChanges, StepChanges, StepCourse
<1>5. ASSUME NEW r \in Runs, Advance(r) PROVE Course'
  <2>1. ASSUME NEW w \in Windows, MisreadWindow(r, w) PROVE Course'
    BY <2>1, MisreadWindowChanges, StepChanges, StepCourse
  <2>. QED
    BY <1>5, <2>1, ReadGroupsOnCourse, MissGroupsOnCourse, ReadWindowOnCourse, CheckOnCourse,
       WriteOnCourse, FailOnCourse, FinishOnCourse, AnswerOnCourse DEF Advance
<1>. QED
  BY <1>1, <1>2, <1>3, <1>4, <1>5 DEF Next

-----------------------------------------------------------------------------
(* The tables and the runs have their types; every user model stays bound  *)
(* to a collection that is there, whatever operators do while runs are     *)
(* under way.                                                              *)
THEOREM MigrationTypeCorrect == Spec => []TypeOK
<1>1. TypeOK /\ [Next]_vars => TypeOK'
  BY StepType
<1>. QED
  BY <1>1, InitType, PTL DEF Spec

(* The plans are valid for the groups they were made for, and those are    *)
(* there unless they have been deleted: the inductive invariant.           *)
THEOREM PlansSound == Spec => []AllSound
<1>1. TypeOK /\ AllSound /\ [Next]_vars => AllSound'
  BY StepSound
<1>. QED
  BY <1>1, InitSound, MigrationTypeCorrect, PTL DEF Spec

(* What a policy is mapped to is refused only where a group it was made    *)
(* for has been deleted since (mapPolicy, validateStrategy).               *)
THEOREM MappedNeverRefused == Spec => []RefusedOnlyIfStirred
<1>1. AllSound => RefusedOnlyIfStirred
  BY DEF AllSound, Sound, RefusedOnlyIfStirred
<1>. QED
  BY <1>1, PlansSound, PTL

(* The quiet runs are on course: the inductive invariant.                  *)
THEOREM QuietRunsOnCourse == Spec => []Course
<1>1. TypeOK /\ Course /\ [Next]_vars => Course'
  BY CourseKept
<1>. QED
  BY <1>1, InitCourse, MigrationTypeCorrect, PTL DEF Spec

(* What the report of a run that is done should say.                       *)
ReportRight(q) ==
  /\ {e.collection : e \in q.mapped \cup q.unmapped} = Referred(bound)
  /\ \A e \in q.mapped \cup q.unmapped :
       /\ IsFavourite(e.policy, bound, e.collection)
       /\ e \in q.mapped <=> e.policy \in Scripts
  /\ {e.collection : e \in q.conflicts} =
       {c \in Referred(bound) : \E u, v \in Users :
          bound[u] = c /\ bound[v] = c /\ PolicyOf[u] # PolicyOf[v]}

(* A collection that is referred to is there, and has a policy.            *)
LEMMA ReferredFacts ==
  ASSUME TypeOK, NEW c \in Referred(bound)
  PROVE  /\ groups[c] \in Layouts /\ Majority(bound, c) \in ToSet(Policies)
         /\ IsFavourite(Majority(bound, c), bound, c)
<1>1. PICK u \in Users : bound[u] = c /\ c \in ToSet(Collections)
  BY DEF Referred
<1>2. bound[u] # Nowhere
  BY <1>1, ConstantsAssumption
<1>3. groups[c] \in Layouts
  BY <1>1, <1>2, ReadTyped DEF TypeOK
<1>. QED
  BY <1>1, <1>3, MajorityFacts

(* A run on course has migrated what it has come past, as intended, and    *)
(* all there is when it is done.                                           *)
LEMMA CourseDone ==
  ASSUME TypeOK, Course
  PROVE  UndisturbedRunsMigrateAll
<1>. SUFFICES ASSUME NEW r \in Runs, run[r].quiet, run[r].pc # "idle"
              PROVE  /\ run[r].pc # "refused"
                     /\ \A c \in Referred(bound) \ (ToSet(run[r].todo) \cup run[r].overwritten) :
                          \E p \in ToSet(Policies) :
                            IsFavourite(p, bound, c) /\ Intended(p, groups[c], strategy[c])
                     /\ run[r].pc = "done" => run[r].todo = <<>> /\ ReportRight(run[r])
  BY DEF UndisturbedRunsMigrateAll, ReportRight, Referred
<1>1. OnCourse(run[r], groups, strategy, bound)
  BY DEF Course
<1>2. run[r].pc # "refused"
  BY <1>1 DEF OnCourse, Planning
<1>3. ASSUME NEW c \in Referred(bound) \ (ToSet(run[r].todo) \cup run[r].overwritten)
      PROVE  \E p \in ToSet(Policies) :
               IsFavourite(p, bound, c) /\ Intended(p, groups[c], strategy[c])
  <2>1. strategy[c] = MapPolicy(Majority(bound, c), groups[c], MaxPrimaryWindow(groups[c]))
    BY <1>1, <1>3 DEF OnCourse, Written, Done, PlanOf
  <2>2. Intended(Majority(bound, c), groups[c], strategy[c])
    BY <1>3, <2>1, ReferredFacts, PlanIntended
  <2>. QED
    BY <1>3, <2>2, ReferredFacts
<1>4. ASSUME run[r].pc = "done" PROVE run[r].todo = <<>> /\ ReportRight(run[r])
  <2> DEFINE R == Referred(bound)
             scripted(c) == Majority(bound, c) \in Scripts
             disputed(c) == \E u, v \in Users :
                              bound[u] = c /\ bound[v] = c /\ PolicyOf[u] # PolicyOf[v]
  <2>1. Reported(run[r], bound) /\ run[r].todo = <<>>
    BY <1>1, <1>4 DEF OnCourse, Planning
  <2>2. Done(run[r], bound) = R /\ Seen(run[r], bound) = R
    BY <1>4, <2>1 DEF Done, Seen, Within, ToSet
  <2>3. \A c : Len(Competing(bound, c)) > 1 <=> disputed(c)
    BY ConflictFacts
  <2>4. \A c \in R : IsFavourite(Majority(bound, c), bound, c)
    BY ReferredFacts
  <2>5. /\ run[r].mapped = {EntryOf(bound, c) : c \in {d \in R : scripted(d)}}
        /\ run[r].unmapped = {EntryOf(bound, c) : c \in {d \in R : ~scripted(d)}}
        /\ run[r].conflicts = {ConflictOf(bound, c) : c \in {d \in R : disputed(d)}}
    BY <1>4, <2>1, <2>2, <2>3 DEF Reported
  <2>6. \A c : EntryOf(bound, c).collection = c /\ EntryOf(bound, c).policy = Majority(bound, c)
    BY DEF EntryOf
  <2>7. \A c : ConflictOf(bound, c).collection = c
    BY DEF ConflictOf
  <2> HIDE DEF R, scripted, disputed
  <2>8. {e.collection : e \in run[r].mapped \cup run[r].unmapped} = R
    BY <2>5, <2>6
  <2>9. ASSUME NEW e \in run[r].mapped \cup run[r].unmapped
        PROVE  /\ IsFavourite(e.policy, bound, e.collection)
               /\ e \in run[r].mapped <=> e.policy \in Scripts
    <3>1. PICK c \in R : e = EntryOf(bound, c)
      BY <2>5
    <3>2. e.collection = c /\ e.policy = Majority(bound, c)
      BY <2>6, <3>1
    <3>3. e \in run[r].mapped <=> scripted(c)
      BY <2>5, <2>6, <3>1
    <3>. QED
      BY <2>4, <3>1, <3>2, <3>3 DEF scripted
  <2>10. {e.collection : e \in run[r].conflicts} = {c \in R : disputed(c)}
    BY <2>5, <2>7
  <2>. QED
    BY <2>1, <2>8, <2>9, <2>10 DEF R, disputed, ReportRight
<1>. QED
  BY <1>2, <1>3, <1>4

(* A run beside which no operator writes, and which reads everything as it *)
(* is, is not refused; what it has come past, when it is done and when it  *)
(* has failed on the way, has the strategy of the policy most of its user  *)
(* models have, unless a run that has been disturbed itself has replaced   *)
(* it; and when it is done all that is referred to is in its report        *)
(* (Migrate and what it calls).  Other runs may be under way, of any       *)
(* number, disturbed, misreading or failing.                               *)
THEOREM UndisturbedMigrationComplete == Spec => []UndisturbedRunsMigrateAll
<1>1. TypeOK /\ Course => UndisturbedRunsMigrateAll
  BY CourseDone
<1>. QED
  BY <1>1, MigrationTypeCorrect, QuietRunsOnCourse, PTL

-----------------------------------------------------------------------------
(* The process: the steps that are not a request's.                        *)
ProcessStep == Run \/ Signal \/ Listen \/ ListenFails

(* What must hold for requests to be safe: there are none before the       *)
(* process serves; once it has closed what they need there are none that   *)
(* it did not warn; and Redis is closed last but for the pool.             *)
Ordered ==
  /\ phase \in {"load", "open"} => listener = "none" /\ \A h \in Requests : req[h] = "out"
  /\ listener = "open" => phase = "serve"
  /\ redis = "closed" => phase \in {"closePool", "exited"}
  /\ phase \in {"closeRedis", "closePool", "exited"} /\ UnderWay # {} => Hasty
  /\ lost # {} => Hasty

(* A process that serves has keys that differ, and serves who has them.    *)
Keyed ==
  /\ phase \in {"open", "serve", "drain", "closeRedis", "closePool"} => Acceptable(config)
  /\ \A h \in served : Acceptable(config) /\ Matches(h)

(* The requests that hold a connection keep the pool from being closed.    *)
Held == \A h \in Requests : req[h] = "querying" => phase \notin {"load", "open", "exited"}

(* A process not yet started has all of it.                                *)
LEMMA ProcessInit == ServerInit => ServerTypeOK /\ Ordered /\ Keyed /\ Held
BY DEF ServerInit, ServerTypeOK, Ordered, Keyed, Held, UnderWay, Finished

(* Every step of a request leaves the process as it is.                    *)
LEMMA HandlerSteps ==
  ASSUME NEW h \in Requests, Handle(h)
  PROVE  /\ UNCHANGED <<config, phase, signalled, listener, pool, redis, expired>>
         /\ phase # "exited"
         /\ \E s : req' = [req EXCEPT ![h] = s]
BY DEF Handle, Accept, Admit, Refuse, Query, Return, Invalidate, AnswerRequest, Goto

(* Every step of the process leaves the requests as they are.              *)
LEMMA ProcessSteps ==
  ASSUME ProcessStep
  PROVE  UNCHANGED <<config, req, served, lost>>
BY DEF ProcessStep, Run, Signal, Listen, ListenFails, Load, Open, OpenFails, Assemble,
   GiveUp, Shutdown, Drained, Expire, CloseRedis, ClosePool, To, handlers

(* The types, and that what is open goes with the phase.                   *)
LEMMA ProcessStepType == ServerTypeOK /\ [ServerNext]_serverVars => ServerTypeOK'
<1>. SUFFICES ASSUME ServerTypeOK, [ServerNext]_serverVars PROVE ServerTypeOK'
  OBVIOUS
<1>1. CASE UNCHANGED serverVars
  BY <1>1 DEF ServerTypeOK, serverVars
<1>2. CASE Load \/ Open \/ OpenFails \/ Assemble \/ GiveUp
  BY <1>2 DEF Load, Open, OpenFails, Assemble, GiveUp, To, handlers, ServerTypeOK
<1>4. CASE Shutdown \/ Drained \/ Expire
  BY <1>4 DEF Shutdown, Drained, Expire, To, handlers, ServerTypeOK
<1>5. CASE CloseRedis \/ ClosePool
  BY <1>5 DEF CloseRedis, ClosePool, To, handlers, ServerTypeOK
<1>6. CASE Signal \/ Listen \/ ListenFails
  BY <1>6 DEF Signal, Listen, ListenFails, handlers, ServerTypeOK
<1>3. ASSUME NEW h \in Requests, Handle(h) PROVE ServerTypeOK'
  BY <1>3 DEF Handle, Accept, Admit, Refuse, Query, Return, Invalidate, AnswerRequest, Goto,
     ServerTypeOK
<1>. QED
  BY <1>1, <1>2, <1>3, <1>4, <1>5, <1>6 DEF ServerNext, Run

(* The order in which the process opens and closes.                        *)
LEMMA OrderKept == ServerTypeOK /\ Ordered /\ [ServerNext]_serverVars => Ordered'
<1>. SUFFICES ASSUME ServerTypeOK, Ordered, [ServerNext]_serverVars PROVE Ordered'
  OBVIOUS
<1>1. CASE UNCHANGED serverVars
  BY <1>1 DEF Ordered, UnderWay, Finished, Hasty, serverVars
<1>2. CASE ProcessStep
  <2>1. UNCHANGED <<req, lost, UnderWay>>
    BY <1>2, ProcessSteps DEF UnderWay, Finished
  <2>2. Hasty => Hasty'
    BY <1>2 DEF ProcessStep, Run, Signal, Listen, ListenFails, Load, Open, OpenFails, Assemble,
       GiveUp, Shutdown, Drained, Expire, CloseRedis, ClosePool, To, handlers, Hasty
  <2>3. phase' \in {"load", "open"} =>
          phase \in {"load", "open"} /\ listener' = "none"
    BY <1>2 DEF ProcessStep, Run, Signal, Listen, ListenFails, Load, Open, OpenFails, Assemble,
       GiveUp, Shutdown, Drained, Expire, CloseRedis, ClosePool, To, Ordered
  <2>4. /\ listener' = "open" => phase' = "serve"
        /\ redis' = "closed" => phase' \in {"closePool", "exited"}
    BY <1>2 DEF ProcessStep, Run, Signal, Listen, ListenFails, Load, Open, OpenFails, Assemble,
       GiveUp, Shutdown, Drained, Expire, CloseRedis, ClosePool, To, Ordered
  <2>5. ASSUME phase' \in {"closeRedis", "closePool", "exited"}, UnderWay # {}
        PROVE  Hasty'
    <3>1. phase \notin {"load", "open"}
      BY <2>5 DEF Ordered, UnderWay, Finished
    <3>2. CASE phase \in {"closeRedis", "closePool", "exited"}
      BY <2>2, <2>5, <3>2 DEF Ordered
    <3>3. CASE phase \in {"serve", "drain"}
      BY <1>2, <2>5, <3>3 DEF ProcessStep, Run, Signal, Listen, ListenFails, Load, Open,
         OpenFails, Assemble, GiveUp, Shutdown, Drained, Expire, CloseRedis, ClosePool, To, Hasty
    <3>. QED
      BY <3>1, <3>2, <3>3 DEF ServerTypeOK
  <2>. QED
    BY <2>1, <2>2, <2>3, <2>4, <2>5 DEF Ordered
<1>3. ASSUME NEW h \in Requests, Handle(h) PROVE Ordered'
  <2>1. /\ UNCHANGED <<config, phase, signalled, listener, pool, redis, expired>>
        /\ phase \notin {"load", "open"} /\ (UnderWay' # {} => UnderWay # {} \/ listener = "open")
    BY <1>3 DEF Handle, Accept, Admit, Refuse, Query, Return, Invalidate, AnswerRequest, Goto,
       UnderWay, Finished, Ordered, ServerTypeOK
  <2>2. lost' = lost \/ (req[h] = "written" /\ redis = "closed")
    BY <1>3 DEF Handle, Accept, Admit, Refuse, Query, Return, Invalidate, AnswerRequest
  <2>3. req[h] = "written" => h \in UnderWay
    BY DEF UnderWay, Finished
  <2>. QED
    BY <2>1, <2>2, <2>3 DEF Ordered, Hasty
<1>. QED
  BY <1>1, <1>2, <1>3 DEF ServerNext, ProcessStep

(* The keys of a process that serves.                                      *)
LEMMA KeysKept == ServerTypeOK /\ Keyed /\ Ordered /\ [ServerNext]_serverVars => Keyed'
<1>. SUFFICES ASSUME ServerTypeOK, Keyed, Ordered, [ServerNext]_serverVars PROVE Keyed'
  OBVIOUS
<1>1. CASE UNCHANGED serverVars
  BY <1>1 DEF Keyed, Acceptable, Matches, serverVars
<1>2. CASE ProcessStep
  <2>1. UNCHANGED <<config, served>>
    BY <1>2, ProcessSteps
  <2>2. phase' \in {"open", "serve", "drain", "closeRedis", "closePool"} => Acceptable(config)
    BY <1>2 DEF ProcessStep, Run, Signal, Listen, ListenFails, Load, Open, OpenFails, Assemble,
       GiveUp, Shutdown, Drained, Expire, CloseRedis, ClosePool, To, Keyed
  <2>. QED
    BY <2>1, <2>2 DEF Keyed, Acceptable, Matches
<1>3. ASSUME NEW h \in Requests, Handle(h) PROVE Keyed'
  <2>1. /\ UNCHANGED <<config, phase>>
        /\ served' = served \/ (served' = served \cup {h} /\ Matches(h) /\ req[h] = "accepted")
    BY <1>3 DEF Handle, Accept, Admit, Refuse, Query, Return, Invalidate, AnswerRequest, Goto
  <2>2. req[h] = "accepted" => phase \notin {"load", "open"}
    BY DEF Ordered
  <2>3. phase # "exited"
    BY <1>3, HandlerSteps
  <2>. QED
    BY <2>1, <2>2, <2>3 DEF Keyed, Acceptable, Matches, ServerTypeOK
<1>. QED
  BY <1>1, <1>2, <1>3 DEF ServerNext, ProcessStep

(* Connections held.                                                       *)
LEMMA ConnectionsKept == ServerTypeOK /\ Ordered /\ Held /\ [ServerNext]_serverVars => Held'
<1>. SUFFICES ASSUME ServerTypeOK, Ordered, Held, [ServerNext]_serverVars PROVE Held'
  OBVIOUS
<1>1. CASE UNCHANGED serverVars
  BY <1>1 DEF Held, serverVars
<1>2. CASE ProcessStep
  <2>1. UNCHANGED req
    BY <1>2, ProcessSteps
  <2>2. /\ phase' \in {"load", "open"} => phase \in {"load", "open"}
        /\ phase' = "exited" =>
             phase \in {"load", "open", "exited"} \/ \A h \in Requests : req[h] # "querying"
    BY <1>2 DEF ProcessStep, Run, Signal, Listen, ListenFails, Load, Open, OpenFails, Assemble,
       GiveUp, Shutdown, Drained, Expire, CloseRedis, ClosePool, To
  <2>. QED
    BY <2>1, <2>2 DEF Held
<1>3. ASSUME NEW h \in Requests, Handle(h) PROVE Held'
  <2>1. UNCHANGED phase /\ phase # "exited"
    BY <1>3, HandlerSteps
  <2>2. phase \notin {"load", "open"}
    BY <1>3 DEF Handle, Accept, Admit, Refuse, Query, Return, Invalidate, AnswerRequest, Ordered
  <2>. QED
    BY <2>1, <2>2 DEF Held
<1>. QED
  BY <1>1, <1>2, <1>3 DEF ServerNext, ProcessStep

(* Type correctness, with the resources of each phase (run, store.Open).   *)
THEOREM ServerTypeCorrect == ServerSpec => []ServerTypeOK
<1>. QED
  BY ProcessInit, ProcessStepType, PTL DEF ServerSpec

(* Requests are answered, and their invalidations made, unless the grace   *)
(* period ran out or the listener failed (run).                            *)
THEOREM NothingIsLostButInHaste == ServerSpec => []LostOnlyInHaste
<1>1. Ordered => LostOnlyInHaste
  BY DEF Ordered, LostOnlyInHaste
<1>. QED
  BY <1>1, ProcessInit, ProcessStepType, OrderKept, PTL DEF ServerSpec

(* No statement is cut off, in haste or not (run, Store.Close).            *)
THEOREM NoStatementIsCutOff == ServerSpec => []NoStatementCutOff
<1>1. Held => NoStatementCutOff
  BY DEF Held, NoStatementCutOff
<1>. QED
  BY <1>1, ProcessInit, ProcessStepType, OrderKept, ConnectionsKept, PTL DEF ServerSpec

(* No key opens both planes (config.Load, requireBearer).                  *)
THEOREM PlanesAreIsolated == ServerSpec => []PlanesIsolated
<1>1. ServerTypeOK /\ Keyed => PlanesIsolated
  <2>. SUFFICES ASSUME ServerTypeOK, Keyed, NEW g \in served, NEW h \in served,
                       Presents[g] = Presents[h]
                PROVE  Plane[g] = Plane[h]
    BY DEF PlanesIsolated
  <2>1. config.key[Plane[g]] = config.key[Plane[h]]
    BY DEF Keyed, Matches
  <2>2. Plane[g] \in Planes /\ Plane[h] \in Planes
    BY ServerAssumption DEF ServerTypeOK
  <2>. QED
    BY <2>1, <2>2 DEF Keyed, Acceptable, Planes
<1>. QED
  BY <1>1, ProcessInit, ProcessStepType, OrderKept, KeysKept, PTL DEF ServerSpec
=============================================================================
